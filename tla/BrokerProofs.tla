----------------------------- MODULE BrokerProofs -----------------------------
(***************************************************************************)
(* Theorems about Broker, for any runs, any number of requests under way   *)
(* and any cap on them, any capabilities and tokens.                       *)
(***************************************************************************)
EXTENDS Broker, FiniteSetTheorems, TLAPS

(***************************************************************************)
(* Slots.  A request that is given up takes itself out of the ones its run *)
(* has open; the count and the set must move together, and only then is    *)
(* the count a number that a release can lower.                            *)
(***************************************************************************)
HolderWaits ==
    lock \in Requests => /\ request[lock].at = "credentials"
                         /\ request[lock].to = "subscription"

Slotted == TypeOK /\ HolderWaits /\ SlotsAreCounted

LEMMA OpenIsFinite ==
    ASSUME NEW r \in Runs
    PROVE  IsFiniteSet(OpenOf(r)) /\ Cardinality(OpenOf(r)) \in Nat
  BY RequestsAssumption, FS_Subset, FS_CardinalityType DEF OpenOf

LEMMA UsersAre == Users = Requests \cup {"startup"} /\ "startup" \notin Requests
  BY UsersAssumption DEF Users

\* What a request that is not open does to itself, short of opening, counts
\* nothing.
LEMMA StillUncounted ==
    ASSUME Slotted, NEW q \in Requests, request[q].at \notin Held,
           request' \in [Requests -> [at : {"none", "arrived", "authorized"} \cup Held,
                                      run : Runs, cap : 0 .. MaxCapabilities,
                                      to : Upstreams, wasLive : BOOLEAN]],
           \A p \in Requests \ {q} : request'[p] = request[p],
           request'[q].at \notin Held,
           inFlight' = inFlight
    PROVE  SlotsAreCounted'
  <1>1. \A r \in Runs : OpenOf(r)' = OpenOf(r)
    BY DEF OpenOf
  <1> QED  BY <1>1 DEF Slotted, SlotsAreCounted

\* A release and the end of its request are one step.
LEMMA ReleasedIsUncounted ==
    ASSUME Slotted, NEW q \in Requests, request[q].at \in Held,
           Release(q), Refuse(q)
    PROVE  /\ SlotsAreCounted'
           /\ inFlight' \in [Runs -> 0 .. MaxInFlight]
  <1> DEFINE run == request[q].run
  <1>1. /\ run \in Runs /\ q \in OpenOf(run)
        /\ inFlight \in [Runs -> 0 .. MaxInFlight]
        /\ MaxInFlight \in Nat
        /\ request \in [Requests -> [at : {"none", "arrived", "authorized"} \cup Held,
                                     run : Runs, cap : 0 .. MaxCapabilities,
                                     to : Upstreams, wasLive : BOOLEAN]]
    BY InFlightAssumption DEF Slotted, TypeOK, OpenOf
  <1>2. Absent.at \notin Held
    BY DEF Absent, Held
  <1>3. \A r \in Runs : OpenOf(r)' = IF r = run THEN OpenOf(r) \ {q} ELSE OpenOf(r)
    BY <1>1, <1>2 DEF OpenOf, Refuse
  <1>4. Cardinality(OpenOf(run) \ {q}) = Cardinality(OpenOf(run)) - 1
    BY <1>1, OpenIsFinite, FS_RemoveElement
  <1>5. /\ inFlight[run] \in Nat /\ inFlight[run] <= MaxInFlight
        /\ inFlight[run] = Cardinality(OpenOf(run))
        /\ inFlight[run] - 1 \in Nat
    <2>1. inFlight[run] \in Nat /\ inFlight[run] <= MaxInFlight
      BY <1>1
    <2>2. inFlight[run] = Cardinality(OpenOf(run))
      BY <1>1 DEF Slotted, SlotsAreCounted
    <2>3. Cardinality(OpenOf(run)) # 0
      BY <1>1, OpenIsFinite, FS_EmptySet
    <2> QED  BY <2>1, <2>2, <2>3
  <1>6. SlotsAreCounted'
    <2> SUFFICES ASSUME NEW r \in Runs
                 PROVE  inFlight'[r] = Cardinality(OpenOf(r)')
      BY DEF SlotsAreCounted
    <2>1. CASE r = run
      BY <2>1, <1>1, <1>3, <1>4, <1>5 DEF Release
    <2>2. CASE r # run
      BY <2>2, <1>1, <1>3 DEF Release, Slotted, SlotsAreCounted
    <2> QED  BY <2>1, <2>2
  <1>7. inFlight' \in [Runs -> 0 .. MaxInFlight]
    BY <1>1, <1>5 DEF Release
  <1> QED  BY <1>6, <1>7

RequestsTyped ==
    request \in [Requests -> [at : {"none", "arrived", "authorized"} \cup Held,
                              run : Runs, cap : 0 .. MaxCapabilities,
                              to : Upstreams, wasLive : BOOLEAN]]

LEMMA AbsentType ==
    Absent \in [at : {"none"}, run : Runs, cap : 0 .. MaxCapabilities,
                to : Upstreams, wasLive : BOOLEAN]
  BY BrokerBoundsAssumption, RunsAssumption DEF Absent, None, Upstreams

LEMMA RefusedType ==
    ASSUME RequestsTyped, NEW q \in Requests, Refuse(q)
    PROVE  RequestsTyped'
  BY AbsentType DEF RequestsTyped, Refuse

\* A request that asks for the credential of its upstream holds a slot, and is
\* relayed with it or gives it back.
LEMMA ServedSlotted ==
    ASSUME Slotted, NEW u \in Users,
           u # "startup" => request[u].at = "credentials", Served(u)
    PROVE  RequestsTyped' /\ inFlight' \in [Runs -> 0 .. MaxInFlight] /\ SlotsAreCounted'
  <1>1. CASE u = "startup"
    BY <1>1 DEF Served, Slotted, SlotsAreCounted, OpenOf, TypeOK, RequestsTyped
  <1>2. CASE u # "startup"
    <2>1. u \in Requests /\ request[u].at = "credentials"
      BY <1>2, UsersAre
    <2>2. request' = [request EXCEPT ![u].at = "relaying"] /\ inFlight' = inFlight
      BY <1>2 DEF Served
    <2>3. \A r \in Runs : OpenOf(r)' = OpenOf(r)
      BY <2>1, <2>2 DEF OpenOf, Held, Slotted, TypeOK
    <2> QED  BY <2>1, <2>2, <2>3 DEF Slotted, TypeOK, SlotsAreCounted, RequestsTyped, Held
  <1> QED  BY <1>1, <1>2

LEMMA DeniedSlotted ==
    ASSUME Slotted, NEW u \in Users,
           u # "startup" => request[u].at \in Held, Denied(u)
    PROVE  RequestsTyped' /\ inFlight' \in [Runs -> 0 .. MaxInFlight] /\ SlotsAreCounted'
  <1>1. CASE u = "startup"
    BY <1>1 DEF Denied, Slotted, SlotsAreCounted, OpenOf, TypeOK, RequestsTyped
  <1>2. CASE u # "startup"
    <2>1. u \in Requests /\ Release(u) /\ Refuse(u)
      BY <1>2, UsersAre DEF Denied
    <2> QED  BY <1>2, <2>1, ReleasedIsUncounted, RefusedType DEF Slotted, TypeOK, RequestsTyped
  <1> QED  BY <1>1, <1>2

\* What leaves requests and slots alone leaves the count right.
LEMMA UntouchedSlotted ==
    ASSUME Slotted, UNCHANGED <<request, inFlight>>
    PROVE  SlotsAreCounted'
  BY DEF Slotted, SlotsAreCounted, OpenOf

LEMMA InitSlotted == Init => Slotted
  <1> SUFFICES ASSUME Init PROVE Slotted
    OBVIOUS
  <1>1. TypeOK
    <2>1. 0 \in 0 .. MaxCapabilities /\ 0 \in 0 .. MaxInFlight /\ 0 \in 0 .. MaxTokens
      BY InFlightAssumption, BrokerBoundsAssumption
    <2>2. record \in [Runs -> [active : BOOLEAN, cap : 0 .. MaxCapabilities, expired : BOOLEAN]]
      BY <2>1 DEF Init, None
    <2>3. RequestsTyped
      BY AbsentType DEF Init, RequestsTyped
    <2> QED  BY <2>1, <2>2, <2>3
             DEF Init, TypeOK, None, Nobody, Users, Tokens, Held, RequestsTyped
  <1>2. HolderWaits
    BY UsersAssumption DEF Init, HolderWaits, Nobody, Absent
  <1>3. \A r \in Runs : OpenOf(r) = {}
    BY DEF Init, OpenOf, Held, Absent
  <1>4. SlotsAreCounted
    BY <1>3, FS_EmptySet DEF SlotsAreCounted, Init
  <1> QED  BY <1>1, <1>2, <1>4 DEF Slotted

LEMMA SlottedStep == Slotted /\ [Next]_vars => Slotted'
  <1> SUFFICES ASSUME Slotted, [Next]_vars PROVE Slotted'
    OBVIOUS
  <1> USE DEF Slotted
  <1>1. ASSUME NEW r \in Runs, Activate(r) PROVE Slotted'
    <2>1. capsIssued + 1 \in 0 .. MaxCapabilities
      BY <1>1, BrokerBoundsAssumption DEF Activate, TypeOK
    <2>2. TypeOK'
      BY <1>1, <2>1 DEF Activate, TypeOK, relayState, credential, stored, provider
    <2> QED  BY <1>1, <2>2, UntouchedSlotted DEF Activate, HolderWaits, relayState, credential
  <1>2. ASSUME NEW r \in Runs, Stop(r) \/ Expire(r) PROVE Slotted'
    <2>1. 0 \in 0 .. MaxCapabilities
      BY BrokerBoundsAssumption
    <2>2. record' \in [Runs -> [active : BOOLEAN, cap : 0 .. MaxCapabilities, expired : BOOLEAN]]
      <3>1. CASE Stop(r)
        BY <3>1, <2>1 DEF Stop, TypeOK, None
      <3>2. CASE Expire(r)
        BY <3>2 DEF Expire, TypeOK
      <3> QED  BY <1>2, <3>1, <3>2
    <2>3. TypeOK'
      BY <1>2, <2>2 DEF Stop, Expire, TypeOK, relayState, credential, stored, provider
    <2> QED  BY <1>2, <2>3, UntouchedSlotted DEF Stop, Expire, HolderWaits, relayState, credential
  <1>3. ASSUME NEW q \in Requests, Arrive(q) PROVE Slotted'
    <2>1. PICK cap \in 1 .. capsIssued, to \in Upstreams, wasLive \in BOOLEAN :
            request' = [request EXCEPT ![q] =
              [Absent EXCEPT !.at = "arrived", !.cap = cap, !.to = to, !.wasLive = wasLive]]
      BY <1>3 DEF Arrive
    <2>2. RequestsTyped'
      <3> DEFINE sent == [Absent EXCEPT !.at = "arrived", !.cap = cap, !.to = to, !.wasLive = wasLive]
      <3>1. cap \in 0 .. MaxCapabilities
        BY BrokerBoundsAssumption DEF TypeOK
      <3>2. sent \in [at : {"arrived"}, run : Runs, cap : 0 .. MaxCapabilities,
                      to : Upstreams, wasLive : BOOLEAN]
        BY <3>1, AbsentType
      <3> QED  BY <2>1, <3>2 DEF TypeOK, RequestsTyped
    <2>3. request[q].at = "none" /\ request'[q].at = "arrived"
      BY <1>3, <2>1, AbsentType DEF Arrive, TypeOK
    <2>4. \A p \in Requests \ {q} : request'[p] = request[p]
      BY <1>3 DEF Arrive, TypeOK
    <2>5. SlotsAreCounted'
      BY <1>3, <2>2, <2>3, <2>4, StillUncounted DEF Arrive, RequestsTyped, Held, relayState
    <2>6. TypeOK'
      BY <1>3, <2>2 DEF Arrive, TypeOK, RequestsTyped, runs, relayState, credential, stored, provider
    <2> QED  BY <1>3, <2>3, <2>4, <2>5, <2>6 DEF Arrive, HolderWaits, credential
  <1>4. ASSUME NEW q \in Requests, Authorize(q) PROVE Slotted'
    <2>1. RequestsTyped'
      BY <1>4, RefusedType DEF Authorize, TypeOK, RequestsTyped
    <2>2. request[q].at = "arrived" /\ request'[q].at \notin Held
      BY <1>4, AbsentType DEF Authorize, TypeOK, Refuse, Held
    <2>3. \A p \in Requests \ {q} : request'[p] = request[p]
      BY <1>4 DEF Authorize, Refuse, TypeOK
    <2>4. SlotsAreCounted'
      BY <1>4, <2>1, <2>2, <2>3, StillUncounted DEF Authorize, RequestsTyped, Held, relayState
    <2>5. TypeOK'
      BY <1>4, <2>1 DEF Authorize, TypeOK, RequestsTyped, runs, relayState, credential, stored, provider
    <2> QED  BY <1>4, <2>2, <2>3, <2>4, <2>5 DEF Authorize, HolderWaits, credential
  <1>5. ASSUME NEW q \in Requests, Acquire(q) PROVE Slotted'
    <2>1. request[q].at = "authorized" /\ request[q].at \notin Held
      BY <1>5 DEF Acquire, Held
    <2>2. CASE Refuse(q) /\ UNCHANGED inFlight
      <3>1. RequestsTyped' /\ request'[q].at \notin Held
            /\ \A p \in Requests \ {q} : request'[p] = request[p]
        BY <2>2, RefusedType, AbsentType DEF Refuse, TypeOK, RequestsTyped, Held
      <3>2. SlotsAreCounted'
        BY <2>1, <2>2, <3>1, StillUncounted DEF RequestsTyped
      <3>3. TypeOK'
        BY <1>5, <2>2, <3>1 DEF Acquire, TypeOK, RequestsTyped, runs, credential, stored, provider
      <3> QED  BY <1>5, <2>1, <3>1, <3>2, <3>3 DEF Acquire, HolderWaits, credential
    <2>3. CASE /\ inFlight[request[q].run] < MaxInFlight
               /\ inFlight' = [inFlight EXCEPT ![request[q].run] = @ + 1]
               /\ request' = [request EXCEPT ![q].at = "credentials"]
      <3> DEFINE run == request[q].run
      <3>1. run \in Runs /\ inFlight \in [Runs -> 0 .. MaxInFlight] /\ MaxInFlight \in Nat
        BY InFlightAssumption DEF TypeOK
      <3>2. RequestsTyped'
        BY <2>3 DEF TypeOK, RequestsTyped, Held
      <3>3. q \notin OpenOf(run)
        BY <2>1 DEF OpenOf
      <3>4. \A r \in Runs : OpenOf(r)' = IF r = run THEN OpenOf(r) \cup {q} ELSE OpenOf(r)
        BY <2>3, <2>1 DEF OpenOf, Held, TypeOK
      <3>5. Cardinality(OpenOf(run) \cup {q}) = Cardinality(OpenOf(run)) + 1
        BY <3>1, <3>3, OpenIsFinite, FS_AddElement
      <3>6. SlotsAreCounted'
        <4> SUFFICES ASSUME NEW r \in Runs
                     PROVE  inFlight'[r] = Cardinality(OpenOf(r)')
          BY DEF SlotsAreCounted
        <4>1. CASE r = run
          BY <4>1, <2>3, <3>1, <3>4, <3>5 DEF SlotsAreCounted
        <4>2. CASE r # run
          BY <4>2, <2>3, <3>1, <3>4 DEF SlotsAreCounted
        <4> QED  BY <4>1, <4>2
      <3>7. inFlight' \in [Runs -> 0 .. MaxInFlight]
        BY <2>3, <3>1
      <3>8. TypeOK'
        BY <1>5, <3>2, <3>7 DEF Acquire, TypeOK, RequestsTyped, runs, credential, stored, provider
      <3>9. HolderWaits'
        BY <1>5, <2>1, <2>3 DEF Acquire, HolderWaits, TypeOK, credential
      <3> QED  BY <3>6, <3>8, <3>9
    <2> QED  BY <1>5, <2>2, <2>3 DEF Acquire
  <1>6. ASSUME NEW q \in Requests, RelayEnds(q) PROVE Slotted'
    <2>1. request[q].at = "relaying" /\ Release(q) /\ Refuse(q)
      BY <1>6 DEF RelayEnds
    <2>2. SlotsAreCounted' /\ inFlight' \in [Runs -> 0 .. MaxInFlight]
      BY <2>1, ReleasedIsUncounted DEF Held
    <2>3. RequestsTyped'
      BY <2>1, RefusedType DEF TypeOK, RequestsTyped
    <2>4. TypeOK'
      BY <1>6, <2>2, <2>3 DEF RelayEnds, TypeOK, RequestsTyped, runs, credential, stored, provider
    <2>5. HolderWaits'
      BY <1>6, <2>1 DEF RelayEnds, Refuse, HolderWaits, TypeOK, credential
    <2> QED  BY <2>2, <2>4, <2>5
  <1>7. ASSUME NEW u \in Users, KeyAuth(u) PROVE Slotted'
    <2>1. u # "startup" => request[u].at = "credentials" /\ request[u].to = "keyed"
      BY <1>7 DEF KeyAuth, Wants
    <2>2. RequestsTyped' /\ inFlight' \in [Runs -> 0 .. MaxInFlight] /\ SlotsAreCounted'
      BY <1>7, <2>1, ServedSlotted, DeniedSlotted DEF KeyAuth, Held
    <2>3. TypeOK'
      BY <1>7, <2>2 DEF KeyAuth, TypeOK, RequestsTyped, runs, stored, provider
    <2>4. HolderWaits'
      BY <1>7, <2>1 DEF KeyAuth, Served, Denied, Refuse, HolderWaits, TypeOK
    <2> QED  BY <2>2, <2>3, <2>4
  <1>8. ASSUME NEW u \in Users, SubscriptionAuth(u) PROVE Slotted'
    <2>1. u # "startup" => request[u].at = "credentials" /\ request[u].to = "subscription"
      BY <1>8 DEF SubscriptionAuth, Wants
    <2>2. RequestsTyped' /\ inFlight' \in [Runs -> 0 .. MaxInFlight] /\ SlotsAreCounted'
      <3>1. \/ Served(u) \/ Denied(u) \/ UNCHANGED <<request, inFlight>>
        BY <1>8 DEF SubscriptionAuth
      <3> QED  BY <2>1, <3>1, ServedSlotted, DeniedSlotted, UntouchedSlotted
               DEF Held, TypeOK, RequestsTyped
    <2>3. cached' \in Tokens /\ lock' \in Users \cup {Nobody}
      BY <1>8 DEF SubscriptionAuth, TypeOK
    <2>4. TypeOK'
      BY <1>8, <2>2, <2>3 DEF SubscriptionAuth, TypeOK, RequestsTyped, runs, stored, provider
    <2>5. HolderWaits'
      <3>1. CASE lock' = u /\ UNCHANGED request
        BY <2>1, <3>1, UsersAre DEF HolderWaits
      <3>2. CASE lock' = Nobody
        BY <3>2, UsersAssumption DEF HolderWaits, Nobody
      <3> QED  BY <1>8, <3>1, <3>2 DEF SubscriptionAuth
    <2> QED  BY <2>2, <2>4, <2>5
  <1>9. ASSUME NEW u \in Users, Refresh(u) \/ RefreshFails(u) \/ Persist(u) PROVE Slotted'
    <2>1. lock = u /\ (u # "startup" => request[u].at = "credentials" /\ request[u].to = "subscription")
      BY <1>9, UsersAre DEF Refresh, RefreshFails, Persist, Refreshing, HolderWaits
    <2>2. RequestsTyped' /\ inFlight' \in [Runs -> 0 .. MaxInFlight] /\ SlotsAreCounted'
      <3>1. \/ Served(u) \/ Denied(u) \/ UNCHANGED <<request, inFlight>>
        BY <1>9 DEF Refresh, RefreshFails, Persist, relayState
      <3> QED  BY <2>1, <3>1, ServedSlotted, DeniedSlotted, UntouchedSlotted
               DEF Held, TypeOK, RequestsTyped
    <2>3. /\ {cached', refreshed', login'} \subseteq Tokens
          /\ live' \subseteq Tokens \ {None} /\ issued' \in Tokens /\ aged' \subseteq Tokens \ {None}
      <3>1. issued \in Nat /\ (issued < MaxTokens => issued + 1 \in Tokens \ {None})
            /\ None \in Tokens
        BY BrokerBoundsAssumption DEF TypeOK, Tokens, None
      <3>2. CASE Rotates
        BY <1>9, <3>1, <3>2 DEF Rotates, Refresh, RefreshFails, Persist, TypeOK, stored, provider
      <3>3. CASE UNCHANGED provider
        BY <1>9, <3>1, <3>3 DEF Refresh, RefreshFails, Persist, Rotates, TypeOK, stored, provider
      <3> QED  BY <1>9, <3>2, <3>3 DEF Refresh, RefreshFails, Persist
    <2>4. TypeOK'
      BY <1>9, <2>2, <2>3
      DEF Refresh, RefreshFails, Persist, TypeOK, RequestsTyped, runs, stored, relayState
    <2>5. HolderWaits'
      <3>1. CASE lock' = Nobody
        BY <3>1, UsersAssumption DEF HolderWaits, Nobody
      <3>2. CASE UNCHANGED <<lock, request>>
        BY <3>2 DEF HolderWaits
      <3> QED  BY <1>9, <3>1, <3>2 DEF Refresh, RefreshFails, Persist
    <2> QED  BY <2>2, <2>4, <2>5
  <1>10. ASSUME LoadCatalog \/ Listen PROVE Slotted'
    <2>1. TypeOK'
      BY <1>10 DEF LoadCatalog, Listen, TypeOK, Upstreams, runs, relayState, credential, stored, provider
    <2> QED  BY <1>10, <2>1, UntouchedSlotted DEF LoadCatalog, Listen, HolderWaits, relayState, credential
  <1>11. ASSUME BrokerEnds PROVE Slotted'
    <2>1. RequestsTyped' /\ \A r \in Runs : OpenOf(r)' = {}
      BY <1>11, AbsentType DEF BrokerEnds, RequestsTyped, OpenOf, Held
    <2>2. 0 \in 0 .. MaxInFlight /\ None \in Tokens
      BY InFlightAssumption, BrokerBoundsAssumption DEF Tokens, None
    <2>3. TypeOK'
      BY <1>11, <2>1, <2>2 DEF BrokerEnds, TypeOK, RequestsTyped, runs, stored, provider
    <2>4. SlotsAreCounted'
      BY <1>11, <2>1, FS_EmptySet DEF BrokerEnds, SlotsAreCounted
    <2>5. HolderWaits'
      BY <1>11, UsersAssumption DEF BrokerEnds, HolderWaits, Nobody
    <2> QED  BY <2>3, <2>4, <2>5
  <1>12. ASSUME LoginSubscription \/ LogoutSubscription PROVE Slotted'
    <2>1. None \in Tokens /\ (issued < MaxTokens => issued + 1 \in Tokens \ {None})
      BY BrokerBoundsAssumption DEF TypeOK, Tokens, None
    <2>2. TypeOK'
      BY <1>12, <2>1
      DEF LoginSubscription, LogoutSubscription, TypeOK, runs, relayState, credential, provider
    <2> QED  BY <1>12, <2>2, UntouchedSlotted
             DEF LoginSubscription, LogoutSubscription, HolderWaits, relayState, credential
  <1>13. ASSUME SaveRecord \/ StoreKey \/ DeleteKey \/ RemoveRecord \/ KeyCommandEnds PROVE Slotted'
    <2>1. TypeOK'
      BY <1>13 DEF SaveRecord, StoreKey, DeleteKey, RemoveRecord, KeyCommandEnds, UntouchedByKeys,
                   TypeOK, runs, relayState, credential, provider
    <2> QED  BY <1>13, <2>1, UntouchedSlotted
             DEF SaveRecord, StoreKey, DeleteKey, RemoveRecord, KeyCommandEnds, UntouchedByKeys,
                 HolderWaits, relayState, credential
  <1>14. ASSUME NEW c, Age(c) PROVE Slotted'
    <2>1. TypeOK'
      BY <1>14 DEF Age, TypeOK, runs, relayState, credential, stored
    <2> QED  BY <1>14, <2>1, UntouchedSlotted DEF Age, HolderWaits, relayState, credential
  <1>15. CASE UNCHANGED vars
    <2>1. TypeOK'
      BY <1>15 DEF vars, TypeOK, runs, relayState, credential, stored, provider
    <2> QED  BY <1>15, <2>1, UntouchedSlotted DEF vars, HolderWaits, relayState, credential
  <1> QED  BY <1>1, <1>2, <1>3, <1>4, <1>5, <1>6, <1>7, <1>8, <1>9, <1>10, <1>11, <1>12,
              <1>13, <1>14, <1>15 DEF Next

\* Every variable of the broker keeps its type.
THEOREM TypeCorrect == Spec => []TypeOK
  <1>1. Slotted => TypeOK
    BY DEF Slotted
  <1> QED  BY <1>1, InitSlotted, SlottedStep, PTL DEF Spec

\* The count of requests in flight is the number of requests a run has open,
\* however many runs, requests and upstreams there are: every way out of
\* ServeHTTP gives its slot back, once.
THEOREM EverySlotComesBack == Spec => []SlotsAreCounted
  <1>1. Slotted => SlotsAreCounted
    BY DEF Slotted
  <1> QED  BY <1>1, InitSlotted, SlottedStep, PTL DEF Spec
-----------------------------------------------------------------------------
(***************************************************************************)
(* Capabilities.  A capability is issued once, so one that no run answers  *)
(* to when a request arrives is one no run ever answers to again: what a   *)
(* later resume gives out is newer than everything that was sent.          *)
(***************************************************************************)
Owed(q) ==
    /\ request[q].cap <= capsIssued
    /\ request[q].at = "arrived" /\ ~request[q].wasLive => \A r \in Runs : ~Presents(q, r)
    /\ request[q].at \in {"authorized"} \cup Held => request[q].wasLive

Authorized == Slotted /\ \A q \in Requests : Owed(q)

LEMMA InitAuthorized == Init => Authorized
  BY InitSlotted DEF Authorized, Owed, Init, Absent, Held, None

\* A request no run answers to stays so while no run is activated.
LEMMA OwedStays ==
    ASSUME Slotted, NEW q \in Requests, Owed(q), request'[q] = request[q],
           capsIssued' = capsIssued,
           \A r \in Runs : Presents(q, r)' => Presents(q, r)
    PROVE  Owed(q)'
  BY DEF Owed

\* A request that goes on from where it was, or is given up.
LEMMA OwedGoesOn ==
    ASSUME Slotted, NEW q \in Requests, Owed(q), UNCHANGED runs,
           \/ request'[q] = request[q]
           \/ request'[q] = Absent
           \/ /\ request[q].at \in {"authorized"} \cup Held
              /\ request'[q] \in {[request[q] EXCEPT !.at = "credentials"],
                                  [request[q] EXCEPT !.at = "relaying"]}
    PROVE  Owed(q)'
  <1>1. request[q] \in [at : {"none", "arrived", "authorized"} \cup Held,
                        run : Runs, cap : 0 .. MaxCapabilities,
                        to : Upstreams, wasLive : BOOLEAN]
        /\ capsIssued \in Nat
    BY BrokerBoundsAssumption DEF Slotted, TypeOK
  <1>2. CASE request'[q] = request[q]
    BY <1>2 DEF Owed, Presents, runs
  <1>3. CASE request'[q] = Absent
    BY <1>1, <1>3 DEF Owed, Absent, None, Held, runs
  <1>4. CASE request[q].at \in {"authorized"} \cup Held
             /\ request'[q] \in {[request[q] EXCEPT !.at = "credentials"],
                                 [request[q] EXCEPT !.at = "relaying"]}
    BY <1>1, <1>4 DEF Owed, Held, runs
  <1> QED  BY <1>2, <1>3, <1>4

LEMMA AuthorizedStep == Authorized /\ [Next]_vars => Authorized'
  <1> SUFFICES ASSUME Authorized, [Next]_vars, NEW q \in Requests
               PROVE  Owed(q)'
    BY SlottedStep DEF Authorized
  <1>0. Slotted /\ Owed(q) /\ capsIssued \in Nat
        /\ request[q] \in [at : {"none", "arrived", "authorized"} \cup Held,
                           run : Runs, cap : 0 .. MaxCapabilities,
                           to : Upstreams, wasLive : BOOLEAN]
    BY BrokerBoundsAssumption DEF Authorized, Slotted, TypeOK
  <1>1. ASSUME NEW r \in Runs, Activate(r) PROVE Owed(q)'
    <2>1. request'[q] = request[q] /\ capsIssued' = capsIssued + 1
      BY <1>1 DEF Activate
    <2>2. \A s \in Runs : Presents(q, s)' => Presents(q, s)
      <3> SUFFICES ASSUME NEW s \in Runs, Presents(q, s)' PROVE Presents(q, s)
        OBVIOUS
      <3>1. CASE s = r
        BY <1>0, <1>1, <2>1, <3>1 DEF Activate, Presents, Owed, Slotted, TypeOK
      <3>2. CASE s # r
        BY <1>0, <1>1, <2>1, <3>2 DEF Activate, Presents, Slotted, TypeOK
      <3> QED  BY <3>1, <3>2
    <2> QED  BY <1>0, <2>1, <2>2 DEF Owed
  <1>2. ASSUME NEW r \in Runs, Stop(r) \/ Expire(r) PROVE Owed(q)'
    <2>1. request'[q] = request[q] /\ capsIssued' = capsIssued
      BY <1>2 DEF Stop, Expire
    <2>2. \A s \in Runs : Presents(q, s)' => Presents(q, s)
      BY <1>0, <1>2, <2>1 DEF Stop, Expire, Presents, Slotted, TypeOK
    <2> QED  BY <1>0, <2>1, <2>2, OwedStays
  <1>3. ASSUME NEW p \in Requests, Arrive(p) PROVE Owed(q)'
    <2>1. CASE p = q
      <3>1. request'[q].cap \in 1 .. capsIssued /\ request'[q].at = "arrived"
            /\ request'[q].wasLive = \E r \in Runs : /\ record[r].active /\ ~record[r].expired
                                                    /\ record[r].cap = request'[q].cap
        BY <1>0, <1>3, <2>1, AbsentType DEF Arrive, Slotted, TypeOK
      <3> QED  BY <1>0, <1>3, <3>1 DEF Arrive, Owed, Presents, Held, runs
    <2>2. CASE p # q
      BY <1>0, <1>3, <2>2, OwedGoesOn DEF Arrive, Slotted, TypeOK
    <2> QED  BY <2>1, <2>2
  <1>4. ASSUME NEW p \in Requests, Authorize(p) PROVE Owed(q)'
    <2>1. ASSUME NEW r \in Runs, p = q, Presents(q, r),
                 request' = [request EXCEPT ![q].at = "authorized", ![q].run = r]
          PROVE  Owed(q)'
      <3>1. request[q].wasLive
        BY <1>0, <1>4, <2>1 DEF Owed, Authorize
      <3>2. /\ request'[q].at = "authorized" /\ request'[q].wasLive
            /\ request'[q].cap = request[q].cap /\ capsIssued' = capsIssued
        BY <1>0, <1>4, <2>1, <3>1 DEF Authorize, Slotted, TypeOK, runs
      <3> QED  BY <1>0, <3>2 DEF Owed
    <2>2. CASE p = q /\ Refuse(q)
      BY <1>0, <1>4, <2>2, OwedGoesOn DEF Authorize, Refuse, Slotted, TypeOK
    <2>3. CASE p # q
      BY <1>0, <1>4, <2>3, OwedGoesOn DEF Authorize, Refuse, Slotted, TypeOK
    <2> QED  BY <1>4, <2>1, <2>2, <2>3 DEF Authorize
  <1>5. ASSUME NEW p \in Requests, Acquire(p) \/ RelayEnds(p) PROVE Owed(q)'
    BY <1>0, <1>5, OwedGoesOn DEF Acquire, RelayEnds, Refuse, Slotted, TypeOK
  <1>6. ASSUME NEW u \in Users, KeyAuth(u) \/ SubscriptionAuth(u) PROVE Owed(q)'
    <2>1. u # "startup" => u \in Requests /\ request[u].at = "credentials"
      BY <1>6, UsersAre DEF KeyAuth, SubscriptionAuth, Wants
    <2> QED  BY <1>0, <1>6, <2>1, OwedGoesOn
             DEF KeyAuth, SubscriptionAuth, Served, Denied, Refuse, Slotted, TypeOK, Held
  <1>7. ASSUME NEW u \in Users, Refresh(u) \/ RefreshFails(u) \/ Persist(u) PROVE Owed(q)'
    <2>1. u # "startup" => u \in Requests /\ request[u].at = "credentials"
      BY <1>0, <1>7, UsersAre DEF Refresh, RefreshFails, Persist, Refreshing, Slotted, HolderWaits
    <2> QED  BY <1>0, <1>7, <2>1, OwedGoesOn
             DEF Refresh, RefreshFails, Persist, Served, Denied, Refuse, Slotted, TypeOK, Held
  <1>8. ASSUME BrokerEnds PROVE Owed(q)'
    BY <1>0, <1>8, OwedGoesOn DEF BrokerEnds
  <1>9. ASSUME UNCHANGED <<runs, request>> PROVE Owed(q)'
    BY <1>0, <1>9, OwedGoesOn
  <1> QED  BY <1>1, <1>2, <1>3, <1>4, <1>5, <1>6, <1>7, <1>8, <1>9
           DEF Next, vars, LoadCatalog, Listen, LoginSubscription, LogoutSubscription, SaveRecord,
               StoreKey, DeleteKey, RemoveRecord, KeyCommandEnds, UntouchedByKeys, Age

\* No request is relayed that came when no live run answered to its capability,
\* however often its run was stopped, expired or resumed since.
THEOREM ServedRunsWereLive == Spec => []OnlyLiveRunsAreServed
  <1>1. Authorized => OnlyLiveRunsAreServed
    BY DEF Authorized, Owed, OnlyLiveRunsAreServed
  <1> QED  BY <1>1, InitAuthorized, AuthorizedStep, PTL DEF Spec

-----------------------------------------------------------------------------
(***************************************************************************)
(* Stored credentials.                                                     *)
(***************************************************************************)
\* A credential that was refreshed and is not yet saved is one the provider
\* accepts; it ends the stored one only while the lock is held.
Rotating == refreshed # None => refreshed \in live /\ lock # Nobody

Surviving == TypeOK /\ Rotating /\ LoginSurvives

LEMMA SurvivingStep == Slotted /\ Surviving /\ [Next]_vars => Surviving'
  <1> SUFFICES ASSUME Slotted, Surviving, [Next]_vars PROVE (Rotating /\ LoginSurvives)'
    BY SlottedStep DEF Slotted, Surviving
  <1> USE DEF Surviving
  <1>0. issued \in Nat /\ issued + 1 # None
    BY BrokerBoundsAssumption DEF TypeOK, Tokens, None
  <1>1. ASSUME NEW u \in Users, Refresh(u) PROVE (Rotating /\ LoginSurvives)'
    <2>1. u # Nobody
      BY UsersAssumption DEF Users, Nobody
    <2> QED  BY <1>0, <1>1, <2>1 DEF Refresh, Refreshing, Rotates, Rotating, LoginSurvives, stored
  <1>2. ASSUME NEW u \in Users, RefreshFails(u) PROVE (Rotating /\ LoginSurvives)'
    BY <1>2 DEF RefreshFails, Refreshing, Rotates, Rotating, LoginSurvives, stored, provider
  <1>3. ASSUME NEW u \in Users, Persist(u) PROVE (Rotating /\ LoginSurvives)'
    BY <1>3 DEF Persist, Rotating, LoginSurvives, provider
  <1>4. ASSUME BrokerEnds PROVE (Rotating /\ LoginSurvives)'
    BY <1>4 DEF BrokerEnds, Rotating, LoginSurvives, stored, provider
  <1>5. ASSUME LoginSubscription \/ LogoutSubscription PROVE (Rotating /\ LoginSurvives)'
    BY <1>5 DEF LoginSubscription, LogoutSubscription, Rotating, LoginSurvives, credential, provider
  <1>6. ASSUME UNCHANGED <<refreshed, lock, login, live, slip>>
        PROVE  (Rotating /\ LoginSurvives)'
    BY <1>6 DEF Rotating, LoginSurvives
  <1>7. ASSUME NEW u \in Users, SubscriptionAuth(u) PROVE (Rotating /\ LoginSurvives)'
    BY <1>7 DEF SubscriptionAuth, Rotating, LoginSurvives, stored, provider
  <1> QED  BY <1>1, <1>2, <1>3, <1>4, <1>5, <1>6, <1>7
           DEF Next, vars, Activate, Stop, Expire, Arrive, Authorize, Acquire, RelayEnds, KeyAuth,
               LoadCatalog, Listen, SaveRecord, StoreKey, DeleteKey, RemoveRecord, KeyCommandEnds,
               UntouchedByKeys, Age, credential, stored, provider

\* The stored login can be refreshed unless an answer or a saving was lost,
\* however logins, logouts, brokers and refreshes interleave.
THEOREM StoredLoginWorks == Spec => []LoginSurvives
  <1>1. Init => Slotted /\ Surviving
    BY InitSlotted DEF Init, Slotted, Surviving, Rotating, LoginSurvives
  <1>2. Slotted /\ Surviving /\ [Next]_vars => (Slotted /\ Surviving)'
    BY SlottedStep, SurvivingStep
  <1>3. Slotted /\ Surviving => LoginSurvives
    BY DEF Surviving
  <1> QED  BY <1>1, <1>2, <1>3, PTL DEF Spec

\* A login records the provider before its key, and a logout removes the key
\* before the record.
Paired ==
    /\ KeysAreNamed
    /\ command = "storing-key" => named
    /\ command = "removing-record" => ~key

\* A stored key has a record that names it, wherever a login or logout was cut.
THEOREM StoredKeysAreNamed == Spec => []KeysAreNamed
  <1>1. Init => Paired
    BY DEF Init, Paired, KeysAreNamed
  <1>2. Paired /\ [Next]_vars => Paired'
    <2> SUFFICES ASSUME Paired, [Next]_vars PROVE Paired'
      OBVIOUS
    <2>1. CASE SaveRecord \/ StoreKey \/ DeleteKey \/ RemoveRecord \/ KeyCommandEnds
      BY <2>1 DEF SaveRecord, StoreKey, DeleteKey, RemoveRecord, KeyCommandEnds, Paired, KeysAreNamed
    <2>2. CASE UNCHANGED <<key, named, command>>
      BY <2>2 DEF Paired, KeysAreNamed
    <2> QED  BY <2>1, <2>2
             DEF Next, vars, Activate, Stop, Expire, Arrive, Authorize, Acquire, RelayEnds, KeyAuth,
                 SubscriptionAuth, Refresh, RefreshFails, Persist, LoadCatalog, Listen, BrokerEnds,
                 LoginSubscription, LogoutSubscription, Age, stored
  <1>3. Paired => KeysAreNamed
    BY DEF Paired
  <1> QED  BY <1>1, <1>2, <1>3, PTL DEF Spec
==============================================================================
