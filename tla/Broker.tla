-------------------------------- MODULE Broker --------------------------------
(***************************************************************************)
(* The inference broker on the Mac and the credentials it answers with.    *)
(* Runs send it requests that carry a capability; it reads the records on  *)
(* every request, admits a few of each run at a time and relays them with  *)
(* the Mac's own credentials.  The subscription's refresh token rotates:   *)
(* each refresh may end the token it was made with.  Logins are stored and *)
(* removed by other processes while the broker serves.                     *)
(*                                                                         *)
(* The provider, the runs' clients and the keychain are external.          *)
(***************************************************************************)
EXTENDS Integers, FiniteSets

CONSTANTS
    Requests,           \* requests a run's client has under way
    Runs,
    MaxInFlight,        \* requests of one run relayed at a time
    MaxCapabilities,    \* bound: capabilities issued
    MaxTokens           \* bound: refresh tokens issued

ASSUME InFlightAssumption == MaxInFlight \in Nat \ {0}
ASSUME BrokerBoundsAssumption == MaxCapabilities \in Nat /\ MaxTokens \in Nat
ASSUME RequestsAssumption == IsFiniteSet(Requests)
ASSUME RunsAssumption == Runs # {}
ASSUME UsersAssumption == {"startup", "nobody"} \cap Requests = {}

VARIABLES
    record,     \* each run's record, as far as the broker reads it
    capsIssued, \* capabilities issued so far
    serving,    \* the broker: down, starting or up
    catalog,    \* the upstreams it was started with
    inFlight,   \* requests it counts as under way, by run
    request,    \* each request and how far it has come
    lock,       \* who holds the subscription's credential
    cached,     \* the subscription credential the broker has loaded, or None
    keyCached,  \* whether it has loaded the API key
    refreshed,  \* the credential a refresh has answered with, not yet saved
    login,      \* the subscription credential in the keychain, or None
    key,        \* whether the keychain holds the API key
    named,      \* whether a provider record names it
    command,    \* a login or logout under way for the API key
    live,       \* refresh tokens the provider accepts
    aged,       \* credentials whose access token is about to expire
    issued,     \* credentials the provider has issued so far
    slip        \* an answer or a saving of a rotation since the login was lost

runs == <<record, capsIssued>>
credential == <<lock, cached, keyCached, refreshed>>
relayState == <<catalog, inFlight>>
stored == <<login, key, named, command>>
provider == <<live, aged, issued>>
vars == <<runs, serving, relayState, request, credential, stored, provider, slip>>

None == 0
Nobody == "nobody"
Upstreams == {"subscription", "keyed"}
Users == Requests \cup {"startup"}

Absent == [at |-> "none", run |-> CHOOSE r \in Runs : TRUE, cap |-> None,
           to |-> "subscription", wasLive |-> FALSE]

\* A run whose start has activated it holds a capability nobody else holds.
Init ==
    /\ record = [r \in Runs |-> [active |-> FALSE, cap |-> None, expired |-> FALSE]]
    /\ capsIssued = 0
    /\ serving = "down"
    /\ catalog = {} /\ inFlight = [r \in Runs |-> 0]
    /\ request = [q \in Requests |-> Absent]
    /\ lock = Nobody /\ cached = None /\ keyCached = FALSE /\ refreshed = None
    /\ login = None /\ key = FALSE /\ named = FALSE /\ command = "none"
    /\ live = {} /\ aged = {} /\ issued = 0
    /\ slip = FALSE

-----------------------------------------------------------------------------
(***************************************************************************)
(* The records the broker reads.                                           *)
(***************************************************************************)
\* Activation or resume: a fresh capability, and not for an expired run.
Activate(r) ==
    /\ ~record[r].active /\ ~record[r].expired
    /\ capsIssued < MaxCapabilities
    /\ capsIssued' = capsIssued + 1
    /\ record' = [record EXCEPT ![r].active = TRUE, ![r].cap = capsIssued + 1]
    /\ UNCHANGED <<serving, relayState, request, credential, stored, provider, slip>>

\* A stop takes the capability away.
Stop(r) ==
    /\ record[r].active
    /\ record' = [record EXCEPT ![r].active = FALSE, ![r].cap = None]
    /\ UNCHANGED <<capsIssued, serving, relayState, request, credential, stored, provider, slip>>

\* A run's time is up while its container is still there.
Expire(r) ==
    /\ ~record[r].expired
    /\ record' = [record EXCEPT ![r].expired = TRUE]
    /\ UNCHANGED <<capsIssued, serving, relayState, request, credential, stored, provider, slip>>

Presents(q, r) == record[r].active /\ record[r].cap = request[q].cap /\ ~record[r].expired

-----------------------------------------------------------------------------
(***************************************************************************)
(* Serving a request.                                                      *)
(***************************************************************************)
\* A client sends any capability its run was ever given.
Arrive(q) ==
    /\ serving = "up" /\ request[q].at = "none"
    /\ \E cap \in 1 .. capsIssued, to \in Upstreams :
          request' = [request EXCEPT ![q] =
             [Absent EXCEPT !.at = "arrived", !.cap = cap, !.to = to,
                 !.wasLive = \E r \in Runs : /\ record[r].active /\ ~record[r].expired
                                             /\ record[r].cap = cap]]
    /\ UNCHANGED <<runs, serving, relayState, credential, stored, provider, slip>>

Refuse(q) == request' = [request EXCEPT ![q] = Absent]

\* Mutant of Authorize: how long the run may still live is not asked.
AuthorizeExpired(q) ==
    /\ request[q].at = "arrived"
    /\ \/ \E r \in Runs :
             /\ record[r].active /\ record[r].cap = request[q].cap
             /\ request' = [request EXCEPT ![q].at = "authorized", ![q].run = r]
       \/ /\ ~\E r \in Runs : record[r].active /\ record[r].cap = request[q].cap
          /\ Refuse(q)
    /\ UNCHANGED <<runs, serving, relayState, credential, stored, provider, slip>>

\* The capability must be an active, unexpired run's in the records as they are
\* now; a listing that fails admits nobody.
Authorize(q) ==
    /\ request[q].at = "arrived"
    /\ \/ \E r \in Runs :
             /\ Presents(q, r)
             /\ request' = [request EXCEPT ![q].at = "authorized", ![q].run = r]
       \/ Refuse(q)
    /\ UNCHANGED <<runs, serving, relayState, credential, stored, provider, slip>>

\* A configured upstream and a free slot; what is no POST or too large is
\* refused as well.
Acquire(q) ==
    /\ request[q].at = "authorized"
    /\ \/ /\ request[q].to \in catalog
          /\ inFlight[request[q].run] < MaxInFlight
          /\ inFlight' = [inFlight EXCEPT ![request[q].run] = @ + 1]
          /\ request' = [request EXCEPT ![q].at = "credentials"]
       \/ Refuse(q) /\ UNCHANGED inFlight
    /\ UNCHANGED <<runs, serving, catalog, credential, stored, provider, slip>>

\* The slot of a request that ends, however it ends.
Release(q) == inFlight' = [inFlight EXCEPT ![request[q].run] = @ - 1]

\* The upstream's answer has been streamed, or failed, or its client is gone.
RelayEnds(q) ==
    /\ request[q].at = "relaying"
    /\ Release(q) /\ Refuse(q)
    /\ UNCHANGED <<runs, serving, catalog, credential, stored, provider, slip>>

-----------------------------------------------------------------------------
(***************************************************************************)
(* Credentials.  The broker asks for every one of them as it starts.       *)
(***************************************************************************)
Wants(u, upstream) ==
    IF u = "startup" THEN serving = "starting" /\ upstream \in catalog
    ELSE request[u].at = "credentials" /\ request[u].to = upstream

Served(u) ==
    IF u = "startup" THEN UNCHANGED <<request, inFlight>>
    ELSE request' = [request EXCEPT ![u].at = "relaying"] /\ UNCHANGED inFlight

\* Mutant of Denied: the slot is given back only after a relay.
DeniedHoldingItsSlot(u) ==
    IF u = "startup" THEN UNCHANGED <<request, inFlight>> ELSE Refuse(u) /\ UNCHANGED inFlight

Denied(u) ==
    IF u = "startup" THEN UNCHANGED <<request, inFlight>> ELSE Release(u) /\ Refuse(u)

\* The API key is read once and kept; a missing one is asked for again.
KeyAuth(u) ==
    /\ Wants(u, "keyed")
    /\ \/ /\ keyCached \/ key
          /\ keyCached' = TRUE
          /\ Served(u)
       \/ /\ ~keyCached
          /\ Denied(u)
          /\ UNCHANGED keyCached
    /\ UNCHANGED <<runs, serving, catalog, lock, cached, refreshed, stored, provider, slip>>

\* The lock is held from the first look at the credential to its use.
SubscriptionAuth(u) ==
    /\ Wants(u, "subscription") /\ lock = Nobody
    /\ LET loaded == IF cached = None THEN login ELSE cached IN
       \/ /\ loaded # None
          /\ cached' = loaded
          /\ IF loaded \in aged THEN lock' = u /\ UNCHANGED <<request, inFlight>>
             ELSE Served(u) /\ UNCHANGED lock
       \/ /\ cached = None     \* nothing is stored, or the keychain fails
          /\ Denied(u)
          /\ UNCHANGED <<lock, cached>>
    /\ UNCHANGED <<runs, serving, catalog, keyCached, refreshed, stored, provider, slip>>

Refreshing(u) == lock = u /\ refreshed = None

\* The provider rotates the token; whether the old one still works is its choice.
Rotates ==
    /\ cached \in live /\ issued < MaxTokens
    /\ issued' = issued + 1
    /\ live' \in {live \cup {issued + 1}, (live \ {cached}) \cup {issued + 1}}
    /\ UNCHANGED aged

Refresh(u) ==
    /\ Refreshing(u)
    /\ Rotates
    /\ refreshed' = issued + 1
    /\ UNCHANGED <<runs, serving, relayState, request, lock, cached, keyCached, stored, slip>>

\* The provider refuses, cannot be reached, or its answer is lost.
RefreshFails(u) ==
    /\ Refreshing(u)
    /\ \/ UNCHANGED <<provider, slip>>
       \/ Rotates /\ slip' = TRUE
    /\ lock' = Nobody /\ Denied(u)
    /\ UNCHANGED <<runs, serving, catalog, cached, keyCached, refreshed, stored>>

\* Mutant of Persist: the refreshed credential is used before it is saved.
PersistLater(u) ==
    /\ lock = u /\ refreshed # None
    /\ \/ cached' = refreshed /\ Served(u) /\ UNCHANGED <<login, slip>>
       \/ /\ login' \in {login, refreshed}
          /\ slip' = TRUE
          /\ Denied(u) /\ UNCHANGED cached
    /\ lock' = Nobody /\ refreshed' = None
    /\ UNCHANGED <<runs, serving, catalog, keyCached, key, named, command, provider>>

\* It is saved over whatever is stored, and used only once that has worked.
Persist(u) ==
    /\ lock = u /\ refreshed # None
    /\ \/ login' = refreshed /\ cached' = refreshed /\ Served(u) /\ UNCHANGED slip
       \/ /\ login' \in {login, refreshed}
          /\ slip' = TRUE
          /\ Denied(u) /\ UNCHANGED cached
    /\ lock' = Nobody /\ refreshed' = None
    /\ UNCHANGED <<runs, serving, catalog, keyCached, key, named, command, provider>>

-----------------------------------------------------------------------------
(***************************************************************************)
(* The broker process.                                                     *)
(***************************************************************************)
\* The catalog is what is stored as it starts; no secret is read for it.
LoadCatalog ==
    /\ serving = "down"
    /\ serving' = "starting"
    /\ catalog' = (IF login # None THEN {"subscription"} ELSE {})
                  \cup (IF named THEN {"keyed"} ELSE {})
    /\ UNCHANGED <<runs, inFlight, request, credential, stored, provider, slip>>

\* A login that could not be used withholds none of the others.
Listen ==
    /\ serving = "starting" /\ lock = Nobody
    /\ serving' = "up"
    /\ UNCHANGED <<runs, relayState, request, credential, stored, provider, slip>>

\* Interrupted, killed, or its forward into the VM is gone: all it held goes.
BrokerEnds ==
    /\ serving # "down"
    /\ serving' = "down"
    /\ catalog' = {} /\ inFlight' = [r \in Runs |-> 0]
    /\ request' = [q \in Requests |-> Absent]
    /\ lock' = Nobody /\ cached' = None /\ keyCached' = FALSE /\ refreshed' = None
    /\ slip' = (slip \/ refreshed # None)
    /\ UNCHANGED <<runs, stored, provider>>

-----------------------------------------------------------------------------
(***************************************************************************)
(* Logins and logouts, which other processes make.                         *)
(***************************************************************************)
LoginSubscription ==
    /\ issued < MaxTokens
    /\ issued' = issued + 1 /\ live' = live \cup {issued + 1}
    /\ login' = issued + 1
    /\ slip' = FALSE
    /\ UNCHANGED <<runs, serving, relayState, request, credential, key, named, command, aged>>

\* Whether anything is stored is asked; the credential is not read.
LogoutSubscription ==
    /\ login # None
    /\ login' = None
    /\ UNCHANGED <<runs, serving, relayState, request, credential, key, named, command, provider, slip>>

UntouchedByKeys ==
    UNCHANGED <<runs, serving, relayState, request, credential, login, provider, slip>>

\* Mutant of SaveRecord and of StoreKey together: the key is stored first.
SaveRecordUnwritten ==
    /\ command = "none"
    /\ command' = "storing-key"
    /\ UNCHANGED <<named, key>>
    /\ UntouchedByKeys

\* A login records the upstream before it stores its key.
SaveRecord ==
    /\ command = "none"
    /\ named' = TRUE /\ command' = "storing-key"
    /\ UNCHANGED key
    /\ UntouchedByKeys

StoreKey ==
    /\ command = "storing-key"
    /\ key' = TRUE /\ command' = "none"
    /\ UNCHANGED named
    /\ UntouchedByKeys

\* A logout removes the key before the record.
DeleteKey ==
    /\ command = "none" /\ named
    /\ key' = FALSE /\ command' = "removing-record"
    /\ UNCHANGED named
    /\ UntouchedByKeys

RemoveRecord ==
    /\ command = "removing-record"
    /\ named' = FALSE /\ command' = "none"
    /\ UNCHANGED key
    /\ UntouchedByKeys

\* The keychain or the disk refuses the second step, or the command is killed.
KeyCommandEnds ==
    /\ command # "none"
    /\ command' = "none"
    /\ UNCHANGED <<named, key>>
    /\ UntouchedByKeys

\* The access token of a credential someone holds comes within five minutes of
\* its expiry.
Age(c) ==
    /\ c \in {login, cached} \ {None} /\ c \notin aged
    /\ aged' = aged \cup {c}
    /\ UNCHANGED <<runs, serving, relayState, request, credential, stored, live, issued, slip>>

Next ==
    \/ \E r \in Runs : Activate(r) \/ Stop(r) \/ Expire(r)
    \/ \E q \in Requests : Arrive(q) \/ Authorize(q) \/ Acquire(q) \/ RelayEnds(q)
    \/ \E u \in Users : \/ KeyAuth(u) \/ SubscriptionAuth(u)
                        \/ Refresh(u) \/ RefreshFails(u) \/ Persist(u)
    \/ LoadCatalog \/ Listen \/ BrokerEnds
    \/ LoginSubscription \/ LogoutSubscription
    \/ SaveRecord \/ StoreKey \/ DeleteKey \/ RemoveRecord \/ KeyCommandEnds
    \/ \E c \in 1 .. MaxTokens : Age(c)

Spec == Init /\ [][Next]_vars

-----------------------------------------------------------------------------
(***************************************************************************)
(* Properties.                                                             *)
(***************************************************************************)
Tokens == 0 .. MaxTokens
Held == {"credentials", "relaying"}
OpenOf(r) == {q \in Requests : request[q].at \in Held /\ request[q].run = r}

TypeOK ==
    /\ record \in [Runs -> [active : BOOLEAN, cap : 0 .. MaxCapabilities, expired : BOOLEAN]]
    /\ capsIssued \in 0 .. MaxCapabilities
    /\ serving \in {"down", "starting", "up"}
    /\ catalog \subseteq Upstreams
    /\ inFlight \in [Runs -> 0 .. MaxInFlight]
    /\ request \in [Requests -> [at : {"none", "arrived", "authorized"} \cup Held,
                                 run : Runs, cap : 0 .. MaxCapabilities,
                                 to : Upstreams, wasLive : BOOLEAN]]
    /\ lock \in Users \cup {Nobody}
    /\ {cached, refreshed, login} \subseteq Tokens
    /\ {keyCached, key, named, slip} \subseteq BOOLEAN
    /\ command \in {"none", "storing-key", "removing-record"}
    /\ live \subseteq Tokens \ {None} /\ aged \subseteq Tokens \ {None} /\ issued \in Tokens

\* A run's count of requests in flight is the requests it has open, no more and no
\* fewer: every way out of ServeHTTP gives back the slot it took, and no run is
\* locked out of a broker that serves it nothing.
SlotsAreCounted == \A r \in Runs : inFlight[r] = Cardinality(OpenOf(r))

\* A request that came after its run had stopped or expired is never relayed,
\* though the run was resumed since under another capability.
OnlyLiveRunsAreServed ==
    \A q \in Requests : request[q].at \in Held => request[q].wasLive

\* The stored subscription login can be refreshed, whichever process wrote it
\* last, unless the answer of a rotation or its saving was lost: the reason a
\* rotated token is saved before it is used.
LoginSurvives == ~slip /\ refreshed = None /\ login # None => login \in live

\* Every stored API key is named by a provider record, though a login or a
\* logout was interrupted between its two steps: what makes it removable.
KeysAreNamed == key => named
==============================================================================
