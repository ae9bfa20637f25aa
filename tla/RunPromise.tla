----------------------------- MODULE RunPromise ------------------------------
(***************************************************************************)
(* What a run promises its user, with no record, VM or command in it: the  *)
(* states a run goes through, and the capability it has in each.  A run    *)
(* has a capability exactly while it is active, every activation has a new *)
(* one, and one that was taken back is never honoured again.  A run can be *)
(* released from any state and is then gone.  RunLifecycle implements it.  *)
(***************************************************************************)
EXTENDS Naturals

CONSTANT Runs

VARIABLES
    state,          \* where each run is
    capability,     \* the capability it has, 0 for none
    spent           \* capabilities taken back

vars == <<state, capability, spent>>

Init ==
    /\ state = [r \in Runs |-> "none"]
    /\ capability = [r \in Runs |-> 0]
    /\ spent = {}

TakeBack(r) ==
    /\ capability' = [capability EXCEPT ![r] = 0]
    /\ spent' = spent \cup ({capability[r]} \ {0})

Create(r) ==
    /\ state[r] = "none"
    /\ state' = [state EXCEPT ![r] = "creating"]
    /\ UNCHANGED <<capability, spent>>

Activate(r) ==
    /\ state[r] \in {"creating", "stopped"}
    /\ state' = [state EXCEPT ![r] = "active"]
    /\ capability'[r] \notin spent \cup {0}
    /\ \A other \in Runs : capability[other] # capability'[r]
    /\ capability' = [capability EXCEPT ![r] = capability'[r]]
    /\ UNCHANGED spent

Stop(r) ==
    /\ state[r] = "active"
    /\ state' = [state EXCEPT ![r] = "stopped"]
    /\ TakeBack(r)

Import(r) ==
    /\ state[r] = "stopped"
    /\ state' = [state EXCEPT ![r] = "imported"]
    /\ UNCHANGED <<capability, spent>>

Release(r) ==
    /\ state[r] # "none"
    /\ state' = [state EXCEPT ![r] = "none"]
    /\ TakeBack(r)

Next ==
    \E r \in Runs : Create(r) \/ Activate(r) \/ Stop(r) \/ Import(r) \/ Release(r)

Spec == Init /\ [][Next]_vars
==============================================================================
