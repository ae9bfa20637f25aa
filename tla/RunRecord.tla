------------------------------ MODULE RunRecord ------------------------------
(***************************************************************************)
(* The record internal/runstate keeps for one run, and what each operation *)
(* of its Store accepts and writes.  A record is one JSON file; an         *)
(* operation reads the file, checks it, and replaces it whole.  This       *)
(* module is the data side only: RunLifecycle says who reads and writes    *)
(* when.                                                                   *)
(*                                                                         *)
(* Times are clock ticks, a capability is the number of its issue, and an  *)
(* apply plan is the version of the workspace it imports.  Nil stands for  *)
(* an empty string, a nil pointer or the zero time.                        *)
(***************************************************************************)
EXTENDS Integers

CONSTANT Lifetime       \* how long a run exists after it is created

ASSUME LifetimeAssumption == Lifetime \in Nat \ {0}

Nil == 0

State == {"creating", "active", "stopped", "imported"}

\* "none" is the state of a record whose file does not exist.
Manifest ==
    [state      : State \cup {"none"},
     ssh        : BOOLEAN,
     capability : Nat,
     apply      : Nat,
     returned   : BOOLEAN,
     createdAt  : Nat,
     importedAt : Nat]

NoRun ==
    [state |-> "none", ssh |-> FALSE, capability |-> Nil, apply |-> Nil,
     returned |-> FALSE, createdAt |-> Nil, importedAt |-> Nil]

(***************************************************************************)
(* What Get accepts.  A record that fails any of these is unreadable: no   *)
(* operation of the store can change it, and only Forget removes it.       *)
(***************************************************************************)
Readable(m) ==
    /\ m.state \in State
    /\ m.createdAt # Nil
    /\ m.state # "active" => m.capability = Nil
    /\ m.apply # Nil => m.state = "stopped"
    /\ m.state = "imported" => m.importedAt # Nil
    /\ m.state = "creating" <=> ~m.ssh
    /\ m.state = "active" => m.capability # Nil

\* Ticks left to a run, Nil once it has expired.
Remaining(m, now) ==
    IF m.createdAt + Lifetime > now THEN (m.createdAt + Lifetime) - now ELSE Nil

(***************************************************************************)
(* The store's writes.  Allowed is the check an operation makes on the     *)
(* record it read, the others are the records it writes back.              *)
(***************************************************************************)
Operation == {"Activate", "Stop", "Resume", "BeginApply", "CompleteApply",
              "ClearReturned", "RecordError"}

Allowed(operation, m, now) ==
    CASE operation = "Activate"      -> m.state = "creating"
      [] operation = "Stop"          -> m.state = "active"
      [] operation = "Resume"        -> m.state = "stopped" /\ Remaining(m, now) # Nil
      [] operation = "BeginApply"    -> m.state = "stopped" /\ m.apply = Nil
      [] operation = "CompleteApply" -> m.state = "stopped" /\ m.apply # Nil
      [] operation = "ClearReturned" -> TRUE
      [] operation = "RecordError"   -> TRUE

Created(now) == [NoRun EXCEPT !.state = "creating", !.createdAt = now]

Activated(m, capability) ==
    [m EXCEPT !.state = "active", !.ssh = TRUE, !.capability = capability]

\* Mutant of Stopped: the capability is not revoked.
StoppedKeepingCapability(m) == [m EXCEPT !.state = "stopped"]

Stopped(m) == [m EXCEPT !.state = "stopped", !.capability = Nil]

Resumed(m, capability) == [m EXCEPT !.state = "active", !.capability = capability]

ApplyBegun(m, plan, outputs) == [m EXCEPT !.apply = plan, !.returned = outputs]

ApplyCompleted(m, now) ==
    [m EXCEPT !.state = "imported", !.importedAt = now, !.apply = Nil]

ReturnedCleared(m) == [m EXCEPT !.returned = FALSE]
==============================================================================
