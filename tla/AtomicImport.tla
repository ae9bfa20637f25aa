---------------------------- MODULE AtomicImport -----------------------------
(***************************************************************************)
(* What an apply promises over repositories no transaction spans: one      *)
(* result is chosen, once; a repository it touches is moved, once and for  *)
(* good; the superproject is moved last, so its branch never points at a   *)
(* submodule that has nothing to check out; and the import is over only    *)
(* when every one of them has moved.  There is no record, temporary ref,   *)
(* process or rollback here.  ApplyImport implements it.                   *)
(***************************************************************************)
EXTENDS Integers

CONSTANTS
    Repos,      \* the repositories
    Super       \* the superproject among them

VARIABLES
    touched,    \* the repositories the chosen result touches, {} before the choice
    moved,      \* those whose branch is in place
    done        \* the import is over

vars == <<touched, moved, done>>

Init == touched = {} /\ moved = {} /\ done = FALSE

\* Every result touches the superproject: its branch is what the user merges.
Choose ==
    /\ touched = {}
    /\ touched' \in {rs \in SUBSET Repos : Super \in rs}
    /\ UNCHANGED <<moved, done>>

Move(r) ==
    /\ r \in touched \ moved
    /\ r = Super => touched \ moved = {Super}
    /\ moved' = moved \cup {r}
    /\ UNCHANGED <<touched, done>>

Finish ==
    /\ touched # {} /\ moved = touched
    /\ done' = TRUE
    /\ UNCHANGED <<touched, moved>>

Next == Choose \/ (\E r \in Repos : Move(r)) \/ Finish

Spec == Init /\ [][Next]_vars
==============================================================================
