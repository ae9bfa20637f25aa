--------------------------- MODULE MCRunLifecycle ----------------------------
(* Instances of RunLifecycle for TLC. *)
EXTENDS RunLifecycle

CONSTANTS r1, c1, c2

\* Every command is about the one run.
SoloRunOf == [c \in Commands |-> r1]
==============================================================================
