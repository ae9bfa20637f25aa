------------------------------ MODULE MCStaging ------------------------------
(* Instances of Staging for TLC. *)
EXTENDS Staging

CONSTANTS h, a, b
==============================================================================
