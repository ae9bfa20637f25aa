----------------------------- MODULE MCVmStorage -----------------------------
(* Instances of VmStorage for TLC. *)
EXTENDS VmStorage

CONSTANTS r, p
==============================================================================
