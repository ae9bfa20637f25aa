---------------------------- MODULE MCApplyImport ----------------------------
(* Instances of ApplyImport for TLC. *)
EXTENDS ApplyImport

CONSTANTS c1, c2
==============================================================================
