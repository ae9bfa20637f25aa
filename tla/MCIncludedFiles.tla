--------------------------- MODULE MCIncludedFiles ---------------------------
(* Instances of IncludedFiles for TLC. *)
EXTENDS IncludedFiles

CONSTANTS x, y, in, dir, file

\* The directory holds both paths, and the second can be named by itself.
MCUnder(r) == IF r = dir THEN {1, 2} ELSE {2}
MCSize == [c \in {x, y} |-> 1]
==============================================================================
