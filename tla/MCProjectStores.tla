--------------------------- MODULE MCProjectStores ---------------------------
(* Instances of ProjectStores for TLC. *)
EXTENDS ProjectStores, TLC

Symmetric == Permutations(Runs) \cup Permutations(Keys) \cup Permutations(Projects)
==============================================================================
