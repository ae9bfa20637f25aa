------------------------------ MODULE MCProfile ------------------------------
(* Instances of Profile for TLC. *)
EXTENDS Profile, TLC

CONSTANTS e, a, b, x, v1, v2, v3

\* The tools can be installed side by side, or be at odds over either command; b is
\* also the name of a tool, which a release of the other takes for its command; and
\* one release has no command.
MCProvides ==
    a :> (v1 :> {x} @@ v2 :> {x, b} @@ v3 :> {b}) @@ b :> (v1 :> {b} @@ v2 :> {x} @@ v3 :> {})
==============================================================================
