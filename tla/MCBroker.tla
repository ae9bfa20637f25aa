------------------------------- MODULE MCBroker -------------------------------
(* Instances of Broker for TLC. *)
EXTENDS Broker, TLC

CONSTANTS q1, q2, r1

Alike == Permutations(Requests)

\* What has become of a token no one on the Mac holds changes nothing any more.
HeldOnTheMac == {login, cached, refreshed}
ViewOfHeld == <<runs, serving, relayState, request, credential, stored,
                live \cap HeldOnTheMac, aged \cap HeldOnTheMac, issued, slip>>
==============================================================================
