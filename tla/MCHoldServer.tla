----------------------------- MODULE MCHoldServer -----------------------------
(* HoldServer on a small instance: h1 with two settles and a release, h2   *)
(* with a settle, and a memory of one settled hold.                        *)
EXTENDS HoldServer

CONSTANTS h1, h2

SomeSettles == {<<h1, "s1">>, <<h1, "s2">>, <<h2, "s1">>}
SomeEnds    == {<<h1, "release">>}
=============================================================================
