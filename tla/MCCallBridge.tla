---------------------------- MODULE MCCallBridge ----------------------------
(* CallBridge on one or two calls.                                          *)
EXTENDS CallBridge, TLC

CONSTANTS c1, c2

Symmetry == Permutations(Calls)
OneCall == {c1}
TwoCalls == {c1, c2}
=============================================================================
