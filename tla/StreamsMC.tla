------------------------------- MODULE StreamsMC -------------------------------
(* Streams with two commands and two pushers. *)
EXTENDS Streams

CONSTANTS k1, k2, p1, p2

TwoCommands == {k1, k2}
TwoPushers  == {p1, p2}
=============================================================================
