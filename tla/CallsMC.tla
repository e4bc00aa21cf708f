-------------------------------- MODULE CallsMC --------------------------------
(* Any two requests on two calls.                                            *)
EXTENDS Calls

CONSTANTS k1, k2, r1, r2

TwoCalls    == {k1, k2}
TwoRequests == {r1, r2}
AnyTwo      == [TwoRequests -> Kinds]
=============================================================================
