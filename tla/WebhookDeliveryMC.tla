------------------------- MODULE WebhookDeliveryMC -------------------------
(* One session sends two or three events to one URL.                        *)
EXTENDS WebhookDelivery, TLC

CONSTANTS e1, e2, e3, h1, s1, u1

TwoEvents   == {e1, e2}
ThreeEvents == {e1, e2, e3}
OneHook     == {h1}
OneSession  == {s1}
OneUrl      == {u1}
Alone       == h1 :> s1
AloneUrl    == h1 :> u1
=============================================================================
