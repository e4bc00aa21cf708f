------------------------- MODULE SessionLifecycleMC -------------------------
(* Any two requests at a time, or the watchdog and one that stops a client.  *)
EXTENDS SessionLifecycle, TLC

CONSTANTS c1, c2, r1, r2

TwoClients  == {c1, c2}
TwoRequests == {r1, r2}

AnyTwo  == [TwoRequests -> Kinds]
TickAnd == {r1 :> "tick" @@ r2 :> k :
               k \in {"disconnect", "disconnect_all", "export", "import", "delete", "reconnect_pref"}}

Symmetry == Permutations(Clients) \cup Permutations(Requests)
=============================================================================
