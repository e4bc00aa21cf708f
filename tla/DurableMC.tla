------------------------------- MODULE DurableMC -------------------------------
(* Durable on three boots, two sessions, one token and two webhooks of a URL.  *)
EXTENDS Durable, TLC

CONSTANTS p1, p2, p3, s1, s2, t1, t2, r1, r2, r3, k1, c1, u1, u2, h1, h2, url

ThreeProcs    == {p1, p2, p3}
ThreePids     == {11, 12, 13}
TwoSessions   == {s1, s2}
TwoTags       == {t1, t2}
ThreeRequests == {r1, r2, r3}
OneToken      == {k1}
OneLookup     == {c1}
TwoRevokes    == {u1, u2}
TwoHooks      == {h1, h2}
OneUrl        == {url}
Shared        == h1 :> url @@ h2 :> url

Symmetry == Permutations(Sessions) \cup Permutations(Tags) \cup Permutations(Requests)
=============================================================================
