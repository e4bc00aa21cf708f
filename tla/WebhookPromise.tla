--------------------------- MODULE WebhookPromise ---------------------------
(* What becomes of an event that has a webhook to go to.                     *)
CONSTANT Deliveries

VARIABLE fate

Init == fate = [d \in Deliveries |-> "none"]

Becomes(d, from, to) == fate[d] \in from /\ fate' = [fate EXCEPT ![d] = to]

\* An event goes to several webhooks at once, and past those whose circuit is open.
Announce == \E F, K \in SUBSET {d \in Deliveries : fate[d] = "none"} :
              fate' = [d \in Deliveries |-> IF d \in F THEN "flying"
                                            ELSE IF d \in K THEN "skipped" ELSE fate[d]]
Succeed(d)    == Becomes(d, {"flying"}, "delivered")
DeadLetter(d) == Becomes(d, {"flying"}, "dead")
Replay(d)     == Becomes(d, {"dead"}, "flying")
\* Evicted from a full ring, purged with its session, or gone with the process.
Lose == \E D \in SUBSET {d \in Deliveries : fate[d] \in {"dead", "flying"}} :
          fate' = [d \in Deliveries |-> IF d \in D THEN "lost" ELSE fate[d]]
\* A full ring makes room for an entry that arrives, or comes back.
Replace(d) == \E x \in Deliveries \ {d} :
                /\ fate[d] = "flying" /\ fate[x] = "dead"
                /\ fate' = [fate EXCEPT ![d] = "dead", ![x] = "lost"]

Next == \/ \E d \in Deliveries : Succeed(d) \/ DeadLetter(d) \/ Replay(d) \/ Replace(d)
        \/ Announce \/ Lose

Spec == Init /\ [][Next]_fate
=============================================================================
