---------------------------- MODULE ParkedSends ----------------------------
(***************************************************************************)
(* What the scheduler promises of a parked message, without pollers,       *)
(* statements or processes: it is either revoked or taken for sending,     *)
(* once and for all, and a taken one is delivered at most once.            *)
(***************************************************************************)
CONSTANT Messages
VARIABLE fate  \* of each message

Fates == {"absent", "parked", "revoked", "taken", "delivered"}

Becomes(m, from, to) == fate[m] = from /\ fate' = [fate EXCEPT ![m] = to]

Park(m)    == Becomes(m, "absent", "parked")
Revoke(m)  == Becomes(m, "parked", "revoked")
Take(m)    == Becomes(m, "parked", "taken")
Deliver(m) == Becomes(m, "taken", "delivered")

Init == fate = [m \in Messages |-> "absent"]
Next == \E m \in Messages : Park(m) \/ Revoke(m) \/ Take(m) \/ Deliver(m)
Spec == Init /\ [][Next]_fate
=============================================================================
