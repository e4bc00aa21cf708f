------------------------ MODULE SchedulerRefinement ------------------------
(***************************************************************************)
(* The scheduler's table read as the promise of ParkedSends: a row that    *)
(* left `pending` without being cancelled was taken, and a dispatch that   *)
(* was answered Ok delivers it.                                            *)
(***************************************************************************)
EXTENDS Scheduler

FateOf(status, deliveries) ==
    IF deliveries > 0 THEN "delivered"
    ELSE CASE status = "none"      -> "absent"
           [] status = "pending"   -> "parked"
           [] status = "cancelled" -> "revoked"
           [] OTHER                -> "taken"

Promise == INSTANCE ParkedSends WITH
    fate <- [m \in Messages |-> FateOf(rows[m], dispatched[m])]

\* Whatever pollers, cancel requests and faults do, each message is revoked or
\* taken once and for all, and delivered at most once.
KeepsPromise == Promise!Spec
=============================================================================
