---------------------------- MODULE SchedulerMC ----------------------------
(* Values for the constants of Scheduler.                                     *)
EXTENDS SchedulerRefinement

CONSTANTS m1, m2, p1, p2, c1, c2

TwoMessages == {m1, m2}
TwoPollers  == {p1, p2}
TwoClients  == {c1, c2}
=============================================================================
