------------------------------ MODULE BlastMC ------------------------------
(* Values for the constants of Blast and the symmetry of the small instances. *)
EXTENDS Blast, TLC

CONSTANTS j1, j2, r1, r2, r3, c1, c2, main

OneJob          == {j1}
TwoJobs         == {j1, j2}
OneRecipient    == {r1}
ThreeRecipients == {r1, r2, r3}
OneClient       == {c1}
TwoClients      == {c1, c2}
OneSession      == {main}

\* Every job is created under the one session, which makes jobs interchangeable.
AllMain  == [j \in Jobs |-> main]
Symmetry == Permutations(Jobs) \cup Permutations(Recipients) \cup Permutations(Clients)
=============================================================================
