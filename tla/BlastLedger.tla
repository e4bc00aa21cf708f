---------------------------- MODULE BlastLedger ----------------------------
(***************************************************************************)
(* What the blast queue promises of each recipient of each job, without    *)
(* jobs' statuses, batches, counters or requests: an owed message is taken *)
(* in hand, one at a time over all jobs, and is then delivered for good,   *)
(* put back while it has attempts left, or given up after exactly          *)
(* MaxAttempts failures; only a given-up one is ever asked for again.  A   *)
(* message dropped from hand keeps its entry until its job is recovered.   *)
(***************************************************************************)
EXTENDS Naturals

CONSTANTS Jobs, Recipients, MaxAttempts, Nil

VARIABLES
    outcome,  \* what became of each message
    tries,    \* failures of the message since it was last asked for
    inHand    \* the message being sent, or Nil

vars == <<outcome, tries, inHand>>

Outcome == {"none", "owed", "trying", "delivered", "dead", "skipped"}

\* The messages of job j with outcome `from` get outcome `to`, all in one step.
MoveAll(j, from, to) ==
    outcome' = [outcome EXCEPT ![j] = [r \in Recipients |-> IF @[r] = from THEN to ELSE @[r]]]

Settle(j, r, o, n) ==
    /\ inHand = <<j, r>>
    /\ inHand' = Nil
    /\ outcome' = [outcome EXCEPT ![j][r] = o]
    /\ tries' = [tries EXCEPT ![j][r] = @ + n]

Init ==
    /\ outcome = [j \in Jobs |-> [r \in Recipients |-> "none"]]
    /\ tries = [j \in Jobs |-> [r \in Recipients |-> 0]]
    /\ inHand = Nil

Enter(j, r) ==
    /\ outcome[j][r] = "none"
    /\ \E o \in {"owed", "skipped"} : outcome' = [outcome EXCEPT ![j][r] = o]
    /\ UNCHANGED <<tries, inHand>>

Take(j, r) ==
    /\ inHand = Nil
    /\ outcome[j][r] = "owed"
    /\ inHand' = <<j, r>>
    /\ outcome' = [outcome EXCEPT ![j][r] = "trying"]
    /\ UNCHANGED tries

Deliver(j, r) == Settle(j, r, "delivered", 0)
PutBack(j, r) == tries[j][r] + 1 < MaxAttempts /\ Settle(j, r, "owed", 1)
GiveUp(j, r)  == tries[j][r] + 1 = MaxAttempts /\ Settle(j, r, "dead", 1)

Drop ==
    /\ inHand' = Nil
    /\ UNCHANGED <<outcome, tries>>

Recover(j) ==
    /\ inHand = Nil
    /\ MoveAll(j, "trying", "owed")
    /\ UNCHANGED <<tries, inHand>>

AskAgain(j) ==
    /\ MoveAll(j, "dead", "owed")
    /\ tries' = [tries EXCEPT ![j] =
                   [r \in Recipients |-> IF outcome[j][r] = "dead" THEN 0 ELSE @[r]]]
    /\ UNCHANGED inHand

Next ==
    \/ \E j \in Jobs, r \in Recipients :
         Enter(j, r) \/ Take(j, r) \/ Deliver(j, r) \/ PutBack(j, r) \/ GiveUp(j, r)
    \/ Drop
    \/ \E j \in Jobs : Recover(j) \/ AskAgain(j)

Spec == Init /\ [][Next]_vars
=============================================================================
