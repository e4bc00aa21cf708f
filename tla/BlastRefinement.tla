-------------------------- MODULE BlastRefinement --------------------------
(* The rows of blast_recipients, read as the ledger of BlastLedger. *)
EXTENDS Blast

OutcomeOf(s) ==
    CASE s = "none"        -> "none"
      [] s = "pending"     -> "owed"
      [] s = "sending"     -> "trying"
      [] s = "sent"        -> "delivered"
      [] s = "dlq"         -> "dead"
      [] s = "skipped_dup" -> "skipped"

Ledger == INSTANCE BlastLedger WITH
    outcome <- [j \in Jobs |-> [r \in Recipients |-> OutcomeOf(rows[j][r].status)]],
    tries   <- [j \in Jobs |-> [r \in Recipients |-> rows[j][r].attempts]],
    inHand  <- IF wpc \in Sending THEN <<wjob, cur>> ELSE Nil

\* The blast queue keeps the ledger: each statement of the worker and of the
\* requests is one of its entries, or none.
KeepsLedger == Ledger!Spec
=============================================================================
