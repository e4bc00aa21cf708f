----------------------------- MODULE Scheduler -----------------------------
(***************************************************************************)
(* Scheduled sends: messages parked in the table scheduled_messages until  *)
(* their send_at, the poller that claims and dispatches the due ones, and  *)
(* the request that cancels one (src/handlers/schedule.rs,                 *)
(* src/db/scheduled.rs).                                                   *)
(*                                                                         *)
(* One step is one database statement or one dispatch.  Each process runs  *)
(* one poller; processes may share a database, and any of them may die.    *)
(***************************************************************************)
EXTENDS Naturals, FiniteSets

CONSTANTS
    Messages,       \* schedule ids (UUIDs, each handed out once)
    Pollers,        \* processes, each with one run_scheduler loop
    Clients,        \* cancel requests being served at the same time
    Nil,            \* no message
    DueBatchLimit,  \* DUE_BATCH_LIMIT
    MaxFaults       \* bound: failed statements and deaths of a process

ASSUME SchedulerAssumption ==
    /\ Nil \notin Messages
    /\ DueBatchLimit \in Nat \ {0}
    /\ MaxFaults \in Nat

VARIABLES
    rows,       \* table scheduled_messages: status of each message
    due,        \* messages whose send_at is past
    req,        \* cancel_scheduled of each client: next statement, message
    ppc,        \* poller: its next statement
    todo,       \* poller: rest of `due` in process_due
    cur,        \* poller: `row`, the one it has claimed
    dispatched, \* history: dispatches answered Ok
    announced,  \* history: webhook events broadcast
    acked,      \* history: messages whose cancellation was confirmed
    faults      \* bounded counter

poller == <<ppc, todo, cur>>
vars   == <<rows, due, req, poller, dispatched, announced, acked, faults>>

-----------------------------------------------------------------------------

Settled == {"sent", "failed", "cancelled"}
ScheduledStatus == {"none", "pending", "sending"} \cup Settled
Event   == {"scheduled_sent", "scheduled_failed"}

PollerPc  == {"idle", "claim", "dispatch", "markSent", "markFailed",
              "announceSent", "announceFailed"}
NoRequest == [pc |-> "idle", msg |-> Nil]
Request   == [pc : {"idle", "cancel", "reread"}, msg : Messages \cup {Nil}]

DuePending == {m \in due : rows[m] = "pending"}

SetRow(m, s) == rows' = [rows EXCEPT ![m] = s]
Serve(c, pc, m) == req' = [req EXCEPT ![c] = [pc |-> pc, msg |-> m]]
Answer(c) == req' = [req EXCEPT ![c] = NoRequest]

-----------------------------------------------------------------------------
(* Requests *)

\* maybe_schedule of a send endpoint: send_at lies beyond SCHEDULE_GRACE, so
\* the message is parked and not sent.
maybe_schedule(m) ==
    /\ rows[m] = "none"
    /\ SetRow(m, "pending")
    /\ UNCHANGED <<due, req, poller, dispatched, announced, acked, faults>>

SendAtPasses(m) ==
    /\ rows[m] # "none"
    /\ m \notin due
    /\ due' = due \cup {m}
    /\ UNCHANGED <<rows, req, poller, dispatched, announced, acked, faults>>

\* cancel_scheduled reads the row; anything but pending is refused.
cancel_scheduled(c, m) ==
    /\ req[c].pc = "idle"
    /\ rows[m] = "pending"
    /\ Serve(c, "cancel", m)
    /\ UNCHANGED <<rows, due, poller, dispatched, announced, acked, faults>>

\* The conditional UPDATE; when the poller has claimed the row the answer is 400.
cancel_pending(c) ==
    /\ req[c].pc = "cancel"
    /\ IF rows[req[c].msg] = "pending"
       THEN SetRow(req[c].msg, "cancelled") /\ Serve(c, "reread", req[c].msg)
       ELSE Answer(c) /\ UNCHANGED rows
    /\ UNCHANGED <<due, poller, dispatched, announced, acked, faults>>

\* The row is read back and returned.
reread(c) ==
    /\ req[c].pc = "reread"
    /\ acked' = acked \cup {req[c].msg}
    /\ Answer(c)
    /\ UNCHANGED <<rows, due, poller, dispatched, announced, faults>>

\* A statement of the request fails, or its client hangs up between two.
AbortRequest(c) ==
    /\ req[c].pc # "idle"
    /\ Answer(c)
    /\ UNCHANGED <<rows, due, poller, dispatched, announced, acked, faults>>

-----------------------------------------------------------------------------
(* The poller: process_due *)

GoTo(p, pc) == ppc' = [ppc EXCEPT ![p] = pc]
EndTick(p) ==
    /\ GoTo(p, "idle")
    /\ todo' = [todo EXCEPT ![p] = {}]
    /\ cur' = [cur EXCEPT ![p] = Nil]
\* The body of the loop over the due rows ends.
NextRow(p, rest) ==
    /\ todo' = [todo EXCEPT ![p] = rest]
    /\ cur' = [cur EXCEPT ![p] = Nil]
    /\ GoTo(p, IF rest = {} THEN "idle" ELSE "claim")

\* The oldest due rows, at most DueBatchLimit; send_at has the resolution of a
\* second, so which rows those are is left open.
due_pending(p) ==
    /\ ppc[p] = "idle"
    /\ \E S \in SUBSET DuePending \ {{}} :
         /\ \/ S = DuePending /\ Cardinality(S) <= DueBatchLimit
            \/ S # DuePending /\ Cardinality(S) = DueBatchLimit
         /\ todo' = [todo EXCEPT ![p] = S]
    /\ GoTo(p, "claim")
    /\ UNCHANGED <<rows, due, req, cur, dispatched, announced, acked, faults>>

\* Mutants: the UPDATE without `AND status = 'pending'`; a lost claim that is
\* dispatched all the same.
claim_unguarded(p) ==
    /\ ppc[p] = "claim"
    /\ \E m \in todo[p] :
         /\ SetRow(m, "sending")
         /\ cur' = [cur EXCEPT ![p] = m]
         /\ todo' = [todo EXCEPT ![p] = @ \ {m}]
    /\ GoTo(p, "dispatch")
    /\ UNCHANGED <<due, req, dispatched, announced, acked, faults>>
claim_never_skips(p) ==
    /\ ppc[p] = "claim"
    /\ \E m \in todo[p] :
         /\ IF rows[m] = "pending" THEN SetRow(m, "sending") ELSE UNCHANGED rows
         /\ cur' = [cur EXCEPT ![p] = m]
         /\ todo' = [todo EXCEPT ![p] = @ \ {m}]
    /\ GoTo(p, "dispatch")
    /\ UNCHANGED <<due, req, dispatched, announced, acked, faults>>

\* The conditional UPDATE; a row that was cancelled, or claimed by another
\* process, since it was read is skipped.
claim(p) ==
    /\ ppc[p] = "claim"
    /\ \E m \in todo[p] :
         IF rows[m] = "pending"
         THEN /\ SetRow(m, "sending")
              /\ cur' = [cur EXCEPT ![p] = m]
              /\ todo' = [todo EXCEPT ![p] = @ \ {m}]
              /\ GoTo(p, "dispatch")
         ELSE UNCHANGED rows /\ NextRow(p, todo[p] \ {m})
    /\ UNCHANGED <<due, req, dispatched, announced, acked, faults>>

\* The stored body is replayed: WhatsApp takes the message, or an error comes back.
dispatch(p) ==
    /\ ppc[p] = "dispatch"
    /\ \/ /\ dispatched' = [dispatched EXCEPT ![cur[p]] = @ + 1]
          /\ GoTo(p, "markSent")
       \/ GoTo(p, "markFailed") /\ UNCHANGED dispatched
    /\ UNCHANGED <<rows, due, req, todo, cur, announced, acked, faults>>

\* Settling is an UPDATE by id alone, and its failure is only logged.
Settle(p, s, next) ==
    /\ \/ SetRow(cur[p], s) /\ UNCHANGED faults
       \/ faults < MaxFaults /\ faults' = faults + 1 /\ UNCHANGED rows
    /\ GoTo(p, next)
    /\ UNCHANGED <<due, req, todo, cur, dispatched, announced, acked>>

\* Mutants: a failed dispatch puts the row back; leaves it; gives it a status the
\* enum does not have.
mark_failed_requeues(p) == ppc[p] = "markFailed" /\ Settle(p, "pending", "announceFailed")
mark_failed_nowhere(p)  == ppc[p] = "markFailed" /\ Settle(p, "sending", "announceFailed")
mark_failed_error(p)    == ppc[p] = "markFailed" /\ Settle(p, "error", "announceFailed")

mark_sent(p)   == ppc[p] = "markSent"   /\ Settle(p, "sent", "announceSent")
mark_failed(p) == ppc[p] = "markFailed" /\ Settle(p, "failed", "announceFailed")

\* broadcast_to_webhooks, whether or not the row could be settled.
announce(p) ==
    /\ ppc[p] \in {"announceSent", "announceFailed"}
    /\ announced' = [announced EXCEPT ![cur[p]] = @ \cup
          {IF ppc[p] = "announceSent" THEN "scheduled_sent" ELSE "scheduled_failed"}]
    /\ NextRow(p, todo[p])
    /\ UNCHANGED <<rows, due, req, dispatched, acked, faults>>

\* due_pending or claim fails: `?` leaves process_due and the loop goes on.  A
\* claim may have been applied although its answer was lost.
TickFails(p) ==
    /\ ppc[p] = "claim"
    /\ faults < MaxFaults
    /\ faults' = faults + 1
    /\ \/ UNCHANGED rows
       \/ \E m \in todo[p] : rows[m] = "pending" /\ SetRow(m, "sending")
    /\ EndTick(p)
    /\ UNCHANGED <<due, req, dispatched, announced, acked>>

\* The process dies and is started again; only the table survives.
Crash(p) ==
    /\ ppc[p] # "idle"
    /\ faults < MaxFaults
    /\ faults' = faults + 1
    /\ EndTick(p)
    /\ UNCHANGED <<rows, due, req, dispatched, announced, acked>>

-----------------------------------------------------------------------------

Init ==
    /\ rows = [m \in Messages |-> "none"]
    /\ due = {}
    /\ req = [c \in Clients |-> NoRequest]
    /\ ppc = [p \in Pollers |-> "idle"]
    /\ todo = [p \in Pollers |-> {}]
    /\ cur = [p \in Pollers |-> Nil]
    /\ dispatched = [m \in Messages |-> 0]
    /\ announced = [m \in Messages |-> {}]
    /\ acked = {}
    /\ faults = 0

PollerStep(p) ==
    \/ due_pending(p) \/ claim(p) \/ dispatch(p)
    \/ mark_sent(p) \/ mark_failed(p) \/ announce(p)

RequestStep(c) ==
    \/ \E m \in Messages : cancel_scheduled(c, m)
    \/ cancel_pending(c) \/ reread(c) \/ AbortRequest(c)

Next ==
    \/ \E m \in Messages : maybe_schedule(m) \/ SendAtPasses(m)
    \/ \E c \in Clients : RequestStep(c)
    \/ \E p \in Pollers : PollerStep(p) \/ TickFails(p) \/ Crash(p)

Spec == Init /\ [][Next]_vars

\* The interval timer keeps ticking and what a tick awaits returns.
FairSpec == Spec /\ \A p \in Pollers : WF_vars(PollerStep(p))

-----------------------------------------------------------------------------
(* Properties *)

Holding(m) == {p \in Pollers : cur[p] = m}
Orphans    == {m \in Messages : rows[m] = "sending" /\ Holding(m) = {}}

\* Every row, request and poller variable holds a value of its kind.
TypeOK ==
    /\ rows \in [Messages -> ScheduledStatus]
    /\ due \subseteq Messages
    /\ req \in [Clients -> Request]
    /\ ppc \in [Pollers -> PollerPc]
    /\ todo \in [Pollers -> SUBSET Messages]
    /\ cur \in [Pollers -> Messages \cup {Nil}]
    /\ dispatched \in [Messages -> Nat]
    /\ announced \in [Messages -> SUBSET Event]
    /\ acked \subseteq Messages
    /\ faults \in 0..MaxFaults

\* A parked message is dispatched at most once: two pollers that read the same
\* due row, a process that dies and a settlement that fails never repeat it.
DispatchedOnce == \A m \in Messages : dispatched[m] <= 1

\* Once a cancellation has been confirmed the message stays cancelled and is
\* never sent, although the poller may have read it as due before.
CancelHolds ==
    \A m \in acked : rows[m] = "cancelled" /\ dispatched[m] = 0 /\ announced[m] = {}

\* What the table says of a settled message is what happened to it.
StatusIsTrue ==
    \A m \in Messages :
        /\ rows[m] = "sent" => dispatched[m] = 1
        /\ rows[m] \in {"failed", "cancelled", "pending", "none"} => dispatched[m] = 0

\* Webhooks hear of a message once at most, and hear what happened to it even
\* if its row could not be settled.
AnnouncedTruly ==
    \A m \in Messages :
        /\ "scheduled_sent" \in announced[m] => dispatched[m] = 1
        /\ "scheduled_failed" \in announced[m] => dispatched[m] = 0

\* A message is dispatched once at most, and the table and the webhooks say of it
\* what happened to it.
HistoryIsTrue == TypeOK /\ DispatchedOnce /\ StatusIsTrue /\ AnnouncedTruly

\* A message left `sending` with nobody at work on it is paid for by a failed
\* statement or a death: interleavings alone never strand one.
OrphansAreFaults == Cardinality(Orphans) <= faults

\* A due message does not stay parked: it is claimed or cancelled, and without
\* a fault it is settled.
DueIsSettled ==
    \A m \in Messages :
        /\ (rows[m] = "pending" /\ m \in due) ~> rows[m] # "pending"
        /\ (rows[m] = "pending" /\ m \in due) ~> (rows[m] \in Settled \/ faults > 0)

=============================================================================
