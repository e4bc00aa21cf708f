------------------------------- MODULE Blast -------------------------------
(***************************************************************************)
(* The blast queue: bulk-send jobs, their recipient rows, the management   *)
(* requests that create, cancel and retry jobs, and the one background     *)
(* worker that drains them (src/handlers/blast.rs, src/db/blast.rs).       *)
(*                                                                         *)
(* One step is one database statement or one dispatch: nothing groups the  *)
(* statements of a handler or of the worker into a transaction, so every   *)
(* handler can be interleaved with every other one between two of them.    *)
(***************************************************************************)
EXTENDS Naturals, FiniteSets, Functions

CONSTANTS
    Jobs,         \* job ids (UUIDs, each handed out once)
    Recipients,   \* canonical recipient JIDs
    Sessions,     \* session ids
    SessionOf,    \* the session each job is created under
    Clients,      \* management requests being served at the same time
    Nil,          \* no job, no recipient
    MaxAttempts,  \* options.max_attempts.max(1)
    BatchSize,    \* BATCH_SIZE
    MaxRetries,   \* bound: retry requests that get past their check
    MaxFaults     \* bound: worker ticks that abort, by an error or a crash

ASSUME BlastAssumption ==
    /\ SessionOf \in [Jobs -> Sessions]
    /\ Nil \notin Jobs \cup Recipients
    /\ MaxAttempts \in Nat \ {0}
    /\ BatchSize \in Nat \ {0}
    /\ MaxRetries \in Nat
    /\ MaxFaults \in Nat

VARIABLES
    jobs,       \* table blast_jobs
    rows,       \* table blast_recipients, UNIQUE (job_id, recipient)
    req,        \* what each client's request holds between its statements
    wpc,        \* worker: the statement it runs next
    wjob,       \* worker: `job` of tick_once / process_job
    batch,      \* worker: rows of the batch not settled yet |-> attempts read
    cur,        \* worker: `recipient` of the batch loop
    verdict,    \* worker: `final_status` of finalize_job
    dispatched, \* history: dispatches answered Ok, per job and recipient
    retries,    \* bounded counter
    faults      \* bounded counter

worker == <<wpc, wjob, batch, cur, verdict>>
ghost  == <<retries, faults>>
vars   == <<jobs, rows, req, worker, dispatched, ghost>>

-----------------------------------------------------------------------------
(* The tables *)

Terminal  == {"completed", "completed_with_failures", "cancelled"}
JobStatus == {"none", "pending", "running"} \cup Terminal
RowStatus == {"none", "pending", "sending", "sent", "dlq", "skipped_dup"}

JobRow == [status : JobStatus, due : BOOLEAN, dedup : BOOLEAN,
           sent_count : Nat, failed_count : Nat, dlq_count : Nat]
Row    == [status : RowStatus, attempts : Nat]

NoJob == [status |-> "none", due |-> FALSE, dedup |-> FALSE,
          sent_count |-> 0, failed_count |-> 0, dlq_count |-> 0]
NoRow == [status |-> "none", attempts |-> 0]

Running    == {j \in Jobs : jobs[j].status = "running"}
DuePending == {j \in Jobs : jobs[j].status = "pending" /\ jobs[j].due}
PendingRows(j) == {r \in Recipients : rows[j][r].status = "pending"}

SetStatus(j, s) == jobs' = [jobs EXCEPT ![j].status = s]

\* update_recipient: by job and recipient only, whatever the row's status is.
UpdateRow(j, r, s, n) ==
    rows' = [rows EXCEPT ![j][r] = [status |-> s, attempts |-> @.attempts + n]]

-----------------------------------------------------------------------------
(* Requests *)

RequestPc == {"idle", "insertJob", "insertRows", "cancel", "requeue", "reopen"}
Request   == [pc : RequestPc, job : Jobs \cup {Nil}, dedup : BOOLEAN,
              accepted : SUBSET Recipients, skipped : SUBSET Recipients]
NoRequest == [pc |-> "idle", job |-> Nil, dedup |-> FALSE,
              accepted |-> {}, skipped |-> {}]

Serve(c, pc, j) == req' = [req EXCEPT ![c] = [NoRequest EXCEPT !.pc = pc, !.job = j]]
Answer(c)       == req' = [req EXCEPT ![c] = NoRequest]
Fresh(j) == jobs[j].status = "none" /\ \A c \in Clients : req[c].job # j

\* Mutant: a send still in flight counts as delivered.
already_sent_or_sending(s) ==
    {r \in Recipients : \E j \in Jobs :
        SessionOf[j] = s /\ rows[j][r].status \in {"sent", "sending"}}

\* Recipients some blast of the session delivered to, read at creation.
already_sent(s) ==
    {r \in Recipients : \E j \in Jobs : SessionOf[j] = s /\ rows[j][r].status = "sent"}

\* create_blast, up to the first insert: `want` are the distinct recipients.
create_blast(c, j, want, dedup) ==
    /\ req[c].pc = "idle"
    /\ Fresh(j)
    /\ LET skip == IF dedup THEN want \cap already_sent(SessionOf[j]) ELSE {}
       IN  req' = [req EXCEPT ![c] = [pc |-> "insertJob", job |-> j, dedup |-> dedup,
                                      accepted |-> want \ skip, skipped |-> skip]]
    /\ UNCHANGED <<jobs, rows, worker, dispatched, ghost>>

\* The job row becomes visible to the worker before any recipient row is.
insert_job(c, due) ==
    /\ req[c].pc = "insertJob"
    /\ jobs' = [jobs EXCEPT ![req[c].job] =
                  [NoJob EXCEPT !.status = "pending", !.due = due, !.dedup = req[c].dedup]]
    /\ req' = [req EXCEPT ![c].pc = "insertRows"]
    /\ UNCHANGED <<rows, worker, dispatched, ghost>>

\* insert_recipients, one row: the accepted rows first, then the skipped ones.
insert_recipient(c, r) ==
    /\ req[c].pc = "insertRows"
    /\ r \in IF req[c].accepted # {} THEN req[c].accepted ELSE req[c].skipped
    /\ LET j == req[c].job
           s == IF r \in req[c].accepted THEN "pending" ELSE "skipped_dup"
       IN  rows' = IF rows[j][r].status = "none"
                   THEN [rows EXCEPT ![j][r] = [NoRow EXCEPT !.status = s]] ELSE rows
    /\ IF req[c].accepted \cup req[c].skipped = {r}
       THEN Answer(c)
       ELSE req' = [req EXCEPT ![c].accepted = @ \ {r}, ![c].skipped = @ \ {r}]
    /\ UNCHANGED <<jobs, worker, dispatched, ghost>>

\* cancel_blast reads the job, then updates it in a statement of its own.
cancel_blast(c, j) ==
    /\ req[c].pc = "idle"
    /\ jobs[j].status \notin Terminal \cup {"none"}
    /\ Serve(c, "cancel", j)
    /\ UNCHANGED <<jobs, rows, worker, dispatched, ghost>>

cancel_job(c) ==
    /\ req[c].pc = "cancel"
    /\ IF jobs[req[c].job].status \in {"pending", "running"}
       THEN SetStatus(req[c].job, "cancelled") ELSE UNCHANGED jobs
    /\ Answer(c)
    /\ UNCHANGED <<rows, worker, dispatched, ghost>>

\* retry_blast reads the job, requeues its rows and reopens it: three statements.
retry_blast(c, j) ==
    /\ req[c].pc = "idle"
    /\ jobs[j].status \notin {"running", "none"}
    /\ retries < MaxRetries
    /\ retries' = retries + 1
    /\ Serve(c, "requeue", j)
    /\ UNCHANGED <<jobs, rows, worker, dispatched, faults>>

\* Mutant: retry requeues whatever is not pending.
requeue_everything(c) ==
    /\ req[c].pc = "requeue"
    /\ rows' = [rows EXCEPT ![req[c].job] = [r \in Recipients |->
                  IF @[r].status = "none" THEN @[r] ELSE [status |-> "pending", attempts |-> 0]]]
    /\ req' = [req EXCEPT ![c].pc = "reopen"]
    /\ UNCHANGED <<jobs, worker, dispatched, ghost>>

requeue_failed(c) ==
    /\ req[c].pc = "requeue"
    /\ LET j    == req[c].job
           dead == {r \in Recipients : rows[j][r].status = "dlq"}
       IN  /\ rows' = [rows EXCEPT ![j] = [r \in Recipients |->
                         IF r \in dead THEN [status |-> "pending", attempts |-> 0] ELSE @[r]]]
           /\ IF dead = {} THEN Answer(c) ELSE req' = [req EXCEPT ![c].pc = "reopen"]
    /\ UNCHANGED <<jobs, worker, dispatched, ghost>>

\* Mutant: the UPDATE without `AND status != 'running'`.
reopen_unguarded(c) ==
    /\ req[c].pc = "reopen"
    /\ SetStatus(req[c].job, "pending")
    /\ Answer(c)
    /\ UNCHANGED <<rows, worker, dispatched, ghost>>

reopen_job(c) ==
    /\ req[c].pc = "reopen"
    /\ IF jobs[req[c].job].status # "running"
       THEN SetStatus(req[c].job, "pending") ELSE UNCHANGED jobs
    /\ Answer(c)
    /\ UNCHANGED <<rows, worker, dispatched, ghost>>

\* A statement of the request fails, or its client hangs up between two.
AbortRequest(c) ==
    /\ req[c].pc # "idle"
    /\ Answer(c)
    /\ UNCHANGED <<jobs, rows, worker, dispatched, ghost>>

\* The job's send_at passes.
SendAtPasses(j) ==
    /\ jobs[j].status # "none"
    /\ ~jobs[j].due
    /\ jobs' = [jobs EXCEPT ![j].due = TRUE]
    /\ UNCHANGED <<rows, req, worker, dispatched, ghost>>

-----------------------------------------------------------------------------
(* The worker: tick_once, process_job, finalize_job.  Two calls of it are    *)
(* never in progress together (run_blast_worker awaits each tick).           *)

WorkerPc == {"idle", "claim", "claimUpdate", "reset", "check", "fetch", "mark",
             "dispatch", "markSent", "incrSent", "incrFailed", "settleFailed",
             "incrDlq", "finalize", "finish"}
\* The current recipient's row is `sending`.
Sending  == {"dispatch", "markSent", "incrFailed", "settleFailed"}

NoBatch   == [r \in {} |-> 0]
GoTo(pc)  == wpc' = pc /\ UNCHANGED <<wjob, batch, cur, verdict>>
Forget    == wjob' = Nil /\ batch' = NoBatch /\ cur' = Nil /\ verdict' = Nil
EndTick   == wpc' = "idle" /\ Forget

\* Mutant: the loop does not move on from a settled recipient.
SameRecipient ==
    /\ batch' = batch
    /\ cur' = Nil
    /\ wpc' = "mark"
    /\ UNCHANGED <<wjob, verdict>>

\* The body of the batch loop ends: next recipient, or back to the job's status.
NextRecipient ==
    LET rest == DOMAIN batch \ {cur}
    IN  /\ batch' = Restrict(batch, rest)
        /\ cur' = Nil
        /\ wpc' = IF rest = {} THEN "check" ELSE "mark"
        /\ UNCHANGED <<wjob, verdict>>

\* Mutant: every tick claims, whatever is running.
claim_every_tick ==
    /\ wpc = "idle"
    /\ wpc' = "claim"
    /\ UNCHANGED <<jobs, rows, req, wjob, batch, cur, verdict, dispatched, ghost>>

\* tick_once: the running job, when there is one, is continued as it is.
running_job ==
    /\ wpc = "idle"
    /\ UNCHANGED <<batch, cur, verdict>>
    /\ \/ Running = {} /\ wpc' = "claim" /\ UNCHANGED wjob
       \/ wjob' \in Running /\ wpc' = "check"
    /\ UNCHANGED <<jobs, rows, req, dispatched, ghost>>

\* claim_next_due, its SELECT.  created_at has the resolution of a second on two
\* of the backends, so any due job may be the oldest.
select_due ==
    /\ wpc = "claim"
    /\ UNCHANGED <<batch, cur, verdict>>
    /\ \/ DuePending = {} /\ wpc' = "idle" /\ UNCHANGED wjob
       \/ wjob' \in DuePending /\ wpc' = "claimUpdate"
    /\ UNCHANGED <<jobs, rows, req, dispatched, ghost>>

\* claim_next_due, its conditional UPDATE.
claim_next_due ==
    /\ wpc = "claimUpdate"
    /\ IF jobs[wjob].status = "pending"
       THEN SetStatus(wjob, "running") /\ GoTo("reset")
       ELSE UNCHANGED jobs /\ EndTick
    /\ UNCHANGED <<rows, req, dispatched, ghost>>

reset_sending_recipients ==
    /\ wpc = "reset"
    /\ rows' = [rows EXCEPT ![wjob] = [r \in Recipients |->
                  IF @[r].status = "sending" THEN [@[r] EXCEPT !.status = "pending"] ELSE @[r]]]
    /\ GoTo("check")
    /\ UNCHANGED <<jobs, req, dispatched, ghost>>

job_status ==
    /\ wpc = "check"
    /\ IF jobs[wjob].status = "running" THEN GoTo("fetch") ELSE EndTick
    /\ UNCHANGED <<jobs, rows, req, dispatched, ghost>>

\* pending_recipients: which ones is left open (ids follow the request's order).
pending_recipients ==
    /\ wpc = "fetch"
    /\ \E S \in SUBSET PendingRows(wjob) :
         /\ \/ S = PendingRows(wjob) /\ Cardinality(S) <= BatchSize
            \/ S # PendingRows(wjob) /\ Cardinality(S) = BatchSize
         /\ batch' = [r \in S |-> rows[wjob][r].attempts]
         /\ wpc' = IF S = {} THEN "finalize" ELSE "mark"
    /\ UNCHANGED <<jobs, rows, req, wjob, cur, verdict, dispatched, ghost>>

\* Mutant: the whole batch is marked before the first dispatch.
mark_batch_sending ==
    /\ wpc = "mark"
    /\ \E r \in DOMAIN batch : cur' = r
    /\ rows' = [rows EXCEPT ![wjob] = [r \in Recipients |->
                  IF r \in DOMAIN batch THEN [@[r] EXCEPT !.status = "sending"] ELSE @[r]]]
    /\ wpc' = "dispatch"
    /\ UNCHANGED <<jobs, req, wjob, batch, verdict, dispatched, ghost>>

mark_recipient_sending ==
    /\ wpc = "mark"
    /\ \E r \in DOMAIN batch :
         /\ cur' = r
         /\ UpdateRow(wjob, r, "sending", 0)
    /\ wpc' = "dispatch"
    /\ UNCHANGED <<jobs, req, wjob, batch, verdict, dispatched, ghost>>

\* dispatch: WhatsApp takes the message, or the send ends in an error.
dispatch ==
    /\ wpc = "dispatch"
    /\ \/ /\ dispatched' = [dispatched EXCEPT ![wjob][cur] = @ + 1]
          /\ GoTo("markSent")
       \/ GoTo("incrFailed") /\ UNCHANGED dispatched
    /\ UNCHANGED <<jobs, rows, req, ghost>>

\* Mutant: the counter is not incremented.
mark_sent_uncounted ==
    /\ wpc = "markSent"
    /\ UpdateRow(wjob, cur, "sent", 0)
    /\ NextRecipient
    /\ UNCHANGED <<jobs, req, dispatched, ghost>>

mark_recipient_sent ==
    /\ wpc = "markSent"
    /\ UpdateRow(wjob, cur, "sent", 0)
    /\ GoTo("incrSent")
    /\ UNCHANGED <<jobs, req, dispatched, ghost>>

incr_sent ==
    /\ wpc = "incrSent"
    /\ jobs' = [jobs EXCEPT ![wjob].sent_count = @ + 1]
    /\ NextRecipient
    /\ UNCHANGED <<rows, req, dispatched, ghost>>

incr_failed ==
    /\ wpc = "incrFailed"
    /\ jobs' = [jobs EXCEPT ![wjob].failed_count = @ + 1]
    /\ GoTo("settleFailed")
    /\ UNCHANGED <<rows, req, dispatched, ghost>>

\* Mutant: `<=` for `<`.
retry_once_too_often ==
    /\ wpc = "settleFailed"
    /\ batch[cur] + 1 <= MaxAttempts
    /\ UpdateRow(wjob, cur, "pending", 1)
    /\ NextRecipient
    /\ UNCHANGED <<jobs, req, dispatched, ghost>>

\* The attempts compared are the ones the batch was read with.
mark_recipient_retry ==
    /\ wpc = "settleFailed"
    /\ batch[cur] + 1 < MaxAttempts
    /\ UpdateRow(wjob, cur, "pending", 1)
    /\ NextRecipient
    /\ UNCHANGED <<jobs, req, dispatched, ghost>>

mark_recipient_dlq ==
    /\ wpc = "settleFailed"
    /\ batch[cur] + 1 >= MaxAttempts
    /\ UpdateRow(wjob, cur, "dlq", 1)
    /\ GoTo("incrDlq")
    /\ UNCHANGED <<jobs, req, dispatched, ghost>>

incr_dlq ==
    /\ wpc = "incrDlq"
    /\ jobs' = [jobs EXCEPT ![wjob].dlq_count = @ + 1]
    /\ NextRecipient
    /\ UNCHANGED <<rows, req, dispatched, ghost>>

\* Mutant: the status is never computed.
finalize_without_status ==
    /\ wpc = "finalize"
    /\ GoTo("finish")
    /\ UNCHANGED <<jobs, rows, req, dispatched, ghost>>

\* finalize_job reads the counters, then closes the job.
finalize_job ==
    /\ wpc = "finalize"
    /\ verdict' = IF jobs[wjob].dlq_count > 0 THEN "completed_with_failures" ELSE "completed"
    /\ wpc' = "finish"
    /\ UNCHANGED <<jobs, rows, req, wjob, batch, cur, dispatched, ghost>>

\* finish_job: by job id only, whatever the job's status is by now.
finish_job ==
    /\ wpc = "finish"
    /\ SetStatus(wjob, verdict)
    /\ EndTick
    /\ UNCHANGED <<rows, req, dispatched, ghost>>

\* A statement of the tick fails: `?` leaves tick_once, the loop goes on.
TickFails ==
    /\ wpc # "idle"
    /\ faults < MaxFaults
    /\ faults' = faults + 1
    /\ EndTick
    /\ UNCHANGED <<jobs, rows, req, dispatched, retries>>

\* The process dies and is started again: only the tables survive.
Crash ==
    /\ faults < MaxFaults
    /\ faults' = faults + 1
    /\ EndTick
    /\ req' = [c \in Clients |-> NoRequest]
    /\ UNCHANGED <<jobs, rows, dispatched, retries>>

-----------------------------------------------------------------------------

Init ==
    /\ jobs = [j \in Jobs |-> NoJob]
    /\ rows = [j \in Jobs |-> [r \in Recipients |-> NoRow]]
    /\ req = [c \in Clients |-> NoRequest]
    /\ wpc = "idle" /\ wjob = Nil /\ batch = NoBatch /\ cur = Nil /\ verdict = Nil
    /\ dispatched = [j \in Jobs |-> [r \in Recipients |-> 0]]
    /\ retries = 0 /\ faults = 0

RequestArrives(c) ==
    \E j \in Jobs :
        \/ \E want \in SUBSET Recipients \ {{}}, dedup \in BOOLEAN : create_blast(c, j, want, dedup)
        \/ cancel_blast(c, j)
        \/ retry_blast(c, j)

RequestStep(c) ==
    \/ \E due \in BOOLEAN : insert_job(c, due)
    \/ \E r \in Recipients : insert_recipient(c, r)
    \/ cancel_job(c)
    \/ requeue_failed(c)
    \/ reopen_job(c)

WorkerStep ==
    \/ running_job \/ select_due \/ claim_next_due \/ reset_sending_recipients
    \/ job_status \/ pending_recipients \/ mark_recipient_sending \/ dispatch
    \/ mark_recipient_sent \/ incr_sent \/ incr_failed \/ mark_recipient_retry
    \/ mark_recipient_dlq \/ incr_dlq \/ finalize_job \/ finish_job

Next ==
    \/ \E c \in Clients : RequestArrives(c) \/ RequestStep(c) \/ AbortRequest(c)
    \/ \E j \in Jobs : SendAtPasses(j)
    \/ WorkerStep
    \/ TickFails
    \/ Crash

Spec == Init /\ [][Next]_vars

\* The interval timer keeps ticking and every statement and dispatch it awaits
\* returns; send_at is a point in time that comes.
FairSpec ==
    /\ Spec
    /\ WF_vars(WorkerStep)
    /\ \A j \in Jobs : WF_vars(SendAtPasses(j))

-----------------------------------------------------------------------------
(* Properties *)

RowsIn(j, s)   == {r \in Recipients : rows[j][r].status = s}
AtWork(j, pc)  == IF wjob = j /\ wpc = pc THEN 1 ELSE 0
Finished       == {"completed", "completed_with_failures"}

\* Every table, request and worker variable holds a value of its kind.
TypeOK ==
    /\ jobs \in [Jobs -> JobRow]
    /\ rows \in [Jobs -> [Recipients -> Row]]
    /\ req \in [Clients -> Request]
    /\ wpc \in WorkerPc
    /\ wjob \in Jobs \cup {Nil}
    /\ DOMAIN batch \subseteq Recipients /\ batch \in [DOMAIN batch -> Nat]
    /\ cur \in Recipients \cup {Nil}
    /\ verdict \in Finished \cup {Nil}
    /\ dispatched \in [Jobs -> [Recipients -> Nat]]
    /\ retries \in 0..MaxRetries
    /\ faults \in 0..MaxFaults

\* The worker drains one job at a time: claim_next_due never makes a second job
\* running, whatever requests slip in between tick_once's two statements.
OneRunningJob == Cardinality(Running) <= 1

\* The attempts a row has used never exceed max_attempts, a row still to be sent
\* has one left, and only a row that used them all is in the DLQ, although the
\* worker decides on the attempts its batch was read with while retries reset them.
AttemptsCapped ==
    \A j \in Jobs, r \in Recipients :
        /\ rows[j][r].status = "dlq" => rows[j][r].attempts = MaxAttempts
        /\ rows[j][r].status # "dlq" => rows[j][r].attempts < MaxAttempts

\* One send at a time: apart from the worker's current recipient, a row is only
\* ever `sending` because a tick was cut short while it was in flight.
OneInFlight ==
    Cardinality({p \in Jobs \X Recipients :
                    rows[p[1]][p[2]].status = "sending" /\ p # <<wjob, cur>>}) <= faults

\* A message goes out again for the same job and recipient only if a tick was
\* cut short after an earlier one; cancelling and retrying never repeats it.
DeliveredOnce ==
    \A j \in Jobs, r \in Recipients : dispatched[j][r] <= 1 + faults

\* A row is `sent` only if WhatsApp took the message, and a taken message is
\* recorded unless the tick was cut short before it could be.
SentMeansDelivered ==
    \A j \in Jobs, r \in Recipients :
        /\ rows[j][r].status = "sent" => dispatched[j][r] > 0
        /\ dispatched[j][r] > 0 /\ faults = 0 /\ ~(wpc = "markSent" /\ wjob = j /\ cur = r)
             => rows[j][r].status = "sent"

\* sent_count never overstates the delivered rows and lags them by no more than
\* the increment in progress and one per tick cut short before it.
SentCountMatches ==
    \A j \in Jobs :
        LET sent == Cardinality(RowsIn(j, "sent"))
        IN  /\ jobs[j].sent_count <= sent
            /\ sent <= jobs[j].sent_count + AtWork(j, "incrSent") + faults

\* A job closed as `completed` hides no dead recipient, but for the increments
\* of dlq_count lost to ticks cut short.
CompletedHidesNoDlq ==
    \A j \in Jobs : jobs[j].status = "completed" => Cardinality(RowsIn(j, "dlq")) <= faults

\* The counters a job reports, and is closed by, agree with its rows but for
\* what was lost to ticks cut short.
CountersTrue == SentCountMatches /\ CompletedHidesNoDlq

\* A recipient skipped as a duplicate was delivered to by another blast of the
\* session, and the job it was skipped in never sends to it.
SkipJustified ==
    \A j \in Jobs : \A r \in RowsIn(j, "skipped_dup") :
        /\ dispatched[j][r] = 0
        /\ \E i \in Jobs \ {j} : SessionOf[i] = SessionOf[j] /\ rows[i][r].status = "sent"

\* Once a row is `sent` no request and no later pass of the worker touches it.
SentIsFinal ==
    [][\A j \in Jobs, r \in Recipients :
           rows[j][r].status = "sent" => rows'[j][r] = rows[j][r]]_vars

\* A job leaves `running` only by being finished or cancelled: a retry that was
\* let through before the job was claimed does not take it from the worker.
RunningExits ==
    [][\A j \in Running : jobs'[j].status \in {"running"} \cup Terminal]_vars

\* Every due job is eventually closed, whatever fails on the way.
DueJobEnds ==
    \A j \in Jobs :
        jobs[j].status \in {"pending", "running"} ~> jobs[j].status \in Terminal

-----------------------------------------------------------------------------
(* What the documentation says and the code does not do *)

\* BlastJobStatus: `completed` means every recipient is terminal.
CompletedMeansSettled ==
    \A j \in Jobs : jobs[j].status = "completed" => PendingRows(j) = {}

=============================================================================
