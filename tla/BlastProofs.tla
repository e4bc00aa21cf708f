---------------------------- MODULE BlastProofs ----------------------------
(* Proofs about Blast, for every value of its constants. *)
EXTENDS BlastRefinement, FiniteSetTheorems, TLAPS

\* The worker's locals are in step with its program counter.
Holding == Sending \cup {"incrSent", "incrDlq"}

WorkerOK ==
    /\ wpc \notin {"idle", "claim"} => wjob \in Jobs
    /\ IF wpc \in Holding THEN cur \in DOMAIN batch ELSE cur = Nil
    /\ wpc = "finish" => verdict \in Finished

Typed == TypeOK /\ WorkerOK

\* The three updates that change one field of one row keep their table's type.
LEMMA RequestPcType ==
    ASSUME NEW c \in Clients, NEW pc \in RequestPc, req \in [Clients -> Request],
           req' = [req EXCEPT ![c].pc = pc]
    PROVE  req' \in [Clients -> Request]
<1>1. [req[c] EXCEPT !.pc = pc] \in Request
  BY DEF Request
<1> QED BY <1>1

\* An update of a job's status keeps the table's type.
LEMMA StatusType ==
    ASSUME NEW j \in Jobs \cup {Nil}, NEW s \in JobStatus, jobs \in [Jobs -> JobRow],
           SetStatus(j, s)
    PROVE  jobs' \in [Jobs -> JobRow]
<1>1. ASSUME j \in Jobs PROVE [jobs[j] EXCEPT !.status = s] \in JobRow
  BY <1>1 DEF JobRow
<1>2. CASE j \in Jobs
   BY <1>1, <1>2 DEF SetStatus
<1>3. CASE j \notin Jobs
   BY <1>3 DEF SetStatus
<1> QED BY <1>2, <1>3

\* An update of one recipient row keeps the table's type.
LEMMA RowType ==
    ASSUME NEW j \in Jobs, NEW r \in Recipients, NEW s \in RowStatus, NEW n \in Nat,
           rows \in [Jobs -> [Recipients -> Row]], UpdateRow(j, r, s, n)
    PROVE  rows' \in [Jobs -> [Recipients -> Row]]
BY DEF UpdateRow, Row

\* The empty tables and the idle worker are well typed.
LEMMA TypedInit == Init => Typed
  BY BlastAssumption DEF Init, Typed, TypeOK, WorkerOK, Holding, NoJob, JobRow, JobStatus,
     Terminal, NoRow, Row, RowStatus, NoRequest, Request, RequestPc, WorkerPc, NoBatch, Finished,
     Sending

\* Every statement of a request and of the worker keeps the types, and the
\* worker's locals in step with where it is.
LEMMA TypedNext == Typed /\ [Next]_vars => Typed'
<1> SUFFICES ASSUME Typed, [Next]_vars PROVE Typed'
  OBVIOUS
<1> USE BlastAssumption
<1> USE DEF Typed, TypeOK, WorkerOK, Holding, Sending, Finished
<1>1. ASSUME NEW c \in Clients, NEW j \in Jobs, NEW want \in SUBSET Recipients \ {{}},
             NEW dedup \in BOOLEAN, create_blast(c, j, want, dedup)
      PROVE  Typed'
  <2>1. req' \in [Clients -> Request]
    BY <1>1 DEF create_blast, Request, RequestPc
  <2> QED BY <1>1, <2>1 DEF create_blast, worker, ghost
<1>2. ASSUME NEW c \in Clients, NEW due \in BOOLEAN, insert_job(c, due)
      PROVE  Typed'
  <2>1. req' \in [Clients -> Request]
    BY <1>2, RequestPcType DEF insert_job, RequestPc
  <2>2. jobs' \in [Jobs -> JobRow]
    BY <1>2 DEF insert_job, Request, RequestPc, NoJob, JobRow, JobStatus
  <2> QED BY <1>2, <2>1, <2>2 DEF insert_job, worker, ghost
<1>3. ASSUME NEW c \in Clients, NEW r \in Recipients, insert_recipient(c, r)
      PROVE  Typed'
  <2>1. req' \in [Clients -> Request]
    <3> DEFINE less == [req[c] EXCEPT !.accepted = @ \ {r}, !.skipped = @ \ {r}]
    <3>1. less \in Request
      <4>1. req[c] \in Request
        OBVIOUS
      <4> QED
        BY ONLY <4>1 DEF Request
    <3>2. CASE req' = [req EXCEPT ![c].accepted = @ \ {r}, ![c].skipped = @ \ {r}]
      <4>1. req' = [req EXCEPT ![c] = less]
        BY <3>2
      <4> HIDE DEF less
      <4> QED
        BY ONLY <3>1, <4>1, req \in [Clients -> Request]
    <3>3. CASE Answer(c)
      BY <3>3 DEF Answer, Request, RequestPc, NoRequest
    <3> QED BY <1>3, <3>2, <3>3 DEF insert_recipient
  <2>2. rows' \in [Jobs -> [Recipients -> Row]]
    BY <1>3 DEF insert_recipient, Row, NoRow, RowStatus
  <2> QED BY <1>3, <2>1, <2>2 DEF insert_recipient, worker, ghost
<1>4. ASSUME NEW c \in Clients, NEW j \in Jobs, cancel_blast(c, j)
      PROVE  Typed'
  <2>1. req' \in [Clients -> Request]
    BY <1>4 DEF cancel_blast, Serve, Request, RequestPc, NoRequest
  <2> QED BY <1>4, <2>1 DEF cancel_blast, worker, ghost
<1>5. ASSUME NEW c \in Clients, cancel_job(c)
      PROVE  Typed'
  <2>1. req' \in [Clients -> Request]
    BY <1>5 DEF cancel_job, Answer, Request, RequestPc, NoRequest
  <2>2. jobs' \in [Jobs -> JobRow]
    <3>1. req[c].job \in Jobs \cup {Nil}
      BY DEF Request
    <3> QED BY <1>5, <3>1, StatusType DEF cancel_job, JobStatus, Terminal
  <2> QED BY <1>5, <2>1, <2>2 DEF cancel_job, worker, ghost
<1>6. ASSUME NEW c \in Clients, NEW j \in Jobs, retry_blast(c, j)
      PROVE  Typed'
  <2>1. req' \in [Clients -> Request]
    BY <1>6 DEF retry_blast, Serve, Request, RequestPc, NoRequest
  <2>2. retries' \in 0..MaxRetries
    BY <1>6 DEF retry_blast
  <2> QED BY <1>6, <2>1, <2>2 DEF retry_blast, worker
<1>7. ASSUME NEW c \in Clients, requeue_failed(c)
      PROVE  Typed'
  <2>1. req' \in [Clients -> Request]
    <3>1. CASE req' = [req EXCEPT ![c].pc = "reopen"]
      BY <3>1, RequestPcType DEF RequestPc
    <3>2. CASE Answer(c)
      BY <3>2 DEF Answer, Request, RequestPc, NoRequest
    <3> QED BY <1>7, <3>1, <3>2 DEF requeue_failed
  <2>2. rows' \in [Jobs -> [Recipients -> Row]]
    <3>1. [status |-> "pending", attempts |-> 0] \in Row
      BY DEF Row, RowStatus
    <3> QED BY <1>7, <3>1 DEF requeue_failed
  <2> QED BY <1>7, <2>1, <2>2 DEF requeue_failed, worker, ghost
<1>8. ASSUME NEW c \in Clients, reopen_job(c)
      PROVE  Typed'
  <2>1. req' \in [Clients -> Request]
    BY <1>8 DEF reopen_job, Answer, Request, RequestPc, NoRequest
  <2>2. jobs' \in [Jobs -> JobRow]
    <3>1. req[c].job \in Jobs \cup {Nil}
      BY DEF Request
    <3> QED BY <1>8, <3>1, StatusType DEF reopen_job, JobStatus
  <2> QED BY <1>8, <2>1, <2>2 DEF reopen_job, worker, ghost
<1>9. ASSUME NEW c \in Clients, AbortRequest(c)
      PROVE  Typed'
  <2>1. req' \in [Clients -> Request]
    BY <1>9 DEF AbortRequest, Answer, Request, RequestPc, NoRequest
  <2> QED BY <1>9, <2>1 DEF AbortRequest, worker, ghost
<1>10. ASSUME NEW j \in Jobs, SendAtPasses(j)
      PROVE  Typed'
  <2>1. jobs' \in [Jobs -> JobRow]
    BY <1>10 DEF SendAtPasses, JobRow
  <2> QED BY <1>10, <2>1 DEF SendAtPasses, worker, ghost
<1>11. CASE running_job
  BY <1>11 DEF running_job, Running, WorkerPc, ghost
<1>12. CASE select_due
  BY <1>12 DEF select_due, DuePending, WorkerPc, ghost
<1>13. CASE claim_next_due
  <2>1. jobs' \in [Jobs -> JobRow]
    BY <1>13, StatusType DEF claim_next_due, JobStatus
  <2>2. CASE GoTo("reset")
    BY <1>13, <2>1, <2>2 DEF claim_next_due, WorkerPc, GoTo, ghost
  <2>3. CASE EndTick
    BY <1>13, <2>1, <2>3 DEF claim_next_due, WorkerPc, EndTick, Forget, NoBatch, ghost
  <2> QED BY <1>13, <2>2, <2>3 DEF claim_next_due
<1>14. CASE reset_sending_recipients
  <2>1. rows' \in [Jobs -> [Recipients -> Row]]
    <3>1. \A r \in Recipients : rows[wjob][r] \in Row
      BY <1>14 DEF reset_sending_recipients
    <3>2. \A x \in Row : [x EXCEPT !.status = "pending"] \in Row
      BY DEF Row, RowStatus
    <3> QED BY <1>14, <3>1, <3>2 DEF reset_sending_recipients
  <2> QED BY <1>14, <2>1 DEF reset_sending_recipients, WorkerPc, GoTo, ghost
<1>15. CASE job_status
  <2>1. CASE GoTo("fetch")
    BY <1>15, <2>1 DEF job_status, WorkerPc, GoTo, ghost
  <2>2. CASE EndTick
    BY <1>15, <2>2 DEF job_status, WorkerPc, EndTick, Forget, NoBatch, ghost
  <2> QED BY <1>15, <2>1, <2>2 DEF job_status
<1>16. CASE pending_recipients
  <2>1. PICK S \in SUBSET PendingRows(wjob) :
          /\ batch' = [r \in S |-> rows[wjob][r].attempts]
          /\ wpc' = IF S = {} THEN "finalize" ELSE "mark"
    BY <1>16 DEF pending_recipients
  <2>2. \A r \in S : rows[wjob][r].attempts \in Nat
    BY <1>16 DEF pending_recipients, PendingRows, Row
  <2>3. S \subseteq Recipients
    BY DEF PendingRows
  <2> QED BY <1>16, <2>1, <2>2, <2>3 DEF pending_recipients, WorkerPc, ghost
<1>17. CASE mark_recipient_sending
  <2>1. rows' \in [Jobs -> [Recipients -> Row]]
    BY <1>17, RowType DEF mark_recipient_sending, RowStatus
  <2> QED BY <1>17, <2>1 DEF mark_recipient_sending, WorkerPc, ghost
<1>18. CASE dispatch
  <2>1. dispatched' \in [Jobs -> [Recipients -> Nat]]
    <3>1. dispatched \in [Jobs -> [Recipients -> Nat]]
          /\ (UNCHANGED dispatched \/ dispatched' = [dispatched EXCEPT ![wjob][cur] = @ + 1])
      BY <1>18 DEF dispatch
    <3> QED
      BY ONLY <3>1
  <2> QED BY <1>18, <2>1 DEF dispatch, WorkerPc, GoTo, ghost
<1>19. CASE mark_recipient_sent
  <2>1. rows' \in [Jobs -> [Recipients -> Row]]
    BY <1>19, RowType DEF mark_recipient_sent, RowStatus
  <2> QED BY <1>19, <2>1 DEF mark_recipient_sent, WorkerPc, GoTo, ghost
<1>20. ASSUME NextRecipient, wpc \in Holding
       PROVE  /\ DOMAIN batch' \subseteq Recipients /\ batch' \in [DOMAIN batch' -> Nat]
              /\ wpc' \in {"check", "mark"} /\ wjob' = wjob /\ cur' = Nil /\ verdict' = verdict
  BY <1>20 DEF NextRecipient, Restrict
<1>21. CASE incr_sent
  <2>1. jobs' \in [Jobs -> JobRow]
    <3>1. wjob \in Jobs
      BY <1>21 DEF incr_sent
    <3>2. jobs[wjob] \in JobRow /\ jobs[wjob].sent_count + 1 \in Nat
      BY <3>1 DEF JobRow
    <3>3. [jobs[wjob] EXCEPT !.sent_count = @ + 1] \in JobRow
      BY <3>2 DEF JobRow
    <3> QED BY <1>21, <3>3 DEF incr_sent
  <2> QED BY <1>20, <1>21, <2>1 DEF incr_sent, WorkerPc, ghost
<1>22. CASE incr_failed
  <2>1. jobs' \in [Jobs -> JobRow]
    <3>1. wjob \in Jobs
      BY <1>22 DEF incr_failed
    <3>2. jobs[wjob] \in JobRow /\ jobs[wjob].failed_count + 1 \in Nat
      BY <3>1 DEF JobRow
    <3>3. [jobs[wjob] EXCEPT !.failed_count = @ + 1] \in JobRow
      BY <3>2 DEF JobRow
    <3> QED BY <1>22, <3>3 DEF incr_failed
  <2> QED BY <1>22, <2>1 DEF incr_failed, WorkerPc, GoTo, ghost
<1>23. CASE mark_recipient_retry
  <2>1. rows' \in [Jobs -> [Recipients -> Row]]
    BY <1>23, RowType DEF mark_recipient_retry, RowStatus
  <2> QED BY <1>20, <1>23, <2>1 DEF mark_recipient_retry, WorkerPc, ghost
<1>24. CASE mark_recipient_dlq
  <2>1. rows' \in [Jobs -> [Recipients -> Row]]
    BY <1>24, RowType DEF mark_recipient_dlq, RowStatus
  <2> QED BY <1>24, <2>1 DEF mark_recipient_dlq, WorkerPc, GoTo, ghost
<1>25. CASE incr_dlq
  <2>1. jobs' \in [Jobs -> JobRow]
    <3>1. wjob \in Jobs
      BY <1>25 DEF incr_dlq
    <3>2. jobs[wjob] \in JobRow /\ jobs[wjob].dlq_count + 1 \in Nat
      BY <3>1 DEF JobRow
    <3>3. [jobs[wjob] EXCEPT !.dlq_count = @ + 1] \in JobRow
      BY <3>2 DEF JobRow
    <3> QED BY <1>25, <3>3 DEF incr_dlq
  <2> QED BY <1>20, <1>25, <2>1 DEF incr_dlq, WorkerPc, ghost
<1>26. CASE finalize_job
  BY <1>26 DEF finalize_job, WorkerPc, ghost
<1>27. CASE finish_job
  <2>1. jobs' \in [Jobs -> JobRow]
    BY <1>27, StatusType DEF finish_job, JobStatus, Terminal
  <2> QED BY <1>27, <2>1 DEF finish_job, WorkerPc, EndTick, Forget, NoBatch, ghost
<1>28. CASE TickFails
  BY <1>28 DEF TickFails, WorkerPc, EndTick, Forget, NoBatch
<1>29. CASE Crash
  <2>1. req' \in [Clients -> Request]
    BY <1>29 DEF Crash, Request, RequestPc, NoRequest
  <2> QED BY <1>29, <2>1 DEF Crash, WorkerPc, EndTick, Forget, NoBatch
<1>30. CASE UNCHANGED vars
  BY <1>30 DEF vars, worker, ghost
<1> HIDE DEF Typed, TypeOK, WorkerOK, Holding, Sending, Finished
<1> QED
  BY <1>1, <1>2, <1>3, <1>4, <1>5, <1>6, <1>7, <1>8, <1>9, <1>10, <1>11, <1>12, <1>13,
     <1>14, <1>15, <1>16, <1>17, <1>18, <1>19, <1>21, <1>22, <1>23, <1>24, <1>25, <1>26,
     <1>27, <1>28, <1>29, <1>30
  DEF Next, RequestArrives, RequestStep, WorkerStep

\* Type correctness, for any number of jobs, recipients and requests.
THEOREM TypeCorrect == Spec => []TypeOK
<1>1. Spec => []Typed
  BY TypedInit, TypedNext, PTL DEF Spec
<1>2. Typed => TypeOK
  BY DEF Typed
<1> QED BY <1>1, <1>2, PTL

-----------------------------------------------------------------------------
(* One running job *)

\* Between finding no running job and claiming one, none can start to run.
ClaimOK ==
    /\ wpc \in {"claim", "claimUpdate"} => Running = {}
    /\ \A i, j \in Running : i = j

\* The statements that write the table of jobs.
LEMMA JobsCases ==
    ASSUME [Next]_vars
    PROVE  \/ UNCHANGED jobs
           \/ \E c \in Clients : \/ \E due \in BOOLEAN : insert_job(c, due)
                                \/ cancel_job(c) \/ reopen_job(c)
           \/ \E j \in Jobs : SendAtPasses(j)
           \/ claim_next_due \/ finish_job \/ incr_sent \/ incr_failed \/ incr_dlq
<1>1. ASSUME NEW c \in Clients, RequestArrives(c) \/ AbortRequest(c) PROVE UNCHANGED jobs
  BY <1>1 DEF RequestArrives, create_blast, cancel_blast, retry_blast, AbortRequest
<1>2. ASSUME NEW c \in Clients, RequestStep(c)
      PROVE  \/ UNCHANGED jobs
             \/ \E due \in BOOLEAN : insert_job(c, due)
             \/ cancel_job(c) \/ reopen_job(c)
  BY <1>2 DEF RequestStep, insert_recipient, requeue_failed
<1>3. ASSUME WorkerStep
      PROVE  \/ UNCHANGED jobs
             \/ claim_next_due \/ finish_job \/ incr_sent \/ incr_failed \/ incr_dlq
  BY <1>3 DEF WorkerStep, running_job, select_due, reset_sending_recipients, job_status,
     pending_recipients, mark_recipient_sending, dispatch, mark_recipient_sent,
     mark_recipient_retry, mark_recipient_dlq, finalize_job
<1>4. ASSUME TickFails \/ Crash \/ UNCHANGED vars PROVE UNCHANGED jobs
  BY <1>4 DEF TickFails, Crash, vars
<1> QED
  BY <1>1, <1>2, <1>3, <1>4 DEF Next

\* Nothing but the claim makes a job running.
LEMMA RunningShrinks ==
    ASSUME Typed, [Next]_vars, ~claim_next_due
    PROVE  Running' \subseteq Running
<1> SUFFICES ASSUME NEW k \in Jobs, jobs[k].status # "running"
             PROVE  jobs'[k].status # "running"
  BY DEF Running
<1> USE DEF Typed, TypeOK
<1>1. ASSUME NEW c \in Clients, NEW due \in BOOLEAN, insert_job(c, due)
      PROVE  jobs'[k].status # "running"
  <2>1. [NoJob EXCEPT !.status = "pending", !.due = due, !.dedup = req[c].dedup].status = "pending"
    BY DEF NoJob
  <2> QED BY <1>1, <2>1 DEF insert_job
<1>2. ASSUME NEW j, NEW s, s # "running", SetStatus(j, s)
      PROVE  jobs'[k].status # "running"
  <2>1. jobs[k] \in JobRow
    OBVIOUS
  <2> QED BY <1>2, <2>1 DEF SetStatus, JobRow
<1>3. ASSUME NEW c \in Clients, cancel_job(c) \/ reopen_job(c)
      PROVE  jobs'[k].status # "running"
  BY <1>2, <1>3 DEF cancel_job, reopen_job
<1>4. CASE finish_job
  BY <1>2, <1>4 DEF finish_job, WorkerOK, Finished
<1>5. ASSUME NEW j \in Jobs, SendAtPasses(j)
      PROVE  jobs'[k].status # "running"
  <2>1. jobs[k] \in JobRow
    OBVIOUS
  <2> QED BY <1>5, <2>1 DEF SendAtPasses, JobRow
<1>6. CASE incr_sent \/ incr_failed \/ incr_dlq
  <2>1. jobs[k] \in JobRow
    OBVIOUS
  <2>2. CASE incr_sent
    BY <2>1, <2>2 DEF incr_sent, JobRow
  <2>3. CASE incr_failed
    BY <2>1, <2>3 DEF incr_failed, JobRow
  <2>4. CASE incr_dlq
    BY <2>1, <2>4 DEF incr_dlq, JobRow
  <2> QED BY <1>6, <2>2, <2>3, <2>4
<1>7. ASSUME UNCHANGED jobs
      PROVE  jobs'[k].status # "running"
  BY <1>7
<1> HIDE DEF Typed, TypeOK
<1> QED
  BY <1>1, <1>3, <1>4, <1>5, <1>6, <1>7, JobsCases

\* The claim is the only step that makes a job running, and it is only reached
\* with none running.
LEMMA ClaimOKNext == Typed /\ ClaimOK /\ [Next]_vars => ClaimOK'
<1> SUFFICES ASSUME Typed, ClaimOK, [Next]_vars PROVE ClaimOK'
  OBVIOUS
<1>1. CASE claim_next_due
  <2>1. wjob \in Jobs /\ jobs \in [Jobs -> JobRow] /\ Running = {}
    BY <1>1 DEF claim_next_due, ClaimOK, Typed, TypeOK, WorkerOK
  <2>2. Running' \subseteq {wjob}
    BY <1>1, <2>1 DEF claim_next_due, Running, SetStatus
  <2>3. wpc' \in {"reset", "idle"}
    BY <1>1 DEF claim_next_due, GoTo, EndTick
  <2> QED BY <2>2, <2>3 DEF ClaimOK
<1>2. CASE ~claim_next_due
  <2>1. Running' \subseteq Running
    BY <1>2, RunningShrinks
  <2>2. wpc' \in {"claim", "claimUpdate"} => Running = {}
    <3>1. CASE running_job
      BY <3>1 DEF running_job
    <3>2. CASE select_due
      BY <3>2 DEF select_due, ClaimOK
    <3>3. ASSUME UNCHANGED wpc
          PROVE  wpc' \in {"claim", "claimUpdate"} => Running = {}
      BY <3>3 DEF ClaimOK
    <3>4. ASSUME wpc' \notin {"claim", "claimUpdate"}
          PROVE  wpc' \in {"claim", "claimUpdate"} => Running = {}
      BY <3>4
    <3>5. ASSUME WorkerStep
          PROVE  \/ running_job \/ select_due \/ wpc' \notin {"claim", "claimUpdate"}
      BY <1>2, <3>5 DEF WorkerStep, GoTo, EndTick, NextRecipient, reset_sending_recipients,
         job_status, pending_recipients, mark_recipient_sending, dispatch, mark_recipient_sent,
         incr_sent, incr_failed, mark_recipient_retry, mark_recipient_dlq, incr_dlq,
         finalize_job, finish_job
    <3>6. ASSUME NEW c \in Clients, RequestArrives(c) \/ RequestStep(c) \/ AbortRequest(c)
          PROVE  UNCHANGED wpc \/ wpc' \notin {"claim", "claimUpdate"}
      BY <3>6 DEF RequestArrives, RequestStep, worker, create_blast, insert_job,
         insert_recipient, cancel_blast, cancel_job, retry_blast, requeue_failed, reopen_job,
         AbortRequest
    <3>7. ASSUME (\E j \in Jobs : SendAtPasses(j)) \/ TickFails \/ Crash \/ UNCHANGED vars
          PROVE  UNCHANGED wpc \/ wpc' \notin {"claim", "claimUpdate"}
      BY <3>7 DEF SendAtPasses, TickFails, Crash, EndTick, worker, vars
    <3> QED
      BY <3>1, <3>2, <3>3, <3>4, <3>5, <3>6, <3>7 DEF Next
  <2> QED BY <2>1, <2>2 DEF ClaimOK
<1> QED BY <1>1, <1>2

\* At most one job is running, in every reachable state.
THEOREM OneRunning == Spec => []OneRunningJob
<1>1. Init => ClaimOK
  BY DEF Init, ClaimOK, Running, NoJob
<1>2. Spec => [](Typed /\ ClaimOK)
  BY <1>1, TypedInit, TypedNext, ClaimOKNext, PTL DEF Spec
<1>3. ClaimOK => OneRunningJob
  <2> SUFFICES ASSUME ClaimOK PROVE Cardinality(Running) <= 1
    BY DEF OneRunningJob
  <2>1. CASE Running = {}
    BY <2>1, FS_EmptySet
  <2>2. ASSUME NEW j \in Running PROVE Cardinality(Running) <= 1
    <3>1. Running = {j}
      BY <2>2 DEF ClaimOK
    <3>2. Cardinality({j}) = 1
      BY FS_Singleton
    <3> QED BY <3>1, <3>2
  <2> QED BY <2>1, <2>2
<1> QED BY <1>2, <1>3, PTL

-----------------------------------------------------------------------------
(* How a job's status may change *)

\* A job exists only once its creating request has inserted it, and is
\* referred to by no other request and by no worker before that.
ExistOK ==
    /\ \A c \in Clients : req[c].pc = "insertJob" =>
         /\ req[c].job \in Jobs /\ jobs[req[c].job].status = "none"
         /\ \A d \in Clients : req[d].job = req[c].job => d = c
    /\ \A c \in Clients : req[c].pc \notin {"idle", "insertJob"} =>
         req[c].job \in Jobs /\ jobs[req[c].job].status # "none"
    /\ wjob \in Jobs => jobs[wjob].status # "none"
    /\ \A j \in Jobs, r \in Recipients :
         jobs[j].status = "none" => rows[j][r].status = "none"

\* The only changes of status there are.
StatusMove(k) ==
    \/ jobs'[k].status = jobs[k].status
    \/ /\ jobs[k].status = "none" /\ jobs'[k].status = "pending"
       /\ \E c \in Clients, due \in BOOLEAN : insert_job(c, due) /\ req[c].job = k
    \/ /\ jobs[k].status # "none" /\ jobs'[k].status # "none"
       /\ jobs[k].status = "running" => jobs'[k].status \in Terminal

\* Whatever the step, a job's status changes in one of these ways.
LEMMA StatusStep ==
    ASSUME Typed, ExistOK, [Next]_vars, NEW k \in Jobs
    PROVE  StatusMove(k)
<1> USE DEF Typed, TypeOK
<1>0. jobs[k] \in JobRow
  OBVIOUS
<1>1. ASSUME NEW c \in Clients, NEW due \in BOOLEAN, insert_job(c, due)
      PROVE  StatusMove(k)
  <2>1. [NoJob EXCEPT !.status = "pending", !.due = due, !.dedup = req[c].dedup].status = "pending"
    BY DEF NoJob
  <2>2. CASE req[c].job = k
    BY <1>1, <2>1, <2>2 DEF insert_job, StatusMove, ExistOK
  <2>3. CASE req[c].job # k
    BY <1>1, <2>3 DEF insert_job, StatusMove
  <2> QED BY <2>2, <2>3
<1>2. ASSUME NEW j \in Jobs, NEW s \in JobStatus \ {"none", "running"}, SetStatus(j, s),
             jobs[j].status # "none", jobs[j].status = "running" => s \in Terminal
      PROVE  StatusMove(k)
  BY <1>0, <1>2 DEF SetStatus, StatusMove, JobRow
<1>3. ASSUME NEW c \in Clients, cancel_job(c)
      PROVE  StatusMove(k)
  <2>1. CASE UNCHANGED jobs
    BY <2>1 DEF StatusMove
  <2>2. CASE SetStatus(req[c].job, "cancelled")
    BY <1>2, <1>3, <2>2 DEF cancel_job, ExistOK, JobStatus, Terminal
  <2> QED BY <1>3, <2>1, <2>2 DEF cancel_job
<1>4. ASSUME NEW c \in Clients, reopen_job(c)
      PROVE  StatusMove(k)
  <2>1. CASE jobs[req[c].job].status = "running"
    BY <1>4, <2>1 DEF reopen_job, StatusMove
  <2>2. CASE jobs[req[c].job].status # "running"
    BY <1>2, <1>4, <2>2 DEF reopen_job, ExistOK, JobStatus
  <2> QED BY <2>1, <2>2
<1>5. CASE claim_next_due
  <2>1. CASE UNCHANGED jobs
    BY <2>1 DEF StatusMove
  <2>2. CASE jobs[wjob].status = "pending" /\ SetStatus(wjob, "running")
    BY <1>0, <1>5, <2>2 DEF SetStatus, StatusMove, JobRow
  <2> QED BY <1>5, <2>1, <2>2 DEF claim_next_due
<1>6. CASE finish_job
  <2>1. wjob \in Jobs /\ jobs[wjob].status # "none" /\ verdict \in Finished
    BY <1>6 DEF finish_job, WorkerOK, ExistOK
  <2> QED BY <1>2, <1>6, <2>1 DEF finish_job, Finished, JobStatus, Terminal
<1>7. ASSUME NEW j \in Jobs, SendAtPasses(j)
      PROVE  StatusMove(k)
  BY <1>0, <1>7 DEF SendAtPasses, StatusMove, JobRow
<1>8. CASE incr_sent
  BY <1>0, <1>8 DEF incr_sent, StatusMove, JobRow
<1>9. CASE incr_failed
  BY <1>0, <1>9 DEF incr_failed, StatusMove, JobRow
<1>10. CASE incr_dlq
  BY <1>0, <1>10 DEF incr_dlq, StatusMove, JobRow
<1>11. ASSUME UNCHANGED jobs
       PROVE  StatusMove(k)
  BY <1>11 DEF StatusMove
<1> HIDE DEF Typed, TypeOK
<1> QED
  BY <1>1, <1>3, <1>4, <1>5, <1>6, <1>7, <1>8, <1>9, <1>10, <1>11, JobsCases

\* An unfinished request keeps its job until it is answered.
LEMMA ExistOKNext == Typed /\ ExistOK /\ [Next]_vars => ExistOK'
<1> SUFFICES ASSUME Typed, ExistOK, [Next]_vars PROVE ExistOK'
  OBVIOUS
<1>a. \A k \in Jobs : jobs[k].status # "none" => jobs'[k].status # "none"
  BY StatusStep DEF StatusMove
<1>b. ASSUME NEW k \in Jobs, jobs[k].status = "none",
             \A c \in Clients, due \in BOOLEAN : ~insert_job(c, due)
      PROVE  jobs'[k].status = "none"
  BY <1>b, StatusStep DEF StatusMove
<1>t. req \in [Clients -> Request] /\ rows \in [Jobs -> [Recipients -> Row]]
  BY DEF Typed, TypeOK
<1>1. ASSUME NEW c \in Clients, NEW j \in Jobs, NEW want \in SUBSET Recipients \ {{}},
             NEW dedup \in BOOLEAN, create_blast(c, j, want, dedup)
      PROVE  ExistOK'
  <2>1. UNCHANGED <<jobs, rows, wjob>> /\ jobs[j].status = "none"
        /\ \A d \in Clients : req[d].job # j
    BY <1>1 DEF create_blast, Fresh, worker
  <2>2. req'[c].pc = "insertJob" /\ req'[c].job = j /\ \A d \in Clients \ {c} : req'[d] = req[d]
    BY <1>1, <1>t DEF create_blast
  <2> QED BY <2>1, <2>2 DEF ExistOK
<1>2. ASSUME NEW c \in Clients, NEW due \in BOOLEAN, insert_job(c, due)
      PROVE  ExistOK'
  <2>1. /\ req'[c].pc = "insertRows" /\ req'[c].job = req[c].job
        /\ \A d \in Clients \ {c} : req'[d] = req[d]
    BY <1>2, <1>t DEF insert_job, Request
  <2>2. [NoJob EXCEPT !.status = "pending", !.due = due, !.dedup = req[c].dedup].status = "pending"
    BY DEF NoJob
  <2>3. /\ req[c].job \in Jobs /\ jobs'[req[c].job].status = "pending"
        /\ \A k \in Jobs \ {req[c].job} : jobs'[k] = jobs[k]
    BY <1>2, <2>2 DEF insert_job, ExistOK, Typed, TypeOK
  <2>4. \A d \in Clients \ {c} : req[d].job # req[c].job
    BY <1>2 DEF insert_job, ExistOK
  <2>5. UNCHANGED <<rows, wjob>>
    BY <1>2 DEF insert_job, worker
  <2> QED BY <1>2, <2>1, <2>3, <2>4, <2>5 DEF ExistOK, insert_job
<1>3. \* Any other step of a request.
      ASSUME NEW c \in Clients, UNCHANGED wjob,
             \A d \in Clients \ {c} : req'[d] = req[d],
             \/ req'[c].pc = "idle" /\ req'[c].job = Nil
             \/ /\ req'[c].pc \notin {"idle", "insertJob"}
                /\ req'[c].job \in Jobs /\ jobs[req'[c].job].status # "none",
             \A k \in Jobs : jobs[k].status = "none" <=> jobs'[k].status = "none",
             \A k \in Jobs, r \in Recipients :
                jobs[k].status = "none" => rows'[k][r].status = rows[k][r].status
      PROVE  ExistOK'
  BY <1>3, BlastAssumption DEF ExistOK
<1>4. ASSUME NEW c \in Clients, RequestArrives(c) \/ RequestStep(c) \/ AbortRequest(c),
             \A d \in Clients, due \in BOOLEAN : ~insert_job(d, due),
             \A j \in Jobs, want \in SUBSET Recipients \ {{}}, dedup \in BOOLEAN :
                ~create_blast(c, j, want, dedup)
      PROVE  ExistOK'
  <2>1. \A k \in Jobs : jobs[k].status = "none" <=> jobs'[k].status = "none"
    BY <1>a, <1>b, <1>4
  <2>2. ASSUME Answer(c)
        PROVE  /\ req'[c].pc = "idle" /\ req'[c].job = Nil
               /\ \A d \in Clients \ {c} : req'[d] = req[d]
    BY <1>t, <2>2 DEF Answer, NoRequest
  <2>3. ASSUME NEW pc \in {"cancel", "requeue"}, NEW j \in Jobs, Serve(c, pc, j)
        PROVE  /\ req'[c].pc = pc /\ req'[c].job = j
               /\ \A d \in Clients \ {c} : req'[d] = req[d]
    BY <1>t, <2>3 DEF Serve, NoRequest
  <2>4. CASE \E j \in Jobs : cancel_blast(c, j)
    BY <1>3, <2>1, <2>3, <2>4 DEF cancel_blast, worker
  <2>5. CASE \E j \in Jobs : retry_blast(c, j)
    BY <1>3, <2>1, <2>3, <2>5 DEF retry_blast, worker
  <2>6. CASE cancel_job(c) \/ reopen_job(c) \/ AbortRequest(c)
    BY <1>3, <2>1, <2>2, <2>6 DEF cancel_job, reopen_job, AbortRequest, worker
  <2>7. CASE requeue_failed(c)
    <3>1. /\ req[c].job \in Jobs /\ jobs[req[c].job].status # "none"
          /\ \A k \in Jobs \ {req[c].job} : rows'[k] = rows[k]
      BY <1>t, <2>7 DEF requeue_failed, ExistOK
    <3>2. CASE Answer(c)
      BY <1>3, <2>1, <2>2, <2>7, <3>1, <3>2 DEF requeue_failed, worker
    <3>3. CASE req' = [req EXCEPT ![c].pc = "reopen"]
      <4>1. /\ req'[c].pc = "reopen" /\ req'[c].job = req[c].job
            /\ \A d \in Clients \ {c} : req'[d] = req[d]
        BY <1>t, <3>3 DEF Request
      <4> QED BY <1>3, <2>1, <2>7, <3>1, <4>1 DEF requeue_failed, worker
    <3> QED BY <2>7, <3>2, <3>3 DEF requeue_failed
  <2>8. CASE \E r \in Recipients : insert_recipient(c, r)
    <3> PICK r \in Recipients : insert_recipient(c, r)
      BY <2>8
    <3>1. /\ req[c].job \in Jobs /\ jobs[req[c].job].status # "none"
          /\ \A k \in Jobs \ {req[c].job} : rows'[k] = rows[k]
      BY <1>t DEF insert_recipient, ExistOK
    <3>2. CASE Answer(c)
      BY <1>3, <2>1, <2>2, <3>1, <3>2 DEF insert_recipient, worker
    <3>3. CASE req' = [req EXCEPT ![c].accepted = @ \ {r}, ![c].skipped = @ \ {r}]
      <4>1. /\ req'[c].pc = "insertRows" /\ req'[c].job = req[c].job
            /\ \A d \in Clients \ {c} : req'[d] = req[d]
        BY <1>t, <3>3 DEF Request, insert_recipient
      <4> QED BY <1>3, <2>1, <3>1, <4>1 DEF insert_recipient, worker
    <3> QED BY <3>2, <3>3 DEF insert_recipient
  <2> QED
    BY <1>4, <2>4, <2>5, <2>6, <2>7, <2>8 DEF RequestArrives, RequestStep
<1>5. \* Steps of the worker and of time.
      ASSUME \/ UNCHANGED req
             \/ req' = [c \in Clients |-> NoRequest],
             \A c \in Clients, due \in BOOLEAN : ~insert_job(c, due),
             wjob' \in {wjob, Nil} \cup Running \cup DuePending,
             \A k \in Jobs : k # wjob => rows'[k] = rows[k],
             wjob \in Jobs \/ UNCHANGED rows
      PROVE  ExistOK'
  <2>1. \A k \in Jobs : jobs[k].status = "none" <=> jobs'[k].status = "none"
    BY <1>a, <1>b, <1>5
  <2>2. wjob' \in Jobs => jobs[wjob'].status # "none"
    BY <1>5, BlastAssumption DEF ExistOK, Running, DuePending
  <2>3. \A k \in Jobs, r \in Recipients :
          jobs'[k].status = "none" => rows'[k][r].status = "none"
    BY <1>5, <2>1 DEF ExistOK
  <2>4. CASE UNCHANGED req
    BY <2>1, <2>2, <2>3, <2>4 DEF ExistOK
  <2>5. CASE req' = [c \in Clients |-> NoRequest]
    BY <2>1, <2>2, <2>3, <2>5 DEF ExistOK, NoRequest
  <2> QED BY <1>5, <2>4, <2>5
<1>6. ASSUME UNCHANGED req \/ req' = [c \in Clients |-> NoRequest],
             NEW c \in Clients, NEW due \in BOOLEAN, insert_job(c, due)
      PROVE  FALSE
  <2>1. req[c].pc = "insertJob" /\ req'[c].pc = "insertRows"
    BY <1>t, <1>6 DEF insert_job, Request
  <2> QED BY <1>6, <2>1 DEF NoRequest
<1>7. ASSUME NEW j \in Jobs, SendAtPasses(j)
      PROVE  ExistOK'
  BY <1>5, <1>6, <1>7 DEF SendAtPasses, worker
<1>8. CASE WorkerStep
  <2>1. UNCHANGED req
    BY <1>8 DEF WorkerStep, running_job, select_due, claim_next_due, reset_sending_recipients,
       job_status, pending_recipients, mark_recipient_sending, dispatch, mark_recipient_sent,
       incr_sent, incr_failed, mark_recipient_retry, mark_recipient_dlq, incr_dlq,
       finalize_job, finish_job
  <2>2. wjob' \in {wjob, Nil} \cup Running \cup DuePending
    BY <1>8 DEF WorkerStep, running_job, select_due, claim_next_due, reset_sending_recipients,
       job_status, pending_recipients, mark_recipient_sending, dispatch, mark_recipient_sent,
       incr_sent, incr_failed, mark_recipient_retry, mark_recipient_dlq, incr_dlq,
       finalize_job, finish_job, GoTo, EndTick, Forget, NextRecipient
  <2>3. /\ \A k \in Jobs : k # wjob => rows'[k] = rows[k]
        /\ wjob \in Jobs \/ UNCHANGED rows
    <3>1. CASE UNCHANGED rows
      BY <3>1
    <3>2. CASE reset_sending_recipients
      BY <1>t, <3>2 DEF reset_sending_recipients, Typed, WorkerOK
    <3>3. ASSUME NEW r, NEW s, NEW n, UpdateRow(wjob, r, s, n),
                 wpc \in {"mark", "markSent", "settleFailed"}
          PROVE  /\ \A k \in Jobs : k # wjob => rows'[k] = rows[k]
                 /\ wjob \in Jobs
      BY <1>t, <3>3 DEF UpdateRow, Typed, WorkerOK
    <3> QED
      BY <1>8, <3>1, <3>2, <3>3
      DEF WorkerStep, running_job, select_due, claim_next_due,
       job_status, pending_recipients, mark_recipient_sending, dispatch, mark_recipient_sent,
       incr_sent, incr_failed, mark_recipient_retry, mark_recipient_dlq, incr_dlq,
       finalize_job, finish_job
  <2> QED BY <1>5, <1>6, <2>1, <2>2, <2>3
<1>9. CASE TickFails \/ Crash
  BY <1>5, <1>6, <1>9 DEF TickFails, Crash, EndTick, Forget
<1>10. CASE UNCHANGED vars
  BY <1>5, <1>6, <1>10 DEF vars, worker
<1> QED
  BY <1>1, <1>2, <1>4, <1>7, <1>8, <1>9, <1>10 DEF Next, RequestArrives, RequestStep

\* At the start there is no job, no request and no work.
LEMMA ExistOKInit == Init => ExistOK
  BY BlastAssumption DEF Init, ExistOK, NoJob, NoRow, NoRequest

\* A job leaves `running` only by being finished or cancelled.
THEOREM LeavesRunning == Spec => RunningExits
<1>1. Typed /\ ExistOK /\ [Next]_vars
      => [\A j \in Running : jobs'[j].status \in {"running"} \cup Terminal]_vars
  <2> SUFFICES ASSUME Typed, ExistOK, [Next]_vars, NEW j \in Running
               PROVE  jobs'[j].status \in {"running"} \cup Terminal
    OBVIOUS
  <2> QED BY StatusStep DEF StatusMove, Running
<1>2. Spec => [](Typed /\ ExistOK)
  BY TypedInit, TypedNext, ExistOKInit, ExistOKNext, PTL DEF Spec
<1> QED BY <1>1, <1>2, PTL DEF Spec, RunningExits

-----------------------------------------------------------------------------
(* How a recipient's row may change *)

\* The batch the worker holds still says what the table says: no request
\* touches the rows it has yet to send, nor the one it is sending.
BatchOK ==
    /\ wpc \notin Holding \cup {"mark"} => DOMAIN batch = {}
    /\ \A r \in DOMAIN batch :
         r # cur => rows[wjob][r] = [status |-> "pending", attempts |-> batch[r]]
    /\ wpc \in Sending =>
         rows[wjob][cur] = [status |-> "sending", attempts |-> batch[cur]]

RowInv == Typed /\ BatchOK /\ AttemptsCapped

Moves(j, r, from, to, n) ==
    rows[j][r].status = from /\ rows'[j][r] = [status |-> to, attempts |-> rows[j][r].attempts + n]

\* The only changes of a row there are, and where the worker is when it makes them.
RowMove(j, r) ==
    \/ rows'[j][r] = rows[j][r]
    \/ /\ rows[j][r].status = "none"
       /\ \E s \in {"pending", "skipped_dup"} : rows'[j][r] = [status |-> s, attempts |-> 0]
    \/ rows[j][r].status = "dlq" /\ rows'[j][r] = [status |-> "pending", attempts |-> 0]
    \/ wpc = "reset" /\ Moves(j, r, "sending", "pending", 0)
    \/ wpc = "mark" /\ Moves(j, r, "pending", "sending", 0)
    \/ /\ j = wjob /\ r = cur
       /\ \/ wpc = "markSent" /\ Moves(j, r, "sending", "sent", 0)
          \/ /\ wpc = "settleFailed" /\ rows[j][r].attempts + 1 < MaxAttempts
             /\ Moves(j, r, "sending", "pending", 1)
          \/ /\ wpc = "settleFailed" /\ rows[j][r].attempts + 1 = MaxAttempts
             /\ Moves(j, r, "sending", "dlq", 1)

\* update_recipient rewrites one row and leaves every other row alone.
LEMMA UpdateRowEffect ==
    ASSUME Typed, NEW j \in Jobs, NEW r \in Recipients, NEW s, NEW n, UpdateRow(j, r, s, n)
    PROVE  /\ rows'[j][r] = [status |-> s, attempts |-> rows[j][r].attempts + n]
           /\ \A k \in Jobs, q \in Recipients : k # j \/ q # r => rows'[k][q] = rows[k][q]
BY DEF UpdateRow, Typed, TypeOK

\* The requests change a row only to enter it, or to ask again for a dead one.
LEMMA RequestRowStep ==
    ASSUME Typed, NEW c \in Clients, RequestArrives(c) \/ RequestStep(c) \/ AbortRequest(c),
           NEW k \in Jobs, NEW q \in Recipients
    PROVE  \/ rows'[k][q] = rows[k][q]
           \/ /\ rows[k][q].status = "none"
              /\ \E s \in {"pending", "skipped_dup"} : rows'[k][q] = [status |-> s, attempts |-> 0]
           \/ rows[k][q].status = "dlq" /\ rows'[k][q] = [status |-> "pending", attempts |-> 0]
<1>t. rows \in [Jobs -> [Recipients -> Row]]
  BY DEF Typed, TypeOK
<1>1. CASE UNCHANGED rows
  BY <1>1
<1>2. CASE requeue_failed(c)
  BY <1>t, <1>2 DEF requeue_failed
<1>3. ASSUME NEW r \in Recipients, insert_recipient(c, r),
             ~UNCHANGED rows
      PROVE  /\ rows[k][q].status = "none" \/ rows'[k][q] = rows[k][q]
             /\ rows'[k][q] = rows[k][q] \/
                \E s \in {"pending", "skipped_dup"} : rows'[k][q] = [status |-> s, attempts |-> 0]
  <2>1. \A s : [NoRow EXCEPT !.status = s] = [status |-> s, attempts |-> 0]
    BY DEF NoRow
  <2> QED BY <1>t, <1>3, <2>1 DEF insert_recipient
<1> QED
  BY <1>1, <1>2, <1>3
  DEF RequestArrives, RequestStep, create_blast, insert_job, cancel_blast, cancel_job,
      retry_blast, reopen_job, AbortRequest

\* Whatever the step, a row changes in one of these ways.
LEMMA RowStep ==
    ASSUME RowInv, [Next]_vars, NEW j \in Jobs, NEW r \in Recipients
    PROVE  RowMove(j, r)
<1> USE BlastAssumption
<1>t. rows \in [Jobs -> [Recipients -> Row]] /\ rows[j][r] \in Row
  BY DEF RowInv, Typed, TypeOK
<1>1. CASE UNCHANGED rows
  BY <1>1 DEF RowMove
<1>2. ASSUME NEW c \in Clients, RequestArrives(c) \/ RequestStep(c) \/ AbortRequest(c)
      PROVE  RowMove(j, r)
  BY <1>2, RequestRowStep DEF RowMove, RowInv
<1>3. CASE reset_sending_recipients
  <2>1. rows'[j][r] = rows[j][r] \/ Moves(j, r, "sending", "pending", 0)
    BY <1>t, <1>3 DEF reset_sending_recipients, Moves, Row
  <2> QED BY <1>3, <2>1 DEF reset_sending_recipients, RowMove
<1>4. ASSUME NEW q \in Recipients, NEW s, NEW n, UpdateRow(wjob, q, s, n), wjob \in Jobs
      PROVE  \/ rows'[j][r] = rows[j][r]
             \/ /\ j = wjob /\ r = q
                /\ rows'[j][r] = [status |-> s, attempts |-> rows[j][r].attempts + n]
  <2>1. /\ rows'[wjob][q] = [status |-> s, attempts |-> rows[wjob][q].attempts + n]
        /\ \A k \in Jobs, p \in Recipients : k # wjob \/ p # q => rows'[k][p] = rows[k][p]
    BY <1>4, UpdateRowEffect DEF RowInv
  <2> QED BY <2>1
<1>5. CASE mark_recipient_sending
  <2>1. PICK q \in DOMAIN batch : UpdateRow(wjob, q, "sending", 0)
    BY <1>5 DEF mark_recipient_sending
  <2>2. wpc = "mark" /\ wjob \in Jobs /\ q \in Recipients /\ q # cur
    BY <1>5, <2>1 DEF mark_recipient_sending, RowInv, Typed, TypeOK, WorkerOK, Holding, Sending
  <2>3. rows[wjob][q].status = "pending"
    <3>1. rows[wjob][q] = [status |-> "pending", attempts |-> batch[q]]
      BY <2>2 DEF RowInv, BatchOK
    <3> QED BY <3>1
  <2> QED BY <1>4, <2>1, <2>2, <2>3 DEF RowMove, Moves
<1>6. ASSUME wpc \in Sending
      PROVE  /\ wjob \in Jobs /\ cur \in Recipients /\ rows[wjob][cur].status = "sending"
             /\ rows[wjob][cur].attempts = batch[cur] /\ batch[cur] \in Nat
  BY <1>6 DEF RowInv, BatchOK, Typed, TypeOK, WorkerOK, Holding, Sending
<1>7. CASE mark_recipient_sent
  <2>1. wpc = "markSent" /\ wpc \in Sending /\ UpdateRow(wjob, cur, "sent", 0)
    BY <1>7 DEF mark_recipient_sent, Sending
  <2> QED BY <1>4, <1>6, <2>1 DEF RowMove, Moves
<1>8. CASE mark_recipient_retry
  <2>1. /\ wpc = "settleFailed" /\ wpc \in Sending /\ UpdateRow(wjob, cur, "pending", 1)
        /\ batch[cur] + 1 < MaxAttempts
    BY <1>8 DEF mark_recipient_retry, Sending
  <2> QED BY <1>4, <1>6, <2>1 DEF RowMove, Moves
<1>9. CASE mark_recipient_dlq
  <2>1. /\ wpc = "settleFailed" /\ wpc \in Sending /\ UpdateRow(wjob, cur, "dlq", 1)
        /\ batch[cur] + 1 >= MaxAttempts
    BY <1>9 DEF mark_recipient_dlq, Sending
  <2>2. batch[cur] < MaxAttempts
    BY <1>6, <2>1 DEF RowInv, AttemptsCapped
  <2>3. batch[cur] + 1 = MaxAttempts
    BY <1>6, <2>1, <2>2
  <2> QED BY <1>4, <1>6, <2>1, <2>3 DEF RowMove, Moves
<1> QED
  BY <1>1, <1>2, <1>3, <1>5, <1>7, <1>8, <1>9
  DEF Next, WorkerStep, vars, SendAtPasses, running_job, select_due, claim_next_due, job_status,
      pending_recipients, dispatch, incr_sent, incr_failed, incr_dlq, finalize_job, finish_job,
      TickFails, Crash

\* No change of a row lets its attempts go past max_attempts.
LEMMA AttemptsCappedNext == RowInv /\ [Next]_vars => AttemptsCapped'
<1> SUFFICES ASSUME RowInv, [Next]_vars, NEW j \in Jobs, NEW r \in Recipients
             PROVE  /\ rows'[j][r].status = "dlq" => rows'[j][r].attempts = MaxAttempts
                    /\ rows'[j][r].status # "dlq" => rows'[j][r].attempts < MaxAttempts
  BY DEF AttemptsCapped
<1>1. RowMove(j, r)
  BY RowStep
<1>2. /\ rows[j][r].status = "dlq" => rows[j][r].attempts = MaxAttempts
      /\ rows[j][r].status # "dlq" => rows[j][r].attempts < MaxAttempts
      /\ rows[j][r].attempts \in Nat /\ MaxAttempts \in Nat /\ 0 < MaxAttempts
  BY BlastAssumption DEF RowInv, AttemptsCapped, Typed, TypeOK, Row
<1> QED BY <1>1, <1>2 DEF RowMove, Moves

\* No step makes the worker's batch disagree with the table.
LEMMA BatchOKNext == RowInv /\ [Next]_vars => BatchOK'
<1> SUFFICES ASSUME RowInv, [Next]_vars PROVE BatchOK'
  OBVIOUS
<1>w. /\ wpc \notin {"idle", "claim"} => wjob \in Jobs
      /\ DOMAIN batch \subseteq Recipients
      /\ IF wpc \in Holding THEN cur \in DOMAIN batch ELSE cur = Nil
  BY DEF RowInv, Typed, TypeOK, WorkerOK
<1>b. BatchOK
  BY DEF RowInv
<1>0. \* The worker stands still, and so do the rows it holds.
      ASSUME UNCHANGED <<wpc, wjob, batch, cur>>,
             \A j \in Jobs, r \in Recipients :
               rows[j][r].status \in {"pending", "sending"} => rows'[j][r] = rows[j][r]
      PROVE  BatchOK'
  <2>1. ASSUME NEW r \in DOMAIN batch, r # cur
        PROVE  rows'[wjob][r] = [status |-> "pending", attempts |-> batch[r]]
    <3>1. wjob \in Jobs
      BY <1>b, <1>w, <2>1 DEF BatchOK, Holding, Sending
    <3>2. rows[wjob][r] = [status |-> "pending", attempts |-> batch[r]]
      BY <1>b, <2>1 DEF BatchOK
    <3> QED BY <1>0, <1>w, <3>1, <3>2
  <2>2. ASSUME wpc \in Sending
        PROVE  rows'[wjob][cur] = [status |-> "sending", attempts |-> batch[cur]]
    <3>1. wjob \in Jobs /\ cur \in Recipients
      BY <1>w, <2>2 DEF Holding, Sending
    <3>2. rows[wjob][cur] = [status |-> "sending", attempts |-> batch[cur]]
      BY <1>b, <2>2 DEF BatchOK
    <3> QED BY <1>0, <3>1, <3>2
  <2> QED BY <1>0, <1>b, <2>1, <2>2 DEF BatchOK
<1>1. ASSUME NEW c \in Clients, RequestArrives(c) \/ RequestStep(c) \/ AbortRequest(c)
      PROVE  BatchOK'
  <2>1. UNCHANGED worker
    BY <1>1 DEF RequestArrives, RequestStep, AbortRequest, create_blast, insert_job,
       insert_recipient, cancel_blast, cancel_job, retry_blast, requeue_failed, reopen_job
  <2>2. \A j \in Jobs, r \in Recipients :
          rows[j][r].status \in {"pending", "sending"} => rows'[j][r] = rows[j][r]
    BY <1>1, RequestRowStep DEF RowInv
  <2> QED BY <1>0, <2>1, <2>2 DEF worker
<1>2. \* Outside a batch there is nothing to hold.
      ASSUME DOMAIN batch' = {}, wpc' \notin Sending
      PROVE  BatchOK'
  BY <1>2 DEF BatchOK
<1>3. ASSUME EndTick
      PROVE  BatchOK'
  BY <1>2, <1>3 DEF EndTick, Forget, NoBatch, Sending
<1>4. CASE pending_recipients
  <2>1. PICK S \in SUBSET PendingRows(wjob) :
          /\ batch' = [r \in S |-> rows[wjob][r].attempts]
          /\ wpc' = IF S = {} THEN "finalize" ELSE "mark"
    BY <1>4 DEF pending_recipients
  <2>2. UNCHANGED <<rows, wjob, cur>> /\ wjob \in Jobs
    BY <1>4, <1>w DEF pending_recipients
  <2>3. \A r \in S : rows[wjob][r] = [status |-> "pending", attempts |-> rows[wjob][r].attempts]
    BY <2>2 DEF PendingRows, RowInv, Typed, TypeOK, Row
  <2> QED BY <2>1, <2>2, <2>3 DEF BatchOK, Sending
<1>5. CASE mark_recipient_sending
  <2>1. PICK q \in DOMAIN batch : cur' = q /\ UpdateRow(wjob, q, "sending", 0)
    BY <1>5 DEF mark_recipient_sending
  <2>2. /\ wpc' = "dispatch" /\ UNCHANGED <<wjob, batch>> /\ wjob \in Jobs
        /\ cur = Nil /\ q \in Recipients /\ q # Nil /\ wpc \in Holding \cup {"mark"}
    BY <1>5, <1>w, BlastAssumption DEF mark_recipient_sending, Holding, Sending
  <2>3. \A r \in DOMAIN batch :
          rows[wjob][r] = [status |-> "pending", attempts |-> batch[r]]
    BY <1>b, <1>w, <2>2, BlastAssumption DEF BatchOK
  <2>4. /\ rows'[wjob][q] = [status |-> "sending", attempts |-> rows[wjob][q].attempts + 0]
        /\ \A p \in Recipients : p # q => rows'[wjob][p] = rows[wjob][p]
    BY <2>1, <2>2, UpdateRowEffect DEF RowInv
  <2>5. rows[wjob][q].attempts \in Nat /\ rows[wjob][q].attempts = batch[q]
    <3>1. rows[wjob][q] = [status |-> "pending", attempts |-> batch[q]]
      BY <2>3
    <3>2. rows[wjob][q] \in Row
      BY <2>2 DEF RowInv, Typed, TypeOK
    <3> QED BY <3>1, <3>2 DEF Row
  <2> QED BY <1>w, <2>1, <2>2, <2>3, <2>4, <2>5 DEF BatchOK, Sending, Holding
<1>6. ASSUME NextRecipient, wpc \in Holding, wjob \in Jobs,
             \A r \in Recipients : r # cur => rows'[wjob][r] = rows[wjob][r]
      PROVE  BatchOK'
  <2>1. /\ DOMAIN batch' = DOMAIN batch \ {cur} /\ \A r \in DOMAIN batch' : batch'[r] = batch[r]
        /\ wpc' \in {"check", "mark"} /\ (wpc' = "check" => DOMAIN batch' = {})
        /\ wjob' = wjob
    BY <1>6 DEF NextRecipient, Restrict
  <2>2. \A r \in DOMAIN batch' :
          rows'[wjob][r] = [status |-> "pending", attempts |-> batch[r]]
    BY <1>6, <1>b, <1>w, <2>1 DEF BatchOK
  <2>3. \A r \in DOMAIN batch' :
          rows'[wjob'][r] = [status |-> "pending", attempts |-> batch'[r]]
    BY <2>1, <2>2
  <2>4. wpc' \notin Sending /\ (wpc' \notin Holding \cup {"mark"} => DOMAIN batch' = {})
    BY <2>1 DEF Sending
  <2> QED BY <2>3, <2>4 DEF BatchOK
<1>7. CASE incr_sent \/ incr_dlq
  BY <1>6, <1>7, <1>w DEF incr_sent, incr_dlq, Holding, Sending
<1>8. ASSUME NEW s, NEW n, UpdateRow(wjob, cur, s, n), wpc \in Holding
      PROVE  wjob \in Jobs /\ \A r \in Recipients : r # cur => rows'[wjob][r] = rows[wjob][r]
  <2>1. wjob \in Jobs /\ cur \in Recipients
    BY <1>8, <1>w DEF Holding, Sending
  <2> QED BY <1>8, <2>1, UpdateRowEffect DEF RowInv
<1>9. CASE mark_recipient_retry
  BY <1>6, <1>8, <1>9 DEF mark_recipient_retry, Holding, Sending
<1>10. ASSUME NEW s, NEW n, UpdateRow(wjob, cur, s, n), wpc \in Holding,
              wpc' \in Holding \ Sending, UNCHANGED <<wjob, batch, cur>>
       PROVE  BatchOK'
  <2>1. wjob \in Jobs /\ \A r \in Recipients : r # cur => rows'[wjob][r] = rows[wjob][r]
    BY <1>8, <1>10
  <2> QED BY <1>10, <1>b, <1>w, <2>1 DEF BatchOK
<1>11. CASE mark_recipient_sent \/ mark_recipient_dlq
  BY <1>10, <1>11 DEF mark_recipient_sent, mark_recipient_dlq, GoTo, Holding, Sending
<1>12. CASE dispatch \/ incr_failed
  BY <1>12, <1>b DEF dispatch, incr_failed, GoTo, BatchOK, Holding, Sending
<1>13. CASE running_job \/ select_due
  <2>1. DOMAIN batch = {}
    BY <1>13, <1>b DEF running_job, select_due, BatchOK, Holding, Sending
  <2> QED BY <1>2, <1>13, <2>1 DEF running_job, select_due, Sending
<1>14. CASE claim_next_due \/ job_status
  <2>1. DOMAIN batch = {}
    BY <1>14, <1>b DEF claim_next_due, job_status, BatchOK, Holding, Sending
  <2>2. ASSUME NEW pc \in {"reset", "fetch"}, GoTo(pc)
        PROVE  BatchOK'
    BY <1>2, <2>1, <2>2 DEF GoTo, Sending
  <2> QED BY <1>3, <1>14, <2>2 DEF claim_next_due, job_status
<1>15. CASE reset_sending_recipients
  <2>1. DOMAIN batch = {}
    BY <1>15, <1>b DEF reset_sending_recipients, BatchOK, Holding, Sending
  <2> QED BY <1>2, <1>15, <2>1 DEF reset_sending_recipients, GoTo, Sending
<1>16. CASE finalize_job
  <2>1. DOMAIN batch = {}
    BY <1>16, <1>b DEF finalize_job, BatchOK, Holding, Sending
  <2> QED BY <1>2, <1>16, <2>1 DEF finalize_job, Sending
<1>17. CASE finish_job \/ TickFails \/ Crash
  BY <1>3, <1>17 DEF finish_job, TickFails, Crash
<1>18. ASSUME NEW j \in Jobs, SendAtPasses(j)
       PROVE  BatchOK'
  BY <1>0, <1>18 DEF SendAtPasses, worker
<1>19. CASE UNCHANGED vars
  BY <1>0, <1>19 DEF vars, worker
<1> QED
  BY <1>1, <1>4, <1>5, <1>7, <1>9, <1>11, <1>12, <1>13, <1>14, <1>15, <1>16, <1>17, <1>18, <1>19
  DEF Next, WorkerStep

\* The invariant on rows holds of the empty tables.
LEMMA RowInvInit == Init => RowInv
<1>1. Init => BatchOK /\ AttemptsCapped
  BY BlastAssumption DEF Init, BatchOK, AttemptsCapped, NoRow, NoBatch, Sending
<1> QED BY <1>1, TypedInit DEF RowInv

\* The invariant on rows holds in every reachable state: it says that what the
\* worker read with its batch is still true when it acts on it.
THEOREM RowInvariant == Spec => []RowInv
BY RowInvInit, TypedNext, BatchOKNext, AttemptsCappedNext, PTL DEF Spec, RowInv

\* Attempts never exceed max_attempts, whatever the retries that race the worker.
THEOREM Attempts == Spec => []AttemptsCapped
BY RowInvariant, PTL DEF RowInv

\* A delivered row is never touched again.
THEOREM SentFinal == Spec => SentIsFinal
<1>1. RowInv /\ [Next]_vars
      => [\A j \in Jobs, r \in Recipients :
            rows[j][r].status = "sent" => rows'[j][r] = rows[j][r]]_vars
  BY RowStep DEF RowMove, Moves
<1> QED BY <1>1, RowInvariant, PTL DEF Spec, SentIsFinal

-----------------------------------------------------------------------------
(* What was delivered, and how often *)

AtMarkSent(j, r) == wpc = "markSent" /\ wjob = j /\ cur = r

DeliverOK ==
    \A j \in Jobs, r \in Recipients :
        /\ dispatched[j][r] <= 1 + faults
        /\ rows[j][r].status # "sent" /\ ~AtMarkSent(j, r) => dispatched[j][r] <= faults
        /\ rows[j][r].status = "sent" \/ AtMarkSent(j, r) => dispatched[j][r] > 0
        /\ rows[j][r].status \in {"none", "skipped_dup"} => dispatched[j][r] = 0

\* Only a dispatch answered Ok brings the worker to mark_recipient_sent, and it
\* leaves there by recording the delivery or by having its tick cut short.
LEMMA MarkSentStep ==
    ASSUME RowInv, [Next]_vars, ~dispatch, NEW j \in Jobs, NEW r \in Recipients
    PROVE  /\ UNCHANGED dispatched
           /\ faults' \in {faults, faults + 1}
           /\ AtMarkSent(j, r)' => AtMarkSent(j, r)
           /\ AtMarkSent(j, r) => \/ AtMarkSent(j, r)' \/ faults' = faults + 1
                                  \/ rows'[j][r].status = "sent"
<1>1. ASSUME UNCHANGED <<worker, dispatched, faults>>
      PROVE  /\ UNCHANGED dispatched /\ faults' = faults
             /\ AtMarkSent(j, r)' <=> AtMarkSent(j, r)
  BY <1>1 DEF worker, AtMarkSent
<1>2. CASE TickFails \/ Crash
  BY <1>2 DEF TickFails, Crash, EndTick, AtMarkSent
<1>3. CASE mark_recipient_sent
  <2>1. UpdateRow(wjob, cur, "sent", 0) /\ wjob \in Jobs /\ cur \in Recipients
    BY <1>3 DEF mark_recipient_sent, RowInv, Typed, TypeOK, WorkerOK, Holding, Sending
  <2>2. rows'[wjob][cur].status = "sent"
    <3>1. rows'[wjob][cur] = [status |-> "sent", attempts |-> rows[wjob][cur].attempts + 0]
      BY <2>1, UpdateRowEffect DEF RowInv
    <3> QED BY <3>1
  <2> QED BY <1>3, <2>2 DEF mark_recipient_sent, GoTo, AtMarkSent, ghost
<1>4. ASSUME wpc # "markSent", wpc' # "markSent", UNCHANGED <<dispatched, faults>>
      PROVE  /\ UNCHANGED dispatched /\ faults' = faults
             /\ ~AtMarkSent(j, r) /\ ~AtMarkSent(j, r)'
  BY <1>4 DEF AtMarkSent
<1>5. ASSUME WorkerStep, ~mark_recipient_sent
      PROVE  wpc # "markSent" /\ wpc' # "markSent" /\ UNCHANGED <<dispatched, faults>>
  BY <1>5 DEF WorkerStep, running_job, select_due, claim_next_due, reset_sending_recipients,
     job_status, pending_recipients, mark_recipient_sending, incr_sent, incr_failed,
     mark_recipient_retry, mark_recipient_dlq, incr_dlq, finalize_job, finish_job,
     GoTo, EndTick, NextRecipient, ghost
<1>6. ASSUME NEW c \in Clients, RequestArrives(c) \/ RequestStep(c) \/ AbortRequest(c)
      PROVE  UNCHANGED <<worker, dispatched, faults>>
  BY <1>6 DEF RequestArrives, RequestStep, AbortRequest, create_blast, insert_job,
     insert_recipient, cancel_blast, cancel_job, retry_blast, requeue_failed, reopen_job, ghost
<1>7. ASSUME NEW k \in Jobs, SendAtPasses(k)
      PROVE  UNCHANGED <<worker, dispatched, faults>>
  BY <1>7 DEF SendAtPasses, ghost
<1>8. CASE UNCHANGED vars
  BY <1>1, <1>8 DEF vars, ghost
<1> QED BY <1>1, <1>2, <1>3, <1>4, <1>5, <1>6, <1>7, <1>8 DEF Next

\* Each dispatch answered Ok is recorded, is about to be, or was cut short.
LEMMA DeliverOKNext == RowInv /\ DeliverOK /\ [Next]_vars => DeliverOK'
<1> SUFFICES ASSUME RowInv, DeliverOK, [Next]_vars, NEW j \in Jobs, NEW r \in Recipients
             PROVE  /\ dispatched'[j][r] <= 1 + faults'
                    /\ rows'[j][r].status # "sent" /\ ~AtMarkSent(j, r)'
                         => dispatched'[j][r] <= faults'
                    /\ rows'[j][r].status = "sent" \/ AtMarkSent(j, r)' => dispatched'[j][r] > 0
                    /\ rows'[j][r].status \in {"none", "skipped_dup"} => dispatched'[j][r] = 0
  BY DEF DeliverOK
<1>1. /\ dispatched[j][r] <= 1 + faults
      /\ rows[j][r].status # "sent" /\ ~AtMarkSent(j, r) => dispatched[j][r] <= faults
      /\ rows[j][r].status = "sent" \/ AtMarkSent(j, r) => dispatched[j][r] > 0
      /\ rows[j][r].status \in {"none", "skipped_dup"} => dispatched[j][r] = 0
  BY DEF DeliverOK
<1>2. dispatched[j][r] \in Nat /\ faults \in Nat
  BY BlastAssumption DEF RowInv, Typed, TypeOK
<1>3. CASE dispatch
  <2>1. /\ wpc = "dispatch" /\ UNCHANGED <<rows, wjob, cur, faults>>
        /\ rows[wjob][cur].status = "sending"
    BY <1>3 DEF dispatch, GoTo, ghost, RowInv, BatchOK, Sending
  <2>2. CASE /\ dispatched' = [dispatched EXCEPT ![wjob][cur] = @ + 1]
             /\ wpc' = "markSent"
    <3>1. CASE j = wjob /\ r = cur
      <4>1. dispatched'[j][r] = dispatched[j][r] + 1
        BY <2>2, <3>1 DEF RowInv, Typed, TypeOK
      <4> QED BY <1>1, <1>2, <2>1, <2>2, <3>1, <4>1 DEF AtMarkSent
    <3>2. CASE ~(j = wjob /\ r = cur)
      <4>1. dispatched'[j][r] = dispatched[j][r]
        BY <2>2, <3>2 DEF RowInv, Typed, TypeOK
      <4> QED BY <1>1, <1>2, <2>1, <2>2, <3>2, <4>1 DEF AtMarkSent
    <3> QED BY <3>1, <3>2
  <2>3. CASE UNCHANGED dispatched /\ wpc' = "incrFailed"
    BY <1>1, <1>2, <2>1, <2>3 DEF AtMarkSent
  <2> QED BY <1>3, <2>2, <2>3 DEF dispatch, GoTo
<1>4. CASE ~dispatch
  <2>1. /\ UNCHANGED dispatched
        /\ faults' \in {faults, faults + 1}
        /\ AtMarkSent(j, r)' => AtMarkSent(j, r)
        /\ AtMarkSent(j, r) => \/ AtMarkSent(j, r)' \/ faults' = faults + 1
                               \/ rows'[j][r].status = "sent"
    BY <1>4, MarkSentStep
  <2>2. /\ rows[j][r].status = "sent" => rows'[j][r].status = "sent"
        /\ rows'[j][r].status = "sent" => rows[j][r].status = "sent" \/ AtMarkSent(j, r)
        /\ rows'[j][r].status \in {"none", "skipped_dup"}
             => rows[j][r].status \in {"none", "skipped_dup"}
    <3>1. RowMove(j, r)
      BY RowStep
    <3> QED BY <3>1 DEF RowMove, Moves, AtMarkSent
  <2> QED BY <1>1, <1>2, <2>1, <2>2
<1> QED BY <1>3, <1>4

\* Rows and dispatches agree in every reachable state.
THEOREM Deliveries == Spec => [](RowInv /\ DeliverOK)
<1>1. Init => DeliverOK
  BY BlastAssumption DEF Init, DeliverOK, AtMarkSent, NoRow
<1> QED BY <1>1, RowInvInit, TypedNext, BatchOKNext, AttemptsCappedNext, DeliverOKNext, PTL
        DEF Spec, RowInv

\* A message goes out twice only after a tick was cut short.
THEOREM NoDuplicate == Spec => []DeliveredOnce
<1>1. DeliverOK => DeliveredOnce
  BY DEF DeliverOK, DeliveredOnce
<1> QED BY <1>1, Deliveries, PTL

\* What the table says was sent, and what WhatsApp took, agree.
THEOREM SentDelivered == Spec => []SentMeansDelivered
<1>1. RowInv /\ DeliverOK => SentMeansDelivered
  <2> SUFFICES ASSUME RowInv, DeliverOK, NEW j \in Jobs, NEW r \in Recipients
               PROVE  /\ rows[j][r].status = "sent" => dispatched[j][r] > 0
                      /\ dispatched[j][r] > 0 /\ faults = 0 /\ ~AtMarkSent(j, r)
                           => rows[j][r].status = "sent"
    BY DEF SentMeansDelivered, AtMarkSent
  <2>1. dispatched[j][r] \in Nat
    BY DEF RowInv, Typed, TypeOK
  <2> QED BY <2>1 DEF DeliverOK
<1> QED BY <1>1, Deliveries, PTL

-----------------------------------------------------------------------------
(* Recipients skipped as duplicates *)

Justified(j, r) ==
    \E i \in Jobs \ {j} : SessionOf[i] = SessionOf[j] /\ rows[i][r].status = "sent"

\* What a creating request means to skip was delivered by another job.
SkipOK ==
    /\ \A j \in Jobs, r \in Recipients : rows[j][r].status = "skipped_dup" => Justified(j, r)
    /\ \A c \in Clients : \A r \in req[c].skipped : Justified(req[c].job, r)

\* A delivery that justifies a skip is never taken back.
LEMMA JustifiedStays ==
    ASSUME RowInv, [Next]_vars, NEW j, NEW r \in Recipients, Justified(j, r)
    PROVE  Justified(j, r)'
<1>1. PICK i \in Jobs \ {j} : SessionOf[i] = SessionOf[j] /\ rows[i][r].status = "sent"
  BY DEF Justified
<1>2. RowMove(i, r)
  BY RowStep
<1>3. rows'[i][r] = rows[i][r]
  BY <1>1, <1>2 DEF RowMove, Moves
<1> QED BY <1>1, <1>3 DEF Justified

\* How the set of recipients a request means to skip may change.
LEMMA SkippedStep ==
    ASSUME RowInv, ExistOK, [Next]_vars, NEW c \in Clients, NEW r \in req'[c].skipped
    PROVE  \/ r \in req[c].skipped /\ req'[c].job = req[c].job
           \/ r \in Recipients /\ Justified(req'[c].job, r)
<1>t. /\ req \in [Clients -> Request] /\ rows \in [Jobs -> [Recipients -> Row]]
      /\ req[c].skipped \subseteq Recipients
  BY DEF RowInv, Typed, TypeOK, Request
<1>1. ASSUME NEW d \in Clients, NEW j \in Jobs, NEW want \in SUBSET Recipients \ {{}},
             NEW dedup \in BOOLEAN, create_blast(d, j, want, dedup)
      PROVE  \/ req'[c] = req[c]
             \/ r \in Recipients /\ Justified(req'[c].job, r)
  <2>1. CASE c # d
    BY <1>t, <1>1, <2>1 DEF create_blast
  <2>2. CASE c = d
    <3>1. req'[c].job = j /\ r \in want /\ r \in already_sent(SessionOf[j])
      BY <1>t, <1>1, <2>2 DEF create_blast
    <3>2. PICK i \in Jobs : SessionOf[i] = SessionOf[j] /\ rows[i][r].status = "sent"
      BY <3>1 DEF already_sent
    <3>3. i # j
      BY <1>1, <3>1, <3>2 DEF create_blast, Fresh, ExistOK
    <3> QED BY <3>1, <3>2, <3>3 DEF Justified
  <2> QED BY <2>1, <2>2
<1>2. ASSUME NEW d \in Clients, Answer(d)
      PROVE  req'[c] = req[c]
  BY <1>t, <1>2 DEF Answer, NoRequest
<1>3. ASSUME NEW d \in Clients, NEW j, NEW pc, Serve(d, pc, j)
      PROVE  req'[c] = req[c]
  BY <1>t, <1>3 DEF Serve, NoRequest
<1>4. ASSUME NEW d \in Clients, NEW pc, req' = [req EXCEPT ![d].pc = pc]
      PROVE  req'[c].skipped = req[c].skipped /\ req'[c].job = req[c].job
  BY <1>t, <1>4 DEF Request
<1>5. ASSUME NEW d \in Clients, NEW q \in Recipients, insert_recipient(d, q)
      PROVE  r \in req[c].skipped /\ req'[c].job = req[c].job
  <2>1. CASE Answer(d)
    BY <1>2, <2>1
  <2>2. CASE req' = [req EXCEPT ![d].accepted = @ \ {q}, ![d].skipped = @ \ {q}]
    BY <1>t, <2>2 DEF Request
  <2> QED BY <1>5, <2>1, <2>2 DEF insert_recipient
<1>6. ASSUME NEW d \in Clients, RequestArrives(d) \/ RequestStep(d) \/ AbortRequest(d)
      PROVE  \/ r \in req[c].skipped /\ req'[c].job = req[c].job
             \/ r \in Recipients /\ Justified(req'[c].job, r)
  <2>1. CASE \E j \in Jobs : cancel_blast(d, j) \/ retry_blast(d, j)
    BY <1>3, <2>1 DEF cancel_blast, retry_blast
  <2>2. CASE \E due \in BOOLEAN : insert_job(d, due)
    BY <1>4, <2>2 DEF insert_job
  <2>3. CASE cancel_job(d) \/ reopen_job(d) \/ AbortRequest(d)
    BY <1>2, <2>3 DEF cancel_job, reopen_job, AbortRequest
  <2>4. CASE requeue_failed(d)
    <3>1. Answer(d) \/ req' = [req EXCEPT ![d].pc = "reopen"]
      BY <2>4 DEF requeue_failed
    <3> QED BY <1>2, <1>4, <3>1
  <2> QED BY <1>1, <1>5, <1>6, <2>1, <2>2, <2>3, <2>4 DEF RequestArrives, RequestStep
<1>7. CASE UNCHANGED req
  BY <1>7
<1>8. CASE Crash
  BY <1>8 DEF Crash, NoRequest
<1> QED
  BY <1>6, <1>7, <1>8
  DEF Next, WorkerStep, vars, SendAtPasses, running_job, select_due, claim_next_due,
      reset_sending_recipients, job_status, pending_recipients, mark_recipient_sending, dispatch,
      mark_recipient_sent, incr_sent, incr_failed, mark_recipient_retry, mark_recipient_dlq,
      incr_dlq, finalize_job, finish_job, TickFails

\* A row becomes `skipped_dup` only by being inserted from such a request.
LEMMA SkippedRowStep ==
    ASSUME RowInv, [Next]_vars, NEW j \in Jobs, NEW r \in Recipients,
           rows'[j][r].status = "skipped_dup", rows[j][r].status # "skipped_dup"
    PROVE  \E c \in Clients : req[c].job = j /\ r \in req[c].skipped
<1>t. rows \in [Jobs -> [Recipients -> Row]]
  BY DEF RowInv, Typed, TypeOK
<1>1. RowMove(j, r)
  BY RowStep
<1>2. rows'[j][r].status = "skipped_dup" /\ rows[j][r].status = "none"
  BY <1>1 DEF RowMove, Moves
<1>3. ASSUME NEW d \in Clients, NEW q \in Recipients, insert_recipient(d, q)
      PROVE  req[d].job = j /\ r \in req[d].skipped
  <2>1. req[d].job = j /\ q = r
    BY <1>t, <1>2, <1>3 DEF insert_recipient
  <2>2. \A s : [NoRow EXCEPT !.status = s].status = s
    BY DEF NoRow
  <2>3. r \notin req[d].accepted
    BY <1>t, <1>2, <1>3, <2>1, <2>2 DEF insert_recipient
  <2> QED BY <1>3, <2>1, <2>3 DEF insert_recipient
<1>4. CASE UNCHANGED rows
  BY <1>2, <1>4
<1>6. CASE \E c \in Clients : requeue_failed(c)
  BY <1>t, <1>2, <1>6 DEF requeue_failed
<1>7. CASE reset_sending_recipients
  BY <1>t, <1>2, <1>7 DEF reset_sending_recipients
<1>8. ASSUME NEW q, NEW s \in {"sending", "sent", "pending", "dlq"}, NEW n,
             UpdateRow(wjob, q, s, n)
      PROVE  FALSE
  BY <1>t, <1>2, <1>8 DEF UpdateRow
<1>9. CASE WorkerStep
  BY <1>4, <1>7, <1>8, <1>9
  DEF WorkerStep, running_job, select_due, claim_next_due, job_status, pending_recipients,
      mark_recipient_sending, dispatch, mark_recipient_sent, incr_sent, incr_failed,
      mark_recipient_retry, mark_recipient_dlq, incr_dlq, finalize_job, finish_job
<1> QED
  BY <1>3, <1>4, <1>6, <1>9
  DEF Next, RequestArrives, RequestStep, vars, SendAtPasses, create_blast, insert_job,
      cancel_blast, cancel_job, retry_blast, reopen_job, AbortRequest, TickFails, Crash

\* Rows and requests only ever skip justified recipients.
LEMMA SkipOKNext == RowInv /\ ExistOK /\ SkipOK /\ [Next]_vars => SkipOK'
<1> SUFFICES ASSUME RowInv, ExistOK, SkipOK, [Next]_vars PROVE SkipOK'
  OBVIOUS
<1>1. ASSUME NEW c \in Clients, NEW r \in req[c].skipped
      PROVE  r \in Recipients
  BY <1>1 DEF RowInv, Typed, TypeOK, Request
<1>2. ASSUME NEW j \in Jobs, NEW r \in Recipients, rows'[j][r].status = "skipped_dup"
      PROVE  Justified(j, r)'
  <2>1. Justified(j, r)
    BY <1>2, SkippedRowStep DEF SkipOK
  <2> QED BY <2>1, JustifiedStays
<1>3. ASSUME NEW c \in Clients, NEW r \in req'[c].skipped, NEW j, j = req'[c].job
      PROVE  Justified(j, r)'
  <2>1. r \in Recipients /\ Justified(j, r)
    BY <1>1, <1>3, SkippedStep DEF SkipOK
  <2> QED BY <2>1, JustifiedStays
<1> QED BY <1>2, <1>3 DEF SkipOK

\* Every skipped recipient was delivered to by another blast of the session.
THEOREM Skips == Spec => []SkipJustified
<1>1. Init => SkipOK
  BY DEF Init, SkipOK, NoRow, NoRequest
<1>2. Spec => [](RowInv /\ ExistOK /\ DeliverOK /\ SkipOK)
  BY <1>1, RowInvInit, TypedNext, BatchOKNext, AttemptsCappedNext, ExistOKInit, ExistOKNext,
     Deliveries, SkipOKNext, PTL DEF Spec, RowInv
<1>3. DeliverOK /\ SkipOK => SkipJustified
  BY DEF DeliverOK, SkipOK, SkipJustified, RowsIn, Justified
<1> QED BY <1>2, <1>3, PTL

-----------------------------------------------------------------------------
(* The blast queue implements the ledger *)

\* What the refinement mapping makes of a table, and of the worker.
Bar(t)   == [j \in Jobs |-> [r \in Recipients |-> OutcomeOf(t[j][r].status)]]
Tries(t) == [j \in Jobs |-> [r \in Recipients |-> t[j][r].attempts]]
Hand     == IF wpc \in Sending THEN <<wjob, cur>> ELSE Nil

\* A recipient that has no row yet has no attempts either.
NoRowFresh ==
    \A j \in Jobs, r \in Recipients :
        rows[j][r].status = "none" => rows[j][r].attempts = 0

LedgerInv == RowInv /\ ExistOK /\ NoRowFresh

\* The outcome tells the statuses apart.
LEMMA OutcomeOfStatus ==
    /\ OutcomeOf("none") = "none" /\ OutcomeOf("pending") = "owed"
    /\ OutcomeOf("sending") = "trying" /\ OutcomeOf("sent") = "delivered"
    /\ OutcomeOf("dlq") = "dead" /\ OutcomeOf("skipped_dup") = "skipped"
BY DEF OutcomeOf

\* The two outcomes that are moved wholesale stand for one status each.
LEMMA OutcomeInverse ==
    ASSUME NEW s \in RowStatus
    PROVE  /\ OutcomeOf(s) = "dead" <=> s = "dlq"
           /\ OutcomeOf(s) = "trying" <=> s = "sending"
BY OutcomeOfStatus DEF RowStatus

\* The initial table is the empty ledger.
LEMMA LedgerInit == Init => Ledger!Init
BY OutcomeOfStatus DEF Init, Ledger!Init, NoRow, Sending

\* No step but an insertion changes a row that is not there.
LEMMA LedgerInvNext == LedgerInv /\ [Next]_vars => LedgerInv'
<1> SUFFICES ASSUME LedgerInv, [Next]_vars PROVE LedgerInv'
  OBVIOUS
<1>1. RowInv' /\ ExistOK'
  BY TypedNext, BatchOKNext, AttemptsCappedNext, ExistOKNext DEF LedgerInv, RowInv
<1>2. NoRowFresh'
  <2> SUFFICES ASSUME NEW j \in Jobs, NEW r \in Recipients, rows'[j][r].status = "none"
               PROVE  rows'[j][r].attempts = 0
    BY DEF NoRowFresh
  <2>1. RowMove(j, r)
    BY RowStep DEF LedgerInv
  <2>2. rows'[j][r] = rows[j][r]
    BY <2>1 DEF RowMove, Moves
  <2> QED BY <2>2 DEF LedgerInv, NoRowFresh
<1> QED BY <1>1, <1>2 DEF LedgerInv

\* Each step of the queue is an entry of the ledger, or none.
LEMMA LedgerNext == LedgerInv /\ [Next]_vars => [Ledger!Next]_(Ledger!vars)
<1> SUFFICES ASSUME LedgerInv, [Next]_vars
             PROVE  [Ledger!Next]_(Ledger!vars)
  OBVIOUS
<1>t. /\ rows \in [Jobs -> [Recipients -> Row]]
      /\ \A j \in Jobs, r \in Recipients :
           /\ rows[j][r].status \in RowStatus
           /\ rows[j][r].attempts \in Nat
      /\ wpc \notin {"idle", "claim"} => wjob \in Jobs
      /\ DOMAIN batch \subseteq Recipients
      /\ wpc \in Sending => cur \in DOMAIN batch
      /\ wpc \in Sending =>
           rows[wjob][cur] = [status |-> "sending", attempts |-> batch[cur]]
  BY DEF LedgerInv, RowInv, Typed, TypeOK, WorkerOK, BatchOK, Holding, Row
<1>1. \* Nothing the ledger shows changes.
      ASSUME UNCHANGED rows, Hand' = Hand
      PROVE  [Ledger!Next]_(Ledger!vars)
  BY <1>1 DEF Ledger!vars, Hand
<1>2. ASSUME UNCHANGED rows, Hand' = Nil
      PROVE  [Ledger!Next]_(Ledger!vars)
  <2>1. Ledger!Drop
    BY <1>2 DEF Ledger!Drop, Hand
  <2> QED BY <2>1 DEF Ledger!Next
<1>3. ASSUME UNCHANGED worker
      PROVE  Hand' = Hand
  BY <1>3 DEF worker, Hand
<1>4. ASSUME NEW c \in Clients, NEW r \in Recipients, insert_recipient(c, r)
      PROVE  [Ledger!Next]_(Ledger!vars)
  <2>1. CASE UNCHANGED rows
    BY <1>1, <1>3, <1>4, <2>1 DEF insert_recipient
  <2>2. CASE ~UNCHANGED rows
    <3> DEFINE j == req[c].job
    <3>1. j \in Jobs
      BY <1>4 DEF insert_recipient, LedgerInv, ExistOK
    <3>2. \A s : [NoRow EXCEPT !.status = s] = [status |-> s, attempts |-> 0]
      BY DEF NoRow
    <3>3. PICK s \in {"pending", "skipped_dup"} :
            rows' = [rows EXCEPT ![j][r] = [status |-> s, attempts |-> 0]]
      <4>1. \E s \in {"pending", "skipped_dup"} :
              rows' = IF rows[j][r].status = "none"
                      THEN [rows EXCEPT ![j][r] = [NoRow EXCEPT !.status = s]] ELSE rows
        BY <1>4 DEF insert_recipient
      <4> QED
        BY ONLY <2>2, <3>2, <4>1
    <3>4. rows[j][r].status = "none"
      BY <1>4, <2>2 DEF insert_recipient
    <3>5. Tries(rows)[j][r] = 0 /\ Bar(rows)[j][r] = "none"
      BY <3>1, <3>4, OutcomeOfStatus DEF LedgerInv, NoRowFresh, Tries, Bar
    <3> HIDE DEF j
    <3>6. /\ Bar(rows') = [Bar(rows) EXCEPT ![j][r] = OutcomeOf(s)]
          /\ Tries(rows') = [Tries(rows) EXCEPT ![j][r] = 0]
      BY <1>t, <3>1, <3>3 DEF Bar, Tries
    <3>7. Tries(rows') = Tries(rows)
      <4>1. rows'[j][r].attempts = rows[j][r].attempts
        BY <1>t, <3>1, <3>3, <3>5 DEF Tries
      <4>2. \A k \in Jobs, q \in Recipients : rows'[k][q].attempts = rows[k][q].attempts
        BY <1>t, <3>1, <3>3, <4>1
      <4> QED BY <4>2 DEF Tries
    <3>8. OutcomeOf(s) \in {"owed", "skipped"}
      BY OutcomeOfStatus
    <3>9. Hand' = Hand
      BY <1>3, <1>4 DEF insert_recipient
    <3>10. Ledger!Enter(j, r)
      BY <3>5, <3>6, <3>7, <3>8, <3>9 DEF Ledger!Enter, Bar, Tries, Hand
    <3> QED BY <3>1, <3>10 DEF Ledger!Next
  <2> QED BY <2>1, <2>2
<1>5. ASSUME NEW c \in Clients, requeue_failed(c)
      PROVE  [Ledger!Next]_(Ledger!vars)
  <2> DEFINE j == req[c].job
  <2>1. j \in Jobs
    BY <1>5 DEF requeue_failed, LedgerInv, ExistOK
  <2>2. rows' = [rows EXCEPT ![j] = [r \in Recipients |->
                   IF rows[j][r].status = "dlq" THEN [status |-> "pending", attempts |-> 0]
                   ELSE rows[j][r]]]
    BY <1>t, <1>5 DEF requeue_failed
  <2>3. Hand' = Hand
    BY <1>3, <1>5 DEF requeue_failed
  <2> HIDE DEF j
  <2>4. \A r \in Recipients : Bar(rows)[j][r] = "dead" <=> rows[j][r].status = "dlq"
    BY <1>t, <2>1, OutcomeInverse DEF Bar
  <2>5. Bar(rows') = [Bar(rows) EXCEPT ![j] =
                        [r \in Recipients |-> IF @[r] = "dead" THEN "owed" ELSE @[r]]]
    BY <1>t, <2>1, <2>2, <2>4, OutcomeOfStatus DEF Bar
  <2>6. Tries(rows') = [Tries(rows) EXCEPT ![j] =
                          [r \in Recipients |-> IF Bar(rows)[j][r] = "dead" THEN 0 ELSE @[r]]]
    BY <1>t, <2>1, <2>2, <2>4 DEF Tries
  <2>7. Ledger!AskAgain(j)
    BY <2>3, <2>5, <2>6 DEF Ledger!AskAgain, Ledger!MoveAll, Bar, Tries, Hand
  <2> QED BY <2>1, <2>7 DEF Ledger!Next, Ledger!AskAgain
<1>6. CASE reset_sending_recipients
  <2>1. /\ wjob \in Jobs /\ Hand = Nil /\ Hand' = Nil
        /\ rows' = [rows EXCEPT ![wjob] = [r \in Recipients |->
                      IF rows[wjob][r].status = "sending"
                      THEN [rows[wjob][r] EXCEPT !.status = "pending"] ELSE rows[wjob][r]]]
    BY <1>t, <1>6 DEF reset_sending_recipients, Hand, GoTo, Sending
  <2>2. \A r \in Recipients :
          /\ Bar(rows)[wjob][r] = "trying" <=> rows[wjob][r].status = "sending"
          /\ [rows[wjob][r] EXCEPT !.status = "pending"]
               = [status |-> "pending", attempts |-> rows[wjob][r].attempts]
    <3>1. ASSUME NEW r \in Recipients
          PROVE  Bar(rows)[wjob][r] = "trying" <=> rows[wjob][r].status = "sending"
      BY <1>t, <2>1, OutcomeInverse DEF Bar, Row
    <3>2. ASSUME NEW r \in Recipients
          PROVE  [rows[wjob][r] EXCEPT !.status = "pending"]
                   = [status |-> "pending", attempts |-> rows[wjob][r].attempts]
      <4>1. rows[wjob][r] \in Row
        BY <1>t, <2>1
      <4> QED
        BY ONLY <4>1 DEF Row
    <3> QED
      BY <3>1, <3>2
  <2>3. Bar(rows') = [Bar(rows) EXCEPT ![wjob] =
                        [r \in Recipients |-> IF @[r] = "trying" THEN "owed" ELSE @[r]]]
    <3>1. rows' = [rows EXCEPT ![wjob] = [r \in Recipients |->
                     IF rows[wjob][r].status = "sending"
                     THEN [status |-> "pending", attempts |-> rows[wjob][r].attempts]
                     ELSE rows[wjob][r]]]
      BY <2>1, <2>2
    <3>2. \A r \in Recipients : Bar(rows)[wjob][r] = "trying" <=> rows[wjob][r].status = "sending"
      BY <2>2
    <3>3. wjob \in Jobs
      BY <2>1
    <3> QED BY <1>t, <3>1, <3>2, <3>3, OutcomeOfStatus DEF Bar
  <2>4. Tries(rows') = Tries(rows)
    BY <1>t, <2>1, <2>2 DEF Tries
  <2>5. Ledger!Recover(wjob)
    BY <2>1, <2>3, <2>4 DEF Ledger!Recover, Ledger!MoveAll, Bar, Tries, Hand
  <2> QED BY <2>1, <2>5 DEF Ledger!Next
<1>7. ASSUME NEW q \in Recipients, NEW s, NEW n, UpdateRow(wjob, q, s, n), wjob \in Jobs
      PROVE  /\ Bar(rows') = [Bar(rows) EXCEPT ![wjob][q] = OutcomeOf(s)]
             /\ Tries(rows') = [Tries(rows) EXCEPT ![wjob][q] = rows[wjob][q].attempts + n]
  <2>1. rows' = [rows EXCEPT ![wjob][q] =
                   [status |-> s, attempts |-> rows[wjob][q].attempts + n]]
    BY <1>t, <1>7 DEF UpdateRow
  <2> DEFINE m == rows[wjob][q].attempts + n
  <2> HIDE DEF m
  <2>2. rows' = [rows EXCEPT ![wjob][q] = [status |-> s, attempts |-> m]]
    BY <2>1 DEF m
  <2>3. /\ Bar(rows') = [Bar(rows) EXCEPT ![wjob][q] = OutcomeOf(s)]
        /\ Tries(rows') = [Tries(rows) EXCEPT ![wjob][q] = m]
    BY <1>t, <1>7, <2>2 DEF Bar, Tries
  <2> QED BY <2>3 DEF m
<1>8. CASE mark_recipient_sending
  <2>1. PICK q \in DOMAIN batch : cur' = q /\ UpdateRow(wjob, q, "sending", 0)
    BY <1>8 DEF mark_recipient_sending
  <2>2. /\ wjob \in Jobs /\ q \in Recipients
        /\ Hand = Nil /\ Hand' = <<wjob, q>>
    BY <1>t, <1>8, <2>1 DEF mark_recipient_sending, Hand, Sending
  <2>3. Bar(rows)[wjob][q] = "owed"
    <3>1. cur = Nil /\ q # cur
      BY <1>8, <2>2, BlastAssumption
      DEF mark_recipient_sending, LedgerInv, RowInv, Typed, WorkerOK, Holding, Sending
    <3>2. rows[wjob][q] = [status |-> "pending", attempts |-> batch[q]]
      BY <2>1, <3>1 DEF LedgerInv, RowInv, BatchOK
    <3>3. rows[wjob][q].status = "pending"
      BY <3>2
    <3> QED BY <2>2, <3>3, OutcomeOfStatus DEF Bar
  <2>4. /\ Bar(rows') = [Bar(rows) EXCEPT ![wjob][q] = "trying"]
        /\ Tries(rows') = [Tries(rows) EXCEPT ![wjob][q] = rows[wjob][q].attempts + 0]
    BY <1>7, <2>1, <2>2, OutcomeOfStatus
  <2>5. Tries(rows') = Tries(rows)
    <3>1. rows' = [rows EXCEPT ![wjob][q] =
                     [status |-> "sending", attempts |-> rows[wjob][q].attempts + 0]]
      BY <1>t, <2>1, <2>2 DEF UpdateRow
    <3>2. rows[wjob][q].attempts + 0 = rows[wjob][q].attempts
      BY <1>t, <2>2
    <3>3. \A k \in Jobs, p \in Recipients : rows'[k][p].attempts = rows[k][p].attempts
      BY <1>t, <2>2, <3>1, <3>2
    <3> QED BY <3>3 DEF Tries
  <2>6. Ledger!Take(wjob, q)
    BY <2>2, <2>3, <2>4, <2>5 DEF Ledger!Take, Bar, Tries, Hand
  <2> QED BY <2>2, <2>6 DEF Ledger!Next
<1>9. \* The message in hand is settled, one way or another.
      ASSUME NEW s \in {"sent", "pending", "dlq"}, NEW n \in {0, 1}, wpc \in Sending,
             wpc' \notin Sending, UpdateRow(wjob, cur, s, n)
      PROVE  /\ Ledger!Settle(wjob, cur, OutcomeOf(s), n)
             /\ wjob \in Jobs /\ cur \in Recipients
             /\ Tries(rows)[wjob][cur] = batch[cur]
  <2>1. wjob \in Jobs /\ cur \in Recipients
    BY <1>t, <1>9 DEF Sending
  <2>2. rows[wjob][cur].attempts = batch[cur]
    <3>1. rows[wjob][cur] = [status |-> "sending", attempts |-> batch[cur]]
      BY <1>t, <1>9
    <3> QED BY <3>1
  <2>3. Hand = <<wjob, cur>> /\ Hand' = Nil
    BY <1>9 DEF Hand
  <2>4. /\ Bar(rows') = [Bar(rows) EXCEPT ![wjob][cur] = OutcomeOf(s)]
        /\ Tries(rows') = [Tries(rows) EXCEPT ![wjob][cur] = rows[wjob][cur].attempts + n]
    BY <1>7, <1>9, <2>1
  <2>5. Tries(rows') = [Tries(rows) EXCEPT ![wjob][cur] = @ + n]
    BY <2>1, <2>4 DEF Tries
  <2>6. Ledger!Settle(wjob, cur, OutcomeOf(s), n)
    BY <2>3, <2>4, <2>5 DEF Ledger!Settle, Bar, Tries, Hand
  <2>7. Tries(rows)[wjob][cur] = batch[cur]
    BY <2>1, <2>2 DEF Tries
  <2> QED BY <2>1, <2>6, <2>7
<1>10. CASE mark_recipient_sent
  <2>1. wpc \in Sending /\ wpc' \notin Sending /\ UpdateRow(wjob, cur, "sent", 0)
    BY <1>10 DEF mark_recipient_sent, GoTo, Sending
  <2>2. Ledger!Deliver(wjob, cur) /\ wjob \in Jobs /\ cur \in Recipients
    BY <1>9, <2>1, OutcomeOfStatus DEF Ledger!Deliver
  <2> QED BY <2>2 DEF Ledger!Next, Ledger!Deliver
<1>11. CASE mark_recipient_retry
  <2>1. /\ wpc \in Sending /\ wpc' \notin Sending /\ UpdateRow(wjob, cur, "pending", 1)
        /\ batch[cur] + 1 < MaxAttempts
    BY <1>11 DEF mark_recipient_retry, NextRecipient, Sending
  <2>2. /\ Ledger!Settle(wjob, cur, "owed", 1) /\ wjob \in Jobs /\ cur \in Recipients
        /\ Tries(rows)[wjob][cur] + 1 < MaxAttempts
    BY <1>9, <2>1, OutcomeOfStatus
  <2>3. Ledger!PutBack(wjob, cur)
    BY <2>2 DEF Ledger!PutBack, Tries
  <2> QED BY <2>2, <2>3 DEF Ledger!Next, Ledger!PutBack
<1>12. CASE mark_recipient_dlq
  <2>1. /\ wpc \in Sending /\ wpc' \notin Sending /\ UpdateRow(wjob, cur, "dlq", 1)
        /\ batch[cur] + 1 >= MaxAttempts
    BY <1>12 DEF mark_recipient_dlq, GoTo, Sending
  <2>2. /\ Ledger!Settle(wjob, cur, "dead", 1) /\ wjob \in Jobs /\ cur \in Recipients
        /\ Tries(rows)[wjob][cur] = batch[cur]
    BY <1>9, <2>1, OutcomeOfStatus
  <2>3. rows[wjob][cur].status = "sending"
    <3>1. rows[wjob][cur] = [status |-> "sending", attempts |-> batch[cur]]
      BY <1>t, <2>1
    <3> QED BY <3>1
  <2>4. rows[wjob][cur].attempts < MaxAttempts /\ rows[wjob][cur].attempts \in Nat
    BY <1>t, <2>2, <2>3 DEF LedgerInv, RowInv, AttemptsCapped
  <2>5. rows[wjob][cur].attempts = batch[cur]
    BY <2>2 DEF Tries
  <2>6. Tries(rows)[wjob][cur] + 1 = MaxAttempts
    BY <2>1, <2>2, <2>4, <2>5, BlastAssumption
  <2>7. Ledger!GiveUp(wjob, cur)
    BY <2>2, <2>6 DEF Ledger!GiveUp, Tries
  <2> QED BY <2>2, <2>7 DEF Ledger!Next, Ledger!GiveUp
<1>13. CASE dispatch \/ incr_failed
  <2>1. UNCHANGED rows /\ Hand' = Hand
    BY <1>13 DEF dispatch, incr_failed, GoTo, Hand, Sending
  <2> QED BY <1>1, <2>1
<1>14. \* The worker's other steps find nothing in hand, and leave nothing there.
       CASE \/ running_job \/ select_due \/ claim_next_due \/ job_status \/ pending_recipients
            \/ incr_sent \/ incr_dlq \/ finalize_job \/ finish_job \/ TickFails \/ Crash
  <2>1. UNCHANGED rows /\ wpc' \notin Sending
    BY <1>14 DEF running_job, select_due, claim_next_due, job_status, pending_recipients,
       incr_sent, incr_dlq, finalize_job, finish_job, TickFails, Crash, GoTo, EndTick,
       NextRecipient, Sending
  <2> QED BY <1>2, <2>1 DEF Hand
<1>15. \* The other steps of requests and of time touch neither table nor worker.
       ASSUME UNCHANGED <<rows, worker>>
       PROVE  [Ledger!Next]_(Ledger!vars)
  BY <1>1, <1>3, <1>15
<1> QED
  BY <1>4, <1>5, <1>6, <1>8, <1>10, <1>11, <1>12, <1>13, <1>14, <1>15
  DEF Next, RequestArrives, RequestStep, WorkerStep, vars, create_blast, insert_job,
      cancel_blast, cancel_job, retry_blast, reopen_job, AbortRequest, SendAtPasses

\* Every behaviour of the queue is one of the ledger.
THEOREM Refinement == Spec => KeepsLedger
<1>1. Init => LedgerInv
  BY RowInvInit, ExistOKInit DEF LedgerInv, NoRowFresh, Init, NoRow
<1>2. Spec => []LedgerInv
  BY <1>1, LedgerInvNext, PTL DEF Spec
<1> QED BY <1>2, LedgerInit, LedgerNext, PTL DEF Spec, KeepsLedger, Ledger!Spec

-----------------------------------------------------------------------------
(* One send at a time *)

\* A finite set that gains at most one element.
LEMMA GrowsByOne ==
    ASSUME NEW S, IsFiniteSet(S), NEW x, NEW T, T \subseteq S \cup {x}
    PROVE  /\ IsFiniteSet(T)
           /\ Cardinality(S) \in Nat /\ Cardinality(T) \in Nat
           /\ Cardinality(T) <= Cardinality(S) + 1
           /\ S \subseteq T => Cardinality(S) <= Cardinality(T)
           /\ T \subseteq S => Cardinality(T) <= Cardinality(S)
           /\ x \notin S /\ T = S \cup {x} => Cardinality(T) = Cardinality(S) + 1
<1>1. IsFiniteSet(S \cup {x})
  BY ONLY IsFiniteSet(S), FS_AddElement
<1>2. IsFiniteSet(T) /\ Cardinality(T) <= Cardinality(S \cup {x})
  BY ONLY <1>1, T \subseteq S \cup {x}, FS_Subset
<1>3. Cardinality(S) \in Nat /\ Cardinality(T) \in Nat
  BY ONLY <1>2, IsFiniteSet(S), FS_CardinalityType
<1>4. CASE x \in S
  <2>1. S \cup {x} = S
    BY <1>4
  <2>2. S \subseteq T => Cardinality(S) <= Cardinality(T)
    BY ONLY <1>2, FS_Subset
  <2> QED BY ONLY <1>2, <1>3, <1>4, <2>1, <2>2
<1>5. CASE x \notin S
  <2>1. Cardinality(S \cup {x}) = Cardinality(S) + 1
    BY ONLY <1>5, IsFiniteSet(S), FS_AddElement
  <2>2. S \subseteq T => Cardinality(S) <= Cardinality(T)
    BY ONLY <1>2, FS_Subset
  <2>3. T \subseteq S => Cardinality(T) <= Cardinality(S)
    BY ONLY IsFiniteSet(S), FS_Subset
  <2> QED BY ONLY <1>2, <1>3, <2>1, <2>2, <2>3
<1> QED BY <1>4, <1>5

\* Who takes a step: a request, time, the worker, or a fault.
LEMMA StepKinds ==
    ASSUME [Next]_vars
    PROVE  \/ UNCHANGED <<worker, faults>>
           \/ WorkerStep /\ UNCHANGED <<req, faults>>
           \/ (TickFails \/ Crash) /\ UNCHANGED <<jobs, rows>> /\ EndTick /\ faults' = faults + 1
<1>1. ASSUME NEW c \in Clients, RequestArrives(c) \/ RequestStep(c) \/ AbortRequest(c)
      PROVE  UNCHANGED <<worker, faults>>
  BY <1>1 DEF RequestArrives, RequestStep, AbortRequest, create_blast, insert_job,
     insert_recipient, cancel_blast, cancel_job, retry_blast, requeue_failed, reopen_job, ghost
<1>2. ASSUME NEW j \in Jobs, SendAtPasses(j)
      PROVE  UNCHANGED <<worker, faults>>
  BY <1>2 DEF SendAtPasses, ghost
<1>3. ASSUME WorkerStep
      PROVE  UNCHANGED <<req, faults>>
  BY <1>3 DEF WorkerStep, running_job, select_due, claim_next_due, reset_sending_recipients,
     job_status, pending_recipients, mark_recipient_sending, dispatch, mark_recipient_sent,
     incr_sent, incr_failed, mark_recipient_retry, mark_recipient_dlq, incr_dlq,
     finalize_job, finish_job, ghost
<1>4. ASSUME TickFails \/ Crash
      PROVE  UNCHANGED <<jobs, rows>> /\ EndTick /\ faults' = faults + 1
  BY <1>4 DEF TickFails, Crash
<1> QED
  BY <1>1, <1>2, <1>3, <1>4 DEF Next, vars, ghost

\* Three statuses are written by one statement each.
LEMMA RowWriters ==
    ASSUME RowInv, [Next]_vars, NEW j \in Jobs, NEW r \in Recipients,
           rows'[j][r].status # rows[j][r].status
    PROVE  /\ rows'[j][r].status = "sending" => mark_recipient_sending
           /\ rows'[j][r].status = "sent" => mark_recipient_sent /\ j = wjob /\ r = cur
           /\ rows'[j][r].status = "dlq" => mark_recipient_dlq /\ j = wjob /\ r = cur
<1>t. rows \in [Jobs -> [Recipients -> Row]]
  BY DEF RowInv, Typed, TypeOK
<1>1. ASSUME NEW c \in Clients, RequestArrives(c) \/ RequestStep(c) \/ AbortRequest(c)
      PROVE  rows'[j][r].status \notin {"sending", "sent", "dlq"}
  BY <1>1, RequestRowStep DEF RowInv
<1>2. CASE reset_sending_recipients
  BY <1>t, <1>2 DEF reset_sending_recipients
<1>3. ASSUME NEW q, NEW s, NEW n, UpdateRow(wjob, q, s, n)
      PROVE  rows'[j][r].status = s /\ j = wjob /\ r = q
  BY <1>t, <1>3 DEF UpdateRow
<1>4. ASSUME WorkerStep, ~UNCHANGED rows
      PROVE  \/ reset_sending_recipients \/ mark_recipient_sending \/ mark_recipient_sent
             \/ mark_recipient_retry \/ mark_recipient_dlq
  BY <1>4 DEF WorkerStep, running_job, select_due, claim_next_due, job_status,
     pending_recipients, dispatch, incr_sent, incr_failed, incr_dlq, finalize_job, finish_job
<1>5. CASE mark_recipient_sending
  BY <1>3, <1>5 DEF mark_recipient_sending
<1>6. CASE mark_recipient_sent
  BY <1>3, <1>6 DEF mark_recipient_sent
<1>7. CASE mark_recipient_retry
  BY <1>3, <1>7 DEF mark_recipient_retry
<1>8. CASE mark_recipient_dlq
  BY <1>3, <1>8 DEF mark_recipient_dlq
<1>9. ASSUME TickFails \/ Crash \/ UNCHANGED vars \/ \E k \in Jobs : SendAtPasses(k)
      PROVE  UNCHANGED rows
  BY <1>9 DEF TickFails, Crash, vars, SendAtPasses
<1> QED
  BY <1>1, <1>2, <1>4, <1>5, <1>6, <1>7, <1>8, <1>9 DEF Next

\* The worker's way in and out of the two increments.
IncrementMoves ==
    /\ wpc' = "incrSent" <=> mark_recipient_sent
    /\ wpc' = "incrDlq" <=> mark_recipient_dlq
    /\ wpc = "incrSent" <=> incr_sent
    /\ wpc = "incrDlq" <=> incr_dlq
    /\ \/ <<wjob', cur'>> = <<wjob, cur>> \/ cur = Nil
       \/ incr_sent \/ incr_dlq \/ mark_recipient_retry
    /\ wpc' \in {"incrSent", "incrDlq"} => UNCHANGED <<wjob, cur>>

\* Each increment is entered by the statement before it and left by itself.
LEMMA IncrementSteps ==
    ASSUME Typed, WorkerStep
    PROVE  IncrementMoves
<1>t. IF wpc \in Holding THEN cur \in DOMAIN batch ELSE cur = Nil
  BY DEF Typed, WorkerOK
<1> USE DEF Holding, Sending
<1>1. CASE running_job \/ select_due
  BY <1>t, <1>1 DEF running_job, select_due, mark_recipient_sent, mark_recipient_dlq,
     incr_sent, incr_dlq, IncrementMoves
<1>2. CASE claim_next_due \/ job_status
  BY <1>t, <1>2 DEF claim_next_due, job_status, GoTo, EndTick, mark_recipient_sent,
     mark_recipient_dlq, incr_sent, incr_dlq, IncrementMoves
<1>3. CASE reset_sending_recipients \/ pending_recipients \/ finalize_job \/ finish_job
  BY <1>t, <1>3 DEF reset_sending_recipients, pending_recipients, finalize_job, finish_job, GoTo,
     EndTick, mark_recipient_sent, mark_recipient_dlq, incr_sent, incr_dlq, IncrementMoves
<1>4. CASE mark_recipient_sending \/ dispatch \/ incr_failed
  BY <1>t, <1>4 DEF mark_recipient_sending, dispatch, incr_failed, GoTo, mark_recipient_sent,
     mark_recipient_dlq, incr_sent, incr_dlq, IncrementMoves
<1>5. CASE mark_recipient_sent \/ mark_recipient_dlq
  BY <1>t, <1>5 DEF GoTo, mark_recipient_sent, mark_recipient_dlq, incr_sent, incr_dlq,
     IncrementMoves
<1>6. CASE incr_sent \/ incr_dlq \/ mark_recipient_retry
  <2>1. NextRecipient /\ wpc \in {"incrSent", "incrDlq", "settleFailed"}
        /\ (wpc = "incrSent" <=> incr_sent) /\ (wpc = "incrDlq" <=> incr_dlq)
    BY <1>6 DEF incr_sent, incr_dlq, mark_recipient_retry
  <2>2. wpc' \in {"check", "mark"}
    BY <2>1 DEF NextRecipient
  <2>3. ~mark_recipient_sent /\ ~mark_recipient_dlq
    BY <2>2 DEF mark_recipient_sent, mark_recipient_dlq, GoTo
  <2> QED BY ONLY <1>6, <2>1, <2>2, <2>3 DEF IncrementMoves
<1> QED
  BY ONLY <1>1, <1>2, <1>3, <1>4, <1>5, <1>6, WorkerStep DEF WorkerStep

\* The row whose counter is being incremented has left `sending`.
LastSettled ==
    /\ wpc = "incrSent" => rows[wjob][cur].status = "sent"
    /\ wpc = "incrDlq" => rows[wjob][cur].status \in {"dlq", "pending"}

\* Rows in flight that are not the worker's current one.
Inflight == {p \in Jobs \X Recipients : rows[p[1]][p[2]].status = "sending" /\ p # <<wjob, cur>>}

FlightOK == LastSettled /\ IsFiniteSet(Inflight) /\ Cardinality(Inflight) <= faults

\* Nothing sends the row of an increment again before the increment.
LEMMA LastSettledNext == RowInv /\ LastSettled /\ [Next]_vars => LastSettled'
<1> SUFFICES ASSUME RowInv, LastSettled, [Next]_vars PROVE LastSettled'
  OBVIOUS
<1>w. wpc \in {"markSent", "settleFailed", "incrSent", "incrDlq"}
        => wjob \in Jobs /\ cur \in Recipients
  BY DEF RowInv, Typed, TypeOK, WorkerOK, Holding, Sending
<1>1. CASE UNCHANGED worker
  <2>1. UNCHANGED <<wpc, wjob, cur>>
    BY <1>1 DEF worker
  <2>2. ASSUME wpc \in {"incrSent", "incrDlq"}
        PROVE  RowMove(wjob, cur)
    BY <1>w, <2>2, RowStep
  <2>3. ASSUME wpc = "incrSent" PROVE rows'[wjob][cur].status = "sent"
    BY <2>2, <2>3 DEF LastSettled, RowMove, Moves
  <2>4. ASSUME wpc = "incrDlq" PROVE rows'[wjob][cur].status \in {"dlq", "pending"}
    BY <2>2, <2>4 DEF LastSettled, RowMove, Moves
  <2> QED BY <2>1, <2>3, <2>4 DEF LastSettled
<1>2. CASE WorkerStep
  <2>1. ASSUME mark_recipient_sent
        PROVE  rows'[wjob'][cur'].status = "sent"
    <3>1. UpdateRow(wjob, cur, "sent", 0) /\ UNCHANGED <<wjob, cur>> /\ wpc = "markSent"
      BY <2>1 DEF mark_recipient_sent, GoTo
    <3>2. rows'[wjob][cur] = [status |-> "sent", attempts |-> rows[wjob][cur].attempts + 0]
      BY <1>w, <3>1, UpdateRowEffect DEF RowInv
    <3> QED BY <3>1, <3>2
  <2>2. ASSUME mark_recipient_dlq
        PROVE  rows'[wjob'][cur'].status = "dlq"
    <3>1. UpdateRow(wjob, cur, "dlq", 1) /\ UNCHANGED <<wjob, cur>> /\ wpc = "settleFailed"
      BY <2>2 DEF mark_recipient_dlq, GoTo
    <3>2. rows'[wjob][cur] = [status |-> "dlq", attempts |-> rows[wjob][cur].attempts + 1]
      BY <1>w, <3>1, UpdateRowEffect DEF RowInv
    <3> QED BY <3>1, <3>2
  <2> QED BY <1>2, <2>1, <2>2, IncrementSteps DEF IncrementMoves, RowInv, LastSettled
<1>3. CASE EndTick
  BY <1>3 DEF EndTick, LastSettled
<1> QED BY <1>1, <1>2, <1>3, StepKinds

\* A row is left in flight only by a fault, and then only the current one.
LEMMA InflightStep ==
    ASSUME RowInv, LastSettled, [Next]_vars
    PROVE  \/ faults' = faults /\ Inflight' \subseteq Inflight
           \/ faults' = faults + 1 /\ Inflight' \subseteq Inflight \cup {<<wjob, cur>>}
<1>w. /\ wpc \notin {"idle", "claim"} => wjob \in Jobs
      /\ DOMAIN batch \subseteq Recipients
      /\ IF wpc \in Holding THEN cur \in DOMAIN batch ELSE cur = Nil
      /\ Nil \notin Recipients
  BY BlastAssumption DEF RowInv, Typed, TypeOK, WorkerOK
<1>1. ASSUME UNCHANGED rows
      PROVE  Inflight' \subseteq Inflight \cup {<<wjob, cur>>}
  BY <1>1 DEF Inflight
<1>2. ASSUME NEW p \in Inflight', ~mark_recipient_sending
      PROVE  p \in Jobs \X Recipients /\ rows[p[1]][p[2]].status = "sending"
  <2>1. p \in Jobs \X Recipients /\ rows'[p[1]][p[2]].status = "sending"
    BY DEF Inflight
  <2> QED BY <1>2, <2>1, RowWriters
<1>3. CASE UNCHANGED <<worker, faults>>
  <2>1. ~mark_recipient_sending
    BY <1>3 DEF worker, mark_recipient_sending
  <2>2. ASSUME NEW p \in Inflight'
        PROVE  p \in Inflight
    <3>1. p # <<wjob, cur>>
      BY <1>3 DEF worker, Inflight
    <3> QED BY <1>2, <2>1, <3>1 DEF Inflight
  <2> QED BY <1>3, <2>2
<1>4. CASE mark_recipient_sending
  <2>1. PICK q \in DOMAIN batch : cur' = q /\ UpdateRow(wjob, q, "sending", 0)
    BY <1>4 DEF mark_recipient_sending
  <2>2. wpc = "mark" /\ UNCHANGED <<wjob, faults>> /\ wjob \in Jobs /\ cur = Nil /\ q \in Recipients
    BY <1>4, <1>w DEF mark_recipient_sending, ghost, Holding, Sending
  <2>3. \A k \in Jobs, r \in Recipients : k # wjob \/ r # q => rows'[k][r] = rows[k][r]
    BY <2>1, <2>2, UpdateRowEffect DEF RowInv
  <2>4. ASSUME NEW p \in Inflight'
        PROVE  p \in Inflight
    <3>1. p \in Jobs \X Recipients /\ rows'[p[1]][p[2]].status = "sending" /\ p # <<wjob, q>>
      BY <2>1, <2>2 DEF Inflight
    <3>2. rows[p[1]][p[2]].status = "sending" /\ p # <<wjob, cur>>
      BY <1>w, <2>2, <2>3, <3>1
    <3> QED BY <3>1, <3>2 DEF Inflight
  <2> QED BY <2>2, <2>4
<1>5. CASE WorkerStep /\ ~mark_recipient_sending
  <2>1. UNCHANGED faults
    BY <1>5 DEF WorkerStep, running_job, select_due, claim_next_due, reset_sending_recipients,
     job_status, pending_recipients, mark_recipient_sending, dispatch, mark_recipient_sent,
     incr_sent, incr_failed, mark_recipient_retry, mark_recipient_dlq, incr_dlq,
     finalize_job, finish_job, ghost
  <2>2. ASSUME NEW p \in Inflight'
        PROVE  p # <<wjob, cur>>
    <3> SUFFICES ASSUME p = <<wjob, cur>> PROVE FALSE
      OBVIOUS
    <3>1. /\ wjob \in Jobs /\ cur \in Recipients /\ <<wjob', cur'>> # <<wjob, cur>>
          /\ rows[wjob][cur].status = "sending" /\ rows'[wjob][cur].status = "sending"
      BY <1>2, <1>5 DEF Inflight
    <3>2. incr_sent \/ incr_dlq \/ mark_recipient_retry
      BY <1>5, <1>w, <3>1, IncrementSteps DEF IncrementMoves, RowInv
    <3>3. CASE incr_sent \/ incr_dlq
      BY <3>1, <3>3 DEF incr_sent, incr_dlq, LastSettled
    <3>4. CASE mark_recipient_retry
      <4>1. rows'[wjob][cur] = [status |-> "pending", attempts |-> rows[wjob][cur].attempts + 1]
        BY <3>1, <3>4, UpdateRowEffect DEF mark_recipient_retry, RowInv
      <4> QED BY <3>1, <4>1
    <3> QED BY <3>2, <3>3, <3>4
  <2>3. ASSUME NEW p \in Inflight'
        PROVE  p \in Inflight
    BY <1>2, <1>5, <2>2 DEF Inflight
  <2> QED BY <2>1, <2>3
<1> QED BY <1>1, <1>3, <1>4, <1>5, StepKinds

\* No more rows are left in flight than ticks were cut short.
LEMMA FlightOKNext == RowInv /\ FlightOK /\ [Next]_vars => FlightOK'
<1> SUFFICES ASSUME RowInv, FlightOK, [Next]_vars PROVE FlightOK'
  OBVIOUS
<1>1. LastSettled'
  BY LastSettledNext DEF FlightOK
<1>2. IsFiniteSet(Inflight) /\ Cardinality(Inflight) <= faults /\ faults \in Nat
  BY BlastAssumption DEF FlightOK, RowInv, Typed, TypeOK
<1>3. \/ faults' = faults /\ Inflight' \subseteq Inflight
      \/ faults' = faults + 1 /\ Inflight' \subseteq Inflight \cup {<<wjob, cur>>}
  BY InflightStep DEF FlightOK
<1>4. CASE faults' = faults /\ Inflight' \subseteq Inflight
  <2>1. IsFiniteSet(Inflight') /\ Cardinality(Inflight') <= Cardinality(Inflight)
        /\ Cardinality(Inflight) \in Nat /\ Cardinality(Inflight') \in Nat
    BY ONLY <1>2, <1>4, FS_Subset, FS_CardinalityType
  <2>2. Cardinality(Inflight') <= faults'
    BY ONLY <1>2, <1>4, <2>1
  <2> QED BY <1>1, <2>1, <2>2 DEF FlightOK
<1>5. CASE faults' = faults + 1 /\ Inflight' \subseteq Inflight \cup {<<wjob, cur>>}
  <2>1. IsFiniteSet(Inflight') /\ Cardinality(Inflight') <= Cardinality(Inflight) + 1
        /\ Cardinality(Inflight) \in Nat /\ Cardinality(Inflight') \in Nat
    BY ONLY <1>2, <1>5, GrowsByOne
  <2>2. Cardinality(Inflight') <= faults'
    BY ONLY <1>2, <1>5, <2>1
  <2> QED BY <1>1, <2>1, <2>2 DEF FlightOK
<1> QED BY <1>3, <1>4, <1>5

\* One send at a time, but for what ticks cut short left in flight.
THEOREM InFlight == Spec => []OneInFlight
<1>1. Init => FlightOK
  <2> SUFFICES ASSUME Init PROVE FlightOK
    OBVIOUS
  <2>1. Inflight = {}
    BY DEF Init, Inflight, NoRow
  <2> QED BY <2>1, FS_EmptySet DEF Init, FlightOK, LastSettled
<1>2. Spec => [](RowInv /\ FlightOK)
  BY <1>1, RowInvInit, TypedNext, BatchOKNext, AttemptsCappedNext, FlightOKNext, PTL
  DEF Spec, RowInv
<1>3. FlightOK => OneInFlight
  BY DEF FlightOK, OneInFlight, Inflight
<1> QED BY <1>2, <1>3, PTL

-----------------------------------------------------------------------------
(* The counters of a job *)

\* The counters change only by being increased, and a job starts with none.
LEMMA CountStep ==
    ASSUME Typed, ExistOK, [Next]_vars, NEW k \in Jobs
    PROVE  \/ /\ jobs[k].status = "none" /\ UNCHANGED <<rows, worker, faults>>
              /\ jobs'[k].sent_count = 0 /\ jobs'[k].dlq_count = 0
           \/ /\ IF incr_sent /\ wjob = k
                 THEN jobs'[k].sent_count = jobs[k].sent_count + 1
                 ELSE jobs'[k].sent_count = jobs[k].sent_count
              /\ IF incr_dlq /\ wjob = k
                 THEN jobs'[k].dlq_count = jobs[k].dlq_count + 1
                 ELSE jobs'[k].dlq_count = jobs[k].dlq_count
<1> DEFINE Kept == /\ jobs'[k].sent_count = jobs[k].sent_count
                   /\ jobs'[k].dlq_count = jobs[k].dlq_count
<1>t. jobs \in [Jobs -> JobRow] /\ jobs[k] \in JobRow
  BY DEF Typed, TypeOK
<1>1. ASSUME NEW c \in Clients, NEW due \in BOOLEAN, insert_job(c, due), req[c].job = k
      PROVE  /\ jobs[k].status = "none" /\ UNCHANGED <<rows, worker, faults>>
             /\ jobs'[k].sent_count = 0 /\ jobs'[k].dlq_count = 0
  <2>1. jobs[k].status = "none" /\ UNCHANGED <<rows, worker, faults>>
    BY <1>1 DEF insert_job, ExistOK, ghost
  <2>2. jobs'[k] = [NoJob EXCEPT !.status = "pending", !.due = due, !.dedup = req[c].dedup]
    BY <1>t, <1>1 DEF insert_job
  <2> QED BY <2>1, <2>2 DEF NoJob
<1>2. ASSUME NEW c \in Clients, NEW due \in BOOLEAN, insert_job(c, due), req[c].job # k
      PROVE  Kept
  BY <1>t, <1>2 DEF insert_job
<1>3. ASSUME NEW j, NEW s, SetStatus(j, s)
      PROVE  Kept
  BY <1>t, <1>3 DEF SetStatus, JobRow
<1>4. ASSUME NEW j \in Jobs, SendAtPasses(j)
      PROVE  Kept
  BY <1>t, <1>4 DEF SendAtPasses, JobRow
<1>5. ASSUME NEW c \in Clients, cancel_job(c) \/ reopen_job(c)
      PROVE  Kept
  BY <1>3, <1>5 DEF cancel_job, reopen_job
<1>6. CASE claim_next_due \/ finish_job
  <2>1. Kept
    BY <1>3, <1>6 DEF claim_next_due, finish_job
  <2>2. ~incr_sent /\ ~incr_dlq
    BY <1>6 DEF claim_next_due, finish_job, incr_sent, incr_dlq
  <2> QED BY <2>1, <2>2
<1>7. ASSUME incr_sent
      PROVE  /\ jobs'[k].sent_count = jobs[k].sent_count + (IF wjob = k THEN 1 ELSE 0)
             /\ jobs'[k].dlq_count = jobs[k].dlq_count /\ ~incr_dlq
             /\ jobs[k].sent_count \in Nat
  BY <1>t, <1>7 DEF incr_sent, incr_dlq, JobRow
<1>8. ASSUME incr_dlq
      PROVE  /\ jobs'[k].dlq_count = jobs[k].dlq_count + (IF wjob = k THEN 1 ELSE 0)
             /\ jobs'[k].sent_count = jobs[k].sent_count /\ ~incr_sent
             /\ jobs[k].dlq_count \in Nat
  BY <1>t, <1>8 DEF incr_sent, incr_dlq, JobRow
<1>9. CASE incr_failed
  <2>1. Kept
    BY <1>t, <1>9 DEF incr_failed, JobRow
  <2> QED BY <1>7, <1>8, <2>1
<1>10. ASSUME UNCHANGED jobs
       PROVE  Kept
  BY <1>10
<1> HIDE DEF Kept
<1>11. CASE incr_sent
  BY <1>7, <1>11
<1>12. CASE incr_dlq
  BY <1>8, <1>12
<1>13. ASSUME Kept, ~incr_sent, ~incr_dlq
       PROVE  /\ jobs'[k].sent_count = jobs[k].sent_count
              /\ jobs'[k].dlq_count = jobs[k].dlq_count
  BY <1>13 DEF Kept
<1> QED
  BY <1>1, <1>2, <1>4, <1>5, <1>6, <1>9, <1>10, <1>11, <1>12, <1>13, JobsCases

\* The rows delivered only gain the current one, and only by its own statement.
LEMMA SentRowsStep ==
    ASSUME RowInv, [Next]_vars, NEW k \in Jobs
    PROVE  IF mark_recipient_sent /\ wjob = k
           THEN /\ cur \notin RowsIn(k, "sent")
                /\ RowsIn(k, "sent")' = RowsIn(k, "sent") \cup {cur}
           ELSE RowsIn(k, "sent")' = RowsIn(k, "sent")
<1>1. ASSUME NEW r \in Recipients, rows[k][r].status = "sent"
      PROVE  rows'[k][r].status = "sent"
  <2>1. RowMove(k, r)
    BY RowStep
  <2> QED BY <1>1, <2>1 DEF RowMove, Moves
<1>2. ASSUME NEW r \in Recipients, rows'[k][r].status = "sent", rows[k][r].status # "sent"
      PROVE  mark_recipient_sent /\ k = wjob /\ r = cur
  BY <1>2, RowWriters
<1>3. ASSUME mark_recipient_sent, wjob = k
      PROVE  cur \in Recipients /\ rows[k][cur].status # "sent" /\ rows'[k][cur].status = "sent"
  <2>1. cur \in Recipients /\ UpdateRow(wjob, cur, "sent", 0)
        /\ rows[wjob][cur] = [status |-> "sending", attempts |-> batch[cur]]
    BY <1>3 DEF mark_recipient_sent, RowInv, BatchOK, Typed, TypeOK, WorkerOK, Holding, Sending
  <2>2. rows'[wjob][cur] = [status |-> "sent", attempts |-> rows[wjob][cur].attempts + 0]
    BY <1>3, <2>1, UpdateRowEffect DEF RowInv
  <2> QED BY <1>3, <2>1, <2>2
<1> QED BY <1>1, <1>2, <1>3 DEF RowsIn

\* The dead rows only gain the current one, and only by its own statement.
LEMMA DeadRowsStep ==
    ASSUME RowInv, [Next]_vars, NEW k \in Jobs
    PROVE  IF mark_recipient_dlq /\ wjob = k
           THEN RowsIn(k, "dlq")' \subseteq RowsIn(k, "dlq") \cup {cur}
           ELSE RowsIn(k, "dlq")' \subseteq RowsIn(k, "dlq")
<1>1. ASSUME NEW r \in Recipients, rows'[k][r].status = "dlq", rows[k][r].status # "dlq"
      PROVE  mark_recipient_dlq /\ k = wjob /\ r = cur
  BY <1>1, RowWriters
<1> QED BY <1>1 DEF RowsIn

\* Where the worker stands with an increment, before and after a step of its own.
LEMMA AtWorkStep ==
    ASSUME Typed, WorkerStep, NEW k
    PROVE  /\ AtWork(k, "incrSent") = IF incr_sent /\ wjob = k THEN 1 ELSE 0
           /\ AtWork(k, "incrSent")' = IF mark_recipient_sent /\ wjob = k THEN 1 ELSE 0
           /\ AtWork(k, "incrDlq") = IF incr_dlq /\ wjob = k THEN 1 ELSE 0
           /\ AtWork(k, "incrDlq")' = IF mark_recipient_dlq /\ wjob = k THEN 1 ELSE 0
<1>1. IncrementMoves
  BY IncrementSteps
<1> QED BY ONLY <1>1 DEF IncrementMoves, AtWork

\* Increments of sent_count and rows sent, but for the increments lost to faults.
SentOK(k) ==
    /\ IsFiniteSet(RowsIn(k, "sent"))
    /\ jobs[k].sent_count + AtWork(k, "incrSent") <= Cardinality(RowsIn(k, "sent"))
    /\ Cardinality(RowsIn(k, "sent")) <= jobs[k].sent_count + AtWork(k, "incrSent") + faults

\* The same of dlq_count, from one side: a retry takes rows out of the DLQ.
DeadOK(k) ==
    /\ IsFiniteSet(RowsIn(k, "dlq"))
    /\ Cardinality(RowsIn(k, "dlq")) <= jobs[k].dlq_count + AtWork(k, "incrDlq") + faults

CountInv == RowInv /\ ExistOK /\ \A k \in Jobs : SentOK(k) /\ DeadOK(k)

\* A job that does not exist yet has no rows, and the worker is not at it.
LEMMA NoRowsYet ==
    ASSUME ExistOK, NEW k \in Jobs, jobs[k].status = "none"
    PROVE  /\ \A s \in {"sent", "dlq"} : RowsIn(k, s) = {}
           /\ \A pc : AtWork(k, pc) = 0
BY DEF ExistOK, RowsIn, AtWork

\* A delivery is counted, about to be, or was cut short.
LEMMA SentOKNext ==
    ASSUME CountInv, [Next]_vars, NEW k \in Jobs
    PROVE  SentOK(k)'
<1> DEFINE n == Cardinality(RowsIn(k, "sent"))
<1> DEFINE w == AtWork(k, "incrSent")
<1>t. /\ jobs[k].sent_count \in Nat /\ faults \in Nat /\ n \in Nat
      /\ IsFiniteSet(RowsIn(k, "sent"))
      /\ jobs[k].sent_count + w <= n /\ n <= jobs[k].sent_count + w + faults
  <2>1. IsFiniteSet(RowsIn(k, "sent"))
        /\ jobs[k].sent_count + w <= n /\ n <= jobs[k].sent_count + w + faults
    BY DEF CountInv, SentOK
  <2>2. jobs[k].sent_count \in Nat /\ faults \in Nat
    BY BlastAssumption DEF CountInv, RowInv, Typed, TypeOK, JobRow
  <2>3. n \in Nat
    BY ONLY <2>1, FS_CardinalityType
  <2> QED BY <2>1, <2>2, <2>3
<1>c. Typed /\ RowInv /\ ExistOK
  BY DEF CountInv, RowInv
<1>r. IF mark_recipient_sent /\ wjob = k
      THEN /\ cur \notin RowsIn(k, "sent")
           /\ RowsIn(k, "sent")' = RowsIn(k, "sent") \cup {cur}
      ELSE RowsIn(k, "sent")' = RowsIn(k, "sent")
  BY <1>c, SentRowsStep
<1>f. /\ IsFiniteSet(RowsIn(k, "sent")')
      /\ Cardinality(RowsIn(k, "sent")') = IF mark_recipient_sent /\ wjob = k THEN n + 1 ELSE n
  <2>1. CASE mark_recipient_sent /\ wjob = k
    BY ONLY <1>r, <1>t, <2>1, GrowsByOne
  <2>2. CASE ~(mark_recipient_sent /\ wjob = k)
    BY ONLY <1>r, <1>t, <2>2
  <2> QED BY <2>1, <2>2
<1>1. CASE /\ jobs[k].status = "none" /\ UNCHANGED <<rows, worker, faults>>
           /\ jobs'[k].sent_count = 0
  <2>1. RowsIn(k, "sent") = {} /\ w = 0
    BY <1>1, <1>c, NoRowsYet
  <2>2. RowsIn(k, "sent")' = {} /\ AtWork(k, "incrSent")' = 0
    BY <1>1, <2>1 DEF RowsIn, AtWork, worker
  <2>3. IsFiniteSet({}) /\ Cardinality({}) = 0
    BY FS_EmptySet
  <2> QED BY <1>1, <1>t, <2>2, <2>3 DEF SentOK
<1>2. ASSUME IF incr_sent /\ wjob = k
             THEN jobs'[k].sent_count = jobs[k].sent_count + 1
             ELSE jobs'[k].sent_count = jobs[k].sent_count
      PROVE  /\ jobs'[k].sent_count + AtWork(k, "incrSent")' <= Cardinality(RowsIn(k, "sent")')
             /\ Cardinality(RowsIn(k, "sent")')
                  <= jobs'[k].sent_count + AtWork(k, "incrSent")' + faults'
  <2> DEFINE w2 == AtWork(k, "incrSent")'
  <2>1. CASE UNCHANGED <<worker, faults>>
    <3>1. ~incr_sent /\ ~mark_recipient_sent
      BY <2>1 DEF incr_sent, mark_recipient_sent, NextRecipient, GoTo, worker
    <3>2. w2 = w /\ faults' = faults
      BY <2>1 DEF AtWork, worker
    <3> HIDE DEF n, w, w2
    <3> QED BY ONLY <1>2, <1>t, <1>f, <3>1, <3>2 DEF n, w2
  <2>2. CASE WorkerStep /\ UNCHANGED <<req, faults>>
    <3>1. /\ w = IF incr_sent /\ wjob = k THEN 1 ELSE 0
          /\ w2 = IF mark_recipient_sent /\ wjob = k THEN 1 ELSE 0
      BY <1>c, <2>2, AtWorkStep
    <3>2. ~(incr_sent /\ mark_recipient_sent) /\ faults' = faults
      BY <2>2 DEF incr_sent, mark_recipient_sent
    <3> HIDE DEF n, w, w2
    <3> QED BY ONLY <1>2, <1>t, <1>f, <3>1, <3>2 DEF n, w2
  <2>3. CASE /\ (TickFails \/ Crash) /\ UNCHANGED <<jobs, rows>> /\ EndTick
             /\ faults' = faults + 1
    <3>1. w2 = 0 /\ w \in {0, 1}
      BY <2>3 DEF AtWork, EndTick
    <3>2. RowsIn(k, "sent")' = RowsIn(k, "sent") /\ jobs'[k].sent_count = jobs[k].sent_count
      BY <2>3 DEF RowsIn
    <3> HIDE DEF w, w2
    <3> QED BY ONLY <2>3, <1>t, <3>1, <3>2 DEF w2
  <2> QED BY <2>1, <2>2, <2>3, StepKinds
<1>3. CASE IF incr_sent /\ wjob = k
           THEN jobs'[k].sent_count = jobs[k].sent_count + 1
           ELSE jobs'[k].sent_count = jobs[k].sent_count
  BY <1>2, <1>3, <1>f DEF SentOK
<1> QED BY <1>1, <1>3, <1>c, CountStep

\* A dead row is counted, about to be, or was cut short.
LEMMA DeadOKNext ==
    ASSUME CountInv, [Next]_vars, NEW k \in Jobs
    PROVE  DeadOK(k)'
<1> DEFINE n == Cardinality(RowsIn(k, "dlq"))
<1> DEFINE m == Cardinality(RowsIn(k, "dlq")')
<1> DEFINE w == AtWork(k, "incrDlq")
<1>t. /\ jobs[k].dlq_count \in Nat /\ faults \in Nat /\ n \in Nat
      /\ IsFiniteSet(RowsIn(k, "dlq"))
      /\ n <= jobs[k].dlq_count + w + faults
  <2>1. IsFiniteSet(RowsIn(k, "dlq")) /\ n <= jobs[k].dlq_count + w + faults
    BY DEF CountInv, DeadOK
  <2>2. jobs[k].dlq_count \in Nat /\ faults \in Nat
    BY BlastAssumption DEF CountInv, RowInv, Typed, TypeOK, JobRow
  <2>3. n \in Nat
    BY ONLY <2>1, FS_CardinalityType
  <2> QED BY <2>1, <2>2, <2>3
<1>c. Typed /\ RowInv /\ ExistOK
  BY DEF CountInv, RowInv
<1>r. IF mark_recipient_dlq /\ wjob = k
      THEN RowsIn(k, "dlq")' \subseteq RowsIn(k, "dlq") \cup {cur}
      ELSE RowsIn(k, "dlq")' \subseteq RowsIn(k, "dlq")
  BY <1>c, DeadRowsStep
<1>f. /\ IsFiniteSet(RowsIn(k, "dlq")') /\ m \in Nat
      /\ m <= IF mark_recipient_dlq /\ wjob = k THEN n + 1 ELSE n
  <2>1. CASE mark_recipient_dlq /\ wjob = k
    BY ONLY <1>r, <1>t, <2>1, GrowsByOne
  <2>2. CASE ~(mark_recipient_dlq /\ wjob = k)
    BY ONLY <1>r, <1>t, <2>2, FS_Subset, FS_CardinalityType
  <2> QED BY <2>1, <2>2
<1>1. CASE /\ jobs[k].status = "none" /\ UNCHANGED <<rows, worker, faults>>
           /\ jobs'[k].dlq_count = 0
  <2>1. RowsIn(k, "dlq") = {} /\ w = 0
    BY <1>1, <1>c, NoRowsYet
  <2>2. RowsIn(k, "dlq")' = {} /\ AtWork(k, "incrDlq")' = 0
    BY <1>1, <2>1 DEF RowsIn, AtWork, worker
  <2>3. IsFiniteSet({}) /\ Cardinality({}) = 0
    BY FS_EmptySet
  <2> QED BY <1>1, <1>t, <2>2, <2>3 DEF DeadOK
<1>2. ASSUME IF incr_dlq /\ wjob = k
             THEN jobs'[k].dlq_count = jobs[k].dlq_count + 1
             ELSE jobs'[k].dlq_count = jobs[k].dlq_count
      PROVE  m <= jobs'[k].dlq_count + AtWork(k, "incrDlq")' + faults'
  <2> DEFINE w2 == AtWork(k, "incrDlq")'
  <2>1. CASE UNCHANGED <<worker, faults>>
    <3>1. ~incr_dlq /\ ~mark_recipient_dlq
      BY <2>1 DEF incr_dlq, mark_recipient_dlq, NextRecipient, GoTo, worker
    <3>2. w2 = w /\ faults' = faults /\ w \in {0, 1}
      BY <2>1 DEF AtWork, worker
    <3> HIDE DEF n, m, w, w2
    <3> QED BY ONLY <1>2, <1>t, <1>f, <3>1, <3>2 DEF w2
  <2>2. CASE WorkerStep /\ UNCHANGED <<req, faults>>
    <3>1. /\ w = IF incr_dlq /\ wjob = k THEN 1 ELSE 0
          /\ w2 = IF mark_recipient_dlq /\ wjob = k THEN 1 ELSE 0
      BY <1>c, <2>2, AtWorkStep
    <3>2. ~(incr_dlq /\ mark_recipient_dlq) /\ faults' = faults
      BY <2>2 DEF incr_dlq, mark_recipient_dlq
    <3> HIDE DEF n, m, w, w2
    <3> QED BY ONLY <1>2, <1>t, <1>f, <3>1, <3>2 DEF w2
  <2>3. CASE /\ (TickFails \/ Crash) /\ UNCHANGED <<jobs, rows>> /\ EndTick
             /\ faults' = faults + 1
    <3>1. w2 = 0 /\ w \in {0, 1}
      BY <2>3 DEF AtWork, EndTick
    <3>2. m = n /\ jobs'[k].dlq_count = jobs[k].dlq_count
      BY <2>3 DEF RowsIn
    <3> HIDE DEF n, m, w, w2
    <3> QED BY ONLY <2>3, <1>t, <3>1, <3>2 DEF w2
  <2> QED BY <2>1, <2>2, <2>3, StepKinds
<1>3. CASE IF incr_dlq /\ wjob = k
           THEN jobs'[k].dlq_count = jobs[k].dlq_count + 1
           ELSE jobs'[k].dlq_count = jobs[k].dlq_count
  BY <1>2, <1>3, <1>f DEF DeadOK
<1> QED BY <1>1, <1>3, <1>c, CountStep

\* The job at work is not closed, and one closed as `completed` counted no dead row.
ClosedOK ==
    /\ wpc \notin {"idle", "claim"} => jobs[wjob].status \notin Finished
    /\ wpc = "finish" /\ verdict = "completed" => jobs[wjob].dlq_count = 0
    /\ \A k \in Jobs : jobs[k].status = "completed" => jobs[k].dlq_count = 0

\* Only the worker closes a job, as it decided.
LEMMA FinishStep ==
    ASSUME Typed, [Next]_vars, NEW k \in Jobs,
           jobs'[k].status \in Finished, jobs'[k].status # jobs[k].status
    PROVE  finish_job /\ k = wjob /\ jobs'[k].status = verdict
<1>t. jobs \in [Jobs -> JobRow] /\ jobs[k] \in JobRow
  BY DEF Typed, TypeOK
<1>1. ASSUME NEW c \in Clients, NEW due \in BOOLEAN, insert_job(c, due)
      PROVE  FALSE
  <2>1. [NoJob EXCEPT !.status = "pending", !.due = due, !.dedup = req[c].dedup].status = "pending"
    BY DEF NoJob
  <2> QED BY <1>t, <1>1, <2>1 DEF insert_job, Finished
<1>2. ASSUME NEW j, NEW s, SetStatus(j, s)
      PROVE  k = j /\ jobs'[k].status = s
  BY <1>t, <1>2 DEF SetStatus, JobRow
<1>3. ASSUME NEW c \in Clients, cancel_job(c) \/ reopen_job(c)
      PROVE  FALSE
  BY <1>2, <1>3 DEF cancel_job, reopen_job, Finished
<1>4. CASE claim_next_due
  BY <1>2, <1>4 DEF claim_next_due, Finished
<1>5. CASE finish_job
  BY <1>2, <1>5 DEF finish_job
<1>6. ASSUME NEW j \in Jobs, SendAtPasses(j)
      PROVE  FALSE
  BY <1>t, <1>6 DEF SendAtPasses, JobRow
<1>7. ASSUME incr_sent \/ incr_failed \/ incr_dlq
      PROVE  FALSE
  BY <1>t, <1>7 DEF incr_sent, incr_failed, incr_dlq, JobRow
<1> QED BY <1>1, <1>3, <1>4, <1>5, <1>6, <1>7, JobsCases

\* The worker takes a job from the table, and then stays with it for the tick.
LEMMA WorkerJobStep ==
    ASSUME Typed, WorkerStep
    PROVE  /\ \/ wpc' \in {"idle", "claim"}
              \/ UNCHANGED wjob /\ wpc \notin {"idle", "claim", "finish"} /\ ~finish_job
              \/ wjob' \in Running \cup DuePending /\ UNCHANGED jobs
           /\ wpc' = "finish" => finalize_job
           /\ finish_job => ~incr_dlq
<1>1. CASE running_job \/ select_due
  BY <1>1 DEF running_job, select_due, finish_job
<1>2. CASE claim_next_due \/ job_status
  BY <1>2 DEF claim_next_due, job_status, GoTo, EndTick, finish_job
<1>3. CASE reset_sending_recipients \/ pending_recipients
  BY <1>3 DEF reset_sending_recipients, pending_recipients, GoTo, finish_job
<1>4. CASE finalize_job \/ finish_job
  BY <1>4 DEF finalize_job, finish_job, EndTick, incr_dlq
<1>5. CASE mark_recipient_sending \/ dispatch \/ incr_failed
  BY <1>5 DEF mark_recipient_sending, dispatch, incr_failed, GoTo, finish_job
<1>6. CASE mark_recipient_sent \/ mark_recipient_dlq
  BY <1>6 DEF mark_recipient_sent, mark_recipient_dlq, GoTo, finish_job
<1>7. CASE incr_sent \/ incr_dlq \/ mark_recipient_retry
  <2>1. NextRecipient /\ wpc \in {"incrSent", "incrDlq", "settleFailed"} /\ ~finish_job
    BY <1>7 DEF incr_sent, incr_dlq, mark_recipient_retry, finish_job
  <2>2. wpc' \in {"check", "mark"} /\ UNCHANGED wjob
    BY <2>1 DEF NextRecipient
  <2> QED BY <2>1, <2>2
<1> QED
  BY <1>1, <1>2, <1>3, <1>4, <1>5, <1>6, <1>7 DEF WorkerStep

\* Closing a job hides nothing the worker had counted by then.
LEMMA ClosedOKNext == CountInv /\ ClosedOK /\ [Next]_vars => ClosedOK'
<1> SUFFICES ASSUME CountInv, ClosedOK, [Next]_vars PROVE ClosedOK'
  OBVIOUS
<1>c. /\ Typed /\ RowInv /\ ExistOK
      /\ wpc \notin {"idle", "claim"} => wjob \in Jobs
      /\ Running \cup DuePending \subseteq Jobs
  BY DEF CountInv, RowInv, Typed, WorkerOK, Running, DuePending
<1>d. /\ wpc \notin {"idle", "claim"} => jobs[wjob].status \notin Finished
      /\ wpc = "finish" /\ verdict = "completed" => jobs[wjob].dlq_count = 0
      /\ \A k \in Jobs : jobs[k].status = "completed" => jobs[k].dlq_count = 0
  BY DEF ClosedOK
<1>n. \A k \in Jobs : jobs[k].dlq_count \in Nat
  BY <1>c DEF Typed, TypeOK, JobRow
<1>s. ASSUME UNCHANGED worker
      PROVE  ~finish_job /\ ~incr_dlq /\ UNCHANGED <<wpc, wjob, verdict>>
  BY <1>s DEF finish_job, EndTick, incr_dlq, NextRecipient, worker
<1>1. ASSUME wpc' \notin {"idle", "claim"}
      PROVE  jobs'[wjob'].status \notin Finished
  <2>1. CASE UNCHANGED <<worker, faults>>
    BY <1>1, <1>c, <1>d, <1>s, <2>1, FinishStep
  <2>2. CASE WorkerStep
    <3>1. CASE UNCHANGED wjob /\ wpc \notin {"idle", "claim", "finish"} /\ ~finish_job
      BY <1>c, <1>d, <3>1, FinishStep
    <3>2. CASE wjob' \in Running \cup DuePending /\ UNCHANGED jobs
      BY <3>2 DEF Running, DuePending, Finished
    <3> QED BY <1>1, <1>c, <2>2, <3>1, <3>2, WorkerJobStep
  <2>3. CASE EndTick
    BY <1>1, <2>3 DEF EndTick
  <2> QED BY <2>1, <2>2, <2>3, StepKinds
<1>k. ASSUME NEW k \in Jobs, jobs[k].dlq_count = 0, ~(incr_dlq /\ wjob = k)
      PROVE  jobs'[k].dlq_count = 0
  BY <1>c, <1>k, CountStep
<1>2. ASSUME wpc' = "finish", verdict' = "completed"
      PROVE  jobs'[wjob'].dlq_count = 0
  <2>1. CASE UNCHANGED <<worker, faults>>
    BY <1>2, <1>c, <1>d, <1>s, <1>k, <2>1
  <2>2. CASE WorkerStep
    <3>1. finalize_job
      BY <1>2, <1>c, <2>2, WorkerJobStep
    <3>2. jobs[wjob].dlq_count = 0 /\ UNCHANGED <<jobs, wjob>>
      BY <1>2, <1>c, <1>n, <3>1 DEF finalize_job
    <3> QED BY <3>2
  <2>3. CASE EndTick
    BY <1>2, <2>3 DEF EndTick
  <2> QED BY <2>1, <2>2, <2>3, StepKinds
<1>3. ASSUME NEW k \in Jobs, jobs'[k].status = "completed"
      PROVE  jobs'[k].dlq_count = 0
  <2>1. CASE jobs[k].status = "completed"
    <3>1. ~(incr_dlq /\ wjob = k)
      BY <1>d, <2>1 DEF incr_dlq, Finished
    <3> QED BY <1>d, <1>k, <2>1, <3>1
  <2>2. CASE jobs[k].status # "completed"
    <3>1. finish_job /\ k = wjob /\ verdict = "completed" /\ wpc = "finish"
      BY <1>3, <1>c, <2>2, FinishStep DEF Finished, finish_job
    <3>2. ~incr_dlq
      BY <3>1 DEF finish_job, incr_dlq
    <3> QED BY <1>d, <1>k, <3>1, <3>2
  <2> QED BY <2>1, <2>2
<1> QED BY <1>1, <1>2, <1>3 DEF ClosedOK

\* The counters of a job agree with its rows but for what faults lost.
THEOREM Counters == Spec => []CountersTrue
<1>1. Init => CountInv /\ ClosedOK
  <2> SUFFICES ASSUME Init PROVE CountInv /\ ClosedOK
    OBVIOUS
  <2>1. RowInv /\ ExistOK
    BY RowInvInit, ExistOKInit
  <2>2. ASSUME NEW k \in Jobs
        PROVE  SentOK(k) /\ DeadOK(k)
    <3>1. jobs[k].status = "none" /\ jobs[k].sent_count = 0 /\ jobs[k].dlq_count = 0
          /\ faults = 0
      BY DEF Init, NoJob
    <3>2. /\ RowsIn(k, "sent") = {} /\ RowsIn(k, "dlq") = {}
          /\ AtWork(k, "incrSent") = 0 /\ AtWork(k, "incrDlq") = 0
      BY <2>1, <3>1, NoRowsYet
    <3> QED BY <3>1, <3>2, FS_EmptySet DEF SentOK, DeadOK
  <2>3. ClosedOK
    BY DEF Init, ClosedOK, NoJob
  <2> QED BY <2>1, <2>2, <2>3 DEF CountInv
<1>2. CountInv /\ [Next]_vars => CountInv'
  <2> SUFFICES ASSUME CountInv, [Next]_vars PROVE CountInv'
    OBVIOUS
  <2>1. RowInv' /\ ExistOK'
    BY TypedNext, BatchOKNext, AttemptsCappedNext, ExistOKNext DEF CountInv, RowInv
  <2> QED BY <2>1, SentOKNext, DeadOKNext DEF CountInv
<1>3. CountInv /\ ClosedOK => CountersTrue
  <2> SUFFICES ASSUME CountInv, ClosedOK PROVE CountersTrue
    OBVIOUS
  <2>1. ASSUME NEW k \in Jobs
        PROVE  /\ jobs[k].sent_count <= Cardinality(RowsIn(k, "sent"))
               /\ Cardinality(RowsIn(k, "sent"))
                    <= jobs[k].sent_count + AtWork(k, "incrSent") + faults
    <3>1. SentOK(k) /\ jobs[k].sent_count \in Nat /\ AtWork(k, "incrSent") \in {0, 1}
      BY DEF CountInv, RowInv, Typed, TypeOK, JobRow, AtWork
    <3>2. Cardinality(RowsIn(k, "sent")) \in Nat
      BY ONLY <3>1, FS_CardinalityType DEF SentOK
    <3> HIDE DEF RowsIn, AtWork
    <3> QED BY ONLY <3>1, <3>2 DEF SentOK
  <2>2. ASSUME NEW k \in Jobs, jobs[k].status = "completed"
        PROVE  Cardinality(RowsIn(k, "dlq")) <= faults
    <3>1. DeadOK(k) /\ jobs[k].dlq_count = 0 /\ faults \in Nat
      BY <2>2, BlastAssumption DEF CountInv, ClosedOK, RowInv, Typed, TypeOK
    <3>2. AtWork(k, "incrDlq") = 0
      BY <2>2 DEF ClosedOK, AtWork, Finished
    <3> QED BY ONLY <3>1, <3>2 DEF DeadOK
  <2> QED BY <2>1, <2>2 DEF CountersTrue, SentCountMatches, CompletedHidesNoDlq
<1>4. Spec => [](CountInv /\ ClosedOK)
  BY <1>1, <1>2, ClosedOKNext, PTL DEF Spec
<1> QED BY <1>3, <1>4, PTL
=============================================================================
