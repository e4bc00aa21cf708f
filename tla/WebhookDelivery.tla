-------------------------- MODULE WebhookDelivery --------------------------
(***************************************************************************)
(* Delivery of events to webhooks: one spawned task per event and webhook, *)
(* its attempts, the circuit breaker that all deliveries to one URL share, *)
(* the dead letters in memory (a bounded ring per session, open to replay) *)
(* and in the table webhook_dlq (src/state.rs, src/handlers/webhooks.rs,   *)
(* src/db/webhook_dlq.rs).  Tasks run in parallel; each step below is what *)
(* one of them does between two awaits, or to one shared map.              *)
(***************************************************************************)
EXTENDS Naturals, Sequences, SequencesExt

CONSTANTS
    Events, Hooks, Sessions, Urls,
    SessionOf, UrlOf,   \* of each webhook
    MaxAttempts,        \* WEBHOOK_RETRY_MAX_ATTEMPTS
    RetryOn4xx,         \* WEBHOOK_RETRY_ON_4XX
    Capacity,           \* WEBHOOK_DLQ_CAPACITY
    OpenThreshold, HardDisableThreshold,
    MaxFaults           \* bound: failed inserts, deleted sessions, crashes

ASSUME WebhookAssumption ==
    /\ SessionOf \in [Hooks -> Sessions] /\ UrlOf \in [Hooks -> Urls]
    /\ MaxAttempts \in Nat \ {0} /\ Capacity \in Nat \ {0} /\ MaxFaults \in Nat
    /\ RetryOn4xx \in BOOLEAN
    /\ OpenThreshold \in Nat \ {0} /\ HardDisableThreshold \in Nat \ {0}

VARIABLES
    registered, \* webhooks the dispatcher knows, enabled
    circuit,    \* webhook_circuits: state of each URL
    pc,         \* task of each delivery <<event, webhook>>
    attempt,    \* attempts it has made
    ring,       \* webhook_dlq of each session, oldest first
    inserting,  \* dead letters on their way into the table
    table,      \* table webhook_dlq: deliveries with a row
    deleting,   \* sessions whose rows are still to be deleted
    deleted,    \* sessions whose DELETE was answered
    received,   \* history: deliveries the receiver answered with success
    outcomes,   \* history: outcomes recorded for a URL, the last few
    gone,       \* history: dead letters evicted, purged or lost in a crash
    unrecorded, \* history: inserts that failed, or never ran
    faults      \* bounded counter

tasks == <<pc, attempt>>
dlq   == <<ring, inserting, table>>
admin == <<deleting, deleted>>
ghost == <<received, outcomes, gone, unrecorded>>
vars  == <<registered, circuit, tasks, dlq, admin, ghost, faults>>

-----------------------------------------------------------------------------

Deliveries == Events \X Hooks
Url(d)     == UrlOf[d[2]]
Session(d) == SessionOf[d[2]]

Pc == {"none", "skipped", "sending", "failed", "disable", "push", "delivered",
       "dead", "replay"}
Closed == [failures |-> 0, opened |-> "no"]

GoTo(d, to) == pc' = [pc EXCEPT ![d] = to]
webhook_circuit_allows(u) == circuit[u].opened # "open"

LastOutcomes(s, x) == LET t == Append(s, x)
                      IN  IF Len(t) > HardDisableThreshold THEN Tail(t) ELSE t
Recorded(u, x) == outcomes' = [outcomes EXCEPT ![u] = LastOutcomes(@, x)]

\* The oldest entry makes room for this one.
webhook_dlq_push(d) ==
    LET s == Session(d)
        full == Len(ring[s]) >= Capacity
    IN  /\ ring' = [ring EXCEPT ![s] = Append(IF full THEN Tail(@) ELSE @, d)]
        /\ gone' = (gone \ {d}) \cup IF full THEN {Head(ring[s])} ELSE {}

-----------------------------------------------------------------------------
(* Delivery *)

\* An event of session s: one task for every webhook that wants it and whose
\* circuit is not open; for the others nothing happens.
broadcast_to_webhooks(e, s) ==
    /\ \A h \in Hooks : pc[<<e, h>>] = "none"
    /\ \E h \in registered : SessionOf[h] = s
    /\ pc' = [d \in Deliveries |->
                IF d[1] = e /\ d[2] \in registered /\ Session(d) = s
                THEN IF webhook_circuit_allows(Url(d)) THEN "sending" ELSE "skipped"
                ELSE pc[d]]
    /\ UNCHANGED <<registered, circuit, attempt, dlq, admin, ghost, faults>>

\* Mutant: a success that leaves the count alone.
webhook_record_success_keeps(u) ==
    circuit' = [circuit EXCEPT ![u].opened = "no"]

webhook_record_success(u) == circuit' = [circuit EXCEPT ![u] = Closed]

\* Mutant: the delivery is dead-lettered although it succeeded.
attempt_succeeds_falls_through(d) ==
    /\ pc[d] = "sending"
    /\ attempt' = [attempt EXCEPT ![d] = 0]
    /\ webhook_record_success(Url(d))
    /\ Recorded(Url(d), "ok")
    /\ received' = received \cup {d}
    /\ GoTo(d, "push")
    /\ UNCHANGED <<registered, dlq, admin, gone, unrecorded, faults>>

attempt_succeeds(d) ==
    /\ pc[d] = "sending"
    /\ attempt' = [attempt EXCEPT ![d] = 0]
    /\ webhook_record_success(Url(d))
    /\ Recorded(Url(d), "ok")
    /\ received' = received \cup {d}
    /\ GoTo(d, "delivered")
    /\ UNCHANGED <<registered, dlq, admin, gone, unrecorded, faults>>

\* Mutant: the count starts again after the last attempt.
attempt_fails_uncounted(d) ==
    /\ pc[d] = "sending"
    /\ \/ attempt' = [attempt EXCEPT ![d] = (@ + 1) % MaxAttempts] /\ UNCHANGED pc
       \/ ~RetryOn4xx /\ attempt' = [attempt EXCEPT ![d] = 0] /\ GoTo(d, "failed")
    /\ UNCHANGED <<registered, circuit, dlq, admin, ghost, faults>>

\* An attempt fails: another one, unless it was the last or a 4xx that is final.
attempt_fails(d) ==
    /\ pc[d] = "sending"
    /\ \/ /\ attempt[d] + 1 < MaxAttempts
          /\ attempt' = [attempt EXCEPT ![d] = @ + 1]
          /\ UNCHANGED pc
       \/ /\ attempt[d] + 1 = MaxAttempts \/ ~RetryOn4xx
          /\ attempt' = [attempt EXCEPT ![d] = 0]
          /\ GoTo(d, "failed")
    /\ UNCHANGED <<registered, circuit, dlq, admin, ghost, faults>>

\* Counts above the hard threshold do not differ: the counter stops there.
webhook_record_failure(d) ==
    LET u == Url(d)
        n == IF circuit[u].failures < HardDisableThreshold
             THEN circuit[u].failures + 1 ELSE HardDisableThreshold
        trips == n >= OpenThreshold /\ circuit[u].opened = "no"
    IN  /\ pc[d] = "failed"
        /\ circuit' = [circuit EXCEPT ![u] =
                [failures |-> n, opened |-> IF trips /\ n < HardDisableThreshold
                                            THEN "open" ELSE @.opened]]
        /\ Recorded(u, "fail")
        /\ GoTo(d, IF n >= HardDisableThreshold THEN "disable" ELSE "push")
        /\ UNCHANGED <<received, registered, attempt, dlq, admin, gone, unrecorded, faults>>

\* disable_webhook_by_url has returned, with or without an error.
purge_webhook_by_url(d) ==
    /\ pc[d] = "disable"
    /\ registered' = {h \in registered : UrlOf[h] # Url(d)}
    /\ circuit' = [circuit EXCEPT ![Url(d)] = Closed]
    /\ GoTo(d, "push")
    /\ UNCHANGED <<attempt, dlq, admin, ghost, faults>>

dead_letter(d) ==
    /\ pc[d] = "push"
    /\ webhook_dlq_push(d)
    /\ inserting' = inserting \cup {d}
    /\ GoTo(d, "dead")
    /\ UNCHANGED <<received, registered, circuit, attempt, table, admin, outcomes,
                   unrecorded, faults>>

record_failure(d) ==
    /\ d \in inserting
    /\ inserting' = inserting \ {d}
    /\ \/ table' = table \cup {d} /\ UNCHANGED <<unrecorded, faults>>
       \/ /\ faults < MaxFaults
          /\ faults' = faults + 1
          /\ unrecorded' = unrecorded \cup {d}
          /\ UNCHANGED table
    /\ UNCHANGED <<received, registered, circuit, tasks, ring, admin, outcomes, gone>>

-----------------------------------------------------------------------------
(* Operators' requests *)

\* Mutant: the entry stays in the ring while it is replayed.
webhook_dlq_take_keeps(d) ==
    /\ pc[d] = "dead" /\ Contains(ring[Session(d)], d)
    /\ GoTo(d, "replay")
    /\ UNCHANGED <<registered, circuit, attempt, dlq, admin, ghost, faults>>

\* replay_webhook_dlq_entry takes the entry out of the ring first ...
webhook_dlq_take(d) ==
    /\ pc[d] = "dead"
    /\ \E pos \in 1..Len(ring[Session(d)]) :
         /\ ring[Session(d)][pos] = d
         /\ \A i \in 1..(pos - 1) : ring[Session(d)][i] # d
         /\ ring' = [ring EXCEPT ![Session(d)] = RemoveAt(@, pos)]
    /\ GoTo(d, "replay")
    /\ UNCHANGED <<registered, circuit, attempt, inserting, table, admin, ghost, faults>>

\* ... and puts it back, as the newest, when the circuit is open.
replay(d) ==
    /\ pc[d] = "replay"
    /\ IF webhook_circuit_allows(Url(d))
       THEN GoTo(d, "sending") /\ UNCHANGED <<ring, gone>>
       ELSE GoTo(d, "dead") /\ webhook_dlq_push(d)
    /\ UNCHANGED <<received, registered, circuit, attempt, inserting, table, admin, outcomes,
                   unrecorded, faults>>

reenable_all_open_circuits ==
    /\ \E u \in Urls : circuit[u].opened = "open"
    /\ circuit' = [u \in Urls |-> IF circuit[u].opened = "open" THEN Closed ELSE circuit[u]]
    /\ UNCHANGED <<registered, tasks, dlq, admin, ghost, faults>>

\* register_webhook, or the reload after a restart: see WebhookRegistry.
register_webhook(h) ==
    /\ h \notin registered
    /\ SessionOf[h] \notin deleting \cup deleted
    /\ registered' = registered \cup {h}
    /\ UNCHANGED <<circuit, tasks, dlq, admin, ghost, faults>>

\* delete_session: registrations and ring go at once, the rows after an await.
purge_webhooks_for_session(s) ==
    /\ faults < MaxFaults /\ faults' = faults + 1
    /\ s \notin deleting \cup deleted
    /\ registered' = {h \in registered : SessionOf[h] # s}
    /\ gone' = gone \cup {d \in Deliveries : Contains(ring[s], d)}
    /\ ring' = [ring EXCEPT ![s] = << >>]
    /\ deleting' = deleting \cup {s}
    /\ UNCHANGED <<received, circuit, tasks, inserting, table, deleted, outcomes, unrecorded>>
purge_dependents(s) ==
    /\ s \in deleting
    /\ table' = {d \in table : Session(d) # s}
    /\ deleting' = deleting \ {s}
    /\ deleted' = deleted \cup {s}
    /\ UNCHANGED <<registered, circuit, tasks, ring, inserting, ghost, faults>>

CooldownEnds(u) ==
    /\ circuit[u].opened = "open"
    /\ circuit' = [circuit EXCEPT ![u].opened = "over"]
    /\ UNCHANGED <<registered, tasks, dlq, admin, ghost, faults>>

\* Memory is lost: circuits, rings, tasks, requests.
Crash ==
    LET lost == {d \in Deliveries : pc[d] \notin {"none", "skipped", "delivered"}}
    IN  /\ faults < MaxFaults /\ faults' = faults + 1
        /\ circuit' = [u \in Urls |-> Closed]
        /\ pc' = [d \in Deliveries |-> IF d \in lost THEN "dead" ELSE pc[d]]
        /\ attempt' = [d \in Deliveries |-> 0]
        /\ ring' = [s \in Sessions |-> << >>]
        /\ inserting' = {}
        /\ outcomes' = [u \in Urls |-> << >>]
        /\ gone' = gone \cup lost
        /\ unrecorded' = unrecorded \cup (lost \ table)
        /\ deleting' = {}
        /\ UNCHANGED <<received, registered, table, deleted>>

-----------------------------------------------------------------------------

Init ==
    /\ registered = Hooks
    /\ circuit = [u \in Urls |-> Closed]
    /\ pc = [d \in Deliveries |-> "none"]
    /\ attempt = [d \in Deliveries |-> 0]
    /\ ring = [s \in Sessions |-> << >>]
    /\ inserting = {} /\ table = {}
    /\ deleting = {} /\ deleted = {}
    /\ outcomes = [u \in Urls |-> << >>]
    /\ received = {} /\ gone = {} /\ unrecorded = {}
    /\ faults = 0

TaskStep(d) ==
    \/ attempt_succeeds(d) \/ attempt_fails(d) \/ webhook_record_failure(d)
    \/ purge_webhook_by_url(d) \/ dead_letter(d) \/ replay(d)

Next ==
    \/ \E e \in Events, s \in Sessions : broadcast_to_webhooks(e, s)
    \/ \E d \in Deliveries : TaskStep(d) \/ record_failure(d) \/ webhook_dlq_take(d)
    \/ \E u \in Urls : CooldownEnds(u)
    \/ \E h \in Hooks : register_webhook(h)
    \/ \E s \in Sessions : purge_webhooks_for_session(s) \/ purge_dependents(s)
    \/ reenable_all_open_circuits
    \/ Crash

Spec == Init /\ [][Next]_vars
\* Tasks are tokio tasks, and the HTTP client gives up after its timeout.
LiveSpec == Spec /\ \A d \in Deliveries : WF_vars(TaskStep(d)) /\ WF_vars(record_failure(d))

-----------------------------------------------------------------------------

TypeOK ==
    /\ registered \subseteq Hooks
    /\ circuit \in [Urls -> [failures : 0..HardDisableThreshold, opened : {"no", "open", "over"}]]
    /\ pc \in [Deliveries -> Pc]
    /\ attempt \in [Deliveries -> 0..(MaxAttempts - 1)]
    /\ ring \in [Sessions -> Seq(Deliveries)]
    /\ inserting \cup table \cup received \cup gone \cup unrecorded \subseteq Deliveries
    /\ deleting \cup deleted \subseteq Sessions
    /\ faults \in 0..MaxFaults

\* A dead letter is in its session's ring exactly once until it is replayed,
\* evicted, purged or lost with the process; nothing else is in a ring, so two
\* operators who replay the same entry deliver it once.
OneCopy ==
    \A s \in Sessions :
      /\ \A i, j \in 1..Len(ring[s]) : ring[s][i] = ring[s][j] => i = j
      /\ \A d \in Deliveries :
           Contains(ring[s], d) <=> s = Session(d) /\ pc[d] = "dead" /\ d \notin gone

\* The memory of a session's dead letters stays within WEBHOOK_DLQ_CAPACITY,
\* however pushes and replays that are put back interleave.
RingIsBounded == \A s \in Sessions : Len(ring[s]) <= Capacity

\* A delivery that failed for good has its row in the table, the durable copy,
\* unless the insert failed, or its session was deleted.
DurableCopy ==
    \A d \in Deliveries :
      pc[d] = "dead" /\ Session(d) \notin deleting \cup deleted
      => d \in table \cup inserting \cup unrecorded

\* Nothing that failed for good is forgotten, doubled or kept beyond its bound.
DeadLettersKept == TypeOK /\ OneCopy /\ RingIsBounded /\ DurableCopy

\* CHANGELOG.md:1521-1524: from OpenThreshold consecutive failures on, a failure
\* leaves the circuit of its URL open, also when an earlier cooldown is over.
FailingUrlIsMuted ==
    [][\A d \in Deliveries :
         pc[d] = "failed" /\ pc'[d] = "push" /\ circuit'[Url(d)].failures >= OpenThreshold
         => circuit'[Url(d)].opened = "open"]_vars

\* A URL is disabled for HardDisableThreshold failures in a row, whatever
\* deliveries overlapped: no success lies among the last of its outcomes.
DisablesAfterStreak ==
    [][\A d \in Deliveries :
         pc[d] = "failed" /\ pc'[d] = "disable" =>
           /\ Len(outcomes'[Url(d)]) = HardDisableThreshold
           /\ \A i \in 1..HardDisableThreshold : outcomes'[Url(d)][i] = "fail"]_vars

\* A delivery run ends, the event delivered or dead-lettered, and the write of
\* the dead letter ends too.
TaskEnds ==
    \A d \in Deliveries :
      /\ pc[d] = "sending" ~> pc[d] \in {"delivered", "dead"}
      /\ d \in inserting ~> d \notin inserting

Fate == [d \in Deliveries |->
           CASE d \in received /\ pc[d] # "delivered" -> "resent"
             [] pc[d] = "dead" -> IF d \in gone THEN "lost" ELSE "dead"
             [] pc[d] \in {"none", "skipped", "delivered"} -> pc[d]
             [] OTHER -> "flying"]
Promise == INSTANCE WebhookPromise WITH fate <- Fate

\* An event that was delivered is never sent again, one that was not is dead-
\* lettered, and only a dead letter comes back: by a replay, of one copy.
KeepsPromise == Promise!Spec
=============================================================================
