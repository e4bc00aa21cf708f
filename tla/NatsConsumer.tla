------------------------------ MODULE NatsConsumer ------------------------------
(* Send commands from NATS JetStream (src/nats/consumer.rs): a durable pull   *)
(* consumer with explicit acknowledgement delivers each command at most       *)
(* MaxDeliver times; every delivery is worked on by a task of its own, which  *)
(* sends, publishes the result and acknowledges, or asks for a redelivery.    *)
(* Commands of one session are not ordered.                                   *)
EXTENDS Naturals

CONSTANTS
    Commands,
    MaxDeliver,             \* max_deliver
    MaxCrashes, MaxFlaps,   \* bounds: crashes; session losses and stream errors
    MaxFaults               \* bound: lost acknowledgements and late deliveries

ASSUME NatsAssumption ==
    /\ MaxDeliver \in Nat \ {0}
    /\ MaxCrashes \in Nat /\ MaxFlaps \in Nat /\ MaxFaults \in Nat

VARIABLES
    valid,      \* commands that parse
    state,      \* JetStream's view: ready, pending, acked
    deliveries,
    task,       \* next step of the task of each delivery
    sent,       \* how often the message left
    results,    \* send_result events published
    excused,    \* commands with a fault that may duplicate them
    up, open, running,  \* session has a live client; message stream; process
    crashes, flaps, faults

queue   == <<valid, state, deliveries>>
outcome == <<sent, results, excused>>
world   == <<up, open, running>>
bounds  == <<crashes, flaps, faults>>
vars    == <<queue, task, outcome, world, bounds>>

Deliveries == 1..MaxDeliver
Steps == {"none", "start", "send", "publish", "ack", "nak", "done"}
TaskTo(c, n, from, to) == task[c][n] = from /\ task' = [task EXCEPT ![c][n] = to]
Working(c) == \E n \in Deliveries : task[c][n] \notin {"none", "done"}

-----------------------------------------------------------------------------
(* start_consumer *)

deliver(c) ==
    /\ running /\ open /\ state[c] = "ready" /\ deliveries[c] < MaxDeliver
    /\ deliveries' = [deliveries EXCEPT ![c] = @ + 1]
    /\ state' = [state EXCEPT ![c] = "pending"]
    /\ task' = [task EXCEPT ![c][deliveries[c] + 1] = "start"]
    /\ UNCHANGED <<valid, outcome, world, bounds>>

\* Mutant: an error of the stream ends the consumer.
reconnect_never == running /\ ~open /\ UNCHANGED vars

\* After an error the messages are asked for again.
reconnect ==
    /\ running /\ ~open /\ open' = TRUE
    /\ UNCHANGED <<queue, task, outcome, up, running, bounds>>

\* process_outbound_command: an invalid command and a session without a live
\* client are failures like any other.
process_outbound_command(c, n) ==
    /\ TaskTo(c, n, "start", IF valid[c] /\ up THEN "send" ELSE "nak")
    /\ UNCHANGED <<queue, outcome, world, bounds>>

\* The message is sent, or it is not, or it is and an error is returned.
dispatch_command(c, n) ==
    /\ \/ /\ TaskTo(c, n, "send", "publish")
          /\ sent' = [sent EXCEPT ![c] = @ + 1] /\ UNCHANGED <<excused, faults>>
       \/ TaskTo(c, n, "send", "nak") /\ UNCHANGED <<sent, excused, faults>>
       \/ /\ TaskTo(c, n, "send", "nak")
          /\ faults < MaxFaults /\ faults' = faults + 1
          /\ sent' = [sent EXCEPT ![c] = @ + 1] /\ excused' = excused \cup {c}
    /\ UNCHANGED <<queue, results, world, crashes, flaps>>

\* Mutant: a result that cannot be published is a failure.
publish_must_succeed(c, n) ==
    /\ \/ TaskTo(c, n, "publish", "ack") /\ results' = [results EXCEPT ![c] = @ + 1]
       \/ TaskTo(c, n, "publish", "nak") /\ UNCHANGED results
    /\ UNCHANGED <<queue, sent, excused, world, bounds>>

\* publish_event only logs a failure.
publish_event(c, n) ==
    /\ TaskTo(c, n, "publish", "ack")
    /\ results' = [results EXCEPT ![c] = @ + 1] \/ UNCHANGED results
    /\ UNCHANGED <<queue, sent, excused, world, bounds>>

\* An acknowledgement may get lost, and settles whatever delivery is the last.
Acknowledge(c, to) ==
    \/ /\ state' = [state EXCEPT ![c] = IF @ = "pending" \/ to = "acked" THEN to ELSE @]
       /\ UNCHANGED <<excused, faults>>
    \/ /\ faults < MaxFaults /\ faults' = faults + 1
       /\ excused' = excused \cup {c} /\ UNCHANGED state

ack(c, n) ==
    /\ TaskTo(c, n, "ack", "done") /\ Acknowledge(c, "acked")
    /\ UNCHANGED <<valid, deliveries, sent, results, world, crashes, flaps>>

nak(c, n) ==
    /\ TaskTo(c, n, "nak", "done") /\ Acknowledge(c, "ready")
    /\ UNCHANGED <<valid, deliveries, sent, results, world, crashes, flaps>>

-----------------------------------------------------------------------------
(* JetStream, the session, the process *)

\* ack_wait has passed: no task is left, or one takes longer than that.
AckWaitExpires(c) ==
    /\ state[c] = "pending" /\ state' = [state EXCEPT ![c] = "ready"]
    /\ IF Working(c) THEN /\ faults < MaxFaults /\ faults' = faults + 1
                          /\ excused' = excused \cup {c}
       ELSE UNCHANGED <<faults, excused>>
    /\ UNCHANGED <<valid, deliveries, task, sent, results, world, crashes, flaps>>

Flap ==
    /\ flaps < MaxFlaps /\ flaps' = flaps + 1
    /\ \/ up /\ up' = FALSE /\ UNCHANGED open
       \/ open /\ open' = FALSE /\ UNCHANGED up
    /\ UNCHANGED <<queue, task, outcome, running, crashes, faults>>
SessionConnects ==
    /\ running /\ ~up /\ up' = TRUE
    /\ UNCHANGED <<queue, task, outcome, open, running, bounds>>

\* Commands stay in the stream; sessions come back some time after the restart.
Crash ==
    /\ running /\ crashes < MaxCrashes /\ crashes' = crashes + 1
    /\ running' = FALSE /\ up' = FALSE /\ open' = FALSE
    /\ excused' = excused \cup {c \in Commands : Working(c)}
    /\ task' = [c \in Commands |-> [n \in Deliveries |->
                  IF task[c][n] = "none" THEN "none" ELSE "done"]]
    /\ UNCHANGED <<queue, sent, results, flaps, faults>>
start_consumer ==
    /\ ~running /\ running' = TRUE /\ open' = TRUE
    /\ UNCHANGED <<queue, task, outcome, up, bounds>>

-----------------------------------------------------------------------------

Init ==
    /\ valid \in [Commands -> BOOLEAN]
    /\ state = [c \in Commands |-> "ready"] /\ deliveries = [c \in Commands |-> 0]
    /\ task = [c \in Commands |-> [n \in Deliveries |-> "none"]]
    /\ sent = [c \in Commands |-> 0] /\ results = [c \in Commands |-> 0] /\ excused = {}
    /\ up \in BOOLEAN /\ open = TRUE /\ running = TRUE
    /\ crashes = 0 /\ flaps = 0 /\ faults = 0

TaskStep(c, n) ==
    \/ process_outbound_command(c, n) \/ dispatch_command(c, n)
    \/ publish_event(c, n) \/ ack(c, n) \/ nak(c, n)
Next ==
    \/ \E c \in Commands : deliver(c) \/ AckWaitExpires(c)
    \/ \E c \in Commands, n \in Deliveries : TaskStep(c, n)
    \/ reconnect \/ Flap \/ SessionConnects \/ Crash \/ start_consumer

Spec == Init /\ [][Next]_vars
\* Tasks run on, JetStream delivers and times out, the supervisor restarts the
\* process, the session comes back.
LiveSpec ==
    /\ Spec
    /\ WF_vars(reconnect) /\ WF_vars(start_consumer) /\ WF_vars(SessionConnects)
    /\ \A c \in Commands : WF_vars(deliver(c)) /\ WF_vars(AckWaitExpires(c))
    /\ \A c \in Commands, n \in Deliveries : WF_vars(TaskStep(c, n))

-----------------------------------------------------------------------------

TypeOK ==
    /\ valid \in [Commands -> BOOLEAN] /\ state \in [Commands -> {"ready", "pending", "acked"}]
    /\ deliveries \in [Commands -> 0..MaxDeliver]
    /\ task \in [Commands -> [Deliveries -> Steps]]
    /\ sent \in [Commands -> Nat] /\ results \in [Commands -> Nat] /\ excused \subseteq Commands
    /\ up \in BOOLEAN /\ open \in BOOLEAN /\ running \in BOOLEAN
    /\ crashes \in 0..MaxCrashes /\ flaps \in 0..MaxFlaps /\ faults \in 0..MaxFaults

\* A published result tells of a message that was sent, and none is told twice.
ResultIsTrue == \A c \in Commands : results[c] <= sent[c]

\* A command is taken off the queue for good only when its message was sent.
AckedIsSent == \A c \in Commands : state[c] = "acked" => sent[c] > 0

\* A message goes out at most once per delivery, whatever crashes and gets lost.
BoundedSends == \A c \in Commands : sent[c] <= deliveries[c]

\* It goes out twice only when an acknowledgement was lost, a task took longer
\* than ack_wait, a send's outcome was unclear or the process crashed.
DuplicatesAreExcused == \A c \in Commands : sent[c] > 1 => c \in excused

\* What the queue and the results say of a command is what became of its message,
\* which is repeated only for the reasons at-least-once delivery has.
CommandsAreTrue ==
    TypeOK /\ ResultIsTrue /\ AckedIsSent /\ BoundedSends /\ DuplicatesAreExcused

\* Nothing is left lying: each command is sent and acknowledged, or all of its
\* deliveries are used up.
EverySettles ==
    \A c \in Commands : <>(state[c] = "acked" \/ deliveries[c] = MaxDeliver)
=============================================================================
