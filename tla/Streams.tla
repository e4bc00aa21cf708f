--------------------------------- MODULE Streams ---------------------------------
(* Three flows with a reader or a worker at the far end that may be late or    *)
(* gone: commands from NATS (NatsConsumer), the tail of the event ring         *)
(* (EventTail) and the pairing stream (ConnectWait).  They share no state, so  *)
(* a behaviour is one of one flow, and the other two keep their first state.   *)
EXTENDS NatsConsumer

CONSTANTS
    Pushers, RingSize, Backlog, Capacity, TailEvents, MaxTime,
    SkipHistorySync, ChannelCapacity, WaitEvents

\* The ring, the backlog and the channels have room, and there is time for an event.
ASSUME StreamsAssumption ==
    /\ RingSize \in Nat \ {0} /\ Backlog \in Nat \ {0} /\ Capacity \in Nat
    /\ TailEvents \in Nat \ {0} /\ MaxTime \in Nat \ {0}
    /\ SkipHistorySync \in BOOLEAN /\ ChannelCapacity \in Nat \ {0} /\ WaitEvents \in Nat

VARIABLES
    flow,       \* the flow of this behaviour
    now, stamp, ring, pushed, unsorted, pc, pend, queued, last_at, since, out, connected,
    status, handling, heard, lagged, stream, told, joined, history

Tailing == INSTANCE EventTail WITH MaxEvents <- TailEvents
Waiting == INSTANCE ConnectWait
             WITH MaxEvents <- WaitEvents, sent <- told, queue <- heard

Of(f, A) == flow = f /\ A
tailVars == <<now, stamp, ring, pushed, unsorted, pc, pend, queued, last_at, since, out, connected>>
waitVars == <<status, handling, heard, lagged, stream, told, joined, history>>
all == <<flow, vars, tailVars, waitVars>>

FlowsInit ==
    /\ flow \in {"commands", "tail", "wait"}
    /\ Init /\ Tailing!Init /\ Waiting!Init
    /\ flow /= "commands" => up /\ valid = [c \in Commands |-> TRUE]
    /\ flow /= "wait" => status = "in"

FlowsNext ==
    \/ Of("commands", Next) /\ UNCHANGED <<flow, tailVars, waitVars>>
    \/ Of("tail", Tailing!Next) /\ UNCHANGED <<flow, vars, waitVars>>
    \/ Of("wait", Waiting!Next) /\ UNCHANGED <<flow, vars, tailVars>>

FlowsSpec == FlowsInit /\ [][FlowsNext]_all

\* The fairness of NatsConsumer!LiveSpec and EventTail!LiveSpec, each for its flow.
FlowsLive ==
    /\ FlowsSpec
    /\ WF_vars(Of("commands", reconnect)) /\ WF_vars(Of("commands", start_consumer))
    /\ WF_vars(Of("commands", SessionConnects))
    /\ \A c \in Commands :
         WF_vars(Of("commands", deliver(c))) /\ WF_vars(Of("commands", AckWaitExpires(c)))
    /\ \A c \in Commands, n \in Deliveries : WF_vars(Of("commands", TaskStep(c, n)))
    /\ WF_tailVars(Of("tail", Tailing!send_backlog))
    /\ WF_tailVars(Of("tail", Tailing!poll)) /\ WF_tailVars(Of("tail", Tailing!send))

-----------------------------------------------------------------------------

\* handlers/events.rs:5-8, 17-20: the client of the event tail sees events in the
\* order of the ring, none twice, and misses none that is still there but for ties,
\* as long as events enter the ring in timestamp order.
TailIsTrue == Tailing!TypeOK /\ Tailing!InOrder /\ Tailing!MissedIsTied

\* The pairing stream shows what happened in that order, gaps apart, and says
\* `ready` only of a session whose history is synced, unless it skips that.
WaitIsTrue == Waiting!TypeOK /\ Waiting!ForwardsInOrder /\ Waiting!ReadyIsReady

\* sessions.rs:510-511: timeout is sent only if no terminal state was reached
\* after the stream had subscribed, as far as it has received the events.
WaitTimeout == Waiting!TimeoutIsTimeout

\* Nothing is left lying or hanging: each command is sent and acknowledged, or its
\* deliveries are used up, across crashes, lost sessions and broken streams; the
\* handler of the tail answers although nobody reads yet, and its task ends when
\* the client is gone.
FlowsEnd ==
    /\ flow = "commands" => EverySettles
    /\ Tailing!HandlerAnswers
    /\ flow = "tail" => Tailing!TailEnds
=============================================================================
