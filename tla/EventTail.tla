------------------------------- MODULE EventTail -------------------------------
(* The ring of recent events (push_event, recent_events in src/state.rs) and   *)
(* one client that follows it over server-sent events (handlers/events.rs).    *)
(* An event gets its timestamp before it gets its place in the ring.           *)
EXTENDS Naturals, Sequences, SequencesExt

CONSTANTS
    Pushers,                \* threads that report events
    RingSize, Backlog, Capacity,  \* 200, 50 and 64 in the code
    MaxEvents, MaxTime      \* bounds: events; milliseconds

VARIABLES
    now, stamp,     \* the clock; the timestamp a pusher holds, 0 for none
    ring, pushed,   \* newest last; number of events so far
    unsorted,       \* history: an event took its place after a later one
    pc,             \* new, backlog, poll, send, done
    pend, queued,   \* events yet to be sent, in the order of the ring; messages in the channel
    last_at, since, \* greatest timestamp sent; first event of the backlog
    out, connected  \* the events sent; the client is there

events == <<now, stamp, ring, pushed, unsorted>>
tail   == <<pc, pend, queued, last_at, since, out, connected>>
vars   == <<events, tail>>

Event(n, at, hit) == [id |-> n, at |-> at, hit |-> hit]
Newest(s, k) == IF Len(s) <= k THEN s ELSE SubSeq(s, Len(s) - k + 1, Len(s))
LatestAt(s)  == IF s = <<>> THEN 0 ELSE s[Len(s)].at
matches(e)   == e.hit

-----------------------------------------------------------------------------

Tick == now < MaxTime /\ now' = now + 1 /\ UNCHANGED <<stamp, ring, pushed, unsorted, tail>>

take_time(p) ==
    /\ stamp[p] = 0 /\ stamp' = [stamp EXCEPT ![p] = now]
    /\ UNCHANGED <<now, ring, pushed, unsorted, tail>>

\* hit: the event passes the client's filter.
push_event(p) ==
    /\ stamp[p] > 0 /\ pushed < MaxEvents /\ pushed' = pushed + 1
    /\ \E hit \in BOOLEAN :
         ring' = Newest(Append(ring, Event(pushed + 1, stamp[p], hit)), RingSize)
    /\ unsorted' = (unsorted \/ LatestAt(ring) > stamp[p])
    /\ stamp' = [stamp EXCEPT ![p] = 0] /\ UNCHANGED <<now, tail>>

recent_events(limit) == Newest(ring, limit)

\* Events are lined up to be sent: the last of them sets last_at.
LineUp(es) ==
    /\ pend' = es
    /\ \/ es = {} /\ UNCHANGED last_at
       \/ \E e \in es : (\A d \in es : d.id <= e.id) /\ last_at' = e.at

connect ==
    /\ pc = "new" /\ pc' = "backlog"
    /\ LineUp({e \in ToSet(recent_events(Backlog)) : matches(e)})
    /\ since' = IF ring = <<>> THEN 1 ELSE recent_events(Backlog)[1].id
    /\ UNCHANGED <<events, queued, out, connected>>

\* Nobody reads the channel before the response is returned.
send_one ==
    /\ queued < Capacity /\ queued' = queued + 1
    /\ \E e \in pend :
         /\ \A d \in pend : e.id <= d.id
         /\ out' = Append(out, e) /\ pend' = pend \ {e}

send_backlog ==
    /\ pc = "backlog"
    /\ IF pend = {} THEN pc' = "poll" /\ UNCHANGED <<pend, queued, out>>
       ELSE send_one /\ UNCHANGED pc
    /\ UNCHANGED <<events, last_at, since, connected>>

Poll(fresh) ==
    /\ pc' = "send" /\ LineUp(fresh)
    /\ UNCHANGED <<events, queued, since, out, connected>>
Stop == pc' = "done" /\ pend' = {} /\ UNCHANGED <<events, queued, last_at, since, out, connected>>

Fresh(k) == {e \in ToSet(recent_events(k)) : e.at > last_at /\ matches(e)}

\* Mutant: only as much as the backlog is looked at.
poll_backlog == pc = "poll" /\ IF connected THEN Poll(Fresh(Backlog)) ELSE Stop
poll == pc = "poll" /\ IF connected THEN Poll(Fresh(RingSize)) ELSE Stop

send ==
    /\ pc = "send"
    /\ \/ pend = {} /\ pc' = "poll" /\ UNCHANGED <<events, pend, queued, last_at, since, out, connected>>
       \/ connected /\ send_one /\ UNCHANGED <<events, pc, last_at, since, connected>>
       \/ ~connected /\ pend # {} /\ Stop

Receive ==
    /\ connected /\ pc \notin {"new", "backlog"} /\ queued > 0 /\ queued' = queued - 1
    /\ UNCHANGED <<events, pc, pend, last_at, since, out, connected>>
Disconnect ==
    /\ connected /\ pc \notin {"new", "backlog"} /\ connected' = FALSE
    /\ UNCHANGED <<events, pc, pend, queued, last_at, since, out>>

-----------------------------------------------------------------------------

Init ==
    /\ now = 1 /\ stamp = [p \in Pushers |-> 0] /\ ring = <<>> /\ pushed = 0
    /\ unsorted = FALSE
    /\ pc = "new" /\ pend = {} /\ queued = 0 /\ last_at = 0 /\ since = 1
    /\ out = <<>> /\ connected = TRUE

Next ==
    \/ Tick \/ \E p \in Pushers : take_time(p) \/ push_event(p)
    \/ connect \/ send_backlog \/ poll \/ send \/ Receive \/ Disconnect

Spec == Init /\ [][Next]_vars
\* The handler and its task run on; the client may stop reading.
LiveSpec == Spec /\ WF_vars(send_backlog) /\ WF_vars(poll) /\ WF_vars(send)

-----------------------------------------------------------------------------

Entry == [id : 1..MaxEvents, at : 1..MaxTime, hit : BOOLEAN]

TypeOK ==
    /\ now \in 1..MaxTime /\ stamp \in [Pushers -> 0..MaxTime]
    /\ ring \in Seq(Entry) /\ Len(ring) <= RingSize /\ pushed \in 0..MaxEvents
    /\ unsorted \in BOOLEAN /\ queued \in 0..Capacity
    /\ pend \in SUBSET Entry /\ out \in Seq(Entry)
    /\ pc \in {"new", "backlog", "poll", "send", "done"} /\ connected \in BOOLEAN
    /\ last_at \in 0..MaxTime /\ since \in 1..MaxEvents

Sent == ToSet(out) \cup pend

\* The client sees events in the order of the ring, and none of them twice, as
\* long as the threads that report them enter the ring in timestamp order.
InOrder == unsorted \/ \A i, j \in DOMAIN out : i < j => out[i].id < out[j].id

\* handlers/events.rs:5-8, 17-20: of the events of the backlog and after it, the
\* task passes over none that is still in the ring, but for those with the
\* timestamp of an earlier event that was sent.
Missed == {e \in ToSet(ring) : matches(e) /\ e.id >= since /\ e.at <= last_at} \ Sent
MissedIsTied ==
    pc \notin {"new", "done"} /\ ~unsorted =>
        \A e \in Missed : \E d \in Sent : d.at = e.at /\ d.id < e.id

\* The backlog fits the channel: the handler answers although nobody reads yet.
HandlerAnswers == pc = "backlog" ~> pc /= "backlog"

\* When the client is gone, the task ends.
TailEnds == ~connected ~> pc = "done"
=============================================================================
