------------------------------ MODULE ConnectWait ------------------------------
(* The pairing flow as one stream of server-sent events (connect_and_wait in  *)
(* src/handlers/sessions.rs): the stream looks at the session, subscribes to  *)
(* its broadcast channel, and forwards what matters until a terminal event or *)
(* its deadline.  Events set the session's status first and are broadcast     *)
(* after the row is written, so they race the look and the subscription.      *)
EXTENDS Naturals, Sequences, SequencesExt

CONSTANTS
    SkipHistorySync,    \* skip_history_sync of the session
    ChannelCapacity,    \* capacity of the broadcast channel
    MaxEvents           \* bound: events of the client

VARIABLES
    status,     \* what the client is: out, pairing, in
    handling,   \* the event handle_event is at work on
    queue,      \* broadcast events the stream has not received yet
    lagged,     \* the channel dropped some of them
    stream,     \* look, subscribe, listen, closed
    sent,       \* events sent to the caller
    joined,     \* length of history when it subscribed
    history     \* events of the client, in order

session == <<status, handling, history>>
reader  == <<stream, sent, joined>>
vars    == <<session, queue, lagged, reader>>

ClientEvents == {"qr_code", "connected", "disconnected", "offline_sync_completed",
                 "logged_out", "kept"}
Terminal     == {"ready", "error", "timeout"}

-----------------------------------------------------------------------------
(* handle_event *)

Handle(e, from, to) ==
    /\ handling = "none" /\ status \in from /\ Len(history) < MaxEvents
    /\ status' = to /\ handling' = e
    /\ history' = Append(history, e)
    /\ UNCHANGED <<queue, lagged, reader>>

PairingQrCode        == Handle("qr_code", {"pairing"}, "pairing")
Connected            == Handle("connected", {"pairing"}, "in")
Disconnected         == Handle("disconnected", {"in"}, "pairing")
OfflineSyncCompleted == /\ "offline_sync_completed" \notin ToSet(history)
                        /\ Handle("offline_sync_completed", {"in"}, "in")
\* The handler returns early, without a broadcast, unless repeated logouts purge
\* the session; a locked account has a broadcast of its own, not forwarded.
LoggedOut(purge) ==
    IF purge THEN Handle("logged_out", {"pairing", "in"}, "out")
    ELSE Handle("kept", {"pairing", "in"}, "out")

\* Receivers only get what is sent after they subscribed; one that is slow loses
\* the oldest.
broadcast_event ==
    /\ handling # "none" /\ handling' = "none"
    /\ IF stream = "listen" /\ handling # "kept"
       THEN LET full == Len(queue) = ChannelCapacity
            IN  /\ queue' = Append(IF full THEN Tail(queue) ELSE queue, handling)
                /\ lagged' = (lagged \/ full)
       ELSE UNCHANGED <<queue, lagged>>
    /\ UNCHANGED <<status, history, reader>>

-----------------------------------------------------------------------------
(* connect_and_wait *)

Send(es, to) == sent' = sent \o es /\ stream' = to /\ UNCHANGED joined

look ==
    /\ stream = "look"
    /\ IF status = "in" THEN Send(<<"ready">>, "closed") ELSE Send(<< >>, "subscribe")
    /\ UNCHANGED <<session, queue, lagged>>

subscribe_events ==
    /\ stream = "subscribe" /\ stream' = "listen"
    /\ joined' = Len(history)
    /\ UNCHANGED sent
    /\ UNCHANGED <<session, queue, lagged>>

\* Mutant: connected is always the end.
forward_connected_ready(e) ==
    CASE e = "connected"              -> Send(<<"connected", "ready">>, "closed")
      [] e = "offline_sync_completed" -> Send(<<"ready">>, "closed")
      [] e = "logged_out"             -> Send(<<"error">>, "closed")
      [] OTHER                        -> Send(<< >>, "listen")

\* Mutant: a logout is passed over.
forward_passes_logout(e) ==
    CASE e = "qr_code"                -> Send(<<e>>, "listen")
      [] e = "connected"              -> Send(<<e>>, "listen")
      [] e = "offline_sync_completed" -> Send(<<"ready">>, "closed")
      [] OTHER                        -> Send(<< >>, "listen")

forward(e) ==
    CASE e = "qr_code"                -> Send(<<e>>, "listen")
      [] e = "connected"              -> IF SkipHistorySync THEN Send(<<e, "ready">>, "closed")
                                         ELSE Send(<<e>>, "listen")
      [] e = "offline_sync_completed" -> Send(<<"ready">>, "closed")
      [] e = "logged_out"             -> Send(<<"error">>, "closed")
      [] OTHER                        -> Send(<< >>, "listen")

\* A lagged receiver goes on with what is left.
recv ==
    /\ stream = "listen" /\ queue # << >>
    /\ forward(Head(queue))
    /\ queue' = Tail(queue)
    /\ UNCHANGED <<session, lagged>>

deadline ==
    /\ stream = "listen" /\ Send(<<"timeout">>, "closed")
    /\ UNCHANGED <<session, queue, lagged>>

\* Noticed when the next event is to be sent, and without effect on the session.
CallerHangsUp ==
    /\ stream = "listen" /\ Send(<< >>, "closed")
    /\ UNCHANGED <<session, queue, lagged>>

-----------------------------------------------------------------------------

\* The connect is under way, or was before.
Init ==
    /\ status \in {"pairing", "in"} /\ handling = "none" /\ history = << >>
    /\ queue = << >> /\ lagged = FALSE
    /\ stream = "look" /\ sent = << >> /\ joined = 0

Next ==
    \/ PairingQrCode \/ Connected \/ Disconnected \/ OfflineSyncCompleted
    \/ \E purge \in BOOLEAN : LoggedOut(purge)
    \/ broadcast_event \/ look \/ subscribe_events \/ recv \/ deadline \/ CallerHangsUp

Spec == Init /\ [][Next]_vars

-----------------------------------------------------------------------------

TypeOK ==
    /\ status \in {"out", "pairing", "in"} /\ handling \in ClientEvents \cup {"none"}
    /\ history \in Seq(ClientEvents) /\ queue \in Seq(ClientEvents)
    /\ Len(queue) <= ChannelCapacity /\ lagged \in BOOLEAN
    /\ stream \in {"look", "subscribe", "listen", "closed"}
    /\ sent \in Seq(ClientEvents \cup Terminal) /\ joined \in 0..Len(history)

Shown == {i \in DOMAIN sent : sent[i] \notin Terminal}

\* What the caller got is what happened, in that order, gaps apart: a code it
\* shows is never older than a connected it has already seen.
ForwardsInOrder ==
    \E f \in [Shown -> 1..Len(history)] :   \* sent[i] is the f[i]-th event
        /\ \A i \in Shown : sent[i] = history[f[i]]
        /\ \A i, j \in Shown : i < j => f[i] < f[j]

\* A caller that is told `ready` by a stream that saw the pairing has its history
\* synced, unless the session skips that.
ReadyIsReady ==
    Contains(sent, "ready") /\ Len(sent) > 1 /\ ~SkipHistorySync
    => "offline_sync_completed" \in ToSet(history)

\* sessions.rs:510-511: timeout is sent only if no terminal state was reached
\* in time. What happened before the stream subscribed, what it has not received
\* yet, and a logout that keeps the session are not seen.
Final == {IF SkipHistorySync THEN "connected" ELSE "offline_sync_completed", "logged_out"}
TimeoutIsTimeout ==
    [][~Contains(sent, "timeout") /\ Contains(sent', "timeout")
       => \/ \A i \in (joined + 1)..Len(history) : history[i] \notin Final
          \/ handling # "none" \/ queue # << >> \/ lagged]_vars
=============================================================================
