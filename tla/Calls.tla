--------------------------------- MODULE Calls ---------------------------------
(* Voice calls of a session: the requests that place, accept, reject and end  *)
(* them, the tasks that play audio into them or record the peer, and the      *)
(* three registries of AppState (src/handlers/calls.rs, src/state.rs).  Every *)
(* await is a step boundary.                                                  *)
EXTENDS Naturals, FiniteSets

CONSTANTS
    Calls,      \* call ids
    Requests,   \* requests, each made once
    Mixes,      \* assignments of endpoints to them
    MaxOffers   \* bound: incoming_call events of one call

Placing   == {"ring", "tts", "tts_record", "media_ws"}
Answering == {"accept", "accept_play", "reject"}
Kinds     == Placing \cup Answering \cup {"terminate"}

ASSUME CallsAssumption == Mixes \subseteq [Requests -> Kinds] /\ MaxOffers \in Nat

VARIABLES
    leg,        \* the call itself: none, in or out (ringing), up, over
    offers,     \* incoming_call events of a call
    incoming, active, audio,    \* incoming_calls, active_calls, call_audio_channels
    driver,     \* task that feeds the call and hangs up: none, play, ws, hang, remove, gone
    recording,  \* none, taking, written, lost
    answers,    \* requests that took a call out of incoming
    kind, on, pc    \* endpoint of each request, its call, its next step

registries == <<incoming, active, audio>>
tasks      == <<driver, recording>>
request    == <<kind, on, pc>>
vars       == <<leg, offers, registries, tasks, answers, request>>

Set(f, x, v)      == [f EXCEPT ![x] = v]
Is(r, kinds)      == kind[r] \in kinds
GoTo(r, to)       == pc' = Set(pc, r, to) /\ UNCHANGED <<kind, on>>
Step(r, from, to) == pc[r] = from /\ GoTo(r, to)
Ours              == {"out", "up"}    \* calls a handle of this process keeps up
End(c)            == leg' = IF leg[c] \in Ours \cup {"in"} THEN Set(leg, c, "over") ELSE leg

-----------------------------------------------------------------------------
(* WhatsApp *)

\* handle_event keeps the latest incoming_call event of a call, whatever its
\* action says.
IncomingCall(c) ==
    /\ leg[c] = "none" \/ offers[c] > 0
    /\ offers[c] < MaxOffers /\ offers' = Set(offers, c, offers[c] + 1)
    /\ leg' = IF leg[c] = "none" THEN Set(leg, c, "in") ELSE leg
    /\ incoming' = incoming \cup {c}
    /\ UNCHANGED <<active, audio, tasks, answers, request>>

PeerAnswers(c) ==
    /\ leg[c] = "out" /\ leg' = Set(leg, c, "up")
    /\ UNCHANGED <<offers, registries, tasks, answers, request>>

\* Or the phone stops ringing.
PeerHangsUp(c) ==
    /\ leg[c] \in Ours \cup {"in"} /\ End(c)
    /\ UNCHANGED <<offers, registries, tasks, answers, request>>

-----------------------------------------------------------------------------
(* Requests *)

\* Refused up front: no live client, empty call id, invalid recipient or text.
get_client(r) ==
    /\ Step(r, "start", "done")
    /\ UNCHANGED <<leg, offers, registries, tasks, answers>>

\* Mutant: the entry is read, not removed.
take_reads(r) ==
    LET c == on[r]
    IN  /\ Is(r, Answering) /\ pc[r] = "start"
        /\ IF c \in incoming
           THEN /\ answers' = Set(answers, c, answers[c] + 1)
                /\ GoTo(r, IF Is(r, {"accept_play"}) THEN "prepare"
                           ELSE IF Is(r, {"reject"}) THEN "send" ELSE "dial")
           ELSE GoTo(r, "refused") /\ UNCHANGED answers
        /\ UNCHANGED <<leg, offers, registries, tasks>>

\* accept_call and reject_call take the call out of the registry first.
take(r) ==
    LET c == on[r]
    IN  /\ Is(r, Answering) /\ pc[r] = "start"
        /\ IF c \in incoming
           THEN /\ incoming' = incoming \ {c} /\ answers' = Set(answers, c, answers[c] + 1)
                /\ GoTo(r, IF Is(r, {"accept_play"}) THEN "prepare"
                           ELSE IF Is(r, {"reject"}) THEN "send" ELSE "dial")
           ELSE GoTo(r, "refused") /\ UNCHANGED <<incoming, answers>>
        /\ UNCHANGED <<leg, offers, active, audio, tasks>>

resolve_call_recipient(r) ==
    /\ Is(r, Placing) /\ Step(r, "start", IF Is(r, {"tts", "tts_record"}) THEN "prepare" ELSE "dial")
    /\ UNCHANGED <<leg, offers, registries, tasks, answers>>

\* The audio is speech or a file; a failure ends the request.
generate_tts_pcm(r) ==
    /\ \E to \in {"dial", "done"} : Step(r, "prepare", to)
    /\ UNCHANGED <<leg, offers, registries, tasks, answers>>
decode_url_to_pcm(r) ==
    /\ \E to \in {"dial", "done"} : Step(r, "prepare", to)
    /\ UNCHANGED <<leg, offers, registries, tasks, answers>>

\* start() of a call builder: the call is up, or ringing, before it returns.
dial(r) ==
    /\ pc[r] = "dial"
    /\ \/ \E c \in Calls :
            /\ IF Is(r, Placing) THEN leg[c] = "none" ELSE c = on[r] /\ leg[c] = "in"
            /\ leg' = Set(leg, c, IF Is(r, Placing) THEN "out" ELSE "up")
            /\ on' = Set(on, r, c) /\ pc' = Set(pc, r, "register") /\ UNCHANGED kind
       \/ GoTo(r, "done") /\ UNCHANGED leg
    /\ UNCHANGED <<offers, registries, tasks, answers>>

register(r) ==
    LET c == on[r]
    IN  /\ Step(r, "register", "done")
        /\ active' = active \cup {c}
        /\ audio' = IF Is(r, {"tts", "tts_record"}) THEN audio ELSE audio \cup {c}
        /\ driver' = CASE Is(r, {"tts", "tts_record", "accept_play"}) -> Set(driver, c, "play")
                       [] Is(r, {"media_ws"})                         -> Set(driver, c, "ws")
                       [] OTHER                                       -> driver
        /\ recording' = IF Is(r, {"tts_record"}) THEN Set(recording, c, "taking") ELSE recording
        /\ UNCHANGED <<leg, offers, incoming, answers>>

\* Mutant: the peer is parsed after the entry was removed, and is invalid.
terminate_forgets(r) ==
    /\ Is(r, {"terminate"}) /\ Step(r, "start", "done")
    /\ active' = active \ {on[r]}
    /\ UNCHANGED <<leg, offers, incoming, audio, tasks, answers>>

terminate_call(r) ==
    /\ Is(r, {"terminate"})
    /\ Step(r, "start", IF on[r] \in active THEN "hang" ELSE "send")
    /\ active' = active \ {on[r]}
    /\ UNCHANGED <<leg, offers, incoming, audio, tasks, answers>>

hang_up(r) ==
    \/ /\ Step(r, "hang", "release") /\ End(on[r])
       /\ UNCHANGED <<offers, registries, tasks, answers>>
    \/ /\ Step(r, "release", "done") /\ audio' = audio \ {on[r]}
       /\ UNCHANGED <<leg, offers, incoming, active, tasks, answers>>

\* A reject or terminate stanza, by call id.
send(r) ==
    /\ Step(r, "send", "done")
    /\ End(on[r]) \/ UNCHANGED leg
    /\ UNCHANGED <<offers, registries, tasks, answers>>

-----------------------------------------------------------------------------
(* Tasks of a call *)

\* Mutant: the task of a call that ended early just returns.
audio_returns(c) ==
    /\ driver[c] = "play"
    /\ driver' = Set(driver, c, IF leg[c] = "over" THEN "gone" ELSE "hang")
    /\ UNCHANGED <<leg, offers, registries, recording, answers, request>>

\* All frames are sent, or the engine has closed the channel; the socket's
\* channels close with the call.
audio_ends(c) ==
    /\ driver[c] = "play" \/ (driver[c] = "ws" /\ leg[c] = "over")
    /\ driver' = Set(driver, c, "hang")
    /\ UNCHANGED <<leg, offers, registries, recording, answers, request>>
socket_closes(c) ==
    /\ driver[c] = "ws" /\ driver' = Set(driver, c, "hang")
    /\ UNCHANGED <<leg, offers, registries, recording, answers, request>>
\* terminate() of the task's own handle, then the registries.
ends(c) ==
    \/ /\ driver[c] = "hang" /\ driver' = Set(driver, c, "remove")
       /\ End(c) /\ UNCHANGED <<offers, registries, recording, answers, request>>
    \/ /\ driver[c] = "remove" /\ driver' = Set(driver, c, "gone")
       /\ active' = active \ {c} /\ audio' = audio \ {c}
       /\ UNCHANGED <<leg, offers, incoming, recording, answers, request>>

\* The sink closes with the call; the recording is written, even an empty one,
\* unless the store fails.
record_peer_task(c, stored) ==
    /\ recording[c] = "taking" /\ leg[c] = "over"
    /\ recording' = Set(recording, c, IF stored THEN "written" ELSE "lost")
    /\ UNCHANGED <<leg, offers, registries, driver, answers, request>>

-----------------------------------------------------------------------------

Init ==
    /\ leg = [c \in Calls |-> "none"] /\ offers = [c \in Calls |-> 0]
    /\ incoming = {} /\ active = {} /\ audio = {}
    /\ driver = [c \in Calls |-> "none"] /\ recording = [c \in Calls |-> "none"]
    /\ answers = [c \in Calls |-> 0]
    /\ kind \in Mixes /\ on \in [Requests -> Calls] /\ pc = [r \in Requests |-> "start"]

RequestStep(r) ==
    \/ get_client(r) \/ take(r) \/ resolve_call_recipient(r) \/ generate_tts_pcm(r)
    \/ decode_url_to_pcm(r) \/ dial(r) \/ register(r) \/ terminate_call(r) \/ hang_up(r) \/ send(r)
TaskStep(c) == audio_ends(c) \/ ends(c)
Record(c)   == \E stored \in BOOLEAN : record_peer_task(c, stored)

Next ==
    \/ \E r \in Requests : RequestStep(r)
    \/ \E c \in Calls :
         \/ IncomingCall(c) \/ PeerAnswers(c) \/ PeerHangsUp(c)
         \/ TaskStep(c) \/ socket_closes(c) \/ Record(c)

Spec == Init /\ [][Next]_vars
\* Requests and tasks run on; peers, callers and sockets may never act.
LiveSpec ==
    /\ Spec
    /\ \A r \in Requests : WF_vars(RequestStep(r))
    /\ \A c \in Calls : WF_vars(TaskStep(c)) /\ WF_vars(Record(c))

-----------------------------------------------------------------------------

TypeOK ==
    /\ leg \in [Calls -> {"none", "in", "out", "up", "over"}]
    /\ offers \in [Calls -> 0..MaxOffers] /\ answers \in [Calls -> Nat]
    /\ incoming \subseteq Calls /\ active \subseteq Calls /\ audio \subseteq Calls
    /\ driver \in [Calls -> {"none", "play", "ws", "hang", "remove", "gone"}]
    /\ recording \in [Calls -> {"none", "taking", "written", "lost"}]
    /\ kind \in Mixes /\ on \in [Requests -> Calls]
    /\ pc \in [Requests -> {"start", "refused", "prepare", "dial", "register", "hang",
                            "release", "send", "done"}]

\* Of the requests that race for an incoming call one gets it: accept and reject
\* never both act on the same offer.
AnsweredOnce == \A c \in Calls : answers[c] + (IF c \in incoming THEN 1 ELSE 0) <= offers[c]

\* A call this process keeps up can be found, and ended, by its id: it is in
\* active_calls, or a request is at work on exactly that.
LiveIsRegistered ==
    \A c \in Calls : leg[c] \in Ours =>
      \/ c \in active
      \/ \E r \in Requests : on[r] = c /\ pc[r] \in {"register", "hang"}

\* The audio channels of a call do not outlive its entry in active_calls.
AudioHasCall ==
    \A c \in audio : \/ c \in active
                     \/ \E r \in Requests : on[r] = c /\ pc[r] \in {"hang", "release"}

\* The registries and the calls themselves agree, in both directions.
RegistriesAgree == TypeOK /\ LiveIsRegistered /\ AudioHasCall

\* A call that plays audio, or that the peer has ended under its socket, is hung
\* up and leaves both registries.
DrivenCallEnds ==
    \A c \in Calls :
      /\ driver[c] = "play" ~> leg[c] = "over" /\ c \notin active \cup audio
      /\ driver[c] = "ws" /\ leg[c] = "over" ~> c \notin active \cup audio

\* CHANGELOG.md:994-996: a recording is always written when the call ends, also
\* when the peer never spoke.
RecordingAppears ==
    \A c \in Calls : recording[c] = "taking" ~> recording[c] \in {"written", "lost"}

\* What a call has started for itself comes to its end.
CallsEnd == DrivenCallEnds /\ RecordingAppears

=============================================================================
