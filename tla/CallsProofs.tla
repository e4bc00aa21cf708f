------------------------------ MODULE CallsProofs ------------------------------
(* The registries of calls, for any number of calls, requests and offers.      *)
EXTENDS Calls, TLAPS

\* Nothing is registered, and no task runs, for a call that was never up or
\* placed; a task forgets a call only after hanging up.
Begun ==
    /\ \A r \in Requests : pc[r] = "register" => leg[on[r]] \in Ours \cup {"over"}
    /\ \A c \in Calls : driver[c] # "none" => leg[c] \in Ours \cup {"over"}
    /\ \A c \in Calls : driver[c] = "remove" => leg[c] = "over"

CallInv == TypeOK /\ AnsweredOnce /\ LiveIsRegistered /\ AudioHasCall /\ Begun

\* What changes of a request: its next step, and, when it places one, its call.
Moves(r, c, to) ==
    /\ pc' \in [Requests -> {"start", "refused", "prepare", "dial", "register", "hang",
                             "release", "send", "done"}]
    /\ on' \in [Requests -> Calls] /\ kind' = kind
    /\ pc'[r] = to /\ on'[r] = c
    /\ \A q \in Requests \ {r} : pc'[q] = pc[q] /\ on'[q] = on[q]

\* A call that is hung up is over, and the others go on.
HangsUp(c) ==
    /\ leg' \in [Calls -> {"none", "in", "out", "up", "over"}]
    /\ leg'[c] \notin Ours /\ (leg[c] # "none" => leg'[c] = "over")
    /\ \A d \in Calls \ {c} : leg'[d] = leg[d]

LEMMA RequestMoves ==
    ASSUME TypeOK, NEW r \in Requests,
           NEW to \in {"start", "refused", "prepare", "dial", "register", "hang",
                       "release", "send", "done"},
           GoTo(r, to)
    PROVE  Moves(r, on[r], to)
BY DEF TypeOK, GoTo, Set, Moves

LEMMA CallHangsUp == ASSUME TypeOK, NEW c \in Calls, End(c) PROVE HangsUp(c)
BY DEF TypeOK, End, HangsUp, Ours, Set

\* A step that touches no registry: it prepares, refuses, or only hangs up.
LEMMA QuietKeeps ==
    ASSUME CallInv, NEW r \in Requests, NEW to, Moves(r, on[r], to),
           \/ pc[r] \in {"start", "prepare", "dial", "send"} /\ to # "register"
           \/ pc[r] = "hang" /\ to = "release" /\ leg'[on[r]] \notin Ours,
           UNCHANGED leg \/ HangsUp(on[r]),
           UNCHANGED <<offers, registries, tasks, answers>>
    PROVE  CallInv'
<1> USE DEF CallInv, Moves, HangsUp, registries, tasks
<1>0. on[r] \in Calls
  BY DEF TypeOK
<1>1. TypeOK'
  BY DEF TypeOK
<1>2. AnsweredOnce'
  BY DEF AnsweredOnce
<1>3. \A c \in Calls : leg'[c] \in Ours => leg[c] \in Ours /\ leg'[c] = leg[c]
  BY <1>0 DEF Ours, TypeOK
<1>4. LiveIsRegistered'
  BY <1>3 DEF LiveIsRegistered
<1>5. AudioHasCall'
  BY DEF AudioHasCall
<1>6. Begun'
  BY <1>0 DEF Begun, Ours, TypeOK
<1> QED
  BY <1>1, <1>2, <1>4, <1>5, <1>6

\* Requests keep calls and registries together.
LEMMA RequestKeeps ==
    ASSUME CallsAssumption, CallInv, NEW r \in Requests, RequestStep(r)
    PROVE  CallInv'
<1> USE DEF CallInv
<1>0. on[r] \in Calls /\ TypeOK
  BY DEF TypeOK
<1>1. CASE get_client(r) \/ resolve_call_recipient(r) \/ generate_tts_pcm(r) \/ decode_url_to_pcm(r)
  <2>1. PICK to \in {"done", "prepare", "dial"} :
          GoTo(r, to) /\ pc[r] \in {"start", "prepare"}
    BY <1>1 DEF get_client, resolve_call_recipient, generate_tts_pcm, decode_url_to_pcm, Step
  <2>2. UNCHANGED <<leg, offers, registries, tasks, answers>>
    BY <1>1 DEF get_client, resolve_call_recipient, generate_tts_pcm, decode_url_to_pcm
  <2>3. Moves(r, on[r], to)
    BY <1>0, <2>1, RequestMoves
  <2> QED
    BY <2>1, <2>2, <2>3, QuietKeeps
<1>2. CASE take(r)
  <2>1. PICK to \in {"prepare", "send", "dial", "refused"} :
          /\ GoTo(r, to) /\ pc[r] = "start"
          /\ IF on[r] \in incoming
             THEN /\ incoming' = incoming \ {on[r]}
                  /\ answers' = Set(answers, on[r], answers[on[r]] + 1)
             ELSE UNCHANGED <<incoming, answers>>
    BY <1>2 DEF take
  <2>2. UNCHANGED <<leg, offers, active, audio, tasks>>
    BY <1>2 DEF take
  <2>3. Moves(r, on[r], to)
    BY <1>0, <2>1, RequestMoves
  <2>4. AnsweredOnce' /\ answers' \in [Calls -> Nat] /\ incoming' \subseteq Calls
    <3>1. CASE on[r] \in incoming
      BY <1>0, <2>1, <2>2, <3>1 DEF AnsweredOnce, TypeOK, Set
    <3>2. CASE on[r] \notin incoming
      BY <2>1, <2>2, <3>2 DEF AnsweredOnce, TypeOK
    <3> QED
      BY <3>1, <3>2
  <2>5. TypeOK'
    BY <2>2, <2>3, <2>4 DEF TypeOK, Moves, tasks
  <2>6. LiveIsRegistered' /\ AudioHasCall' /\ Begun'
    BY <2>1, <2>2, <2>3 DEF LiveIsRegistered, AudioHasCall, Begun, Moves, tasks, Ours
  <2> QED
    BY <2>4, <2>5, <2>6
<1>3. CASE dial(r)
  <2>1. pc[r] = "dial" /\ UNCHANGED <<offers, registries, tasks, answers>>
    BY <1>3 DEF dial
  <2>2. CASE GoTo(r, "done") /\ UNCHANGED leg
    <3>1. Moves(r, on[r], "done")
      BY <1>0, <2>2, RequestMoves
    <3> QED
      BY <2>1, <2>2, <3>1, QuietKeeps
  <2>3. ASSUME NEW c \in Calls, leg[c] \in {"none", "in"},
               leg' = Set(leg, c, IF Is(r, Placing) THEN "out" ELSE "up"),
               on' = Set(on, r, c), pc' = Set(pc, r, "register"), UNCHANGED kind
        PROVE  CallInv'
    <3>1. /\ leg'[c] \in Ours /\ leg' \in [Calls -> {"none", "in", "out", "up", "over"}]
          /\ \A d \in Calls \ {c} : leg'[d] = leg[d]
      BY <2>3 DEF TypeOK, Ours, Set
    <3>2. Moves(r, c, "register")
      BY <2>3 DEF TypeOK, Set, Moves
    <3>3. TypeOK' /\ AnsweredOnce'
      BY <2>1, <3>1, <3>2 DEF TypeOK, AnsweredOnce, Moves, registries, tasks
    <3>4. LiveIsRegistered' /\ AudioHasCall'
      BY <2>1, <3>1, <3>2 DEF LiveIsRegistered, AudioHasCall, Moves, registries
    <3>5. driver' = driver /\ \A d \in Calls : leg[d] \in Ours \cup {"over"} => leg'[d] \in Ours \cup {"over"}
      BY <2>1, <3>1 DEF tasks
    <3>6. \A q \in Requests : pc'[q] = "register" => leg'[on'[q]] \in Ours \cup {"over"}
      BY <3>1, <3>2, <3>5 DEF Begun, Moves, TypeOK
    <3>7. \A d \in Calls : driver'[d] = "remove" => leg'[d] = "over"
      BY <2>3, <3>1, <3>5 DEF Begun
    <3>8. Begun'
      BY <3>5, <3>6, <3>7 DEF Begun
    <3> QED
      BY <3>3, <3>4, <3>8
  <2> QED
    BY <1>0, <1>3, <2>2, <2>3 DEF dial
<1>4. CASE register(r)
  <2>1. Moves(r, on[r], "done") /\ pc[r] = "register"
    BY <1>0, <1>4, RequestMoves DEF register, Step
  <2>2. /\ active' = active \cup {on[r]} /\ audio' \in {audio, audio \cup {on[r]}}
        /\ UNCHANGED <<leg, offers, incoming, answers>>
    BY <1>4 DEF register
  <2>3. driver' \in {driver, Set(driver, on[r], "play"), Set(driver, on[r], "ws")}
    BY <1>4 DEF register
  <2>4. recording' \in {recording, Set(recording, on[r], "taking")}
    BY <1>4 DEF register
  <2>5. TypeOK' /\ AnsweredOnce'
    BY <1>0, <2>1, <2>2, <2>3, <2>4 DEF TypeOK, AnsweredOnce, Moves, Set
  <2>6. LiveIsRegistered' /\ AudioHasCall'
    BY <1>0, <2>1, <2>2 DEF LiveIsRegistered, AudioHasCall, Moves
  <2>7. Begun'
    BY <1>0, <2>1, <2>2, <2>3 DEF Begun, Moves, Set, TypeOK
  <2> QED
    BY <2>5, <2>6, <2>7
<1>5. CASE terminate_call(r)
  <2>1. Moves(r, on[r], IF on[r] \in active THEN "hang" ELSE "send") /\ pc[r] = "start"
    BY <1>0, <1>5, RequestMoves DEF terminate_call, Step
  <2>2. active' = active \ {on[r]} /\ UNCHANGED <<leg, offers, incoming, audio, tasks, answers>>
    BY <1>5 DEF terminate_call
  <2>3. TypeOK' /\ AnsweredOnce' /\ Begun'
    BY <2>1, <2>2 DEF TypeOK, AnsweredOnce, Begun, Moves, tasks
  <2>4. LiveIsRegistered' /\ AudioHasCall'
    BY <2>1, <2>2 DEF LiveIsRegistered, AudioHasCall, Moves
  <2> QED
    BY <2>3, <2>4
<1>6. CASE hang_up(r)
  <2>1. CASE Step(r, "hang", "release") /\ End(on[r]) /\ UNCHANGED <<offers, registries, tasks, answers>>
    <3>1. Moves(r, on[r], "release") /\ pc[r] = "hang" /\ HangsUp(on[r])
      BY <1>0, <2>1, RequestMoves, CallHangsUp DEF Step
    <3>2. leg'[on[r]] \notin Ours
      BY <3>1 DEF HangsUp
    <3> QED
      BY <2>1, <3>1, <3>2, QuietKeeps
  <2>2. CASE /\ Step(r, "release", "done") /\ audio' = audio \ {on[r]}
             /\ UNCHANGED <<leg, offers, incoming, active, tasks, answers>>
    <3>1. Moves(r, on[r], "done") /\ pc[r] = "release"
      BY <1>0, <2>2, RequestMoves DEF Step
    <3>2. TypeOK' /\ AnsweredOnce' /\ Begun'
      BY <2>2, <3>1 DEF TypeOK, AnsweredOnce, Begun, Moves, tasks
    <3>3. LiveIsRegistered' /\ AudioHasCall'
      BY <2>2, <3>1 DEF LiveIsRegistered, AudioHasCall, Moves
    <3> QED
      BY <3>2, <3>3
  <2> QED
    BY <1>6, <2>1, <2>2 DEF hang_up
<1>7. CASE send(r)
  <2>1. Moves(r, on[r], "done") /\ pc[r] = "send" /\ (UNCHANGED leg \/ HangsUp(on[r]))
    BY <1>0, <1>7, RequestMoves, CallHangsUp DEF send, Step
  <2> QED
    BY <1>7, <2>1, QuietKeeps DEF send
<1> QED
  BY <1>1, <1>2, <1>3, <1>4, <1>5, <1>6, <1>7 DEF RequestStep

\* So do the peers and the tasks of a call.
LEMMA CallKeeps ==
    ASSUME CallsAssumption, CallInv, NEW c \in Calls,
           \/ IncomingCall(c) \/ PeerAnswers(c) \/ PeerHangsUp(c)
           \/ TaskStep(c) \/ socket_closes(c) \/ Record(c)
    PROVE  CallInv'
<1> USE DEF CallInv
<1>1. CASE IncomingCall(c)
  <2>1. TypeOK'
    BY <1>1 DEF IncomingCall, TypeOK, registries, tasks, request, Set, CallsAssumption
  <2>2. AnsweredOnce'
    BY <1>1 DEF IncomingCall, TypeOK, AnsweredOnce, Set
  <2>3. LiveIsRegistered' /\ AudioHasCall' /\ Begun'
    BY <1>1 DEF IncomingCall, TypeOK, LiveIsRegistered, AudioHasCall, Begun, Set, Ours,
       tasks, request
  <2> QED
    BY <2>1, <2>2, <2>3
<1>2. CASE PeerAnswers(c)
  <2>1. TypeOK' /\ AnsweredOnce'
    BY <1>2 DEF PeerAnswers, TypeOK, AnsweredOnce, registries, tasks, request, Set
  <2>2. LiveIsRegistered' /\ AudioHasCall' /\ Begun'
    BY <1>2 DEF PeerAnswers, TypeOK, LiveIsRegistered, AudioHasCall, Begun, Set, Ours,
       registries, tasks, request
  <2> QED
    BY <2>1, <2>2
<1>3. CASE PeerHangsUp(c) \/ audio_ends(c) \/ ends(c) \/ socket_closes(c) \/ Record(c)
  <2>0. UNCHANGED <<offers, incoming, answers, request>>
    BY <1>3 DEF PeerHangsUp, audio_ends, ends, socket_closes, Record, record_peer_task, registries
  <2>1. /\ UNCHANGED leg \/ HangsUp(c)
        /\ UNCHANGED <<active, audio>> \/ (/\ active' = active \ {c} /\ audio' = audio \ {c}
                                          /\ leg[c] = "over" /\ UNCHANGED leg)
    <3>1. CASE PeerHangsUp(c)
      BY <3>1, CallHangsUp DEF PeerHangsUp, registries
    <3>2. CASE audio_ends(c) \/ socket_closes(c) \/ Record(c)
      BY <3>2 DEF audio_ends, socket_closes, Record, record_peer_task, registries
    <3>3. CASE ends(c)
      BY <3>3, CallHangsUp DEF ends, registries, Begun
    <3> QED
      BY <1>3, <3>1, <3>2, <3>3
  <2>2. TypeOK' /\ AnsweredOnce'
    <3>1. driver' \in [Calls -> {"none", "play", "ws", "hang", "remove", "gone"}]
      BY <1>3 DEF PeerHangsUp, audio_ends, ends, socket_closes, Record, record_peer_task, tasks,
         Set, TypeOK
    <3>2. recording' \in [Calls -> {"none", "taking", "written", "lost"}]
      BY <1>3 DEF PeerHangsUp, audio_ends, ends, socket_closes, Record, record_peer_task, tasks,
         Set, TypeOK
    <3> QED
      BY <2>0, <2>1, <3>1, <3>2 DEF TypeOK, AnsweredOnce, HangsUp, request
  <2>3. LiveIsRegistered' /\ AudioHasCall'
    BY <2>0, <2>1 DEF LiveIsRegistered, AudioHasCall, HangsUp, request, Ours
  <2>4. \A d \in Calls : /\ driver'[d] # "none" => driver[d] # "none"
                         /\ driver'[d] = "remove" => leg'[d] = "over"
    <3>1. CASE PeerHangsUp(c) \/ Record(c)
      BY <2>1, <3>1 DEF PeerHangsUp, Record, record_peer_task, tasks, Begun, HangsUp
    <3>2. CASE audio_ends(c) \/ socket_closes(c)
      BY <3>2 DEF audio_ends, socket_closes, Begun, Set, TypeOK
    <3>3. CASE ends(c)
      <4>1. CASE driver[c] = "hang"
        BY <3>3, <4>1, CallHangsUp DEF ends, Begun, Set, TypeOK, HangsUp, Ours
      <4>2. CASE driver[c] = "remove"
        BY <3>3, <4>2 DEF ends, Begun, Set, TypeOK
      <4> QED
        BY <3>3, <4>1, <4>2 DEF ends
    <3> QED
      BY <1>3, <3>1, <3>2, <3>3
  <2>5. Begun'
    BY <2>0, <2>1, <2>4 DEF Begun, HangsUp, request, Ours, TypeOK
  <2> QED
    BY <2>2, <2>3, <2>5
<1> QED
  BY <1>1, <1>2, <1>3 DEF TaskStep

LEMMA CallsInductive == Spec => []CallInv
<1> USE CallsAssumption
<1>1. Init => CallInv
  BY DEF Init, CallInv, TypeOK, AnsweredOnce, LiveIsRegistered, AudioHasCall, Begun, Ours,
     CallsAssumption
<1>2. CallInv /\ [Next]_vars => CallInv'
  <2>1. ASSUME CallInv, UNCHANGED vars PROVE CallInv'
    BY <2>1 DEF vars, registries, tasks, request, CallInv, TypeOK, AnsweredOnce, LiveIsRegistered,
       AudioHasCall, Begun
  <2> QED
    BY <2>1, RequestKeeps, CallKeeps DEF Next
<1> QED
  BY <1>1, <1>2, PTL DEF Spec

\* accept_call and reject_call take the call out of the registry, under its lock,
\* before anything else: one of them gets it, once for each offer.
THEOREM OneAnswer == Spec => []AnsweredOnce
<1>1. CallInv => AnsweredOnce
  BY DEF CallInv
<1> QED
  BY <1>1, CallsInductive, PTL

\* register, terminate_call and the tasks keep active_calls and the audio channels
\* in step with the calls that are up.
THEOREM RegistriesKept == Spec => []RegistriesAgree
<1>1. CallInv => RegistriesAgree
  BY DEF CallInv, RegistriesAgree
<1> QED
  BY <1>1, CallsInductive, PTL
=============================================================================
