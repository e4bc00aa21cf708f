------------------------------ MODULE SendPath ------------------------------
(***************************************************************************)
(* How a message travels: through a send endpoint, at once or parked and   *)
(* replayed later, or from a blast job; through the calls its core awaits; *)
(* to WhatsApp and into the message index (src/handlers/messages.rs,       *)
(* src/handlers/schedule.rs, src/handlers/search.rs, src/db/messages.rs).  *)
(* Between two awaits the session may go or come, the request may be       *)
(* dropped, and the event loop may index the same message first.           *)
(***************************************************************************)
EXTENDS SendCore, Naturals

CONSTANTS
    Sends,      \* requests, one message each
    MaxMoves    \* bound: changes of the runtime, failed inserts, echoes

ASSUME SendPathAssumption == MaxMoves \in Nat

VARIABLES
    runtime,    \* the session's entry: absent, offline (no live client), live
    req,        \* each request: see Request
    messages,   \* table messages: row of each message, or NoRow
    accepted,   \* history: how often WhatsApp took the message
    unindexed,  \* history: messages whose insert failed
    moves       \* bounded counter

vars == <<runtime, req, messages, accepted, unindexed, moves>>

Jids  == {"user", "group", "bad"}
NoRow == [type |-> "none", sender |-> "none"]
Idle  == [pc |-> "idle", asked |-> text, core |-> text, left |-> << >>,
          jid |-> "user", opts |-> {}, answer |-> "none"]
Refusals == {"SessionNotFound", "NotConnected", "InvalidJid", "BadRequest",
             "MediaUploadFailed", "UnknownEndpoint"}
Answers  == Refusals \cup {"none", "pending", "ok", "Internal"}

Set(s, r) == req' = [req EXCEPT ![s] = r]
Finish(s, answer) == [req[s] EXCEPT !.pc = "done", !.left = << >>, !.answer = answer]
Answer(s, answer) == Set(s, Finish(s, answer))

-----------------------------------------------------------------------------
(* Entering a core *)

\* get_client, then parse_jid: nothing is awaited before the first call.
Execute(s, core, r) ==
    Set(s, CASE runtime # "live" -> [r EXCEPT !.pc = "done", !.answer = "NotConnected"]
             [] \/ r.jid = "bad"
                \/ core.calls[1] = "mark_as_read" /\ "bad_sender" \in r.opts
                     -> [r EXCEPT !.pc = "done", !.answer = "InvalidJid"]
             [] OTHER -> [r EXCEPT !.pc = "run", !.core = core,
                                   !.left = Calls(core, r.opts)])

Inputs(core) == [pc : {"idle"}, asked : {core}, core : {core}, left : {<< >>},
                 jid : Jids, opts : SUBSET core.options, answer : {"none"}]

\* A send_X handler whose request has no send_at, or one within SCHEDULE_GRACE.
send_now(s) ==
    /\ req[s].pc = "idle"
    /\ \E core \in Endpoints \cup Direct : \E r \in Inputs(core) : Execute(s, core, r)
    /\ UNCHANGED <<runtime, messages, accepted, unindexed, moves>>

\* ... with a later send_at: the body is stored under the endpoint's key.
maybe_schedule(s) ==
    /\ req[s].pc = "idle"
    /\ \E core \in Endpoints : \E r \in Inputs(core) :
         IF runtime = "absent"
         THEN Set(s, [r EXCEPT !.pc = "done", !.answer = "SessionNotFound"])
         ELSE \/ Set(s, [r EXCEPT !.pc = "parked", !.answer = "pending"])
              \/ Set(s, [r EXCEPT !.pc = "done", !.answer = "Internal"])
    /\ UNCHANGED <<runtime, messages, accepted, unindexed, moves>>

\* The poller replays a parked body: Scheduler says when, and that only once.
replay(s) ==
    /\ req[s].pc = "parked"
    /\ LET core == dispatch(req[s].asked.key)
       IN  IF core = unknown THEN Answer(s, "UnknownEndpoint") ELSE Execute(s, core, req[s])
    /\ UNCHANGED <<runtime, messages, accepted, unindexed, moves>>

\* create_job takes any key from its caller; the worker runs what it let in.
blast_send(s) ==
    /\ req[s].pc = "idle"
    /\ \E core \in Endpoints \cup Direct : \E r \in Inputs(core) :
         IF core.key \notin validate_body
         THEN Set(s, [r EXCEPT !.pc = "done", !.answer = "BadRequest"])
         ELSE IF dispatch(core.key) = unknown
         THEN Set(s, [r EXCEPT !.pc = "done", !.answer = "UnknownEndpoint"])
         ELSE Execute(s, dispatch(core.key), r)
    /\ UNCHANGED <<runtime, messages, accepted, unindexed, moves>>

-----------------------------------------------------------------------------
(* The calls of a core *)

Awaits(s, calls) ==
    req[s].pc = "run" /\ req[s].left # << >> /\ Head(req[s].left) \in calls
\* A call returns: the next one, or the answer.
Return(s) ==
    IF Len(req[s].left) = 1 THEN Answer(s, "ok")
    ELSE Set(s, [req[s] EXCEPT !.left = Tail(@)])

\* The directory lookup fails over to the address itself; the checks that
\* follow it come before anything else is awaited.
resolve(s) ==
    /\ Awaits(s, {"resolve"})
    /\ LET opts == req[s].opts
       IN  CASE opts \cap {"bad_mention", "bad_sender"} # {} -> Answer(s, "InvalidJid")
             [] "mention_all" \in opts /\ req[s].jid # "group" -> Answer(s, "BadRequest")
             [] "no_buttons" \in opts -> Answer(s, "Internal")
             [] OTHER -> Return(s)
    /\ UNCHANGED <<runtime, messages, accepted, unindexed, moves>>

\* Group metadata, the media file, its upload: each may fail, and an uploaded
\* file is never accepted here.
fetch(s) ==
    /\ \/ Awaits(s, {"get_metadata", "upload"}) /\ Return(s)
       \/ Awaits(s, {"get_metadata"}) /\ Answer(s, "Internal")
       \/ Awaits(s, {"upload"}) /\ Answer(s, "MediaUploadFailed")
    /\ UNCHANGED <<runtime, messages, accepted, unindexed, moves>>
get_media_data(s) ==
    /\ Awaits(s, {"get_media_data"})
    /\ \/ Return(s) /\ "uploaded" \notin req[s].opts
       \/ Answer(s, "BadRequest")
    /\ UNCHANGED <<runtime, messages, accepted, unindexed, moves>>

Accept(s) == accepted' = [accepted EXCEPT ![s] = @ + 1]

\* Mutant: a failed send is reported as one that was never tried.
deliver_denied(s) ==
    /\ Awaits(s, Deliveries)
    /\ \/ Accept(s) /\ Return(s)
       \/ (Accept(s) \/ UNCHANGED accepted) /\ Answer(s, "NotConnected")
    /\ UNCHANGED <<runtime, messages, unindexed, moves>>

\* The client answers, or fails with or without WhatsApp having the message.
deliver(s) ==
    /\ Awaits(s, Deliveries)
    /\ \/ Accept(s) /\ Return(s)
       \/ (Accept(s) \/ UNCHANGED accepted) /\ Answer(s, "Internal")
    /\ UNCHANGED <<runtime, messages, unindexed, moves>>

Row(s, sender) ==
    [type |-> extract_message_content(req[s].core.message, req[s].opts), sender |-> sender]

\* INSERT ... ON CONFLICT (session_id, message_id) DO NOTHING.
insert(s, sender) ==
    messages' = [messages EXCEPT ![s] = IF @ = NoRow THEN Row(s, sender) ELSE @]

\* An insert that fails is logged and forgotten.
record_outgoing(s) ==
    /\ Awaits(s, {"record_outgoing"})
    /\ \/ insert(s, "") /\ UNCHANGED <<unindexed, moves>>
       \/ /\ moves < MaxMoves
          /\ moves' = moves + 1
          /\ unindexed' = unindexed \cup {s}
          /\ UNCHANGED messages
    /\ Return(s)
    /\ UNCHANGED <<runtime, accepted>>

-----------------------------------------------------------------------------
(* The world around a request *)

Move == moves < MaxMoves /\ moves' = moves + 1

\* History sync, or another device, brings the message back as an event.
record_incoming(s) ==
    /\ accepted[s] > 0 /\ req[s].core \in Endpoints
    /\ insert(s, "self")
    /\ Move
    /\ UNCHANGED <<runtime, req, accepted, unindexed>>

\* axum drops the handler of a client that hung up; a process dies.
Dropped(s) ==
    /\ req[s].pc = "run"
    /\ Answer(s, "none")
    /\ UNCHANGED <<runtime, messages, accepted, unindexed, moves>>

RuntimeMoves ==
    /\ \E r \in {"absent", "offline", "live"} \ {runtime} : runtime' = r
    /\ Move
    /\ UNCHANGED <<req, messages, accepted, unindexed>>

-----------------------------------------------------------------------------

Init ==
    /\ runtime \in {"absent", "offline", "live"}
    /\ req = [s \in Sends |-> Idle]
    /\ messages = [s \in Sends |-> NoRow]
    /\ accepted = [s \in Sends |-> 0]
    /\ unindexed = {}
    /\ moves = 0

Next ==
    \/ RuntimeMoves
    \/ \E s \in Sends :
         \/ send_now(s) \/ maybe_schedule(s) \/ replay(s) \/ blast_send(s)
         \/ resolve(s) \/ fetch(s) \/ get_media_data(s) \/ deliver(s)
         \/ record_outgoing(s) \/ record_incoming(s) \/ Dropped(s)

Spec == Init /\ [][Next]_vars

-----------------------------------------------------------------------------

TypeOK ==
    /\ runtime \in {"absent", "offline", "live"}
    /\ \A s \in Sends :
         /\ req[s].pc \in {"idle", "parked", "run", "done"}
         /\ {req[s].asked, req[s].core} \subseteq Endpoints \cup Direct
         /\ req[s].jid \in Jids /\ req[s].opts \subseteq req[s].asked.options
         /\ req[s].answer \in Answers
         /\ (req[s].pc = "run") = (req[s].left # << >>)
         /\ messages[s] = NoRow \/ messages[s].sender \in {"", "self"}
    /\ accepted \in [Sends -> Nat] /\ unindexed \subseteq Sends
    /\ moves \in 0..MaxMoves

\* What runs, now or later, is the core of the endpoint the caller addressed:
\* the key a handler stores, dispatch and validate_body agree (schedule.rs asks
\* to keep the lists in sync when an endpoint is added).
ReplayedByItsCore ==
    \A s \in Sends :
      /\ req[s].pc \in {"run", "done"} => req[s].core = req[s].asked
      /\ req[s].answer # "UnknownEndpoint"

\* An answer that tells the caller to correct the request, or to try again
\* later, is given only for a message WhatsApp never saw: a retry sends no copy.
RefusedIsUnsent ==
    \A s \in Sends : req[s].answer \in Refusals => accepted[s] = 0

\* A request, parked or not, reaches WhatsApp at most once.
SentOnce == \A s \in Sends : accepted[s] <= 1

\* What an answer tells the caller to do never leads to a copy of a message.
AnsweredTruly == RefusedIsUnsent /\ SentOnce

\* The index holds only what WhatsApp has.
IndexOnlySent == \A s \in Sends : messages[s] # NoRow => accepted[s] > 0

\* A send answered with success is in the index, unless its insert failed;
\* comments never record.
AnsweredIsIndexed ==
    \A s \in Sends :
      /\ req[s].answer = "ok" /\ req[s].core \in Endpoints \ {comment}
      => messages[s] # NoRow \/ s \in unindexed

\* The index of messages and what WhatsApp has taken agree, in both directions,
\* whichever of the core and the event loop writes a row.
IndexIsTrue == TypeOK /\ IndexOnlySent /\ AnsweredIsIndexed

=============================================================================
