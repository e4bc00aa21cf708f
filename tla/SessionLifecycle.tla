--------------------------- MODULE SessionLifecycle ---------------------------
(****************************************************************************)
(* One session from its creation to its deletion: the requests that create, *)
(* connect, pair, disconnect, export, import and delete it, the tasks that  *)
(* build and run its WhatsApp client, the client's events, the reconnect    *)
(* watchdog and the reload (src/handlers/sessions.rs, bulk.rs,              *)
(* operations.rs, src/state.rs).  Every await is a step boundary; between   *)
(* two of them a handler works on the runtime it looked up before.          *)
(****************************************************************************)
EXTENDS Naturals

CONSTANTS
    Requests,       \* requests of operators, each made at most once
    Mixes,          \* assignments of endpoints to them
    Clients,        \* client instances, each built by one connect task
    MaxRuntimes,    \* bound: SessionState objects made for the session
    FlapThreshold,  \* logouts that purge a session
    MaxEvents,      \* bound: events of the clients
    MaxFaults       \* bound: failed updates of the row

Kinds == {"create", "connect", "wait", "pair", "disconnect", "disconnect_all",
          "export", "import", "delete", "reload", "reconnect_pref", "tick"}

ASSUME LifecycleAssumption ==
    /\ "none" \notin Clients
    /\ Mixes \subseteq [Requests -> Kinds]
    /\ MaxRuntimes \in Nat \ {0} /\ FlapThreshold \in Nat \ {0}
    /\ MaxEvents \in Nat /\ MaxFaults \in Nat

VARIABLES
    row,     \* row of the table sessions, or NoRow
    current, \* the runtime in AppState.sessions, 0 when there is none
    rt,      \* the runtimes
    made,    \* how many there have been
    kind,    \* endpoint of each request
    pc,      \* its next step
    at,      \* runtime it holds
    seen,    \* row it read
    task,    \* next step of each connect task
    mode,    \* who spawned it
    held,    \* runtime it holds
    live,    \* the client: none, built, open, in (logged in), down, out, stopped
    auto,    \* its enable_auto_reconnect
    ev,      \* next step of its event handler
    evat,    \* runtime the handler holds
    events, faults  \* bounded counters

memory  == <<current, rt, made>>
request == <<kind, pc, at, seen>>
client  == <<live, auto>>
conn    == <<task, mode, held>>
handler == <<ev, evat, events>>
vars    == <<row, memory, request, conn, client, handler, faults>>

-----------------------------------------------------------------------------

NoRow == [status |-> "none", logged |-> FALSE]
Rows  == [status : {"none", "Disconnected", "Connecting", "WaitingForQr", "LoggedIn"},
          logged : BOOLEAN]
Statuses == {"Disconnected", "Connecting", "WaitingForQr", "WaitingForPairCode", "LoggedIn"}
None  == "none"
Fresh == [slot |-> None, status |-> "Disconnected", reconnecting |-> FALSE,
          cooldown |-> FALSE, logouts |-> 0, pref |-> TRUE]

Set(f, x, v)  == [f EXCEPT ![x] = v]
Alive(c)      == live[c] = "in"
is_alive(x)   == rt[x].slot # None /\ Alive(rt[x].slot)
Running(c)    == task[c] = "run" /\ live[c] # "stopped"
Idle(x)       == [rt[x] EXCEPT !.slot = None, !.status = "Disconnected"]

\* An UPDATE: no row, no effect.  Every caller drops the error.
update_session_status(s, l) ==
    \/ /\ row' = IF row = NoRow THEN row ELSE [status |-> s, logged |-> l]
       /\ UNCHANGED faults
    \/ faults < MaxFaults /\ faults' = faults + 1 /\ UNCHANGED row

\* disconnect() of the client in runtime x: its run() returns, sooner or later.
disconnect(x) ==
    live' = IF rt[x].slot = None THEN live ELSE Set(live, rt[x].slot, "stopped")

Runtime == IF current # 0 THEN current ELSE made + 1
get_or_create_session(r) ==
    /\ Runtime <= MaxRuntimes
    /\ current' = Runtime
    /\ made' = IF Runtime > made THEN Runtime ELSE made
    /\ at' = Set(at, r, Runtime)

Spawn(m) == \E c \in Clients :
              /\ task[c] = None
              /\ task' = Set(task, c, "path") /\ mode' = Set(mode, c, m)
              /\ UNCHANGED held

Is(r, kinds)   == kind[r] \in kinds
GoTo(r, to)    == pc' = Set(pc, r, to) /\ UNCHANGED kind
Step(r, from, to) == pc[r] = from /\ GoTo(r, to)

-----------------------------------------------------------------------------
(* Requests *)

\* The first query: the session's row.
get_session(r) ==
    /\ pc[r] = "start" /\ ~Is(r, {"create", "tick", "delete"})
    /\ seen' = Set(seen, r, row)
    /\ GoTo(r, CASE row = NoRow /\ Is(r, {"wait"})                     -> "insert"
                 [] row = NoRow                                        -> "done"
                 [] Is(r, {"wait"})                                    -> "open"
                 [] Is(r, {"reload"}) /\ row.status = "Disconnected"
                                      /\ ~row.logged                   -> "done"
                 [] Is(r, {"reload"}) /\ row.status = "WaitingForQr"   -> "done"
                 [] Is(r, {"reload"})                                  -> "path"
                 [] OTHER                                              -> "look")
    /\ UNCHANGED <<row, memory, at, conn, client, handler, faults>>

\* A session that exists is not created again.
create_session(r) ==
    /\ Is(r, {"create"}) /\ row = NoRow /\ Step(r, "start", "insert")
    /\ UNCHANGED <<row, memory, at, seen, conn, client, handler, faults>>
insert_session(r) ==
    /\ pc[r] = "insert"
    /\ row' = IF row = NoRow THEN [status |-> "Disconnected", logged |-> FALSE] ELSE row
    /\ GoTo(r, CASE row # NoRow -> "done" [] Is(r, {"create"}) -> "path" [] OTHER -> "open")
    /\ UNCHANGED <<memory, at, seen, conn, client, handler, faults>>

\* Mutant: the slot is cleared, its client is left running.
connect_only_clears(r) ==
    /\ Is(r, {"connect"}) /\ pc[r] = "look"
    /\ at' = Set(at, r, current)
    /\ GoTo(r, IF current = 0 THEN "path" ELSE IF is_alive(current) THEN "done" ELSE "clear")
    /\ UNCHANGED <<row, memory, seen, conn, client, handler, faults>>

\* connect_session: refused when alive or waiting to be paired; whatever client
\* is in the slot is disconnected.
connect_session(r) ==
    /\ Is(r, {"connect"}) /\ pc[r] = "look"
    /\ at' = Set(at, r, current)
    /\ IF current = 0 THEN GoTo(r, "path") /\ UNCHANGED live
       ELSE IF is_alive(current) \/ rt[current].status \in {"WaitingForQr", "WaitingForPairCode"}
            THEN GoTo(r, "done") /\ UNCHANGED live
            ELSE GoTo(r, "clear") /\ disconnect(current)
    /\ UNCHANGED <<row, memory, seen, conn, auto, handler, faults>>

\* ensure_connecting_for_wait: nothing to do while a connect is under way.
ensure_connecting_for_wait(r) ==
    /\ Is(r, {"wait"}) /\ pc[r] = "open"
    /\ get_or_create_session(r) /\ UNCHANGED rt
    /\ IF \/ is_alive(at'[r]) /\ rt[at'[r]].status = "LoggedIn"
          \/ rt[at'[r]].status \in {"Connecting", "WaitingForQr", "WaitingForPairCode"}
       THEN GoTo(r, "done") /\ UNCHANGED live
       ELSE GoTo(r, "clear") /\ disconnect(at'[r])
    /\ UNCHANGED <<row, seen, conn, auto, handler, faults>>

\* Mutant: the slot is cleared, its client is left running.
stop_only_clears(r) ==
    /\ \/ Is(r, {"disconnect", "disconnect_all", "export"}) /\ pc[r] = "look"
       \/ Is(r, {"delete"}) /\ pc[r] = "start"
    /\ at' = Set(at, r, current)
    /\ GoTo(r, IF current # 0 THEN "clear"
               ELSE CASE Is(r, {"export"}) -> "save" [] Is(r, {"delete"}) -> "clear" [] OTHER -> "done")
    /\ UNCHANGED <<row, memory, seen, conn, client, handler, faults>>

\* disconnect_session and disconnect_all need a client; export_session does not;
\* delete_session does not look for a row either.
stop(r) ==
    /\ \/ Is(r, {"disconnect", "disconnect_all", "export"}) /\ pc[r] = "look"
       \/ Is(r, {"delete"}) /\ pc[r] = "start"
    /\ at' = Set(at, r, current)
    /\ IF current = 0 \/ (rt[current].slot = None /\ Is(r, {"disconnect", "disconnect_all"}))
       THEN /\ GoTo(r, CASE Is(r, {"export"}) -> "save" [] Is(r, {"delete"}) -> "clear" [] OTHER -> "done")
            /\ UNCHANGED live
       ELSE GoTo(r, "clear") /\ disconnect(current)
    /\ UNCHANGED <<row, memory, seen, conn, auto, handler, faults>>

\* run_reconnect_watchdog, one session of one tick.
run_reconnect_watchdog(r) ==
    /\ Is(r, {"tick"}) /\ pc[r] = "start" /\ current # 0
    /\ rt[current].status = "Connecting" /\ ~rt[current].cooldown
    /\ rt[current].slot # None
    /\ rt[current].reconnecting \/ live[rt[current].slot] = "down"
    /\ at' = Set(at, r, current)
    /\ GoTo(r, "clear") /\ disconnect(current)
    /\ UNCHANGED <<row, memory, seen, conn, auto, handler, faults>>

\* What each does when disconnect() has returned.
clear(r) ==
    LET x == IF Is(r, {"disconnect_all"}) THEN current ELSE at[r]
    IN  /\ pc[r] = "clear" /\ ~Is(r, {"delete"})
        /\ IF x = 0 THEN UNCHANGED rt
           ELSE rt' = Set(rt, x, [Idle(x) EXCEPT
                      !.status = IF Is(r, {"wait"}) THEN "Connecting" ELSE "Disconnected",
                      !.reconnecting = Is(r, {"disconnect_all"}) /\ @,
                      !.cooldown = ~Is(r, {"connect", "wait"}) /\ @])
        /\ IF Is(r, {"wait"})
           THEN Spawn("connect") /\ GoTo(r, "done")
           ELSE GoTo(r, IF Is(r, {"connect"}) THEN "path" ELSE "save") /\ UNCHANGED conn
        /\ UNCHANGED <<row, current, made, at, seen, client, handler, faults>>

save(r) ==
    /\ pc[r] = "save"
    /\ update_session_status("Disconnected", Is(r, {"disconnect_all"}) /\ seen[r].logged)
    /\ GoTo(r, CASE Is(r, {"export"}) -> "path" [] Is(r, {"tick"}) -> "again" [] OTHER -> "done")
    /\ UNCHANGED <<memory, at, seen, conn, client, handler>>

\* The watchdog has announced the disconnect (webhooks, NATS, event stream).
reconnect(r) ==
    /\ Step(r, "again", "start")
    /\ rt' = [rt EXCEPT ![at[r]].status = "Connecting"]
    /\ Spawn("connect")
    /\ UNCHANGED <<row, current, made, at, seen, client, handler, faults>>

\* pair_session and set_auto_reconnect; import_session refuses a live session.
look(r) ==
    /\ Is(r, {"pair", "reconnect_pref", "import"})
    /\ LET refused == \/ Is(r, {"pair"}) /\ rt[current].status = "LoggedIn"
                      \/ Is(r, {"import"}) /\ is_alive(current)
       IN  Step(r, "look", IF current # 0 /\ refused THEN "done" ELSE "path")
    /\ UNCHANGED <<row, memory, at, seen, conn, client, handler, faults>>

\* A missing row falls back to the default path, except for the reload.
get_storage_path(r) ==
    /\ Step(r, "path", CASE Is(r, {"export"})               -> "zip"
                         [] Is(r, {"import"})               -> "unzip"
                         [] Is(r, {"reload"}) /\ row = NoRow -> "done"
                         [] OTHER                           -> "open")
    /\ UNCHANGED <<row, memory, at, seen, conn, client, handler, faults>>

zip_directory(r) ==
    /\ Step(r, "zip", "done")
    /\ UNCHANGED <<row, memory, at, seen, conn, client, handler, faults>>
unzip_directory(r) ==
    /\ Step(r, "unzip", "done")
    /\ UNCHANGED <<row, memory, at, seen, conn, client, handler, faults>>

open(r) ==
    /\ Is(r, {"create", "connect"}) /\ Step(r, "open", "done")
    /\ get_or_create_session(r) /\ rt' = [rt EXCEPT ![Runtime].status = "Connecting"]
    /\ Spawn(kind[r])
    /\ UNCHANGED <<row, seen, client, handler, faults>>

\* The webhooks are read before the task is spawned.
reconnect_all_on_startup(r) ==
    /\ Is(r, {"reload"})
    /\ \/ /\ Step(r, "open", "hooks")
          /\ get_or_create_session(r) /\ rt' = [rt EXCEPT ![Runtime].status = "Connecting"]
          /\ UNCHANGED conn
       \/ Step(r, "hooks", "done") /\ Spawn("reload") /\ UNCHANGED <<memory, at>>
    /\ UNCHANGED <<row, seen, client, handler, faults>>

\* A client in the slot is asked for a code; a connect under way is left alone.
pair_session(r) ==
    /\ Is(r, {"pair"}) /\ Step(r, "open", "done")
    /\ IF /\ current # 0
          /\ rt[current].slot # None \/ rt[current].status \in {"WaitingForPairCode", "Connecting"}
       THEN UNCHANGED <<memory, at, conn>>
       ELSE /\ get_or_create_session(r) /\ rt' = [rt EXCEPT ![Runtime].status = "WaitingForPairCode"]
            /\ Spawn("pair")
    /\ UNCHANGED <<row, seen, client, handler, faults>>

set_auto_reconnect(r) ==
    /\ Is(r, {"reconnect_pref"}) /\ Step(r, "open", "done")
    /\ get_or_create_session(r) /\ rt' = [rt EXCEPT ![Runtime].pref = FALSE]
    /\ auto' = IF current # 0 /\ rt[current].slot # None
               THEN Set(auto, rt[current].slot, FALSE) ELSE auto
    /\ UNCHANGED <<row, seen, conn, live, handler, faults>>

\* delete_session: the registry, then the directory and the row.
remove_session(r) ==
    /\ Is(r, {"delete"}) /\ Step(r, "clear", "delete")
    /\ current' = 0
    /\ UNCHANGED <<row, rt, made, at, seen, conn, client, handler, faults>>
delete_session(r) ==
    /\ Step(r, "delete", "done")
    /\ row' = NoRow
    /\ UNCHANGED <<memory, at, seen, conn, client, handler, faults>>

-----------------------------------------------------------------------------
(* connect_client, connect_client_with_pair_code *)

TaskTo(c, from, to) == task[c] = from /\ task' = Set(task, c, to)

connect_client(c) ==
    /\ task[c] = "path"
    /\ task' = Set(task, c, IF row = NoRow THEN "failed" ELSE "build")
    /\ UNCHANGED <<row, memory, request, mode, held, client, handler, faults>>

\* The store is opened and the bot built, or not.
build(c) ==
    /\ \/ TaskTo(c, "build", "hold") /\ live' = Set(live, c, "built")
       \/ TaskTo(c, "build", "failed") /\ UNCHANGED live
    /\ UNCHANGED <<row, memory, request, mode, held, auto, handler, faults>>

\* The runtime, if there is one, gives the client its preferences ...
apply_preferences(c) ==
    /\ TaskTo(c, "hold", IF current # 0 THEN "install" ELSE "save")
    /\ held' = Set(held, c, current)
    /\ auto' = IF current # 0 THEN Set(auto, c, rt[current].pref) ELSE auto
    /\ UNCHANGED <<row, memory, request, mode, live, handler, faults>>

\* ... and, once the chat store is open, the client its place in it.
set_client(c) ==
    /\ TaskTo(c, "install", "save")
    /\ rt' = [rt EXCEPT ![held[c]].slot = c,
                        ![held[c]].status = IF mode[c] = "pair" THEN @ ELSE "WaitingForQr"]
    /\ UNCHANGED <<row, current, made, request, mode, held, client, handler, faults>>

run(c) ==
    /\ TaskTo(c, "save", "run")
    /\ live' = IF live[c] = "built" THEN Set(live, c, "open") ELSE live
    /\ IF mode[c] = "pair" THEN UNCHANGED <<row, faults>>
       ELSE update_session_status("WaitingForQr", FALSE)
    /\ UNCHANGED <<memory, request, mode, held, auto, handler>>

\* run() has returned: whatever runtime the session has by now loses its client.
run_returned(c) ==
    /\ TaskTo(c, "run", "tail") /\ live[c] = "stopped"
    /\ rt' = IF current = 0 THEN rt ELSE Set(rt, current, Idle(current))
    /\ UNCHANGED <<row, current, made, request, mode, held, client, handler, faults>>
tail(c) ==
    /\ TaskTo(c, "tail", "done")
    /\ update_session_status("Disconnected", FALSE)
    /\ UNCHANGED <<memory, request, mode, held, client, handler>>

\* Mutant: the error is only logged.
connect_failed_silently(c) ==
    /\ TaskTo(c, "failed", "done")
    /\ UNCHANGED <<row, memory, request, mode, held, client, handler, faults>>

\* The spawned task's error branch; only some of them clear the slot.
connect_failed(c) ==
    /\ TaskTo(c, "failed", "done")
    /\ rt' = IF current = 0 THEN rt
             ELSE Set(rt, current, IF mode[c] = "connect" THEN Idle(current)
                                   ELSE [rt[current] EXCEPT !.status = "Disconnected"])
    /\ UNCHANGED <<row, current, made, request, mode, held, client, handler, faults>>

-----------------------------------------------------------------------------
(* The client and handle_event *)

Event(c, from, to, step) ==
    /\ task[c] = "run" /\ ev[c] = None /\ live[c] \in from
    /\ events < MaxEvents /\ events' = events + 1
    /\ live' = Set(live, c, to)
    /\ ev' = IF current = 0 THEN ev ELSE Set(ev, c, step)
    /\ evat' = Set(evat, c, current)
    /\ UNCHANGED <<row, request, conn, auto, faults>>

PairingQrCode(c) ==
    /\ Event(c, {"open"}, "open", "qr")
    /\ rt' = IF current = 0 THEN rt ELSE [rt EXCEPT ![current].status = "WaitingForQr"]
    /\ UNCHANGED <<current, made>>
Connected(c) ==
    /\ Event(c, {"open", "down"}, "in", "in")
    /\ rt' = IF current = 0 THEN rt
             ELSE [rt EXCEPT ![current].status = "LoggedIn", ![current].reconnecting = FALSE]
    /\ UNCHANGED <<current, made>>
\* Mutant: the session keeps its status while the client is down.
Disconnected_unnoticed(c) ==
    /\ Event(c, {"open", "in"}, "down", "down")
    /\ rt' = IF current = 0 THEN rt ELSE [rt EXCEPT ![current].reconnecting = TRUE]
    /\ UNCHANGED <<current, made>>
Disconnected(c) ==
    /\ Event(c, {"open", "in"}, "down", "down")
    /\ rt' = IF current = 0 THEN rt
             ELSE [rt EXCEPT ![current].status = "Connecting", ![current].reconnecting = TRUE]
    /\ UNCHANGED <<current, made>>
\* The row follows, after an await.
event_saved(c) ==
    /\ ev[c] \in {"qr", "in", "down"}
    /\ ev' = Set(ev, c, None)
    /\ LET s == CASE ev[c] = "qr" -> "WaitingForQr" [] ev[c] = "in" -> "LoggedIn"
                  [] OTHER -> "Connecting"
       IN  update_session_status(s, ev[c] = "in")
    /\ UNCHANGED <<memory, request, conn, client, evat, events>>

\* The handler disconnects the client in the slot, whichever it is.
LoggedOut(c, lock) ==
    LET k    == IF current = 0 THEN None ELSE rt[current].slot
        step == IF lock THEN "lock" ELSE "flap"
    IN  /\ task[c] = "run" /\ ev[c] = None /\ live[c] \in {"open", "in", "down"}
        /\ events < MaxEvents /\ events' = events + 1
        /\ live' = [x \in Clients |-> IF x = k THEN "stopped" ELSE IF x = c THEN "out" ELSE live[x]]
        /\ auto' = IF k # None /\ lock THEN Set(auto, k, FALSE) ELSE auto
        /\ ev' = IF current = 0 THEN ev ELSE Set(ev, c, step)
        /\ evat' = Set(evat, c, current)
        /\ UNCHANGED <<row, memory, request, conn, faults>>
EvTo(c, from, to) == ev[c] = from /\ ev' = Set(ev, c, to)
logged_out(c) ==
    /\ ev[c] \in {"lock", "flap"}
    /\ EvTo(c, ev[c], IF ev[c] = "lock" THEN "lock row" ELSE "flap row")
    /\ rt' = Set(rt, evat[c], [Idle(evat[c]) EXCEPT !.reconnecting = FALSE])
    /\ UNCHANGED <<row, current, made, request, conn, client, evat, events, faults>>
logged_out_saved(c) ==
    /\ ev[c] \in {"lock row", "flap row"}
    /\ EvTo(c, ev[c], IF ev[c] = "lock row" THEN "lock end" ELSE "flap end")
    /\ update_session_status("Disconnected", FALSE)
    /\ UNCHANGED <<memory, request, conn, client, evat, events>>
record_lock_cooldown(c) ==
    /\ EvTo(c, "lock end", None)
    /\ rt' = [rt EXCEPT ![evat[c]].cooldown = TRUE]
    /\ UNCHANGED <<row, current, made, request, conn, client, evat, events, faults>>
\* Logouts older than the window do not count.
record_logout_and_should_purge(c) ==
    /\ ev[c] = "flap end"
    /\ \E n \in 1..(rt[evat[c]].logouts + 1) :
         /\ EvTo(c, "flap end", IF n >= FlapThreshold THEN "purge" ELSE None)
         /\ rt' = [rt EXCEPT ![evat[c]].logouts = n]
    /\ UNCHANGED <<row, current, made, request, conn, client, evat, events, faults>>
purge(c) ==
    /\ \/ EvTo(c, "purge", "purge row") /\ current' = 0 /\ UNCHANGED row
       \/ EvTo(c, "purge row", None) /\ row' = NoRow /\ UNCHANGED current
    /\ UNCHANGED <<rt, made, request, conn, client, evat, events, faults>>

\* A client that was logged out gives up.
GivesUp(c) ==
    /\ live[c] = "out" /\ live' = Set(live, c, "stopped")
    /\ UNCHANGED <<row, memory, request, conn, auto, handler, faults>>
CooldownEnds(x) ==
    /\ rt[x].cooldown /\ rt' = [rt EXCEPT ![x].cooldown = FALSE]
    /\ UNCHANGED <<row, current, made, request, conn, client, handler, faults>>

-----------------------------------------------------------------------------

\* No session yet, one from before a restart, or one that is logged in.
Init ==
    /\ \/ /\ row \in {NoRow, [status |-> "Disconnected", logged |-> FALSE]} /\ current = 0 /\ made = 0
          /\ rt = [x \in 1..MaxRuntimes |-> Fresh]
          /\ task = [c \in Clients |-> None] /\ live = [c \in Clients |-> None]
          /\ held = [c \in Clients |-> 0]
       \/ /\ row = [status |-> "LoggedIn", logged |-> TRUE] /\ current = 1 /\ made = 1
          /\ \E c \in Clients :
               /\ rt = [x \in 1..MaxRuntimes |->
                          IF x = 1 THEN [Fresh EXCEPT !.slot = c, !.status = "LoggedIn"] ELSE Fresh]
               /\ task = [k \in Clients |-> IF k = c THEN "run" ELSE None]
               /\ live = [k \in Clients |-> IF k = c THEN "in" ELSE None]
               /\ held = [k \in Clients |-> IF k = c THEN 1 ELSE 0]
    /\ kind \in Mixes
    /\ pc = [r \in Requests |-> "start"] /\ at = [r \in Requests |-> 0]
    /\ seen = [r \in Requests |-> NoRow]
    /\ mode = [c \in Clients |-> "connect"] /\ auto = [c \in Clients |-> TRUE]
    /\ ev = [c \in Clients |-> None] /\ evat = [c \in Clients |-> 0]
    /\ events = 0 /\ faults = 0

RequestStep(r) ==
    \/ get_session(r) \/ create_session(r) \/ insert_session(r) \/ connect_session(r)
    \/ ensure_connecting_for_wait(r) \/ stop(r) \/ run_reconnect_watchdog(r) \/ clear(r)
    \/ save(r) \/ reconnect(r) \/ look(r) \/ get_storage_path(r) \/ zip_directory(r)
    \/ unzip_directory(r) \/ open(r) \/ reconnect_all_on_startup(r) \/ pair_session(r)
    \/ set_auto_reconnect(r) \/ remove_session(r) \/ delete_session(r)
TaskStep(c) ==
    \/ connect_client(c) \/ build(c) \/ apply_preferences(c) \/ set_client(c) \/ run(c)
    \/ run_returned(c) \/ tail(c) \/ connect_failed(c)
HandlerStep(c) ==
    \/ event_saved(c) \/ logged_out(c) \/ logged_out_saved(c) \/ record_lock_cooldown(c)
    \/ record_logout_and_should_purge(c) \/ purge(c)
ClientStep(c) ==
    \/ PairingQrCode(c) \/ Connected(c) \/ Disconnected(c) \/ GivesUp(c)
    \/ \E lock \in BOOLEAN : LoggedOut(c, lock)

Next ==
    \/ \E r \in Requests : RequestStep(r)
    \/ \E c \in Clients : TaskStep(c) \/ HandlerStep(c) \/ ClientStep(c)
    \/ \E x \in 1..MaxRuntimes : CooldownEnds(x)

Spec == Init /\ [][Next]_vars
\* Handlers, tasks and the watchdog run in tokio tasks of their own, and every
\* statement returns; clients and cooldowns are not fair.
LiveSpec ==
    /\ Spec
    /\ \A r \in Requests : WF_vars(RequestStep(r))
    /\ \A c \in Clients : WF_vars(TaskStep(c)) /\ WF_vars(HandlerStep(c))

-----------------------------------------------------------------------------

TypeOK ==
    /\ row \in Rows /\ current \in 0..MaxRuntimes /\ made \in 0..MaxRuntimes
    /\ rt \in [1..MaxRuntimes -> [slot : Clients \cup {None}, status : Statuses,
                 reconnecting : BOOLEAN, cooldown : BOOLEAN, logouts : Nat, pref : BOOLEAN]]
    /\ pc \in [Requests -> {"start", "insert", "look", "open", "clear", "save", "again",
                            "path", "zip", "unzip", "hooks", "delete", "done"}]
    /\ kind \in Mixes
    /\ at \in [Requests -> 0..MaxRuntimes] /\ seen \in [Requests -> Rows]
    /\ task \in [Clients -> {None, "path", "build", "hold", "install", "save", "run",
                             "tail", "failed", "done"}]
    /\ mode \in [Clients -> {"create", "connect", "reload", "pair"}]
    /\ held \in [Clients -> 0..MaxRuntimes] /\ evat \in [Clients -> 0..MaxRuntimes]
    /\ live \in [Clients -> {None, "built", "open", "in", "down", "out", "stopped"}]
    /\ auto \in [Clients -> BOOLEAN]
    /\ events \in 0..MaxEvents /\ faults \in 0..MaxFaults

\* The client in the slot of the session's runtime has a task that will take it
\* out when run() returns: no session is left with a dead client.
SlotIsOwned ==
    current # 0 /\ rt[current].slot # None => task[rt[current].slot] \in {"save", "run"}

\* A status other than Disconnected has somebody at work who will change it.
StatusHasOwner ==
    current # 0 /\ rt[current].status # "Disconnected" =>
      \/ \E c \in Clients : task[c] \notin {None, "tail", "done"}
      \/ \E r \in Requests : pc[r] = "hooks"

\* Neither a client nor a status is left behind by what put it there.
RuntimeHasOwner == TypeOK /\ SlotIsOwned /\ StatusHasOwner

\* sessions.rs:400-404: two live clients racing for the same device store is a
\* real failure mode, so the old one is disconnected before a rebuild.
OneLiveClient ==
    \A c, d \in Clients : {live[c], live[d]} \subseteq {"open", "in", "down"} => c = d

\* A session that was deleted is gone: no client of it is running.
DeletedIsGone ==
    \A r \in Requests, c \in Clients :
      Is(r, {"delete"}) /\ pc[r] = "done" /\ row = NoRow => ~Running(c)

\* sessions.rs:909-911: an export always leaves the source side stopped.
ExportIsAlone == \A r \in Requests, c \in Clients : pc[r] = "zip" => ~Running(c)

Starters == {"create", "connect", "wait", "pair", "reload", "tick"}
Starting == {r \in Requests : Is(r, Starters)}

\* Where one request starts a client at a time, whatever else stops, deletes or
\* exports the session in the meantime, no two clients are on the device store.
\* A reload puts its runtime to Connecting and does not stop the old client.
OneClientPerStart ==
    (\A r, q \in Starting : r = q /\ ~Is(r, {"reload"})) => OneLiveClient

\* With no request about that starts a client, nothing a stop, an export or a
\* delete leaves behind, and no event of the client, brings one back.
StoppedStaysStopped == Starting = {} => DeletedIsGone /\ ExportIsAlone

Installed(c) == current # 0 /\ rt[current].slot = c
Paused       == current # 0 /\ rt[current].cooldown

\* A session whose client is down does not stay that way: the client comes back,
\* or the watchdog rebuilds it, unless a logout put the session on cooldown.
StuckIsRebuilt ==
    \A c \in Clients :
      live[c] = "down" /\ Installed(c) ~> live[c] # "down" \/ ~Installed(c) \/ Paused
=============================================================================
