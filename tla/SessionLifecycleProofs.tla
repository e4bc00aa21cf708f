------------------------ MODULE SessionLifecycleProofs ------------------------
(****************************************************************************)
(* Proofs about SessionLifecycle: what is in a runtime belongs to somebody  *)
(* who will take it out, one request that starts a client leaves no second  *)
(* one on the device store, and a stop, an export or a delete brings none   *)
(* back.                                                                    *)
(****************************************************************************)
EXTENDS SessionLifecycle, TLAPS

\* Runtimes are made in turn, only the last can be current, and those to come
\* are as SessionState::new leaves them.
Ranges ==
    /\ current \in {0, made}
    /\ \A x \in 1..MaxRuntimes : x > made => rt[x].slot = None /\ rt[x].status = "Disconnected"
    /\ \A r \in Requests : at[r] <= made
    /\ \A c \in Clients : held[c] <= made /\ evat[c] <= made

\* Who holds a runtime, and where each endpoint can be.
Places ==
    /\ ev \in [Clients -> {None, "qr", "in", "down", "lock", "lock row", "lock end", "flap",
                           "flap row", "flap end", "purge", "purge row"}]
    /\ \A c \in Clients :
         /\ task[c] = "install" => held[c] # 0
         /\ ev[c] \in {"lock", "lock row", "lock end", "flap", "flap row", "flap end"} => evat[c] # 0
         /\ task[c] \in {None, "path", "build"} => live[c] = None
         /\ task[c] \in {"hold", "install"} => live[c] = "built"
         /\ live[c] \in {"open", "in", "down", "out"} => task[c] = "run"
    /\ \A r \in Requests :
         /\ pc[r] = "again" => Is(r, {"tick"}) /\ at[r] # 0
         /\ pc[r] = "clear" /\ Is(r, {"wait", "tick"}) => at[r] # 0
         /\ Is(r, {"tick"}) => pc[r] \in {"start", "clear", "save", "again"}
         /\ pc[r] = "save" /\ Is(r, {"tick"}) => at[r] # 0

LifeInv == RuntimeHasOwner /\ Ranges /\ Places

-----------------------------------------------------------------------------
(* What the operations write, and the types *)

\* The base of every step: types, ranges and places.
Basics == TypeOK /\ Ranges /\ Places

StateRecord == [slot : Clients \cup {None}, status : Statuses, reconnecting : BOOLEAN,
                cooldown : BOOLEAN, logouts : Nat, pref : BOOLEAN]

LEMMA FreshRecord == Fresh \in StateRecord
BY DEF Fresh, StateRecord, Statuses, None

LEMMA IdleRecord ==
    ASSUME TypeOK, NEW x \in 1..MaxRuntimes
    PROVE  /\ Idle(x) \in StateRecord /\ Idle(x).slot = None /\ Idle(x).status = "Disconnected"
<1>1. rt[x] \in StateRecord
  BY DEF TypeOK, StateRecord
<1> QED
  BY <1>1 DEF Idle, StateRecord, Statuses, None

\* A row that is updated stays a row.
LEMMA RowUpdate ==
    ASSUME TypeOK, NEW s \in {"Disconnected", "Connecting", "WaitingForQr", "LoggedIn"},
           NEW l \in BOOLEAN, update_session_status(s, l)
    PROVE  /\ row' \in Rows /\ faults' \in 0..MaxFaults
           /\ row = NoRow => row' = NoRow
           /\ row # NoRow => row' # NoRow
<1> USE LifecycleAssumption DEF TypeOK, update_session_status, Rows, NoRow
<1>1. row' \in Rows
  OBVIOUS
<1>2. faults' \in 0..MaxFaults
  BY DEF LifecycleAssumption
<1> QED
  BY <1>1, <1>2

\* The runtime a handler gets is the one there is, or a fresh one.
LEMMA GetOrCreate ==
    ASSUME Basics, NEW r \in Requests, get_or_create_session(r)
    PROVE  /\ current' = Runtime /\ Runtime \in 1..MaxRuntimes
           /\ made' \in 0..MaxRuntimes /\ made <= made' /\ current' = made'
           /\ current # 0 => Runtime = current /\ made' = made
           /\ current = 0 => Runtime = made + 1 /\ Runtime > made
           /\ at' = [at EXCEPT ![r] = Runtime] /\ at' \in [Requests -> 0..MaxRuntimes]
<1> USE LifecycleAssumption DEF Basics, TypeOK, Ranges, get_or_create_session, Runtime, Set,
        LifecycleAssumption
<1>1. current' = Runtime /\ Runtime \in 1..MaxRuntimes
  OBVIOUS
<1>2. /\ made' \in 0..MaxRuntimes /\ made <= made' /\ current' = made'
      /\ current # 0 => Runtime = current /\ made' = made
      /\ current = 0 => Runtime = made + 1 /\ Runtime > made
  OBVIOUS
<1> QED
  BY <1>1, <1>2

\* A connect task is given to a client that has none.
LEMMA Spawned ==
    ASSUME TypeOK, NEW m \in {"create", "connect", "reload", "pair"}, Spawn(m)
    PROVE  \E c \in Clients :
             /\ task[c] = None /\ task' = [task EXCEPT ![c] = "path"]
             /\ mode' \in [Clients -> {"create", "connect", "reload", "pair"}]
             /\ UNCHANGED held
             /\ task' \in [Clients -> {None, "path", "build", "hold", "install", "save", "run",
                             "tail", "failed", "done"}]
<1>1. PICK c \in Clients :
        /\ task[c] = None /\ task' = [task EXCEPT ![c] = "path"]
        /\ mode' = [mode EXCEPT ![c] = m] /\ UNCHANGED held
  BY DEF Spawn, Set
<1>2. task' \in [Clients -> {None, "path", "build", "hold", "install", "save", "run",
                            "tail", "failed", "done"}]
  BY <1>1 DEF TypeOK
<1>3. mode' \in [Clients -> {"create", "connect", "reload", "pair"}]
  BY <1>1 DEF TypeOK
<1> QED
  BY <1>1, <1>2, <1>3

\* A client that is disconnected is stopped, and no other one changes.
LEMMA Disconnecting ==
    ASSUME TypeOK, NEW x \in 1..MaxRuntimes, disconnect(x)
    PROVE  /\ live' \in [Clients -> {None, "built", "open", "in", "down", "out", "stopped"}]
           /\ \A c \in Clients : live'[c] = IF c = rt[x].slot /\ rt[x].slot # None
                                            THEN "stopped" ELSE live[c]
<1>1. /\ rt[x].slot \in Clients \cup {None}
      /\ live \in [Clients -> {None, "built", "open", "in", "down", "out", "stopped"}]
  BY DEF TypeOK
<1>2. CASE rt[x].slot = None
  BY <1>1, <1>2 DEF disconnect
<1>3. CASE rt[x].slot # None
  BY <1>1, <1>3 DEF disconnect, Set
<1> QED
  BY <1>2, <1>3

PcSteps == {"start", "insert", "look", "open", "clear", "save", "again",
            "path", "zip", "unzip", "hooks", "delete", "done"}

LEMMA Moves ==
    ASSUME TypeOK, NEW r \in Requests, NEW to \in PcSteps, GoTo(r, to)
    PROVE  /\ pc' \in [Requests -> PcSteps] /\ UNCHANGED kind /\ pc'[r] = to
           /\ \A q \in Requests \ {r} : pc'[q] = pc[q]
BY DEF GoTo, Set, TypeOK, PcSteps

\* What requests do first.
LEMMA RequestTypes1 ==
    ASSUME Basics, NEW r \in Requests,
           \/ get_session(r) \/ create_session(r) \/ insert_session(r) \/ look(r)
           \/ get_storage_path(r) \/ zip_directory(r) \/ unzip_directory(r)
           \/ remove_session(r) \/ delete_session(r) \/ save(r)
    PROVE  TypeOK'
<1> USE DEF Basics
<1>1. CASE get_session(r)
  <2>1. PICK to \in PcSteps : GoTo(r, to)
    BY <1>1 DEF get_session, PcSteps
  <2>2. seen' \in [Requests -> Rows]
    BY <1>1 DEF get_session, Set, TypeOK
  <2> QED
    BY <1>1, <2>1, <2>2, Moves DEF get_session, TypeOK, PcSteps, memory, conn, client, handler
<1>2. CASE create_session(r) \/ look(r) \/ get_storage_path(r) \/ zip_directory(r) \/ unzip_directory(r)
  <2>1. PICK to \in PcSteps : GoTo(r, to)
    BY <1>2 DEF create_session, look, get_storage_path, zip_directory, unzip_directory, Step, PcSteps
  <2>2. UNCHANGED <<row, current, rt, made, at, seen, task, mode, held, live, auto, ev, evat, events, faults>>
    BY <1>2 DEF create_session, look, get_storage_path, zip_directory, unzip_directory,
       memory, conn, client, handler
  <2> QED
    BY <2>1, <2>2, Moves DEF TypeOK, PcSteps
<1>3. CASE insert_session(r)
  <2>1. PICK to \in PcSteps : GoTo(r, to)
    BY <1>3 DEF insert_session, PcSteps
  <2>2. row' \in Rows
    BY <1>3 DEF insert_session, Rows, TypeOK
  <2> QED
    BY <1>3, <2>1, <2>2, Moves DEF insert_session, TypeOK, PcSteps, memory, conn, client, handler
<1>4. CASE remove_session(r)
  <2>1. GoTo(r, "delete") /\ current' \in 0..MaxRuntimes
    BY <1>4, LifecycleAssumption DEF remove_session, Step, LifecycleAssumption
  <2> QED
    BY <1>4, <2>1, Moves DEF remove_session, TypeOK, PcSteps, conn, client, handler
<1>5. CASE delete_session(r)
  <2>1. GoTo(r, "done") /\ row' \in Rows
    BY <1>5 DEF delete_session, Step, Rows, NoRow
  <2> QED
    BY <1>5, <2>1, Moves DEF delete_session, TypeOK, PcSteps, memory, conn, client, handler
<1>6. CASE save(r)
  <2>1. PICK to \in PcSteps : GoTo(r, to)
    BY <1>6 DEF save, PcSteps
  <2>2. (Is(r, {"disconnect_all"}) /\ seen[r].logged) \in BOOLEAN
    BY DEF TypeOK, Rows, Is
  <2>3. row' \in Rows /\ faults' \in 0..MaxFaults
    BY <1>6, <2>2, RowUpdate DEF save
  <2> QED
    BY <1>6, <2>1, <2>3, Moves DEF save, TypeOK, PcSteps, memory, conn, client, handler
<1> QED
  BY <1>1, <1>2, <1>3, <1>4, <1>5, <1>6

\* Those that stop a client.
LEMMA RequestTypes2 ==
    ASSUME Basics, NEW r \in Requests,
           connect_session(r) \/ stop(r) \/ run_reconnect_watchdog(r) \/ ensure_connecting_for_wait(r)
    PROVE  /\ TypeOK'
           /\ live' # live => \E x \in 1..MaxRuntimes : disconnect(x) /\ x = at'[r]
<1> USE DEF Basics
<1>1. PICK to \in PcSteps : GoTo(r, to)
  BY DEF connect_session, stop, run_reconnect_watchdog, ensure_connecting_for_wait, PcSteps
<1>2. at' \in [Requests -> 0..MaxRuntimes]
  <2>1. CASE ensure_connecting_for_wait(r)
    BY <2>1, GetOrCreate DEF ensure_connecting_for_wait
  <2> QED
    BY <2>1 DEF connect_session, stop, run_reconnect_watchdog, Set, TypeOK
<1>3. /\ current' \in 0..MaxRuntimes /\ made' \in 0..MaxRuntimes
      /\ UNCHANGED <<row, rt, seen, task, mode, held, auto, ev, evat, events, faults>>
  <2>1. CASE ensure_connecting_for_wait(r)
    BY <2>1, GetOrCreate DEF ensure_connecting_for_wait, conn, handler
  <2> QED
    BY <2>1 DEF connect_session, stop, run_reconnect_watchdog, memory, conn, handler, TypeOK
<1>4. live' # live => \E x \in 1..MaxRuntimes : disconnect(x) /\ x = at'[r]
  <2>1. CASE ensure_connecting_for_wait(r)
    <3>1. at'[r] \in 1..MaxRuntimes
      BY <2>1, GetOrCreate DEF ensure_connecting_for_wait, TypeOK
    <3> QED
      BY <2>1, <3>1 DEF ensure_connecting_for_wait
  <2>2. CASE connect_session(r) \/ stop(r) \/ run_reconnect_watchdog(r)
    <3>1. at'[r] = current /\ (live' # live => current # 0 /\ disconnect(current))
      BY <2>2 DEF connect_session, stop, run_reconnect_watchdog, Set, TypeOK
    <3>2. current # 0 => current \in 1..MaxRuntimes
      BY LifecycleAssumption DEF TypeOK, LifecycleAssumption
    <3> QED
      BY <3>1, <3>2
  <2> QED
    BY <2>1, <2>2
<1>5. live' \in [Clients -> {None, "built", "open", "in", "down", "out", "stopped"}]
  BY <1>4, Disconnecting DEF TypeOK
<1>6. pc' \in [Requests -> PcSteps] /\ UNCHANGED kind
  BY <1>1, Moves
<1> QED
  BY <1>2, <1>3, <1>4, <1>5, <1>6 DEF TypeOK, PcSteps

\* A runtime keeps its type whatever field is written.
LEMMA RuntimeUpdate ==
    ASSUME TypeOK, NEW x \in 1..MaxRuntimes, NEW y \in StateRecord, rt' = [rt EXCEPT ![x] = y]
    PROVE  /\ rt' \in [1..MaxRuntimes -> StateRecord]
           /\ rt'[x] = y /\ \A z \in (1..MaxRuntimes) \ {x} : rt'[z] = rt[z]
BY DEF TypeOK, StateRecord

LEMMA StatusUpdate ==
    ASSUME TypeOK, NEW x \in 1..MaxRuntimes, NEW s \in Statuses, rt' = [rt EXCEPT ![x].status = s]
    PROVE  /\ rt' \in [1..MaxRuntimes -> StateRecord]
           /\ rt'[x] = [rt[x] EXCEPT !.status = s]
           /\ rt'[x].slot = rt[x].slot /\ rt'[x].status = s
           /\ \A z \in (1..MaxRuntimes) \ {x} : rt'[z] = rt[z]
<1>1. rt[x] \in StateRecord
  BY DEF TypeOK, StateRecord
<1>2. [rt[x] EXCEPT !.status = s] \in StateRecord
  BY <1>1 DEF StateRecord
<1>3. rt' = [rt EXCEPT ![x] = [rt[x] EXCEPT !.status = s]]
  OBVIOUS
<1>4. rt'[x] = [rt[x] EXCEPT !.status = s] /\ rt' \in [1..MaxRuntimes -> StateRecord]
      /\ \A z \in (1..MaxRuntimes) \ {x} : rt'[z] = rt[z]
  BY <1>2, <1>3, RuntimeUpdate
<1> QED
  BY <1>1, <1>4 DEF StateRecord

\* What clear and the spawning requests do to runtimes.
LEMMA ClearRuntime ==
    ASSUME Basics, NEW r \in Requests, clear(r)
    PROVE  LET x == IF Is(r, {"disconnect_all"}) THEN current ELSE at[r]
           IN  /\ x \in 0..MaxRuntimes
               /\ x = 0 => UNCHANGED rt
               /\ x # 0 => /\ rt' \in [1..MaxRuntimes -> StateRecord]
                           /\ rt'[x].slot = None
                           /\ rt'[x].status = IF Is(r, {"wait"}) THEN "Connecting" ELSE "Disconnected"
                           /\ \A z \in (1..MaxRuntimes) \ {x} : rt'[z] = rt[z]
<1> DEFINE x == IF Is(r, {"disconnect_all"}) THEN current ELSE at[r]
           y == [Idle(x) EXCEPT
                      !.status = IF Is(r, {"wait"}) THEN "Connecting" ELSE "Disconnected",
                      !.reconnecting = Is(r, {"disconnect_all"}) /\ @,
                      !.cooldown = ~Is(r, {"connect", "wait"}) /\ @]
<1>1. x \in 0..MaxRuntimes
  BY DEF Basics, TypeOK
<1>2. x = 0 => UNCHANGED rt
  BY DEF clear
<1>3. ASSUME x # 0
      PROVE  /\ rt' \in [1..MaxRuntimes -> StateRecord]
             /\ rt'[x].slot = None
             /\ rt'[x].status = IF Is(r, {"wait"}) THEN "Connecting" ELSE "Disconnected"
             /\ \A z \in (1..MaxRuntimes) \ {x} : rt'[z] = rt[z]
  <2>1. x \in 1..MaxRuntimes
    BY <1>1, <1>3, LifecycleAssumption DEF LifecycleAssumption
  <2>2. Idle(x) \in StateRecord /\ Idle(x).slot = None
    BY <2>1, IdleRecord DEF Basics
  <2>3. y \in StateRecord /\ y.slot = None
        /\ y.status = IF Is(r, {"wait"}) THEN "Connecting" ELSE "Disconnected"
    <3> DEFINE b == Is(r, {"disconnect_all"}) /\ Idle(x).reconnecting
               k == ~Is(r, {"connect", "wait"}) /\ Idle(x).cooldown
               s == IF Is(r, {"wait"}) THEN "Connecting" ELSE "Disconnected"
    <3>1. b \in BOOLEAN /\ k \in BOOLEAN
      OBVIOUS
    <3>2. s \in Statuses
      BY DEF Statuses
    <3>3. y = [Idle(x) EXCEPT !.status = s, !.reconnecting = b, !.cooldown = k]
      OBVIOUS
    <3> HIDE DEF b, k, s, x, y
    <3>4. y \in StateRecord /\ y.slot = None /\ y.status = s
      BY <2>2, <3>1, <3>2, <3>3 DEF StateRecord
    <3> QED
      BY <3>4 DEF s
  <2>4. rt' = [rt EXCEPT ![x] = y]
    BY <1>3 DEF clear, Set
  <2> HIDE DEF x, y
  <2>5. rt' \in [1..MaxRuntimes -> StateRecord] /\ rt'[x] = y
        /\ \A z \in (1..MaxRuntimes) \ {x} : rt'[z] = rt[z]
    BY <2>1, <2>3, <2>4, RuntimeUpdate DEF Basics
  <2> QED
    BY <2>3, <2>5
<1> QED
  BY <1>1, <1>2, <1>3

Kept == UNCHANGED <<row, seen, live, auto, ev, evat, events, faults>>

\* Requests that give out connect tasks, or prepare for one.
LEMMA RequestTypes3 ==
    ASSUME Basics, NEW r \in Requests,
           clear(r) \/ reconnect(r) \/ open(r) \/ reconnect_all_on_startup(r) \/ pair_session(r)
    PROVE  TypeOK'
<1> USE DEF Basics
<1>1. PICK to \in PcSteps : GoTo(r, to)
  BY DEF clear, reconnect, open, reconnect_all_on_startup, pair_session, Step, PcSteps
<1>2. pc' \in [Requests -> PcSteps] /\ UNCHANGED kind
  BY <1>1, Moves
<1>3. Kept
  BY DEF clear, reconnect, open, reconnect_all_on_startup, pair_session, Kept, client, handler
<1>4. \/ UNCHANGED conn
      \/ \E m \in {"create", "connect", "reload", "pair"} : Spawn(m)
  BY DEF clear, reconnect, open, reconnect_all_on_startup, pair_session, Is
<1>5. /\ task' \in [Clients -> {None, "path", "build", "hold", "install", "save", "run",
                             "tail", "failed", "done"}]
      /\ mode' \in [Clients -> {"create", "connect", "reload", "pair"}]
      /\ held' \in [Clients -> 0..MaxRuntimes]
  <2>1. CASE UNCHANGED conn
    BY <2>1 DEF conn, TypeOK
  <2>2. ASSUME NEW m \in {"create", "connect", "reload", "pair"}, Spawn(m)
        PROVE  /\ task' \in [Clients -> {None, "path", "build", "hold", "install", "save", "run",
                             "tail", "failed", "done"}]
               /\ mode' \in [Clients -> {"create", "connect", "reload", "pair"}]
               /\ held' \in [Clients -> 0..MaxRuntimes]
    BY <2>2, Spawned DEF TypeOK
  <2> QED
    BY <1>4, <2>1, <2>2
<1>6. /\ rt' \in [1..MaxRuntimes -> StateRecord]
      /\ current' \in 0..MaxRuntimes /\ made' \in 0..MaxRuntimes
      /\ at' \in [Requests -> 0..MaxRuntimes]
  <2>0. rt \in [1..MaxRuntimes -> StateRecord]
    BY DEF TypeOK, StateRecord
  <2>1. CASE clear(r)
    BY <2>0, <2>1, ClearRuntime DEF clear, TypeOK
  <2>2. CASE reconnect(r)
    <3>0. at[r] \in 0..MaxRuntimes /\ at[r] # 0
      BY <2>2 DEF reconnect, Step, TypeOK, Places
    <3>1. at[r] \in 1..MaxRuntimes
      BY <3>0, LifecycleAssumption DEF LifecycleAssumption
    <3>2. rt' \in [1..MaxRuntimes -> StateRecord]
      BY <2>2, <3>1, StatusUpdate DEF reconnect, Statuses
    <3> QED
      BY <2>2, <3>2 DEF reconnect, TypeOK
  <2>3. ASSUME NEW s \in Statuses, get_or_create_session(r), rt' = [rt EXCEPT ![Runtime].status = s]
        PROVE  /\ rt' \in [1..MaxRuntimes -> StateRecord]
               /\ current' \in 0..MaxRuntimes /\ made' \in 0..MaxRuntimes
               /\ at' \in [Requests -> 0..MaxRuntimes]
    <3>1. Runtime \in 1..MaxRuntimes
      BY <2>3, GetOrCreate
    <3>2. rt' \in [1..MaxRuntimes -> StateRecord]
      BY <2>3, <3>1, StatusUpdate
    <3> QED
      BY <2>3, <3>2, GetOrCreate
  <2>4. CASE open(r)
    BY <2>3, <2>4 DEF open, Statuses
  <2>5. CASE UNCHANGED <<memory, at>>
    BY <2>0, <2>5 DEF memory, TypeOK
  <2>6. CASE reconnect_all_on_startup(r)
    BY <2>3, <2>5, <2>6 DEF reconnect_all_on_startup, Statuses
  <2>7. CASE pair_session(r)
    <3>1. UNCHANGED memory /\ UNCHANGED at => UNCHANGED <<memory, at>>
      OBVIOUS
    <3> QED
      BY <2>3, <2>5, <2>7, <3>1 DEF pair_session, Statuses
  <2> QED
    BY <2>1, <2>2, <2>4, <2>6, <2>7
<1> HIDE DEF Basics
<1>7. TypeOK
  BY DEF Basics
<1> QED
  BY <1>2, <1>3, <1>5, <1>6, <1>7 DEF TypeOK, PcSteps, Kept, StateRecord

LEMMA RequestTypes4 ==
    ASSUME Basics, NEW r \in Requests, set_auto_reconnect(r) PROVE TypeOK'
<1> USE DEF Basics
<1>1. pc' \in [Requests -> PcSteps] /\ UNCHANGED kind
  BY Moves DEF set_auto_reconnect, Step, PcSteps
<1>2. /\ current' \in 0..MaxRuntimes /\ made' \in 0..MaxRuntimes
      /\ at' \in [Requests -> 0..MaxRuntimes] /\ Runtime \in 1..MaxRuntimes
  BY GetOrCreate DEF set_auto_reconnect
<1>3. rt' \in [1..MaxRuntimes -> StateRecord]
  <2>1. rt[Runtime] \in StateRecord
    BY <1>2 DEF TypeOK, StateRecord
  <2>2. [rt[Runtime] EXCEPT !.pref = FALSE] \in StateRecord
    BY <2>1 DEF StateRecord
  <2>3. rt' = [rt EXCEPT ![Runtime] = [rt[Runtime] EXCEPT !.pref = FALSE]]
    BY DEF set_auto_reconnect
  <2> QED
    BY <1>2, <2>2, <2>3, RuntimeUpdate
<1>4. auto' \in [Clients -> BOOLEAN]
  <2>1. CASE current # 0 /\ rt[current].slot # None
    <3>1. rt[current].slot \in Clients
      BY <2>1, LifecycleAssumption DEF TypeOK, LifecycleAssumption
    <3> QED
      BY <2>1, <3>1 DEF set_auto_reconnect, TypeOK, Set
  <2>2. CASE ~(current # 0 /\ rt[current].slot # None)
    BY <2>2 DEF set_auto_reconnect, TypeOK
  <2> QED
    BY <2>1, <2>2
<1>5. UNCHANGED <<row, seen, task, mode, held, live, ev, evat, events, faults>>
  BY DEF set_auto_reconnect, conn, handler
<1> QED
  BY <1>1, <1>2, <1>3, <1>4, <1>5 DEF TypeOK, PcSteps, StateRecord

TaskSteps == {None, "path", "build", "hold", "install", "save", "run", "tail", "failed", "done"}
Lives == {None, "built", "open", "in", "down", "out", "stopped"}

LEMMA TaskMoves ==
    ASSUME TypeOK, NEW c \in Clients, NEW from, NEW to \in TaskSteps, TaskTo(c, from, to)
    PROVE  /\ task' \in [Clients -> TaskSteps] /\ task[c] = from /\ task'[c] = to
           /\ \A d \in Clients \ {c} : task'[d] = task[d]
BY DEF TaskTo, Set, TypeOK, TaskSteps

\* The runtime that set_client writes, and those of a failed or returned task.
LEMMA TaskRuntimes ==
    ASSUME Basics, NEW c \in Clients, set_client(c) \/ run_returned(c) \/ connect_failed(c)
    PROVE  /\ rt' \in [1..MaxRuntimes -> StateRecord]
           /\ set_client(c) =>
                /\ held[c] \in 1..MaxRuntimes /\ rt'[held[c]].slot = c
                /\ \A z \in (1..MaxRuntimes) \ {held[c]} : rt'[z] = rt[z]
           /\ ~set_client(c) =>
                /\ current = 0 => UNCHANGED rt
                /\ current # 0 => /\ current \in 1..MaxRuntimes
                                  /\ rt'[current].status = "Disconnected"
                                  /\ rt'[current].slot \in {None, rt[current].slot}
                                  /\ run_returned(c) => rt'[current].slot = None
                /\ \A z \in (1..MaxRuntimes) \ {current} : rt'[z] = rt[z]
<1> USE DEF Basics
<1>0. rt \in [1..MaxRuntimes -> StateRecord]
  BY DEF TypeOK, StateRecord
<1>1. ASSUME set_client(c)
      PROVE  /\ held[c] \in 1..MaxRuntimes /\ rt'[held[c]].slot = c
             /\ \A z \in (1..MaxRuntimes) \ {held[c]} : rt'[z] = rt[z]
             /\ rt' \in [1..MaxRuntimes -> StateRecord]
  <2>1. held[c] \in 0..MaxRuntimes /\ held[c] # 0
    BY <1>1 DEF set_client, TaskTo, TypeOK, Places
  <2>2. held[c] \in 1..MaxRuntimes
    BY <2>1, LifecycleAssumption DEF LifecycleAssumption
  <2> DEFINE s == IF mode[c] = "pair" THEN rt[held[c]].status ELSE "WaitingForQr"
             y == [rt[held[c]] EXCEPT !.slot = c, !.status = s]
  <2>3. s \in Statuses /\ rt[held[c]] \in StateRecord
    BY <1>0, <2>2 DEF StateRecord, Statuses
  <2>4. rt' = [rt EXCEPT ![held[c]] = y]
    BY <1>0, <1>1, <2>2 DEF set_client, StateRecord
  <2> HIDE DEF s
  <2>5. y \in StateRecord /\ y.slot = c
    BY <2>3 DEF StateRecord
  <2> HIDE DEF y
  <2> QED
    BY <2>2, <2>4, <2>5, RuntimeUpdate
<1>2. ASSUME run_returned(c) \/ connect_failed(c), current # 0
      PROVE  /\ current \in 1..MaxRuntimes
             /\ rt'[current].status = "Disconnected"
             /\ rt'[current].slot \in {None, rt[current].slot}
             /\ run_returned(c) => rt'[current].slot = None
             /\ \A z \in (1..MaxRuntimes) \ {current} : rt'[z] = rt[z]
             /\ rt' \in [1..MaxRuntimes -> StateRecord]
  <2>1. current \in 1..MaxRuntimes
    BY <1>2, LifecycleAssumption DEF TypeOK, LifecycleAssumption
  <2>2. Idle(current) \in StateRecord /\ Idle(current).slot = None
        /\ Idle(current).status = "Disconnected"
    BY <2>1, IdleRecord
  <2> DEFINE y == IF run_returned(c) \/ mode[c] = "connect" THEN Idle(current)
                  ELSE [rt[current] EXCEPT !.status = "Disconnected"]
  <2>3. rt[current] \in StateRecord
    BY <1>0, <2>1
  <2>4. /\ y \in StateRecord /\ y.status = "Disconnected" /\ y.slot \in {None, rt[current].slot}
        /\ run_returned(c) => y.slot = None
    BY <2>2, <2>3 DEF StateRecord, Statuses
  <2>5. ~(run_returned(c) /\ connect_failed(c))
    BY DEF run_returned, connect_failed, TaskTo
  <2>6. rt' = [rt EXCEPT ![current] = y]
    BY <1>2, <2>5 DEF run_returned, connect_failed, Set
  <2> HIDE DEF y
  <2> QED
    BY <2>1, <2>4, <2>6, RuntimeUpdate
<1>3. run_returned(c) \/ connect_failed(c) => ~set_client(c)
  BY DEF run_returned, connect_failed, set_client, TaskTo
<1>4. (run_returned(c) \/ connect_failed(c)) /\ current = 0 => UNCHANGED rt
  BY DEF run_returned, connect_failed
<1> QED
  BY <1>0, <1>1, <1>2, <1>3, <1>4

LEMMA TaskTypes == ASSUME Basics, NEW c \in Clients, TaskStep(c) PROVE TypeOK'
<1> USE DEF Basics
<1>1. PICK from \in TaskSteps, to \in TaskSteps : TaskTo(c, from, to)
  <2>1. ASSUME connect_client(c)
        PROVE  TaskTo(c, "path", IF row = NoRow THEN "failed" ELSE "build")
    BY <2>1 DEF connect_client, TaskTo
  <2>2. ASSUME apply_preferences(c)
        PROVE  TaskTo(c, "hold", IF current # 0 THEN "install" ELSE "save")
    BY <2>2 DEF apply_preferences
  <2>3. /\ build(c) => TaskTo(c, "build", "hold") \/ TaskTo(c, "build", "failed")
        /\ set_client(c) => TaskTo(c, "install", "save")
        /\ run(c) => TaskTo(c, "save", "run")
        /\ run_returned(c) => TaskTo(c, "run", "tail")
        /\ tail(c) => TaskTo(c, "tail", "done")
        /\ connect_failed(c) => TaskTo(c, "failed", "done")
    BY DEF build, set_client, run, run_returned, tail, connect_failed
  <2>4. {"path", "build", "hold", "install", "save", "run", "tail", "failed", "done"} \subseteq TaskSteps
    BY DEF TaskSteps
  <2> HIDE DEF Basics
  <2> QED
    BY <2>1, <2>2, <2>3, <2>4 DEF TaskStep
<1>2. task' \in [Clients -> TaskSteps]
  BY <1>1, TaskMoves
<1>3. UNCHANGED <<request, current, made, mode, handler>>
  BY DEF TaskStep, connect_client, build, apply_preferences, set_client, run, run_returned,
         tail, connect_failed, memory
<1>4. live' \in [Clients -> Lives]
  <2>1. live' = live \/ live' = [live EXCEPT ![c] = "built"] \/ live' = [live EXCEPT ![c] = "open"]
    BY DEF TaskStep, connect_client, build, apply_preferences, set_client, run, run_returned,
         tail, connect_failed, client, Set
  <2> QED
    BY <2>1 DEF TypeOK, Lives
<1>5. auto' \in [Clients -> BOOLEAN] /\ held' \in [Clients -> 0..MaxRuntimes]
  <2>1. CASE apply_preferences(c)
    <3>1. current # 0 => rt[current].pref \in BOOLEAN
      BY LifecycleAssumption DEF TypeOK, LifecycleAssumption
    <3>2. auto' \in [Clients -> BOOLEAN]
      BY <2>1, <3>1 DEF apply_preferences, Set, TypeOK
    <3>3. held' \in [Clients -> 0..MaxRuntimes]
      BY <2>1 DEF apply_preferences, Set, TypeOK
    <3> QED
      BY <3>2, <3>3
  <2>2. CASE ~apply_preferences(c)
    BY <2>2 DEF TaskStep, connect_client, build, set_client, run, run_returned,
         tail, connect_failed, client, TypeOK
  <2> QED
    BY <2>1, <2>2
<1>6. row' \in Rows /\ faults' \in 0..MaxFaults
  BY RowUpdate DEF TaskStep, connect_client, build, apply_preferences, set_client, run,
         run_returned, tail, connect_failed, TypeOK
<1>7. rt' \in [1..MaxRuntimes -> StateRecord]
  BY TaskRuntimes DEF TaskStep, connect_client, build, apply_preferences, run, tail, memory,
     TypeOK, StateRecord
<1> HIDE DEF Basics
<1>8. TypeOK
  BY DEF Basics
<1> QED
  BY <1>2, <1>3, <1>4, <1>5, <1>6, <1>7, <1>8 DEF TypeOK, TaskSteps, Lives, StateRecord,
     request, handler

Untouched(x) == rt'[x].slot = rt[x].slot /\ rt'[x].status = rt[x].status

\* What an event handler writes into the runtime it holds.
LEMMA HandlerRuntimes ==
    ASSUME Basics, NEW c \in Clients, HandlerStep(c)
    PROVE  /\ rt' \in [1..MaxRuntimes -> StateRecord]
           /\ logged_out(c) =>
                /\ evat[c] \in 1..MaxRuntimes
                /\ rt'[evat[c]].slot = None /\ rt'[evat[c]].status = "Disconnected"
                /\ \A z \in (1..MaxRuntimes) \ {evat[c]} : rt'[z] = rt[z]
           /\ ~logged_out(c) => \A z \in 1..MaxRuntimes : Untouched(z)
<1> USE DEF Basics
<1>0. rt \in [1..MaxRuntimes -> StateRecord]
  BY DEF TypeOK, StateRecord
<1>1. ASSUME ev[c] \in {"lock", "lock end", "flap", "flap end"} PROVE evat[c] \in 1..MaxRuntimes
  <2>1. evat[c] \in 0..MaxRuntimes /\ evat[c] # 0
    BY <1>1 DEF TypeOK, Places
  <2> QED
    BY <2>1, LifecycleAssumption DEF LifecycleAssumption
<1>2. CASE logged_out(c)
  <2>1. evat[c] \in 1..MaxRuntimes
    BY <1>1, <1>2 DEF logged_out
  <2>2. Idle(evat[c]) \in StateRecord /\ Idle(evat[c]).slot = None
        /\ Idle(evat[c]).status = "Disconnected"
    BY <2>1, IdleRecord
  <2> DEFINE y == [Idle(evat[c]) EXCEPT !.reconnecting = FALSE]
  <2>3. y \in StateRecord /\ y.slot = None /\ y.status = "Disconnected"
    BY <2>2 DEF StateRecord
  <2>4. rt' = [rt EXCEPT ![evat[c]] = y]
    BY <1>2 DEF logged_out, Set
  <2> HIDE DEF y
  <2> QED
    BY <1>2, <2>1, <2>3, <2>4, RuntimeUpdate
<1>3. ASSUME NEW x \in 1..MaxRuntimes, NEW y \in StateRecord, rt' = [rt EXCEPT ![x] = y],
             y.slot = rt[x].slot, y.status = rt[x].status
      PROVE  rt' \in [1..MaxRuntimes -> StateRecord] /\ \A z \in 1..MaxRuntimes : Untouched(z)
  BY <1>3, RuntimeUpdate DEF Untouched
<1>4. CASE record_lock_cooldown(c)
  <2>1. evat[c] \in 1..MaxRuntimes
    BY <1>1, <1>4 DEF record_lock_cooldown, EvTo
  <2> DEFINE y == [rt[evat[c]] EXCEPT !.cooldown = TRUE]
  <2>2. y \in StateRecord /\ y.slot = rt[evat[c]].slot /\ y.status = rt[evat[c]].status
    BY <1>0, <2>1 DEF StateRecord
  <2>3. rt' = [rt EXCEPT ![evat[c]] = y] /\ ~logged_out(c)
    BY <1>4 DEF record_lock_cooldown, logged_out, EvTo
  <2> HIDE DEF y
  <2> QED
    BY <1>3, <2>1, <2>2, <2>3
<1>5. CASE record_logout_and_should_purge(c)
  <2>1. evat[c] \in 1..MaxRuntimes /\ rt[evat[c]] \in StateRecord
    BY <1>0, <1>1, <1>5 DEF record_logout_and_should_purge, EvTo
  <2>2. PICK n \in 1..(rt[evat[c]].logouts + 1) : rt' = [rt EXCEPT ![evat[c]].logouts = n]
    BY <1>5 DEF record_logout_and_should_purge
  <2> DEFINE y == [rt[evat[c]] EXCEPT !.logouts = n]
  <2>3. n \in Nat
    BY <2>1 DEF StateRecord
  <2>4. y \in StateRecord /\ y.slot = rt[evat[c]].slot /\ y.status = rt[evat[c]].status
    BY <2>1, <2>3 DEF StateRecord
  <2>5. rt' = [rt EXCEPT ![evat[c]] = y] /\ ~logged_out(c)
    BY <1>5, <2>2 DEF record_logout_and_should_purge, logged_out, EvTo
  <2> HIDE DEF y
  <2> QED
    BY <1>3, <2>1, <2>4, <2>5
<1>6. CASE event_saved(c) \/ logged_out_saved(c) \/ purge(c)
  <2>1. UNCHANGED rt /\ ~logged_out(c)
    BY <1>6 DEF event_saved, logged_out_saved, purge, memory, logged_out, EvTo
  <2> QED
    BY <1>0, <2>1 DEF Untouched
<1> QED
  BY <1>2, <1>4, <1>5, <1>6 DEF HandlerStep

LEMMA HandlerTypes == ASSUME Basics, NEW c \in Clients, HandlerStep(c) PROVE TypeOK'
<1> USE DEF Basics
<1>1. rt' \in [1..MaxRuntimes -> StateRecord]
  BY HandlerRuntimes
<1>2. UNCHANGED <<made, request, conn, client, evat, events>>
  BY DEF HandlerStep, event_saved, logged_out, logged_out_saved, record_lock_cooldown,
         record_logout_and_should_purge, purge, memory
<1>3. current' \in {current, 0}
  BY DEF HandlerStep, event_saved, logged_out, logged_out_saved, record_lock_cooldown,
         record_logout_and_should_purge, purge, memory
<1>4. row' \in Rows /\ faults' \in 0..MaxFaults
  <2>1. CASE event_saved(c)
    <3>1. PICK s \in {"Disconnected", "Connecting", "WaitingForQr", "LoggedIn"}, l \in BOOLEAN :
             update_session_status(s, l)
      BY <2>1 DEF event_saved
    <3> QED
      BY <3>1, RowUpdate
  <2>2. CASE logged_out_saved(c)
    BY <2>2, RowUpdate DEF logged_out_saved
  <2>3. CASE ~event_saved(c) /\ ~logged_out_saved(c)
    <3>1. CASE purge(c)
      <4>1. (row' = row \/ row' = NoRow) /\ UNCHANGED faults
        BY <3>1 DEF purge
      <4>2. row \in Rows /\ faults \in 0..MaxFaults
        BY DEF TypeOK
      <4>3. NoRow \in Rows
        BY DEF NoRow, Rows
      <4> QED
        BY <4>1, <4>2, <4>3
    <3>2. CASE logged_out(c) \/ record_lock_cooldown(c) \/ record_logout_and_should_purge(c)
      BY <3>2 DEF logged_out, record_lock_cooldown, record_logout_and_should_purge, TypeOK
    <3> QED
      BY <2>3, <3>1, <3>2 DEF HandlerStep
  <2> QED
    BY <2>1, <2>2, <2>3
<1> HIDE DEF Basics
<1>5. TypeOK /\ 0 \in 0..MaxRuntimes
  BY LifecycleAssumption DEF Basics, LifecycleAssumption
<1> QED
  BY <1>1, <1>2, <1>3, <1>4, <1>5 DEF TypeOK, StateRecord, request, conn, client

\* Events change the status of the current runtime, and no slot.
LEMMA EventRuntimes ==
    ASSUME Basics, NEW c \in Clients, ClientStep(c)
    PROVE  /\ rt' \in [1..MaxRuntimes -> StateRecord]
           /\ \A z \in 1..MaxRuntimes : rt'[z].slot = rt[z].slot
           /\ \A z \in (1..MaxRuntimes) \ {current} : rt'[z] = rt[z]
           /\ rt' # rt => task[c] = "run"
           /\ UNCHANGED <<row, current, made, request, conn, faults>>
           /\ events' \in 0..MaxEvents /\ evat' \in [Clients -> 0..MaxRuntimes]
<1> USE DEF Basics
<1>0. rt \in [1..MaxRuntimes -> StateRecord]
  BY DEF TypeOK, StateRecord
<1>1. UNCHANGED <<row, current, made, request, conn, faults>>
  BY DEF ClientStep, PairingQrCode, Connected, Disconnected, GivesUp, LoggedOut, Event, memory
<1>2. events' \in 0..MaxEvents
  <2>1. UNCHANGED events \/ (events < MaxEvents /\ events' = events + 1)
    BY DEF ClientStep, PairingQrCode, Connected, Disconnected, GivesUp, LoggedOut, Event, handler
  <2> QED
    BY <2>1, LifecycleAssumption DEF TypeOK, LifecycleAssumption
<1>3. evat' \in [Clients -> 0..MaxRuntimes]
  <2>1. UNCHANGED evat \/ evat' = [evat EXCEPT ![c] = current]
    BY DEF ClientStep, PairingQrCode, Connected, Disconnected, GivesUp, LoggedOut, Event, Set, handler
  <2> QED
    BY <2>1 DEF TypeOK
<1>4. rt' # rt => task[c] = "run"
  BY DEF ClientStep, PairingQrCode, Connected, Disconnected, GivesUp, LoggedOut, Event, memory
<1>5. rt' = rt \/ \E y \in StateRecord : /\ current \in 1..MaxRuntimes
                                        /\ rt' = [rt EXCEPT ![current] = y]
                                        /\ y.slot = rt[current].slot
  <2>1. CASE current = 0 \/ GivesUp(c) \/ \E lock \in BOOLEAN : LoggedOut(c, lock)
    BY <2>1 DEF ClientStep, PairingQrCode, Connected, Disconnected, GivesUp, LoggedOut, memory
  <2>2. CASE current # 0 /\ (PairingQrCode(c) \/ Connected(c) \/ Disconnected(c))
    <3>1. current \in 1..MaxRuntimes
      BY <2>2, LifecycleAssumption DEF TypeOK, LifecycleAssumption
    <3>2. rt[current] \in StateRecord
      BY <1>0, <3>1
    <3>3. CASE PairingQrCode(c)
      <4>1. rt' = [rt EXCEPT ![current] = [rt[current] EXCEPT !.status = "WaitingForQr"]]
        BY <2>2, <3>3 DEF PairingQrCode
      <4>2. [rt[current] EXCEPT !.status = "WaitingForQr"] \in StateRecord
        BY <3>2 DEF StateRecord, Statuses
      <4> QED
        BY <3>1, <3>2, <4>1, <4>2 DEF StateRecord
    <3>4. CASE Connected(c)
      <4> DEFINE y == [rt[current] EXCEPT !.status = "LoggedIn", !.reconnecting = FALSE]
      <4>1. rt' = [rt EXCEPT ![current] = y]
        BY <1>0, <2>2, <3>1, <3>4 DEF Connected, StateRecord
      <4>2. y \in StateRecord /\ y.slot = rt[current].slot
        BY <3>2 DEF StateRecord, Statuses
      <4> QED
        BY <3>1, <4>1, <4>2
    <3>5. CASE Disconnected(c)
      <4> DEFINE y == [rt[current] EXCEPT !.status = "Connecting", !.reconnecting = TRUE]
      <4>1. rt' = [rt EXCEPT ![current] = y]
        BY <1>0, <2>2, <3>1, <3>5 DEF Disconnected, StateRecord
      <4>2. y \in StateRecord /\ y.slot = rt[current].slot
        BY <3>2 DEF StateRecord, Statuses
      <4> QED
        BY <3>1, <4>1, <4>2
    <3> QED
      BY <2>2, <3>3, <3>4, <3>5
  <2> QED
    BY <2>1, <2>2 DEF ClientStep
<1>6. /\ rt' \in [1..MaxRuntimes -> StateRecord]
      /\ \A z \in 1..MaxRuntimes : rt'[z].slot = rt[z].slot
      /\ \A z \in (1..MaxRuntimes) \ {current} : rt'[z] = rt[z]
  <2>1. CASE rt' = rt
    BY <1>0, <2>1
  <2>2. CASE rt' # rt
    <3>1. PICK y \in StateRecord : /\ current \in 1..MaxRuntimes
                                   /\ rt' = [rt EXCEPT ![current] = y]
                                   /\ y.slot = rt[current].slot
      BY <1>5, <2>2
    <3> QED
      BY <3>1, RuntimeUpdate
  <2> QED
    BY <2>1, <2>2
<1> QED
  BY <1>1, <1>2, <1>3, <1>4, <1>6

LEMMA EventTypes ==
    ASSUME Basics, NEW c \in Clients, ClientStep(c)
    PROVE  /\ TypeOK'
           /\ \A d \in Clients : live'[d] \in {"stopped", live[d]} \/ (d = c /\ live[d] \in {"open", "in", "down", "out"})
           /\ \A d \in Clients : live'[d] # live[d] => live'[d] \in {"open", "in", "down", "out", "stopped"}
<1> USE DEF Basics
<1>1. /\ live' \in [Clients -> Lives] /\ auto' \in [Clients -> BOOLEAN]
      /\ \A d \in Clients : live'[d] \in {"stopped", live[d]} \/ (d = c /\ live[d] \in {"open", "in", "down", "out"})
      /\ \A d \in Clients : live'[d] # live[d] => live'[d] \in {"open", "in", "down", "out", "stopped"}
  <2>1. ASSUME NEW lock \in BOOLEAN, LoggedOut(c, lock)
        PROVE  /\ live' \in [Clients -> Lives] /\ auto' \in [Clients -> BOOLEAN]
               /\ \A d \in Clients : live'[d] \in {"stopped", live[d]} \/ (d = c /\ live[d] \in {"open", "in", "down", "out"})
               /\ \A d \in Clients : live'[d] # live[d] => live'[d] \in {"open", "in", "down", "out", "stopped"}
    <3>1. PICK k : /\ live' = [x \in Clients |-> IF x = k THEN "stopped" ELSE IF x = c THEN "out" ELSE live[x]]
                   /\ auto' = auto \/ auto' = [auto EXCEPT ![k] = FALSE]
      BY <2>1 DEF LoggedOut, Set
    <3>2. live[c] \in {"open", "in", "down"}
      BY <2>1 DEF LoggedOut
    <3> QED
      BY <3>1, <3>2 DEF TypeOK, Lives
  <2>2. ASSUME PairingQrCode(c) \/ Connected(c) \/ Disconnected(c) \/ GivesUp(c)
        PROVE  /\ live' \in [Clients -> Lives] /\ auto' \in [Clients -> BOOLEAN]
               /\ \A d \in Clients : live'[d] \in {"stopped", live[d]} \/ (d = c /\ live[d] \in {"open", "in", "down", "out"})
               /\ \A d \in Clients : live'[d] # live[d] => live'[d] \in {"open", "in", "down", "out", "stopped"}
    <3>1. PICK l \in {"open", "in", "down", "stopped"} : live' = [live EXCEPT ![c] = l]
      BY <2>2 DEF PairingQrCode, Connected, Disconnected, GivesUp, Event, Set
    <3>2. live[c] \in {"open", "in", "down", "out"} /\ UNCHANGED auto
      BY <2>2 DEF PairingQrCode, Connected, Disconnected, GivesUp, Event
    <3> QED
      BY <3>1, <3>2 DEF TypeOK, Lives
  <2> QED
    BY <2>1, <2>2 DEF ClientStep
<1>2. /\ rt' \in [1..MaxRuntimes -> StateRecord]
      /\ UNCHANGED <<row, current, made, request, conn, faults>>
      /\ events' \in 0..MaxEvents /\ evat' \in [Clients -> 0..MaxRuntimes]
  BY EventRuntimes
<1> HIDE DEF Basics
<1>3. TypeOK
  BY DEF Basics
<1>4. TypeOK'
  BY <1>1, <1>2, <1>3 DEF TypeOK, Lives, StateRecord, request, conn
<1> QED
  BY <1>1, <1>4

Firsts(r) == \/ get_session(r) \/ create_session(r) \/ insert_session(r) \/ look(r)
             \/ get_storage_path(r) \/ zip_directory(r) \/ unzip_directory(r)
             \/ remove_session(r) \/ delete_session(r) \/ save(r)
Stops(r)  == connect_session(r) \/ stop(r) \/ run_reconnect_watchdog(r) \/ ensure_connecting_for_wait(r)
Starts(r) == clear(r) \/ reconnect(r) \/ open(r) \/ reconnect_all_on_startup(r) \/ pair_session(r)

LEMMA RequestKinds ==
    ASSUME NEW r \in Requests, RequestStep(r)
    PROVE  Firsts(r) \/ Stops(r) \/ Starts(r) \/ set_auto_reconnect(r)
BY DEF RequestStep, Firsts, Stops, Starts

\* What a request does to the runtimes: none is touched, or one there is.
LEMMA RequestMemory ==
    ASSUME Basics, NEW r \in Requests, RequestStep(r)
    PROVE  /\ made' \in {made, made + 1} /\ (current' = 0 \/ current' = made')
           /\ made' # made => current = 0 /\ current' = made'
           /\ \A q \in Requests : at'[q] = at[q] \/ (q = r /\ at'[q] \in {current, current'})
           /\ \A z \in 1..MaxRuntimes : rt'[z].slot \in {None, rt[z].slot}
           /\ \A z \in 1..MaxRuntimes : z > made' => rt'[z] = rt[z]
           /\ current' \in {0, current} \/ current = 0
<1> USE DEF Basics
<1>0. /\ current \in 0..MaxRuntimes /\ made \in 0..MaxRuntimes /\ current \in {0, made}
      /\ at \in [Requests -> 0..MaxRuntimes] /\ \A q \in Requests : at[q] <= made
      /\ rt \in [1..MaxRuntimes -> StateRecord] /\ MaxRuntimes \in Nat
  BY LifecycleAssumption DEF TypeOK, Ranges, StateRecord, LifecycleAssumption
<1>1. CASE Firsts(r)
  <2>1. current' \in {0, current} /\ UNCHANGED <<rt, made, at>>
    BY <1>1 DEF Firsts, get_session, create_session, insert_session, look, get_storage_path,
       zip_directory, unzip_directory, remove_session, delete_session, save, memory
  <2> QED
    BY <1>0, <2>1
<1>2. CASE connect_session(r) \/ stop(r) \/ run_reconnect_watchdog(r)
  <2>1. UNCHANGED <<current, rt, made>> /\ at' = [at EXCEPT ![r] = current]
    BY <1>2 DEF connect_session, stop, run_reconnect_watchdog, memory, Set
  <2> QED
    BY <1>0, <2>1
<1>3. ASSUME get_or_create_session(r),
             \A z \in (1..MaxRuntimes) \ {Runtime} : rt'[z] = rt[z],
             rt'[Runtime].slot = rt[Runtime].slot
      PROVE  /\ made' \in {made, made + 1} /\ (current' = 0 \/ current' = made')
             /\ made' # made => current = 0 /\ current' = made'
             /\ \A q \in Requests : at'[q] = at[q] \/ (q = r /\ at'[q] \in {current, current'})
             /\ \A z \in 1..MaxRuntimes : rt'[z].slot \in {None, rt[z].slot}
             /\ \A z \in 1..MaxRuntimes : z > made' => rt'[z] = rt[z]
             /\ current' \in {0, current} \/ current = 0
  <2>1. /\ current' = Runtime /\ Runtime \in 1..MaxRuntimes
        /\ made' \in 0..MaxRuntimes /\ made <= made' /\ current' = made'
        /\ current # 0 => Runtime = current /\ made' = made
        /\ current = 0 => Runtime = made + 1 /\ Runtime > made
        /\ at' = [at EXCEPT ![r] = Runtime]
    BY <1>3, GetOrCreate
  <2> HIDE DEF Basics
  <2>2. \A z \in 1..MaxRuntimes : rt'[z].slot = rt[z].slot
    BY <1>3
  <2>3. \A z \in 1..MaxRuntimes : z > made' => rt'[z] = rt[z]
    BY <1>3, <2>1
  <2>4. \A q \in Requests : at'[q] = at[q] \/ (q = r /\ at'[q] \in {current, current'})
    BY <1>0, <2>1
  <2> QED
    BY <1>0, <2>1, <2>2, <2>3, <2>4
<1>4. ASSUME get_or_create_session(r), NEW s \in Statuses, rt' = [rt EXCEPT ![Runtime].status = s]
      PROVE  /\ \A z \in (1..MaxRuntimes) \ {Runtime} : rt'[z] = rt[z]
             /\ rt'[Runtime].slot = rt[Runtime].slot
  <2>1. Runtime \in 1..MaxRuntimes
    BY <1>4, GetOrCreate
  <2> QED
    BY <1>4, <2>1, StatusUpdate
<1>5. CASE ensure_connecting_for_wait(r)
  BY <1>3, <1>5 DEF ensure_connecting_for_wait
<1>6. CASE clear(r)
  <2>1. /\ UNCHANGED <<current, made, at>>
        /\ \A z \in 1..MaxRuntimes : rt'[z].slot \in {None, rt[z].slot}
    BY <1>6, ClearRuntime DEF clear
  <2>2. \A z \in 1..MaxRuntimes : z > made => rt'[z] = rt[z]
    BY <1>0, <1>6, ClearRuntime
  <2> QED
    BY <1>0, <2>1, <2>2
<1>7. CASE reconnect(r)
  <2>1. at[r] \in 0..MaxRuntimes /\ at[r] # 0 /\ at[r] <= made
    BY <1>0, <1>7 DEF reconnect, Step, Places
  <2>2. at[r] \in 1..MaxRuntimes
    BY <1>0, <2>1
  <2>3. UNCHANGED <<current, made, at>> /\ rt' = [rt EXCEPT ![at[r]].status = "Connecting"]
    BY <1>7 DEF reconnect
  <2>4. /\ \A z \in (1..MaxRuntimes) \ {at[r]} : rt'[z] = rt[z]
        /\ rt'[at[r]].slot = rt[at[r]].slot
    BY <2>2, <2>3, StatusUpdate DEF Statuses
  <2> HIDE DEF Basics
  <2> QED
    BY <1>0, <2>1, <2>2, <2>3, <2>4
<1>8. CASE open(r)
  BY <1>3, <1>4, <1>8 DEF open, Statuses
<1>9. CASE UNCHANGED <<memory, at>>
  BY <1>0, <1>9 DEF memory
<1>10. CASE reconnect_all_on_startup(r)
  BY <1>3, <1>4, <1>9, <1>10 DEF reconnect_all_on_startup, Statuses
<1>11. CASE pair_session(r)
  <2>1. UNCHANGED memory /\ UNCHANGED at => UNCHANGED <<memory, at>>
    OBVIOUS
  <2> QED
    BY <1>3, <1>4, <1>9, <1>11, <2>1 DEF pair_session, Statuses
<1>12. CASE set_auto_reconnect(r)
  <2>1. Runtime \in 1..MaxRuntimes /\ get_or_create_session(r)
        /\ rt' = [rt EXCEPT ![Runtime].pref = FALSE]
    BY <1>12, GetOrCreate DEF set_auto_reconnect
  <2>2. /\ \A z \in (1..MaxRuntimes) \ {Runtime} : rt'[z] = rt[z]
        /\ rt'[Runtime].slot = rt[Runtime].slot
    BY <1>0, <2>1 DEF StateRecord
  <2> QED
    BY <1>3, <2>1, <2>2
<1> QED
  BY <1>1, <1>2, <1>5, <1>6, <1>7, <1>8, <1>10, <1>11, <1>12, RequestKinds DEF Stops, Starts

-----------------------------------------------------------------------------
(* Types and ranges of every step *)

LEMMA CooldownTypes ==
    ASSUME Basics, NEW x \in 1..MaxRuntimes, CooldownEnds(x)
    PROVE  TypeOK' /\ \A z \in 1..MaxRuntimes : Untouched(z)
<1>1. rt \in [1..MaxRuntimes -> StateRecord] /\ TypeOK
  BY DEF Basics, TypeOK, StateRecord
<1>2. [rt[x] EXCEPT !.cooldown = FALSE] \in StateRecord
  BY <1>1 DEF StateRecord
<1>3. rt' = [rt EXCEPT ![x] = [rt[x] EXCEPT !.cooldown = FALSE]]
  BY DEF CooldownEnds
<1>4. rt' \in [1..MaxRuntimes -> StateRecord]
  BY <1>1, <1>2, <1>3, RuntimeUpdate
<1>5. UNCHANGED <<row, current, made, request, conn, client, handler, faults>>
  BY DEF CooldownEnds
<1>6. TypeOK'
  BY <1>1, <1>4, <1>5 DEF TypeOK, StateRecord, request, conn, client, handler
<1>7. \A z \in 1..MaxRuntimes : Untouched(z)
  BY <1>1, <1>3 DEF Untouched, StateRecord
<1> QED
  BY <1>6, <1>7

LEMMA TypeStep == ASSUME Basics, [Next]_vars PROVE TypeOK'
<1>1. ASSUME NEW r \in Requests, RequestStep(r) PROVE TypeOK'
  BY <1>1, RequestKinds, RequestTypes1, RequestTypes2, RequestTypes3, RequestTypes4
     DEF Firsts, Stops, Starts
<1>2. ASSUME NEW c \in Clients, TaskStep(c) \/ HandlerStep(c) \/ ClientStep(c) PROVE TypeOK'
  BY <1>2, TaskTypes, HandlerTypes, EventTypes
<1>3. CASE UNCHANGED vars
  BY <1>3 DEF Basics, TypeOK, vars, memory, request, client, conn, handler
<1> QED
  BY <1>1, <1>2, <1>3, CooldownTypes DEF Next

\* The numbers and untouched runtimes, apart from what the step does to them.
LEMMA RangeFacts ==
    ASSUME TypeOK, Ranges
    PROVE  /\ current \in 0..MaxRuntimes /\ made \in 0..MaxRuntimes /\ current \in {0, made}
           /\ MaxRuntimes \in Nat /\ current <= made
           /\ at \in [Requests -> 0..MaxRuntimes] /\ \A q \in Requests : at[q] <= made
           /\ held \in [Clients -> 0..MaxRuntimes] /\ evat \in [Clients -> 0..MaxRuntimes]
           /\ \A c \in Clients : held[c] <= made /\ evat[c] <= made
           /\ \A x \in 1..MaxRuntimes : x > made => rt[x].slot = None /\ rt[x].status = "Disconnected"
BY LifecycleAssumption DEF TypeOK, Ranges, LifecycleAssumption

LEMMA RequestRanges == ASSUME Basics, NEW r \in Requests, RequestStep(r) PROVE Ranges'
<1>1. UNCHANGED <<held, evat>>
  BY RequestKinds DEF Firsts, Stops, Starts, get_session, create_session, insert_session, look, get_storage_path,
       zip_directory, unzip_directory, remove_session, delete_session, save, connect_session, stop,
       run_reconnect_watchdog, ensure_connecting_for_wait, clear, reconnect, open,
       reconnect_all_on_startup, pair_session, set_auto_reconnect, Spawn, conn, handler
<1>2. /\ made' \in {made, made + 1} /\ (current' = 0 \/ current' = made')
      /\ made' # made => current = 0 /\ current' = made'
      /\ \A q \in Requests : at'[q] = at[q] \/ (q = r /\ at'[q] \in {current, current'})
      /\ \A z \in 1..MaxRuntimes : z > made' => rt'[z] = rt[z]
  BY RequestMemory
<1>3. /\ current \in 0..MaxRuntimes /\ made \in 0..MaxRuntimes /\ current \in {0, made}
      /\ MaxRuntimes \in Nat /\ current <= made
      /\ at \in [Requests -> 0..MaxRuntimes] /\ \A q \in Requests : at[q] <= made
      /\ held \in [Clients -> 0..MaxRuntimes] /\ evat \in [Clients -> 0..MaxRuntimes]
      /\ \A c \in Clients : held[c] <= made /\ evat[c] <= made
      /\ \A x \in 1..MaxRuntimes : x > made => rt[x].slot = None /\ rt[x].status = "Disconnected"
  BY RangeFacts DEF Basics
<1>4. current' \in {0, made'} /\ made <= made' /\ current' <= made' /\ made' \in Nat
  BY <1>2, <1>3
<1>5. \A x \in 1..MaxRuntimes : x > made' => rt'[x].slot = None /\ rt'[x].status = "Disconnected"
  BY <1>2, <1>3, <1>4
<1>6. \A q \in Requests : at'[q] <= made'
  <2> TAKE q \in Requests
  <2>1. at'[q] \in {at[q], current, current'} /\ at[q] <= made /\ at[q] \in Nat /\ current \in Nat
    BY <1>2, <1>3
  <2> QED
    BY <2>1, <1>2, <1>3, <1>4
<1>7. \A c \in Clients : held'[c] <= made' /\ evat'[c] <= made'
  <2> TAKE c \in Clients
  <2>1. held[c] \in Nat /\ evat[c] \in Nat /\ held[c] <= made /\ evat[c] <= made
    BY <1>3
  <2> QED
    BY <2>1, <1>1, <1>3, <1>4
<1> QED
  BY <1>4, <1>5, <1>6, <1>7 DEF Ranges

LEMMA OtherRanges ==
    ASSUME Basics, UNCHANGED <<made, at>>, current' \in {0, current},
           \A d \in Clients : held'[d] \in {held[d], current} /\ evat'[d] \in {evat[d], current},
           NEW x, x <= made, \A z \in (1..MaxRuntimes) \ {x} : Untouched(z)
    PROVE  Ranges'
<1>3. /\ current \in 0..MaxRuntimes /\ made \in 0..MaxRuntimes /\ current \in {0, made}
      /\ MaxRuntimes \in Nat /\ current <= made
      /\ at \in [Requests -> 0..MaxRuntimes] /\ \A q \in Requests : at[q] <= made
      /\ held \in [Clients -> 0..MaxRuntimes] /\ evat \in [Clients -> 0..MaxRuntimes]
      /\ \A c \in Clients : held[c] <= made /\ evat[c] <= made
      /\ \A z \in 1..MaxRuntimes : z > made => rt[z].slot = None /\ rt[z].status = "Disconnected"
  BY RangeFacts DEF Basics
<1>4. current' \in {0, made'}
  BY <1>3
<1>5. \A z \in 1..MaxRuntimes : z > made' => rt'[z].slot = None /\ rt'[z].status = "Disconnected"
  <2> TAKE z \in 1..MaxRuntimes
  <2> HAVE z > made'
  <2>1. z # x
    BY <1>3
  <2> QED
    BY <1>3, <2>1 DEF Untouched
<1>6. \A d \in Clients : held'[d] <= made' /\ evat'[d] <= made'
  BY <1>3
<1> QED
  BY <1>3, <1>4, <1>5, <1>6 DEF Ranges

LEMMA RangeStep == ASSUME Basics, [Next]_vars PROVE Ranges'
<1>0. /\ current <= made /\ \A c \in Clients : held[c] <= made /\ evat[c] <= made
      /\ held \in [Clients -> 0..MaxRuntimes] /\ evat \in [Clients -> 0..MaxRuntimes]
  BY RangeFacts DEF Basics
<1>1. ASSUME NEW c \in Clients, TaskStep(c) PROVE Ranges'
  <2>1. UNCHANGED <<made, at, current, evat>>
    BY <1>1 DEF TaskStep, connect_client, build, apply_preferences, set_client, run, run_returned,
         tail, connect_failed, memory, request, handler
  <2>2. \A d \in Clients : held'[d] \in {held[d], current}
    <3>1. held' = held \/ held' = [held EXCEPT ![c] = current]
      BY <1>1 DEF TaskStep, connect_client, build, apply_preferences, set_client, run, run_returned,
         tail, connect_failed, Set
    <3> QED
      BY <1>0, <3>1
  <2>3. CASE set_client(c)
    <3>1. \A z \in (1..MaxRuntimes) \ {held[c]} : Untouched(z)
      BY <2>3, TaskRuntimes DEF Untouched
    <3> QED
      BY <1>0, <2>1, <2>2, <3>1, OtherRanges
  <2>4. CASE ~set_client(c)
    <3>1. \A z \in (1..MaxRuntimes) \ {current} : Untouched(z)
      <4>1. CASE run_returned(c) \/ connect_failed(c)
        BY <2>4, <4>1, TaskRuntimes DEF Untouched
      <4>2. CASE ~(run_returned(c) \/ connect_failed(c))
        BY <1>1, <2>4, <4>2 DEF TaskStep, connect_client, build, apply_preferences, run, tail, memory, Untouched
      <4> QED
        BY <4>1, <4>2
    <3> QED
      BY <1>0, <2>1, <2>2, <3>1, OtherRanges
  <2> QED
    BY <2>3, <2>4
<1>2. ASSUME NEW c \in Clients, HandlerStep(c) PROVE Ranges'
  <2>1. UNCHANGED <<made, at, held, evat>> /\ current' \in {0, current}
    BY <1>2 DEF HandlerStep, event_saved, logged_out, logged_out_saved, record_lock_cooldown,
         record_logout_and_should_purge, purge, memory, request, conn
  <2>2. \A z \in (1..MaxRuntimes) \ {evat[c]} : Untouched(z)
    BY <1>2, HandlerRuntimes DEF Untouched
  <2> QED
    BY <1>0, <2>1, <2>2, OtherRanges
<1>3. ASSUME NEW c \in Clients, ClientStep(c) PROVE Ranges'
  <2>1. UNCHANGED <<made, at, current, held>> /\ \A z \in (1..MaxRuntimes) \ {current} : Untouched(z)
    BY <1>3, EventRuntimes DEF request, conn, Untouched
  <2>2. \A d \in Clients : evat'[d] \in {evat[d], current}
    <3>1. UNCHANGED evat \/ evat' = [evat EXCEPT ![c] = current]
      BY <1>3 DEF ClientStep, PairingQrCode, Connected, Disconnected, GivesUp, LoggedOut, Event, Set, handler
    <3> QED
      BY <1>0, <3>1
  <2> QED
    BY <1>0, <2>1, <2>2, OtherRanges
<1>4. ASSUME NEW x \in 1..MaxRuntimes, CooldownEnds(x) PROVE Ranges'
  <2>1. UNCHANGED <<made, at, current, held, evat>> /\ \A z \in 1..MaxRuntimes : Untouched(z)
    BY <1>4, CooldownTypes DEF CooldownEnds, request, conn, handler
  <2> QED
    BY <1>0, <2>1, OtherRanges
<1>5. CASE UNCHANGED vars
  BY <1>5 DEF Basics, Ranges, vars, memory, request, conn, handler
<1> QED
  BY <1>1, <1>2, <1>3, <1>4, <1>5, RequestRanges DEF Next

-----------------------------------------------------------------------------
(* Places: who is where *)

EvSteps == {None, "qr", "in", "down", "lock", "lock row", "lock end", "flap",
            "flap row", "flap end", "purge", "purge row"}
ClientPlace(c) ==
    /\ task[c] = "install" => held[c] # 0
    /\ ev[c] \in {"lock", "lock row", "lock end", "flap", "flap row", "flap end"} => evat[c] # 0
    /\ task[c] \in {None, "path", "build"} => live[c] = None
    /\ task[c] \in {"hold", "install"} => live[c] = "built"
    /\ live[c] \in {"open", "in", "down", "out"} => task[c] = "run"
RequestPlace(r) ==
    /\ pc[r] = "again" => Is(r, {"tick"}) /\ at[r] # 0
    /\ pc[r] = "clear" /\ Is(r, {"wait", "tick"}) => at[r] # 0
    /\ Is(r, {"tick"}) => pc[r] \in {"start", "clear", "save", "again"}
    /\ pc[r] = "save" /\ Is(r, {"tick"}) => at[r] # 0

LEMMA PlacesParts ==
    Places <=> /\ ev \in [Clients -> EvSteps]
               /\ \A c \in Clients : ClientPlace(c)
               /\ \A r \in Requests : RequestPlace(r)
BY DEF Places, EvSteps, ClientPlace, RequestPlace

\* What a request does not change.
LEMMA RequestLeaves ==
    ASSUME NEW r \in Requests, RequestStep(r)
    PROVE  /\ UNCHANGED <<held, ev, evat, events, kind>>
           /\ \A q \in Requests \ {r} : pc \in [Requests -> PcSteps] => pc'[q] = pc[q]
<1>1. UNCHANGED <<held, ev, evat, events>>
  BY RequestKinds DEF Firsts, Stops, Starts, get_session, create_session, insert_session, look, get_storage_path,
       zip_directory, unzip_directory, remove_session, delete_session, save, connect_session, stop,
       run_reconnect_watchdog, ensure_connecting_for_wait, clear, reconnect, open,
       reconnect_all_on_startup, pair_session, set_auto_reconnect, Spawn, conn, handler
<1>2. \E to : GoTo(r, to)
  BY RequestKinds DEF Firsts, Stops, Starts, get_session, create_session, insert_session, look, get_storage_path,
       zip_directory, unzip_directory, remove_session, delete_session, save, connect_session, stop,
       run_reconnect_watchdog, ensure_connecting_for_wait, clear, reconnect, open,
       reconnect_all_on_startup, pair_session, set_auto_reconnect, Step
<1>3. PICK to : GoTo(r, to)
  BY <1>2
<1> QED
  BY <1>1, <1>3 DEF GoTo, Set

\* Who stops a client: a request that holds the runtime there is, with the client
\* of its slot.
LEMMA RequestLives ==
    ASSUME Basics, NEW r \in Requests, RequestStep(r)
    PROVE  \A c \in Clients : \/ live'[c] = live[c]
                              \/ /\ live'[c] = "stopped" /\ current # 0 /\ c = rt[current].slot
                                 /\ c # None /\ Stops(r)
<1>1. CASE Firsts(r) \/ Starts(r) \/ set_auto_reconnect(r)
  BY <1>1 DEF Firsts, Starts, get_session, create_session, insert_session, look, get_storage_path,
       zip_directory, unzip_directory, remove_session, delete_session, save, clear, reconnect, open,
       reconnect_all_on_startup, pair_session, set_auto_reconnect, client
<1>2. CASE Stops(r)
  <2>1. CASE live' = live
    BY <2>1
  <2>2. CASE live' # live
    <3>1. PICK x \in 1..MaxRuntimes : disconnect(x) /\ x = at'[r]
      BY <1>2, <2>2, RequestTypes2 DEF Stops
    <3>2. \A c \in Clients : live'[c] = IF c = rt[x].slot /\ rt[x].slot # None
                                        THEN "stopped" ELSE live[c]
      BY <3>1, Disconnecting DEF Basics
    <3>3. x = current \/ rt[x].slot = None
      <4>1. CASE ensure_connecting_for_wait(r)
        <5>1. x = Runtime
          BY <3>1, <4>1, GetOrCreate DEF ensure_connecting_for_wait, Basics, TypeOK
        <5>2. /\ current # 0 => Runtime = current
              /\ current = 0 => Runtime > made
          BY <4>1, GetOrCreate DEF ensure_connecting_for_wait
        <5> QED
          BY <3>1, <5>1, <5>2, RangeFacts DEF Basics
      <4>2. CASE connect_session(r) \/ stop(r) \/ run_reconnect_watchdog(r)
        BY <3>1, <4>2 DEF connect_session, stop, run_reconnect_watchdog, Set, Basics, TypeOK
      <4> QED
        BY <1>2, <4>1, <4>2 DEF Stops
    <3>4. x # 0
      BY LifecycleAssumption DEF LifecycleAssumption
    <3> QED
      BY <1>2, <3>2, <3>3, <3>4
  <2> QED
    BY <2>1, <2>2
<1> QED
  BY <1>1, <1>2, RequestKinds

\* The connect task of a request, if it spawns one.
LEMMA RequestTasks ==
    ASSUME Basics, NEW r \in Requests, RequestStep(r)
    PROVE  \/ UNCHANGED task
           \/ \E c \in Clients : /\ task[c] = None /\ task' = [task EXCEPT ![c] = "path"]
                                 /\ Starts(r)
<1>1. CASE Firsts(r) \/ Stops(r) \/ set_auto_reconnect(r)
  BY <1>1 DEF Firsts, Stops, get_session, create_session, insert_session, look, get_storage_path,
       zip_directory, unzip_directory, remove_session, delete_session, save, connect_session, stop,
       run_reconnect_watchdog, ensure_connecting_for_wait, set_auto_reconnect, conn
<1>2. CASE Starts(r)
  <2>1. UNCHANGED conn \/ \E m : Spawn(m)
    BY <1>2 DEF Starts, clear, reconnect, open, reconnect_all_on_startup, pair_session
  <2> QED
    BY <1>2, <2>1 DEF conn, Spawn, Set
<1> QED
  BY <1>1, <1>2, RequestKinds

LEMMA RequestClientPlaces ==
    ASSUME LifeInv, NEW r \in Requests, RequestStep(r), NEW c \in Clients
    PROVE  ClientPlace(c)'
<1>0. Basics /\ ClientPlace(c) /\ SlotIsOwned
  BY PlacesParts DEF LifeInv, RuntimeHasOwner, Basics
<1>1. UNCHANGED <<held, ev, evat>>
  BY RequestLeaves
<1>2. \/ live'[c] = live[c]
      \/ live'[c] = "stopped" /\ task[c] \in {"save", "run"}
  BY <1>0, RequestLives DEF SlotIsOwned, None
<1>3. task'[c] = task[c] \/ (task[c] = None /\ task'[c] = "path")
  BY <1>0, RequestTasks DEF Basics, TypeOK
<1>4. CASE live'[c] = live[c] /\ task'[c] = task[c]
  BY ONLY <1>0, <1>1, <1>4 DEF ClientPlace
<1>5. CASE live'[c] = "stopped" /\ task'[c] = task[c] /\ task[c] \in {"save", "run"}
  BY ONLY <1>0, <1>1, <1>5 DEF ClientPlace, None
<1>6. CASE live'[c] = live[c] /\ task[c] = None /\ task'[c] = "path"
  BY ONLY <1>0, <1>1, <1>6 DEF ClientPlace, None
<1> QED
  BY <1>2, <1>3, <1>4, <1>5, <1>6 DEF None

LEMMA RequestRequestPlaces ==
    ASSUME Basics, NEW r \in Requests, RequestStep(r), NEW q \in Requests
    PROVE  RequestPlace(q)'
<1>0. RequestPlace(q) /\ pc \in [Requests -> PcSteps] /\ TypeOK
  BY PlacesParts DEF Basics, TypeOK, PcSteps
<1>1. UNCHANGED kind /\ \A p \in Requests : at'[p] = at[p] \/ p = r
  BY RequestLeaves, RequestMemory
<1>2. CASE q # r
  BY <1>0, <1>1, <1>2, RequestLeaves DEF RequestPlace, Is
<1>3. CASE q = r /\ Firsts(r)
  <2>1. UNCHANGED at
    BY <1>3 DEF Firsts, get_session, create_session, insert_session, look, get_storage_path,
       zip_directory, unzip_directory, remove_session, delete_session, save
  <2>2. PICK to \in PcSteps : GoTo(r, to)
    BY <1>3 DEF Firsts, get_session, create_session, insert_session, look, get_storage_path,
       zip_directory, unzip_directory, remove_session, delete_session, save, Step, PcSteps
  <2>3. pc'[r] = to
    BY <1>0, <2>2, Moves
  <2>4. to \notin {"again", "clear", "save"} \/ (to \in {"again", "save"} /\ (to = "again" => Is(r, {"tick"}) /\ pc[r] = "save") /\ (to = "save" => ~Is(r, {"tick"})))
    <3>1. CASE get_session(r)
      BY <1>0, <2>3, <3>1 DEF get_session, GoTo, Set
    <3>2. CASE save(r)
      BY <1>0, <2>3, <3>2 DEF save, GoTo, Set
    <3>3. CASE create_session(r) \/ insert_session(r) \/ look(r) \/ get_storage_path(r)
               \/ zip_directory(r) \/ unzip_directory(r) \/ remove_session(r) \/ delete_session(r)
      BY <1>0, <2>3, <3>3 DEF create_session, insert_session, look, get_storage_path,
         zip_directory, unzip_directory, remove_session, delete_session, Step, GoTo, Set
    <3> QED
      BY <1>3, <3>1, <3>2, <3>3 DEF Firsts
  <2>5. Is(r, {"tick"}) => to = "again"
    <3>1. CASE save(r)
      BY <1>0, <2>3, <3>1 DEF save, GoTo, Set, Is
    <3>2. CASE ~save(r) /\ Is(r, {"tick"})
      <4>1. pc[r] \in {"start", "clear", "save", "again"}
        BY <1>0, <1>3, <3>2 DEF RequestPlace
      <4> QED
        BY <1>3, <3>2, <4>1 DEF Firsts, get_session, create_session, insert_session, look, get_storage_path,
           zip_directory, unzip_directory, remove_session, delete_session, Is, Step
    <3> QED
      BY <3>1, <3>2
  <2> QED
    BY <1>0, <1>1, <1>3, <2>1, <2>3, <2>4, <2>5 DEF RequestPlace, Is
<1>4. CASE q = r /\ Stops(r)
  <2>1. PICK to \in PcSteps : GoTo(r, to)
    BY <1>4 DEF Stops, connect_session, stop, run_reconnect_watchdog, ensure_connecting_for_wait, PcSteps
  <2>2. pc'[r] = to
    BY <1>0, <2>1, Moves
  <2>3. CASE connect_session(r) \/ stop(r)
    <3>1. ~Is(r, {"tick", "wait"}) /\ to # "again"
      BY <1>0, <2>2, <2>3 DEF connect_session, stop, Is, GoTo, Set
    <3> QED
      BY <1>1, <1>4, <2>2, <3>1 DEF RequestPlace, Is
  <2>4. CASE run_reconnect_watchdog(r)
    <3>1. Is(r, {"tick"}) /\ to = "clear" /\ at'[r] # 0
      BY <1>0, <2>2, <2>4 DEF run_reconnect_watchdog, GoTo, Set, TypeOK
    <3> QED
      BY <1>1, <1>4, <2>2, <3>1 DEF RequestPlace, Is
  <2>5. CASE ensure_connecting_for_wait(r)
    <3>1. Is(r, {"wait"}) /\ to \in {"done", "clear"}
      BY <1>0, <2>2, <2>5 DEF ensure_connecting_for_wait, GoTo, Set
    <3>2. at'[r] # 0
      BY <1>0, <2>5, GetOrCreate, LifecycleAssumption DEF ensure_connecting_for_wait, TypeOK, LifecycleAssumption
    <3> QED
      BY <1>1, <1>4, <2>2, <3>1, <3>2 DEF RequestPlace, Is
  <2> QED
    BY <1>4, <2>3, <2>4, <2>5 DEF Stops
<1>5. CASE q = r /\ (Starts(r) \/ set_auto_reconnect(r))
  <2>1. CASE clear(r)
    <3>1. PICK to \in PcSteps : GoTo(r, to)
      BY <2>1 DEF clear, PcSteps
    <3>2. pc'[r] = to /\ UNCHANGED at
      BY <1>0, <2>1, <3>1, Moves DEF clear
    <3>3. to \in {"done", "path", "save"} /\ (Is(r, {"tick"}) => to = "save" /\ at[r] # 0)
      BY <1>0, <1>5, <2>1, <3>2 DEF clear, GoTo, Set, RequestPlace, Is
    <3> QED
      BY <1>1, <1>5, <3>2, <3>3 DEF RequestPlace, Is
  <2>2. CASE reconnect(r)
    <3>1. pc'[r] = "start"
      BY <2>2, <1>0 DEF reconnect, Step, GoTo, Set
    <3> QED
      BY <1>1, <1>5, <3>1 DEF RequestPlace, Is
  <2>3. CASE open(r) \/ reconnect_all_on_startup(r) \/ pair_session(r) \/ set_auto_reconnect(r)
    <3>1. pc'[r] \in {"done", "hooks"} /\ ~Is(r, {"tick"})
      BY <2>3, <1>0 DEF open, reconnect_all_on_startup, pair_session, set_auto_reconnect, Step, GoTo, Set, Is
    <3> QED
      BY <1>1, <1>5, <3>1 DEF RequestPlace, Is
  <2> QED
    BY <1>5, <2>1, <2>2, <2>3 DEF Starts
<1> QED
  BY <1>2, <1>3, <1>4, <1>5, RequestKinds

LEMMA OtherRequestPlaces ==
    ASSUME \A r \in Requests : RequestPlace(r), UNCHANGED request
    PROVE  (\A r \in Requests : RequestPlace(r))'
BY DEF RequestPlace, request, Is

LEMMA TaskPlaces ==
    ASSUME Basics, NEW c \in Clients, TaskStep(c), NEW d \in Clients PROVE ClientPlace(d)'
<1>0. /\ ClientPlace(c) /\ ClientPlace(d) /\ UNCHANGED <<ev, evat>>
      /\ task \in [Clients -> TaskSteps] /\ held \in [Clients -> 0..MaxRuntimes]
      /\ live \in [Clients -> Lives]
  BY PlacesParts DEF TaskStep, connect_client, build, apply_preferences, set_client, run,
     run_returned, tail, connect_failed, handler, Basics, TypeOK, TaskSteps, Lives
<1>1. \E to : task' = [task EXCEPT ![c] = to]
  BY DEF TaskStep, connect_client, build, apply_preferences, set_client, run,
     run_returned, tail, connect_failed, TaskTo, Set
<1>2. live' = live \/ \E l : live' = [live EXCEPT ![c] = l]
  BY DEF TaskStep, connect_client, build, apply_preferences, set_client, run,
     run_returned, tail, connect_failed, Set, client
<1>3. held' = held \/ held' = [held EXCEPT ![c] = current]
  BY DEF TaskStep, connect_client, build, apply_preferences, set_client, run,
     run_returned, tail, connect_failed, Set
<1>4. CASE d # c
  <2>1. task'[d] = task[d] /\ live'[d] = live[d] /\ held'[d] = held[d]
    BY <1>0, <1>1, <1>2, <1>3, <1>4
  <2> QED
    BY ONLY <1>0, <2>1 DEF ClientPlace
<1>5. CASE d = c
  <2>1. CASE connect_client(c)
    <3>1. task[c] = "path" /\ task'[c] \in {"failed", "build"} /\ live'[c] = live[c] /\ held'[c] = held[c]
      BY <1>0, <2>1 DEF connect_client, Set, client
    <3> QED
      BY ONLY <1>0, <1>5, <3>1 DEF ClientPlace, None
  <2>2. CASE build(c)
    <3>1. /\ task[c] = "build" /\ held'[c] = held[c]
          /\ \/ task'[c] = "hold" /\ live'[c] = "built"
             \/ task'[c] = "failed" /\ live'[c] = live[c]
      BY <1>0, <2>2 DEF build, TaskTo, Set
    <3> QED
      BY ONLY <1>0, <1>5, <3>1 DEF ClientPlace, None
  <2>3. CASE apply_preferences(c)
    <3>1. /\ task[c] = "hold" /\ held'[c] = current /\ live'[c] = live[c]
          /\ task'[c] = IF current # 0 THEN "install" ELSE "save"
      BY <1>0, <2>3 DEF apply_preferences, TaskTo, Set
    <3> QED
      BY ONLY <1>0, <1>5, <3>1 DEF ClientPlace, None
  <2>4. CASE set_client(c)
    <3>1. task[c] = "install" /\ task'[c] = "save" /\ live'[c] = live[c] /\ held'[c] = held[c]
      BY <1>0, <2>4 DEF set_client, TaskTo, Set, client
    <3> QED
      BY ONLY <1>0, <1>5, <3>1 DEF ClientPlace, None
  <2>5. CASE run(c)
    <3>1. /\ task[c] = "save" /\ task'[c] = "run" /\ held'[c] = held[c]
      BY <1>0, <2>5 DEF run, TaskTo, Set
    <3> QED
      BY ONLY <1>0, <1>5, <3>1 DEF ClientPlace, None
  <2>6. CASE run_returned(c)
    <3>1. /\ task[c] = "run" /\ task'[c] = "tail" /\ live'[c] = live[c] /\ live[c] = "stopped"
          /\ held'[c] = held[c]
      BY <1>0, <2>6 DEF run_returned, TaskTo, Set, client
    <3> QED
      BY ONLY <1>0, <1>5, <3>1 DEF ClientPlace, None
  <2>7. CASE tail(c) \/ connect_failed(c)
    <3>1. /\ task[c] \in {"tail", "failed"} /\ task'[c] = "done" /\ live'[c] = live[c]
          /\ held'[c] = held[c]
      BY <1>0, <2>7 DEF tail, connect_failed, TaskTo, Set, client
    <3> QED
      BY ONLY <1>0, <1>5, <3>1 DEF ClientPlace, None
  <2> QED
    BY <2>1, <2>2, <2>3, <2>4, <2>5, <2>6, <2>7 DEF TaskStep
<1> QED
  BY <1>4, <1>5

EventIn  == {"qr", "in", "down", "lock", "flap"}

\* A handler goes from step to step and gives up no runtime.
LEMMA HandlerMoves ==
    ASSUME Basics, NEW c \in Clients, HandlerStep(c)
    PROVE  /\ UNCHANGED <<request, conn, client, evat, events, made>>
           /\ \E to \in EvSteps : /\ ev' = [ev EXCEPT ![c] = to]
                                  /\ to = None \/ ev[c] \in {"lock", "lock row", "flap", "flap row", "flap end", "purge"}
                                  /\ to \notin EventIn
                                  /\ to \in {"purge", "purge row"} => ev[c] \in {"flap end", "purge"}
                                  /\ to \in {"lock row", "lock end", "flap row", "flap end"} =>
                                       ev[c] \in {"lock", "lock row", "flap", "flap row"}
<1>1. UNCHANGED <<request, conn, client, evat, events, made>>
  BY DEF HandlerStep, event_saved, logged_out, logged_out_saved, record_lock_cooldown,
     record_logout_and_should_purge, purge, memory
<1> DEFINE P(to) == /\ ev' = [ev EXCEPT ![c] = to]
                    /\ to = None \/ ev[c] \in {"lock", "lock row", "flap", "flap row", "flap end", "purge"}
                    /\ to \notin EventIn
                    /\ to \in {"purge", "purge row"} => ev[c] \in {"flap end", "purge"}
                    /\ to \in {"lock row", "lock end", "flap row", "flap end"} =>
                         ev[c] \in {"lock", "lock row", "flap", "flap row"}
<1>2. ASSUME event_saved(c) \/ record_lock_cooldown(c) PROVE P(None)
  BY <1>2 DEF event_saved, record_lock_cooldown, EvTo, Set, EventIn, None
<1>3. ASSUME logged_out(c) PROVE P(IF ev[c] = "lock" THEN "lock row" ELSE "flap row")
  BY <1>3 DEF logged_out, EvTo, Set, EventIn, None
<1>4. ASSUME logged_out_saved(c) PROVE P(IF ev[c] = "lock row" THEN "lock end" ELSE "flap end")
  BY <1>4 DEF logged_out_saved, EvTo, Set, EventIn, None
<1>5. ASSUME record_logout_and_should_purge(c) PROVE P("purge") \/ P(None)
  BY <1>5 DEF record_logout_and_should_purge, EvTo, Set, EventIn, None
<1>6. ASSUME purge(c) PROVE P("purge row") \/ P(None)
  BY <1>6 DEF purge, EvTo, Set, EventIn, None
<1>7. {None, "lock row", "lock end", "flap row", "flap end", "purge", "purge row"} \subseteq EvSteps
  BY DEF EvSteps
<1> HIDE DEF P
<1>8. \E to \in EvSteps : P(to)
  BY <1>2, <1>3, <1>4, <1>5, <1>6, <1>7 DEF HandlerStep
<1> QED
  BY <1>1, <1>8 DEF P

LEMMA HandlerPlaces ==
    ASSUME Basics, NEW c \in Clients, HandlerStep(c)
    PROVE  ev' \in [Clients -> EvSteps] /\ \A d \in Clients : ClientPlace(d)'
<1>0. UNCHANGED <<task, held, live, evat>> /\ ev \in [Clients -> EvSteps]
      /\ \A d \in Clients : ClientPlace(d)
  BY HandlerMoves, PlacesParts DEF conn, client, Basics
<1>1. PICK to \in EvSteps : /\ ev' = [ev EXCEPT ![c] = to]
                            /\ to \in {"lock row", "lock end", "flap row", "flap end"} =>
                                 ev[c] \in {"lock", "lock row", "flap", "flap row"}
                            /\ to \notin EventIn
  BY HandlerMoves
<1>2. ev' \in [Clients -> EvSteps]
  BY <1>0, <1>1
<1>3. ASSUME NEW d \in Clients PROVE ClientPlace(d)'
  <2>1. CASE d # c
    <3>1. ev'[d] = ev[d]
      BY <1>0, <1>1, <2>1
    <3> QED
      BY ONLY <1>0, <1>3, <3>1 DEF ClientPlace
  <2>2. CASE d = c
    <3>1. ev'[c] = to
      BY <1>0, <1>1
    <3>2. ev'[c] \in {"lock", "lock row", "lock end", "flap", "flap row", "flap end"} =>
            ev[c] \in {"lock", "lock row", "lock end", "flap", "flap row", "flap end"}
      BY <1>1, <3>1 DEF EventIn
    <3> QED
      BY ONLY <1>0, <2>2, <3>2 DEF ClientPlace
  <2> QED
    BY <2>1, <2>2
<1> QED
  BY <1>2, <1>3

\* An event starts a handler only with the runtime of the moment.
LEMMA EventMoves ==
    ASSUME Basics, NEW c \in Clients, ClientStep(c)
    PROVE  \/ UNCHANGED <<ev, evat, events>>
           \/ /\ task[c] = "run" /\ ev[c] = None /\ evat' = [evat EXCEPT ![c] = current]
              /\ live[c] \in {"open", "in", "down"}
              /\ ev' = ev \/ (current # 0 /\ \E to \in EventIn : ev' = [ev EXCEPT ![c] = to])
<1>1. CASE GivesUp(c)
  BY <1>1 DEF GivesUp, handler
<1>2. CASE PairingQrCode(c) \/ Connected(c) \/ Disconnected(c)
  <2>1. /\ task[c] = "run" /\ ev[c] = None /\ evat' = [evat EXCEPT ![c] = current]
        /\ live[c] \in {"open", "in", "down"}
    BY <1>2 DEF PairingQrCode, Connected, Disconnected, Event, Set
  <2>2. ev' = ev \/ (current # 0 /\ \E to \in EventIn : ev' = [ev EXCEPT ![c] = to])
    BY <1>2 DEF PairingQrCode, Connected, Disconnected, Event, Set, EventIn
  <2> QED
    BY <2>1, <2>2
<1>3. ASSUME NEW lock \in BOOLEAN, LoggedOut(c, lock)
      PROVE  /\ task[c] = "run" /\ ev[c] = None /\ evat' = [evat EXCEPT ![c] = current]
             /\ live[c] \in {"open", "in", "down"}
             /\ ev' = ev \/ (current # 0 /\ \E to \in EventIn : ev' = [ev EXCEPT ![c] = to])
  BY <1>3 DEF LoggedOut, Set, EventIn
<1> QED
  BY <1>1, <1>2, <1>3 DEF ClientStep

\* The client of an event, and the one in the slot that a logout stops.
LEMMA EventLives ==
    ASSUME Basics, NEW c \in Clients, ClientStep(c), NEW d \in Clients
    PROVE  \/ live'[d] = live[d]
           \/ live'[d] = "stopped" /\ current # 0 /\ rt[current].slot = d /\ d # None
           \/ d = c /\ live'[d] \in Lives \ {None, "built"} /\ task[c] = "run"
<1>0. live \in [Clients -> Lives] /\ ClientPlace(c)
  BY PlacesParts DEF Basics, TypeOK, Lives
<1>1. CASE GivesUp(c)
  <2>1. live' = [live EXCEPT ![c] = "stopped"] /\ live[c] = "out"
    BY <1>1 DEF GivesUp, Set
  <2> QED
    BY <1>0, <2>1 DEF ClientPlace, Lives, None
<1>2. CASE PairingQrCode(c) \/ Connected(c) \/ Disconnected(c)
  <2>1. task[c] = "run" /\ \E l \in {"open", "in", "down"} : live' = [live EXCEPT ![c] = l]
    BY <1>2 DEF PairingQrCode, Connected, Disconnected, Event, Set
  <2> QED
    BY <1>0, <2>1 DEF Lives, None
<1>3. ASSUME NEW lock \in BOOLEAN, LoggedOut(c, lock)
      PROVE  \/ live'[d] = live[d]
             \/ live'[d] = "stopped" /\ current # 0 /\ rt[current].slot = d /\ d # None
             \/ d = c /\ live'[d] \in Lives \ {None, "built"} /\ task[c] = "run"
  <2> DEFINE k == IF current = 0 THEN None ELSE rt[current].slot
  <2>1. /\ task[c] = "run"
        /\ live'[d] = IF d = k THEN "stopped" ELSE IF d = c THEN "out" ELSE live[d]
    BY <1>3 DEF LoggedOut
  <2>2. CASE d = c
    BY <2>1, <2>2 DEF Lives, None
  <2>3. CASE d # c /\ d # k
    BY <2>1, <2>3
  <2>4. CASE d # c /\ d = k /\ d # None
    BY <2>1, <2>4
  <2>5. CASE d # c /\ d = k /\ d = None
    BY <2>5, LifecycleAssumption DEF LifecycleAssumption, None
  <2> QED
    BY <2>2, <2>3, <2>4, <2>5
<1> QED
  BY <1>1, <1>2, <1>3 DEF ClientStep

LEMMA EventPlaces ==
    ASSUME LifeInv, NEW c \in Clients, ClientStep(c)
    PROVE  ev' \in [Clients -> EvSteps] /\ \A d \in Clients : ClientPlace(d)'
<1>0. /\ Basics /\ SlotIsOwned /\ UNCHANGED <<task, held>>
      /\ ev \in [Clients -> EvSteps] /\ \A d \in Clients : ClientPlace(d)
      /\ evat \in [Clients -> 0..MaxRuntimes]
  BY EventRuntimes, PlacesParts DEF conn, LifeInv, RuntimeHasOwner, Basics, TypeOK
<1>1. \/ UNCHANGED <<ev, evat>>
      \/ /\ ev[c] = None /\ evat' = [evat EXCEPT ![c] = current]
         /\ ev' = ev \/ (current # 0 /\ \E to \in EventIn : ev' = [ev EXCEPT ![c] = to])
  BY <1>0, EventMoves
<1>2. ev' \in [Clients -> EvSteps]
  BY <1>0, <1>1 DEF EventIn, EvSteps
<1>3. ASSUME NEW d \in Clients PROVE ClientPlace(d)'
  <2>1. ev'[d] \in {"lock", "lock row", "lock end", "flap", "flap row", "flap end"} => evat'[d] # 0
    <3>1. CASE d # c
      BY <1>0, <1>1, <3>1 DEF ClientPlace
    <3>2. CASE d = c /\ ev' = ev
      BY <1>0, <1>1, <3>2 DEF ClientPlace, None
    <3>3. CASE d = c /\ ev' # ev
      BY <1>0, <1>1, <3>3
    <3> QED
      BY <3>1, <3>2, <3>3
  <2>2. \/ live'[d] = live[d]
        \/ live'[d] = "stopped" /\ task[d] \in {"save", "run"}
        \/ live'[d] \in Lives \ {None, "built"} /\ task[d] = "run"
    BY <1>0, EventLives DEF SlotIsOwned
  <2>3. ClientPlace(d)
    BY <1>0
  <2> QED
    BY ONLY <1>0, <2>1, <2>2, <2>3 DEF ClientPlace, Lives, None
<1> QED
  BY <1>2, <1>3

LEMMA PlaceStep == ASSUME LifeInv, [Next]_vars PROVE Places'
<1>0. Basics /\ ev \in [Clients -> EvSteps] /\ (\A d \in Clients : ClientPlace(d))
             /\ \A r \in Requests : RequestPlace(r)
  BY PlacesParts DEF LifeInv, RuntimeHasOwner, Basics
<1>1. ASSUME ev' \in [Clients -> EvSteps], \A d \in Clients : ClientPlace(d)',
             \A r \in Requests : RequestPlace(r)'
      PROVE  Places'
  BY <1>1 DEF Places, EvSteps, ClientPlace, RequestPlace
<1>2. ASSUME NEW r \in Requests, RequestStep(r) PROVE Places'
  BY <1>0, <1>1, <1>2, RequestClientPlaces, RequestRequestPlaces, RequestLeaves
<1>3. ASSUME NEW c \in Clients, TaskStep(c) PROVE Places'
  <2>1. UNCHANGED <<request, ev>>
    BY <1>3 DEF TaskStep, connect_client, build, apply_preferences, set_client, run,
       run_returned, tail, connect_failed, handler
  <2> QED
    BY <1>0, <1>1, <1>3, <2>1, TaskPlaces, OtherRequestPlaces
<1>4. ASSUME NEW c \in Clients, HandlerStep(c) PROVE Places'
  BY <1>0, <1>1, <1>4, HandlerPlaces, HandlerMoves, OtherRequestPlaces
<1>5. ASSUME NEW c \in Clients, ClientStep(c) PROVE Places'
  BY <1>0, <1>1, <1>5, EventPlaces, EventRuntimes, OtherRequestPlaces
<1>6. ASSUME UNCHANGED <<request, task, held, live, ev, evat>> PROVE Places'
  <2>1. \A d \in Clients : ClientPlace(d)'
    BY <1>0, <1>6 DEF ClientPlace
  <2> QED
    BY <1>0, <1>1, <1>6, <2>1, OtherRequestPlaces
<1>7. ASSUME NEW x \in 1..MaxRuntimes, CooldownEnds(x) PROVE Places'
  BY <1>6, <1>7 DEF CooldownEnds, conn, client, handler
<1>8. CASE UNCHANGED vars
  BY <1>6, <1>8 DEF vars, conn, client, handler
<1> QED
  BY <1>2, <1>3, <1>4, <1>5, <1>7, <1>8 DEF Next

\* The current runtime is the one before, or a fresh one.
LEMMA RequestCurrent ==
    ASSUME Basics, NEW r \in Requests, RequestStep(r), current' # 0, current' # current
    PROVE  /\ get_or_create_session(r) /\ current = 0 /\ current' > made
           /\ current' \in 1..MaxRuntimes
           /\ rt[current'].slot = None /\ rt[current'].status = "Disconnected"
<1>1. get_or_create_session(r)
  BY RequestKinds DEF Firsts, Stops, Starts, get_session, create_session, insert_session, look, get_storage_path,
       zip_directory, unzip_directory, remove_session, delete_session, save, connect_session, stop,
       run_reconnect_watchdog, ensure_connecting_for_wait, clear, reconnect, open,
       reconnect_all_on_startup, pair_session, set_auto_reconnect, memory
<1>2. current = 0 /\ current' > made /\ current' \in 1..MaxRuntimes
  BY <1>1, GetOrCreate
<1> QED
  BY <1>1, <1>2, RangeFacts DEF Basics

\* Whoever sets a status is at work, or it is Disconnected.
LEMMA RequestStatus ==
    ASSUME Basics, NEW r \in Requests, RequestStep(r)
    PROVE  \/ \E c \in Clients : task'[c] = "path"
           \/ pc'[r] = "hooks"
           \/ /\ UNCHANGED task /\ pc[r] # "hooks"
              /\ \A z \in 1..MaxRuntimes : \/ rt'[z].status = "Disconnected"
                                           \/ rt'[z].status = rt[z].status
<1>0. TypeOK /\ rt \in [1..MaxRuntimes -> StateRecord] /\ pc \in [Requests -> PcSteps]
      /\ task \in [Clients -> TaskSteps]
  BY DEF Basics, TypeOK, StateRecord, PcSteps, TaskSteps
<1>1. ASSUME \E m : Spawn(m) PROVE \E c \in Clients : task'[c] = "path"
  BY <1>0, <1>1 DEF Spawn, Set
<1>2. CASE Firsts(r) \/ Stops(r)
  BY <1>2 DEF Firsts, Stops, get_session, create_session, insert_session, look, get_storage_path,
       zip_directory, unzip_directory, remove_session, delete_session, save, connect_session, stop,
       run_reconnect_watchdog, ensure_connecting_for_wait, memory, conn, Step
<1>3. CASE clear(r)
  <2>1. CASE Is(r, {"wait"})
    BY <1>1, <1>3, <2>1 DEF clear
  <2>2. CASE ~Is(r, {"wait"})
    <3>1. UNCHANGED task /\ pc[r] # "hooks"
      BY <1>3, <2>2 DEF clear, conn
    <3>2. \A z \in 1..MaxRuntimes : \/ rt'[z].status = "Disconnected"
                                    \/ rt'[z].status = rt[z].status
      BY <1>3, <2>2, ClearRuntime
    <3> QED
      BY <3>1, <3>2
  <2> QED
    BY <2>1, <2>2
<1>4. CASE reconnect(r) \/ open(r)
  BY <1>1, <1>4 DEF reconnect, open
<1>5. CASE reconnect_all_on_startup(r)
  <2>1. pc'[r] = "hooks" \/ \E m : Spawn(m)
    BY <1>0, <1>5 DEF reconnect_all_on_startup, Step, GoTo, Set
  <2> QED
    BY <1>1, <2>1
<1>6. CASE pair_session(r)
  BY <1>1, <1>6 DEF pair_session, Step, memory, conn
<1>7. CASE set_auto_reconnect(r)
  <2>1. UNCHANGED task /\ pc[r] # "hooks" /\ Runtime \in 1..MaxRuntimes
        /\ rt' = [rt EXCEPT ![Runtime].pref = FALSE]
    BY <1>7, GetOrCreate DEF set_auto_reconnect, Step, conn
  <2>2. \A z \in 1..MaxRuntimes : rt'[z].status = rt[z].status
    BY <1>0, <2>1 DEF StateRecord
  <2> QED
    BY <2>1, <2>2
<1> QED
  BY <1>2, <1>3, <1>4, <1>5, <1>6, <1>7, RequestKinds DEF Starts

-----------------------------------------------------------------------------
(* The slot and the status have an owner *)

LEMMA OwnerFacts ==
    ASSUME LifeInv
    PROVE  /\ Basics /\ SlotIsOwned /\ StatusHasOwner /\ task \in [Clients -> TaskSteps]
           /\ pc \in [Requests -> PcSteps]
           /\ current \in 0..MaxRuntimes /\ 0..MaxRuntimes = {0} \cup 1..MaxRuntimes
           /\ \A x \in 1..MaxRuntimes : rt[x].slot \in Clients \cup {None}
           /\ None \notin {"save", "run", "tail", "path"}
<1>1. Basics /\ SlotIsOwned /\ StatusHasOwner
  BY DEF LifeInv, RuntimeHasOwner, Basics
<1>2. /\ task \in [Clients -> TaskSteps] /\ pc \in [Requests -> PcSteps]
      /\ current \in 0..MaxRuntimes
      /\ rt \in [1..MaxRuntimes -> StateRecord]
  BY <1>1 DEF Basics, TypeOK, TaskSteps, PcSteps, StateRecord
<1>3. \A x \in 1..MaxRuntimes : rt[x].slot \in Clients \cup {None}
  BY <1>2 DEF StateRecord
<1>4. 0..MaxRuntimes = {0} \cup 1..MaxRuntimes
  BY LifecycleAssumption DEF LifecycleAssumption
<1> QED
  BY <1>1, <1>2, <1>3, <1>4 DEF None

LEMMA SlotStep == ASSUME LifeInv, [Next]_vars, TypeOK' PROVE SlotIsOwned'
<1>0. /\ Basics /\ SlotIsOwned /\ task \in [Clients -> TaskSteps]
      /\ current \in 0..MaxRuntimes /\ 0..MaxRuntimes = {0} \cup 1..MaxRuntimes
      /\ \A x \in 1..MaxRuntimes : rt[x].slot \in Clients \cup {None}
      /\ None \notin {"save", "run", "tail", "path"}
  BY OwnerFacts
<1>1. ASSUME NEW r \in Requests, RequestStep(r) PROVE SlotIsOwned'
  <2>1. CASE current' = 0
    BY <2>1 DEF SlotIsOwned
  <2>2. CASE current' # 0 /\ current' # current
    <3>1. rt'[current'].slot = None
      BY <1>0, <1>1, <2>2, RequestCurrent, RequestMemory
    <3> QED
      BY <3>1 DEF SlotIsOwned
  <2>3. CASE current' # 0 /\ current' = current
    <3>1. rt'[current].slot \in {None, rt[current].slot}
      BY <1>0, <1>1, <2>3, RequestMemory
    <3>2. rt[current].slot # None => rt[current].slot \in Clients /\ task[rt[current].slot] \in {"save", "run"}
      BY <1>0, <2>3 DEF SlotIsOwned
    <3>3. rt[current].slot # None => task'[rt[current].slot] = task[rt[current].slot]
      BY <1>0, <1>1, <3>2, RequestTasks
    <3> QED
      BY <2>3, <3>1, <3>2, <3>3 DEF SlotIsOwned
  <2> QED
    BY <2>1, <2>2, <2>3
<1>2. ASSUME NEW c \in Clients, TaskStep(c), current # 0 PROVE SlotIsOwned'
  <2>0. current' = current /\ current \in 1..MaxRuntimes
    BY <1>0, <1>2 DEF TaskStep, connect_client, build, apply_preferences, set_client, run,
       run_returned, tail, connect_failed, memory
  <2>1. CASE set_client(c)
    <3>1. /\ task'[c] = "save" /\ \A d \in Clients \ {c} : task'[d] = task[d]
          /\ task[c] = "install"
      BY <1>0, <2>1 DEF set_client, TaskTo, Set
    <3>2. \/ rt'[current].slot = c
          \/ rt'[current].slot = rt[current].slot
      BY <1>0, <2>0, <2>1, TaskRuntimes
    <3>3. rt[current].slot \in Clients /\ rt[current].slot # c => task'[rt[current].slot] = task[rt[current].slot]
      BY <3>1
    <3> QED
      BY <1>0, <2>0, <3>1, <3>2, <3>3 DEF SlotIsOwned
  <2>2. CASE run_returned(c)
    <3>1. rt'[current].slot = None
      BY <1>0, <1>2, <2>2, TaskRuntimes DEF run_returned, set_client, TaskTo
    <3> QED
      BY <2>0, <3>1 DEF SlotIsOwned
  <2>3. CASE ~set_client(c) /\ ~run_returned(c)
    <3>1. rt'[current].slot \in {None, rt[current].slot}
      <4>1. CASE connect_failed(c)
        BY <1>0, <2>0, <2>3, <4>1, TaskRuntimes
      <4>2. CASE ~connect_failed(c)
        BY <1>2, <2>3, <4>2 DEF TaskStep, connect_client, build, apply_preferences, run, tail, memory
      <4> QED
        BY <4>1, <4>2
    <3>2. /\ \A d \in Clients \ {c} : task'[d] = task[d]
          /\ task[c] = "run" => task'[c] = "run"
          /\ task[c] = "save" => task'[c] = "run"
      BY <1>0, <1>2, <2>3 DEF TaskStep, connect_client, build, apply_preferences, run, tail,
         connect_failed, TaskTo, Set
    <3>3. rt[current].slot # None => rt[current].slot \in Clients /\ task[rt[current].slot] \in {"save", "run"}
      BY <1>0, <2>0 DEF SlotIsOwned
    <3> QED
      BY <2>0, <3>1, <3>2, <3>3 DEF SlotIsOwned
  <2> QED
    BY <2>1, <2>2, <2>3
<1>3. ASSUME UNCHANGED task, current' \in {0, current},
             \A z \in 1..MaxRuntimes : rt'[z].slot \in {None, rt[z].slot}
      PROVE  SlotIsOwned'
  BY <1>0, <1>3 DEF SlotIsOwned
<1>4. ASSUME NEW c \in Clients, HandlerStep(c) PROVE SlotIsOwned'
  <2>1. UNCHANGED task /\ current' \in {0, current}
    BY <1>4 DEF HandlerStep, event_saved, logged_out, logged_out_saved, record_lock_cooldown,
         record_logout_and_should_purge, purge, memory, conn
  <2>2. \A z \in 1..MaxRuntimes : rt'[z].slot \in {None, rt[z].slot}
    BY <1>0, <1>4, HandlerRuntimes DEF Untouched
  <2> QED
    BY <1>3, <2>1, <2>2
<1>5. ASSUME NEW c \in Clients, ClientStep(c) PROVE SlotIsOwned'
  BY <1>0, <1>3, <1>5, EventRuntimes DEF conn
<1>6. ASSUME NEW x \in 1..MaxRuntimes, CooldownEnds(x) PROVE SlotIsOwned'
  BY <1>0, <1>3, <1>6, CooldownTypes DEF CooldownEnds, conn, Untouched
<1>7. CASE UNCHANGED vars
  BY <1>0, <1>3, <1>7 DEF vars, memory, conn
<1>8. ASSUME NEW c \in Clients, TaskStep(c), current = 0 PROVE SlotIsOwned'
  BY <1>8 DEF SlotIsOwned, TaskStep, connect_client, build, apply_preferences, set_client, run,
       run_returned, tail, connect_failed, memory
<1> QED
  BY <1>1, <1>2, <1>4, <1>5, <1>6, <1>7, <1>8 DEF Next

LEMMA StatusStep == ASSUME LifeInv, [Next]_vars, TypeOK' PROVE StatusHasOwner'
<1>0. /\ Basics /\ StatusHasOwner /\ task \in [Clients -> TaskSteps]
      /\ pc \in [Requests -> PcSteps]
      /\ current \in 0..MaxRuntimes /\ 0..MaxRuntimes = {0} \cup 1..MaxRuntimes
  BY OwnerFacts
<1>1. ASSUME NEW r \in Requests, RequestStep(r) PROVE StatusHasOwner'
  <2>1. CASE (\E c \in Clients : task'[c] = "path") \/ pc'[r] = "hooks"
    BY <2>1 DEF StatusHasOwner, None
  <2>2. CASE /\ UNCHANGED task /\ pc[r] # "hooks"
             /\ \A z \in 1..MaxRuntimes : \/ rt'[z].status = "Disconnected"
                                          \/ rt'[z].status = rt[z].status
    <3>1. \A q \in Requests : pc[q] = "hooks" => pc'[q] = "hooks"
      BY <1>0, <1>1, <2>2, RequestLeaves
    <3>2. current' = 0 \/ current' = current \/ (current' \in 1..MaxRuntimes /\ rt[current'].status = "Disconnected")
      BY <1>0, <1>1, RequestCurrent
    <3> QED
      BY <1>0, <2>2, <3>1, <3>2 DEF StatusHasOwner
  <2> QED
    BY <1>0, <1>1, <2>1, <2>2, RequestStatus
<1>2. ASSUME NEW c \in Clients, TaskStep(c) PROVE StatusHasOwner'
  <2>0. current' = current /\ UNCHANGED pc
    BY <1>0, <1>2 DEF TaskStep, connect_client, build, apply_preferences, set_client, run,
       run_returned, tail, connect_failed, memory, request
  <2>1. CASE run_returned(c) \/ connect_failed(c)
    <3>1. ~set_client(c)
      BY <2>1 DEF run_returned, connect_failed, set_client, TaskTo
    <3>2. current # 0 => rt'[current].status = "Disconnected"
      BY <1>0, <2>1, <3>1, TaskRuntimes
    <3> QED
      BY <2>0, <3>2 DEF StatusHasOwner
  <2>2. CASE tail(c)
    <3>1. /\ UNCHANGED rt /\ task[c] = "tail" /\ \A d \in Clients \ {c} : task'[d] = task[d]
      BY <1>0, <2>2 DEF tail, TaskTo, Set, memory
    <3> QED
      BY <1>0, <2>0, <3>1 DEF StatusHasOwner
  <2>3. CASE ~run_returned(c) /\ ~connect_failed(c) /\ ~tail(c)
    <3>1. task'[c] \in {"failed", "build", "hold", "install", "save", "run"}
      BY <1>0, <1>2, <2>3 DEF TaskStep, connect_client, build, apply_preferences, set_client, run, TaskTo, Set
    <3> QED
      BY <3>1 DEF StatusHasOwner, None
  <2> QED
    BY <2>1, <2>2, <2>3
<1>3. ASSUME UNCHANGED <<task, pc>>, current' \in {0, current},
             \A z \in 1..MaxRuntimes : rt'[z].status \in {"Disconnected", rt[z].status}
      PROVE  StatusHasOwner'
  BY <1>0, <1>3 DEF StatusHasOwner
<1>4. ASSUME NEW c \in Clients, HandlerStep(c) PROVE StatusHasOwner'
  <2>1. UNCHANGED <<task, pc>> /\ current' \in {0, current}
    BY <1>4 DEF HandlerStep, event_saved, logged_out, logged_out_saved, record_lock_cooldown,
         record_logout_and_should_purge, purge, memory, conn, request
  <2>2. \A z \in 1..MaxRuntimes : rt'[z].status \in {"Disconnected", rt[z].status}
    BY <1>0, <1>4, HandlerRuntimes DEF Untouched
  <2> QED
    BY <1>3, <2>1, <2>2
<1>5. ASSUME NEW c \in Clients, ClientStep(c) PROVE StatusHasOwner'
  <2>1. UNCHANGED <<task, pc, current>> /\ (rt' # rt => task[c] = "run")
    BY <1>0, <1>5, EventRuntimes DEF conn, request
  <2>2. CASE rt' = rt
    BY <1>0, <2>1, <2>2 DEF StatusHasOwner
  <2>3. CASE rt' # rt
    BY <2>1, <2>3 DEF StatusHasOwner, None
  <2> QED
    BY <2>2, <2>3
<1>6. ASSUME NEW x \in 1..MaxRuntimes, CooldownEnds(x) PROVE StatusHasOwner'
  BY <1>0, <1>3, <1>6, CooldownTypes DEF CooldownEnds, conn, request, Untouched
<1>7. CASE UNCHANGED vars
  BY <1>0, <1>3, <1>7 DEF vars, memory, conn, request
<1> QED
  BY <1>1, <1>2, <1>4, <1>5, <1>6, <1>7 DEF Next

LEMMA LifeInit == ASSUME Init PROVE LifeInv
<1>0. Fresh \in StateRecord /\ Fresh.slot = None /\ Fresh.status = "Disconnected"
      /\ MaxRuntimes \in Nat \ {0} /\ None \notin Clients /\ MaxEvents \in Nat /\ MaxFaults \in Nat
  BY FreshRecord, LifecycleAssumption DEF Fresh, LifecycleAssumption, None
<1>1. /\ kind \in Mixes
      /\ pc = [r \in Requests |-> "start"] /\ at = [r \in Requests |-> 0]
      /\ seen = [r \in Requests |-> NoRow]
      /\ mode = [c \in Clients |-> "connect"] /\ auto = [c \in Clients |-> TRUE]
      /\ ev = [c \in Clients |-> None] /\ evat = [c \in Clients |-> 0]
      /\ events = 0 /\ faults = 0
  BY DEF Init
<1> DEFINE Running1(c) == [Fresh EXCEPT !.slot = c, !.status = "LoggedIn"]
<1>2. \A c \in Clients : Running1(c) \in StateRecord /\ Running1(c).slot = c
  BY <1>0 DEF StateRecord, Statuses
<1> HIDE DEF Running1
<1>3. /\ row \in Rows /\ current \in {0, made} /\ made \in {0, 1}
      /\ rt \in [1..MaxRuntimes -> StateRecord]
      /\ task \in [Clients -> {None, "run"}] /\ live \in [Clients -> {None, "in"}]
      /\ held \in [Clients -> {0, made}]
      /\ \A x \in 1..MaxRuntimes : x > made => rt[x] = Fresh
      /\ \A c \in Clients : live[c] = "in" <=> task[c] = "run"
      /\ current # 0 => current = 1 /\ rt[1].slot \in Clients /\ task[rt[1].slot] = "run"
  <2>1. CASE /\ row \in {NoRow, [status |-> "Disconnected", logged |-> FALSE]} /\ current = 0 /\ made = 0
             /\ rt = [x \in 1..MaxRuntimes |-> Fresh]
             /\ task = [c \in Clients |-> None] /\ live = [c \in Clients |-> None]
             /\ held = [c \in Clients |-> 0]
    <3>0. NoRow \in Rows /\ [status |-> "Disconnected", logged |-> FALSE] \in Rows
      BY DEF Rows, NoRow
    <3>1. row \in Rows
      BY <2>1, <3>0
    <3>2. rt \in [1..MaxRuntimes -> StateRecord] /\ \A x \in 1..MaxRuntimes : x > made => rt[x] = Fresh
      BY <1>0, <2>1
    <3> QED
      BY <2>1, <3>1, <3>2 DEF None
  <2>2. ASSUME /\ row = [status |-> "LoggedIn", logged |-> TRUE] /\ current = 1 /\ made = 1,
               NEW c \in Clients,
               /\ rt = [x \in 1..MaxRuntimes |-> IF x = 1 THEN Running1(c) ELSE Fresh]
               /\ task = [k \in Clients |-> IF k = c THEN "run" ELSE None]
               /\ live = [k \in Clients |-> IF k = c THEN "in" ELSE None]
               /\ held = [k \in Clients |-> IF k = c THEN 1 ELSE 0]
        PROVE  /\ row \in Rows /\ current \in {0, made} /\ made \in {0, 1}
               /\ rt \in [1..MaxRuntimes -> StateRecord]
               /\ task \in [Clients -> {None, "run"}] /\ live \in [Clients -> {None, "in"}]
               /\ held \in [Clients -> {0, made}]
               /\ \A x \in 1..MaxRuntimes : x > made => rt[x] = Fresh
               /\ \A k \in Clients : live[k] = "in" <=> task[k] = "run"
               /\ current # 0 => current = 1 /\ rt[1].slot \in Clients /\ task[rt[1].slot] = "run"
    <3>1. 1 \in 1..MaxRuntimes /\ rt[1] = Running1(c)
      BY <1>0, <2>2
    <3>2. rt \in [1..MaxRuntimes -> StateRecord] /\ \A x \in 1..MaxRuntimes : x > made => rt[x] = Fresh
      BY <1>0, <1>2, <2>2
    <3> QED
      BY <1>2, <2>2, <3>1, <3>2 DEF Rows, None
  <2> QED
    BY <2>1, <2>2 DEF Init, Running1
<1>4. /\ {None, "run"} \subseteq TaskSteps /\ {None, "in"} \subseteq Lives
      /\ {0, made} \subseteq 0..MaxRuntimes
  BY <1>0, <1>3 DEF TaskSteps, Lives
<1>5. TypeOK
  <2>1. /\ current \in 0..MaxRuntimes /\ made \in 0..MaxRuntimes
        /\ task \in [Clients -> TaskSteps] /\ live \in [Clients -> Lives]
        /\ held \in [Clients -> 0..MaxRuntimes]
    BY <1>3, <1>4
  <2>2. NoRow \in Rows
    BY DEF NoRow, Rows
  <2> QED
    BY <1>0, <1>1, <1>3, <2>1, <2>2 DEF TypeOK, TaskSteps, Lives, StateRecord
<1>6. SlotIsOwned /\ StatusHasOwner
  BY <1>3 DEF SlotIsOwned, StatusHasOwner, None
<1>7. Ranges
  <2>1. \A c \in Clients : held[c] <= made /\ evat[c] <= made
    BY <1>1, <1>3
  <2>2. \A r \in Requests : at[r] <= made
    <3>1. \A r \in Requests : at[r] = 0
      BY <1>1
    <3>2. 0 <= made
      BY <1>3
    <3> QED
      BY <3>1, <3>2
  <2> QED
    BY <1>0, <1>3, <2>1, <2>2 DEF Ranges
<1>8. Places
  <2>1. \A c \in Clients : ClientPlace(c)
    BY <1>1, <1>3 DEF ClientPlace, None
  <2>2. \A r \in Requests : RequestPlace(r)
    BY <1>1 DEF RequestPlace
  <2>3. ev \in [Clients -> EvSteps]
    BY <1>1 DEF EvSteps
  <2> QED
    BY <2>1, <2>2, <2>3, PlacesParts
<1> QED
  BY <1>5, <1>6, <1>7, <1>8 DEF LifeInv, RuntimeHasOwner

LEMMA LifeStep == ASSUME LifeInv, [Next]_vars PROVE LifeInv'
<1>1. Basics
  BY DEF LifeInv, RuntimeHasOwner, Basics
<1> QED
  BY <1>1, TypeStep, RangeStep, PlaceStep, SlotStep, StatusStep DEF LifeInv, RuntimeHasOwner

THEOREM Life == Spec => []LifeInv
BY LifeInit, LifeStep, PTL DEF Spec

\* The client in a runtime's slot has a task that will take it out, and a status
\* other than Disconnected has somebody at work who will change it, whatever
\* requests, events and failures come in between (sessions.rs, bulk.rs, state.rs).
THEOREM Owner == Spec => []RuntimeHasOwner
<1>1. LifeInv => RuntimeHasOwner
  BY DEF LifeInv
<1> QED
  BY <1>1, Life, PTL

-----------------------------------------------------------------------------
(* One start: no second client comes to life *)

Pending(c) == task[c] \in {"path", "build", "hold", "install", "save"}
Active(c)  == (Pending(c) \/ task[c] = "run") /\ live[c] # "stopped"

\* Only an export archives and only a delete deletes.
Ends == \A r \in Requests :
    /\ pc[r] = "zip"    => Is(r, {"export"})
    /\ pc[r] = "delete" => Is(r, {"delete"})

\* Before a start, only the first client was ever there, and it is in the slot as
\* long as nothing has stopped it.
FirstOnly ==
    /\ \A c \in Clients : task[c] \in {None, "run", "tail", "done"}
    /\ \A c, d \in Clients : task[c] # None /\ task[d] # None => c = d
    /\ \A c \in Clients : Active(c) =>
         /\ current # 0 /\ rt[current].slot = c /\ row # NoRow
         /\ \A d \in Clients : ev[d] \in {None, "qr", "in", "down"}
         /\ \A r \in Requests :
              /\ pc[r] \notin {"clear", "insert"}
              /\ Is(r, {"create", "delete"}) => pc[r] = "start"
              /\ Is(r, {"connect"})          => pc[r] \in {"start", "look"}
              /\ Is(r, {"export"})           => pc[r] \in {"start", "look", "done"}

OneActive == \A c, d \in Clients : Active(c) /\ Active(d) => c = d

\* The watchdog rebuilds what it has stopped.
Rebuilding(r) ==
    /\ OneActive
    /\ \A c \in Clients : Active(c) =>
         /\ pc[r] = "start"
         /\ current # 0 => rt[current].slot \in {None, c}
    /\ pc[r] = "clear" => \A x \in 1..MaxRuntimes : x > at[r] => rt[x].slot = None
    /\ pc[r] = "clear" => current \in {0} \cup {x \in 1..MaxRuntimes : x >= at[r]}
    /\ pc[r] \in {"save", "again"} /\ current # 0 => rt[current].slot = None

OneStart == \A r, q \in Starting : r = q /\ ~Is(r, {"reload"})
NotStarted == \A r \in Starting : pc[r] # "done" /\ ~Is(r, {"tick"})
StartInv ==
    /\ LifeInv
    /\ Ends
    /\ OneStart => /\ OneActive
                   /\ NotStarted => FirstOnly
                   /\ \A r \in Starting : Is(r, {"tick"}) => Rebuilding(r)

Pendings == {"path", "build", "hold", "install", "save", "run"}

LEMMA ActiveIs == ASSUME NEW c PROVE Active(c) <=> task[c] \in Pendings /\ live[c] # "stopped"
BY DEF Active, Pending, Pendings

\* What Starting reads does not change.
LEMMA KindsKept == ASSUME [Next]_vars PROVE UNCHANGED kind
<1>1. ASSUME NEW c \in Clients, TaskStep(c) \/ ClientStep(c) \/ HandlerStep(c) PROVE UNCHANGED request
  BY <1>1 DEF TaskStep, connect_client, build, apply_preferences, set_client, run,
     run_returned, tail, connect_failed, HandlerStep, event_saved, logged_out, logged_out_saved,
     record_lock_cooldown, record_logout_and_should_purge, purge, ClientStep, PairingQrCode,
     Connected, Disconnected, GivesUp, LoggedOut, Event
<1>2. ASSUME NEW x \in 1..MaxRuntimes, CooldownEnds(x) PROVE UNCHANGED request
  BY <1>2 DEF CooldownEnds
<1> QED
  BY <1>1, <1>2, RequestLeaves DEF Next, vars, request

\* A request that gives out a connect task is one of those that start, and that
\* is the last it does, but for the watchdog and the reload.
LEMMA Spawning ==
    ASSUME Basics, NEW r \in Requests, RequestStep(r)
    PROVE  \/ UNCHANGED task
           \/ /\ r \in Starting
              /\ \/ Is(r, {"reload"})
                 \/ reconnect(r) /\ Is(r, {"tick"})
                 \/ clear(r) /\ Is(r, {"wait"}) /\ pc'[r] = "done"
                 \/ open(r) /\ Is(r, {"create", "connect"}) /\ pc'[r] = "done"
                 \/ /\ pair_session(r) /\ Is(r, {"pair"}) /\ pc'[r] = "done"
                    /\ current = 0 \/ rt[current].slot = None
<1>0. pc \in [Requests -> PcSteps] /\ RequestPlace(r)
  BY PlacesParts DEF Basics, TypeOK, PcSteps
<1>1. CASE Firsts(r) \/ Stops(r) \/ set_auto_reconnect(r)
  BY <1>1 DEF Firsts, Stops, get_session, create_session, insert_session, look, get_storage_path,
       zip_directory, unzip_directory, remove_session, delete_session, save, connect_session, stop,
       run_reconnect_watchdog, ensure_connecting_for_wait, set_auto_reconnect, conn
<1>2. CASE clear(r)
  BY <1>0, <1>2 DEF clear, GoTo, Set, conn, Starting, Is, Starters
<1>3. CASE reconnect(r)
  BY <1>0, <1>3 DEF reconnect, Step, RequestPlace, Starting, Is, Starters
<1>4. CASE open(r)
  BY <1>0, <1>4 DEF open, Step, GoTo, Set, Starting, Is, Starters
<1>5. CASE reconnect_all_on_startup(r)
  BY <1>5 DEF reconnect_all_on_startup, Starting, Is, Starters
<1>6. CASE pair_session(r)
  BY <1>0, <1>6 DEF pair_session, Step, GoTo, Set, Starting, Is, Starters, conn
<1> QED
  BY <1>1, <1>2, <1>3, <1>4, <1>5, <1>6, RequestKinds DEF Starts

\* No client comes to life but by a connect task that is given out.
LEMMA Actives ==
    ASSUME LifeInv, [Next]_vars, NEW c \in Clients, Active(c)'
    PROVE  \/ Active(c)
           \/ \E r \in Requests : /\ RequestStep(r) /\ task[c] = None
                                  /\ task' = [task EXCEPT ![c] = "path"]
<1>0. /\ Basics /\ ClientPlace(c) /\ task \in [Clients -> TaskSteps] /\ live \in [Clients -> Lives]
      /\ task'[c] \in Pendings /\ live'[c] # "stopped"
  BY PlacesParts DEF LifeInv, RuntimeHasOwner, Basics, TypeOK, TaskSteps, Lives, Active, Pending, Pendings
<1>1. ASSUME task[c] \in Pendings, live[c] # "stopped" PROVE Active(c)
  BY <1>1, ActiveIs
<1>2. ASSUME NEW r \in Requests, RequestStep(r)
      PROVE  Active(c) \/ (task[c] = None /\ task' = [task EXCEPT ![c] = "path"])
  <2>1. live'[c] = live[c]
    BY <1>0, <1>2, RequestLives
  <2>2. task'[c] = task[c] \/ (task[c] = None /\ task' = [task EXCEPT ![c] = "path"])
    BY <1>0, <1>2, RequestTasks
  <2> QED
    BY <1>0, <1>1, <2>1, <2>2
<1>3. ASSUME NEW d \in Clients, TaskStep(d) PROVE Active(c)
  <2>1. PICK to : task' = [task EXCEPT ![d] = to]
    BY <1>3 DEF TaskStep, connect_client, build, apply_preferences, set_client, run,
       run_returned, tail, connect_failed, TaskTo, Set
  <2>2. live' = live \/ \E l : live' = [live EXCEPT ![d] = l]
    BY <1>3 DEF TaskStep, connect_client, build, apply_preferences, set_client, run,
       run_returned, tail, connect_failed, Set, client
  <2>3. CASE d # c
    BY <1>0, <1>1, <2>1, <2>2, <2>3
  <2>4. CASE d = c
    <3>1. task[c] \in {"path", "build", "hold", "install", "save"}
      <4>1. CASE run_returned(c) \/ tail(c) \/ connect_failed(c)
        BY <1>0, <4>1 DEF run_returned, tail, connect_failed, TaskTo, Set, Pendings
      <4>2. CASE connect_client(c) \/ build(c) \/ apply_preferences(c) \/ set_client(c) \/ run(c)
        BY <4>2 DEF connect_client, build, apply_preferences, set_client, run, TaskTo
      <4> QED
        BY <1>3, <2>4, <4>1, <4>2 DEF TaskStep
    <3>2. live[c] # "stopped"
      <4>1. CASE task[c] \in {"path", "build", "hold", "install"}
        BY <1>0, <4>1 DEF ClientPlace, None
      <4>2. CASE task[c] = "save"
        <5>1. run(c)
          BY <1>3, <2>4, <4>2 DEF TaskStep, connect_client, build, apply_preferences, set_client, run,
             run_returned, tail, connect_failed, TaskTo
        <5> QED
          BY <1>0, <5>1 DEF run, Set
      <4> QED
        BY <3>1, <4>1, <4>2
    <3> QED
      BY <1>1, <3>1, <3>2 DEF Pendings
  <2> QED
    BY <2>3, <2>4
<1>4. ASSUME NEW d \in Clients, HandlerStep(d) PROVE Active(c)
  BY <1>0, <1>1, <1>4, HandlerMoves DEF conn, client
<1>5. ASSUME NEW d \in Clients, ClientStep(d) PROVE Active(c)
  <2>1. UNCHANGED task
    BY <1>0, <1>5, EventRuntimes DEF conn
  <2>2. live[c] # "stopped"
    BY <1>0, <1>5, EventTypes
  <2> QED
    BY <1>0, <1>1, <2>1, <2>2
<1>6. ASSUME UNCHANGED <<task, live>> PROVE Active(c)
  BY <1>0, <1>1, <1>6
<1> QED
  BY <1>2, <1>3, <1>4, <1>5, <1>6 DEF Next, CooldownEnds, conn, client, vars

LEMMA EndsStep == ASSUME Basics, Ends, [Next]_vars PROVE Ends'
<1>0. pc \in [Requests -> PcSteps] /\ UNCHANGED kind
  BY KindsKept DEF Basics, TypeOK, PcSteps
<1>1. ASSUME NEW r \in Requests, RequestStep(r)
      PROVE  /\ pc'[r] = "zip" => Is(r, {"export"})
             /\ pc'[r] = "delete" => Is(r, {"delete"})
  <2>1. CASE get_storage_path(r) \/ remove_session(r)
    BY <1>0, <2>1 DEF get_storage_path, remove_session, Step, GoTo, Set
  <2>2. CASE ~get_storage_path(r) /\ ~remove_session(r)
    BY <1>0, <1>1, <2>2, RequestKinds DEF Firsts, Stops, Starts, get_session, create_session, insert_session, look,
       zip_directory, unzip_directory, delete_session, save, connect_session, stop,
       run_reconnect_watchdog, ensure_connecting_for_wait, clear, reconnect, open,
       reconnect_all_on_startup, pair_session, set_auto_reconnect, Step, GoTo, Set
  <2> QED
    BY <2>1, <2>2
<1>2. ASSUME NEW r \in Requests, RequestStep(r) PROVE Ends'
  BY <1>0, <1>1, <1>2, RequestLeaves DEF Ends, Is
<1>3. ASSUME UNCHANGED request PROVE Ends'
  BY <1>3 DEF Ends, request, Is
<1>4. ASSUME NEW c \in Clients, TaskStep(c) \/ ClientStep(c) \/ HandlerStep(c) PROVE UNCHANGED request
  BY <1>4 DEF TaskStep, connect_client, build, apply_preferences, set_client, run,
     run_returned, tail, connect_failed, HandlerStep, event_saved, logged_out, logged_out_saved,
     record_lock_cooldown, record_logout_and_should_purge, purge, ClientStep, PairingQrCode,
     Connected, Disconnected, GivesUp, LoggedOut, Event
<1> QED
  BY <1>2, <1>3, <1>4 DEF Next, CooldownEnds, vars

\* While the first client is at work, every request that would make way for
\* another one stops it.
LEMMA FirstRequest ==
    ASSUME LifeInv, Ends, FirstOnly, OneStart, NotStarted', NEW r \in Requests, RequestStep(r)
    PROVE  FirstOnly'
<1>0. /\ Basics /\ UNCHANGED <<kind, ev>> /\ TypeOK
      /\ pc \in [Requests -> PcSteps] /\ task \in [Clients -> TaskSteps]
      /\ \A q \in Requests \ {r} : pc'[q] = pc[q]
      /\ current \in 0..MaxRuntimes /\ 0..MaxRuntimes = {0} \cup 1..MaxRuntimes
      /\ pc[r] = "zip" => Is(r, {"export"})
      /\ pc[r] = "delete" => Is(r, {"delete"})
      /\ RequestPlace(r)
  BY RequestLeaves, OwnerFacts, PlacesParts DEF Basics, TypeOK, Ends
<1>1. r \in Starting => pc'[r] # "done" /\ ~Is(r, {"tick", "reload"})
  BY <1>0 DEF NotStarted, OneStart, Starting, Is
<1>2. UNCHANGED task
  BY <1>0, <1>1, Spawning DEF Is
<1>3. ASSUME NEW c \in Clients, Active(c)' PROVE Active(c)
  <2>1. [Next]_vars
    BY DEF Next
  <2>2. task' # [task EXCEPT ![c] = "path"] \/ task[c] # None
    BY <1>0, <1>2 DEF None
  <2> QED
    BY <1>2, <1>3, <2>1, <2>2, Actives
<1>4. ASSUME NEW c \in Clients, Active(c)'
      PROVE  /\ current' # 0 /\ rt'[current'].slot = c /\ row' # NoRow
             /\ pc'[r] \notin {"clear", "insert"}
             /\ Is(r, {"create", "delete"}) => pc'[r] = "start"
             /\ Is(r, {"connect"})          => pc'[r] \in {"start", "look"}
             /\ Is(r, {"export"})           => pc'[r] \in {"start", "look", "done"}
  <2>0. /\ Active(c) /\ current # 0 /\ rt[current].slot = c /\ row # NoRow
        /\ pc[r] \notin {"clear", "insert"}
        /\ Is(r, {"create", "delete"}) => pc[r] = "start"
        /\ Is(r, {"connect"})          => pc[r] \in {"start", "look"}
        /\ Is(r, {"export"})           => pc[r] \in {"start", "look", "done"}
    BY <1>3, <1>4 DEF FirstOnly
  <2>1. live'[c] # "stopped" /\ c # None
    BY <1>4, LifecycleAssumption DEF LifecycleAssumption, None, Active
  <2>2. current \in 1..MaxRuntimes
    BY <1>0, <2>0
  <2>3. ~disconnect(current)
    BY <1>0, <2>0, <2>1, <2>2, Disconnecting
  <2> DEFINE Stay == /\ current' # 0 /\ rt'[current'].slot = c /\ row' # NoRow
             Way  == /\ pc'[r] \notin {"clear", "insert"}
                     /\ Is(r, {"create", "delete"}) => pc'[r] = "start"
                     /\ Is(r, {"connect"})          => pc'[r] \in {"start", "look"}
                     /\ Is(r, {"export"})           => pc'[r] \in {"start", "look", "done"}
  <2>4. CASE get_session(r)
    <3>1. Stay
      BY <2>0, <2>4 DEF get_session, memory
    <3>2. ~Is(r, {"create", "delete", "tick", "reload"})
      BY <1>1, <2>4 DEF get_session, Starting, Is, Starters
    <3>3. pc'[r] \in {"open", "look"} /\ (Is(r, {"connect", "export"}) => pc'[r] = "look")
      BY <1>0, <2>0, <2>4, <3>2 DEF get_session, GoTo, Set, Is
    <3> QED
      BY <3>1, <3>2, <3>3 DEF Is
  <2>5. CASE create_session(r) \/ insert_session(r) \/ remove_session(r) \/ delete_session(r)
             \/ clear(r) \/ reconnect(r)
    <3>1. ~Is(r, {"tick"})
      BY <1>1 DEF Starting, Is, Starters
    <3> QED
      BY <1>0, <2>0, <2>5, <3>1 DEF create_session, insert_session, remove_session, delete_session, clear,
         reconnect, Step, RequestPlace, Is
  <2>6. CASE connect_session(r) \/ stop(r) \/ run_reconnect_watchdog(r)
    <3>1. ~run_reconnect_watchdog(r)
      BY <1>1 DEF run_reconnect_watchdog, Starting, Is, Starters
    <3>2. CASE connect_session(r)
      <4>1. pc'[r] = "done" /\ r \in Starting
        BY <1>0, <2>0, <2>3, <3>2 DEF connect_session, GoTo, Set, Starting, Is, Starters
      <4> QED
        BY <1>1, <4>1
    <3>3. CASE stop(r)
      BY <1>0, <2>0, <2>1, <2>3, <3>3 DEF stop
    <3> QED
      BY <2>6, <3>1, <3>2, <3>3
  <2>7. CASE ensure_connecting_for_wait(r)
    <3>1. Runtime = current /\ at'[r] = current
      BY <1>0, <2>0, <2>7, GetOrCreate DEF ensure_connecting_for_wait, TypeOK
    <3>2. pc'[r] = "done" /\ r \in Starting
      BY <1>0, <2>3, <2>7, <3>1 DEF ensure_connecting_for_wait, GoTo, Set, Starting, Is, Starters
    <3> QED
      BY <1>1, <3>2
  <2>8. CASE save(r)
    <3>1. /\ ~Is(r, {"create", "delete", "connect", "export"}) /\ ~Is(r, {"tick"})
      BY <1>1, <2>0, <2>8 DEF save, Starting, Is, Starters
    <3>2. pc'[r] = "done" /\ UNCHANGED memory
      BY <1>0, <2>8, <3>1 DEF save, GoTo, Set, Is
    <3>3. row' # NoRow
      <4>1. (Is(r, {"disconnect_all"}) /\ seen[r].logged) \in BOOLEAN
        BY <1>0 DEF TypeOK, Rows, Is
      <4> QED
        BY <1>0, <2>0, <2>8, <4>1, RowUpdate DEF save
    <3> QED
      BY <2>0, <3>1, <3>2, <3>3 DEF memory, Is
  <2>9. CASE look(r) \/ get_storage_path(r) \/ zip_directory(r) \/ unzip_directory(r)
    <3>1. Stay /\ ~Is(r, {"create", "delete", "connect", "export"})
      BY <1>0, <2>0, <2>9 DEF look, get_storage_path, zip_directory, unzip_directory, Step, memory, Is
    <3>2. pc'[r] \notin {"clear", "insert"}
      BY <1>0, <2>9 DEF look, get_storage_path, zip_directory, unzip_directory, Step, GoTo, Set
    <3> QED
      BY <3>1, <3>2 DEF Is
  <2>10. CASE open(r) \/ reconnect_all_on_startup(r) \/ pair_session(r)
    <3>1. pc'[r] = "done" \/ Is(r, {"reload"})
      BY <1>0, <2>10 DEF open, reconnect_all_on_startup, pair_session, Step, GoTo, Set
    <3>2. r \in Starting
      BY <2>10 DEF open, reconnect_all_on_startup, pair_session, Starting, Is, Starters
    <3> QED
      BY <1>1, <3>1, <3>2 DEF Is
  <2>11. CASE set_auto_reconnect(r)
    <3>1. Runtime = current /\ current' = current /\ UNCHANGED row
          /\ rt' = [rt EXCEPT ![current].pref = FALSE]
      BY <1>0, <2>0, <2>11, GetOrCreate DEF set_auto_reconnect
    <3>2. rt'[current].slot = rt[current].slot
      BY <1>0, <2>2, <3>1 DEF TypeOK
    <3>3. pc'[r] = "done" /\ Is(r, {"reconnect_pref"})
      BY <1>0, <2>11 DEF set_auto_reconnect, Step, GoTo, Set
    <3> QED
      BY <2>0, <3>1, <3>2, <3>3 DEF Is
  <2> QED
    BY <2>4, <2>5, <2>6, <2>7, <2>8, <2>9, <2>10, <2>11, RequestKinds DEF Firsts, Stops, Starts
<1>5. ASSUME NEW c \in Clients, Active(c)', NEW q \in Requests
      PROVE  /\ pc'[q] \notin {"clear", "insert"}
             /\ (Is(q, {"create", "delete"}))' => pc'[q] = "start"
             /\ (Is(q, {"connect"}))'          => pc'[q] \in {"start", "look"}
             /\ (Is(q, {"export"}))'           => pc'[q] \in {"start", "look", "done"}
  <2>1. CASE q = r
    BY <1>0, <1>4, <1>5, <2>1 DEF Is
  <2>2. CASE q # r
    BY <1>0, <1>3, <1>5, <2>2 DEF Is, FirstOnly
  <2> QED
    BY <2>1, <2>2
<1>6. ASSUME NEW c \in Clients, Active(c)', NEW d \in Clients
      PROVE  ev'[d] \in {None, "qr", "in", "down"}
  BY <1>0, <1>3, <1>6 DEF FirstOnly
<1>7. (\A c \in Clients : task[c] \in {None, "run", "tail", "done"})' 
      /\ (\A c, d \in Clients : task[c] # None /\ task[d] # None => c = d)'
  BY <1>2 DEF FirstOnly
<1> QED
  BY <1>4, <1>5, <1>6, <1>7 DEF FirstOnly

\* The rest: the one client's task, its events and handlers.
LEMMA FirstOther ==
    ASSUME LifeInv, FirstOnly, [Next]_vars, ~\E r \in Requests : RequestStep(r)
    PROVE  FirstOnly'
<1>0. /\ Basics /\ task \in [Clients -> TaskSteps] /\ live \in [Clients -> Lives]
      /\ current \in 0..MaxRuntimes /\ 0..MaxRuntimes = {0} \cup 1..MaxRuntimes
      /\ ev \in [Clients -> EvSteps] /\ \A d \in Clients : ClientPlace(d)
  BY OwnerFacts, PlacesParts DEF Basics, TypeOK, Lives
<1>1. ASSUME NEW c \in Clients, Active(c)' PROVE Active(c)
  BY <1>1, Actives
\* What is left to show of a step that leaves the requests alone.
<1>2. ASSUME UNCHANGED request,
             \A c \in Clients : task'[c] \in {None, "run", "tail", "done"},
             \A c \in Clients : task'[c] # None => task[c] # None,
             \A c \in Clients : Active(c)' =>
               /\ current' # 0 /\ rt'[current'].slot = c /\ row' # NoRow
               /\ \A d \in Clients : ev'[d] \in {None, "qr", "in", "down"}
      PROVE  FirstOnly'
  <2>1. (\A c, d \in Clients : task[c] # None /\ task[d] # None => c = d)'
    BY <1>2 DEF FirstOnly
  <2>2. ASSUME NEW c \in Clients, Active(c)', NEW r \in Requests
        PROVE  /\ pc'[r] \notin {"clear", "insert"}
               /\ (Is(r, {"create", "delete"}))' => pc'[r] = "start"
               /\ (Is(r, {"connect"}))'          => pc'[r] \in {"start", "look"}
               /\ (Is(r, {"export"}))'           => pc'[r] \in {"start", "look", "done"}
    BY <1>1, <1>2, <2>2 DEF FirstOnly, request, Is
  <2> QED
    BY <1>2, <2>1, <2>2 DEF FirstOnly
<1>3. ASSUME NEW c \in Clients, TaskStep(c) PROVE FirstOnly'
  <2>1. task[c] \in {"run", "tail"}
    BY <1>3 DEF FirstOnly, None, TaskStep, connect_client, build, apply_preferences, set_client, run,
       run_returned, tail, connect_failed, TaskTo
  <2>2. /\ UNCHANGED request /\ task'[c] \in {"tail", "done"}
        /\ \A d \in Clients \ {c} : task'[d] = task[d]
    BY <1>0, <1>3, <2>1 DEF TaskStep, connect_client, build, apply_preferences, set_client, run,
       run_returned, tail, connect_failed, TaskTo, Set
  <2>3. \A d \in Clients \ {c} : task[d] = None
    BY <2>1 DEF FirstOnly, None
  <2>4. \A d \in Clients : ~Active(d)'
    BY <2>2, <2>3 DEF Active, Pending, None
  <2> QED
    BY <1>2, <2>1, <2>2, <2>3, <2>4 DEF None
<1>4. ASSUME UNCHANGED <<request, task>>,
             \A c \in Clients : Active(c)' =>
               /\ current' # 0 /\ rt'[current'].slot = c /\ row' # NoRow
               /\ \A d \in Clients : ev'[d] \in {None, "qr", "in", "down"}
      PROVE  FirstOnly'
  BY <1>2, <1>4 DEF FirstOnly
<1>5. ASSUME NEW c \in Clients, HandlerStep(c) PROVE FirstOnly'
  <2>0. UNCHANGED <<request, task>>
    BY <1>0, <1>5, HandlerMoves DEF conn
  <2>1. ASSUME NEW d \in Clients, Active(d)'
        PROVE  /\ current' # 0 /\ rt'[current'].slot = d /\ row' # NoRow
               /\ \A k \in Clients : ev'[k] \in {None, "qr", "in", "down"}
    <3>0. /\ current # 0 /\ rt[current].slot = d /\ row # NoRow
          /\ \A k \in Clients : ev[k] \in {None, "qr", "in", "down"}
      BY <1>1, <2>1 DEF FirstOnly
    <3>1. event_saved(c)
      BY <1>5, <3>0 DEF HandlerStep, logged_out, logged_out_saved, record_lock_cooldown,
         record_logout_and_should_purge, purge, EvTo, None
    <3>2. UNCHANGED <<current, rt>> /\ ev' = [ev EXCEPT ![c] = None]
      BY <3>1 DEF event_saved, memory, Set
    <3>3. PICK s \in {"Disconnected", "Connecting", "WaitingForQr", "LoggedIn"}, l \in BOOLEAN :
             update_session_status(s, l)
      BY <3>1 DEF event_saved
    <3>4. row' # NoRow
      BY <1>0, <3>0, <3>3, RowUpdate DEF Basics
    <3> QED
      BY <1>0, <3>0, <3>2, <3>4
  <2> QED
    BY <1>4, <2>0, <2>1
<1>6. ASSUME NEW c \in Clients, ClientStep(c) PROVE FirstOnly'
  <2>0. /\ UNCHANGED <<request, task, row, current>>
        /\ \A z \in 1..MaxRuntimes : rt'[z].slot = rt[z].slot
    BY <1>0, <1>6, EventRuntimes DEF conn
  <2>1. ASSUME NEW d \in Clients, Active(d)'
        PROVE  /\ current' # 0 /\ rt'[current'].slot = d /\ row' # NoRow
               /\ \A k \in Clients : ev'[k] \in {None, "qr", "in", "down"}
    <3>0. /\ current # 0 /\ rt[current].slot = d /\ row # NoRow
          /\ \A k \in Clients : ev[k] \in {None, "qr", "in", "down"}
      BY <1>1, <2>1 DEF FirstOnly
    <3>1. live'[d] # "stopped"
      BY <2>1 DEF Active
    <3>2. ASSUME NEW lock \in BOOLEAN, LoggedOut(c, lock) PROVE FALSE
      BY <3>0, <3>1, <3>2 DEF LoggedOut
    <3>3. ev' = ev \/ \E to \in {"qr", "in", "down"} : ev' = [ev EXCEPT ![c] = to]
      BY <1>6, <3>2 DEF ClientStep, GivesUp, PairingQrCode, Connected, Disconnected, Event, Set, handler
    <3>4. \A k \in Clients : ev'[k] \in {None, "qr", "in", "down"}
      BY <1>0, <3>0, <3>3
    <3> QED
      BY <1>0, <2>0, <3>0, <3>4
  <2> QED
    BY <1>4, <2>0, <2>1
<1>7. ASSUME NEW x \in 1..MaxRuntimes, CooldownEnds(x) PROVE FirstOnly'
  <2>0. UNCHANGED <<request, task, row, current, ev>> /\ \A z \in 1..MaxRuntimes : rt'[z].slot = rt[z].slot
    BY <1>0, <1>7, CooldownTypes DEF CooldownEnds, conn, handler, Untouched
  <2> QED
    BY <1>0, <1>1, <1>4, <2>0 DEF FirstOnly
<1>8. CASE UNCHANGED vars
  <2>0. UNCHANGED <<request, task, row, current, ev, rt>>
    BY <1>8 DEF vars, memory, conn, handler
  <2> QED
    BY <1>0, <1>1, <1>4, <2>0 DEF FirstOnly
<1> QED
  BY <1>3, <1>5, <1>6, <1>7, <1>8 DEF Next

LEMMA DoneStays ==
    ASSUME Basics, [Next]_vars, NEW q \in Requests, pc[q] = "done" PROVE pc'[q] = "done"
<1>1. ASSUME UNCHANGED request PROVE pc'[q] = "done"
  BY <1>1 DEF request
<1>2. ASSUME NEW r \in Requests, RequestStep(r) PROVE pc'[q] = "done"
  <2>1. pc[r] # "done"
    BY <1>2, RequestKinds DEF Firsts, Stops, Starts, get_session, create_session, insert_session, look, get_storage_path,
       zip_directory, unzip_directory, remove_session, delete_session, save, connect_session, stop,
       run_reconnect_watchdog, ensure_connecting_for_wait, clear, reconnect, open,
       reconnect_all_on_startup, pair_session, set_auto_reconnect, Step
  <2>2. pc \in [Requests -> PcSteps]
    BY DEF Basics, TypeOK, PcSteps
  <2> QED
    BY <1>2, <2>1, <2>2, RequestLeaves
<1>3. ASSUME NEW c \in Clients, TaskStep(c) \/ ClientStep(c) \/ HandlerStep(c) PROVE UNCHANGED request
  BY <1>3 DEF TaskStep, connect_client, build, apply_preferences, set_client, run,
     run_returned, tail, connect_failed, HandlerStep, event_saved, logged_out, logged_out_saved,
     record_lock_cooldown, record_logout_and_should_purge, purge, ClientStep, PairingQrCode,
     Connected, Disconnected, GivesUp, LoggedOut, Event
<1> QED
  BY <1>1, <1>2, <1>3 DEF Next, CooldownEnds, vars

\* A connect task is given out only when no client is at work.
LEMMA NoneActive ==
    ASSUME StartInv, OneStart, NEW r \in Requests, RequestStep(r), task' # task, NEW c \in Clients
    PROVE  ~Active(c)
<1>0. Basics /\ Ends /\ None \notin Clients /\ RequestPlace(r)
  BY OwnerFacts, PlacesParts, LifecycleAssumption DEF StartInv, LifecycleAssumption, None, Basics
<1>1. /\ r \in Starting /\ Starting = {r}
      /\ \/ reconnect(r) /\ Is(r, {"tick"})
         \/ clear(r) /\ Is(r, {"wait"})
         \/ open(r) /\ Is(r, {"create", "connect"})
         \/ /\ pair_session(r) /\ Is(r, {"pair"})
            /\ current = 0 \/ rt[current].slot = None
  <2>1. r \in Starting
    BY <1>0, Spawning
  <2>2. Starting = {r} /\ ~Is(r, {"reload"})
    BY <2>1 DEF OneStart
  <2> QED
    BY <1>0, <2>1, <2>2, Spawning
<1>2. CASE reconnect(r) /\ Is(r, {"tick"})
  BY <1>1, <1>2 DEF StartInv, Rebuilding, reconnect, Step
<1>3. CASE ~Is(r, {"tick"}) /\ pc[r] # "done"
  <2>1. FirstOnly
    BY <1>1, <1>3 DEF StartInv, NotStarted
  <2> QED
    BY <1>0, <1>1, <1>3, <2>1 DEF FirstOnly, clear, open, pair_session, Step, Is
<1> QED
  BY <1>1, <1>2, <1>3 DEF clear, open, pair_session, Step, Is

LEMMA NoneGivenOut ==
    ASSUME LifeInv, [Next]_vars, UNCHANGED task, NEW c \in Clients, Active(c)' PROVE Active(c)
<1>1. task \in [Clients -> TaskSteps]
  BY OwnerFacts
<1>2. task[c] = None => task' # [task EXCEPT ![c] = "path"]
  BY <1>1 DEF None
<1> QED
  BY <1>2, Actives

LEMMA OneActiveStep == ASSUME StartInv, OneStart, [Next]_vars PROVE OneActive'
<1> SUFFICES ASSUME NEW c \in Clients, NEW d \in Clients, Active(c)', Active(d)' PROVE c = d
  BY DEF OneActive
<1>0. LifeInv /\ OneActive /\ task \in [Clients -> TaskSteps]
  BY OwnerFacts DEF StartInv
<1>1. ASSUME NEW k \in Clients, Active(k)'
      PROVE  \/ Active(k)
             \/ \E r \in Requests : /\ RequestStep(r) /\ task[k] = None
                                    /\ task' = [task EXCEPT ![k] = "path"]
  BY <1>0, <1>1, Actives
<1>2. ASSUME NEW k \in Clients, task[k] = None, task' = [task EXCEPT ![k] = "path"],
             NEW r \in Requests, RequestStep(r), NEW j \in Clients, Active(j)'
      PROVE  j = k
  <2>1. task' # task
    BY <1>0, <1>2 DEF None
  <2>2. ~Active(j)
    BY <1>2, <2>1, NoneActive
  <2>3. task'[j] = "path" /\ task[j] = None
    BY <1>0, <1>1, <1>2, <2>2
  <2> QED
    BY <1>0, <1>2, <2>3 DEF None
<1>3. CASE Active(c) /\ Active(d)
  BY <1>0, <1>3 DEF OneActive
<1>4. CASE ~Active(c)
  <2>1. PICK r \in Requests : RequestStep(r) /\ task[c] = None /\ task' = [task EXCEPT ![c] = "path"]
    BY <1>1, <1>4
  <2> QED
    BY <1>2, <2>1
<1>5. CASE ~Active(d)
  <2>1. PICK r \in Requests : RequestStep(r) /\ task[d] = None /\ task' = [task EXCEPT ![d] = "path"]
    BY <1>1, <1>5
  <2> QED
    BY <1>2, <2>1
<1> QED
  BY <1>3, <1>4, <1>5

\* A step that gives out no task and fills no slot.
LEMMA RebuildKept ==
    ASSUME NEW r \in Requests, Rebuilding(r), OneActive', TypeOK,
           \A c \in Clients : Active(c)' => Active(c),
           pc'[r] = pc[r], at'[r] = at[r],
           \A z \in 1..MaxRuntimes : rt'[z].slot \in {None, rt[z].slot},
           \/ current' \in {0, current}
           \/ /\ current' \in 1..MaxRuntimes /\ current' >= at[r] /\ rt'[current'].slot = None
    PROVE  Rebuilding(r)'
<1>0. current \in {0} \cup 1..MaxRuntimes
  BY LifecycleAssumption DEF TypeOK, LifecycleAssumption
<1>1. ASSUME NEW c \in Clients, Active(c)'
      PROVE  pc'[r] = "start" /\ (current' # 0 => rt'[current'].slot \in {None, c})
  BY <1>0, <1>1 DEF Rebuilding
<1>2. pc'[r] = "clear" => \A x \in 1..MaxRuntimes : x > at'[r] => rt'[x].slot = None
  BY DEF Rebuilding
<1>3. pc'[r] = "clear" => current' \in {0} \cup {x \in 1..MaxRuntimes : x >= at'[r]}
  BY <1>0 DEF Rebuilding
<1>4. pc'[r] \in {"save", "again"} /\ current' # 0 => rt'[current'].slot = None
  BY <1>0 DEF Rebuilding
<1> QED
  BY <1>1, <1>2, <1>3, <1>4 DEF Rebuilding

\* The watchdog's own steps.
LEMMA RebuildTick ==
    ASSUME StartInv, OneStart, NEW r \in Starting, Is(r, {"tick"}), RequestStep(r), OneActive'
    PROVE  Rebuilding(r)'
<1>0. /\ Basics /\ SlotIsOwned /\ Rebuilding(r) /\ TypeOK /\ Ranges /\ LifeInv /\ r \in Requests
      /\ pc \in [Requests -> PcSteps]
      /\ pc[r] \in {"start", "clear", "save", "again"}
      /\ current \in 0..MaxRuntimes /\ 0..MaxRuntimes = {0} \cup 1..MaxRuntimes
      /\ at \in [Requests -> 0..MaxRuntimes]
      /\ rt \in [1..MaxRuntimes -> StateRecord]
  <2>1. LifeInv /\ Rebuilding(r) /\ r \in Requests
    BY DEF StartInv, Starting
  <2>2. /\ Basics /\ SlotIsOwned /\ pc \in [Requests -> PcSteps]
        /\ current \in 0..MaxRuntimes /\ 0..MaxRuntimes = {0} \cup 1..MaxRuntimes
    BY <2>1, OwnerFacts
  <2>3. RequestPlace(r) /\ TypeOK /\ Ranges
    BY <2>1, <2>2, PlacesParts DEF Basics
  <2> QED
    BY <2>1, <2>2, <2>3 DEF RequestPlace, TypeOK, StateRecord
<1>1. \/ run_reconnect_watchdog(r) \/ clear(r) \/ save(r) \/ reconnect(r)
  BY <1>0, RequestKinds DEF Firsts, Stops, Starts, get_session, create_session, insert_session, look, get_storage_path,
     zip_directory, unzip_directory, remove_session, delete_session, connect_session, stop,
     ensure_connecting_for_wait, open, reconnect_all_on_startup, pair_session, set_auto_reconnect, Step, Is
<1>2. [Next]_vars
  BY <1>0 DEF Next
<1>3. CASE run_reconnect_watchdog(r)
  <2>1. /\ UNCHANGED <<current, rt, task>> /\ at'[r] = current /\ pc'[r] = "clear" /\ disconnect(current)
        /\ current # 0 /\ rt[current].slot # None
    BY <1>0, <1>3 DEF run_reconnect_watchdog, GoTo, Set, memory, conn
  <2>2. ASSUME NEW c \in Clients PROVE ~Active(c)'
    <3>1. Active(c)' => Active(c)
      BY <1>0, <1>2, <2>1, NoneGivenOut
    <3>2. Active(c) => rt[current].slot = c
      BY <1>0, <2>1 DEF Rebuilding
    <3>3. rt[current].slot = c => live'[c] = "stopped"
      BY <1>0, <2>1, Disconnecting
    <3> QED
      BY <3>1, <3>2, <3>3 DEF Active
  <2>3. \A x \in 1..MaxRuntimes : x > at'[r] => rt'[x].slot = None
    BY <1>0, <2>1, RangeFacts
  <2>4. current' \in {x \in 1..MaxRuntimes : x >= at'[r]}
    BY <1>0, <2>1, LifecycleAssumption DEF LifecycleAssumption
  <2> QED
    BY <2>1, <2>2, <2>3, <2>4 DEF Rebuilding
<1>4. CASE clear(r)
  <2>1. /\ pc'[r] = "save" /\ UNCHANGED <<current, task>> /\ pc[r] = "clear"
    BY <1>0, <1>4 DEF clear, GoTo, Set, Is, conn
  <2>2. ASSUME NEW c \in Clients PROVE ~Active(c)'
    <3>1. Active(c)' => Active(c)
      BY <1>0, <1>2, <2>1, NoneGivenOut
    <3> QED
      BY <1>0, <2>1, <3>1 DEF Rebuilding
  <2>3. current' # 0 => rt'[current'].slot = None
    <3>1. ~Is(r, {"disconnect_all"})
      BY DEF Is
    <3>2. /\ at[r] = 0 => UNCHANGED rt
          /\ at[r] # 0 => /\ rt'[at[r]].slot = None
                          /\ \A z \in (1..MaxRuntimes) \ {at[r]} : rt'[z] = rt[z]
      BY <1>0, <1>4, <3>1, ClearRuntime
    <3>3. current # 0 => current >= at[r] /\ current \in 1..MaxRuntimes
      BY <1>0, <2>1 DEF Rebuilding
    <3>4. \A x \in 1..MaxRuntimes : x > at[r] => rt[x].slot = None
      BY <1>0, <2>1 DEF Rebuilding
    <3>5. CASE current = at[r]
      BY <1>0, <2>1, <3>2, <3>5
    <3>6. CASE current # 0 /\ current # at[r]
      <4>1. current > at[r]
        BY <1>0, <3>3, <3>6
      <4> QED
        BY <1>0, <2>1, <3>2, <3>3, <3>4, <3>6, <4>1
    <3> QED
      BY <2>1, <3>5, <3>6
  <2> QED
    BY <2>1, <2>2, <2>3 DEF Rebuilding
<1>5. CASE save(r)
  <2>1. /\ pc'[r] = "again" /\ UNCHANGED <<current, rt, task>> /\ pc[r] = "save"
    BY <1>0, <1>5 DEF save, GoTo, Set, Is, conn, memory
  <2>2. ASSUME NEW c \in Clients PROVE ~Active(c)'
    <3>1. Active(c)' => Active(c)
      BY <1>0, <1>2, <2>1, NoneGivenOut
    <3> QED
      BY <1>0, <2>1, <3>1 DEF Rebuilding
  <2> QED
    BY <1>0, <2>1, <2>2 DEF Rebuilding
<1>6. CASE reconnect(r)
  <2>1. /\ pc'[r] = "start" /\ UNCHANGED current /\ pc[r] = "again"
    BY <1>0, <1>6 DEF reconnect, Step, GoTo, Set
  <2>2. current # 0 => rt'[current].slot = None
    <3>1. \A z \in 1..MaxRuntimes : rt'[z].slot \in {None, rt[z].slot}
      BY <1>0, RequestMemory
    <3>2. current # 0 => rt[current].slot = None
      BY <1>0, <2>1 DEF Rebuilding
    <3> QED
      BY <1>0, <3>1, <3>2
  <2> QED
    BY <2>1, <2>2 DEF Rebuilding
<1> QED
  BY <1>1, <1>3, <1>4, <1>5, <1>6

LEMMA RebuildStep ==
    ASSUME StartInv, OneStart, [Next]_vars, NEW r \in Starting, Is(r, {"tick"}) PROVE Rebuilding(r)'
<1>0. /\ Basics /\ TypeOK /\ LifeInv /\ Rebuilding(r) /\ OneActive' /\ r \in Requests
      /\ pc \in [Requests -> PcSteps] /\ task \in [Clients -> TaskSteps]
      /\ current \in 0..MaxRuntimes /\ 0..MaxRuntimes = {0} \cup 1..MaxRuntimes
      /\ \A c \in Clients : ClientPlace(c)
  <2>1. LifeInv /\ Rebuilding(r) /\ r \in Requests
    BY DEF StartInv, Starting
  <2>2. /\ Basics /\ pc \in [Requests -> PcSteps] /\ task \in [Clients -> TaskSteps]
        /\ current \in 0..MaxRuntimes /\ 0..MaxRuntimes = {0} \cup 1..MaxRuntimes
    BY <2>1, OwnerFacts
  <2> QED
    BY <2>1, <2>2, OneActiveStep, PlacesParts DEF Basics
<1>1. CASE RequestStep(r)
  BY <1>0, <1>1, RebuildTick
<1>2. ASSUME NEW q \in Requests, q # r, RequestStep(q) PROVE Rebuilding(r)'
  <2>1. q \notin Starting
    BY <1>2 DEF OneStart
  <2>2. UNCHANGED task
    BY <1>0, <1>2, <2>1, Spawning
  <2>3. \A c \in Clients : Active(c)' => Active(c)
    BY <1>0, <2>2, NoneGivenOut
  <2>4. pc'[r] = pc[r] /\ at'[r] = at[r]
    BY <1>0, <1>2, RequestLeaves, RequestMemory
  <2>5. \A z \in 1..MaxRuntimes : rt'[z].slot \in {None, rt[z].slot}
    BY <1>0, <1>2, RequestMemory
  <2>6. \/ current' \in {0, current}
        \/ current' \in 1..MaxRuntimes /\ current' >= at[r] /\ rt'[current'].slot = None
    <3>1. CASE current' # 0 /\ current' # current
      <4>1. current' > made /\ current' \in 1..MaxRuntimes /\ rt[current'].slot = None
        BY <1>0, <1>2, <3>1, RequestCurrent
      <4>2. at[r] <= made /\ at[r] \in Nat /\ made \in Nat
        BY <1>0, RangeFacts DEF Basics
      <4>3. current' >= at[r]
        BY <4>1, <4>2
      <4>4. rt'[current'].slot = None
        BY <2>5, <4>1
      <4> QED
        BY <4>1, <4>3, <4>4
    <3> QED
      BY <3>1
  <2> QED
    BY <1>0, <2>3, <2>4, <2>5, <2>6, RebuildKept
<1>3. ASSUME UNCHANGED <<request, task>>, current' \in {0, current},
             \A z \in 1..MaxRuntimes : rt'[z].slot \in {None, rt[z].slot}
      PROVE  Rebuilding(r)'
  <2>1. \A c \in Clients : Active(c)' => Active(c)
    BY <1>0, <1>3, NoneGivenOut
  <2> QED
    BY <1>0, <1>3, <2>1, RebuildKept DEF request
<1>4. ASSUME NEW c \in Clients, TaskStep(c) PROVE Rebuilding(r)'
  <2>1. UNCHANGED <<request, current>>
    BY <1>4 DEF TaskStep, connect_client, build, apply_preferences, set_client, run,
       run_returned, tail, connect_failed, memory
  <2>2. ASSUME NEW d \in Clients, Active(d)' PROVE Active(d)
    <3>1. task[d] = None => task'[d] # "path"
      BY <1>0, <1>4 DEF TaskStep, connect_client, build, apply_preferences, set_client, run,
         run_returned, tail, connect_failed, TaskTo, Set, None
    <3> QED
      BY <1>0, <2>2, <3>1, Actives
  <2>3. CASE set_client(c)
    <3>1. task[c] = "install" /\ live[c] = "built"
      BY <1>0, <2>3 DEF set_client, TaskTo, ClientPlace
    <3>2. Active(c)
      BY <3>1 DEF Active, Pending
    <3>3. pc'[r] = "start"
      BY <1>0, <2>1, <3>2 DEF Rebuilding, request
    <3>4. ASSUME NEW d \in Clients, Active(d)', current' # 0
          PROVE  rt'[current'].slot \in {None, d}
      <4>1. d = c
        BY <1>0, <2>2, <3>2, <3>4 DEF Rebuilding, OneActive
      <4>2. rt[current].slot \in {None, d} /\ current \in 1..MaxRuntimes
        BY <1>0, <2>1, <2>2, <3>4 DEF Rebuilding
      <4>3. held[c] \in 1..MaxRuntimes /\ rt'[held[c]].slot = c
            /\ \A z \in (1..MaxRuntimes) \ {held[c]} : rt'[z] = rt[z]
        BY <1>0, <2>3, TaskRuntimes
      <4> QED
        BY <2>1, <4>1, <4>2, <4>3
    <3> QED
      BY <1>0, <3>3, <3>4 DEF Rebuilding
  <2>4. CASE ~set_client(c)
    <3>1. \A z \in 1..MaxRuntimes : rt'[z].slot \in {None, rt[z].slot}
      <4>1. CASE run_returned(c) \/ connect_failed(c)
        BY <1>0, <2>4, <4>1, TaskRuntimes
      <4>2. CASE ~(run_returned(c) \/ connect_failed(c))
        BY <1>4, <2>4, <4>2 DEF TaskStep, connect_client, build, apply_preferences, run, tail, memory
      <4> QED
        BY <4>1, <4>2
    <3>2. pc'[r] = pc[r] /\ at'[r] = at[r]
      BY <2>1 DEF request
    <3> QED
      BY <1>0, <2>1, <2>2, <3>1, <3>2, RebuildKept
  <2> QED
    BY <2>3, <2>4
<1>5. ASSUME NEW c \in Clients, HandlerStep(c) PROVE Rebuilding(r)'
  <2>1. UNCHANGED <<request, task>> /\ current' \in {0, current}
    BY <1>5 DEF HandlerStep, event_saved, logged_out, logged_out_saved, record_lock_cooldown,
         record_logout_and_should_purge, purge, memory, conn
  <2>2. \A z \in 1..MaxRuntimes : rt'[z].slot \in {None, rt[z].slot}
    BY <1>0, <1>5, HandlerRuntimes DEF Untouched
  <2> QED
    BY <1>3, <2>1, <2>2
<1>6. ASSUME NEW c \in Clients, ClientStep(c) PROVE Rebuilding(r)'
  BY <1>0, <1>3, <1>6, EventRuntimes DEF conn
<1>7. ASSUME NEW x \in 1..MaxRuntimes, CooldownEnds(x) PROVE Rebuilding(r)'
  BY <1>0, <1>3, <1>7, CooldownTypes DEF CooldownEnds, conn, Untouched
<1>8. CASE UNCHANGED vars
  BY <1>3, <1>8 DEF vars, memory, conn
<1> QED
  BY <1>1, <1>2, <1>4, <1>5, <1>6, <1>7, <1>8 DEF Next

LEMMA StartStep == ASSUME StartInv, [Next]_vars PROVE StartInv'
<1>0. LifeInv /\ Ends /\ Basics
  BY OwnerFacts DEF StartInv
<1>1. LifeInv' /\ Ends' /\ UNCHANGED kind
  BY <1>0, LifeStep, EndsStep, KindsKept
<1>2. Starting' = Starting /\ OneStart' = OneStart
  BY <1>1 DEF Starting, OneStart, Is
<1>3. ASSUME OneStart, NotStarted' PROVE FirstOnly'
  <2>1. NotStarted
    <3> SUFFICES ASSUME NEW q \in Starting PROVE pc[q] # "done" /\ ~Is(q, {"tick"})
      BY DEF NotStarted
    <3>1. pc'[q] # "done" /\ ~(Is(q, {"tick"}))'
      BY <1>2, <1>3 DEF NotStarted
    <3>2. q \in Requests
      BY DEF Starting
    <3> QED
      BY <1>0, <1>1, <3>1, <3>2, DoneStays DEF Is
  <2>2. FirstOnly
    BY <1>3, <2>1 DEF StartInv
  <2> QED
    BY <1>0, <1>3, <2>2, FirstRequest, FirstOther
<1>4. ASSUME OneStart, NEW r \in Starting, Is(r, {"tick"}) PROVE Rebuilding(r)'
  BY <1>4, RebuildStep
<1>5. OneStart => OneActive'
  BY OneActiveStep
<1>6. (\A r \in Starting : Is(r, {"tick"}) => Rebuilding(r))' <=>
        \A r \in Starting : Is(r, {"tick"}) => Rebuilding(r)'
  BY <1>1, <1>2 DEF Is
<1> QED
  BY <1>1, <1>2, <1>3, <1>4, <1>5, <1>6 DEF StartInv

LEMMA StartInit == ASSUME Init PROVE StartInv
<1>0. /\ pc = [r \in Requests |-> "start"] /\ ev = [c \in Clients |-> None]
  BY DEF Init
<1>1. LifeInv /\ Ends
  BY <1>0, LifeInit DEF Ends
<1>2. /\ \A c \in Clients : task[c] \in {None, "run"}
      /\ \A c, d \in Clients : task[c] # None /\ task[d] # None => c = d
      /\ \A c \in Clients : task[c] # None =>
           current # 0 /\ rt[current].slot = c /\ row # NoRow
  <2>1. CASE task = [c \in Clients |-> None]
    BY <2>1
  <2>2. ASSUME /\ row = [status |-> "LoggedIn", logged |-> TRUE] /\ current = 1,
               NEW c \in Clients,
               /\ rt = [x \in 1..MaxRuntimes |->
                          IF x = 1 THEN [Fresh EXCEPT !.slot = c, !.status = "LoggedIn"] ELSE Fresh]
               /\ task = [k \in Clients |-> IF k = c THEN "run" ELSE None]
        PROVE  /\ \A d \in Clients : task[d] \in {None, "run"}
               /\ \A k, d \in Clients : task[k] # None /\ task[d] # None => k = d
               /\ \A d \in Clients : task[d] # None =>
                    current # 0 /\ rt[current].slot = d /\ row # NoRow
    <3>1. \A d \in Clients : task[d] # None => d = c
      BY <2>2
    <3>2. 1 \in 1..MaxRuntimes
      BY LifecycleAssumption DEF LifecycleAssumption
    <3>3. rt[1] = [Fresh EXCEPT !.slot = c, !.status = "LoggedIn"]
      BY <2>2, <3>2
    <3>4. rt[1].slot = c
      BY <3>3, FreshRecord DEF StateRecord
    <3>5. row # NoRow
      <4>1. row.status = "LoggedIn" /\ NoRow.status = "none"
        BY <2>2 DEF NoRow
      <4> QED
        BY <4>1
    <3>6. current = 1 /\ \A d \in Clients : task[d] \in {None, "run"}
      BY <2>2
    <3> QED
      BY ONLY <3>1, <3>4, <3>5, <3>6
  <2> QED
    BY <2>1, <2>2 DEF Init
<1>3. \A c \in Clients : Active(c) => task[c] # None
  BY DEF Active, Pending, None
<1>4. OneActive
  BY <1>2, <1>3 DEF OneActive
<1>5. FirstOnly
  BY <1>0, <1>2, <1>3, <1>4 DEF FirstOnly
<1>6. ASSUME NEW r \in Starting PROVE Rebuilding(r)
  BY <1>0, <1>2, <1>3, <1>4 DEF Rebuilding, Starting
<1> QED
  BY <1>1, <1>4, <1>5, <1>6 DEF StartInv

LEMMA StartSafe == ASSUME StartInv PROVE OneClientPerStart /\ StoppedStaysStopped
<1>0. \A c \in Clients : ClientPlace(c)
  BY PlacesParts DEF StartInv, LifeInv
<1>1. ASSUME NEW c \in Clients, live[c] \in {"open", "in", "down"} PROVE Active(c)
  BY <1>0, <1>1 DEF ClientPlace, Active
<1>2. OneClientPerStart
  <2>1. OneStart => OneLiveClient
    BY <1>1 DEF StartInv, OneActive, OneLiveClient
  <2> QED
    BY <2>1 DEF OneClientPerStart, OneStart
<1>3. ASSUME Starting = {} PROVE FirstOnly
  BY <1>3 DEF StartInv, OneStart, NotStarted
<1>4. ASSUME NEW c \in Clients, Running(c) PROVE Active(c)
  BY <1>4 DEF Running, Active
<1>5. StoppedStaysStopped
  <2> SUFFICES ASSUME Starting = {} PROVE DeletedIsGone /\ ExportIsAlone
    BY DEF StoppedStaysStopped
  <2>1. DeletedIsGone
    BY <1>3, <1>4 DEF FirstOnly, DeletedIsGone, Is
  <2>2. ExportIsAlone
    BY <1>3, <1>4 DEF FirstOnly, ExportIsAlone, StartInv, Ends, Is
  <2> QED
    BY <2>1, <2>2
<1> QED
  BY <1>2, <1>5

THEOREM Start == Spec => []StartInv
BY StartInit, StartStep, PTL DEF Spec

\* Where one request starts a client, whatever stops, deletes or exports the
\* session in the meantime, no two clients are on its device store
\* (sessions.rs:400-404): the old one is stopped before the new one is built.
THEOREM OneStarter == Spec => []OneClientPerStart
BY Start, StartSafe, PTL

\* With no request about that starts a client, a session that was deleted or is
\* being exported has none running, and no event or task brings one back.
THEOREM Stopped == Spec => []StoppedStaysStopped
BY Start, StartSafe, PTL
=============================================================================
