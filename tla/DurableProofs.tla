------------------------------ MODULE DurableProofs ------------------------------
(* The parts of Durable hold what they promise for any number of processes,     *)
(* tokens, sessions, requests and webhooks.                                     *)
EXTENDS Durable, TLAPS

\* A step of the composition is a step of each part or leaves the part alone.
LEMMA OneAtATime ==
    [PartsNext]_all => /\ [Next]_vars /\ [Tagging!Next]_(Tagging!vars)
                       /\ [Access!Next]_(Access!vars) /\ [Hooking!Next]_(Hooking!vars)
BY DEF PartsNext, all, tagVars, tokenVars, hookVars, Tagging!vars, Access!vars, Hooking!vars

-----------------------------------------------------------------------------
(* The lock file *)

\* Pids tell programs that run at the same time apart, the file holds one at
\* most, and a server that was refused is not the one it names.
PidsApart ==
    /\ \A p, q \in Procs : Live(p) /\ Live(q) /\ p # q => pid[p] # pid[q]
    /\ \A p \in Procs : Live(p) => pid[p] \notin others
    /\ \A m, n \in file : m = n
    /\ \A p \in Procs : pc[p] = "refused" => pid[p] \notin file

\* Without a race one server boots at a time, beside an owner it has yet to
\* read the file, and the file names the owner all along.
Exclusive ==
    ~raced =>
      /\ \A p, q \in Booting : p = q
      /\ \A p, q \in Owners : p = q
      /\ \A p \in Owners : file = {pid[p]}
      /\ \A p \in Owners, b \in Booting : pc[b] = "read"

LockInv == TypeOK /\ PidsApart /\ Exclusive

\* Nothing runs at first.
LEMMA LockInit == Init => LockInv
<1> SUFFICES ASSUME Init PROVE LockInv
  OBVIOUS
<1>1. pid \in [Procs -> Pids]
  BY LockAssumption DEF Init
<1>2. TypeOK
  <2>1. pc \in [Procs -> {"off", "read", "truncate", "write", "owner", "refused"}]
    BY DEF Init
  <2>2. starts \in 0..MaxStarts /\ born \in 0..MaxOthers
    BY LockAssumption DEF Init
  <2> QED
    BY <1>1, <2>1, <2>2 DEF Init, TypeOK
<1>3. \A p \in Procs : pc[p] = "off"
  BY DEF Init
<1>4. PidsApart
  BY <1>3 DEF Init, PidsApart, Live
<1>5. Exclusive
  BY <1>3 DEF Init, Exclusive, Booting, Owners
<1> QED
  BY <1>2, <1>4, <1>5 DEF LockInv

LEMMA LockNext == LockInv /\ [Next]_vars => LockInv'
<1> SUFFICES ASSUME LockInv, [Next]_vars PROVE LockInv'
  OBVIOUS
<1> USE LockAssumption DEF LockInv
<1>1. TypeOK'
  <2>1. ASSUME NEW p \in Procs, Start(p) PROVE TypeOK'
    BY <2>1 DEF Start, Step, TypeOK, Booting
  <2>2. ASSUME NEW p \in Procs, read_lock(p) PROVE TypeOK'
    BY <2>2 DEF read_lock, Step, TypeOK
  <2>3. ASSUME NEW p \in Procs, truncate(p) PROVE TypeOK'
    BY <2>3 DEF truncate, Step, TypeOK
  <2>4. ASSUME NEW p \in Procs, write_lock(p) PROVE TypeOK'
    BY <2>4 DEF write_lock, Step, TypeOK
  <2>5. ASSUME NEW p \in Procs, main_returns(p) PROVE TypeOK'
    BY <2>5 DEF main_returns, Step, TypeOK
  <2>6. ASSUME NEW p \in Procs, Kill(p) PROVE TypeOK'
    BY <2>6 DEF Kill, TypeOK
  <2>7. CASE OtherStarts
    BY <2>7 DEF OtherStarts, TypeOK
  <2>8. CASE OtherEnds
    BY <2>8 DEF OtherEnds, TypeOK
  <2>9. CASE UNCHANGED vars
    BY <2>9 DEF vars, TypeOK
  <2> QED
    BY <2>1, <2>2, <2>3, <2>4, <2>5, <2>6, <2>7, <2>8, <2>9 DEF Next
<1>2. PidsApart'
  <2>1. ASSUME NEW p \in Procs, Start(p) PROVE PidsApart'
    <3>1. PICK n \in Pids \ Taken : pid' = [pid EXCEPT ![p] = n]
      BY <2>1 DEF Start
    <3>2. n \notin others /\ \A q \in Procs : Live(q) => pid[q] # n
      BY <3>1 DEF Taken
    <3>3. /\ pc' = [pc EXCEPT ![p] = "read"] /\ pc[p] = "off"
          /\ UNCHANGED <<file, others>>
      BY <2>1 DEF Start, Step
    <3> QED
      BY <3>1, <3>2, <3>3 DEF PidsApart, TypeOK, Live
  <2>2. ASSUME NEW p \in Procs, read_lock(p) PROVE PidsApart'
    <3>1. pc'[p] = "refused" => pid[p] \notin file
      BY <2>2 DEF read_lock, Step, Held, PidsApart, TypeOK
    <3> QED
      BY <2>2, <3>1 DEF read_lock, Step, PidsApart, Live, TypeOK
  <2>3. ASSUME NEW p \in Procs, truncate(p) PROVE PidsApart'
    BY <2>3 DEF truncate, Step, PidsApart, Live, TypeOK
  <2>4. ASSUME NEW p \in Procs, write_lock(p) PROVE PidsApart'
    BY <2>4 DEF write_lock, Step, PidsApart, Live, TypeOK
  <2>5. ASSUME NEW p \in Procs, main_returns(p) PROVE PidsApart'
    BY <2>5 DEF main_returns, Step, PidsApart, Live, TypeOK
  <2>6. ASSUME NEW p \in Procs, Kill(p) PROVE PidsApart'
    BY <2>6 DEF Kill, PidsApart, Live, TypeOK
  <2>7. CASE OtherStarts
    BY <2>7 DEF OtherStarts, PidsApart, Live, Taken
  <2>8. CASE OtherEnds
    BY <2>8 DEF OtherEnds, PidsApart, Live
  <2>9. CASE UNCHANGED vars
    BY <2>9 DEF vars, PidsApart, Live
  <2> QED
    BY <2>1, <2>2, <2>3, <2>4, <2>5, <2>6, <2>7, <2>8, <2>9 DEF Next
<1>3. Exclusive'
  <2>1. ASSUME NEW p \in Procs, Start(p) PROVE Exclusive'
    BY <2>1 DEF Start, Step, Exclusive, Booting, Owners, TypeOK
  <2>2. ASSUME NEW p \in Procs, read_lock(p) PROVE Exclusive'
    \* With an owner the file names a live server that is not the reader.
    <3>1. \A q \in Owners : ~raced => Held(p)
      BY <2>2 DEF read_lock, Step, Exclusive, PidsApart, Owners, Live, Held,
                  pid_is_alive, Taken
    <3> QED
      BY <2>2, <3>1 DEF read_lock, Step, Exclusive, Booting, Owners, TypeOK
  <2>3. ASSUME NEW p \in Procs, truncate(p) PROVE Exclusive'
    <3>1. ~raced => Owners = {}
      BY <2>3 DEF truncate, Step, Exclusive, Booting, Owners
    <3> QED
      BY <2>3, <3>1 DEF truncate, Step, Exclusive, Booting, Owners, TypeOK
  <2>4. ASSUME NEW p \in Procs, write_lock(p) PROVE Exclusive'
    <3>1. ~raced => Owners = {} /\ Booting = {p}
      BY <2>4 DEF write_lock, Step, Exclusive, Booting, Owners
    <3>2. ~raced => Owners' = {p} /\ Booting' = {}
      BY <2>4, <3>1 DEF write_lock, Step, Booting, Owners, TypeOK
    <3> QED
      BY <2>4, <3>2 DEF write_lock, Exclusive
  <2>5. ASSUME NEW p \in Procs, main_returns(p) PROVE Exclusive'
    <3>1. CASE pc[p] = "refused"
      BY <2>5, <3>1 DEF main_returns, Step, Exclusive, Booting, Owners, TypeOK
    <3>2. CASE pc[p] = "owner"
      <4>1. ~raced => Owners' = {}
        BY <2>5, <3>2 DEF main_returns, Step, Exclusive, Owners, TypeOK
      <4>2. Booting' = Booting /\ raced' = raced
        BY <2>5, <3>2 DEF main_returns, Step, Booting, TypeOK
      <4> QED
        BY <4>1, <4>2 DEF Exclusive
    <3> QED
      BY <2>5, <3>1, <3>2 DEF main_returns, Step
  <2>6. ASSUME NEW p \in Procs, Kill(p) PROVE Exclusive'
    BY <2>6 DEF Kill, Exclusive, Booting, Owners, TypeOK
  <2>7. CASE OtherStarts
    BY <2>7 DEF OtherStarts, Exclusive, Booting, Owners
  <2>8. CASE OtherEnds
    BY <2>8 DEF OtherEnds, Exclusive, Booting, Owners
  <2>9. CASE UNCHANGED vars
    BY <2>9 DEF vars, Exclusive, Booting, Owners
  <2> QED
    BY <2>1, <2>2, <2>3, <2>4, <2>5, <2>6, <2>7, <2>8, <2>9 DEF Next
<1> QED
  BY <1>1, <1>2, <1>3

\* A boot is refused for a pid in the file that is alive: another server's, which
\* then is not booting and was not refused, or a foreign program's.
LEMMA Refusal ==
    ASSUME LockInv, Next, ~raced,
           NEW p \in Procs, pc[p] = "read", pc'[p] = "refused"
    PROVE  Owners \ {p} # {} \/ file \cap others # {}
<1>1. read_lock(p)
  <2>1. pc' # pc
    OBVIOUS
  <2>2. PICK q \in Procs : \/ Start(q) \/ read_lock(q) \/ truncate(q) \/ write_lock(q)
                           \/ main_returns(q) \/ Kill(q)
    BY <2>1 DEF Next, OtherStarts, OtherEnds
  <2> QED
    BY <2>2 DEF Start, read_lock, truncate, write_lock, main_returns, Kill, Step,
                LockInv, TypeOK
<1>2. PICK n \in file \ {pid[p]} : n \in Taken
  BY <1>1 DEF read_lock, Step, Held, pid_is_alive, LockInv, TypeOK
<1>3. CASE n \in others
  BY <1>2, <1>3
<1>4. CASE n \notin others
  <2>1. PICK q \in Procs : Live(q) /\ pid[q] = n
    BY <1>2, <1>4 DEF Taken
  <2>2. q # p /\ pc[q] # "refused"
    BY <1>2, <2>1 DEF LockInv, PidsApart
  <2>3. q \notin Booting
    BY <2>2 DEF LockInv, Exclusive, Booting
  <2>4. q \in Owners
    BY <2>1, <2>2, <2>3 DEF Live, Booting, Owners, LockInv, TypeOK
  <2> QED
    BY <2>2, <2>4
<1> QED
  BY <1>3, <1>4

\* preflight.rs: one server owns a storage directory, the lock file names it, and
\* no dead server keeps another one out, unless two servers booted at once.
THEOREM LockIsHeld == PartsSpec => LockHolds
<1>1. LockInv => TypeOK /\ OneOwner /\ OwnerIsNamed
  BY DEF LockInv, Exclusive, OneOwner, OwnerIsNamed
<1>2. ASSUME LockInv, [Next]_vars
      PROVE  [\A p \in Procs : pc'[p] = "refused" /\ pc[p] = "read" /\ ~raced
                => Owners \ {p} # {} \/ file \cap others # {}]_vars
  <2>1. CASE Next
    BY <1>2, <2>1, Refusal
  <2>2. CASE UNCHANGED vars
    BY <2>2
  <2> QED
    BY <1>2, <2>1, <2>2
<1> QED
  BY <1>1, <1>2, OneAtATime, LockInit, LockNext, PTL DEF PartsSpec, PartsInit, LockHolds, RefusedForCause

-----------------------------------------------------------------------------
(* Tags and their file *)

At(r, S) == step[r] \in S
Working(r) == ~At(r, {"new", "done"})

\* A request that has begun names a session and tags; only a removal drops a key,
\* and only a deletion or a purge removes a session.
Requested ==
  /\ DOMAIN req = Requests
  /\ \A r \in Requests :
        /\ At(r, {"new"}) => req[r] = Tagging!NoRequest
        /\ ~At(r, {"new"}) =>
             /\ req[r].kind \in {"set", "add", "remove", "delete", "purge"}
             /\ req[r].s \in Sessions /\ req[r].t \subseteq Tags
        /\ At(r, {"drop_key"}) => req[r].kind = "remove"
        /\ At(r, {"remove"}) => req[r].kind \in {"delete", "purge"}

\* Without an overlap one request works at a time, and none while nothing runs.
Alone ==
    /\ \A r, q \in Requests : Working(r) /\ Working(q) => r = q
    /\ up \/ \A r \in Requests : ~Working(r)

\* What a restart would load is what memory held before the request until the
\* file is opened, and what memory holds from the moment it is written.
InStep ==
    /\ \A r \in Requests :
         /\ At(r, {"start"}) => Tagging!Loaded = tags /\ kept = tags
         /\ At(r, {"drop_key", "persist", "open"}) => Tagging!Loaded = kept
         /\ At(r, {"open", "write"}) => snap[r] = tags
         /\ At(r, {"write"}) => tagfile = "empty"
         /\ At(r, {"remove", "end"}) => Tagging!Loaded = tags
    /\ up /\ (\A r \in Requests : ~Working(r)) => Tagging!Loaded = tags /\ kept = tags
    /\ ~up /\ tagfile = "whole" => disk \in {kept, tags}

Purged(s) == \E r \in Requests : req[r].kind = "purge" /\ req[r].s = s
Clean(m)  == \A s \in Sessions \ sessions : m[s] = {} \/ Purged(s)

\* A request works on a session that exists, until it has removed it, and a
\* deletion has emptied its entry by then.
Tidy ==
    /\ Clean(tags) /\ Clean(Tagging!Loaded)
    /\ \A r \in Requests :
         /\ Working(r) /\ ~At(r, {"end"}) => req[r].s \in sessions
         /\ At(r, {"drop_key"}) => tags[req[r].s] = {}
         /\ req[r].kind = "delete" /\ At(r, {"persist", "open", "write", "remove"}) =>
              tags[req[r].s] = {}

TagInv == /\ Tagging!TypeOK /\ Requested
          /\ ~overlapped => Alone /\ InStep /\ Tidy

\* Nothing has begun and nothing is written.
LEMMA TagInit == ASSUME TagConstants, Tagging!Init PROVE TagInv
<1> USE DEF Tagging!Init
<1>1. Tagging!TypeOK
  <2>1. Tagging!Nothing \in Tagging!Maps
    BY DEF Tagging!Maps, Tagging!Nothing
  <2>2. /\ tags = Tagging!Nothing /\ kept = Tagging!Nothing /\ disk = Tagging!Nothing
        /\ snap = [r \in Requests |-> Tagging!Nothing] /\ crashes \in 0..MaxCrashes
    BY DEF TagConstants
  <2> QED
    BY ONLY Tagging!Init, <2>1, <2>2 DEF Tagging!TypeOK, Tagging!Init
<1>2. Requested /\ Alone
  BY DEF Requested, Alone, At, Working
<1>3. Tagging!Loaded = tags /\ \A r \in Requests : At(r, {"new"})
  BY DEF Tagging!Loaded, At
<1>4. InStep
  BY <1>3 DEF InStep, At
<1>5. Tidy
  BY <1>3 DEF Tagging!Nothing, Tidy, Clean, At, Working
<1> QED
  BY <1>1, <1>2, <1>4, <1>5 DEF TagInv

\* Memory, the file and the requests keep their shape.
LEMMA TagTypes == ASSUME TagConstants, TagInv, Tagging!Next PROVE Tagging!TypeOK' /\ Requested'
<1> USE DEF TagInv, Tagging!TypeOK, Tagging!Maps, Requested, At, Tagging!Goto
<1>1. ASSUME NEW r \in Requests, Tagging!Request(r) PROVE Tagging!TypeOK' /\ Requested'
  <2>1. PICK c \in Tagging!Calls : req' = [req EXCEPT ![r] = c]
    BY <1>1 DEF Tagging!Request
  <2>2. /\ c.kind \in {"set", "add", "remove", "delete", "purge"}
        /\ c.s \in Sessions /\ c.t \subseteq Tags
    BY <2>1 DEF Tagging!Calls
  <2>3. step' = [step EXCEPT ![r] = "start"]
    BY <1>1 DEF Tagging!Request
  <2>4. overlapped' \in BOOLEAN
    BY <1>1 DEF Tagging!Request, Tagging!Quiet
  <2> QED
    BY <1>1, <2>1, <2>2, <2>3, <2>4 DEF Tagging!Request
<1>2. ASSUME NEW r \in Requests, Tagging!set_tags(r) \/ Tagging!add_tag(r) \/ Tagging!drop_tags_for(r)
                                 \/ Tagging!remove_tag(r) \/ Tagging!drop_key(r)
      PROVE  Tagging!TypeOK' /\ Requested'
  <2>1. PICK T \in SUBSET Tags : tags' = [tags EXCEPT ![req[r].s] = T]
    <3>1. Tagging!set_tags(r) => req[r].t \in SUBSET Tags
      BY DEF Tagging!set_tags, Tagging!Mutates
    <3>2. Tagging!add_tag(r) => tags[req[r].s] \cup req[r].t \in SUBSET Tags
      BY DEF Tagging!add_tag, Tagging!Mutates
    <3>3. Tagging!remove_tag(r) => tags[req[r].s] \ req[r].t \in SUBSET Tags
      BY DEF Tagging!remove_tag, Tagging!Mutates
    <3> QED
      BY <1>2, <3>1, <3>2, <3>3 DEF Tagging!set_tags, Tagging!add_tag, Tagging!drop_tags_for,
         Tagging!remove_tag, Tagging!drop_key, Tagging!Becomes
  <2>2. PICK to \in {"persist", "end", "drop_key", "remove"} :
           /\ step' = [step EXCEPT ![r] = to] /\ ~At(r, {"new"})
           /\ to = "drop_key" => req[r].kind = "remove"
           /\ to = "remove" => req[r].kind = "delete"
    BY <1>2 DEF Tagging!set_tags, Tagging!add_tag, Tagging!drop_tags_for,
         Tagging!remove_tag, Tagging!drop_key, Tagging!Mutates
  <2>3. UNCHANGED <<tagfile, disk, sessions, req, snap, up, crashes, kept, overlapped>>
    BY <1>2 DEF Tagging!set_tags, Tagging!add_tag, Tagging!drop_tags_for,
         Tagging!remove_tag, Tagging!drop_key, Tagging!Becomes
  <2> QED
    BY <2>1, <2>2, <2>3
<1>3. ASSUME NEW r \in Requests, Tagging!purge_sessions(r) \/ Tagging!remove_session(r)
      PROVE  Tagging!TypeOK' /\ Requested'
  <2>1. PICK to \in {"remove", "end"} :
           /\ step' = [step EXCEPT ![r] = to] /\ ~At(r, {"new"})
           /\ to = "remove" => req[r].kind = "purge"
    BY <1>3 DEF Tagging!purge_sessions, Tagging!Mutates, Tagging!remove_session
  <2>2. /\ sessions' \subseteq sessions
        /\ UNCHANGED <<tags, tagfile, disk, req, snap, up, crashes, kept, overlapped>>
    BY <1>3 DEF Tagging!purge_sessions, Tagging!Mutates, Tagging!Unchanged, Tagging!remove_session
  <2> QED
    BY <2>1, <2>2
<1>4. ASSUME NEW r \in Requests, Tagging!snapshot(r) \/ Tagging!open_file(r)
      PROVE  Tagging!TypeOK' /\ Requested'
  <2>1. PICK to \in {"open", "write"} : step' = [step EXCEPT ![r] = to] /\ ~At(r, {"new"})
    BY <1>4 DEF Tagging!snapshot, Tagging!open_file
  <2>2. snap' \in [Requests -> [Sessions -> SUBSET Tags]] /\ tagfile' \in {"whole", "empty", "torn"}
    BY <1>4 DEF Tagging!snapshot, Tagging!open_file
  <2>3. UNCHANGED <<tags, disk, sessions, req, up, crashes, kept, overlapped>>
    BY <1>4 DEF Tagging!snapshot, Tagging!open_file
  <2> QED
    BY <2>1, <2>2, <2>3
<1>5. ASSUME NEW r \in Requests, Tagging!write_file(r) PROVE Tagging!TypeOK' /\ Requested'
  <2>1. PICK to \in {"remove", "end"} :
           /\ step' = [step EXCEPT ![r] = to] /\ ~At(r, {"new"})
           /\ to = "remove" => req[r].kind = "delete"
    BY <1>5 DEF Tagging!write_file
  <2>2. tagfile' \in {"whole", "torn"} /\ disk' \in [Sessions -> SUBSET Tags]
    BY <1>5 DEF Tagging!write_file
  <2>3. UNCHANGED <<tags, sessions, req, snap, up, crashes, kept, overlapped>>
    BY <1>5 DEF Tagging!write_file
  <2> QED
    BY <2>1, <2>2, <2>3
<1>6. ASSUME NEW r \in Requests, Tagging!end(r) PROVE Tagging!TypeOK' /\ Requested'
  BY <1>6 DEF Tagging!end, Tagging!End
<1>7. CASE Tagging!Crash
  <2>1. crashes' \in 0..MaxCrashes
    BY <1>7 DEF Tagging!Crash, TagConstants
  <2>2. /\ \A r \in Requests : step'[r] = IF step[r] = "new" THEN "new" ELSE "done"
        /\ step' \in [Requests -> {"new", "done"}]
    BY <1>7 DEF Tagging!Crash
  <2>3. up' = FALSE /\ UNCHANGED <<tags, tagfile, disk, sessions, req, snap, kept, overlapped>>
    BY <1>7 DEF Tagging!Crash
  <2> QED
    BY <2>1, <2>2, <2>3
<1>8. CASE Tagging!Restart
  BY <1>8 DEF Tagging!Restart, Tagging!Loaded, Tagging!Nothing
<1> QED
  BY <1>1, <1>2, <1>3, <1>4, <1>5, <1>6, <1>7, <1>8 DEF Tagging!Next

InOrder == Alone /\ InStep /\ Tidy

\* The one request at work moves on, and the others stay out of it.
LEMMA OnlyMover ==
    ASSUME TagInv, ~overlapped, NEW r \in Requests, Working(r), NEW to,
           step' = [step EXCEPT ![r] = to], UNCHANGED up
    PROVE  /\ \A q \in Requests \ {r} : ~Working(q) /\ step'[q] = step[q]
           /\ step'[r] = to /\ up /\ Alone'
BY DEF TagInv, Alone, Working, At, Tagging!TypeOK

\* A request begins where none is at work.
LEMMA RequestInOrder ==
    ASSUME TagInv, ~overlapped', NEW r \in Requests, Tagging!Request(r) PROVE InOrder'
<1> USE DEF TagInv, Tagging!TypeOK, Working, At, Tagging!Goto
<1>1. /\ ~overlapped /\ up /\ up' /\ \A q \in Requests : ~Working(q)
      /\ UNCHANGED <<tags, tagfile, disk, sessions, snap, kept>>
  BY DEF Tagging!Request, Tagging!Quiet
<1>2. /\ step' = [step EXCEPT ![r] = "start"] /\ step[r] = "new"
      /\ req' = [req EXCEPT ![r] = req'[r]] /\ req'[r].s \in sessions
  BY DEF Tagging!Request, Tagging!Calls, Requested
<1>3. Tagging!Loaded' = Tagging!Loaded
  BY <1>1 DEF Tagging!Loaded, Tagging!Nothing
<1>4. Alone'
  BY <1>1, <1>2 DEF Alone
<1>5. InStep'
  BY <1>1, <1>2, <1>3 DEF InStep
<1>6. Tidy'
  <2>1. \A s \in Sessions : Purged(s) => Purged(s)'
    BY <1>2 DEF Purged, Requested, Tagging!NoRequest
  <2>2. Clean(tags)' /\ Clean(Tagging!Loaded)'
    BY <1>1, <1>3, <2>1 DEF Clean, Tidy
  <2> QED
    BY <1>1, <1>2, <2>2 DEF Tidy
<1> QED
  BY <1>4, <1>5, <1>6 DEF InOrder

\* Before the snapshot memory changes and the file does not.
LEMMA ChangeInOrder ==
    ASSUME TagInv, ~overlapped', NEW r \in Requests,
           \/ Tagging!set_tags(r) \/ Tagging!add_tag(r) \/ Tagging!drop_tags_for(r)
           \/ Tagging!remove_tag(r) \/ Tagging!drop_key(r) \/ Tagging!purge_sessions(r)
    PROVE  InOrder'
<1> USE DEF TagInv, Tagging!TypeOK, Tagging!Maps
<1>1. UNCHANGED <<tagfile, disk, sessions, req, snap, up, kept, overlapped>>
  BY DEF Tagging!set_tags, Tagging!add_tag, Tagging!drop_tags_for, Tagging!remove_tag,
         Tagging!drop_key, Tagging!Becomes, Tagging!purge_sessions, Tagging!Unchanged
<1>2. PICK to \in {"persist", "end", "drop_key", "remove"} : step' = [step EXCEPT ![r] = to]
  BY DEF Tagging!set_tags, Tagging!add_tag, Tagging!drop_tags_for, Tagging!remove_tag,
         Tagging!drop_key, Tagging!purge_sessions, Tagging!Mutates, Tagging!Goto
<1>3. At(r, {"start", "drop_key"}) /\ Working(r)
  BY DEF Tagging!set_tags, Tagging!add_tag, Tagging!drop_tags_for, Tagging!remove_tag,
         Tagging!drop_key, Tagging!purge_sessions, Tagging!Mutates, At, Working
<1>4. /\ \A q \in Requests \ {r} : ~Working(q) /\ step'[q] = step[q]
      /\ step'[r] = to /\ up /\ Alone'
  BY <1>1, <1>2, <1>3, OnlyMover
<1>5. /\ \A s \in Sessions \ {req[r].s} : tags'[s] = tags[s]
      /\ to \in {"end", "remove"} => At(r, {"start"}) /\ tags' = tags
      /\ to = "remove" => req[r].kind \in {"delete", "purge"}
      /\ At(r, {"drop_key"}) => tags' = tags
      /\ to = "drop_key" \/ req[r].kind = "delete" => tags'[req[r].s] = {}
  <2> USE DEF Tagging!Mutates, Tagging!Becomes, Tagging!Goto, At, Requested
  <2>0. req[r].s \in Sessions /\ tags \in [Sessions -> SUBSET Tags]
    BY <1>3 DEF Working
  <2>1. CASE Tagging!set_tags(r)
    <3>1. to = "persist" /\ tags' = [tags EXCEPT ![req[r].s] = req[r].t]
      BY <1>2, <2>1 DEF Tagging!set_tags
    <3> QED
      BY <1>3, <2>0, <2>1, <3>1 DEF Tagging!set_tags
  <2>2. CASE Tagging!add_tag(r)
    <3>1. /\ to = IF req[r].t \subseteq tags[req[r].s] THEN "end" ELSE "persist"
          /\ tags' = [tags EXCEPT ![req[r].s] = tags[req[r].s] \cup req[r].t]
      BY <1>2, <2>2 DEF Tagging!add_tag
    <3>2. to = "end" => tags' = tags
      <4>1. to = "end" => tags[req[r].s] \cup req[r].t = tags[req[r].s]
        BY <3>1
      <4> QED
        BY <3>1, <4>1
    <3> QED
      BY <1>3, <2>0, <2>2, <3>1, <3>2 DEF Tagging!add_tag
  <2>3. CASE Tagging!drop_tags_for(r)
    <3>1. /\ to = IF tags[req[r].s] = {} THEN "remove" ELSE "persist"
          /\ tags' = [tags EXCEPT ![req[r].s] = {}] /\ req[r].kind = "delete"
      BY <1>2, <2>3 DEF Tagging!drop_tags_for
    <3> QED
      BY <1>3, <2>0, <2>3, <3>1 DEF Tagging!drop_tags_for
  <2>4. CASE Tagging!remove_tag(r)
    <3> DEFINE left == tags[req[r].s] \ req[r].t
    <3>1. /\ to = IF left = {} /\ tags[req[r].s] # {} THEN "drop_key"
                  ELSE IF left = tags[req[r].s] THEN "end" ELSE "persist"
          /\ tags' = [tags EXCEPT ![req[r].s] = left] /\ req[r].kind = "remove"
          /\ At(r, {"start"}) /\ left \in SUBSET Tags
      BY <1>2, <2>4 DEF Tagging!remove_tag
    <3> HIDE DEF left
    <3> QED
      BY <2>0, <3>1
  <2>5. CASE Tagging!drop_key(r)
    <3>1. /\ to = "persist" /\ tags' = [tags EXCEPT ![req[r].s] = {}]
          /\ At(r, {"drop_key"})
      BY <1>2, <2>5 DEF Tagging!drop_key
    <3>2. tags[req[r].s] = {} /\ req[r].kind # "delete"
      BY <1>1, <3>1 DEF Tidy
    <3> QED
      BY <3>1, <3>2
  <2>6. CASE Tagging!purge_sessions(r)
    <3>1. to = "remove" /\ tags' = tags /\ At(r, {"start"}) /\ req[r].kind = "purge"
      BY <1>2, <2>6 DEF Tagging!purge_sessions, Tagging!Unchanged
    <3> QED
      BY <3>1
  <2> QED
    BY <2>1, <2>2, <2>3, <2>4, <2>5, <2>6
<1>6. Tagging!Loaded' = Tagging!Loaded
  BY <1>1 DEF Tagging!Loaded, Tagging!Nothing
<1>7. req[r].s \in sessions
  BY <1>1, <1>3 DEF Tidy, At
<1>8. InStep'
  <2>1. /\ At(r, {"start"}) => Tagging!Loaded = tags /\ kept = tags
        /\ At(r, {"drop_key"}) => Tagging!Loaded = kept
    BY <1>1 DEF InStep, At
  <2>2. \A q \in Requests \ {r} : step'[q] \in {"new", "done"}
    BY <1>4 DEF Working, At
  <2> QED
    BY ONLY <1>1, <1>2, <1>3, <1>4, <1>5, <1>6, <2>1, <2>2 DEF InStep, At, Working
<1>9. Tidy'
  <2>1. /\ Clean(tags) /\ Clean(Tagging!Loaded) /\ sessions \subseteq Sessions
        /\ At(r, {"drop_key"}) => tags[req[r].s] = {}
    BY <1>1 DEF Tidy
  <2>2. \A q \in Requests \ {r} : step'[q] \in {"new", "done"}
    BY <1>4 DEF Working, At
  <2>4. \A s \in Sessions : Purged(s)' = Purged(s)
    BY <1>1 DEF Purged
  <2>5. sessions' = sessions
    BY <1>1
  <2>6. \A s \in Sessions \ sessions : tags'[s] = tags[s]
    BY <1>5, <1>7
  <2>3. Clean(tags)' /\ Clean(Tagging!Loaded)'
    <3>1. Clean(tags)'
      BY ONLY <2>1, <2>4, <2>5, <2>6 DEF Clean
    <3>2. Clean(Tagging!Loaded)'
      BY ONLY <1>6, <2>1, <2>4, <2>5 DEF Clean
    <3> QED
      BY <3>1, <3>2
  <2> QED
    BY ONLY <1>1, <1>4, <1>5, <1>7, <2>2, <2>3 DEF Tidy, At, Working
<1> QED
  BY <1>4, <1>8, <1>9 DEF InOrder

\* The session goes after its entry went, or with its tags in a purge.
LEMMA RemoveInOrder ==
    ASSUME TagInv, ~overlapped', NEW r \in Requests, Tagging!remove_session(r) PROVE InOrder'
<1> USE DEF TagInv, Tagging!TypeOK, Tagging!Maps, Tagging!remove_session
<1>1. UNCHANGED <<tagfile, disk, tags, req, snap, up, kept, overlapped>>
  OBVIOUS
<1>2. Working(r) /\ At(r, {"remove"}) /\ step' = [step EXCEPT ![r] = "end"]
  BY DEF Working, At, Tagging!Goto
<1>3. /\ \A q \in Requests \ {r} : ~Working(q) /\ step'[q] = step[q]
      /\ step'[r] = "end" /\ up /\ Alone'
  <2>1. ~overlapped
    BY <1>1
  <2> HIDE DEF TagInv
  <2> QED
    BY <1>1, <1>2, <2>1, OnlyMover
<1>4. Tagging!Loaded' = Tagging!Loaded /\ Tagging!Loaded = tags
  BY <1>1, <1>2 DEF At, Tagging!Loaded, Tagging!Nothing, InStep
<1>5. InStep'
  BY <1>1, <1>2, <1>3, <1>4 DEF InStep, At, Working
<1>6. tags[req[r].s] = {} \/ Purged(req[r].s)
  BY <1>1, <1>2 DEF Requested, At, Tidy, Purged
<1>7. Tidy'
  BY <1>1, <1>2, <1>3, <1>4, <1>6 DEF Tidy, Clean, Purged, At, Working
<1> QED
  BY <1>3, <1>5, <1>7 DEF InOrder

\* Snapshot, file and end: what is written is what memory holds.
LEMMA FileInOrder ==
    ASSUME TagInv, ~overlapped', NEW r \in Requests,
           \/ Tagging!snapshot(r) \/ Tagging!open_file(r) \/ Tagging!write_file(r) \/ Tagging!end(r)
    PROVE  InOrder'
<1> USE DEF TagInv, Tagging!TypeOK, Tagging!Maps
<1>1. UNCHANGED <<tags, sessions, req, up, overlapped>>
  BY DEF Tagging!snapshot, Tagging!open_file, Tagging!write_file, Tagging!end
<1>2. PICK to \in {"open", "write", "remove", "end", "done"} : step' = [step EXCEPT ![r] = to]
  BY DEF Tagging!snapshot, Tagging!open_file, Tagging!write_file, Tagging!end, Tagging!End,
         Tagging!Goto
<1>3. Working(r)
  BY DEF Tagging!snapshot, Tagging!open_file, Tagging!write_file, Tagging!end, At, Working
<1>4. /\ \A q \in Requests \ {r} : ~Working(q) /\ step'[q] = step[q]
      /\ step'[r] = to /\ up /\ Alone'
  BY <1>1, <1>2, <1>3, OnlyMover
<1>5. CASE Tagging!snapshot(r)
  <2>1. /\ to = "open" /\ At(r, {"persist"}) /\ snap'[r] = tags
        /\ UNCHANGED <<tagfile, disk, kept>>
    BY <1>4, <1>5 DEF Tagging!snapshot, Tagging!Goto, At
  <2>2. Tagging!Loaded' = Tagging!Loaded
    BY <2>1 DEF Tagging!Loaded, Tagging!Nothing
  <2>3. InStep'
    BY <1>1, <1>4, <2>1, <2>2 DEF InStep, At, Working
  <2>4. Tidy'
    BY <1>1, <1>4, <2>1, <2>2 DEF Tidy, Clean, Purged, At, Working
  <2> QED
    BY <1>4, <2>3, <2>4 DEF InOrder
<1>6. CASE Tagging!open_file(r)
  <2>1. /\ to = "write" /\ At(r, {"open"}) /\ tagfile' = "empty"
        /\ UNCHANGED <<snap, disk, kept>>
    BY <1>4, <1>6 DEF Tagging!open_file, Tagging!Goto, At
  <2>2. Tagging!Loaded' = Tagging!Nothing
    BY <2>1 DEF Tagging!Loaded, Tagging!Nothing
  <2>3. InStep'
    BY <1>1, <1>4, <2>1 DEF InStep, At, Working
  <2>4. Tidy'
    <3>1. Clean(Tagging!Loaded)'
      BY <2>2 DEF Tagging!Nothing, Clean
    <3>2. Clean(tags)'
      BY <1>1 DEF Clean, Purged, Tidy
    <3> QED
      BY <1>1, <1>4, <2>1, <3>1, <3>2 DEF Tidy, At, Working
  <2> QED
    BY <1>4, <2>3, <2>4 DEF InOrder
<1>7. CASE Tagging!write_file(r)
  <2>1. /\ to = (IF req[r].kind = "delete" THEN "remove" ELSE "end") /\ At(r, {"write"})
        /\ disk' = snap[r] /\ UNCHANGED <<snap, kept>>
        /\ tagfile' = "whole"
    BY <1>1, <1>4, <1>7 DEF Tagging!write_file, Tagging!Goto, At, InStep
  <2>2. Tagging!Loaded' = tags
    BY <1>1, <2>1 DEF Tagging!Loaded, InStep, At
  <2>3. InStep'
    BY <1>1, <1>4, <2>1, <2>2 DEF InStep, At, Working
  <2>4. Tidy'
    BY <1>1, <1>4, <2>1, <2>2 DEF Tidy, Clean, Purged, At, Working
  <2> QED
    BY <1>4, <2>3, <2>4 DEF InOrder
<1>8. CASE Tagging!end(r)
  <2>1. /\ to = "done" /\ At(r, {"end"}) /\ UNCHANGED <<tagfile, disk, snap>>
        /\ kept' = tags
    BY <1>4, <1>8 DEF Tagging!end, Tagging!End, Tagging!Goto, At, Working
  <2>2. Tagging!Loaded' = Tagging!Loaded /\ Tagging!Loaded = tags
    BY <1>1, <2>1 DEF Tagging!Loaded, Tagging!Nothing, InStep, At
  <2>3. InStep'
    BY <1>1, <1>4, <2>1, <2>2 DEF InStep, At, Working
  <2>4. Tidy'
    BY <1>1, <1>4, <2>1, <2>2 DEF Tidy, Clean, Purged, At, Working
  <2> QED
    BY <1>4, <2>3, <2>4 DEF InOrder
<1> QED
  BY <1>5, <1>6, <1>7, <1>8

\* What a crash leaves is what memory held before or during the request, unless
\* the file was just being written, and a restart takes it up.
LEMMA CrashInOrder ==
    ASSUME TagInv, ~overlapped', Tagging!Crash \/ Tagging!Restart PROVE InOrder'
<1> USE DEF TagInv
<1>1. /\ ~overlapped /\ Alone /\ InStep /\ Tidy
      /\ UNCHANGED <<tagfile, disk, sessions, req, snap>>
  BY DEF Tagging!Crash, Tagging!Restart
<1>2. Tagging!Loaded' = Tagging!Loaded
  BY <1>1 DEF Tagging!Loaded, Tagging!Nothing
<1>3. \A s \in Sessions : Purged(s)' = Purged(s)
  BY <1>1 DEF Purged
<1>4. CASE Tagging!Crash
  <2>1. /\ up /\ ~up' /\ UNCHANGED <<tags, kept>>
        /\ \A r \in Requests : step'[r] \in {"new", "done"}
    BY <1>4 DEF Tagging!Crash
  <2>2. Alone'
    BY <2>1 DEF Alone, Working, At
  <2>3. tagfile = "whole" => disk \in {kept, tags}
    <3>1. tagfile = "whole" => Tagging!Loaded = disk
      BY DEF Tagging!Loaded
    <3>2. CASE \A r \in Requests : ~Working(r)
      BY <1>1, <2>1, <3>1, <3>2 DEF InStep
    <3>3. ASSUME NEW r \in Requests, Working(r) PROVE tagfile = "whole" => disk \in {kept, tags}
      <4>1. step[r] \in {"start", "drop_key", "persist", "open", "write", "remove", "end"}
        BY <3>3 DEF Working, At, Tagging!TypeOK
      <4> QED
        BY <1>1, <3>1, <4>1 DEF InStep, At
    <3> QED
      BY <3>2, <3>3
  <2>4. InStep'
    BY <1>1, <2>1, <2>3 DEF InStep, Working, At
  <2>5. Tidy'
    <3>1. Clean(tags)' /\ Clean(Tagging!Loaded)'
      BY <1>1, <1>2, <1>3, <2>1 DEF Clean, Tidy
    <3> QED
      BY <2>1, <3>1 DEF Tidy, Working, At
  <2> QED
    BY <2>2, <2>4, <2>5 DEF InOrder
<1>5. CASE Tagging!Restart
  <2>1. /\ ~up /\ up' /\ UNCHANGED step
        /\ tags' = Tagging!Loaded /\ kept' = Tagging!Loaded
    BY <1>5 DEF Tagging!Restart
  <2>2. \A r \in Requests : ~Working(r) /\ ~Working(r)'
    BY <1>1, <2>1 DEF Alone, Working, At
  <2>3. Alone'
    BY <2>2 DEF Alone
  <2>4. InStep'
    BY <1>2, <2>1, <2>2 DEF InStep, Working, At
  <2>5. Tidy'
    <3>1. Clean(tags)' /\ Clean(Tagging!Loaded)'
      BY <1>1, <1>2, <1>3, <2>1 DEF Clean, Tidy
    <3> QED
      BY <2>2, <3>1 DEF Tidy, Working, At
  <2> QED
    BY <2>3, <2>4, <2>5 DEF InOrder
<1> QED
  BY <1>4, <1>5

LEMMA TagNext ==
    ASSUME TagConstants PROVE TagInv /\ [Tagging!Next]_(Tagging!vars) => TagInv'
<1> SUFFICES ASSUME TagInv, [Tagging!Next]_(Tagging!vars) PROVE TagInv'
  OBVIOUS
<1>1. CASE Tagging!Next
  <2>1. Tagging!TypeOK' /\ Requested'
    BY <1>1, TagTypes
  <2>2. ~overlapped' => InOrder'
    BY <1>1, RequestInOrder, ChangeInOrder, RemoveInOrder, FileInOrder, CrashInOrder
    DEF Tagging!Next
  <2> QED
    BY <2>1, <2>2 DEF TagInv, InOrder
<1>2. CASE UNCHANGED Tagging!vars
  BY <1>2 DEF Tagging!vars, TagInv, Tagging!TypeOK, Requested, Alone, InStep, Tidy, Clean,
              Purged, Working, At, Tagging!Loaded, Tagging!Nothing
<1> QED
  BY <1>1, <1>2

\* Memory changes by a request that names what it takes away, by a removal that
\* drops a key which another request has filled, and by a restart.
LEMMA NamedRemoval ==
    ASSUME TagInv, Tagging!Next, up, up', NEW s \in Sessions, NEW t \in tags[s] \ tags'[s]
    PROVE  \E r \in Requests : /\ step'[r] # step[r]
                               /\ \/ Tagging!Names(req[r], s, t)
                                  \/ req[r].kind = "remove" /\ overlapped
<1> USE DEF TagInv, Tagging!Mutates, Tagging!Becomes, Tagging!Goto
<1>1. PICK r \in Requests :
        \/ Tagging!set_tags(r) \/ Tagging!add_tag(r) \/ Tagging!drop_tags_for(r)
        \/ Tagging!remove_tag(r) \/ Tagging!drop_key(r)
  <2>1. tags' # tags
    OBVIOUS
  <2> QED
    BY <2>1 DEF Tagging!Next, Tagging!Request, Tagging!purge_sessions, Tagging!Unchanged,
       Tagging!remove_session, Tagging!snapshot, Tagging!open_file, Tagging!write_file,
       Tagging!end, Tagging!Crash, Tagging!Restart
<1>2. req[r].s \in Sessions /\ step[r] \in {"start", "drop_key"}
  BY <1>1 DEF Tagging!set_tags, Tagging!add_tag, Tagging!drop_tags_for, Tagging!remove_tag,
              Tagging!drop_key, Requested, At
<1>3. step'[r] # step[r]
  BY <1>1 DEF Tagging!set_tags, Tagging!add_tag, Tagging!drop_tags_for, Tagging!remove_tag,
              Tagging!drop_key, Tagging!TypeOK
<1>4. tags' = [tags EXCEPT ![req[r].s] = tags'[req[r].s]] /\ req[r].s = s
  BY <1>1, <1>2 DEF Tagging!set_tags, Tagging!add_tag, Tagging!drop_tags_for,
     Tagging!remove_tag, Tagging!drop_key, Tagging!TypeOK, Tagging!Maps
<1>5. ~Tagging!add_tag(r)
  BY <1>2, <1>4 DEF Tagging!add_tag, Tagging!TypeOK, Tagging!Maps
<1>6. CASE Tagging!remove_tag(r)
  <2>1. tags'[s] = tags[s] \ req[r].t /\ req[r].kind = "remove"
    BY <1>2, <1>4, <1>6 DEF Tagging!remove_tag, Tagging!TypeOK, Tagging!Maps
  <2> QED
    BY <1>3, <1>4, <2>1 DEF Tagging!Names
<1>7. CASE Tagging!drop_key(r)
  <2>1. req[r].kind = "remove" /\ At(r, {"drop_key"})
    BY <1>7 DEF Tagging!drop_key, Requested, At
  <2>2. overlapped
    BY <1>4, <2>1 DEF Tidy
  <2> QED
    BY <1>3, <2>1, <2>2
<1>8. CASE Tagging!set_tags(r) \/ Tagging!drop_tags_for(r)
  BY <1>3, <1>4, <1>8 DEF Tagging!set_tags, Tagging!drop_tags_for, Tagging!Names
<1> QED
  BY <1>1, <1>5, <1>6, <1>7, <1>8

\* handlers/tags.rs, state.rs: a restart loads the tags memory holds, sessions that
\* are deleted leave none, and a tag goes by a request that names it or by a crash
\* while the file is written, but for requests that overlap.
THEOREM TagsAreKept == PartsSpec => TagsKept
<1>1. Tagging!Init => TagInv
  BY TagInit, DurableAssumption
<1>2. TagInv /\ [Tagging!Next]_(Tagging!vars) => TagInv'
  BY TagNext, DurableAssumption
<1>3. TagInv => Tagging!TypeOK /\ Tagging!PersistedWhenQuiet /\ Tagging!NoOrphans
  <2>1. TagInv => Tagging!PersistedWhenQuiet
    BY DEF TagInv, InStep, Working, At, Tagging!PersistedWhenQuiet, Tagging!Quiet
  <2>2. TagInv => Tagging!NoOrphans
    BY DEF TagInv, Tidy, Clean, Purged, Tagging!NoOrphans
  <2> QED
    BY <2>1, <2>2 DEF TagInv
<1>4. TagInv /\ [Tagging!Next]_(Tagging!vars) => [Tagging!NamedStep]_(Tagging!vars)
  BY NamedRemoval DEF Tagging!NamedStep
<1>5. TagInv /\ [Tagging!Next]_(Tagging!vars) =>
        [~up /\ up' => tags' \in {kept, tags} \/ tagfile # "whole" \/ overlapped]_(Tagging!vars)
  <2> SUFFICES ASSUME TagInv, Tagging!Next, ~up, up', tagfile = "whole", ~overlapped
               PROVE  tags' \in {kept, tags}
    OBVIOUS
  <2>1. Tagging!Restart
    BY DEF Tagging!Next, Tagging!Request, Tagging!set_tags, Tagging!add_tag, Tagging!remove_tag,
       Tagging!drop_key, Tagging!drop_tags_for, Tagging!purge_sessions, Tagging!remove_session,
       Tagging!Becomes, Tagging!Unchanged, Tagging!snapshot, Tagging!open_file,
       Tagging!write_file, Tagging!end, Tagging!Crash
  <2> QED
    BY <2>1 DEF Tagging!Restart, Tagging!Loaded, TagInv, InStep
<1> QED
  BY <1>1, <1>2, <1>3, <1>4, <1>5, OneAtATime, PTL
  DEF PartsSpec, PartsInit, TagsKept, Tagging!RemovedByName, Tagging!WipedOnlyIfTorn

-----------------------------------------------------------------------------
(* Tokens and their bindings *)

\* A request with a token is a lookup of it, and a token is minted for sessions.
Shapes ==
    /\ \A c \in Lookups : check[c] \in
         [pc : {"new", "row", "sessions", "admitted", "refused"}, t : Tokens \cup {"none"},
          s : Sessions \cup {"none"}, revoked : BOOLEAN, late : BOOLEAN]
    /\ \A c \in Lookups : check[c].pc # "new" => check[c].t \in Tokens /\ check[c].s \in Sessions
    /\ \A c \in Lookups : check[c].pc = "new" => ~check[c].late
    /\ DOMAIN check = Lookups /\ DOMAIN revoke = Revokes
    /\ \A u \in Revokes : revoke[u] = <<>> \/ revoke[u] \in {"revoked", "not_found"} \X Tokens

\* An id is alive as its latest creation or not at all, and a binding is one to a
\* session that is alive, made by a mint that was asked for it.
Bindings ==
    /\ \A s \in Sessions : life[s] \in {0, lives[s]}
    /\ \A b \in bound : /\ b[3] = life[b[2]] /\ b[2] \in mint[b[1]].want
                        /\ mint[b[1]].pc \notin {"new", "check", "row"}

\* A mint has bound all sessions it has passed, but for those gone since.
Progress ==
    \A t \in Tokens :
        /\ mint[t].left \subseteq mint[t].want
        /\ mint[t].pc \in {"bind", "minted"} =>
             \A s \in mint[t].want \ mint[t].left :
                 lives[s] = 1 /\ life[s] = 1 => <<t, s, 1>> \in bound
        /\ mint[t].pc = "row" => mint[t].left = mint[t].want
        /\ mint[t].pc = "minted" => mint[t].left = {}

\* A revoked token stays revoked: its row was written before.
Revocations ==
    /\ \A t \in Tokens : mint[t].pc \in {"new", "check", "row"} => row[t] = "none"
    /\ \A u \in Revokes, t \in Tokens : revoke[u] = <<"revoked", t>> => row[t] = "revoked"
    /\ \A c \in Lookups : check[c].late => row[check[c].t] = "revoked"
    /\ \A c \in Lookups : check[c].late /\ check[c].pc = "sessions" => check[c].revoked

Claims == Access!RevokedOnce /\ Access!RevocationIsImmediate

TokenInv == Access!TypeOK /\ Shapes /\ Bindings /\ Progress /\ Revocations /\ Claims

-----------------------------------------------------------------------------

\* At first no token exists and every session has been created once.
LEMMA TokenInit == ASSUME TokenConstants, Access!Init PROVE TokenInv
<1> USE DEF Access!Init, TokenConstants, Access!Idle
<1>1. Access!TypeOK
  BY DEF Access!TypeOK
<1>2. Shapes /\ Bindings /\ Progress
  BY DEF Shapes, Bindings, Progress
<1>3. Revocations /\ Claims
  BY DEF Revocations, Claims, Access!RevokedOnce, Access!RevocationIsImmediate
<1> QED
  BY <1>1, <1>2, <1>3 DEF TokenInv

MintPc == {"new", "check", "row", "bind", "minted", "failed"}

\* What one step of minting t does to its own record, and to nobody else's.
Minting(t, to, want, left) ==
    /\ mint' \in [Tokens -> [pc : MintPc, want : SUBSET Sessions, left : SUBSET Sessions]]
    /\ mint'[t].pc = to /\ mint'[t].want = want /\ mint'[t].left = left
    /\ \A x \in Tokens \ {t} : mint'[x] = mint[x]
    /\ UNCHANGED <<check, revoke, life, lives>>

LEMMA MintRecord ==
    ASSUME Access!TypeOK, NEW t \in Tokens, NEW from, NEW to \in MintPc, NEW left \in SUBSET Sessions,
           Access!MintStep(t, from, to, left), UNCHANGED <<check, revoke, life, lives>>
    PROVE  Minting(t, to, mint[t].want, left)
BY DEF Access!MintStep, Access!TypeOK, MintPc, Minting

MintBegins(t) == /\ mint[t].pc = "new"
                 /\ \E S \in SUBSET Sessions : Minting(t, "check", S, S)
                 /\ UNCHANGED <<row, bound>>
MintChecks(t) == /\ mint[t].pc = "check"
                 /\ \E left \in SUBSET mint[t].want : Minting(t, "check", mint[t].want, left)
                 /\ UNCHANGED <<row, bound>>
MintPasses(t) == /\ mint[t].pc = "check"
                 /\ Minting(t, "row", mint[t].want, mint[t].want)
                 /\ UNCHANGED <<row, bound>>
MintWrites(t) == /\ mint[t].pc = "row"
                 /\ Minting(t, "bind", mint[t].want, mint[t].left)
                 /\ row' = [row EXCEPT ![t] = "live"] /\ UNCHANGED bound
MintBinds(t, s) == /\ mint[t].pc = "bind" /\ s \in mint[t].left
                   /\ life[s] > 0 /\ bound' = bound \cup {<<t, s, life[s]>>}
                   /\ Minting(t, IF mint[t].left = {s} THEN "minted" ELSE "bind",
                              mint[t].want, mint[t].left \ {s})
                   /\ UNCHANGED row
MintFails(t) == /\ mint[t].pc \in {"check", "row", "bind"}
                /\ Minting(t, "failed", mint[t].want, {})
                /\ UNCHANGED <<row, bound>>

\* These are all the steps of minting.
LEMMA MintCases ==
    ASSUME Access!TypeOK, Progress, NEW t \in Tokens,
           \/ Access!mint_token(t) \/ Access!get_session(t) \/ Access!insert_token(t)
           \/ Access!insert_token_session(t) \/ Access!mint_fails(t)
    PROVE  \/ MintBegins(t) \/ MintChecks(t) \/ MintPasses(t) \/ MintWrites(t) \/ MintFails(t)
           \/ \E s \in Sessions : MintBinds(t, s)
<1> USE DEF MintPc
<1>0. mint[t].left \subseteq mint[t].want /\ mint[t].want \subseteq Sessions
  BY DEF Progress, Access!TypeOK
<1>1. CASE Access!mint_token(t)
  <2>1. PICK S \in (SUBSET Sessions) \ {{}} :
          mint' = [mint EXCEPT ![t] = [pc |-> "check", want |-> S, left |-> S]]
    BY <1>1 DEF Access!mint_token
  <2>2. Minting(t, "check", S, S)
    BY <1>1, <2>1 DEF Access!mint_token, Minting, Access!TypeOK
  <2> QED
    BY <1>1, <2>2 DEF Access!mint_token, MintBegins
<1>2. CASE Access!get_session(t)
  <2>1. PICK s \in mint[t].left :
          IF life[s] = 0 THEN Access!MintStep(t, "check", "failed", {})
          ELSE IF mint[t].left = {s} THEN Access!MintStep(t, "check", "row", mint[t].want)
          ELSE Access!MintStep(t, "check", "check", mint[t].left \ {s})
    BY <1>2 DEF Access!get_session
  <2>2. mint[t].pc = "check" /\ UNCHANGED <<row, bound, check, revoke, life, lives>>
    BY <1>2, <2>1 DEF Access!get_session, Access!MintStep
  <2>3. CASE life[s] = 0
    <3>1. Minting(t, "failed", mint[t].want, {})
      BY <2>1, <2>2, <2>3, MintRecord
    <3> QED
      BY <2>2, <3>1 DEF MintFails
  <2>4. CASE life[s] # 0 /\ mint[t].left = {s}
    <3>1. Minting(t, "row", mint[t].want, mint[t].want)
      BY <1>0, <2>1, <2>2, <2>4, MintRecord
    <3> QED
      BY <2>2, <3>1 DEF MintPasses
  <2>5. CASE life[s] # 0 /\ mint[t].left # {s}
    <3>1. Minting(t, "check", mint[t].want, mint[t].left \ {s})
      BY <1>0, <2>1, <2>2, <2>5, MintRecord
    <3> QED
      BY <1>0, <2>2, <3>1 DEF MintChecks
  <2> QED
    BY <2>3, <2>4, <2>5
<1>3. CASE Access!insert_token(t)
  <2>1. /\ Access!MintStep(t, "row", "bind", mint[t].left) /\ mint[t].pc = "row"
        /\ row' = [row EXCEPT ![t] = "live"] /\ UNCHANGED <<bound, check, revoke, life, lives>>
    BY <1>3 DEF Access!insert_token, Access!MintStep
  <2>2. Minting(t, "bind", mint[t].want, mint[t].left)
    BY <1>0, <2>1, MintRecord
  <2> QED
    BY <2>1, <2>2 DEF MintWrites
<1>4. CASE Access!insert_token_session(t)
  <2>1. PICK s \in mint[t].left :
         \/ life[s] = 0 /\ Access!MintStep(t, "bind", "failed", {}) /\ UNCHANGED bound
         \/ /\ life[s] > 0 /\ bound' = bound \cup {<<t, s, life[s]>>}
            /\ Access!MintStep(t, "bind", IF mint[t].left = {s} THEN "minted" ELSE "bind",
                        mint[t].left \ {s})
    BY <1>4 DEF Access!insert_token_session
  <2>2. mint[t].pc = "bind" /\ UNCHANGED <<row, check, revoke, life, lives>>
    BY <1>4, <2>1 DEF Access!insert_token_session, Access!MintStep
  <2>3. CASE life[s] = 0 /\ Access!MintStep(t, "bind", "failed", {}) /\ UNCHANGED bound
    <3>1. Minting(t, "failed", mint[t].want, {})
      BY <2>2, <2>3, MintRecord
    <3> QED
      BY <2>2, <2>3, <3>1 DEF MintFails
  <2>4. CASE /\ life[s] > 0 /\ bound' = bound \cup {<<t, s, life[s]>>}
             /\ Access!MintStep(t, "bind", IF mint[t].left = {s} THEN "minted" ELSE "bind",
                         mint[t].left \ {s})
    <3>1. Minting(t, IF mint[t].left = {s} THEN "minted" ELSE "bind",
                  mint[t].want, mint[t].left \ {s})
      BY <1>0, <2>2, <2>4, MintRecord
    <3> QED
      BY <1>0, <2>2, <2>4, <3>1 DEF MintBinds
  <2> QED
    BY <2>1, <2>3, <2>4
<1>5. CASE Access!mint_fails(t)
  <2>1. /\ mint[t].pc \in {"check", "row", "bind"} /\ Access!MintStep(t, mint[t].pc, "failed", {})
        /\ UNCHANGED <<row, bound, check, revoke, life, lives>>
    BY <1>5 DEF Access!mint_fails
  <2>2. Minting(t, "failed", mint[t].want, {})
    BY <2>1, MintRecord
  <2> QED
    BY <2>1, <2>2 DEF MintFails
<1> QED
  BY <1>1, <1>2, <1>3, <1>4, <1>5

\* Minting keeps everything in order.
LEMMA MintKeeps ==
    ASSUME TokenConstants, TokenInv, NEW t \in Tokens,
           \/ Access!mint_token(t) \/ Access!get_session(t) \/ Access!insert_token(t)
           \/ Access!insert_token_session(t) \/ Access!mint_fails(t)
    PROVE  TokenInv'
<1> USE DEF TokenInv, Minting
<1> DEFINE Kept == /\ Access!TypeOK' /\ Bindings' /\ Progress' /\ Revocations'
                   /\ UNCHANGED <<check, revoke>>
<1>1. ASSUME MintBegins(t) \/ MintChecks(t) \/ MintPasses(t) \/ MintFails(t) PROVE Kept
  <2>1. Access!TypeOK'
    BY <1>1 DEF MintBegins, MintChecks, MintPasses, MintFails, Access!TypeOK, MintPc
  <2>2. Bindings'
    BY <1>1 DEF MintBegins, MintChecks, MintPasses, MintFails, Access!TypeOK, Bindings
  <2>3. Progress'
    BY <1>1 DEF MintBegins, MintChecks, MintPasses, MintFails, Access!TypeOK, Progress
  <2>4. Revocations'
    BY <1>1 DEF MintBegins, MintChecks, MintPasses, MintFails, Access!TypeOK, Revocations
  <2> QED
    BY <1>1, <2>1, <2>2, <2>3, <2>4 DEF MintBegins, MintChecks, MintPasses, MintFails
<1>2. ASSUME MintWrites(t) PROVE Kept
  <2>1. Access!TypeOK'
    BY <1>2 DEF MintWrites, Access!TypeOK, MintPc
  <2>2. Bindings'
    BY <1>2 DEF MintWrites, Access!TypeOK, Bindings
  <2>3. Progress'
    <3>1. mint[t].left = mint[t].want
      BY <1>2 DEF MintWrites, Progress
    <3> QED
      BY <1>2, <3>1 DEF MintWrites, Access!TypeOK, Progress
  <2>4. Revocations'
    <3>1. row[t] = "none" /\ row'[t] = "live" /\ \A x \in Tokens \ {t} : row'[x] = row[x]
      BY <1>2 DEF MintWrites, Access!TypeOK, Revocations
    <3> QED
      BY <1>2, <3>1 DEF MintWrites, Access!TypeOK, Revocations, Shapes
  <2> QED
    BY <1>2, <2>1, <2>2, <2>3, <2>4 DEF MintWrites
<1>3. ASSUME NEW s \in Sessions, MintBinds(t, s) PROVE Kept
  <2>1. life[s] \in 1..MaxLives
    BY <1>3 DEF MintBinds, Access!TypeOK, TokenConstants
  <2>2. Access!TypeOK'
    BY <1>3, <2>1 DEF MintBinds, Access!TypeOK, MintPc
  <2>3. Bindings'
    BY <1>3 DEF MintBinds, Access!TypeOK, Bindings, Progress
  <2>4. Progress'
    <3>1. ASSUME NEW x \in Tokens, NEW y \in mint'[x].want \ mint'[x].left,
                 mint'[x].pc \in {"bind", "minted"}, lives[y] = 1, life[y] = 1
          PROVE  <<x, y, 1>> \in bound'
      BY <1>3, <3>1 DEF MintBinds, Access!TypeOK, Progress
    <3> QED
      BY <1>3, <3>1 DEF MintBinds, Access!TypeOK, Progress
  <2>5. Revocations'
    BY <1>3 DEF MintBinds, Access!TypeOK, Revocations
  <2> QED
    BY <1>3, <2>2, <2>3, <2>4, <2>5 DEF MintBinds
<1>4. Kept
  BY <1>1, <1>2, <1>3, MintCases
<1>5. Shapes' /\ Claims'
  BY <1>4 DEF Shapes, Claims, Access!RevokedOnce, Access!RevocationIsImmediate
<1> QED
  BY <1>4, <1>5

\* A lookup writes itself.
LEMMA LookupKeeps ==
    ASSUME TokenConstants, TokenInv, NEW c \in Lookups,
           \/ Access!jwt_auth_middleware(c) \/ Access!select_revoked(c)
           \/ Access!select_sessions(c) \/ Access!lookup_fails(c)
    PROVE  TokenInv'
<1> USE DEF TokenInv
<1>1. UNCHANGED <<row, bound, mint, revoke, life, lives>>
  BY DEF Access!jwt_auth_middleware, Access!select_revoked, Access!select_sessions, Access!lookup_fails
<1>2. Bindings' /\ Progress'
  BY <1>1 DEF Bindings, Progress
<1>3. CASE Access!jwt_auth_middleware(c)
  <2>1. PICK t \in Access!Minted, s \in Sessions :
          check' = [check EXCEPT ![c] =
                      [pc |-> "row", t |-> t, s |-> s, revoked |-> FALSE, late |-> Access!Answered(t)]]
    BY <1>3 DEF Access!jwt_auth_middleware
  <2>2. t \in Tokens /\ (Access!Answered(t) => row[t] = "revoked")
    BY DEF Access!Minted, Access!Answered, Revocations
  <2>3. Access!Answered(t) \in BOOLEAN
    BY DEF Access!Answered
  <2> QED
    BY <1>1, <1>2, <1>3, <2>1, <2>2, <2>3
    DEF Access!jwt_auth_middleware, Access!TypeOK, Shapes, Revocations, Claims, Access!RevokedOnce,
        Access!RevocationIsImmediate
<1>4. CASE Access!select_revoked(c)
  <2>1. /\ check' = [check EXCEPT ![c] = [check[c] EXCEPT !.pc = "sessions",
                                           !.revoked = row[check[c].t] = "revoked"]]
        /\ check[c].pc = "row"
    BY <1>4 DEF Access!select_revoked, Shapes
  <2> DEFINE found == [check[c] EXCEPT !.pc = "sessions",
                                      !.revoked = row[check[c].t] = "revoked"]
  <2>2. /\ found.pc = "sessions" /\ found.t = check[c].t /\ found.s = check[c].s
        /\ found.late = check[c].late /\ found.revoked = (row[check[c].t] = "revoked")
        /\ found \in [pc : {"new", "row", "sessions", "admitted", "refused"},
                       t : Tokens \cup {"none"}, s : Sessions \cup {"none"},
                       revoked : BOOLEAN, late : BOOLEAN]
    <3>1. check[c] \in [pc : {"new", "row", "sessions", "admitted", "refused"},
                        t : Tokens \cup {"none"}, s : Sessions \cup {"none"},
                        revoked : BOOLEAN, late : BOOLEAN]
      BY DEF Shapes
    <3> QED
      BY ONLY <3>1
  <2> HIDE DEF found
  <2>3. check' = [check EXCEPT ![c] = found]
    BY <2>1 DEF found
  <2> QED
    BY <1>1, <1>2, <2>1, <2>2, <2>3 DEF Access!TypeOK, Shapes, Revocations, Claims, Access!RevokedOnce,
       Access!RevocationIsImmediate
<1>5. CASE Access!select_sessions(c) \/ Access!lookup_fails(c)
  <2>1. PICK to \in {"admitted", "refused"} : check' = [check EXCEPT ![c].pc = to]
    BY <1>5 DEF Access!select_sessions, Access!lookup_fails, Access!Refuse
  <2>2. check[c].pc \in {"row", "sessions"} /\ (to = "admitted" =>
          check[c].pc = "sessions" /\ ~check[c].revoked)
    BY <1>5, <2>1 DEF Access!select_sessions, Access!lookup_fails, Access!Refuse, Shapes
  <2> DEFINE answer == [check[c] EXCEPT !.pc = to]
  <2>3. /\ answer.pc = to /\ answer.t = check[c].t /\ answer.s = check[c].s
        /\ answer.late = check[c].late
        /\ answer \in [pc : {"new", "row", "sessions", "admitted", "refused"},
                        t : Tokens \cup {"none"}, s : Sessions \cup {"none"},
                        revoked : BOOLEAN, late : BOOLEAN]
    BY <2>1 DEF Shapes
  <2>4. check' = [check EXCEPT ![c] = answer]
    BY <2>1
  <2> HIDE DEF answer
  <2> QED
    BY <1>1, <1>2, <2>2, <2>3, <2>4 DEF Access!TypeOK, Shapes, Revocations, Claims, Access!RevokedOnce,
       Access!RevocationIsImmediate
<1> QED
  BY <1>3, <1>4, <1>5

\* A revocation writes one row, for good.
LEMMA RevokeKeeps ==
    ASSUME TokenConstants, TokenInv, NEW u \in Revokes, Access!revoke_token(u) PROVE TokenInv'
<1> USE DEF TokenInv, Access!revoke_token
<1>1. Bindings' /\ Progress'
  BY DEF Bindings, Progress
<1>2. PICK t \in Tokens :
        IF row[t] = "live"
        THEN /\ row' = [row EXCEPT ![t] = "revoked"]
             /\ revoke' = [revoke EXCEPT ![u] = <<"revoked", t>>]
        ELSE UNCHANGED row /\ revoke' = [revoke EXCEPT ![u] = <<"not_found", t>>]
  OBVIOUS
<1>3. PICK answer \in {"revoked", "not_found"} :
        /\ revoke' = [revoke EXCEPT ![u] = <<answer, t>>]
        /\ answer = "revoked" => row[t] = "live" /\ row'[t] = "revoked"
        /\ \A x \in Tokens : row[x] \in {"none", "revoked"} => row'[x] = row[x]
        /\ row' \in [Tokens -> {"none", "live", "revoked"}]
  BY <1>2 DEF Access!TypeOK
<1>4. \A v \in Revokes : revoke'[v] = IF v = u THEN <<answer, t>> ELSE revoke[v]
  BY <1>3 DEF Shapes
<1>5. Access!TypeOK' /\ Shapes'
  <2>1. <<answer, t>> \in {"revoked", "not_found"} \X Tokens
    OBVIOUS
  <2> QED
    BY <1>3, <1>4, <2>1 DEF Access!TypeOK, Shapes
<1>6. \A x \in Tokens : row[x] \in {"none", "revoked"} => row'[x] = row[x]
  BY <1>3
<1>7. \A v \in Revokes, x \in Tokens : revoke'[v] = <<"revoked", x>> =>
        IF v = u THEN row[x] = "live" /\ row'[x] = "revoked" ELSE revoke[v] = <<"revoked", x>>
  <2> SUFFICES ASSUME NEW v \in Revokes, NEW x \in Tokens, revoke'[v] = <<"revoked", x>>, v = u
               PROVE  row[x] = "live" /\ row'[x] = "revoked"
    BY <1>4
  <2>1. <<answer, t>> = <<"revoked", x>>
    BY <1>4
  <2>2. answer = "revoked" /\ t = x
    BY <2>1
  <2> QED
    BY <1>3, <2>2
<1>8. Revocations'
  <2>1. UNCHANGED <<mint, check>>
    OBVIOUS
  <2>2. \A x \in Tokens : mint'[x].pc \in {"new", "check", "row"} => row'[x] = "none"
    BY <1>6, <2>1 DEF Revocations
  <2>3. \A v \in Revokes, x \in Tokens : revoke'[v] = <<"revoked", x>> => row'[x] = "revoked"
    BY <1>6, <1>7 DEF Revocations
  <2>4. \A c \in Lookups : check'[c].late => row'[check'[c].t] = "revoked"
    BY <1>6, <2>1 DEF Revocations, Shapes
  <2> QED
    BY <2>1, <2>2, <2>3, <2>4 DEF Revocations
<1>9. Claims'
  <2>1. Access!RevokedOnce'
    <3> SUFFICES ASSUME NEW v \in Revokes, NEW w \in Revokes, revoke'[v] = revoke'[w],
                        revoke'[v] # <<>>, revoke'[v][1] = "revoked", v # w
                 PROVE  FALSE
      BY DEF Access!RevokedOnce
    <3>1. PICK x \in Tokens : revoke'[v] = <<"revoked", x>>
      BY <1>5 DEF Shapes
    <3>2. CASE v # u /\ w # u
      BY <1>4, <3>2 DEF Claims, Access!RevokedOnce
    <3>3. PICK y \in {v, w} \ {u} : y \in Revokes /\ revoke'[y] = <<"revoked", x>>
      BY <3>1
    <3>4. revoke[y] = <<"revoked", x>>
      BY <1>7, <3>3
    <3>5. row[x] = "revoked"
      BY <3>3, <3>4 DEF Revocations
    <3>6. CASE v = u \/ w = u
      <4>1. revoke'[u] = <<"revoked", x>>
        BY <3>1, <3>6
      <4> QED
        BY <1>7, <3>5, <4>1
    <3> QED
      BY <3>2, <3>6
  <2>2. Access!RevocationIsImmediate'
    BY DEF Claims, Access!RevocationIsImmediate
  <2> QED
    BY <2>1, <2>2 DEF Claims
<1> QED
  BY <1>1, <1>5, <1>8, <1>9

\* A session that is deleted takes its bindings along, and its id comes back as
\* another session.
LEMMA SessionKeeps ==
    ASSUME TokenConstants, TokenInv, NEW s \in Sessions, Access!create_session(s) \/ Access!delete_session(s)
    PROVE  TokenInv'
<1> USE DEF TokenInv
<1>1. UNCHANGED <<row, mint, check, revoke>>
  BY DEF Access!create_session, Access!delete_session
<1>2. Shapes' /\ Revocations' /\ Claims'
  BY <1>1 DEF Shapes, Revocations, Claims, Access!RevokedOnce, Access!RevocationIsImmediate
<1>3. CASE Access!create_session(s)
  <2>1. Access!TypeOK'
    BY <1>3, <1>1 DEF Access!create_session, Access!TypeOK, TokenConstants
  <2>2. Bindings' /\ Progress'
    BY <1>3, <1>1 DEF Access!create_session, Access!TypeOK, Bindings, Progress
  <2> QED
    BY <1>2, <2>1, <2>2
<1>4. CASE Access!delete_session(s)
  <2>1. Access!TypeOK'
    <3>1. 0 \in 0..MaxLives
      BY DEF TokenConstants
    <3>2. bound' \subseteq bound /\ life' = [life EXCEPT ![s] = 0] /\ UNCHANGED lives
      BY <1>4 DEF Access!delete_session
    <3> HIDE DEF TokenInv
    <3>3. life' \in [Sessions -> 0..MaxLives]
      BY <3>1, <3>2 DEF TokenInv, Access!TypeOK
    <3> QED
      BY <1>1, <3>2, <3>3 DEF TokenInv, Access!TypeOK
  <2>2. Bindings' /\ Progress'
    BY <1>4, <1>1 DEF Access!delete_session, Access!TypeOK, Bindings, Progress
  <2> QED
    BY <1>2, <2>1, <2>2
<1> QED
  BY <1>3, <1>4

LEMMA TokenNext == ASSUME TokenConstants PROVE TokenInv /\ [Access!Next]_(Access!vars) => TokenInv'
<1> SUFFICES ASSUME TokenInv, [Access!Next]_(Access!vars) PROVE TokenInv'
  OBVIOUS
<1>1. CASE Access!Next
  BY <1>1, MintKeeps, LookupKeeps, RevokeKeeps, SessionKeeps DEF Access!Next
<1>2. CASE UNCHANGED Access!vars
  BY <1>2 DEF Access!vars, TokenInv, Access!TypeOK, Shapes, Bindings, Progress, Revocations, Claims,
              Access!RevokedOnce, Access!RevocationIsImmediate
<1> QED
  BY <1>1, <1>2

\* Only select_sessions lets a request through, and only for a binding it found.
LEMMA Admission ==
    ASSUME TokenConstants, TokenInv, [Access!Next]_(Access!vars), NEW c \in Lookups,
           check'[c].pc = "admitted", check[c].pc # "admitted"
    PROVE  LET t == check[c].t  s == check[c].s
           IN  s \in mint[t].want /\ <<t, s, life[s]>> \in bound
<1> USE DEF TokenInv
<1>1. Access!select_sessions(c)
  <2>1. check # check'
    OBVIOUS
  <2>2. PICK d \in Lookups : \/ Access!jwt_auth_middleware(d) \/ Access!select_revoked(d)
                              \/ Access!select_sessions(d) \/ Access!lookup_fails(d)
    BY <2>1 DEF Access!Next, Access!vars, Access!mint_token, Access!get_session, Access!insert_token, Access!insert_token_session,
       Access!mint_fails, Access!MintStep, Access!revoke_token, Access!create_session, Access!delete_session
  <2>3. d = c
    BY <2>2 DEF Access!jwt_auth_middleware, Access!select_revoked, Access!select_sessions, Access!lookup_fails, Access!Refuse, Shapes
  <2> QED
    BY <2>2, <2>3 DEF Access!jwt_auth_middleware, Access!select_revoked, Access!lookup_fails, Access!Refuse, Shapes
<1>2. Access!Admits(c)
  BY <1>1 DEF Access!select_sessions, Access!Refuse, Shapes
<1> QED
  BY <1>1, <1>2 DEF Access!Admits, Bindings, Shapes, Access!TypeOK, Access!select_sessions

\* db/tokens.rs, middleware/jwt.rs: a token reaches the sessions it was minted for
\* and no other, one request is told it revoked it, and no later one gets through.
THEOREM TokensAreHeld == PartsSpec => TokensHold
<1>1. Access!Init => TokenInv
  BY TokenInit, DurableAssumption
<1>2. TokenInv /\ [Access!Next]_(Access!vars) => TokenInv'
  BY TokenNext, DurableAssumption
<1>3. TokenInv => Access!TypeOK /\ Access!RevokedOnce /\ Access!RevocationIsImmediate /\ Access!HandedOutIsWhole
  BY DEF TokenInv, Claims, Progress, Access!HandedOutIsWhole, Access!Minted
<1>4. TokenInv /\ [Access!Next]_(Access!vars) =>
        [\A c \in Lookups : check'[c].pc = "admitted" /\ check[c].pc # "admitted" =>
           LET t == check[c].t  s == check[c].s
           IN  s \in mint[t].want /\ <<t, s, life[s]>> \in bound]_(Access!vars)
  BY Admission, DurableAssumption DEF Access!vars
<1> QED
  BY <1>1, <1>2, <1>3, <1>4, OneAtATime, PTL
  DEF PartsSpec, PartsInit, TokensHold, Access!TokensHold, Access!ScopeHolds

-----------------------------------------------------------------------------
(* Webhooks in memory and table *)

\* An id whose registration has yet to write something has not been used by
\* anything else: it is not in memory, not being unregistered, not in the table.
Unused ==
    \A h \in Hooks :
        /\ reg[h] \in {"new", "check", "insert"} => mem[h] = "none" /\ unreg[h] = "idle"
        /\ reg[h] \in {"new", "check", "insert", "save"} => rows[h] = "none"

\* A reload has read rows of finished registrations only.
ReadIsUsed ==
    reload # Hooking!NoReload => \A h \in Hooks : reload[h] # "none" => reg[h] \in {"adopt", "done"}

\* What is being unregistered has left memory; what put it back is known.
Leaving == \A h \in Hooks : unreg[h] = "delete" => mem[h] = "none" \/ h \in stale

RegistryInv == Hooking!HooksAgree /\ Unused /\ ReadIsUsed /\ Leaving

-----------------------------------------------------------------------------

\* At first nothing is registered.
LEMMA RegistryInit == ASSUME RegistryConstants, Hooking!Init PROVE RegistryInv
<1> USE DEF Hooking!Init, RegistryConstants
<1>1. Hooking!TypeOK
  BY DEF Hooking!TypeOK, Hooking!States
<1>2. Hooking!MutedStaysMuted /\ Hooking!DispatchedIsDurable
  BY DEF Hooking!MutedStaysMuted, Hooking!DispatchedIsDurable
<1> QED
  BY <1>1, <1>2 DEF RegistryInv, Hooking!HooksAgree, Unused, ReadIsUsed, Leaving

\* Every step keeps the variables in their types.
LEMMA RegistryTypes == ASSUME RegistryConstants, Hooking!TypeOK, Hooking!Next PROVE Hooking!TypeOK'
<1> USE DEF Hooking!TypeOK, Hooking!Put, Hooking!Fault, Hooking!States, RegistryConstants
<1>1. ASSUME NEW h \in Hooks,
             Hooking!register_webhook(h) \/ Hooking!already_registered(h) \/ Hooking!insert_in_memory(h)
      PROVE  Hooking!TypeOK'
  BY <1>1 DEF Hooking!register_webhook, Hooking!already_registered, Hooking!insert_in_memory
<1>2. ASSUME NEW h \in Hooks, Hooking!create_webhook(h) PROVE Hooking!TypeOK'
  BY <1>2 DEF Hooking!create_webhook
<1>3. ASSUME NEW h \in Hooks, Hooking!create_session(h) \/ Hooking!adopt(h) PROVE Hooking!TypeOK'
  BY <1>3 DEF Hooking!create_session, Hooking!adopt
<1>4. ASSUME NEW h \in Hooks, Hooking!unregister_webhook(h) PROVE Hooking!TypeOK'
  BY <1>4 DEF Hooking!unregister_webhook
<1>5. ASSUME NEW h \in Hooks, Hooking!delete_webhook(h) PROVE Hooking!TypeOK'
  BY <1>5 DEF Hooking!delete_webhook
<1>6. ASSUME NEW h \in Hooks, Hooking!enable_webhook(h) PROVE Hooking!TypeOK'
  BY <1>6 DEF Hooking!enable_webhook
<1>7. ASSUME NEW u \in Urls, Hooking!HardDisable(u) \/ Hooking!purge_webhook_by_url(u) PROVE Hooking!TypeOK'
  BY <1>7 DEF Hooking!HardDisable, Hooking!purge_webhook_by_url, Hooking!At
<1>8. ASSUME NEW u \in Urls, Hooking!disable_webhook_by_url(u) PROVE Hooking!TypeOK'
  BY <1>8 DEF Hooking!disable_webhook_by_url, Hooking!At
<1>9. CASE Hooking!Crash
  BY <1>9 DEF Hooking!Crash
<1>10. CASE Hooking!get_webhooks
  BY <1>10 DEF Hooking!get_webhooks
<1>11. CASE Hooking!reconnect_all_on_startup
  BY <1>11 DEF Hooking!reconnect_all_on_startup
<1> QED
  BY <1>1, <1>2, <1>3, <1>4, <1>5, <1>6, <1>7, <1>8, <1>9, <1>10, <1>11 DEF Hooking!Next

Agreement == Hooking!MutedStaysMuted /\ Hooking!DispatchedIsDurable /\ Unused /\ ReadIsUsed /\ Leaving

\* Requests write one webhook, in memory or in the table, and remember it.
LEMMA RequestAgrees ==
    ASSUME RegistryConstants, RegistryInv, NEW h \in Hooks,
           \/ Hooking!register_webhook(h) \/ Hooking!already_registered(h) \/ Hooking!insert_in_memory(h)
           \/ Hooking!create_webhook(h) \/ Hooking!create_session(h) \/ Hooking!adopt(h)
           \/ Hooking!unregister_webhook(h) \/ Hooking!delete_webhook(h) \/ Hooking!enable_webhook(h)
    PROVE  Agreement'
<1> USE DEF RegistryInv, Hooking!HooksAgree, Hooking!TypeOK, Hooking!Put, Agreement, Hooking!MutedStaysMuted,
            Hooking!DispatchedIsDurable, Unused, ReadIsUsed, Leaving, RegistryConstants, Hooking!Fault
<1>1. CASE Hooking!register_webhook(h)
  BY <1>1 DEF Hooking!register_webhook
<1>2. CASE Hooking!already_registered(h)
  BY <1>2 DEF Hooking!already_registered
<1>3. CASE Hooking!insert_in_memory(h)
  BY <1>3 DEF Hooking!insert_in_memory
<1>4. CASE Hooking!create_webhook(h)
  BY <1>4 DEF Hooking!create_webhook
<1>5. CASE Hooking!create_session(h)
  BY <1>5 DEF Hooking!create_session
<1>6. CASE Hooking!adopt(h)
  BY <1>6 DEF Hooking!adopt
<1>7. CASE Hooking!unregister_webhook(h)
  BY <1>7 DEF Hooking!unregister_webhook
<1>8. CASE Hooking!delete_webhook(h)
  BY <1>8 DEF Hooking!delete_webhook
<1>9. CASE Hooking!enable_webhook(h)
  BY <1>9 DEF Hooking!enable_webhook
<1> QED
  BY <1>1, <1>2, <1>3, <1>4, <1>5, <1>6, <1>7, <1>8, <1>9

\* The auto-disable, a crash and a reload write many at once.
LEMMA OthersAgree ==
    ASSUME RegistryConstants, RegistryInv,
           \/ \E u \in Urls : \/ Hooking!HardDisable(u) \/ Hooking!disable_webhook_by_url(u)
                              \/ Hooking!purge_webhook_by_url(u)
           \/ Hooking!Crash \/ Hooking!get_webhooks \/ Hooking!reconnect_all_on_startup
    PROVE  Agreement'
<1> USE DEF RegistryInv, Hooking!HooksAgree, Hooking!TypeOK, Hooking!Put, Agreement, Hooking!MutedStaysMuted, Hooking!At,
            Hooking!DispatchedIsDurable, Unused, ReadIsUsed, Leaving, RegistryConstants, Hooking!Fault
<1>1. ASSUME NEW u \in Urls, Hooking!HardDisable(u) PROVE Agreement'
  BY <1>1 DEF Hooking!HardDisable
<1>2. ASSUME NEW u \in Urls, Hooking!disable_webhook_by_url(u) PROVE Agreement'
  BY <1>2 DEF Hooking!disable_webhook_by_url
<1>3. ASSUME NEW u \in Urls, Hooking!purge_webhook_by_url(u) PROVE Agreement'
  BY <1>3 DEF Hooking!purge_webhook_by_url
<1>4. CASE Hooking!Crash
  BY <1>4 DEF Hooking!Crash
<1>5. CASE Hooking!get_webhooks
  BY <1>5 DEF Hooking!get_webhooks
<1>6. CASE Hooking!reconnect_all_on_startup
  BY <1>6 DEF Hooking!reconnect_all_on_startup
<1> QED
  BY <1>1, <1>2, <1>3, <1>4, <1>5, <1>6

\* Every step keeps memory and table in agreement.
LEMMA RegistryNext == ASSUME RegistryConstants PROVE RegistryInv /\ [Hooking!Next]_(Hooking!vars) => RegistryInv'
<1> SUFFICES ASSUME RegistryInv, [Hooking!Next]_(Hooking!vars) PROVE RegistryInv'
  OBVIOUS
<1>1. CASE Hooking!Next
  <2>1. Hooking!TypeOK'
    BY <1>1, RegistryTypes DEF RegistryInv, Hooking!HooksAgree
  <2>2. Agreement'
    BY <1>1, RequestAgrees, OthersAgree DEF Hooking!Next
  <2> QED
    BY <2>1, <2>2 DEF RegistryInv, Hooking!HooksAgree, Agreement
<1>2. CASE UNCHANGED Hooking!vars
  BY <1>2 DEF Hooking!vars, RegistryInv, Hooking!HooksAgree, Hooking!TypeOK, Hooking!MutedStaysMuted,
              Hooking!DispatchedIsDurable, Unused, ReadIsUsed, Leaving
<1> QED
  BY <1>1, <1>2

\* CHANGELOG 0.6.12, webhooks.rs: a disabled webhook gets no events, and one that
\* gets events has its row, but for the named races and faults.
THEOREM HooksInStep == PartsSpec => []HooksAgree
<1>1. Hooking!Init => RegistryInv
  BY RegistryInit, DurableAssumption
<1>2. RegistryInv /\ [Hooking!Next]_(Hooking!vars) => RegistryInv'
  BY RegistryNext, DurableAssumption
<1>3. RegistryInv => HooksAgree
  BY DEF RegistryInv, HooksAgree
<1> QED
  BY <1>1, <1>2, <1>3, OneAtATime, PTL DEF PartsSpec, PartsInit
================================================================================
