------------------------------ MODULE SessionTags ------------------------------
(* Tags of sessions (src/state.rs, handlers/tags.rs): a map in memory, written *)
(* whole to session_tags.json by every request that changes it, read back at   *)
(* startup. Requests run concurrently; writing the file is not one step.       *)
EXTENDS Naturals, FiniteSets

CONSTANTS
    Sessions, Tags, Requests,
    MaxCrashes      \* bound

VARIABLES
    tags,       \* the map; no entry and an empty entry look alike
    file, disk, \* the file is whole, empty (truncated) or torn; what was written
    sessions,   \* sessions that exist
    req, pc, snap,  \* each request, its next step, the bytes it will write
    up, crashes,
    kept,       \* history: tags when no request was running last
    overlapped  \* history: a request began while another one ran

vars == <<tags, file, disk, sessions, req, pc, snap, up, crashes, kept, overlapped>>

Nothing == [s \in Sessions |-> {}]
Maps    == [Sessions -> SUBSET Tags]
NoRequest == [kind |-> "none"]
Quiet   == \A r \in Requests : pc[r] \in {"new", "done"}
Goto(r, to) == pc' = [pc EXCEPT ![r] = to]
\* When the last request ends, what memory holds is what must survive.
End(r) ==
    /\ Goto(r, "done")
    /\ kept' = IF \A q \in Requests \ {r} : pc[q] \in {"new", "done"} THEN tags ELSE kept

Calls ==
         [kind : {"set"}, s : sessions, t : SUBSET Tags]
    \cup [kind : {"add", "remove"}, s : sessions, t : {{t} : t \in Tags}]
    \cup [kind : {"delete", "purge"}, s : sessions, t : {{}}]

Mutates(r, kind, to) == req[r].kind = kind /\ pc[r] = "start" /\ Goto(r, to)
Unchanged(r) == tags' = tags /\ UNCHANGED <<file, disk, sessions, req, snap, up, crashes, kept, overlapped>>
Becomes(r, T) ==
    /\ tags' = [tags EXCEPT ![req[r].s] = T]
    /\ UNCHANGED <<file, disk, sessions, req, snap, up, crashes, kept, overlapped>>

-----------------------------------------------------------------------------

\* Tags are given to sessions that the caller sees in the listing.
Request(r) ==
    /\ up /\ pc[r] = "new" /\ Goto(r, "start")
    /\ \E c \in Calls : req' = [req EXCEPT ![r] = c]
    /\ overlapped' = (overlapped \/ ~Quiet)
    /\ UNCHANGED <<tags, file, disk, sessions, snap, up, crashes, kept>>

set_tags(r) == Mutates(r, "set", "persist") /\ Becomes(r, req[r].t)

\* Only a change is persisted.
add_tag(r) ==
    /\ Mutates(r, "add", IF req[r].t \subseteq tags[req[r].s] THEN "end" ELSE "persist")
    /\ Becomes(r, tags[req[r].s] \cup req[r].t)

\* Mutant: the tag to remove is the one that is retained.
retain_named(r) ==
    /\ Mutates(r, "remove", "persist")
    /\ Becomes(r, tags[req[r].s] \cap req[r].t)

\* The lock on the entry is released before an entry found empty is dropped.
\* A tag that was not there changes nothing; an empty entry is dropped all the same.
remove_tag(r) ==
    LET left == tags[req[r].s] \ req[r].t IN
    /\ Mutates(r, "remove", IF left = {} /\ tags[req[r].s] /= {} THEN "drop_key"
                            ELSE IF left = tags[req[r].s] THEN "end" ELSE "persist")
    /\ Becomes(r, left)

drop_key(r) == pc[r] = "drop_key" /\ Goto(r, "persist") /\ Becomes(r, {})

\* delete_session: drop_tags_for, then the session itself.
drop_tags_for(r) ==
    /\ Mutates(r, "delete", IF tags[req[r].s] = {} THEN "remove" ELSE "persist")
    /\ Becomes(r, {})

\* The bulk purge and a logout remove the session and leave its tags.
purge_sessions(r) == Mutates(r, "purge", "remove") /\ Unchanged(r)
remove_session(r) ==
    /\ pc[r] = "remove" /\ sessions' = sessions \ {req[r].s} /\ Goto(r, "end")
    /\ UNCHANGED <<tags, file, disk, req, snap, up, crashes, kept, overlapped>>

-----------------------------------------------------------------------------
(* persist_tags; an entry that changes during the snapshot is followed by a   *)
(* snapshot of its own                                                        *)

snapshot(r) ==
    /\ pc[r] = "persist" /\ Goto(r, "open") /\ snap' = [snap EXCEPT ![r] = tags]
    /\ UNCHANGED <<tags, file, disk, sessions, req, up, crashes, kept, overlapped>>

open_file(r) ==
    /\ pc[r] = "open" /\ Goto(r, "write") /\ file' = "empty"
    /\ UNCHANGED <<tags, disk, sessions, req, snap, up, crashes, kept, overlapped>>

\* Over the bytes of another writer it leaves its own, or a mix of both.
write_file(r) ==
    /\ pc[r] = "write"
    /\ disk' = snap[r]
    /\ \/ file' = "whole"
       \/ file /= "empty" /\ disk /= snap[r] /\ file' = "torn"
    /\ Goto(r, IF req[r].kind = "delete" THEN "remove" ELSE "end")
    /\ UNCHANGED <<tags, sessions, req, snap, up, crashes, kept, overlapped>>

end(r) == pc[r] = "end" /\ End(r) /\ UNCHANGED <<tags, file, disk, sessions, req, snap, up, crashes, overlapped>>

Crash ==
    /\ up /\ crashes < MaxCrashes /\ crashes' = crashes + 1 /\ up' = FALSE
    /\ pc' = [r \in Requests |-> IF pc[r] = "new" THEN "new" ELSE "done"]
    /\ UNCHANGED <<tags, file, disk, sessions, req, snap, kept, overlapped>>

\* AppState::new: a file that does not parse is passed over.
Loaded == IF file = "whole" THEN disk ELSE Nothing
Restart ==
    /\ ~up /\ up' = TRUE
    /\ tags' = Loaded
    /\ kept' = tags'
    /\ UNCHANGED <<file, disk, sessions, req, pc, snap, crashes, overlapped>>

-----------------------------------------------------------------------------

Init ==
    /\ tags = Nothing /\ file = "whole" /\ disk = Nothing /\ sessions = Sessions
    /\ req = [r \in Requests |-> NoRequest] /\ pc = [r \in Requests |-> "new"]
    /\ snap = [r \in Requests |-> Nothing]
    /\ up = TRUE /\ crashes = 0 /\ kept = Nothing /\ overlapped = FALSE

Next ==
    \/ \E r \in Requests :
         \/ Request(r) \/ set_tags(r) \/ add_tag(r) \/ remove_tag(r) \/ drop_key(r)
         \/ drop_tags_for(r) \/ purge_sessions(r) \/ remove_session(r)
         \/ snapshot(r) \/ open_file(r) \/ write_file(r) \/ end(r)
    \/ Crash \/ Restart

Spec == Init /\ [][Next]_vars

-----------------------------------------------------------------------------

TypeOK ==
    /\ tags \in Maps /\ kept \in Maps /\ sessions \subseteq Sessions
    /\ file \in {"whole", "empty", "torn"} /\ disk \in Maps
    /\ pc \in [Requests -> {"new", "start", "drop_key", "persist", "open", "write",
                            "remove", "end", "done"}]
    /\ snap \in [Requests -> Maps] /\ up \in BOOLEAN /\ overlapped \in BOOLEAN
    /\ crashes \in 0..MaxCrashes

\* handlers/tags.rs:5-7: once no request runs, a restart would load what memory
\* holds; after requests that overlapped the file may be an older snapshot.
PersistedWhenQuiet == up /\ Quiet /\ ~overlapped => Loaded = tags

\* handlers/tags.rs:15: a tag goes away only by a request that says so: one that
\* removes this tag, replaces the set, or deletes the session. The exception is
\* a removal with another request beside it, whose tag it may drop with the key.
Names(c, s, t) ==
    /\ c.kind \in {"set", "remove", "delete"} /\ c.s = s
    /\ c.kind = "remove" => t \in c.t
NamedStep ==
    up /\ up' => \A s \in Sessions : \A t \in tags[s] \ tags'[s] :
         \E r \in Requests : /\ pc'[r] /= pc[r]
                            /\ \/ Names(req[r], s, t)
                               \/ req[r].kind = "remove" /\ overlapped
RemovedByName == [][NamedStep]_vars

\* A restart brings back what was there before or during the one request it
\* interrupted, unless that request was just writing the file.
WipedOnlyIfTorn ==
    [][~up /\ up' => tags' \in {kept, tags} \/ file /= "whole" \/ overlapped]_vars

\* CHANGELOG.md:895-897: no tags of sessions that are gone pile up, but for those
\* of a session that was purged, or was deleted beside another request.
NoOrphans ==
    up /\ Quiet => \A s \in Sessions \ sessions :
        \/ tags[s] = {} \/ overlapped
        \/ \E r \in Requests : req[r].kind = "purge" /\ req[r].s = s
=============================================================================
