-------------------------- MODULE WebhookRegistry --------------------------
(***************************************************************************)
(* Who gets a session's events: the registrations the dispatcher holds in  *)
(* memory and their rows in the table webhooks, kept in step by requests   *)
(* (src/handlers/webhooks.rs, create_session), by the auto-disable of a    *)
(* dead URL (deliver_webhook), by deletion, and by the reload at start-up. *)
(* Memory and table are written one after the other, and a failed write to *)
(* the table is not reported.                                              *)
(***************************************************************************)
EXTENDS Naturals, FiniteSets

CONSTANTS
    Hooks,      \* webhook ids (UUIDs, each used once)
    Urls,
    UrlOf,      \* the URL each is registered for, all in one session
    MaxFaults   \* bound: failed statements and restarts

VARIABLES
    mem,        \* webhooks in memory: none, on (enabled), off
    rows,       \* table webhooks, likewise
    reg,        \* register request of each id: its next statement
    unreg,      \* unregister request of each id
    disable,    \* auto-disable of each URL: idle, update, purge
    reload,     \* reload: done, or the rows read for the session
    enabled,    \* history: ids whose re-enable was answered Ok, and not undone
    unsaved,    \* history: ids whose row was not written
    stale,      \* history: ids put in memory from rows that had changed meanwhile
    faults      \* bounded counter

vars == <<mem, rows, reg, unreg, disable, reload, enabled, unsaved, stale, faults>>

States   == {"none", "on", "off"}
NoReload == [h \in Hooks |-> "done"]
Put(f, h, x) == [f EXCEPT ![h] = x]
At(u) == {h \in Hooks : UrlOf[h] = u}
Fault == faults < MaxFaults /\ faults' = faults + 1

-----------------------------------------------------------------------------
(* register_webhook, and create_session with a webhook in its request *)

\* The session is in the database and the URL passed validate_public_url: both
\* were awaited.
register_webhook(h) ==
    /\ reg[h] = "new"
    /\ reg' = Put(reg, h, "check")
    /\ UNCHANGED <<mem, rows, unreg, disable, reload, enabled, unsaved, stale, faults>>

\* Registered in memory already: 409.
already_registered(h) ==
    /\ reg[h] = "check"
    /\ reg' = Put(reg, h, IF \E k \in At(UrlOf[h]) : mem[k] # "none" THEN "done" ELSE "insert")
    /\ UNCHANGED <<mem, rows, unreg, disable, reload, enabled, unsaved, stale, faults>>

insert_in_memory(h) ==
    /\ reg[h] = "insert"
    /\ mem' = Put(mem, h, "on")
    /\ reg' = Put(reg, h, "save")
    /\ UNCHANGED <<rows, unreg, disable, reload, enabled, unsaved, stale, faults>>

\* The error of create_webhook is dropped.
create_webhook(h) ==
    /\ reg[h] = "save"
    /\ reg' = Put(reg, h, "done")
    /\ \/ rows' = Put(rows, h, "on") /\ UNCHANGED <<unsaved, faults>>
       \/ Fault /\ unsaved' = unsaved \cup {h} /\ UNCHANGED rows
    /\ UNCHANGED <<mem, unreg, disable, reload, enabled, stale>>

\* create_session writes the row first, and fails when that fails.
create_session(h) ==
    /\ reg[h] = "new"
    /\ \A k \in Hooks : mem[k] = "none" /\ rows[k] = "none" /\ reg[k] \in {"new", "check"}
    /\ rows' = Put(rows, h, "on")
    /\ reg' = Put(reg, h, "adopt")
    /\ UNCHANGED <<mem, unreg, disable, reload, enabled, unsaved, stale, faults>>
adopt(h) ==
    /\ reg[h] = "adopt"
    /\ mem' = Put(mem, h, "on")
    /\ reg' = Put(reg, h, "done")
    /\ stale' = IF rows[h] = "on" /\ unreg[h] = "idle" THEN stale ELSE stale \cup {h}
    /\ UNCHANGED <<rows, unreg, disable, reload, enabled, unsaved, faults>>

-----------------------------------------------------------------------------
(* unregister_webhook, reenable_webhook *)

unregister_webhook(h) ==
    /\ unreg[h] = "idle" /\ mem[h] # "none"
    /\ mem' = Put(mem, h, "none")
    /\ unreg' = Put(unreg, h, "delete")
    /\ enabled' = enabled \ {h}
    /\ UNCHANGED <<rows, reg, disable, reload, unsaved, stale, faults>>

\* The error of delete_webhook is dropped too.
delete_webhook(h) ==
    /\ unreg[h] = "delete"
    /\ unreg' = Put(unreg, h, "idle")
    /\ \/ rows' = Put(rows, h, "none") /\ UNCHANGED faults
       \/ Fault /\ UNCHANGED rows
    /\ UNCHANGED <<mem, reg, disable, reload, enabled, unsaved, stale>>

\* The row, and nothing but the row, is flipped back.
enable_webhook(h) ==
    /\ rows[h] # "none"
    /\ rows' = Put(rows, h, "on")
    /\ enabled' = IF rows[h] = "off" /\ disable[UrlOf[h]] = "idle" THEN enabled \cup {h} ELSE enabled
    /\ UNCHANGED <<mem, reg, unreg, disable, reload, unsaved, stale, faults>>

-----------------------------------------------------------------------------
(* The auto-disable of a URL whose circuit reached the hard threshold *)

HardDisable(u) ==
    /\ disable[u] = "idle"
    /\ \E h \in At(u) : mem[h] = "on"
    /\ disable' = Put(disable, u, "update")
    /\ enabled' = enabled \ At(u)
    /\ UNCHANGED <<mem, rows, reg, unreg, reload, unsaved, stale, faults>>

\* An error here is logged; the purge follows in any case.
disable_webhook_by_url(u) ==
    /\ disable[u] = "update"
    /\ disable' = Put(disable, u, "purge")
    /\ \/ /\ rows' = [h \in Hooks |-> IF h \in At(u) /\ rows[h] = "on" THEN "off" ELSE rows[h]]
          /\ UNCHANGED faults
       \/ Fault /\ UNCHANGED rows
    /\ UNCHANGED <<mem, reg, unreg, reload, enabled, unsaved, stale>>

\* Mutant: one registration is purged, the others of the URL stay.
purge_one(u) ==
    /\ disable[u] = "purge"
    /\ \E k \in At(u) : mem' = Put(mem, k, "none")
    /\ disable' = Put(disable, u, "idle")
    /\ UNCHANGED <<rows, reg, unreg, reload, enabled, unsaved, stale, faults>>

purge_webhook_by_url(u) ==
    /\ disable[u] = "purge"
    /\ mem' = [h \in Hooks |-> IF h \in At(u) THEN "none" ELSE mem[h]]
    /\ disable' = Put(disable, u, "idle")
    /\ UNCHANGED <<rows, reg, unreg, reload, enabled, unsaved, stale, faults>>

-----------------------------------------------------------------------------
(* Crash and reload *)

\* Requests and tasks die with the process.
Crash ==
    /\ Fault
    /\ mem' = [h \in Hooks |-> "none"]
    /\ reg' = [h \in Hooks |-> IF reg[h] = "new" THEN "new" ELSE "done"]
    /\ unreg' = [h \in Hooks |-> "idle"]
    /\ disable' = [u \in Urls |-> "idle"]
    /\ reload' = NoReload
    /\ unsaved' = unsaved \cup {h \in Hooks : reg[h] = "save"}
    /\ enabled' = {} /\ stale' = {}
    /\ UNCHANGED rows

\* At start-up, and for POST /sessions/reconnect-all on the running
\* server: a session that was connected or logged in has its rows read ...
get_webhooks ==
    /\ reload = NoReload
    /\ \E h \in Hooks : rows[h] # "none"
    /\ reload' = rows
    /\ UNCHANGED <<mem, rows, reg, unreg, disable, enabled, unsaved, stale, faults>>

\* ... and put into memory as they were read.
reconnect_all_on_startup ==
    /\ reload # NoReload
    /\ mem' = [h \in Hooks |-> IF reload[h] # "none" THEN reload[h] ELSE mem[h]]
    /\ stale' = stale \cup {h \in Hooks : reload[h] # "none" /\ (reload[h] # rows[h] \/ unreg[h] = "delete")}
    /\ reload' = NoReload
    /\ UNCHANGED <<rows, reg, unreg, disable, enabled, unsaved, faults>>

-----------------------------------------------------------------------------

Init ==
    /\ mem = [h \in Hooks |-> "none"] /\ rows = [h \in Hooks |-> "none"]
    /\ reg = [h \in Hooks |-> "new"] /\ unreg = [h \in Hooks |-> "idle"]
    /\ disable = [u \in Urls |-> "idle"]
    /\ reload = NoReload
    /\ enabled = {} /\ unsaved = {} /\ stale = {}
    /\ faults = 0

Next ==
    \/ \E h \in Hooks :
         \/ register_webhook(h) \/ already_registered(h) \/ insert_in_memory(h)
         \/ create_webhook(h) \/ create_session(h) \/ adopt(h)
         \/ unregister_webhook(h) \/ delete_webhook(h) \/ enable_webhook(h)
    \/ \E u \in Urls : HardDisable(u) \/ disable_webhook_by_url(u) \/ purge_webhook_by_url(u)
    \/ Crash \/ get_webhooks \/ reconnect_all_on_startup

Spec == Init /\ [][Next]_vars

-----------------------------------------------------------------------------

TypeOK ==
    /\ mem \in [Hooks -> States] /\ rows \in [Hooks -> States]
    /\ reg \in [Hooks -> {"new", "check", "insert", "save", "adopt", "done"}]
    /\ unreg \in [Hooks -> {"idle", "delete"}]
    /\ disable \in [Urls -> {"idle", "update", "purge"}]
    /\ reload = NoReload \/ reload \in [Hooks -> States]
    /\ enabled \cup unsaved \cup stale \subseteq Hooks
    /\ faults \in 0..MaxFaults

\* A webhook whose row says disabled gets no events: all registrations of its
\* URL leave memory with the row's change (CHANGELOG 0.6.12), unless it came
\* from a reload that had read the row before the change, or from a
\* create_session that had written it before.
MutedStaysMuted ==
    \A h \in Hooks :
      rows[h] = "off" /\ mem[h] = "on" => disable[UrlOf[h]] = "purge" \/ h \in stale

\* A webhook that gets events has a row to come back from after a restart,
\* unless its insert failed or it was unregistered while a request was at work.
DispatchedIsDurable ==
    \A h \in Hooks :
      mem[h] # "none" =>
        rows[h] # "none" \/ reg[h] = "save" \/ h \in unsaved \/ h \in stale

\* What the dispatcher holds and what the table says agree, in both directions.
HooksAgree == TypeOK /\ MutedStaysMuted /\ DispatchedIsDurable
=============================================================================
