--------------------------------- MODULE Durable ---------------------------------
(* What outlives a request or the process: the lock file (InstanceLock), the   *)
(* tags and their file (SessionTags), tokens and their tables (AccessTokens),  *)
(* webhook registrations in memory and table (WebhookRegistry).  They share no *)
(* state, so a behaviour is one of one part, and the others keep their first.  *)
EXTENDS InstanceLock

CONSTANTS
    Sessions, Tags, Requests, MaxCrashes,
    Tokens, Lookups, Revokes, MaxLives,
    Hooks, Urls, UrlOf, MaxFaults

\* Bounds are numbers, an id lives at least once, no token is the placeholder of a
\* request without one, and each webhook has a URL.
TagConstants      == MaxCrashes \in Nat
TokenConstants    == MaxLives \in Nat \ {0} /\ "none" \notin Tokens
RegistryConstants == UrlOf \in [Hooks -> Urls] /\ MaxFaults \in Nat
ASSUME DurableAssumption == TagConstants /\ TokenConstants /\ RegistryConstants

VARIABLES
    part,       \* the part of this behaviour
    tags, tagfile, disk, sessions, req, step, snap, up, crashes, kept, overlapped,
    row, bound, mint, check, revoke, life, lives,
    mem, rows, reg, unreg, disable, reload, enabled, unsaved, stale, faults

Tagging == INSTANCE SessionTags WITH file <- tagfile, pc <- step
Access  == INSTANCE AccessTokens WITH Requests <- Lookups
Hooking == INSTANCE WebhookRegistry

tagVars   == <<tags, tagfile, disk, sessions, req, step, snap, up, crashes, kept, overlapped>>
tokenVars == <<row, bound, mint, check, revoke, life, lives>>
hookVars  == <<mem, rows, reg, unreg, disable, reload, enabled, unsaved, stale, faults>>
all == <<part, vars, tagVars, tokenVars, hookVars>>

PartsInit ==
    /\ part \in {"lock", "tags", "tokens", "hooks"}
    /\ Init /\ Tagging!Init /\ Access!Init /\ Hooking!Init

PartsNext ==
    \/ part = "lock"   /\ Next         /\ UNCHANGED <<part, tagVars, tokenVars, hookVars>>
    \/ part = "tags"   /\ Tagging!Next /\ UNCHANGED <<part, vars, tokenVars, hookVars>>
    \/ part = "tokens" /\ Access!Next  /\ UNCHANGED <<part, vars, tagVars, hookVars>>
    \/ part = "hooks"  /\ Hooking!Next /\ UNCHANGED <<part, vars, tagVars, tokenVars>>

PartsSpec == PartsInit /\ [][PartsNext]_all

-----------------------------------------------------------------------------

\* handlers/tags.rs:5-15, CHANGELOG.md:895-897: once no request runs, a restart
\* would load the tags that memory holds; sessions that are deleted leave none; a
\* tag goes away only by a request that names it, and by a crash only while the
\* file is written.  Requests that overlap are excepted where the parts say so.
TagsKept ==
    /\ [](Tagging!TypeOK /\ Tagging!PersistedWhenQuiet /\ Tagging!NoOrphans)
    /\ Tagging!RemovedByName /\ Tagging!WipedOnlyIfTorn

\* CHANGELOG.md:363, db/tokens.rs:267-268: a token that was handed out reaches
\* the sessions it was minted for and no session that took over an id; one
\* request is told that it revoked it, and from then on nobody is let through.
TokensHold == Access!TokensHold

\* CHANGELOG 0.6.12: a webhook whose row says disabled gets no events, and one
\* that gets events has a row to come back from, but for the named races with a
\* reload or a create_session, failed inserts and overlapping unregistrations.
HooksAgree == Hooking!HooksAgree
=============================================================================
