---------------------------- MODULE SchedulerProofs ----------------------------
(* What the table and the webhooks say of a scheduled message is true, a       *)
(* confirmed cancellation holds and the promise of ParkedSends is kept, for    *)
(* any number of messages, pollers, requests and faults.                       *)
EXTENDS SchedulerRefinement, FiniteSetTheorems, TLAPS

\* What a poller at work knows of the row it has claimed.
AtWork(p, m) ==
    /\ announced[m] = {}
    /\ ppc[p] \in {"dispatch", "markSent", "markFailed"} => rows[m] = "sending"
    /\ ppc[p] = "announceSent"   => rows[m] \in {"sending", "sent"}
    /\ ppc[p] = "announceFailed" => rows[m] \in {"sending", "failed"}
    /\ dispatched[m] = IF ppc[p] \in {"markSent", "announceSent"} THEN 1 ELSE 0

\* A poller holds a row from the claim to the announcement, and holds it alone.
Claims ==
    /\ \A p \in Pollers : IF ppc[p] \in {"idle", "claim"} THEN cur[p] = Nil
                          ELSE cur[p] \in Messages /\ AtWork(p, cur[p])
    /\ \A p, q \in Pollers : cur[p] = cur[q] /\ cur[p] # Nil => p = q

\* Nobody has heard of a message that was not claimed.
Unclaimed ==
    \A m \in Messages : rows[m] \in {"none", "pending", "cancelled"} => announced[m] = {}

\* A request that reads the row back, or has answered, has cancelled it.
Cancelled ==
    /\ \A c \in Clients : req[c].pc \in {"cancel", "reread"} => req[c].msg \in Messages
    /\ \A c \in Clients : req[c].pc = "reread" => rows[req[c].msg] = "cancelled"
    /\ \A m \in acked : rows[m] = "cancelled"

Truth == DispatchedOnce /\ StatusIsTrue /\ AnnouncedTruly

SchedulerInv == TypeOK /\ Claims /\ Truth /\ Unclaimed /\ Cancelled

USE SchedulerAssumption

\* At first no message is parked and nobody works.
LEMMA SchedulerInit == Init => SchedulerInv
<1> SUFFICES ASSUME Init PROVE SchedulerInv
  OBVIOUS
<1> USE DEF Init
<1>1. TypeOK
  BY DEF TypeOK, ScheduledStatus, Settled, PollerPc, Request, NoRequest, Event
<1>2. Claims
  BY DEF Claims
<1>3. Truth /\ Unclaimed
  BY DEF Truth, DispatchedOnce, StatusIsTrue, AnnouncedTruly, Unclaimed
<1>4. Cancelled
  BY DEF Cancelled, NoRequest
<1> QED
  BY <1>1, <1>2, <1>3, <1>4 DEF SchedulerInv

\* Every step keeps the variables in their types.
LEMMA SchedulerTypes == SchedulerInv /\ [Next]_vars => TypeOK'
<1> SUFFICES ASSUME SchedulerInv, [Next]_vars PROVE TypeOK'
  OBVIOUS
<1> USE DEF SchedulerInv, TypeOK, ScheduledStatus, Settled, PollerPc
<1>1. ASSUME NEW m \in Messages, maybe_schedule(m) \/ SendAtPasses(m) PROVE TypeOK'
  BY <1>1 DEF maybe_schedule, SendAtPasses, SetRow, poller
<1>2. ASSUME NEW c \in Clients, RequestStep(c) PROVE TypeOK'
  <2>1. ASSUME NEW m \in Messages, cancel_scheduled(c, m) PROVE TypeOK'
    BY <2>1 DEF cancel_scheduled, Serve, Request, poller
  <2>2. CASE cancel_pending(c)
    <3>1. req[c].msg \in Messages
      BY <2>2 DEF cancel_pending, Cancelled
    <3>2. req' \in [Clients -> Request]
      BY <2>2, <3>1 DEF cancel_pending, Serve, Answer, NoRequest, Request
    <3>3. rows' \in [Messages -> ScheduledStatus]
      BY <2>2 DEF cancel_pending, SetRow
    <3> QED
      BY <2>2, <3>2, <3>3 DEF cancel_pending, poller
  <2>3. CASE reread(c)
    <3>1. req[c].msg \in Messages
      BY <2>3 DEF reread, Cancelled
    <3> QED
      BY <2>3, <3>1 DEF reread, Answer, NoRequest, Request, poller
  <2>4. CASE AbortRequest(c)
    BY <2>4 DEF AbortRequest, Answer, NoRequest, Request, poller
  <2> QED
    BY <1>2, <2>1, <2>2, <2>3, <2>4 DEF RequestStep
<1>3. ASSUME NEW p \in Pollers, PollerStep(p) \/ TickFails(p) \/ Crash(p) PROVE TypeOK'
  <2> USE DEF GoTo, NextRow, EndTick, SetRow
  <2>1. CASE due_pending(p)
    BY <2>1 DEF due_pending, DuePending
  <2>2. CASE claim(p)
    <3>1. PICK m \in todo[p] :
            IF rows[m] = "pending"
            THEN /\ SetRow(m, "sending")
                 /\ cur' = [cur EXCEPT ![p] = m]
                 /\ todo' = [todo EXCEPT ![p] = @ \ {m}]
                 /\ GoTo(p, "dispatch")
            ELSE UNCHANGED rows /\ NextRow(p, todo[p] \ {m})
      BY <2>2 DEF claim
    <3>2. UNCHANGED <<due, req, dispatched, announced, acked, faults>>
      BY <2>2 DEF claim
    <3>3. m \in Messages /\ todo[p] \in SUBSET Messages
      OBVIOUS
    <3> QED
      BY <3>1, <3>2, <3>3
  <2>3. CASE dispatch(p)
    <3>1. cur[p] \in Messages
      BY <2>3 DEF dispatch, Claims
    <3> QED
      BY <2>3, <3>1 DEF dispatch
  <2>4. CASE mark_sent(p) \/ mark_failed(p)
    BY <2>4 DEF mark_sent, mark_failed, Settle
  <2>5. CASE announce(p)
    <3>1. announced' \in [Messages -> SUBSET Event]
      BY <2>5 DEF announce, Event
    <3> QED
      BY <2>5, <3>1 DEF announce
  <2>6. CASE TickFails(p)
    BY <2>6 DEF TickFails
  <2>7. CASE Crash(p)
    BY <2>7 DEF Crash
  <2> QED
    BY <1>3, <2>1, <2>2, <2>3, <2>4, <2>5, <2>6, <2>7 DEF PollerStep
<1>4. CASE UNCHANGED vars
  BY <1>4 DEF vars, poller
<1> QED
  BY <1>1, <1>2, <1>3, <1>4 DEF Next

\* A message enters the table, its time comes, and requests come and go: only
\* rows nobody has claimed are written.
LEMMA RequestKeeps ==
    ASSUME SchedulerInv, TypeOK',
           \/ \E m \in Messages : maybe_schedule(m) \/ SendAtPasses(m)
           \/ \E c \in Clients : RequestStep(c)
    PROVE  Claims' /\ Truth' /\ Unclaimed' /\ Cancelled'
<1> USE DEF SchedulerInv, TypeOK
<1>1. UNCHANGED <<ppc, todo, cur, dispatched, announced>>
  BY DEF maybe_schedule, SendAtPasses, RequestStep, cancel_scheduled, cancel_pending,
         reread, AbortRequest, poller
<1>2. \A m \in Messages : \/ rows'[m] = rows[m]
                          \/ rows[m] = "none" /\ rows'[m] = "pending"
                          \/ rows[m] = "pending" /\ rows'[m] = "cancelled"
  BY DEF maybe_schedule, SendAtPasses, RequestStep, cancel_scheduled, cancel_pending,
         reread, AbortRequest, SetRow
<1>3. Claims'
  BY <1>1, <1>2 DEF Claims, AtWork
<1>4. Truth' /\ Unclaimed'
  BY <1>1, <1>2 DEF Truth, DispatchedOnce, StatusIsTrue, AnnouncedTruly, Unclaimed
<1>5. Cancelled'
  <2>1. ASSUME NEW m \in Messages, maybe_schedule(m) \/ SendAtPasses(m)
        PROVE  Cancelled'
    BY <1>2, <2>1 DEF maybe_schedule, SendAtPasses, Cancelled
  <2>2. ASSUME NEW c \in Clients, RequestStep(c) PROVE Cancelled'
    <3>1. ASSUME NEW m \in Messages, cancel_scheduled(c, m) PROVE Cancelled'
      BY <3>1 DEF cancel_scheduled, Serve, Cancelled
    <3>2. CASE cancel_pending(c)
      BY <1>2, <3>2 DEF cancel_pending, SetRow, Serve, Answer, NoRequest, Cancelled
    <3>3. CASE reread(c)
      BY <3>3 DEF reread, Answer, NoRequest, Cancelled
    <3>4. CASE AbortRequest(c)
      BY <3>4 DEF AbortRequest, Answer, NoRequest, Cancelled
    <3> QED
      BY <2>2, <3>1, <3>2, <3>3, <3>4 DEF RequestStep
  <2> QED
    BY <2>1, <2>2
<1> QED
  BY <1>3, <1>4, <1>5

\* A poller writes the row it has just claimed, and no other.
LEMMA PollerKeeps ==
    ASSUME SchedulerInv, TypeOK', NEW p \in Pollers,
           PollerStep(p) \/ TickFails(p) \/ Crash(p)
    PROVE  Claims' /\ Truth' /\ Unclaimed' /\ Cancelled'
<1> USE DEF SchedulerInv, TypeOK
<1>1. CASE due_pending(p)
  BY <1>1 DEF due_pending, GoTo, Claims, AtWork, Truth, DispatchedOnce, StatusIsTrue,
              AnnouncedTruly, Unclaimed, Cancelled
<1>2. CASE claim(p)
  <2>1. PICK m \in todo[p] :
          IF rows[m] = "pending"
          THEN /\ SetRow(m, "sending")
               /\ cur' = [cur EXCEPT ![p] = m]
               /\ todo' = [todo EXCEPT ![p] = @ \ {m}]
               /\ GoTo(p, "dispatch")
          ELSE UNCHANGED rows /\ NextRow(p, todo[p] \ {m})
    BY <1>2 DEF claim
  <2>2. ppc[p] = "claim" /\ UNCHANGED <<due, req, dispatched, announced, acked, faults>>
    BY <1>2 DEF claim
  <2>3. m \in Messages /\ cur[p] = Nil
    BY <2>2 DEF Claims
  <2>4. CASE rows[m] = "pending"
    <3>1. /\ rows' = [rows EXCEPT ![m] = "sending"] /\ cur' = [cur EXCEPT ![p] = m]
          /\ ppc' = [ppc EXCEPT ![p] = "dispatch"]
      BY <2>1, <2>4 DEF SetRow, GoTo
    <3>2. dispatched[m] = 0 /\ announced[m] = {}
      BY <2>3, <2>4 DEF Truth, StatusIsTrue, Unclaimed
    <3>3. \A q \in Pollers : cur[q] # m
      BY <2>3, <2>4 DEF Claims, AtWork, PollerPc
    <3>4. Claims'
      <4>1. ASSUME NEW q \in Pollers
            PROVE  (IF ppc[q] \in {"idle", "claim"} THEN cur[q] = Nil
                    ELSE cur[q] \in Messages /\ AtWork(q, cur[q]))'
        BY <2>2, <2>3, <3>1, <3>2, <3>3 DEF Claims, AtWork
      <4>2. \A q, r \in Pollers : cur'[q] = cur'[r] /\ cur'[q] # Nil => q = r
        BY <3>1, <3>3 DEF Claims
      <4> QED
        BY <4>1, <4>2 DEF Claims
    <3>5. Truth' /\ Unclaimed'
      BY <2>2, <2>3, <3>1 DEF Truth, DispatchedOnce, StatusIsTrue, AnnouncedTruly, Unclaimed
    <3>6. Cancelled'
      BY <2>2, <2>3, <2>4, <3>1 DEF Cancelled
    <3> QED
      BY <3>4, <3>5, <3>6
  <2>5. CASE rows[m] # "pending"
    BY <2>1, <2>2, <2>3, <2>5 DEF NextRow, GoTo, Claims, AtWork, Truth, DispatchedOnce,
                 StatusIsTrue, AnnouncedTruly, Unclaimed, Cancelled
  <2> QED
    BY <2>4, <2>5
<1>3. CASE dispatch(p)
  <2>1. /\ ppc[p] = "dispatch" /\ cur[p] \in Messages /\ AtWork(p, cur[p])
        /\ UNCHANGED <<rows, req, cur, announced, acked>>
    BY <1>3 DEF dispatch, Claims
  <2>2. \/ /\ dispatched' = [dispatched EXCEPT ![cur[p]] = 1]
           /\ ppc' = [ppc EXCEPT ![p] = "markSent"]
        \/ ppc' = [ppc EXCEPT ![p] = "markFailed"] /\ UNCHANGED dispatched
    BY <1>3, <2>1 DEF dispatch, GoTo, AtWork
  <2>3. Claims'
    BY <2>1, <2>2 DEF Claims, AtWork
  <2>4. Truth' /\ Unclaimed' /\ Cancelled'
    BY <2>1, <2>2 DEF AtWork, Truth, DispatchedOnce, StatusIsTrue, AnnouncedTruly,
                      Unclaimed, Cancelled
  <2> QED
    BY <2>3, <2>4
<1>4. CASE mark_sent(p) \/ mark_failed(p)
  <2>1. /\ cur[p] \in Messages /\ AtWork(p, cur[p])
        /\ UNCHANGED <<req, cur, dispatched, announced, acked>>
    BY <1>4 DEF mark_sent, mark_failed, Settle, Claims
  <2>2. \/ /\ ppc[p] = "markSent" /\ ppc' = [ppc EXCEPT ![p] = "announceSent"]
           /\ rows' = [rows EXCEPT ![cur[p]] = "sent"] \/ UNCHANGED rows
        \/ /\ ppc[p] = "markFailed" /\ ppc' = [ppc EXCEPT ![p] = "announceFailed"]
           /\ rows' = [rows EXCEPT ![cur[p]] = "failed"] \/ UNCHANGED rows
    BY <1>4 DEF mark_sent, mark_failed, Settle, GoTo, SetRow
  <2>3. Claims'
    BY <2>1, <2>2 DEF Claims, AtWork
  <2>4. Truth' /\ Unclaimed' /\ Cancelled'
    BY <2>1, <2>2 DEF AtWork, Truth, DispatchedOnce, StatusIsTrue, AnnouncedTruly,
                      Unclaimed, Cancelled
  <2> QED
    BY <2>3, <2>4
<1>5. CASE announce(p)
  <2>1. /\ ppc[p] \in {"announceSent", "announceFailed"}
        /\ cur[p] \in Messages /\ AtWork(p, cur[p])
        /\ UNCHANGED <<rows, req, dispatched, acked>>
    BY <1>5 DEF announce, Claims
  <2>2. /\ announced' = [announced EXCEPT ![cur[p]] = @ \cup
             {IF ppc[p] = "announceSent" THEN "scheduled_sent" ELSE "scheduled_failed"}]
        /\ cur' = [cur EXCEPT ![p] = Nil]
        /\ \E to \in {"idle", "claim"} : ppc' = [ppc EXCEPT ![p] = to]
    BY <1>5 DEF announce, NextRow, GoTo
  <2>3. Claims'
    BY <2>1, <2>2 DEF Claims, AtWork
  <2>4. Truth' /\ Unclaimed' /\ Cancelled'
    BY <2>1, <2>2 DEF AtWork, Truth, DispatchedOnce, StatusIsTrue, AnnouncedTruly,
                      Unclaimed, Cancelled
  <2> QED
    BY <2>3, <2>4
<1>6. CASE TickFails(p)
  <2>1. /\ ppc[p] = "claim" /\ ppc' = [ppc EXCEPT ![p] = "idle"]
        /\ cur' = [cur EXCEPT ![p] = Nil]
        /\ UNCHANGED <<req, dispatched, announced, acked>>
    BY <1>6 DEF TickFails, EndTick, GoTo
  <2>2. \A m \in Messages : \/ rows'[m] = rows[m]
                            \/ rows[m] = "pending" /\ rows'[m] = "sending"
    BY <1>6 DEF TickFails, SetRow
  <2>3. Claims'
    BY <2>1, <2>2 DEF Claims, AtWork
  <2>4. Truth' /\ Unclaimed'
    BY <2>1, <2>2 DEF Truth, DispatchedOnce, StatusIsTrue, AnnouncedTruly, Unclaimed
  <2>5. Cancelled'
    BY <2>1, <2>2 DEF Cancelled
  <2> QED
    BY <2>3, <2>4, <2>5
<1>7. CASE Crash(p)
  BY <1>7 DEF Crash, EndTick, GoTo, Claims, AtWork, Truth, DispatchedOnce, StatusIsTrue,
              AnnouncedTruly, Unclaimed, Cancelled
<1> QED
  BY <1>1, <1>2, <1>3, <1>4, <1>5, <1>6, <1>7 DEF PollerStep

\* Every step keeps the invariant.
LEMMA SchedulerNext == SchedulerInv /\ [Next]_vars => SchedulerInv'
<1> SUFFICES ASSUME SchedulerInv, [Next]_vars PROVE SchedulerInv'
  OBVIOUS
<1>1. TypeOK'
  BY SchedulerTypes
<1>2. CASE UNCHANGED vars
  BY <1>2 DEF vars, poller, SchedulerInv, TypeOK, Claims, AtWork, Truth, DispatchedOnce,
              StatusIsTrue, AnnouncedTruly, Unclaimed, Cancelled
<1>3. CASE Next
  BY <1>1, <1>3, RequestKeeps, PollerKeeps DEF Next, SchedulerInv
<1> QED
  BY <1>2, <1>3

\* The invariant holds in every reachable state.
LEMMA SchedulerAlways == Spec => []SchedulerInv
BY SchedulerInit, SchedulerNext, PTL DEF Spec

\* schedule.rs, db/scheduled.rs: a scheduled message is dispatched once at most,
\* and table and webhooks say of it what happened to it.
THEOREM HistoryTrue == Spec => []HistoryIsTrue
<1>1. SchedulerInv => HistoryIsTrue
  BY DEF SchedulerInv, Truth, HistoryIsTrue
<1> QED
  BY <1>1, SchedulerAlways, PTL

\* db/scheduled.rs, cancel_pending: after a confirmed cancellation the message is
\* never sent, although pollers may have read it as due before.
THEOREM CancellationHolds == Spec => []CancelHolds
<1>1. SchedulerInv => CancelHolds
  BY DEF SchedulerInv, TypeOK, Cancelled, Truth, StatusIsTrue, Unclaimed, CancelHolds
<1> QED
  BY <1>1, SchedulerAlways, PTL
-----------------------------------------------------------------------------
(* Messages stranded in `sending` *)

Announcing == {"announceSent", "announceFailed"}

\* A `sending` row is lost when nobody will settle it any more: its poller is
\* gone, or has failed to settle it and goes on to announce it.
Lost ==
    {m \in Messages : /\ rows[m] = "sending"
                      /\ \A p \in Pollers : cur[p] = m => ppc[p] \in Announcing}

LostOK == IsFiniteSet(Lost) /\ Cardinality(Lost) <= faults

\* Only a row that was lost, or is lost in this step, is lost after it.
LEMMA LostStep ==
    ASSUME SchedulerInv, [Next]_vars
    PROVE  \/ faults' = faults /\ Lost' \subseteq Lost
           \/ faults' = faults + 1 /\ \E x : Lost' \subseteq Lost \cup {x}
<1> USE DEF SchedulerInv, TypeOK
<1>1. \* No poller moves, and no row becomes `sending`.
      ASSUME UNCHANGED <<poller, faults>>,
             \A m \in Messages : rows'[m] = "sending" => rows[m] = "sending"
      PROVE  faults' = faults /\ Lost' \subseteq Lost
  BY <1>1 DEF Lost, poller
<1>2. ASSUME NEW m \in Messages, maybe_schedule(m) \/ SendAtPasses(m)
      PROVE  faults' = faults /\ Lost' \subseteq Lost
  BY <1>1, <1>2 DEF maybe_schedule, SendAtPasses, SetRow
<1>3. ASSUME NEW c \in Clients, RequestStep(c)
      PROVE  faults' = faults /\ Lost' \subseteq Lost
  BY <1>1, <1>3 DEF RequestStep, cancel_scheduled, cancel_pending, reread, AbortRequest, SetRow
<1>4. CASE UNCHANGED vars
  BY <1>1, <1>4 DEF vars
<1>5. ASSUME NEW p \in Pollers, PollerStep(p) \/ TickFails(p) \/ Crash(p)
      PROVE  \/ faults' = faults /\ Lost' \subseteq Lost
             \/ faults' = faults + 1 /\ \E x : Lost' \subseteq Lost \cup {x}
  <2>0. /\ ppc[p] \in {"idle", "claim"} => cur[p] = Nil
        /\ \A m \in Messages : m # Nil
    BY DEF Claims
  <2>a. \* Only the poller p moves.
        /\ \A q \in Pollers \ {p} : cur'[q] = cur[q] /\ ppc'[q] = ppc[q]
        /\ faults' \in {faults, faults + 1}
    <3>1. CASE PollerStep(p)
      BY <3>1 DEF PollerStep, due_pending, claim, dispatch, mark_sent, mark_failed, announce,
         Settle, GoTo, NextRow
    <3>2. CASE TickFails(p) \/ Crash(p)
      BY <3>2 DEF TickFails, Crash, EndTick, GoTo
    <3> QED BY <1>5, <3>1, <3>2
  <2>b. \* What p held is the only row that its move can lose.
        ASSUME \A m \in Messages : rows'[m] = "sending" => rows[m] = "sending"
        PROVE  Lost' \subseteq Lost \cup {cur[p]}
    <3> SUFFICES ASSUME NEW m \in Lost', m # cur[p] PROVE m \in Lost
      OBVIOUS
    <3>1. m \in Messages /\ rows[m] = "sending"
      BY <2>b DEF Lost
    <3>2. \A q \in Pollers : cur[q] = m => ppc[q] \in Announcing
      BY <2>a DEF Lost
    <3> QED BY <3>1, <3>2 DEF Lost
  <2>c. \* Nor does it lose that while p has yet to settle it.
        ASSUME \A m \in Messages : rows'[m] = "sending" => rows[m] = "sending",
               \/ cur[p] = Nil
               \/ cur'[p] = cur[p] /\ ppc'[p] \notin Announcing
               \/ cur[p] \in Messages /\ rows'[cur[p]] # "sending"
               \/ ppc[p] \in Announcing
        PROVE  Lost' \subseteq Lost
    <3> SUFFICES ASSUME NEW m \in Lost' PROVE m \in Lost
      OBVIOUS
    <3>1. m \in Messages /\ rows[m] = "sending" /\ rows'[m] = "sending"
      BY <2>c DEF Lost
    <3>2. \A q \in Pollers : cur[q] = m => ppc[q] \in Announcing
      BY <2>0, <2>a, <2>c, <3>1 DEF Lost
    <3> QED BY <3>1, <3>2 DEF Lost
  <2>1. CASE due_pending(p)
    BY <2>0, <2>1, <2>c DEF due_pending
  <2>2. CASE claim(p)
    <3>1. PICK m \in todo[p] :
            IF rows[m] = "pending"
            THEN /\ SetRow(m, "sending")
                 /\ cur' = [cur EXCEPT ![p] = m]
                 /\ todo' = [todo EXCEPT ![p] = @ \ {m}]
                 /\ GoTo(p, "dispatch")
            ELSE UNCHANGED rows /\ NextRow(p, todo[p] \ {m})
      BY <2>2 DEF claim
    <3>2. faults' = faults /\ cur[p] = Nil
      BY <2>0, <2>2 DEF claim
    <3>3. CASE rows[m] = "pending"
      <4>1. m \notin Lost'
        <5>1. cur'[p] = m /\ ppc'[p] = "dispatch"
          BY <3>1, <3>3 DEF GoTo
        <5> QED BY <5>1 DEF Lost, Announcing
      <4>2. ASSUME NEW n \in Lost', n # m
            PROVE  n \in Lost
        <5>1. n \in Messages /\ rows[n] = "sending"
          BY <3>1, <3>3, <4>2 DEF Lost, SetRow
        <5>2. \A q \in Pollers : cur[q] = n => ppc[q] \in Announcing
          BY <2>a, <2>0, <3>2, <5>1 DEF Lost
        <5> QED BY <5>1, <5>2 DEF Lost
      <4> QED BY <3>2, <4>1, <4>2
    <3>4. CASE rows[m] # "pending"
      BY <2>c, <3>1, <3>2, <3>4
    <3> QED BY <3>3, <3>4
  <2>3. CASE dispatch(p)
    <3>1. UNCHANGED <<rows, cur, faults>> /\ ppc'[p] \in {"markSent", "markFailed"}
      BY <2>3 DEF dispatch, GoTo
    <3> QED BY <2>c, <3>1 DEF Announcing
  <2>4. ASSUME NEW s \in {"sent", "failed"}, NEW next, cur[p] \in Messages, Settle(p, s, next)
        PROVE  \/ faults' = faults /\ Lost' \subseteq Lost
               \/ faults' = faults + 1 /\ \E x : Lost' \subseteq Lost \cup {x}
    <3>1. CASE SetRow(cur[p], s) /\ UNCHANGED faults
      <4>1. /\ \A m \in Messages : rows'[m] = "sending" => rows[m] = "sending"
            /\ rows'[cur[p]] # "sending"
        BY <2>4, <3>1 DEF SetRow
      <4> QED BY <2>4, <2>c, <3>1, <4>1
    <3>2. CASE faults' = faults + 1 /\ UNCHANGED rows
      BY <2>b, <3>2
    <3> QED BY <2>4, <3>1, <3>2 DEF Settle
  <2>5. CASE mark_sent(p) \/ mark_failed(p)
    <3>1. cur[p] \in Messages
      BY <2>5 DEF mark_sent, mark_failed, Claims
    <3> QED BY <2>4, <2>5, <3>1 DEF mark_sent, mark_failed
  <2>6. CASE announce(p)
    BY <2>6, <2>c DEF announce, Announcing
  <2>7. CASE TickFails(p)
    <3>1. faults' = faults + 1 /\ cur[p] = Nil
      BY <2>0, <2>7 DEF TickFails
    <3>2. CASE UNCHANGED rows
      BY <2>b, <3>1, <3>2
    <3>3. ASSUME NEW m \in todo[p], SetRow(m, "sending")
          PROVE  Lost' \subseteq Lost \cup {m}
      <4> SUFFICES ASSUME NEW n \in Lost', n # m PROVE n \in Lost
        OBVIOUS
      <4>1. n \in Messages /\ rows[n] = "sending"
        BY <3>3 DEF Lost, SetRow
      <4>2. \A q \in Pollers : cur[q] = n => ppc[q] \in Announcing
        BY <2>a, <2>0, <3>1, <4>1 DEF Lost
      <4> QED BY <4>1, <4>2 DEF Lost
    <3> QED BY <2>7, <3>1, <3>2, <3>3 DEF TickFails
  <2>8. CASE Crash(p)
    BY <2>8, <2>b DEF Crash
  <2> QED
    BY <1>5, <2>1, <2>2, <2>3, <2>5, <2>6, <2>7, <2>8 DEF PollerStep
<1> QED
  BY <1>2, <1>3, <1>4, <1>5 DEF Next

\* Each lost row is paid for by a fault of its own.
LEMMA LostOKNext == SchedulerInv /\ LostOK /\ [Next]_vars => LostOK'
<1> SUFFICES ASSUME SchedulerInv, LostOK, [Next]_vars PROVE LostOK'
  OBVIOUS
<1>1. /\ IsFiniteSet(Lost) /\ Cardinality(Lost) <= faults
      /\ Cardinality(Lost) \in Nat /\ faults \in Nat
  BY FS_CardinalityType DEF LostOK, SchedulerInv, TypeOK
<1>2. CASE faults' = faults /\ Lost' \subseteq Lost
  <2>1. IsFiniteSet(Lost') /\ Cardinality(Lost') \in Nat /\ Cardinality(Lost') <= Cardinality(Lost)
    BY ONLY <1>1, <1>2, FS_Subset, FS_CardinalityType
  <2> QED BY ONLY <1>1, <1>2, <2>1 DEF LostOK
<1>3. ASSUME faults' = faults + 1, NEW x, Lost' \subseteq Lost \cup {x}
      PROVE  LostOK'
  <2>1. IsFiniteSet(Lost \cup {x}) /\ Cardinality(Lost \cup {x}) \in Nat
    BY ONLY <1>1, FS_AddElement, FS_CardinalityType
  <2>2. Cardinality(Lost \cup {x}) <= Cardinality(Lost) + 1
    BY ONLY <1>1, FS_AddElement
  <2>3. /\ IsFiniteSet(Lost') /\ Cardinality(Lost') \in Nat
        /\ Cardinality(Lost') <= Cardinality(Lost \cup {x})
    BY ONLY <1>3, <2>1, FS_Subset, FS_CardinalityType
  <2> QED BY ONLY <1>1, <1>3, <2>1, <2>2, <2>3 DEF LostOK
<1> QED BY <1>2, <1>3, LostStep

\* schedule.rs: a message left `sending` with nobody at work on it is paid for by
\* a failed statement or a death.
THEOREM Stranded == Spec => []OrphansAreFaults
<1>1. Init => LostOK
  <2> SUFFICES ASSUME Init PROVE LostOK
    OBVIOUS
  <2>1. Lost = {}
    BY DEF Init, Lost
  <2> QED BY <2>1, FS_EmptySet DEF Init, LostOK
<1>2. SchedulerInv /\ LostOK => OrphansAreFaults
  <2> SUFFICES ASSUME SchedulerInv, LostOK PROVE Cardinality(Orphans) <= faults
    BY DEF OrphansAreFaults
  <2>1. Orphans \subseteq Lost
    BY DEF Orphans, Holding, Lost
  <2>2. /\ IsFiniteSet(Orphans) /\ Cardinality(Orphans) <= Cardinality(Lost)
        /\ Cardinality(Orphans) \in Nat /\ Cardinality(Lost) \in Nat
    BY <2>1, FS_Subset, FS_CardinalityType DEF LostOK
  <2>3. Cardinality(Lost) <= faults /\ faults \in Nat
    BY DEF LostOK, SchedulerInv, TypeOK
  <2> QED BY ONLY <2>2, <2>3
<1> QED
  BY <1>1, <1>2, SchedulerInit, SchedulerNext, LostOKNext, PTL DEF Spec
-----------------------------------------------------------------------------
(* The promise of ParkedSends *)

Fate == [m \in Messages |-> FateOf(rows[m], dispatched[m])]

\* What a step may do to the row and the deliveries of the message m.
Parks(m)    == rows[m] = "none" /\ rows' = [rows EXCEPT ![m] = "pending"]
Revokes(m)  == rows[m] = "pending" /\ rows' = [rows EXCEPT ![m] = "cancelled"]
Takes(m)    == rows[m] = "pending" /\ rows' = [rows EXCEPT ![m] = "sending"]
Settles(m)  == rows[m] = "sending" /\ \E s \in {"sent", "failed"} : rows' = [rows EXCEPT ![m] = s]
Delivers(m) ==
    /\ rows[m] = "sending" /\ dispatched[m] = 0
    /\ dispatched' = [dispatched EXCEPT ![m] = 1]

Touches(m) ==
    \/ (Parks(m) \/ Revokes(m) \/ Takes(m) \/ Settles(m)) /\ UNCHANGED dispatched
    \/ Delivers(m) /\ UNCHANGED rows

\* A step touches one message at most, in one of these ways.
LEMMA OneIsTouched ==
    ASSUME SchedulerInv, [Next]_vars
    PROVE  UNCHANGED <<rows, dispatched>> \/ \E m \in Messages : Touches(m)
<1> DEFINE Goal == UNCHANGED <<rows, dispatched>> \/ \E m \in Messages : Touches(m)
<1> USE DEF SetRow, Touches
<1>1. ASSUME NEW m \in Messages, maybe_schedule(m) \/ SendAtPasses(m) PROVE Goal
  BY <1>1 DEF maybe_schedule, SendAtPasses, Parks
<1>2. ASSUME NEW c \in Clients, RequestStep(c) PROVE Goal
  BY <1>2 DEF RequestStep, cancel_scheduled, cancel_pending, reread, AbortRequest, Revokes,
              SchedulerInv, Cancelled
<1>3. ASSUME NEW p \in Pollers, PollerStep(p) \/ TickFails(p) \/ Crash(p) PROVE Goal
  <2>1. CASE due_pending(p) \/ announce(p) \/ Crash(p)
    BY <2>1 DEF due_pending, announce, Crash
  <2>2. CASE claim(p) \/ TickFails(p)
    BY <2>2 DEF claim, TickFails, Takes, SchedulerInv, TypeOK
  <2>3. CASE dispatch(p)
    BY <2>3 DEF dispatch, Delivers, SchedulerInv, TypeOK, Claims, AtWork
  <2>4. CASE mark_sent(p) \/ mark_failed(p)
    BY <2>4 DEF mark_sent, mark_failed, Settle, Settles, SchedulerInv, Claims, AtWork
  <2> QED
    BY <1>3, <2>1, <2>2, <2>3, <2>4 DEF PollerStep
<1>4. CASE UNCHANGED vars
  BY <1>4 DEF vars
<1> QED
  BY <1>1, <1>2, <1>3, <1>4 DEF Next

\* A step that touches m alone changes the fate of m alone.
LEMMA FateChanges ==
    ASSUME NEW m \in Messages, NEW to,
           \A n \in Messages \ {m} : rows'[n] = rows[n] /\ dispatched'[n] = dispatched[n],
           FateOf(rows'[m], dispatched'[m]) = to
    PROVE  Fate' = [Fate EXCEPT ![m] = to]
BY DEF Fate

\* Each way is a step of the promise or none.
LEMMA PromiseStep ==
    ASSUME SchedulerInv, [Next]_vars PROVE [Promise!Next]_Fate
<1> USE DEF SchedulerInv, TypeOK
<1>1. CASE UNCHANGED <<rows, dispatched>>
  BY <1>1 DEF Fate
<1>2. ASSUME NEW m \in Messages, Touches(m) PROVE [Promise!Next]_Fate
  <2>0. rows[m] \in {"none", "pending"} => dispatched[m] = 0
    BY DEF Truth, StatusIsTrue
  <2>1. CASE Parks(m) /\ UNCHANGED dispatched
    <3>1. Fate[m] = "absent" /\ FateOf(rows'[m], dispatched'[m]) = "parked"
      BY <2>0, <2>1 DEF Parks, Fate, FateOf
    <3>2. Fate' = [Fate EXCEPT ![m] = "parked"]
      BY <2>1, <3>1, FateChanges DEF Parks
    <3> QED
      BY <3>1, <3>2 DEF Promise!Next, Promise!Park, Promise!Becomes, Fate
  <2>2. CASE Revokes(m) /\ UNCHANGED dispatched
    <3>1. Fate[m] = "parked" /\ FateOf(rows'[m], dispatched'[m]) = "revoked"
      BY <2>0, <2>2 DEF Revokes, Fate, FateOf
    <3>2. Fate' = [Fate EXCEPT ![m] = "revoked"]
      BY <2>2, <3>1, FateChanges DEF Revokes
    <3> QED
      BY <3>1, <3>2 DEF Promise!Next, Promise!Revoke, Promise!Becomes, Fate
  <2>3. CASE Takes(m) /\ UNCHANGED dispatched
    <3>1. Fate[m] = "parked" /\ FateOf(rows'[m], dispatched'[m]) = "taken"
      BY <2>0, <2>3 DEF Takes, Fate, FateOf
    <3>2. Fate' = [Fate EXCEPT ![m] = "taken"]
      BY <2>3, <3>1, FateChanges DEF Takes
    <3> QED
      BY <3>1, <3>2 DEF Promise!Next, Promise!Take, Promise!Becomes, Fate
  <2>4. CASE Settles(m) /\ UNCHANGED dispatched
    BY <2>4 DEF Settles, Fate, FateOf
  <2>5. CASE Delivers(m) /\ UNCHANGED rows
    <3>1. Fate[m] = "taken" /\ FateOf(rows'[m], dispatched'[m]) = "delivered"
      BY <2>5 DEF Delivers, Fate, FateOf
    <3>2. Fate' = [Fate EXCEPT ![m] = "delivered"]
      BY <2>5, <3>1, FateChanges DEF Delivers
    <3> QED
      BY <3>1, <3>2 DEF Promise!Next, Promise!Deliver, Promise!Becomes, Fate
  <2> QED
    BY <1>2, <2>1, <2>2, <2>3, <2>4, <2>5 DEF Touches
<1> QED
  BY <1>1, <1>2, OneIsTouched

\* Whatever pollers, cancel requests and faults do, each message is revoked or
\* taken once and for all, and delivered at most once.
THEOREM SchedulerKeepsPromise == Spec => KeepsPromise
<1>1. Init => Promise!Init
  BY DEF Init, Promise!Init, FateOf
<1>2. SchedulerInv /\ [Next]_vars => [Promise!Next]_Fate
  BY PromiseStep
<1> QED
  BY <1>1, <1>2, SchedulerAlways, PTL DEF Spec, KeepsPromise, Promise!Spec, Fate
=============================================================================
