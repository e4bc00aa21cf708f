----------------------- MODULE WebhookDeliveryProofs -----------------------
(* Proofs about WebhookDelivery, for any number of events, webhooks, sessions *)
(* and URLs, any capacity of the ring and any thresholds: dead letters are    *)
(* kept, a URL is disabled for a true streak of failures, and what becomes of *)
(* an event is what WebhookPromise allows.                                    *)
EXTENDS WebhookDelivery, SequenceTheorems, TLAPS

-----------------------------------------------------------------------------
(* Sequences without duplicates *)

Uniq(s) == \A i, j \in 1..Len(s) : s[i] = s[j] => i = j

LEMMA Pushed ==
    ASSUME NEW S, NEW s \in Seq(S), NEW d \in S, Uniq(s), ~Contains(s, d)
    PROVE  LET t == Append(s, d)
           IN  /\ t \in Seq(S) /\ Len(t) = Len(s) + 1 /\ Uniq(t)
               /\ \A x \in S : Contains(t, x) <=> Contains(s, x) \/ x = d
<1> DEFINE t == Append(s, d)
<1>1. t \in Seq(S) /\ Len(t) = Len(s) + 1
  OBVIOUS
<1>2. t[Len(s) + 1] = d /\ \A i \in 1..Len(s) : t[i] = s[i]
  OBVIOUS
<1>3. Len(s) \in Nat
  OBVIOUS
<1> HIDE DEF t
<1>4. Uniq(t)
  BY <1>1, <1>2, <1>3 DEF Uniq, Contains
<1>5. \A x \in S : Contains(t, x) <=> Contains(s, x) \/ x = d
  BY <1>1, <1>2, <1>3 DEF Contains
<1> QED
  BY <1>1, <1>4, <1>5 DEF t

LEMMA Popped ==
    ASSUME NEW S, NEW s \in Seq(S), Uniq(s), s # << >>
    PROVE  /\ Tail(s) \in Seq(S) /\ Len(Tail(s)) = Len(s) - 1 /\ Uniq(Tail(s)) /\ Head(s) \in S
           /\ Contains(s, Head(s))
           /\ \A x \in S : Contains(Tail(s), x) <=> Contains(s, x) /\ x # Head(s)
<1> DEFINE t == Tail(s)
<1>1. t \in Seq(S) /\ Len(t) = Len(s) - 1 /\ Len(s) \in Nat /\ Len(s) > 0
  OBVIOUS
<1>2. Head(s) = s[1] /\ Head(s) \in S /\ \A i \in 1..Len(t) : t[i] = s[i + 1]
  OBVIOUS
<1> HIDE DEF t
<1>3. Uniq(t)
  BY <1>1, <1>2 DEF Uniq
<1>4. ASSUME NEW x \in S PROVE Contains(t, x) <=> Contains(s, x) /\ x # Head(s)
  <2>1. ASSUME Contains(t, x) PROVE Contains(s, x) /\ x # Head(s)
    <3>1. PICK i \in 1..Len(t) : t[i] = x
      BY <2>1 DEF Contains
    <3>2. i + 1 \in 1..Len(s) /\ s[i + 1] = x /\ 1 \in 1..Len(s) /\ i + 1 # 1
      BY <1>1, <1>2, <3>1
    <3> QED
      BY <1>2, <3>2 DEF Contains, Uniq
  <2>2. ASSUME Contains(s, x), x # Head(s) PROVE Contains(t, x)
    <3>1. PICK i \in 1..Len(s) : s[i] = x
      BY <2>2 DEF Contains
    <3>2. i # 1 /\ i - 1 \in 1..Len(t) /\ i - 1 + 1 = i
      BY <1>1, <1>2, <2>2, <3>1
    <3>3. t[i - 1] = x
      BY <1>2, <3>1, <3>2
    <3> QED
      BY <3>2, <3>3 DEF Contains
  <2> QED
    BY <2>1, <2>2
<1>5. Contains(s, Head(s))
  BY <1>1, <1>2 DEF Contains
<1> QED
  BY <1>1, <1>2, <1>3, <1>4, <1>5 DEF t

LEMMA Removed ==
    ASSUME NEW S, NEW s \in Seq(S), Uniq(s), NEW i \in 1..Len(s)
    PROVE  LET t == RemoveAt(s, i)
           IN  /\ t \in Seq(S) /\ Len(t) = Len(s) - 1 /\ Uniq(t)
               /\ \A x \in S : Contains(t, x) <=> Contains(s, x) /\ x # s[i]
<1> DEFINE t == RemoveAt(s, i)
           a == SubSeq(s, 1, i - 1)
           b == SubSeq(s, i + 1, Len(s))
<1>0. Len(s) \in Nat /\ i \in Nat /\ 1 <= i /\ i <= Len(s)
  OBVIOUS
<1>1. /\ a \in Seq(S) /\ Len(a) = i - 1 /\ \A j \in 1..(i - 1) : a[j] = s[j]
      /\ b \in Seq(S) /\ Len(b) = Len(s) - i /\ \A j \in 1..(Len(s) - i) : b[j] = s[i + j]
  OBVIOUS
<1>2. t = a \o b
  BY DEF RemoveAt
<1> HIDE DEF a, b, t
<1>3. t \in Seq(S) /\ Len(t) = Len(s) - 1
  <2>1. t \in Seq(S) /\ Len(t) = Len(a) + Len(b)
    BY ONLY <1>1, <1>2, ConcatProperties
  <2> QED
    BY <1>0, <1>1, <2>1
<1>4. ASSUME NEW j \in 1..Len(t) PROVE t[j] = IF j < i THEN s[j] ELSE s[j + 1]
  <2>1. CASE j < i
    BY <1>0, <1>1, <1>2, <1>3, <2>1
  <2>2. CASE j >= i
    <3>1. t[j] = b[j - (i - 1)] /\ j - (i - 1) \in 1..(Len(s) - i)
      BY <1>0, <1>1, <1>2, <1>3, <2>2
    <3>2. i + (j - (i - 1)) = j + 1
      BY <1>0, <1>3
    <3> QED
      BY <1>0, <1>1, <1>3, <2>2, <3>1, <3>2
  <2> QED
    BY <1>0, <1>3, <2>1, <2>2
<1>5. Uniq(t)
  <2> SUFFICES ASSUME NEW j \in 1..Len(t), NEW k \in 1..Len(t), t[j] = t[k] PROVE j = k
    BY DEF Uniq
  <2>1. /\ j \in Nat /\ k \in Nat /\ (IF j < i THEN j ELSE j + 1) \in 1..Len(s)
        /\ (IF k < i THEN k ELSE k + 1) \in 1..Len(s)
    BY <1>0, <1>3
  <2>2. (IF j < i THEN j ELSE j + 1) = (IF k < i THEN k ELSE k + 1)
    BY <1>4, <2>1 DEF Uniq
  <2> QED
    BY <1>0, <2>1, <2>2
<1>6. ASSUME NEW x \in S PROVE Contains(t, x) <=> Contains(s, x) /\ x # s[i]
  <2>1. ASSUME Contains(t, x) PROVE Contains(s, x) /\ x # s[i]
    <3>1. PICK j \in 1..Len(t) : t[j] = x
      BY <2>1 DEF Contains
    <3> DEFINE k == IF j < i THEN j ELSE j + 1
    <3>2. k \in 1..Len(s) /\ k # i /\ s[k] = x
      BY <1>0, <1>3, <1>4, <3>1
    <3> QED
      BY <3>2 DEF Contains, Uniq
  <2>2. ASSUME Contains(s, x), x # s[i] PROVE Contains(t, x)
    <3>1. PICK j \in 1..Len(s) : s[j] = x
      BY <2>2 DEF Contains
    <3> DEFINE k == IF j < i THEN j ELSE j - 1
    <3>2. j # i /\ k \in 1..Len(t) /\ (IF k < i THEN k ELSE k + 1) = j
      BY <1>0, <1>3, <2>2, <3>1
    <3>3. t[k] = x
      BY <1>4, <3>1, <3>2
    <3> QED
      BY <3>2, <3>3 DEF Contains
  <2> QED
    BY <2>1, <2>2
<1> QED
  BY <1>3, <1>5, <1>6 DEF t

-----------------------------------------------------------------------------
(* The inductive invariant *)

\* The durable copy also outlives a replay, which may put its entry back.
Durable ==
    \A d \in Deliveries :
      pc[d] \in {"dead", "replay"} /\ Session(d) \notin deleting \cup deleted
      => d \in table \cup inserting \cup unrecorded

\* What the receiver answered with success is never sent again.
Once == \A d \in received : pc[d] = "delivered"

\* The count of a circuit is no more than the failures the outcomes end with.
Streak(n, o) ==
    /\ o \in Seq({"ok", "fail"}) /\ Len(o) <= HardDisableThreshold /\ n <= Len(o)
    /\ \A i \in 1..Len(o) : i > Len(o) - n => o[i] = "fail"
Streaks == \A u \in Urls : Streak(circuit[u].failures, outcomes[u])

OutcomesTyped == outcomes \in [Urls -> Seq({"ok", "fail"})]

WebhookInv == TypeOK /\ OutcomesTyped /\ OneCopy /\ RingIsBounded /\ Durable /\ Once /\ Streaks

-----------------------------------------------------------------------------
(* The outcomes of a URL *)

LEMMA Longer ==
    ASSUME NEW n \in Nat, NEW o, Streak(n, o), NEW x \in {"ok", "fail"}
    PROVE  LET t == LastOutcomes(o, x)
               m == IF n < HardDisableThreshold THEN n + 1 ELSE HardDisableThreshold
           IN  Streak(0, t) /\ (x = "fail" => Streak(m, t))
<1> DEFINE S == {"ok", "fail"}
           a == Append(o, x)
           t == LastOutcomes(o, x)
           H == HardDisableThreshold
           m == IF n < H THEN n + 1 ELSE H
<1>1. /\ H \in Nat /\ H > 0 /\ o \in Seq(S) /\ Len(o) \in Nat /\ Len(o) <= H /\ n <= Len(o)
      /\ \A i \in 1..Len(o) : i > Len(o) - n => o[i] = "fail"
  BY WebhookAssumption DEF Streak
<1>2. /\ a \in Seq(S) /\ Len(a) = Len(o) + 1 /\ a[Len(o) + 1] = x
      /\ \A i \in 1..Len(o) : a[i] = o[i]
  BY <1>1
<1>3. t = IF Len(a) > H THEN Tail(a) ELSE a
  BY DEF LastOutcomes
<1> HIDE DEF a, t, S
<1>4. CASE Len(a) <= H
  <2>1. t = a
    BY <1>1, <1>2, <1>3, <1>4
  <2>2. x = "fail" => m = n + 1 /\ \A i \in 1..Len(a) : i > Len(a) - m => a[i] = "fail"
    BY <1>1, <1>2, <1>4
  <2>3. a \in Seq({"ok", "fail"})
    BY <1>2 DEF S
  <2>4. Streak(0, t)
    BY <1>1, <1>2, <1>4, <2>1, <2>3 DEF Streak
  <2>5. ASSUME x = "fail" PROVE Streak(m, t)
    BY <1>1, <1>2, <1>4, <2>1, <2>2, <2>3, <2>5 DEF Streak
  <2> QED
    BY <2>4, <2>5 DEF t
<1>5. CASE Len(a) > H
  <2>1. Len(o) = H /\ Len(a) = H + 1 /\ a # << >>
    BY <1>1, <1>2, <1>5
  <2>2. /\ t \in Seq(S) /\ Len(t) = H
        /\ \A i \in 1..H : t[i] = a[i + 1]
    BY <1>1, <1>2, <1>3, <1>5, <2>1
  <2>3. t \in Seq({"ok", "fail"})
    BY <2>2 DEF S
  <2>4. x = "fail" => \A i \in 1..Len(t) : i > Len(t) - m => t[i] = "fail"
    BY <1>1, <1>2, <2>1, <2>2
  <2>5. Streak(0, t)
    BY <1>1, <2>2, <2>3 DEF Streak
  <2>6. ASSUME x = "fail" PROVE Streak(m, t)
    BY <1>1, <2>2, <2>3, <2>4, <2>6 DEF Streak
  <2> QED
    BY <2>5, <2>6 DEF t
<1> QED
  BY <1>1, <1>2, <1>4, <1>5

-----------------------------------------------------------------------------
(* Types *)

Opened == {"no", "open", "over"}
Circuits == [failures : 0..HardDisableThreshold, opened : Opened]

LEMMA ClosedTyped == Closed \in Circuits
BY WebhookAssumption DEF Closed, Circuits, Opened

LEMMA OfDelivery ==
    ASSUME NEW d \in Deliveries
    PROVE  d[2] \in Hooks /\ Url(d) \in Urls /\ Session(d) \in Sessions
BY WebhookAssumption DEF Deliveries, Url, Session

LEMMA Shapes ==
    ASSUME TypeOK
    PROVE  /\ registered \subseteq Hooks /\ circuit \in [Urls -> Circuits]
           /\ pc \in [Deliveries -> Pc] /\ attempt \in [Deliveries -> 0..(MaxAttempts - 1)]
           /\ ring \in [Sessions -> Seq(Deliveries)]
           /\ inserting \subseteq Deliveries /\ table \subseteq Deliveries
           /\ received \subseteq Deliveries /\ gone \subseteq Deliveries
           /\ unrecorded \subseteq Deliveries
           /\ deleting \subseteq Sessions /\ deleted \subseteq Sessions
           /\ faults \in 0..MaxFaults
BY DEF TypeOK, Circuits, Opened

LEMMA Reset ==
    ASSUME TypeOK, NEW u \in Urls
    PROVE  /\ [circuit EXCEPT ![u] = Closed] \in [Urls -> Circuits]
           /\ \A o \in Opened : [circuit EXCEPT ![u].opened = o] \in [Urls -> Circuits]
<1>1. circuit \in [Urls -> Circuits]
  BY Shapes
<1>2. \A o \in Opened : [circuit[u] EXCEPT !.opened = o] \in Circuits
  BY <1>1 DEF Circuits
<1> QED
  BY <1>1, <1>2, ClosedTyped

LEMMA Moved ==
    ASSUME TypeOK, NEW d \in Deliveries, NEW x \in Pc, GoTo(d, x)
    PROVE  /\ pc' \in [Deliveries -> Pc] /\ pc'[d] = x
           /\ \A y \in Deliveries : y # d => pc'[y] = pc[y]
BY Shapes DEF GoTo

LEMMA Counted ==
    ASSUME TypeOK, NEW d \in Deliveries
    PROVE  /\ [attempt EXCEPT ![d] = 0] \in [Deliveries -> 0..(MaxAttempts - 1)]
           /\ attempt[d] + 1 < MaxAttempts
              => [attempt EXCEPT ![d] = @ + 1] \in [Deliveries -> 0..(MaxAttempts - 1)]
<1>1. attempt \in [Deliveries -> 0..(MaxAttempts - 1)] /\ MaxAttempts \in Nat \ {0}
  BY Shapes, WebhookAssumption
<1>2. 0 \in 0..(MaxAttempts - 1) /\ attempt[d] \in Nat
  BY <1>1
<1> QED
  BY <1>1, <1>2

-----------------------------------------------------------------------------
(* The ring *)

\* A delivery that is in no ring enters its own, as the newest.
LEMMA Push ==
    ASSUME TypeOK, OneCopy, RingIsBounded, NEW d \in Deliveries, pc[d] # "dead",
           webhook_dlq_push(d), GoTo(d, "dead")
    PROVE  /\ ring' \in [Sessions -> Seq(Deliveries)] /\ gone' \subseteq Deliveries
           /\ OneCopy' /\ RingIsBounded'
           /\ \/ gone' = gone \ {d}
              \/ \E x \in Deliveries \ {d} : /\ pc[x] = "dead" /\ x \notin gone
                                             /\ gone' = (gone \ {d}) \cup {x}
<1> DEFINE s == Session(d)
           full == Len(ring[s]) >= Capacity
           base == IF full THEN Tail(ring[s]) ELSE ring[s]
           t == Append(base, d)
<1>1. /\ ring \in [Sessions -> Seq(Deliveries)] /\ gone \subseteq Deliveries /\ s \in Sessions
      /\ Capacity \in Nat /\ Capacity > 0 /\ ring[s] \in Seq(Deliveries)
  BY Shapes, OfDelivery, WebhookAssumption
<1>2. /\ Uniq(ring[s]) /\ Len(ring[s]) \in Nat /\ Len(ring[s]) <= Capacity
      /\ \A x \in Deliveries : Contains(ring[s], x) <=> s = Session(x) /\ pc[x] = "dead" /\ x \notin gone
  BY <1>1 DEF OneCopy, RingIsBounded, Uniq
<1>3. /\ pc'[d] = "dead" /\ \A x \in Deliveries : x # d => pc'[x] = pc[x]
  BY Moved DEF Pc
<1>4. /\ ring' = [ring EXCEPT ![s] = t]
      /\ gone' = (gone \ {d}) \cup IF full THEN {Head(ring[s])} ELSE {}
  BY DEF webhook_dlq_push
<1>5. /\ base \in Seq(Deliveries) /\ Uniq(base) /\ Len(base) \in Nat /\ Len(base) + 1 <= Capacity
      /\ full => Head(ring[s]) \in Deliveries /\ Contains(ring[s], Head(ring[s]))
      /\ \A x \in Deliveries : Contains(base, x) <=> Contains(ring[s], x) /\ (full => x # Head(ring[s]))
  <2>1. CASE full
    <3>1. ring[s] # << >> /\ Len(ring[s]) = Capacity
      BY <1>1, <1>2, <2>1
    <3>2. /\ Tail(ring[s]) \in Seq(Deliveries) /\ Len(Tail(ring[s])) = Len(ring[s]) - 1
          /\ Uniq(Tail(ring[s])) /\ Head(ring[s]) \in Deliveries
          /\ Contains(ring[s], Head(ring[s]))
          /\ \A x \in Deliveries :
               Contains(Tail(ring[s]), x) <=> Contains(ring[s], x) /\ x # Head(ring[s])
      BY ONLY <1>1, <1>2, <3>1, Popped
    <3> QED
      BY <1>1, <2>1, <3>1, <3>2
  <2>2. CASE ~full
    BY <1>1, <1>2, <2>2
  <2> QED
    BY <2>1, <2>2
<1> HIDE DEF base, full, s
<1>6. ~Contains(base, d)
  BY <1>2, <1>5
<1>7. /\ t \in Seq(Deliveries) /\ Len(t) = Len(base) + 1 /\ Uniq(t)
      /\ \A x \in Deliveries : Contains(t, x) <=> Contains(base, x) \/ x = d
  BY ONLY <1>5, <1>6, Pushed, d \in Deliveries
<1> HIDE DEF t
<1>8. ring' \in [Sessions -> Seq(Deliveries)] /\ gone' \subseteq Deliveries
  BY <1>1, <1>4, <1>5, <1>7
<1>9. RingIsBounded'
  BY <1>1, <1>4, <1>5, <1>7 DEF RingIsBounded
<1>10. OneCopy'
  <2>1. ASSUME NEW r \in Sessions
        PROVE  /\ Uniq(ring'[r])
               /\ \A x \in Deliveries :
                    Contains(ring'[r], x) <=> r = Session(x) /\ pc'[x] = "dead" /\ x \notin gone'
    <3>1. CASE r = s
      <4>1. ring'[r] = t
        BY <1>1, <1>4, <3>1
      <4>2. ASSUME NEW x \in Deliveries
            PROVE  Contains(t, x) <=> s = Session(x) /\ pc'[x] = "dead" /\ x \notin gone'
        <5>1. CASE x = d
          <6>1. d \notin gone'
            BY <1>2, <1>4, <1>5
          <6> QED
            BY <1>3, <1>7, <5>1, <6>1 DEF s
        <5>2. CASE x # d
          BY <1>2, <1>3, <1>4, <1>5, <1>7, <5>2
        <5> QED
          BY <5>1, <5>2
      <4> QED
        BY <1>7, <3>1, <4>1, <4>2
    <3>2. CASE r # s
      <4>1. ring'[r] = ring[r]
        BY <1>1, <1>4, <3>2
      <4>2. /\ Uniq(ring[r])
            /\ \A x \in Deliveries : Contains(ring[r], x) <=> r = Session(x) /\ pc[x] = "dead" /\ x \notin gone
        BY DEF OneCopy, Uniq
      <4>3. ASSUME NEW x \in Deliveries, r = Session(x)
            PROVE  x # d /\ pc'[x] = pc[x] /\ (x \in gone' <=> x \in gone)
        <5>1. x # d
          BY <3>2, <4>3 DEF s
        <5>2. full => x # Head(ring[s])
          BY <1>2, <1>5, <3>2, <4>3
        <5> QED
          BY <1>3, <1>4, <5>1, <5>2
      <4> QED
        BY <4>1, <4>2, <4>3
    <3> QED
      BY <3>1, <3>2
  <2> QED
    BY <2>1 DEF OneCopy, Uniq
<1>11. \/ gone' = gone \ {d}
       \/ \E x \in Deliveries \ {d} : /\ pc[x] = "dead" /\ x \notin gone
                                      /\ gone' = (gone \ {d}) \cup {x}
  <2>1. CASE full
    <3>1. /\ Head(ring[s]) \in Deliveries /\ pc[Head(ring[s])] = "dead"
          /\ Head(ring[s]) \notin gone
      BY <1>2, <1>5, <2>1
    <3> QED
      BY <1>4, <2>1, <3>1
  <2>2. CASE ~full
    BY <1>4, <2>2
  <2> QED
    BY <2>1, <2>2
<1> QED
  BY <1>8, <1>9, <1>10, <1>11

\* Nothing dies, revives or moves in a ring: nothing to show.
LEMMA RingsAlone ==
    ASSUME OneCopy, RingIsBounded, UNCHANGED <<ring, gone>>,
           \A x \in Deliveries : pc'[x] = "dead" <=> pc[x] = "dead"
    PROVE  OneCopy' /\ RingIsBounded'
BY DEF OneCopy, RingIsBounded

LEMMA Taken ==
    ASSUME TypeOK, OneCopy, RingIsBounded, NEW d \in Deliveries, webhook_dlq_take(d)
    PROVE  ring' \in [Sessions -> Seq(Deliveries)] /\ OneCopy' /\ RingIsBounded' /\ d \notin gone
<1> DEFINE s == Session(d)
<1>1. PICK pos \in 1..Len(ring[s]) :
        ring[s][pos] = d /\ ring' = [ring EXCEPT ![s] = RemoveAt(@, pos)]
  BY DEF webhook_dlq_take
<1> DEFINE t == RemoveAt(ring[s], pos)
<1>2. /\ ring \in [Sessions -> Seq(Deliveries)] /\ s \in Sessions /\ Capacity \in Nat
      /\ ring[s] \in Seq(Deliveries)
  BY Shapes, OfDelivery, WebhookAssumption
<1>3. /\ Uniq(ring[s]) /\ Len(ring[s]) \in Nat /\ Len(ring[s]) <= Capacity
      /\ \A x \in Deliveries : Contains(ring[s], x) <=> s = Session(x) /\ pc[x] = "dead" /\ x \notin gone
  BY <1>2 DEF OneCopy, RingIsBounded, Uniq
<1>4. /\ t \in Seq(Deliveries) /\ Len(t) = Len(ring[s]) - 1 /\ Uniq(t)
      /\ \A x \in Deliveries : Contains(t, x) <=> Contains(ring[s], x) /\ x # ring[s][pos]
  BY ONLY <1>2, <1>3, pos \in 1..Len(ring[s]), Removed
<1>5. /\ pc'[d] = "replay" /\ \A x \in Deliveries : x # d => pc'[x] = pc[x]
  BY Moved DEF Pc, webhook_dlq_take
<1>6. gone' = gone
  BY DEF webhook_dlq_take, ghost
<1>7. d \notin gone
  BY <1>1, <1>3 DEF Contains
<1>8. ring' = [ring EXCEPT ![s] = t]
  BY <1>1
<1>s. s = Session(d)
  OBVIOUS
<1> HIDE DEF s, t
<1>9. ring' \in [Sessions -> Seq(Deliveries)] /\ RingIsBounded'
  BY <1>2, <1>3, <1>4, <1>8 DEF RingIsBounded
<1>10. ASSUME NEW r \in Sessions
       PROVE  /\ Uniq(ring'[r])
              /\ \A x \in Deliveries :
                   Contains(ring'[r], x) <=> r = Session(x) /\ pc'[x] = "dead" /\ x \notin gone'
  <2>1. CASE r = s
    <3>1. ring'[r] = t
      BY <1>2, <1>8, <2>1
    <3>2. ASSUME NEW x \in Deliveries
          PROVE  Contains(t, x) <=> s = Session(x) /\ pc'[x] = "dead" /\ x \notin gone'
      BY <1>1, <1>3, <1>4, <1>5, <1>6
    <3> QED
      BY <1>4, <2>1, <3>1, <3>2
  <2>2. CASE r # s
    <3>1. ring'[r] = ring[r]
      BY <1>2, <1>8, <2>2
    <3>2. /\ Uniq(ring[r])
          /\ \A x \in Deliveries : Contains(ring[r], x) <=> r = Session(x) /\ pc[x] = "dead" /\ x \notin gone
      BY DEF OneCopy, Uniq
    <3>3. \A x \in Deliveries : r = Session(x) => x # d /\ pc'[x] = pc[x]
      BY <1>5, <1>s, <2>2
    <3> QED
      BY <1>6, <3>1, <3>2, <3>3
  <2> QED
    BY <2>1, <2>2
<1>11. OneCopy'
  BY <1>10 DEF OneCopy, Uniq
<1> QED
  BY <1>7, <1>9, <1>11

LEMMA Nothing ==
    /\ << >> \in Seq(Deliveries) /\ Len(<< >>) = 0 /\ Uniq(<< >>)
    /\ \A x \in Deliveries : ~Contains(<< >>, x)
BY DEF Uniq, Contains

LEMMA Purged ==
    ASSUME TypeOK, OneCopy, RingIsBounded, NEW s \in Sessions, purge_webhooks_for_session(s)
    PROVE  /\ ring' \in [Sessions -> Seq(Deliveries)] /\ gone' \subseteq Deliveries
           /\ OneCopy' /\ RingIsBounded'
<1>1. /\ ring \in [Sessions -> Seq(Deliveries)] /\ Capacity \in Nat /\ gone \subseteq Deliveries
      /\ ring' = [ring EXCEPT ![s] = << >>] /\ pc' = pc
      /\ gone' = gone \cup {d \in Deliveries : Contains(ring[s], d)}
  BY Shapes, WebhookAssumption DEF purge_webhooks_for_session, tasks
<1>2. ring' \in [Sessions -> Seq(Deliveries)] /\ RingIsBounded'
  BY <1>1, Nothing DEF RingIsBounded
<1>3. ASSUME NEW r \in Sessions
      PROVE  /\ Uniq(ring'[r])
             /\ \A x \in Deliveries :
                  Contains(ring'[r], x) <=> r = Session(x) /\ pc'[x] = "dead" /\ x \notin gone'
  <2>1. /\ Uniq(ring[r])
        /\ \A x \in Deliveries : /\ Contains(ring[r], x) <=> r = Session(x) /\ pc[x] = "dead" /\ x \notin gone
                                 /\ Contains(ring[s], x) <=> s = Session(x) /\ pc[x] = "dead" /\ x \notin gone
    BY DEF OneCopy, Uniq
  <2>2. CASE r = s
    <3>1. ring'[r] = << >>
      BY <1>1, <2>2
    <3> QED
      BY <1>1, <2>1, <2>2, <3>1, Nothing
  <2>3. CASE r # s
    <3>1. ring'[r] = ring[r]
      BY <1>1, <2>3
    <3> QED
      BY <1>1, <2>1, <2>3, <3>1
  <2> QED
    BY <2>2, <2>3
<1>4. OneCopy'
  BY <1>3 DEF OneCopy, Uniq
<1> QED
  BY <1>1, <1>2, <1>4

LEMMA Crashed ==
    ASSUME TypeOK, OneCopy, RingIsBounded, Crash
    PROVE  /\ ring' \in [Sessions -> Seq(Deliveries)] /\ gone' \subseteq Deliveries
           /\ pc' \in [Deliveries -> Pc] /\ unrecorded' \subseteq Deliveries
           /\ OneCopy' /\ RingIsBounded'
<1> DEFINE lost == {d \in Deliveries : pc[d] \notin {"none", "skipped", "delivered"}}
<1>1. /\ ring' = [s \in Sessions |-> << >>] /\ gone' = gone \cup lost
      /\ pc' = [d \in Deliveries |-> IF d \in lost THEN "dead" ELSE pc[d]]
      /\ unrecorded' = unrecorded \cup (lost \ table)
      /\ gone \subseteq Deliveries /\ unrecorded \subseteq Deliveries
      /\ pc \in [Deliveries -> Pc] /\ Capacity \in Nat
  BY Shapes, WebhookAssumption DEF Crash
<1>2. \A x \in Deliveries : pc'[x] = "dead" => x \in gone'
  BY <1>1
<1>3. \A s \in Sessions : ring'[s] = << >>
  BY <1>1
<1>4. pc' \in [Deliveries -> Pc]
  BY <1>1 DEF Pc
<1>5. RingIsBounded' /\ ring' \in [Sessions -> Seq(Deliveries)]
  BY <1>1, <1>3, Nothing DEF RingIsBounded
<1>6. OneCopy'
  BY <1>2, <1>3, Nothing DEF OneCopy, Uniq
<1> QED
  BY <1>1, <1>4, <1>5, <1>6

-----------------------------------------------------------------------------
(* Types and rings, in every step *)

LEMMA Typed ==
    ASSUME /\ registered' \subseteq Hooks /\ circuit' \in [Urls -> Circuits]
           /\ pc' \in [Deliveries -> Pc] /\ attempt' \in [Deliveries -> 0..(MaxAttempts - 1)]
           /\ ring' \in [Sessions -> Seq(Deliveries)]
           /\ inserting' \subseteq Deliveries /\ table' \subseteq Deliveries
           /\ received' \subseteq Deliveries /\ gone' \subseteq Deliveries
           /\ unrecorded' \subseteq Deliveries
           /\ deleting' \subseteq Sessions /\ deleted' \subseteq Sessions
           /\ faults' \in 0..MaxFaults
    PROVE  TypeOK'
BY DEF TypeOK, Circuits, Opened

Rings == TypeOK /\ OneCopy /\ RingIsBounded

LEMMA FaultCounted ==
    ASSUME TypeOK, faults < MaxFaults
    PROVE  faults + 1 \in 0..MaxFaults
BY Shapes, WebhookAssumption

LEMMA RingsInTask ==
    ASSUME Rings, NEW d \in Deliveries, TaskStep(d)
    PROVE  Rings'
<1>1. TypeOK /\ OneCopy /\ RingIsBounded
  BY DEF Rings
<1>2. Url(d) \in Urls
  BY OfDelivery
<1>3. CASE attempt_succeeds(d)
  <2>1. GoTo(d, "delivered") /\ pc[d] = "sending"
    BY <1>3 DEF attempt_succeeds
  <2>2. /\ pc' \in [Deliveries -> Pc] /\ pc'[d] = "delivered"
        /\ \A y \in Deliveries : y # d => pc'[y] = pc[y]
    BY <1>1, <2>1, Moved DEF Pc
  <2>3. circuit' \in [Urls -> Circuits]
    BY <1>1, <1>2, <1>3, Reset DEF attempt_succeeds, webhook_record_success
  <2>4. attempt' \in [Deliveries -> 0..(MaxAttempts - 1)]
    BY <1>1, <1>3, Counted DEF attempt_succeeds
  <2>5. /\ received' = received \cup {d} /\ registered' = registered /\ ring' = ring
        /\ inserting' = inserting /\ table' = table /\ deleting' = deleting /\ deleted' = deleted
        /\ gone' = gone /\ unrecorded' = unrecorded /\ faults' = faults
    BY <1>3 DEF attempt_succeeds, dlq, admin
  <2>6. TypeOK'
    BY ONLY <1>1, <2>2, <2>3, <2>4, <2>5, Shapes, Typed, d \in Deliveries
  <2>7. OneCopy' /\ RingIsBounded'
    BY <1>1, <2>1, <2>2, <2>5, RingsAlone
  <2> QED
    BY <2>6, <2>7 DEF Rings
<1>4. CASE attempt_fails(d)
  <2>1. /\ pc' = pc \/ GoTo(d, "failed")
        /\ pc[d] = "sending"
    BY <1>4 DEF attempt_fails
  <2>2. /\ pc' \in [Deliveries -> Pc] /\ pc'[d] # "dead"
        /\ \A y \in Deliveries : y # d => pc'[y] = pc[y]
    BY <1>1, <2>1, Moved, Shapes DEF Pc
  <2>3. attempt' \in [Deliveries -> 0..(MaxAttempts - 1)]
    BY <1>1, <1>4, Counted DEF attempt_fails
  <2>4. UNCHANGED <<registered, circuit, ring, inserting, table, deleting, deleted, received,
                    gone, unrecorded, faults>>
    BY <1>4 DEF attempt_fails, dlq, admin, ghost
  <2>5. TypeOK'
    BY ONLY <1>1, <2>2, <2>3, <2>4, Shapes, Typed
  <2>6. OneCopy' /\ RingIsBounded'
    BY <1>1, <2>1, <2>2, <2>4, RingsAlone
  <2> QED
    BY <2>5, <2>6 DEF Rings
<1>5. CASE webhook_record_failure(d)
  <2> DEFINE u == Url(d)
             n == IF circuit[u].failures < HardDisableThreshold
                  THEN circuit[u].failures + 1 ELSE HardDisableThreshold
             o == IF n >= OpenThreshold /\ circuit[u].opened = "no" /\ n < HardDisableThreshold
                  THEN "open" ELSE circuit[u].opened
  <2>1. /\ GoTo(d, IF n >= HardDisableThreshold THEN "disable" ELSE "push") /\ pc[d] = "failed"
        /\ circuit' = [circuit EXCEPT ![u] = [failures |-> n, opened |-> o]]
    BY <1>5 DEF webhook_record_failure
  <2>2. /\ pc' \in [Deliveries -> Pc] /\ pc'[d] # "dead"
        /\ \A y \in Deliveries : y # d => pc'[y] = pc[y]
    BY <1>1, <2>1, Moved DEF Pc
  <2>3. [failures |-> n, opened |-> o] \in Circuits
    <3>1. circuit[u] \in Circuits /\ HardDisableThreshold \in Nat
      BY <1>1, <1>2, Shapes, WebhookAssumption
    <3>2. circuit[u].failures \in 0..HardDisableThreshold /\ circuit[u].opened \in Opened
      BY <3>1 DEF Circuits
    <3>3. n \in 0..HardDisableThreshold
      BY <3>1, <3>2
    <3>4. o \in Opened
      BY <3>2 DEF Opened
    <3> QED
      BY <3>3, <3>4 DEF Circuits
  <2> HIDE DEF u, n, o
  <2>4. circuit' \in [Urls -> Circuits]
    BY <1>1, <2>1, <2>3, Shapes
  <2>5. UNCHANGED <<registered, attempt, ring, inserting, table, deleting, deleted, received,
                    gone, unrecorded, faults>>
    BY <1>5 DEF webhook_record_failure, dlq, admin
  <2>6. TypeOK'
    BY ONLY <1>1, <2>2, <2>4, <2>5, Shapes, Typed
  <2>7. OneCopy' /\ RingIsBounded'
    BY <1>1, <2>1, <2>2, <2>5, RingsAlone
  <2> QED
    BY <2>6, <2>7 DEF Rings
<1>6. CASE purge_webhook_by_url(d)
  <2>1. GoTo(d, "push") /\ pc[d] = "disable"
    BY <1>6 DEF purge_webhook_by_url
  <2>2. /\ pc' \in [Deliveries -> Pc] /\ pc'[d] # "dead"
        /\ \A y \in Deliveries : y # d => pc'[y] = pc[y]
    BY <1>1, <2>1, Moved DEF Pc
  <2>3. circuit' \in [Urls -> Circuits]
    BY <1>1, <1>2, <1>6, Reset DEF purge_webhook_by_url
  <2>4. registered' \subseteq registered /\ UNCHANGED <<attempt, ring, inserting, table, deleting, deleted, received,
                    gone, unrecorded, faults>>
    BY <1>6 DEF purge_webhook_by_url, dlq, admin, ghost
  <2>5. TypeOK'
    BY ONLY <1>1, <2>2, <2>3, <2>4, Shapes, Typed
  <2>6. OneCopy' /\ RingIsBounded'
    BY <1>1, <2>1, <2>2, <2>4, RingsAlone
  <2> QED
    BY <2>5, <2>6 DEF Rings
<1>7. CASE dead_letter(d)
  <2>1. GoTo(d, "dead") /\ pc[d] # "dead" /\ webhook_dlq_push(d)
    BY <1>7 DEF dead_letter
  <2>2. pc' \in [Deliveries -> Pc]
    BY <1>1, <2>1, Moved DEF Pc
  <2>3. /\ ring' \in [Sessions -> Seq(Deliveries)] /\ gone' \subseteq Deliveries
        /\ OneCopy' /\ RingIsBounded'
    BY <1>1, <2>1, Push
  <2>4. /\ inserting' = inserting \cup {d}
        /\ UNCHANGED <<registered, circuit, attempt, table, deleting, deleted, received,
                       unrecorded, faults>>
    BY <1>7 DEF dead_letter, admin
  <2>5. TypeOK'
    BY ONLY <1>1, <2>2, <2>3, <2>4, Shapes, Typed, d \in Deliveries
  <2> QED
    BY <2>3, <2>5 DEF Rings
<1>8. CASE replay(d)
  <2>1. /\ pc[d] = "replay"
        /\ \/ GoTo(d, "sending") /\ UNCHANGED <<ring, gone>>
           \/ GoTo(d, "dead") /\ webhook_dlq_push(d)
        /\ UNCHANGED <<registered, circuit, attempt, inserting, table, deleting, deleted, received,
                       unrecorded, faults>>
    BY <1>8 DEF replay, admin
  <2>2. CASE GoTo(d, "sending") /\ UNCHANGED <<ring, gone>>
    <3>1. /\ pc' \in [Deliveries -> Pc] /\ pc'[d] # "dead"
          /\ \A y \in Deliveries : y # d => pc'[y] = pc[y]
      BY <1>1, <2>2, Moved DEF Pc
    <3>2. TypeOK'
      BY ONLY <1>1, <2>1, <2>2, <3>1, Shapes, Typed
    <3>3. OneCopy' /\ RingIsBounded'
      BY <1>1, <2>1, <2>2, <3>1, RingsAlone
    <3> QED
      BY <3>2, <3>3 DEF Rings
  <2>3. CASE GoTo(d, "dead") /\ webhook_dlq_push(d)
    <3>1. pc' \in [Deliveries -> Pc]
      BY <1>1, <2>3, Moved DEF Pc
    <3>2. /\ ring' \in [Sessions -> Seq(Deliveries)] /\ gone' \subseteq Deliveries
          /\ OneCopy' /\ RingIsBounded'
      BY <1>1, <2>1, <2>3, Push
    <3>3. TypeOK'
      BY ONLY <1>1, <2>1, <3>1, <3>2, Shapes, Typed
    <3> QED
      BY <3>2, <3>3 DEF Rings
  <2> QED
    BY <2>1, <2>2, <2>3
<1> QED
  BY <1>3, <1>4, <1>5, <1>6, <1>7, <1>8 DEF TaskStep

\* An event flies to webhooks that had not heard of it, or is kept from them.
LEMMA Announced ==
    ASSUME TypeOK, NEW e \in Events, NEW s \in Sessions, broadcast_to_webhooks(e, s)
    PROVE  /\ pc' \in [Deliveries -> Pc]
           /\ \A d \in Deliveries :
                \/ pc'[d] = pc[d]
                \/ pc[d] = "none" /\ pc'[d] \in {"sending", "skipped"}
<1>1. /\ pc \in [Deliveries -> Pc]
      /\ pc' = [d \in Deliveries |->
                IF d[1] = e /\ d[2] \in registered /\ Session(d) = s
                THEN IF webhook_circuit_allows(Url(d)) THEN "sending" ELSE "skipped"
                ELSE pc[d]]
      /\ \A h \in Hooks : pc[<<e, h>>] = "none"
  BY Shapes DEF broadcast_to_webhooks
<1>2. \A d \in Deliveries : d[1] = e => pc[d] = "none"
  BY <1>1 DEF Deliveries
<1>3. pc' \in [Deliveries -> Pc]
  BY <1>1 DEF Pc
<1> QED
  BY <1>1, <1>2, <1>3

LEMMA RingsInNext ==
    ASSUME Rings, [Next]_vars
    PROVE  Rings'
<1>1. TypeOK /\ OneCopy /\ RingIsBounded
  BY DEF Rings
<1>2. CASE UNCHANGED vars
  <2>1. /\ UNCHANGED <<registered, circuit, pc, attempt, ring, inserting, table, deleting, deleted,
                       received, gone, unrecorded, faults>>
    BY <1>2 DEF vars, tasks, dlq, admin, ghost
  <2>2. TypeOK'
    BY ONLY <1>1, <2>1, Shapes, Typed
  <2> QED
    BY <1>1, <2>1, <2>2, RingsAlone DEF Rings
<1>3. ASSUME NEW e \in Events, NEW s \in Sessions, broadcast_to_webhooks(e, s) PROVE Rings'
  <2>1. UNCHANGED <<registered, circuit, attempt, ring, inserting, table, deleting, deleted,
                    received, gone, unrecorded, faults>>
    BY <1>3 DEF broadcast_to_webhooks, dlq, admin, ghost
  <2>2. /\ pc' \in [Deliveries -> Pc]
        /\ \A d \in Deliveries : pc'[d] = "dead" <=> pc[d] = "dead"
    BY <1>1, <1>3, Announced
  <2>3. TypeOK'
    BY ONLY <1>1, <2>1, <2>2, Shapes, Typed
  <2> QED
    BY <1>1, <2>1, <2>2, <2>3, RingsAlone DEF Rings
<1>4. ASSUME NEW d \in Deliveries, record_failure(d) PROVE Rings'
  <2>1. /\ inserting' \subseteq inserting /\ table' \subseteq table \cup {d}
        /\ unrecorded' \subseteq unrecorded \cup {d} /\ faults' \in 0..MaxFaults
        /\ UNCHANGED <<registered, circuit, pc, attempt, ring, deleting, deleted, received, gone>>
    BY <1>1, <1>4, FaultCounted, Shapes DEF record_failure, tasks, admin
  <2>2. TypeOK'
    BY ONLY <1>1, <2>1, Shapes, Typed, d \in Deliveries
  <2> QED
    BY <1>1, <2>1, <2>2, RingsAlone DEF Rings
<1>5. ASSUME NEW d \in Deliveries, webhook_dlq_take(d) PROVE Rings'
  <2>1. UNCHANGED <<registered, circuit, attempt, inserting, table, deleting, deleted, received,
                    gone, unrecorded, faults>>
    BY <1>5 DEF webhook_dlq_take, admin, ghost
  <2>2. pc' \in [Deliveries -> Pc]
    BY <1>1, <1>5, Moved DEF Pc, webhook_dlq_take
  <2>3. ring' \in [Sessions -> Seq(Deliveries)] /\ OneCopy' /\ RingIsBounded'
    BY <1>1, <1>5, Taken
  <2>4. TypeOK'
    BY ONLY <1>1, <2>1, <2>2, <2>3, Shapes, Typed
  <2> QED
    BY <2>3, <2>4 DEF Rings
<1>6. ASSUME NEW u \in Urls, CooldownEnds(u) PROVE Rings'
  <2>1. /\ circuit' \in [Urls -> Circuits]
        /\ UNCHANGED <<registered, pc, attempt, ring, inserting, table, deleting, deleted,
                       received, gone, unrecorded, faults>>
    BY <1>1, <1>6, Reset DEF CooldownEnds, Opened, tasks, dlq, admin, ghost
  <2>2. TypeOK'
    BY ONLY <1>1, <2>1, Shapes, Typed
  <2> QED
    BY <1>1, <2>1, <2>2, RingsAlone DEF Rings
<1>7. ASSUME NEW h \in Hooks, register_webhook(h) PROVE Rings'
  <2>1. /\ registered' = registered \cup {h}
        /\ UNCHANGED <<circuit, pc, attempt, ring, inserting, table, deleting, deleted,
                       received, gone, unrecorded, faults>>
    BY <1>7 DEF register_webhook, tasks, dlq, admin, ghost
  <2>2. TypeOK'
    BY ONLY <1>1, <2>1, Shapes, Typed, h \in Hooks
  <2> QED
    BY <1>1, <2>1, <2>2, RingsAlone DEF Rings
<1>8. ASSUME NEW s \in Sessions, purge_webhooks_for_session(s) PROVE Rings'
  <2>1. /\ registered' \subseteq registered /\ deleting' = deleting \cup {s}
        /\ faults' \in 0..MaxFaults
        /\ UNCHANGED <<circuit, pc, attempt, inserting, table, deleted, received, unrecorded>>
    BY <1>1, <1>8, FaultCounted DEF purge_webhooks_for_session, tasks
  <2>2. /\ ring' \in [Sessions -> Seq(Deliveries)] /\ gone' \subseteq Deliveries
        /\ OneCopy' /\ RingIsBounded'
    BY <1>1, <1>8, Purged
  <2>3. TypeOK'
    BY ONLY <1>1, <2>1, <2>2, Shapes, Typed, s \in Sessions
  <2> QED
    BY <2>2, <2>3 DEF Rings
<1>9. ASSUME NEW s \in Sessions, purge_dependents(s) PROVE Rings'
  <2>1. /\ table' \subseteq table /\ deleting' \subseteq deleting /\ deleted' = deleted \cup {s}
        /\ UNCHANGED <<registered, circuit, pc, attempt, ring, inserting,
                       received, gone, unrecorded, faults>>
    BY <1>9 DEF purge_dependents, tasks, ghost
  <2>2. TypeOK'
    BY ONLY <1>1, <2>1, Shapes, Typed, s \in Sessions
  <2> QED
    BY <1>1, <2>1, <2>2, RingsAlone DEF Rings
<1>10. CASE reenable_all_open_circuits
  <2>1. /\ circuit' = [u \in Urls |-> IF circuit[u].opened = "open" THEN Closed ELSE circuit[u]]
        /\ UNCHANGED <<registered, pc, attempt, ring, inserting, table, deleting, deleted,
                       received, gone, unrecorded, faults>>
    BY <1>10 DEF reenable_all_open_circuits, tasks, dlq, admin, ghost
  <2>2. circuit' \in [Urls -> Circuits]
    BY <1>1, <2>1, Shapes, ClosedTyped
  <2>3. TypeOK'
    BY ONLY <1>1, <2>1, <2>2, Shapes, Typed
  <2> QED
    BY <1>1, <2>1, <2>3, RingsAlone DEF Rings
<1>11. CASE Crash
  <2>1. /\ circuit' = [u \in Urls |-> Closed] /\ attempt' = [d \in Deliveries |-> 0]
        /\ inserting' = {} /\ deleting' = {} /\ faults' \in 0..MaxFaults
        /\ UNCHANGED <<received, registered, table, deleted>>
    BY <1>1, <1>11, FaultCounted DEF Crash
  <2>2. circuit' \in [Urls -> Circuits] /\ attempt' \in [Deliveries -> 0..(MaxAttempts - 1)]
    BY <2>1, ClosedTyped, WebhookAssumption
  <2>3. /\ ring' \in [Sessions -> Seq(Deliveries)] /\ gone' \subseteq Deliveries
        /\ pc' \in [Deliveries -> Pc] /\ unrecorded' \subseteq Deliveries
        /\ OneCopy' /\ RingIsBounded'
    BY <1>1, <1>11, Crashed
  <2>4. TypeOK'
    BY ONLY <1>1, <2>1, <2>2, <2>3, Shapes, Typed
  <2> QED
    BY <2>3, <2>4 DEF Rings
<1> QED
  BY <1>2, <1>3, <1>4, <1>5, <1>6, <1>7, <1>8, <1>9, <1>10, <1>11, RingsInTask DEF Next

-----------------------------------------------------------------------------
(* The durable copy, and the receiver *)

Kept(d) == d \in table \cup inserting \cup unrecorded
InRing  == {"dead", "replay"}

\* Whoever is dead now was so before, or has a durable copy; copies stay.
LEMMA CopiesStay ==
    ASSUME Durable, Once,
           \A x \in Deliveries :
             /\ pc'[x] \in InRing /\ Session(x) \notin deleting' \cup deleted'
                => \/ Kept(x)'
                   \/ pc[x] \in InRing /\ Session(x) \notin deleting \cup deleted
             /\ Kept(x) /\ pc'[x] \in InRing /\ Session(x) \notin deleting' \cup deleted' => Kept(x)'
    PROVE  Durable'
BY DEF Durable, Kept, InRing

LEMMA CopiesInTask ==
    ASSUME TypeOK, Durable, Once, NEW d \in Deliveries, TaskStep(d)
    PROVE  Durable' /\ Once'
<1>1. /\ pc[d] \notin {"dead", "delivered"} /\ pc \in [Deliveries -> Pc]
      /\ received \subseteq Deliveries
  BY Shapes DEF TaskStep, attempt_succeeds, attempt_fails, webhook_record_failure,
        purge_webhook_by_url, dead_letter, replay
<1>2. /\ table' = table /\ unrecorded' = unrecorded
      /\ deleting' = deleting /\ deleted' = deleted
  BY DEF TaskStep, attempt_succeeds, attempt_fails, webhook_record_failure,
        purge_webhook_by_url, dead_letter, replay, admin, ghost, dlq
<1>3. inserting \subseteq inserting'
  BY DEF TaskStep, attempt_succeeds, attempt_fails, webhook_record_failure,
        purge_webhook_by_url, dead_letter, replay, admin, ghost, dlq
<1>4. \/ pc'[d] \notin InRing
      \/ d \in inserting'
      \/ pc[d] \in InRing
  <2>1. \/ pc' = pc
        \/ \E x \in Pc \ InRing : GoTo(d, x)
        \/ d \in inserting'
        \/ pc[d] = "replay"
    BY DEF TaskStep, attempt_succeeds, attempt_fails, webhook_record_failure,
        purge_webhook_by_url, dead_letter, replay, Pc, InRing
  <2> QED
    BY <2>1, Moved DEF InRing
<1>5. \A y \in Deliveries : y # d => pc'[y] = pc[y]
  BY <1>1 DEF TaskStep, attempt_succeeds, attempt_fails, webhook_record_failure,
        purge_webhook_by_url, dead_letter, replay, GoTo
<1>6. Durable'
  <2>1. \A x \in Deliveries : Kept(x) => Kept(x)'
    BY <1>2, <1>3 DEF Kept
  <2>2. \A x \in Deliveries : pc'[x] \in InRing => Kept(x)' \/ pc[x] \in InRing
    BY <1>4, <1>5 DEF Kept
  <2> QED
    BY <1>2, <2>1, <2>2, CopiesStay
<1>7. Once'
  <2>1. d \notin received
    BY <1>1 DEF Once
  <2>2. received' = received \/ (received' = received \cup {d} /\ GoTo(d, "delivered"))
    BY DEF TaskStep, attempt_succeeds, attempt_fails, webhook_record_failure,
        purge_webhook_by_url, dead_letter, replay, ghost
  <2>3. GoTo(d, "delivered") => pc'[d] = "delivered"
    BY Moved DEF Pc
  <2> QED
    BY <1>1, <1>5, <2>1, <2>2, <2>3 DEF Once
<1> QED
  BY <1>6, <1>7

LEMMA CopiesInNext ==
    ASSUME TypeOK, Durable, Once, [Next]_vars
    PROVE  Durable' /\ Once'
<1>1. /\ pc \in [Deliveries -> Pc] /\ received \subseteq Deliveries
  BY Shapes
<1>2. CASE UNCHANGED vars
  BY <1>2, CopiesStay DEF vars, tasks, dlq, admin, ghost, Once, Kept
<1>3. ASSUME NEW e \in Events, NEW s \in Sessions, broadcast_to_webhooks(e, s)
      PROVE  Durable' /\ Once'
  <2>1. UNCHANGED <<inserting, table, deleting, deleted, received, unrecorded>>
    BY <1>3 DEF broadcast_to_webhooks, dlq, admin, ghost
  <2>2. \A d \in Deliveries :
                \/ pc'[d] = pc[d]
                \/ pc[d] = "none" /\ pc'[d] \in {"sending", "skipped"}
    BY <1>3, Announced
  <2>3. Durable'
    BY <2>1, <2>2, CopiesStay DEF Kept, InRing
  <2> QED
    BY <1>1, <2>1, <2>2, <2>3 DEF Once
<1>4. ASSUME NEW d \in Deliveries, record_failure(d) PROVE Durable' /\ Once'
  <2>1. /\ UNCHANGED <<pc, deleting, deleted, received>>
        /\ inserting' = inserting \ {d}
        /\ \/ table' = table \cup {d} /\ unrecorded' = unrecorded
           \/ unrecorded' = unrecorded \cup {d} /\ table' = table
    BY <1>4 DEF record_failure, tasks, admin
  <2>2. \A x \in Deliveries : Kept(x) => Kept(x)'
    BY <2>1 DEF Kept
  <2>3. Durable'
    BY <2>1, <2>2, CopiesStay
  <2> QED
    BY <2>1, <2>3 DEF Once
<1>5. ASSUME NEW d \in Deliveries, webhook_dlq_take(d) PROVE Durable' /\ Once'
  <2>1. UNCHANGED <<inserting, table, deleting, deleted, received, unrecorded>>
    BY <1>5 DEF webhook_dlq_take, admin, ghost
  <2>2. pc[d] = "dead" /\ pc'[d] = "replay" /\ \A y \in Deliveries : y # d => pc'[y] = pc[y]
    BY <1>5, Moved DEF Pc, webhook_dlq_take
  <2>3. Durable'
    BY <2>1, <2>2, CopiesStay DEF Kept, InRing
  <2> QED
    BY <1>1, <2>1, <2>2, <2>3 DEF Once
<1>6. ASSUME \/ \E u \in Urls : CooldownEnds(u)
             \/ \E h \in Hooks : register_webhook(h)
             \/ reenable_all_open_circuits
      PROVE  Durable' /\ Once'
  <2>1. UNCHANGED <<pc, inserting, table, deleting, deleted, received, unrecorded>>
    BY <1>6 DEF CooldownEnds, register_webhook, reenable_all_open_circuits, tasks, dlq, admin, ghost
  <2>2. Durable'
    BY <2>1, CopiesStay DEF Kept
  <2> QED
    BY <2>1, <2>2 DEF Once
<1>7. ASSUME NEW s \in Sessions, purge_webhooks_for_session(s) PROVE Durable' /\ Once'
  <2>1. /\ deleting' = deleting \cup {s}
        /\ UNCHANGED <<pc, inserting, table, deleted, received, unrecorded>>
    BY <1>7 DEF purge_webhooks_for_session, tasks
  <2>2. Durable'
    BY <2>1, CopiesStay DEF Kept
  <2> QED
    BY <2>1, <2>2 DEF Once
<1>8. ASSUME NEW s \in Sessions, purge_dependents(s) PROVE Durable' /\ Once'
  <2>1. /\ table' = {d \in table : Session(d) # s}
        /\ deleting' = deleting \ {s} /\ deleted' = deleted \cup {s}
        /\ UNCHANGED <<pc, inserting, received, unrecorded>>
    BY <1>8 DEF purge_dependents, tasks, ghost
  <2>2. Durable'
    BY <2>1, CopiesStay DEF Kept
  <2> QED
    BY <2>1, <2>2 DEF Once
<1>9. CASE Crash
  <2> DEFINE lost == {d \in Deliveries : pc[d] \notin {"none", "skipped", "delivered"}}
  <2>1. /\ pc' = [d \in Deliveries |-> IF d \in lost THEN "dead" ELSE pc[d]]
        /\ unrecorded' = unrecorded \cup (lost \ table)
        /\ received' = received /\ table' = table
    BY <1>9 DEF Crash
  <2>2. \A x \in Deliveries : pc'[x] \in InRing => x \in lost
    BY <2>1 DEF InRing
  <2>3. Durable'
    BY <2>1, <2>2 DEF Durable, InRing
  <2>4. Once'
    BY <1>1, <2>1 DEF Once
  <2> QED
    BY <2>3, <2>4
<1> QED
  BY <1>2, <1>3, <1>4, <1>5, <1>6, <1>7, <1>8, <1>9, CopiesInTask DEF Next

-----------------------------------------------------------------------------
(* The outcomes a circuit counts *)

History == OutcomesTyped /\ Streaks

\* A count that starts again, or stays, is not above the streak.
LEMMA StreakFalls ==
    ASSUME NEW n, NEW o, Streak(n, o)
    PROVE  Streak(0, o)
BY DEF Streak

LEMMA NoOutcomes == Streak(0, << >>)
BY WebhookAssumption DEF Streak

LEMMA CountsFall ==
    ASSUME TypeOK, History, outcomes' = outcomes,
           \A u \in Urls : circuit'[u].failures = circuit[u].failures \/ circuit'[u].failures = 0
    PROVE  History'
BY StreakFalls DEF History, OutcomesTyped, Streaks

LEMMA Failed ==
    ASSUME TypeOK, History, NEW d \in Deliveries, webhook_record_failure(d)
    PROVE  /\ History'
           /\ pc'[d] = "disable" => circuit'[Url(d)].failures >= HardDisableThreshold
<1> DEFINE u == Url(d)
           n == IF circuit[u].failures < HardDisableThreshold
                THEN circuit[u].failures + 1 ELSE HardDisableThreshold
           o == IF n >= OpenThreshold /\ circuit[u].opened = "no" /\ n < HardDisableThreshold
                THEN "open" ELSE circuit[u].opened
           t == LastOutcomes(outcomes[u], "fail")
<1>1. /\ circuit \in [Urls -> Circuits] /\ u \in Urls
      /\ outcomes \in [Urls -> Seq({"ok", "fail"})]
      /\ Streak(circuit[u].failures, outcomes[u]) /\ circuit[u].failures \in Nat
      /\ \A v \in Urls : Streak(circuit[v].failures, outcomes[v])
  BY Shapes, OfDelivery, WebhookAssumption DEF History, OutcomesTyped, Streaks, Circuits
<1>2. /\ circuit' = [circuit EXCEPT ![u] = [failures |-> n, opened |-> o]]
      /\ outcomes' = [outcomes EXCEPT ![u] = t]
      /\ GoTo(d, IF n >= HardDisableThreshold THEN "disable" ELSE "push")
  BY DEF webhook_record_failure, Recorded
<1>3. Streak(n, t)
  BY <1>1, Longer
<1>4. t \in Seq({"ok", "fail"})
  BY <1>3 DEF Streak
<1>5. pc'[d] = IF n >= HardDisableThreshold THEN "disable" ELSE "push"
  BY <1>2, Moved DEF Pc
<1> HIDE DEF n, o, t, u
<1>6. outcomes' \in [Urls -> Seq({"ok", "fail"})]
  BY <1>1, <1>2, <1>4
<1>7. circuit'[u].failures = n
  BY <1>1, <1>2
<1>8. ASSUME NEW v \in Urls PROVE Streak(circuit'[v].failures, outcomes'[v])
  <2>1. CASE v = u
    <3>1. outcomes'[v] = t /\ circuit'[v].failures = n
      BY <1>1, <1>2, <1>7, <2>1
    <3> QED
      BY <1>3, <3>1
  <2>2. CASE v # u
    <3>1. outcomes'[v] = outcomes[v] /\ circuit'[v] = circuit[v]
      BY <1>1, <1>2, <2>2
    <3> QED
      BY <1>1, <3>1
  <2> QED
    BY <2>1, <2>2
<1>9. History'
  BY <1>6, <1>8 DEF History, OutcomesTyped, Streaks
<1> QED
  BY <1>5, <1>7, <1>9 DEF u

LEMMA Succeeded ==
    ASSUME TypeOK, History, NEW d \in Deliveries, attempt_succeeds(d)
    PROVE  History'
<1> DEFINE u == Url(d)
           t == LastOutcomes(outcomes[u], "ok")
<1>1. /\ circuit \in [Urls -> Circuits] /\ u \in Urls
      /\ outcomes \in [Urls -> Seq({"ok", "fail"})]
      /\ Streak(0, outcomes[u])
      /\ \A v \in Urls : Streak(circuit[v].failures, outcomes[v])
  BY Shapes, OfDelivery, StreakFalls DEF History, OutcomesTyped, Streaks
<1>2. /\ circuit' = [circuit EXCEPT ![u] = Closed]
      /\ outcomes' = [outcomes EXCEPT ![u] = t]
  BY DEF attempt_succeeds, webhook_record_success, Recorded
<1>3. Streak(0, t)
  BY <1>1, Longer
<1>4. t \in Seq({"ok", "fail"})
  BY <1>3 DEF Streak
<1> HIDE DEF t, u
<1>5. outcomes' \in [Urls -> Seq({"ok", "fail"})]
  BY <1>1, <1>2, <1>4
<1>6. ASSUME NEW v \in Urls PROVE Streak(circuit'[v].failures, outcomes'[v])
  <2>1. CASE v = u
    <3>1. outcomes'[v] = t /\ circuit'[v].failures = 0
      BY <1>1, <1>2, <2>1 DEF Closed
    <3> QED
      BY <1>3, <3>1
  <2>2. CASE v # u
    <3>1. outcomes'[v] = outcomes[v] /\ circuit'[v] = circuit[v]
      BY <1>1, <1>2, <2>2
    <3> QED
      BY <1>1, <3>1
  <2> QED
    BY <2>1, <2>2
<1> QED
  BY <1>5, <1>6 DEF History, OutcomesTyped, Streaks

LEMMA HistoryInNext ==
    ASSUME TypeOK, History, [Next]_vars
    PROVE  History'
<1>1. circuit \in [Urls -> Circuits]
  BY Shapes
<1>2. ASSUME \/ UNCHANGED vars
             \/ \E e \in Events, s \in Sessions : broadcast_to_webhooks(e, s)
             \/ \E d \in Deliveries : \/ attempt_fails(d) \/ dead_letter(d) \/ replay(d)
                                      \/ record_failure(d) \/ webhook_dlq_take(d)
             \/ \E h \in Hooks : register_webhook(h)
             \/ \E s \in Sessions : purge_webhooks_for_session(s) \/ purge_dependents(s)
      PROVE  History'
  <2>1. circuit' = circuit /\ outcomes' = outcomes
    BY <1>2 DEF vars, broadcast_to_webhooks, attempt_fails, dead_letter, replay, record_failure,
          webhook_dlq_take, register_webhook, purge_webhooks_for_session, purge_dependents, ghost
  <2> QED
    BY <2>1 DEF History, OutcomesTyped, Streaks
<1>3. ASSUME NEW d \in Deliveries, purge_webhook_by_url(d) PROVE History'
  <2>1. circuit' = [circuit EXCEPT ![Url(d)] = Closed] /\ outcomes' = outcomes
    BY <1>3 DEF purge_webhook_by_url, ghost
  <2>2. \A u \in Urls : circuit'[u].failures = circuit[u].failures \/ circuit'[u].failures = 0
    BY <1>1, <2>1, OfDelivery DEF Closed
  <2> QED
    BY <2>1, <2>2, CountsFall
<1>4. ASSUME NEW v \in Urls, CooldownEnds(v) PROVE History'
  <2>1. circuit' = [circuit EXCEPT ![v].opened = "over"] /\ outcomes' = outcomes
    BY <1>4 DEF CooldownEnds, ghost
  <2>2. ASSUME NEW u \in Urls
        PROVE  circuit'[u].failures = circuit[u].failures
    <3>1. circuit[u] \in [failures : 0..HardDisableThreshold, opened : Opened]
      BY <1>1 DEF Circuits
    <3>2. circuit'[u] = circuit[u] \/ circuit'[u] = [circuit[u] EXCEPT !.opened = "over"]
      BY <1>1, <2>1
    <3> QED
      BY <3>1, <3>2
  <2> QED
    BY <2>1, <2>2, CountsFall
<1>5. CASE reenable_all_open_circuits
  <2>1. /\ circuit' = [u \in Urls |-> IF circuit[u].opened = "open" THEN Closed ELSE circuit[u]]
        /\ outcomes' = outcomes
    BY <1>5 DEF reenable_all_open_circuits, ghost
  <2>2. \A u \in Urls : circuit'[u].failures = circuit[u].failures \/ circuit'[u].failures = 0
    BY <2>1 DEF Closed
  <2> QED
    BY <2>1, <2>2, CountsFall
<1>6. CASE Crash
  <2>1. circuit' = [u \in Urls |-> Closed] /\ outcomes' = [u \in Urls |-> << >>]
    BY <1>6 DEF Crash
  <2>2. \A u \in Urls : outcomes'[u] = << >> /\ circuit'[u].failures = 0
    BY <2>1 DEF Closed
  <2>3. outcomes' \in [Urls -> Seq({"ok", "fail"})]
    BY <2>1
  <2> QED
    BY <2>2, <2>3, NoOutcomes DEF History, OutcomesTyped, Streaks
<1> QED
  BY <1>2, <1>3, <1>4, <1>5, <1>6, Failed, Succeeded DEF Next, TaskStep

-----------------------------------------------------------------------------
(* The invariant, and what follows from it *)

LEMMA WebhookInit ==
    Init => WebhookInv
<1> SUFFICES ASSUME Init PROVE WebhookInv
  OBVIOUS
<1>1. /\ registered = Hooks /\ circuit = [u \in Urls |-> Closed]
      /\ pc = [d \in Deliveries |-> "none"] /\ attempt = [d \in Deliveries |-> 0]
      /\ ring = [s \in Sessions |-> << >>] /\ inserting = {} /\ table = {}
      /\ deleting = {} /\ deleted = {} /\ outcomes = [u \in Urls |-> << >>]
      /\ received = {} /\ gone = {} /\ unrecorded = {} /\ faults = 0
  BY DEF Init
<1>2. circuit \in [Urls -> Circuits]
  BY <1>1, ClosedTyped
<1>3. TypeOK
  <2>1. attempt \in [Deliveries -> 0..(MaxAttempts - 1)] /\ faults \in 0..MaxFaults
    BY <1>1, WebhookAssumption
  <2>2. ring \in [Sessions -> Seq(Deliveries)] /\ pc \in [Deliveries -> Pc]
    BY <1>1 DEF Pc
  <2> QED
    BY <1>1, <1>2, <2>1, <2>2 DEF TypeOK, Circuits, Opened
<1>4. OneCopy /\ RingIsBounded
  BY <1>1, Nothing, WebhookAssumption DEF OneCopy, RingIsBounded, Uniq
<1>5. Durable /\ Once
  BY <1>1 DEF Durable, Once
<1>6. OutcomesTyped /\ Streaks
  <2>1. \A u \in Urls : circuit[u].failures = 0 /\ outcomes[u] = << >>
    BY <1>1 DEF Closed
  <2> QED
    BY <1>1, <2>1, NoOutcomes DEF OutcomesTyped, Streaks
<1> QED
  BY <1>3, <1>4, <1>5, <1>6 DEF WebhookInv

LEMMA WebhookNext ==
    WebhookInv /\ [Next]_vars => WebhookInv'
BY RingsInNext, CopiesInNext, HistoryInNext DEF WebhookInv, Rings, History

\* The invariant holds in every state that can be reached.
THEOREM Invariant ==
    Spec => []WebhookInv
BY WebhookInit, WebhookNext, PTL DEF Spec

\* A delivery that failed for good stays in its ring, once, within the capacity,
\* until it is taken out, and its row is written or its loss accounted for
\* (DeadLettersKept: webhook_dlq_push, webhook_dlq_take and the requests).
THEOREM Letters ==
    Spec => []DeadLettersKept
<1>1. WebhookInv => DeadLettersKept
  BY DEF WebhookInv, DeadLettersKept, DurableCopy, Durable
<1> QED
  BY <1>1, Invariant, PTL

\* The counter that deliveries in parallel share never reaches the hard threshold
\* but by failures in a row (DisablesAfterStreak: webhook_record_failure).
THEOREM Disables ==
    Spec => DisablesAfterStreak
<1> DEFINE A == \A d \in Deliveries :
                  pc[d] = "failed" /\ pc'[d] = "disable" =>
                    /\ Len(outcomes'[Url(d)]) = HardDisableThreshold
                    /\ \A i \in 1..HardDisableThreshold : outcomes'[Url(d)][i] = "fail"
<1>1. WebhookInv /\ WebhookInv' /\ [Next]_vars => [A]_vars
  <2> SUFFICES ASSUME WebhookInv, WebhookInv', Next PROVE A
    OBVIOUS
  <2>1. TypeOK /\ History /\ History'
    BY DEF WebhookInv, History
  <2> SUFFICES ASSUME NEW d \in Deliveries, pc[d] = "failed", pc'[d] = "disable"
      PROVE  /\ Len(outcomes'[Url(d)]) = HardDisableThreshold
             /\ \A i \in 1..HardDisableThreshold : outcomes'[Url(d)][i] = "fail"
    OBVIOUS
  <2>2. webhook_record_failure(d)
    <3>1. ASSUME NEW e \in Deliveries, TaskStep(e) PROVE webhook_record_failure(d)
      <4>1. e = d
        BY <2>1, <3>1, Shapes DEF TaskStep, attempt_succeeds, attempt_fails, webhook_record_failure,
           purge_webhook_by_url, dead_letter, replay, GoTo
      <4>2. pc[e] = "failed"
        BY <4>1
      <4> QED
        BY <3>1, <4>1, <4>2 DEF TaskStep, attempt_succeeds, attempt_fails,
           purge_webhook_by_url, dead_letter, replay
    <3>2. ASSUME NEW e \in Events, NEW s \in Sessions, broadcast_to_webhooks(e, s) PROVE FALSE
      BY <2>1, <3>2, Announced
    <3>3. ASSUME NEW e \in Deliveries, webhook_dlq_take(e) PROVE FALSE
      <4>1. pc[e] = "dead" /\ GoTo(e, "replay")
        BY <3>3 DEF webhook_dlq_take
      <4> QED
        BY <2>1, <4>1, Moved DEF Pc
    <3>4. ASSUME Crash PROVE FALSE
      BY <3>4 DEF Crash
    <3>5. ASSUME pc' = pc PROVE FALSE
      BY <3>5
    <3> QED
      BY <3>1, <3>2, <3>3, <3>4, <3>5 DEF Next, record_failure, CooldownEnds, register_webhook,
         purge_webhooks_for_session, purge_dependents, reenable_all_open_circuits, tasks
  <2>3. /\ circuit'[Url(d)].failures >= HardDisableThreshold
        /\ Streak(circuit'[Url(d)].failures, outcomes'[Url(d)])
        /\ circuit'[Url(d)].failures \in 0..HardDisableThreshold
    <3>1. TypeOK' /\ Url(d) \in Urls
      BY OfDelivery DEF WebhookInv
    <3>2. circuit'[Url(d)].failures \in 0..HardDisableThreshold
      BY <3>1 DEF TypeOK
    <3> QED
      BY <2>1, <2>2, <3>1, <3>2, Failed DEF History, Streaks
  <2>4. HardDisableThreshold \in Nat
    BY WebhookAssumption
  <2> HIDE DEF Url
  <2> QED
    BY <2>3, <2>4 DEF Streak
<1>2. [][A]_vars <=> DisablesAfterStreak
  BY DEF DisablesAfterStreak
<1> QED
  BY <1>1, <1>2, Invariant, PTL DEF Spec

-----------------------------------------------------------------------------
(* The promise *)

\* No fate is ever "resent".
FateOf(x, p, lost) ==
    IF p = "dead" THEN IF lost THEN "lost" ELSE "dead"
    ELSE IF p \in {"none", "skipped", "delivered"} THEN p ELSE "flying"

LEMMA Fates ==
    ASSUME Once
    PROVE  /\ Fate = [x \in Deliveries |-> Fate[x]]
           /\ \A x \in Deliveries : Fate[x] = FateOf(x, pc[x], x \in gone)
BY DEF Fate, FateOf, Once

\* What the promise says of one delivery, and then of all.
LEMMA OneFate ==
    ASSUME Once, Once', NEW d \in Deliveries, NEW to,
           Fate'[d] = to, \A x \in Deliveries : x # d => Fate'[x] = Fate[x]
    PROVE  Fate' = [Fate EXCEPT ![d] = to]
<1>1. Fate = [x \in Deliveries |-> Fate[x]]
  BY Fates
<1>2. Fate' = [x \in Deliveries |-> Fate'[x]]
  BY DEF Fate
<1> HIDE DEF Fate
<1> QED
  BY <1>1, <1>2

LEMMA SameFate ==
    ASSUME Once, Once', \A x \in Deliveries : Fate'[x] = Fate[x]
    PROVE  Fate' = Fate
<1>1. Fate = [x \in Deliveries |-> Fate[x]]
  BY Fates
<1>2. Fate' = [x \in Deliveries |-> Fate'[x]]
  BY DEF Fate
<1> HIDE DEF Fate
<1> QED
  BY <1>1, <1>2

LEMMA FatesThen ==
    ASSUME Once'
    PROVE  /\ Fate' = [x \in Deliveries |-> Fate'[x]]
           /\ \A x \in Deliveries : Fate'[x] = FateOf(x, pc'[x], x \in gone')
BY DEF Fate, FateOf, Once

\* A dead letter takes its place in the ring, perhaps the oldest entry's.
LEMMA Pushes ==
    ASSUME WebhookInv, Once', NEW d \in Deliveries, pc[d] \in {"push", "replay"},
           webhook_dlq_push(d), GoTo(d, "dead")
    PROVE  Promise!DeadLetter(d) \/ Promise!Replace(d)
<1>0. TypeOK /\ OneCopy /\ RingIsBounded /\ Once
  BY DEF WebhookInv
<1>1. \A x \in Deliveries : /\ Fate[x] = FateOf(x, pc[x], x \in gone)
                            /\ Fate'[x] = FateOf(x, pc'[x], x \in gone')
  BY <1>0, Fates, FatesThen
<1>2. /\ pc'[d] = "dead" /\ \A y \in Deliveries : y # d => pc'[y] = pc[y]
  BY <1>0, Moved DEF Pc
<1>3. \/ gone' = gone \ {d}
      \/ \E x \in Deliveries \ {d} : /\ pc[x] = "dead" /\ x \notin gone
                                     /\ gone' = (gone \ {d}) \cup {x}
  BY <1>0, Push
<1>4. Fate[d] = "flying"
  BY <1>1 DEF FateOf
<1>5. CASE gone' = gone \ {d}
  <2>1. Fate'[d] = "dead" /\ \A x \in Deliveries : x # d => Fate'[x] = Fate[x]
    BY <1>1, <1>2, <1>5 DEF FateOf
  <2>2. Fate' = [Fate EXCEPT ![d] = "dead"]
    BY ONLY <1>0, <2>1, OneFate, Once', d \in Deliveries
  <2> QED
    BY <1>4, <2>2 DEF Promise!DeadLetter, Promise!Becomes
<1>6. ASSUME NEW x \in Deliveries \ {d}, pc[x] = "dead", x \notin gone,
             gone' = (gone \ {d}) \cup {x}
      PROVE  Promise!Replace(d)
  <2>1. Fate[x] = "dead" /\ Fate'[x] = "lost" /\ Fate'[d] = "dead"
    BY <1>1, <1>2, <1>6 DEF FateOf
  <2>2. \A y \in Deliveries \ {d, x} : Fate'[y] = Fate[y]
    BY <1>1, <1>2, <1>6 DEF FateOf
  <2>3. Fate = [y \in Deliveries |-> Fate[y]] /\ Fate' = [y \in Deliveries |-> Fate'[y]]
    BY <1>0, Fates, FatesThen
  <2> HIDE DEF Fate
  <2>4. Fate' = [Fate EXCEPT ![d] = "dead", ![x] = "lost"]
    BY <2>1, <2>2, <2>3
  <2> QED
    BY <1>4, <2>1, <2>4 DEF Promise!Replace
<1> QED
  BY <1>3, <1>5, <1>6

LEMMA PromiseInTask ==
    ASSUME WebhookInv, Once', NEW d \in Deliveries, TaskStep(d)
    PROVE  Promise!Next \/ Fate' = Fate
<1>0. TypeOK /\ OneCopy /\ RingIsBounded /\ Once /\ pc \in [Deliveries -> Pc]
  BY Shapes DEF WebhookInv
<1>1. \A x \in Deliveries : /\ Fate[x] = FateOf(x, pc[x], x \in gone)
                            /\ Fate'[x] = FateOf(x, pc'[x], x \in gone')
  BY <1>0, Fates, FatesThen
<1>2. CASE attempt_succeeds(d)
  <2>1. pc[d] = "sending" /\ GoTo(d, "delivered") /\ gone' = gone
    BY <1>2 DEF attempt_succeeds
  <2>2. /\ pc'[d] = "delivered" /\ \A y \in Deliveries : y # d => pc'[y] = pc[y]
    BY <1>0, <2>1, Moved DEF Pc
  <2>3. /\ Fate[d] = "flying" /\ Fate'[d] = "delivered"
        /\ \A x \in Deliveries : x # d => Fate'[x] = Fate[x]
    BY <1>1, <2>1, <2>2 DEF FateOf
  <2>4. Fate' = [Fate EXCEPT ![d] = "delivered"]
    BY ONLY <1>0, <2>3, OneFate, Once', d \in Deliveries
  <2>5. Promise!Succeed(d)
    BY <2>3, <2>4 DEF Promise!Succeed, Promise!Becomes
  <2> QED
    BY <2>5 DEF Promise!Next
<1>3. ASSUME \/ attempt_fails(d) \/ webhook_record_failure(d) \/ purge_webhook_by_url(d)
             \/ replay(d) /\ GoTo(d, "sending") /\ gone' = gone
      PROVE  Fate' = Fate
  <2>1. /\ pc[d] \in {"sending", "failed", "disable", "replay"} /\ gone' = gone
        /\ \/ pc' = pc
           \/ \E x \in {"sending", "failed", "disable", "push"} : GoTo(d, x)
    BY <1>3 DEF attempt_fails, webhook_record_failure, purge_webhook_by_url, replay, ghost
  <2>2. /\ pc'[d] \in {"sending", "failed", "disable", "push", "replay"}
        /\ \A y \in Deliveries : y # d => pc'[y] = pc[y]
    BY <1>0, <2>1, Moved DEF Pc
  <2>3. \A x \in Deliveries : Fate'[x] = Fate[x]
    BY <1>1, <2>1, <2>2 DEF FateOf
  <2> QED
    BY ONLY <1>0, <2>3, SameFate, Once'
<1>4. ASSUME \/ dead_letter(d)
             \/ replay(d) /\ GoTo(d, "dead") /\ webhook_dlq_push(d)
      PROVE  Promise!Next
  <2>1. pc[d] \in {"push", "replay"} /\ GoTo(d, "dead") /\ webhook_dlq_push(d)
    BY <1>4 DEF dead_letter, replay
  <2> QED
    BY <2>1, Pushes DEF Promise!Next
<1> QED
  BY <1>2, <1>3, <1>4 DEF TaskStep, replay

LEMMA PromiseInNext ==
    ASSUME WebhookInv, Once', [Next]_vars
    PROVE  Promise!Next \/ Fate' = Fate
<1>0. TypeOK /\ OneCopy /\ RingIsBounded /\ Once /\ pc \in [Deliveries -> Pc]
  BY Shapes DEF WebhookInv
<1>1. \A x \in Deliveries : /\ Fate[x] = FateOf(x, pc[x], x \in gone)
                            /\ Fate'[x] = FateOf(x, pc'[x], x \in gone')
  BY <1>0, Fates, FatesThen
<1>f. Fate' = [x \in Deliveries |-> Fate'[x]]
  BY FatesThen
<1>2. ASSUME NEW e \in Events, NEW s \in Sessions, broadcast_to_webhooks(e, s)
      PROVE  Promise!Next
  <2> DEFINE F == {d \in Deliveries : pc[d] = "none" /\ pc'[d] = "sending"}
             K == {d \in Deliveries : pc[d] = "none" /\ pc'[d] = "skipped"}
  <2>1. gone' = gone
    BY <1>2 DEF broadcast_to_webhooks, ghost
  <2>2. \A d \in Deliveries :
                \/ pc'[d] = pc[d]
                \/ pc[d] = "none" /\ pc'[d] \in {"sending", "skipped"}
    BY <1>0, <1>2, Announced
  <2>3. F \in SUBSET {d \in Deliveries : Fate[d] = "none"}
    BY <1>1 DEF FateOf
  <2>4. K \in SUBSET {d \in Deliveries : Fate[d] = "none"}
    BY <1>1 DEF FateOf
  <2>5. ASSUME NEW d \in Deliveries
        PROVE  Fate'[d] = IF d \in F THEN "flying" ELSE IF d \in K THEN "skipped" ELSE Fate[d]
    BY <1>1, <2>1, <2>2 DEF FateOf
  <2> HIDE DEF F, K, Fate
  <2>6. Fate' = [d \in Deliveries |-> IF d \in F THEN "flying"
                                      ELSE IF d \in K THEN "skipped" ELSE Fate[d]]
    BY <1>f, <2>5
  <2>7. Promise!Announce
    BY <2>3, <2>4, <2>6 DEF Promise!Announce
  <2> QED
    BY <2>7 DEF Promise!Next
<1>3. ASSUME NEW d \in Deliveries, webhook_dlq_take(d) PROVE Promise!Next
  <2>1. pc[d] = "dead" /\ GoTo(d, "replay") /\ gone' = gone /\ d \notin gone
    BY <1>0, <1>3, Taken DEF webhook_dlq_take, ghost
  <2>2. /\ pc'[d] = "replay" /\ \A y \in Deliveries : y # d => pc'[y] = pc[y]
    BY <1>0, <2>1, Moved DEF Pc
  <2>3. /\ Fate[d] = "dead" /\ Fate'[d] = "flying"
        /\ \A x \in Deliveries : x # d => Fate'[x] = Fate[x]
    BY <1>1, <2>1, <2>2 DEF FateOf
  <2>4. Fate' = [Fate EXCEPT ![d] = "flying"]
    BY ONLY <1>0, <2>3, OneFate, Once', d \in Deliveries
  <2>5. Promise!Replay(d)
    BY <2>3, <2>4 DEF Promise!Replay, Promise!Becomes
  <2> QED
    BY <2>5 DEF Promise!Next
<1>4. ASSUME NEW s \in Sessions, purge_webhooks_for_session(s) PROVE Promise!Next
  <2> DEFINE D == {d \in Deliveries : Contains(ring[s], d)}
  <2>1. pc' = pc /\ gone' = gone \cup D
    BY <1>4 DEF purge_webhooks_for_session, tasks
  <2>2. \A d \in D : pc[d] = "dead" /\ d \notin gone
    BY <1>0 DEF OneCopy
  <2>3. D \in SUBSET {d \in Deliveries : Fate[d] \in {"dead", "flying"}}
    BY <1>1, <2>2 DEF FateOf
  <2>4. ASSUME NEW d \in Deliveries
        PROVE  Fate'[d] = IF d \in D THEN "lost" ELSE Fate[d]
    BY <1>1, <2>1, <2>2 DEF FateOf
  <2> HIDE DEF D, Fate
  <2>5. Fate' = [d \in Deliveries |-> IF d \in D THEN "lost" ELSE Fate[d]]
    BY <1>f, <2>4
  <2>6. Promise!Lose
    BY <2>3, <2>5 DEF Promise!Lose
  <2> QED
    BY <2>6 DEF Promise!Next
<1>5. ASSUME Crash PROVE Promise!Next
  <2> DEFINE D == {d \in Deliveries : Fate[d] \in {"dead", "flying"}}
             lost == {d \in Deliveries : pc[d] \notin {"none", "skipped", "delivered"}}
  <2>1. /\ pc' = [d \in Deliveries |-> IF d \in lost THEN "dead" ELSE pc[d]]
        /\ gone' = gone \cup lost
    BY <1>5 DEF Crash
  <2>2. ASSUME NEW d \in Deliveries
        PROVE  Fate'[d] = IF d \in D THEN "lost" ELSE Fate[d]
    <3>1. CASE d \in lost
      BY <1>1, <2>1, <3>1 DEF FateOf
    <3>2. CASE d \notin lost
      BY <1>1, <2>1, <3>2 DEF FateOf
    <3> QED
      BY <3>1, <3>2
  <2>3. D \in SUBSET {d \in Deliveries : Fate[d] \in {"dead", "flying"}}
    OBVIOUS
  <2> HIDE DEF D, Fate
  <2>4. Fate' = [d \in Deliveries |-> IF d \in D THEN "lost" ELSE Fate[d]]
    BY <1>f, <2>2
  <2>5. Promise!Lose
    BY <2>3, <2>4 DEF Promise!Lose
  <2> QED
    BY <2>5 DEF Promise!Next
<1>6. ASSUME \/ UNCHANGED vars
             \/ \E d \in Deliveries : record_failure(d)
             \/ \E u \in Urls : CooldownEnds(u)
             \/ \E h \in Hooks : register_webhook(h)
             \/ \E s \in Sessions : purge_dependents(s)
             \/ reenable_all_open_circuits
      PROVE  Fate' = Fate
  <2>1. pc' = pc /\ gone' = gone
    BY <1>6 DEF vars, record_failure, CooldownEnds, register_webhook, purge_dependents,
       reenable_all_open_circuits, tasks, ghost
  <2>2. \A x \in Deliveries : Fate'[x] = Fate[x]
    BY <1>1, <2>1
  <2> QED
    BY ONLY <1>0, <2>2, SameFate, Once'
<1> QED
  BY <1>2, <1>3, <1>4, <1>5, <1>6, PromiseInTask DEF Next

\* Tasks, ring, requests and crashes together do no more to an event than the
\* promise allows (KeepsPromise): delivered once, or dead and open to replay.
THEOREM Refines ==
    Spec => KeepsPromise
<1>1. Init => Promise!Init
  BY DEF Init, Promise!Init, Fate
<1>2. WebhookInv /\ WebhookInv' /\ [Next]_vars => [Promise!Next]_Fate
  BY PromiseInNext DEF WebhookInv
<1> QED
  BY <1>1, <1>2, Invariant, PTL DEF Spec, KeepsPromise, Promise!Spec
=============================================================================
