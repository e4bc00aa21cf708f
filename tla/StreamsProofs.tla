------------------------------ MODULE StreamsProofs ------------------------------
(* CommandsAreTrue, TailIsTrue, WaitIsTrue and WaitTimeout, for any number of   *)
(* commands, deliveries, crashes and faults, any pushers, and a ring, backlog    *)
(* and channels of any size.                                                     *)
EXTENDS Streams, SequenceTheorems, FiniteSetTheorems, TLAPS

USE NatsAssumption

\* A step is one of its flow, and a stutter of the others.
LEMMA OneAtATime ==
    [FlowsNext]_all => /\ [Next]_vars /\ [Tailing!Next]_(Tailing!vars)
                       /\ [Waiting!Next]_(Waiting!vars)
BY DEF FlowsNext, Of, all, tailVars, waitVars, Tailing!vars, Tailing!events, Tailing!tail,
   Waiting!vars, Waiting!session, Waiting!reader

-----------------------------------------------------------------------------
(* Commands *)

\* The deliveries of a command whose send is over, and those with a result to tell.
Tried(c)   == {n \in Deliveries : task[c][n] \in {"publish", "ack", "nak", "done"}}
Telling(c) == {n \in Deliveries : task[c][n] = "publish"}

\* A task tries one send and tells of one that took place.
Counted ==
    \A c \in Commands :
        /\ \A n \in Deliveries : n > deliveries[c] => task[c][n] = "none"
        /\ sent[c] <= Cardinality(Tried(c))
        /\ results[c] + Cardinality(Telling(c)) <= sent[c]
        /\ \A n \in Deliveries : task[c][n] \in {"publish", "ack"} => sent[c] > 0
        /\ state[c] = "acked" => sent[c] > 0

\* Without a fault one delivery at a time is worked on, until it is acknowledged
\* for a message that was sent, or given back for one that was not.
InTurn ==
    \A c \in Commands \ excused :
        /\ \A n \in Deliveries : task[c][n] \notin {"none", "done"} => n = deliveries[c]
        /\ state[c] = "ready" => ~Working(c) /\ sent[c] = 0
        /\ state[c] = "acked" => ~Working(c) /\ sent[c] = 1
        /\ state[c] = "pending" =>
             /\ deliveries[c] \in Deliveries /\ task[c][deliveries[c]] \notin {"none", "done"}
             /\ sent[c] = IF task[c][deliveries[c]] \in {"publish", "ack"} THEN 1 ELSE 0

NatsInv == TypeOK /\ Counted /\ InTurn

-----------------------------------------------------------------------------

\* Sets of deliveries are finite and have no more elements than there are deliveries.
LEMMA DeliverySets ==
    ASSUME NEW k \in 0..MaxDeliver, NEW S \in SUBSET (1..k)
    PROVE  IsFiniteSet(S) /\ Cardinality(S) \in Nat /\ Cardinality(S) <= k
<1>1. IsFiniteSet(1..k) /\ Cardinality(1..k) = k
  BY FS_Interval
<1> QED
  BY <1>1, FS_Subset, FS_CardinalityType

\* A message has been tried no more often than it was delivered.
LEMMA TriedInDeliveries ==
    ASSUME TypeOK, Counted, NEW c \in Commands
    PROVE  /\ IsFiniteSet(Tried(c)) /\ Cardinality(Tried(c)) \in Nat
           /\ Cardinality(Tried(c)) <= deliveries[c]
<1>1. deliveries[c] \in 0..MaxDeliver
  BY DEF TypeOK
<1>2. Tried(c) \in SUBSET (1..deliveries[c])
  <2>1. ASSUME NEW n \in Tried(c) PROVE n \in Deliveries /\ task[c][n] # "none"
    BY DEF Tried
  <2>2. ASSUME NEW n \in Tried(c) PROVE n \in Nat /\ n >= 1 /\ ~(n > deliveries[c])
    BY <2>1 DEF Counted, Deliveries
  <2> QED
    BY <1>1, <2>2
<1> QED
  BY <1>1, <1>2, DeliverySets

LEMMA TellingFinite ==
    ASSUME NEW c \in Commands
    PROVE  IsFiniteSet(Telling(c)) /\ Cardinality(Telling(c)) \in Nat
<1>1. Telling(c) \in SUBSET (1..MaxDeliver) /\ MaxDeliver \in 0..MaxDeliver
  BY DEF Telling, Deliveries
<1> QED
  BY <1>1, DeliverySets

\* At first nothing is delivered.
LEMMA NatsInit == Init => NatsInv
<1> SUFFICES ASSUME Init PROVE NatsInv
  OBVIOUS
<1> USE DEF Init
<1>1. TypeOK
  BY DEF TypeOK, Steps
<1>2. Counted
  <2> SUFFICES ASSUME NEW c \in Commands
               PROVE  /\ \A n \in Deliveries : n > deliveries[c] => task[c][n] = "none"
                      /\ sent[c] <= Cardinality(Tried(c))
                      /\ results[c] + Cardinality(Telling(c)) <= sent[c]
                      /\ \A n \in Deliveries : task[c][n] \in {"publish", "ack"} => sent[c] > 0
                      /\ state[c] = "acked" => sent[c] > 0
    BY DEF Counted
  <2>1. Tried(c) = {} /\ Telling(c) = {}
    BY DEF Tried, Telling
  <2> QED
    BY <2>1, FS_EmptySet
<1>3. InTurn
  BY DEF InTurn, Working
<1> QED
  BY <1>1, <1>2, <1>3 DEF NatsInv

\* Every step keeps the variables in their types.
LEMMA NatsTypes == TypeOK /\ [Next]_vars => TypeOK'
<1> SUFFICES ASSUME TypeOK, [Next]_vars PROVE TypeOK'
  OBVIOUS
<1> USE DEF TypeOK, Steps, queue, outcome, world, bounds
<1>1. ASSUME NEW c \in Commands, deliver(c) PROVE TypeOK'
  <2>1. deliveries[c] + 1 \in Deliveries
    BY <1>1 DEF deliver, Deliveries
  <2>2. /\ deliveries' \in [Commands -> 0..MaxDeliver]
        /\ state' \in [Commands -> {"ready", "pending", "acked"}]
    BY <1>1 DEF deliver
  <2>3. task' \in [Commands -> [Deliveries -> Steps]]
    BY <1>1, <2>1 DEF deliver
  <2> QED
    BY <1>1, <2>2, <2>3 DEF deliver
<1>2. ASSUME NEW c \in Commands, AckWaitExpires(c) PROVE TypeOK'
  BY <1>2 DEF AckWaitExpires
<1>3. ASSUME NEW c \in Commands, NEW n \in Deliveries, TaskStep(c, n) PROVE TypeOK'
  <2> USE DEF TaskTo
  <2>1. CASE process_outbound_command(c, n)
    BY <2>1 DEF process_outbound_command
  <2>2. CASE dispatch_command(c, n)
    BY <2>2 DEF dispatch_command
  <2>3. CASE publish_event(c, n)
    BY <2>3 DEF publish_event
  <2>4. CASE ack(c, n)
    BY <2>4 DEF ack, Acknowledge
  <2>5. CASE nak(c, n)
    BY <2>5 DEF nak, Acknowledge
  <2> QED
    BY <1>3, <2>1, <2>2, <2>3, <2>4, <2>5 DEF TaskStep
<1>4. CASE reconnect \/ Flap \/ SessionConnects \/ start_consumer
  <2>1. UNCHANGED <<queue, task, outcome, crashes, faults>>
    BY <1>4 DEF reconnect, Flap, SessionConnects, start_consumer
  <2>2. flaps' = flaps \/ (flaps < MaxFlaps /\ flaps' = flaps + 1)
    BY <1>4, Zenon DEF reconnect, Flap, SessionConnects, start_consumer
  <2>3. /\ up' = up \/ up' = FALSE \/ up' = TRUE
        /\ open' = open \/ open' = FALSE \/ open' = TRUE
        /\ running' = running \/ running' = TRUE
    BY <1>4, Zenon DEF reconnect, Flap, SessionConnects, start_consumer
  <2>4. up' \in BOOLEAN /\ open' \in BOOLEAN /\ running' \in BOOLEAN
    BY <2>3, Zenon
  <2> QED
    BY <2>1, <2>2, <2>4
<1>5. CASE Crash
  <2>1. task' \in [Commands -> [Deliveries -> Steps]]
    BY <1>5 DEF Crash
  <2>2. crashes' \in 0..MaxCrashes /\ excused' \subseteq Commands
    BY <1>5 DEF Crash
  <2>3. up' = FALSE /\ open' = FALSE /\ running' = FALSE
    BY <1>5 DEF Crash
  <2>4. UNCHANGED <<valid, state, deliveries, sent, results, flaps, faults>>
    BY <1>5 DEF Crash
  <2> QED
    BY <2>1, <2>2, <2>3, <2>4
<1>6. CASE UNCHANGED vars
  BY <1>6 DEF vars
<1> QED
  BY <1>1, <1>2, <1>3, <1>4, <1>5, <1>6 DEF Next

-----------------------------------------------------------------------------

\* What a task does to the counts of its command.
LEMMA CountTask ==
    ASSUME NatsInv, TypeOK', NEW c \in Commands, NEW n \in Deliveries, TaskStep(c, n)
    PROVE  Counted'
<1> USE DEF NatsInv, TypeOK, TaskTo
<1>1. ASSUME NEW d \in Commands \ {c}
      PROVE  /\ task'[d] = task[d] /\ deliveries'[d] = deliveries[d] /\ state'[d] = state[d]
             /\ sent'[d] = sent[d] /\ results'[d] = results[d]
  BY DEF TaskStep, process_outbound_command, dispatch_command, publish_event, ack, nak,
         Acknowledge, queue, outcome
<1>2. ASSUME NEW d \in Commands \ {c}
      PROVE  Tried(d)' = Tried(d) /\ Telling(d)' = Telling(d)
  BY <1>1 DEF Tried, Telling
<1>3. deliveries' = deliveries /\ task[c][n] # "none"
  BY DEF TaskStep, process_outbound_command, dispatch_command, publish_event, ack, nak, queue
<1>4. n <= deliveries[c]
  BY <1>3 DEF Counted, Deliveries
<1>5. /\ IsFiniteSet(Tried(c)) /\ Cardinality(Tried(c)) \in Nat
      /\ IsFiniteSet(Telling(c)) /\ Cardinality(Telling(c)) \in Nat
  BY TriedInDeliveries, TellingFinite
<1>6. task' = [task EXCEPT ![c][n] = task'[c][n]]
  BY DEF TaskStep, process_outbound_command, dispatch_command, publish_event, ack, nak
<1>7. \A m \in Deliveries : m > deliveries'[c] => task'[c][m] = "none"
  BY <1>3, <1>4, <1>6 DEF Counted, Deliveries
<1>8. sent'[c] <= Cardinality(Tried(c)') /\ sent[c] <= sent'[c] /\ sent'[c] \in Nat
  <2>1. CASE task[c][n] = "start"
    <3>1. Tried(c) \subseteq Tried(c)' /\ Tried(c)' \subseteq Tried(c) \cup {n}
      BY <1>6, <2>1 DEF Tried
    <3>2. sent'[c] = sent[c]
      BY <2>1 DEF TaskStep, process_outbound_command, dispatch_command, publish_event, ack,
                  nak, outcome
    <3>3. IsFiniteSet(Tried(c)')
      <4>1. IsFiniteSet(Tried(c) \cup {n})
        BY <1>5, FS_AddElement
      <4> QED
        BY <3>1, <4>1, FS_Subset
    <3>4. Cardinality(Tried(c)) <= Cardinality(Tried(c)') /\ Cardinality(Tried(c)') \in Nat
      BY <3>1, <3>3, FS_Subset, FS_CardinalityType
    <3> QED
      BY <1>5, <3>2, <3>4 DEF Counted
  <2>2. CASE task[c][n] = "send"
    <3>1. Tried(c)' = Tried(c) \cup {n} /\ n \notin Tried(c)
      BY <2>2 DEF Tried, TaskStep, process_outbound_command, dispatch_command,
                  publish_event, ack, nak
    <3>2. Cardinality(Tried(c)') = Cardinality(Tried(c)) + 1
      <4>1. IsFiniteSet(Tried(c)) /\ Cardinality(Tried(c)) \in Nat
        BY <1>5
      <4> QED
        BY ONLY <3>1, <4>1, FS_AddElement
    <3>3. sent'[c] = sent[c] \/ sent'[c] = sent[c] + 1
      BY <2>2 DEF TaskStep, process_outbound_command, dispatch_command, publish_event, ack, nak
    <3> QED
      BY <1>5, <3>2, <3>3 DEF Counted
  <2>3. CASE task[c][n] \notin {"start", "send"}
    <3>1. Tried(c)' = Tried(c)
      BY <1>6, <2>3 DEF Tried, TaskStep, process_outbound_command, dispatch_command,
                        publish_event, ack, nak
    <3>2. sent'[c] = sent[c]
      BY <2>3 DEF TaskStep, process_outbound_command, dispatch_command, publish_event, ack,
                  nak, outcome
    <3> QED
      BY <3>1, <3>2 DEF Counted
  <2> QED
    BY <2>1, <2>2, <2>3
<1>9. results'[c] + Cardinality(Telling(c)') <= sent'[c]
  <2>1. CASE task[c][n] = "send"
    <3>1. CASE task'[c][n] = "publish"
      <4>1. Telling(c)' = Telling(c) \cup {n} /\ n \notin Telling(c)
        BY <1>6, <2>1, <3>1 DEF Telling
      <4>2. Cardinality(Telling(c)') = Cardinality(Telling(c)) + 1
        <5>1. IsFiniteSet(Telling(c)) /\ Cardinality(Telling(c)) \in Nat
          BY <1>5
        <5> QED
          BY ONLY <4>1, <5>1, FS_AddElement
      <4>3. sent'[c] = sent[c] + 1 /\ results' = results
        BY <2>1, <3>1 DEF TaskStep, process_outbound_command, dispatch_command,
                          publish_event, ack, nak
      <4> QED
        BY <1>5, <4>2, <4>3 DEF Counted
    <3>2. CASE task'[c][n] # "publish"
      <4>1. Telling(c)' = Telling(c)
        BY <1>6, <2>1, <3>2 DEF Telling
      <4>2. results' = results
        BY <2>1 DEF TaskStep, process_outbound_command, dispatch_command, publish_event,
                    ack, nak
      <4> QED
        BY <1>5, <1>8, <4>1, <4>2 DEF Counted
    <3> QED
      BY <3>1, <3>2
  <2>2. CASE task[c][n] = "publish"
    <3>1. Telling(c)' = Telling(c) \ {n} /\ n \in Telling(c)
      BY <2>2 DEF Telling, TaskStep, process_outbound_command, dispatch_command,
                  publish_event, ack, nak
    <3>2. Cardinality(Telling(c)') = Cardinality(Telling(c)) - 1
      BY <1>5, <3>1, FS_RemoveElement
    <3>3. sent' = sent /\ (results'[c] = results[c] \/ results'[c] = results[c] + 1)
      BY <2>2 DEF TaskStep, process_outbound_command, dispatch_command, publish_event, ack, nak
    <3> QED
      BY <1>5, <3>2, <3>3 DEF Counted
  <2>3. CASE task[c][n] \notin {"send", "publish"}
    <3>1. Telling(c)' = Telling(c) /\ results' = results /\ sent' = sent
      BY <1>6, <2>3 DEF Telling, TaskStep, process_outbound_command, dispatch_command,
                        publish_event, ack, nak, outcome
    <3> QED
      BY <3>1 DEF Counted
  <2> QED
    BY <2>1, <2>2, <2>3
<1>10. \A m \in Deliveries : task'[c][m] \in {"publish", "ack"} => sent'[c] > 0
  <2>1. task'[c][n] \in {"publish", "ack"} => sent'[c] > 0
    BY <1>8 DEF TaskStep, process_outbound_command, dispatch_command, publish_event, ack, nak,
                Counted
  <2> QED
    BY <1>6, <1>8, <2>1 DEF Counted
<1>11. state'[c] = "acked" => sent'[c] > 0
  BY <1>8 DEF TaskStep, process_outbound_command, dispatch_command, publish_event, ack, nak,
              Acknowledge, queue, Counted
<1> QED
  BY <1>1, <1>2, <1>7, <1>8, <1>9, <1>10, <1>11 DEF Counted

\* A crash ends the tasks of all commands, tried or not.
LEMMA CountCrash == ASSUME NatsInv, TypeOK', Crash PROVE Counted'
<1> USE DEF NatsInv, TypeOK, Crash, queue
<1> SUFFICES ASSUME NEW c \in Commands
             PROVE  /\ \A n \in Deliveries : n > deliveries'[c] => task'[c][n] = "none"
                    /\ sent'[c] <= Cardinality(Tried(c)')
                    /\ results'[c] + Cardinality(Telling(c)') <= sent'[c]
                    /\ \A n \in Deliveries : task'[c][n] \in {"publish", "ack"} => sent'[c] > 0
                    /\ state'[c] = "acked" => sent'[c] > 0
  BY DEF Counted
<1>1. \A n \in Deliveries : task'[c][n] = IF task[c][n] = "none" THEN "none" ELSE "done"
  OBVIOUS
<1>2. Tried(c) \subseteq Tried(c)' /\ Tried(c)' \in SUBSET (1..MaxDeliver)
  BY <1>1 DEF Tried, Deliveries
<1>3. IsFiniteSet(Tried(c)') /\ Cardinality(Tried(c)') \in Nat
  BY <1>2, DeliverySets
<1>4. Cardinality(Tried(c)) <= Cardinality(Tried(c)') /\ Cardinality(Tried(c)) \in Nat
  BY <1>2, <1>3, FS_Subset, TriedInDeliveries
<1>5. Cardinality(Telling(c)') = 0
  BY <1>1, FS_EmptySet DEF Telling
<1>6. Cardinality(Telling(c)) \in Nat
  BY TellingFinite
<1> QED
  BY <1>1, <1>3, <1>4, <1>5, <1>6 DEF Counted

\* Every step keeps the counts.
LEMMA CountNext == NatsInv /\ TypeOK' /\ [Next]_vars => Counted'
<1> SUFFICES ASSUME NatsInv, TypeOK', [Next]_vars PROVE Counted'
  OBVIOUS
<1>1. ASSUME NEW c \in Commands, deliver(c) PROVE Counted'
  <2> USE DEF NatsInv, TypeOK, outcome
  <2>0. \A d \in Commands, n \in Deliveries :
           \/ task'[d][n] = task[d][n]
           \/ task[d][n] = "none" /\ task'[d][n] = "start"
    <3> DEFINE k == deliveries[c] + 1
    <3>1. k \in Deliveries /\ k > deliveries[c]
      BY <1>1 DEF deliver, Deliveries
    <3>2. task[c][k] = "none" /\ task' = [task EXCEPT ![c][k] = "start"]
      BY <1>1, <3>1 DEF deliver, Counted
    <3>3. task \in [Commands -> [Deliveries -> Steps]]
      OBVIOUS
    <3> HIDE DEF k, TypeOK, NatsInv
    <3> QED
      BY <3>1, <3>2, <3>3
  <2>1. \A d \in Commands : Tried(d)' = Tried(d) /\ Telling(d)' = Telling(d)
    <3>1. \A d \in Commands, n \in Deliveries :
             /\ task'[d][n] \in {"publish", "ack", "nak", "done"}
                  <=> task[d][n] \in {"publish", "ack", "nak", "done"}
             /\ task'[d][n] = "publish" <=> task[d][n] = "publish"
      BY <2>0
    <3> QED
      BY <3>1 DEF Tried, Telling
  <2>2. \A d \in Commands, n \in Deliveries :
           /\ n > deliveries'[d] => task'[d][n] = "none"
           /\ task'[d][n] \in {"publish", "ack"} => task[d][n] \in {"publish", "ack"}
    <3> DEFINE k == deliveries[c] + 1
    <3>1. /\ \A d \in Commands, n \in Deliveries : n > deliveries[d] => task[d][n] = "none"
          /\ k \in Deliveries
      <4>1. \A d \in Commands, n \in Deliveries : n > deliveries[d] => task[d][n] = "none"
        BY ONLY Counted DEF Counted
      <4>2. deliveries[c] < MaxDeliver /\ deliveries[c] \in 0..MaxDeliver
        BY <1>1 DEF deliver
      <4> QED
        BY <4>1, <4>2 DEF Deliveries
    <3>2. /\ deliveries' = [deliveries EXCEPT ![c] = k]
          /\ task' = [task EXCEPT ![c][k] = "start"]
      BY <1>1 DEF deliver
    <3>3. \A d \in Commands, n \in Deliveries :
             n > deliveries'[d] => n > deliveries[d] /\ task'[d][n] = task[d][n]
      <4>1. /\ deliveries \in [Commands -> 0..MaxDeliver]
            /\ task \in [Commands -> [Deliveries -> Steps]] /\ k > deliveries[c]
        OBVIOUS
      <4> HIDE DEF k, NatsInv, TypeOK
      <4> QED
        BY <3>1, <3>2, <4>1 DEF Deliveries
    <3> QED
      BY <2>0, <3>1, <3>3
  <2>3. \A d \in Commands : state'[d] = "acked" => state[d] = "acked"
    BY <1>1 DEF deliver
  <2>4. UNCHANGED <<sent, results>>
    BY <1>1 DEF deliver
  <2> QED
    BY <2>1, <2>2, <2>3, <2>4 DEF Counted
<1>2. ASSUME NEW c \in Commands, NEW n \in Deliveries, TaskStep(c, n) PROVE Counted'
  BY <1>2, CountTask
<1>3. CASE Crash
  BY <1>3, CountCrash
<1>4. CASE \/ reconnect \/ Flap \/ SessionConnects \/ start_consumer \/ UNCHANGED vars
           \/ \E c \in Commands : AckWaitExpires(c)
  <2>1. /\ UNCHANGED <<task, deliveries, sent, results>>
        /\ \A d \in Commands : state'[d] = "acked" => state[d] = "acked"
    BY <1>4 DEF reconnect, Flap, SessionConnects, start_consumer, vars, AckWaitExpires, queue,
                outcome, NatsInv, TypeOK
  <2>2. \A d \in Commands : Tried(d)' = Tried(d) /\ Telling(d)' = Telling(d)
    BY <2>1 DEF Tried, Telling
  <2> QED
    BY <2>1, <2>2 DEF Counted, NatsInv
<1> QED
  BY <1>1, <1>2, <1>3, <1>4 DEF Next

\* Without a fault, a command's deliveries follow one another.
LEMMA TurnNext == NatsInv /\ TypeOK' /\ [Next]_vars => InTurn'
<1> SUFFICES ASSUME NatsInv, TypeOK', [Next]_vars, NEW c \in Commands \ excused'
             PROVE
        /\ \A n \in Deliveries : task'[c][n] \notin {"none", "done"} => n = deliveries'[c]
        /\ state'[c] = "ready" => ~Working(c)' /\ sent'[c] = 0
        /\ state'[c] = "acked" => ~Working(c)' /\ sent'[c] = 1
        /\ state'[c] = "pending" =>
             /\ deliveries'[c] \in Deliveries /\ task'[c][deliveries'[c]] \notin {"none", "done"}
             /\ sent'[c] = IF task'[c][deliveries'[c]] \in {"publish", "ack"} THEN 1 ELSE 0
  BY DEF InTurn
<1> DEFINE Turn ==
        /\ \A n \in Deliveries : task'[c][n] \notin {"none", "done"} => n = deliveries'[c]
        /\ state'[c] = "ready" => ~Working(c)' /\ sent'[c] = 0
        /\ state'[c] = "acked" => ~Working(c)' /\ sent'[c] = 1
        /\ state'[c] = "pending" =>
             /\ deliveries'[c] \in Deliveries /\ task'[c][deliveries'[c]] \notin {"none", "done"}
             /\ sent'[c] = IF task'[c][deliveries'[c]] \in {"publish", "ack"} THEN 1 ELSE 0
<1> USE DEF NatsInv, TypeOK
<1>1. c \notin excused
  BY DEF Next, deliver, AckWaitExpires, TaskStep, process_outbound_command, dispatch_command,
         publish_event, ack, nak, Acknowledge, reconnect, Flap, SessionConnects, Crash,
         start_consumer, vars, outcome
<1>2. CASE UNCHANGED <<task[c], deliveries[c], state[c], sent[c]>>
  BY <1>1, <1>2 DEF InTurn, Working
<1>3. CASE deliver(c)
  BY <1>1, <1>3 DEF deliver, InTurn, Working, outcome, Deliveries
<1>4. ASSUME NEW n \in Deliveries, TaskStep(c, n) PROVE Turn
  <2>1. /\ n = deliveries[c] /\ state[c] = "pending" /\ deliveries' = deliveries
        /\ task' = [task EXCEPT ![c][n] = task'[c][n]]
    <3>1. task[c][n] \notin {"none", "done"}
      BY <1>4 DEF TaskStep, process_outbound_command, dispatch_command, publish_event, ack,
                  nak, TaskTo
    <3>2. n = deliveries[c] /\ state[c] = "pending"
      BY <1>1, <3>1 DEF InTurn, Working
    <3> QED
      BY <1>4, <3>2 DEF TaskStep, process_outbound_command, dispatch_command, publish_event,
                        ack, nak, TaskTo, queue
  <2>2. \A m \in Deliveries \ {n} : task'[c][m] = task[c][m] /\ task[c][m] \in {"none", "done"}
    BY <1>1, <2>1 DEF InTurn
  <2>3. CASE process_outbound_command(c, n) \/ dispatch_command(c, n) \/ publish_event(c, n)
    <3>1. state'[c] = "pending" /\ task'[c][n] \in {"send", "publish", "ack", "nak"}
      BY <2>1, <2>3 DEF process_outbound_command, dispatch_command, publish_event, TaskTo, queue
    <3>2. sent'[c] = IF task'[c][n] \in {"publish", "ack"} THEN 1 ELSE 0
      BY <1>1, <2>1, <2>3 DEF process_outbound_command, dispatch_command, publish_event,
                              TaskTo, outcome, InTurn
    <3> QED
      BY <2>1, <2>2, <3>1, <3>2
  <2>4. CASE ack(c, n) \/ nak(c, n)
    <3>1. task'[c][n] = "done" /\ sent' = sent
      BY <2>4 DEF ack, nak, TaskTo
    <3>2. \/ task[c][n] = "ack" /\ state'[c] = "acked"
          \/ task[c][n] = "nak" /\ state'[c] = "ready"
      BY <2>1, <2>4 DEF ack, nak, TaskTo, Acknowledge
    <3>3. sent[c] = IF task[c][n] = "ack" THEN 1 ELSE 0
      BY <1>1, <2>1, <3>2 DEF InTurn
    <3>4. ~Working(c)'
      BY <2>2, <3>1 DEF Working
    <3> QED
      BY <2>2, <3>1, <3>2, <3>3, <3>4
  <2> QED
    BY <1>4, <2>3, <2>4 DEF TaskStep
<1>5. CASE AckWaitExpires(c)
  BY <1>1, <1>5 DEF AckWaitExpires, InTurn, Working
<1>6. CASE Crash
  <2>1. ~Working(c) /\ UNCHANGED <<deliveries, state, sent>>
    BY <1>6 DEF Crash, queue
  <2>2. task'[c] = task[c]
    BY <1>6, <2>1 DEF Crash, Working
  <2> QED
    BY <1>2, <2>1, <2>2
<1>7. CASE \E d \in Commands \ {c} : deliver(d) \/ AckWaitExpires(d) \/ \E n \in Deliveries : TaskStep(d, n)
  BY <1>2, <1>7 DEF deliver, AckWaitExpires, TaskStep, process_outbound_command,
                    dispatch_command, publish_event, ack, nak, Acknowledge, TaskTo, queue, outcome
<1>8. CASE reconnect \/ Flap \/ SessionConnects \/ start_consumer \/ UNCHANGED vars
  BY <1>2, <1>8 DEF reconnect, Flap, SessionConnects, start_consumer, vars, queue, outcome
<1> QED
  BY <1>3, <1>4, <1>5, <1>6, <1>7, <1>8 DEF Next

LEMMA NatsNext == NatsInv /\ [Next]_vars => NatsInv'
BY NatsTypes, CountNext, TurnNext DEF NatsInv

\* nats/consumer.rs: what queue and results say of a command is what became of its
\* message, which is repeated only where at-least-once delivery allows it.
THEOREM CommandsTrue == FlowsSpec => []CommandsAreTrue
<1>1. ASSUME NatsInv PROVE CommandsAreTrue
  <2>1. TypeOK
    BY <1>1 DEF NatsInv
  <2>2. ResultIsTrue
    <3> SUFFICES ASSUME NEW c \in Commands PROVE results[c] <= sent[c]
      BY DEF ResultIsTrue
    <3>1. results[c] \in Nat /\ sent[c] \in Nat
      BY <1>1 DEF NatsInv, TypeOK
    <3>2. results[c] + Cardinality(Telling(c)) <= sent[c]
      BY <1>1 DEF NatsInv, Counted
    <3> QED
      BY <3>1, <3>2, TellingFinite
  <2>3. AckedIsSent
    BY <1>1 DEF NatsInv, Counted, AckedIsSent
  <2>4. BoundedSends
    <3> SUFFICES ASSUME NEW c \in Commands PROVE sent[c] <= deliveries[c]
      BY DEF BoundedSends
    <3>1. sent[c] \in Nat /\ deliveries[c] \in Nat
      BY <1>1 DEF NatsInv, TypeOK
    <3>2. sent[c] <= Cardinality(Tried(c))
      BY <1>1 DEF NatsInv, Counted
    <3>3. Cardinality(Tried(c)) \in Nat /\ Cardinality(Tried(c)) <= deliveries[c]
      BY <1>1, TriedInDeliveries DEF NatsInv
    <3> QED
      BY <3>1, <3>2, <3>3
  <2>5. DuplicatesAreExcused
    BY <1>1 DEF NatsInv, TypeOK, InTurn, DuplicatesAreExcused
  <2> QED
    BY <2>1, <2>2, <2>3, <2>4, <2>5 DEF CommandsAreTrue
<1> QED
  BY <1>1, OneAtATime, NatsInit, NatsNext, PTL DEF FlowsSpec, FlowsInit

-----------------------------------------------------------------------------
(* The tail of the event ring *)

USE StreamsAssumption


\* The ring holds the last events, numbered without gaps.
Numbered ==
    /\ Len(ring) <= pushed
    /\ pushed > 0 => ring # << >>
    /\ \A i \in 1..Len(ring) : ring[i].id = pushed - Len(ring) + i

\* What is sent, or lined up, was pushed, and nothing is before the look and
\* between two of them.
LinedUp ==
    /\ \A e \in Tailing!Sent : e.id <= pushed
    /\ pc = "new" => out = << >> /\ pend = {} /\ last_at = 0
    /\ pc \in {"poll", "done"} => pend = {}

Seen == Tailing!Sent \cup Tailing!ToSet(ring)

\* Events have the order of their timestamps, last_at is the greatest one sent,
\* and what is lined up comes after what was sent.
Sorted ==
    /\ \A d, e \in Seen : d.id = e.id => d = e
    /\ \A d, e \in Seen : d.id < e.id => d.at <= e.at
    /\ \A d \in Tailing!Sent : d.at <= last_at
    /\ last_at > 0 /\ pc # "done" => \E d \in Tailing!Sent : d.at = last_at
    /\ \A i \in 1..Len(out), e \in pend : out[i].id < e.id

TailInv ==
    /\ Tailing!TypeOK /\ Numbered /\ LinedUp
    /\ ~unsorted => Sorted
    /\ Tailing!InOrder /\ Tailing!MissedIsTied

TailTyped == Tailing!TypeOK /\ Numbered /\ LinedUp

\* The newest of a sequence are its end.
LEMMA NewestAre ==
    ASSUME NEW S, NEW s \in Seq(S), NEW k \in Nat \ {0}
    PROVE  /\ Tailing!Newest(s, k) \in Seq(S)
           /\ Len(Tailing!Newest(s, k)) = IF Len(s) <= k THEN Len(s) ELSE k
           /\ \A i \in 1..Len(Tailing!Newest(s, k)) :
                Tailing!Newest(s, k)[i] = s[Len(s) - Len(Tailing!Newest(s, k)) + i]
<1>1. CASE Len(s) <= k
  BY <1>1 DEF Tailing!Newest
<1>2. CASE ~(Len(s) <= k)
  <2> DEFINE m == Len(s) - k + 1
  <2>1. m \in 1..Len(s) /\ m \in 1..Len(s)+1 /\ Len(s) \in m-1..Len(s) /\ Len(s) - m + 1 = k
    BY <1>2
  <2>2. /\ SubSeq(s, m, Len(s)) \in Seq(S) /\ Len(SubSeq(s, m, Len(s))) = k
        /\ \A i \in 1..k : SubSeq(s, m, Len(s))[i] = s[m + i - 1]
    BY <2>1, SubSeqProperties
  <2>3. \A i \in 1..k : m + i - 1 = Len(s) - k + i
    BY <2>1
  <2> QED
    BY <1>2, <2>2, <2>3 DEF Tailing!Newest
<1> QED
  BY <1>1, <1>2

LEMMA SetOf == ASSUME NEW S, NEW s \in Seq(S)
               PROVE  Tailing!ToSet(s) = {s[i] : i \in 1..Len(s)} /\ Tailing!ToSet(s) \in SUBSET S
BY DEF Tailing!ToSet

\* At first nothing was pushed.
LEMMA TailInit == ASSUME Tailing!Init PROVE TailInv
<1>1. ring = << >> /\ out = << >> /\ pend = {}
  BY DEF Tailing!Init
<1>2. Tailing!ToSet(out) = {} /\ Tailing!ToSet(ring) = {} /\ Tailing!Sent = {}
  BY <1>1 DEF Tailing!ToSet, Tailing!Sent
<1>3. Tailing!TypeOK
  <2>1. << >> \in Seq(Tailing!Entry) /\ Len(<< >>) = 0 /\ {} \in SUBSET Tailing!Entry
    OBVIOUS
  <2>2. RingSize \in Nat /\ Capacity \in Nat /\ MaxTime \in Nat \ {0} /\ TailEvents \in Nat \ {0}
    OBVIOUS
  <2>3. /\ now \in 1..MaxTime /\ pushed \in 0..TailEvents /\ queued \in 0..Capacity
        /\ last_at \in 0..MaxTime /\ since \in 1..TailEvents /\ Len(ring) <= RingSize
    BY <1>1, <2>1, <2>2 DEF Tailing!Init
  <2>4. stamp \in [Pushers -> 0..MaxTime]
    BY <2>2 DEF Tailing!Init
  <2> QED
    BY <1>1, <2>1, <2>3, <2>4 DEF Tailing!Init, Tailing!TypeOK
<1>4. Numbered /\ LinedUp
  BY <1>1, <1>2 DEF Tailing!Init, Numbered, LinedUp
<1>5. Sorted
  BY <1>1, <1>2 DEF Tailing!Init, Sorted, Seen
<1>6. Tailing!InOrder /\ Tailing!MissedIsTied
  BY <1>1, <1>2 DEF Tailing!Init, Tailing!InOrder, Tailing!MissedIsTied, Tailing!Missed
<1> QED
  BY <1>3, <1>4, <1>5, <1>6 DEF TailInv

\* A push drops the oldest event of a full ring, and adds one at the end.
LEMMA Pushed ==
    ASSUME TailTyped, NEW p \in Pushers, Tailing!push_event(p)
    PROVE  /\ TailTyped'
           /\ \E e \in Tailing!Entry :
                /\ e.id = pushed + 1 /\ e.at = stamp[p]
                /\ Tailing!ToSet(ring)' \subseteq Tailing!ToSet(ring) \cup {e}
                /\ ring = << >> => pushed = 0
                /\ ring # << >> => ring[Len(ring)].id = pushed /\ ring[Len(ring)] \in Tailing!ToSet(ring)
<1>1. PICK hit \in BOOLEAN : ring' = Tailing!Newest(Append(ring, Tailing!Event(pushed + 1, stamp[p], hit)), RingSize)
  BY DEF Tailing!push_event
<1> DEFINE e == Tailing!Event(pushed + 1, stamp[p], hit)
           s == Append(ring, e)
<1>2. /\ stamp[p] > 0 /\ pushed < TailEvents /\ pushed' = pushed + 1
      /\ stamp' = [stamp EXCEPT ![p] = 0]
      /\ UNCHANGED <<now, pc, pend, queued, last_at, since, out, connected>>
      /\ unsorted' \in BOOLEAN
  BY DEF Tailing!push_event, Tailing!tail
<1>3. /\ stamp \in [Pushers -> 0..MaxTime] /\ pushed \in 0..TailEvents /\ Len(ring) <= RingSize
      /\ ring \in Seq(Tailing!Entry) /\ Len(ring) <= pushed /\ (pushed > 0 => ring # << >>)
      /\ \A i \in 1..Len(ring) : ring[i].id = pushed - Len(ring) + i
  BY DEF TailTyped, Tailing!TypeOK, Numbered
<1>t. Tailing!TypeOK
  BY DEF TailTyped
<1>4. e \in Tailing!Entry /\ e.id = pushed + 1 /\ e.at = stamp[p]
  BY <1>2, <1>3 DEF Tailing!Entry, Tailing!Event
<1> HIDE DEF e
<1>5. /\ s \in Seq(Tailing!Entry) /\ Len(s) = Len(ring) + 1 /\ s[Len(ring) + 1] = e
      /\ \A i \in 1..Len(ring) : s[i] = ring[i]
  BY <1>3, <1>4
<1>6. \A i \in 1..Len(s) : s[i].id = pushed + 1 - Len(s) + i
  BY <1>3, <1>4, <1>5
<1> HIDE DEF s
<1>7. /\ ring' \in Seq(Tailing!Entry) /\ Len(ring') = IF Len(s) <= RingSize THEN Len(s) ELSE RingSize
      /\ \A i \in 1..Len(ring') : ring'[i] = s[Len(s) - Len(ring') + i]
  <2>1. ring' = Tailing!Newest(s, RingSize)
    BY <1>1 DEF s, e
  <2>2. RingSize \in Nat \ {0} /\ s \in Seq(Tailing!Entry)
    BY <1>5
  <2>3. /\ Tailing!Newest(s, RingSize) \in Seq(Tailing!Entry)
        /\ Len(Tailing!Newest(s, RingSize)) = IF Len(s) <= RingSize THEN Len(s) ELSE RingSize
        /\ \A i \in 1..Len(Tailing!Newest(s, RingSize)) :
             Tailing!Newest(s, RingSize)[i] = s[Len(s) - Len(Tailing!Newest(s, RingSize)) + i]
    BY ONLY <2>2, NewestAre
  <2> QED
    BY ONLY <2>1, <2>3
<1>8. /\ Len(ring') \in Nat /\ Len(s) \in Nat /\ Len(ring') <= Len(s) /\ Len(ring') > 0
      /\ Len(ring') <= RingSize /\ Len(ring) \in Nat /\ Len(s) = Len(ring) + 1
  <2>1. Len(ring') \in Nat /\ Len(s) \in Nat /\ Len(ring) \in Nat
    BY <1>3, <1>5, <1>7
  <2> QED
    BY ONLY <2>1, <1>5, <1>7, StreamsAssumption
<1>9. Numbered'
  <2>1. ASSUME NEW i \in 1..Len(ring') PROVE ring'[i].id = pushed' - Len(ring') + i
    <3> DEFINE j == Len(s) - Len(ring') + i
    <3>1. j \in 1..Len(s) /\ ring'[i] = s[j]
      BY ONLY <1>7, <1>8, i \in 1..Len(ring')
    <3>2. s[j].id = pushed + 1 - Len(s) + j
      BY <3>1, <1>6
    <3>3. pushed' = pushed + 1
      BY <1>2
    <3> HIDE DEF s
    <3> QED
      BY ONLY <3>1, <3>2, <3>3, <1>3, <1>8, i \in 1..Len(ring')
  <2>2. Len(ring') <= pushed + 1
    BY ONLY <1>3, <1>8
  <2>3. ring' # << >>
    BY <1>8
  <2> QED
    BY <1>2, <2>1, <2>2, <2>3 DEF Numbered
<1>10. Tailing!TypeOK'
  <2>1. pushed' \in 0..TailEvents /\ stamp' \in [Pushers -> 0..MaxTime]
    BY <1>2, <1>3
  <2> QED
    BY ONLY <1>2, <1>7, <1>8, <2>1, <1>t DEF Tailing!TypeOK, Tailing!Entry
<1>11. Tailing!Sent' = Tailing!Sent
  BY <1>2 DEF Tailing!Sent, Tailing!ToSet
<1>12. LinedUp'
  <2>1. ASSUME NEW d \in Tailing!Sent PROVE d.id <= pushed + 1
    <3>1. d \in Tailing!Entry /\ d.id <= pushed
      BY SetOf DEF TailTyped, LinedUp, Tailing!TypeOK, Tailing!Sent
    <3> QED
      BY ONLY <3>1, <1>3, StreamsAssumption DEF Tailing!Entry
  <2> QED
    BY <1>2, <1>11, <2>1 DEF TailTyped, LinedUp
<1>13. Tailing!ToSet(ring)' \subseteq Tailing!ToSet(ring) \cup {e}
  <2>1. ASSUME NEW i \in 1..Len(ring') PROVE ring'[i] \in Tailing!ToSet(ring) \cup {e}
    <3>1. Len(s) - Len(ring') + i \in 1..Len(s)
      BY <1>8
    <3>2. ASSUME NEW j \in 1..Len(s) PROVE s[j] \in Tailing!ToSet(ring) \cup {e}
      <4>1. j \in 1..Len(ring) \/ j = Len(ring) + 1
        BY <1>8
      <4>2. j \in 1..Len(ring) => ring[j] \in Tailing!ToSet(ring)
        BY <1>3, SetOf
      <4> QED
        BY <4>1, <4>2, <1>5
    <3> QED
      BY <3>1, <3>2, <1>7
  <2> QED
    BY <2>1, <1>7, SetOf DEF Tailing!ToSet
<1>14. ring # << >> => ring[Len(ring)].id = pushed /\ ring[Len(ring)] \in Tailing!ToSet(ring)
  <2>1. SUFFICES ASSUME ring # << >> PROVE ring[Len(ring)].id = pushed /\ ring[Len(ring)] \in Tailing!ToSet(ring)
    OBVIOUS
  <2>2. Len(ring) \in 1..Len(ring)
    BY <2>1, <1>3
  <2> QED
    BY <2>2, <1>3, SetOf
<1> QED
  BY <1>3, <1>4, <1>9, <1>10, <1>12, <1>13, <1>14 DEF TailTyped

\* The parts of the invariant, by themselves.
LEMMA TailParts ==
    ASSUME TailTyped
    PROVE  /\ ring \in Seq(Tailing!Entry) /\ out \in Seq(Tailing!Entry) /\ pend \in SUBSET Tailing!Entry
           /\ \A e \in Tailing!Entry : e.id \in Nat /\ e.at \in Nat
           /\ Tailing!Sent \in SUBSET Tailing!Entry /\ Seen \in SUBSET Tailing!Entry
           /\ \A e \in Seen : e.id <= pushed
           /\ pushed \in Nat /\ last_at \in Nat /\ since \in Nat
           /\ Len(ring) \in Nat /\ Len(ring) <= pushed
           /\ Tailing!ToSet(out) = {out[i] : i \in 1..Len(out)}
<1>1. /\ ring \in Seq(Tailing!Entry) /\ out \in Seq(Tailing!Entry) /\ pend \in SUBSET Tailing!Entry
      /\ pushed \in 0..TailEvents /\ last_at \in 0..MaxTime /\ since \in 1..TailEvents
  BY DEF TailTyped, Tailing!TypeOK
<1>2. \A e \in Tailing!Entry : e.id \in Nat /\ e.at \in Nat
  BY DEF Tailing!Entry
<1>3. /\ Tailing!ToSet(out) = {out[i] : i \in 1..Len(out)} /\ Tailing!ToSet(out) \in SUBSET Tailing!Entry
      /\ Tailing!ToSet(ring) = {ring[i] : i \in 1..Len(ring)} /\ Tailing!ToSet(ring) \in SUBSET Tailing!Entry
  BY <1>1, SetOf
<1>4. Tailing!Sent \in SUBSET Tailing!Entry /\ Seen \in SUBSET Tailing!Entry
  BY <1>1, <1>3 DEF Tailing!Sent, Seen
<1>5. pushed \in Nat /\ last_at \in Nat /\ since \in Nat
  BY <1>1
<1>6. Len(ring) \in Nat /\ Len(ring) <= pushed
  BY <1>1 DEF TailTyped, Numbered
<1>7. ASSUME NEW e \in Tailing!ToSet(ring) PROVE e.id <= pushed
  <2>1. PICK i \in 1..Len(ring) : e = ring[i]
    BY <1>3
  <2>2. e.id = pushed - Len(ring) + i
    BY <2>1 DEF TailTyped, Numbered
  <2> QED
    BY ONLY <1>5, <1>6, <2>1, <2>2
<1> QED
  BY <1>1, <1>2, <1>3, <1>4, <1>5, <1>6, <1>7 DEF TailTyped, LinedUp, Seen

\* An event that is pushed is the last one, also by its timestamp unless it was
\* overtaken; one with the timestamp of last_at is tied.
LEMMA PushKeeps ==
    ASSUME TailInv, NEW p \in Pushers, Tailing!push_event(p)
    PROVE  TailInv'
<1>1. TailTyped /\ TailTyped'
  BY Pushed DEF TailInv, TailTyped
<1>2. PICK e \in Tailing!Entry :
        /\ e.id = pushed + 1 /\ e.at = stamp[p]
        /\ Tailing!ToSet(ring)' \subseteq Tailing!ToSet(ring) \cup {e}
        /\ ring = << >> => pushed = 0
        /\ ring # << >> => ring[Len(ring)].id = pushed /\ ring[Len(ring)] \in Tailing!ToSet(ring)
  BY <1>1, Pushed
<1>3. /\ unsorted' = (unsorted \/ Tailing!LatestAt(ring) > stamp[p])
      /\ UNCHANGED <<now, pc, pend, queued, last_at, since, out, connected>>
  BY DEF Tailing!push_event, Tailing!tail
<1>4. Tailing!Sent' = Tailing!Sent /\ Seen' \subseteq Seen \cup {e} /\ Tailing!Sent \subseteq Seen
  BY <1>2, <1>3 DEF Tailing!Sent, Tailing!ToSet, Seen
<1>5. Tailing!InOrder'
  BY <1>3 DEF TailInv, Tailing!InOrder
<1>6. CASE unsorted'
  BY <1>1, <1>5, <1>6 DEF TailInv, TailTyped, Tailing!MissedIsTied
<1>7. CASE ~unsorted'
  <2>1. ~unsorted /\ Sorted /\ ~(Tailing!LatestAt(ring) > stamp[p])
    BY <1>3, <1>7 DEF TailInv
  <2>2. /\ \A d \in Seen : d \in Tailing!Entry /\ d.id \in Nat /\ d.at \in Nat /\ d.id <= pushed
        /\ e.id \in Nat /\ e.at \in Nat /\ pushed \in Nat /\ last_at \in Nat
    BY <1>1, <1>2, TailParts
  <2>3. ASSUME NEW d \in Seen PROVE d.id < e.id /\ d.at <= e.at
    <3>1. d.id < e.id
      BY ONLY <1>2, <2>2, d \in Seen
    <3>2. CASE ring = << >>
      <4>1. d.id >= 1
        <5>1. d \in Tailing!Entry
          BY <2>2
        <5>2. d.id \in 1..TailEvents
          BY <5>1 DEF Tailing!Entry
        <5> QED
          BY ONLY <5>2, StreamsAssumption
      <4> QED
        BY ONLY <1>2, <2>2, <3>2, <4>1, d \in Seen
    <3>3. CASE ring # << >>
      <4> DEFINE l == ring[Len(ring)]
      <4>1. l \in Seen /\ l.id = pushed /\ ~(l.at > stamp[p])
        BY <1>2, <2>1, <3>3 DEF Seen, Tailing!LatestAt
      <4>2. d.at <= l.at
        <5>1. d.id < l.id \/ d.id = l.id
          BY <2>2, <4>1
        <5>2. d.id = l.id => d = l
          BY <2>1, <4>1 DEF Sorted
        <5>3. d.id < l.id => d.at <= l.at
          BY <2>1, <4>1 DEF Sorted
        <5> QED
          BY <2>2, <4>1, <5>1, <5>2, <5>3
      <4>3. l.at \in Nat /\ d.at \in Nat /\ e.at \in Nat /\ e.at = stamp[p]
        BY <1>2, <2>2, <4>1
      <4> HIDE DEF l
      <4> QED
        BY ONLY <3>1, <4>1, <4>2, <4>3
    <3> QED
      BY <3>2, <3>3
  <2>4. Sorted'
    <3>1. ASSUME NEW d \in Seen', NEW f \in Seen' PROVE (d.id = f.id => d = f) /\ (d.id < f.id => d.at <= f.at)
      <4>1. (d \in Seen \/ d = e) /\ (f \in Seen \/ f = e)
        BY <1>4
      <4>2. CASE d \in Seen /\ f \in Seen
        BY <4>2, <2>1 DEF Sorted
      <4>3. CASE d \in Seen /\ f = e
        BY <4>3, <2>2, <2>3
      <4>4. CASE d = e /\ f \in Seen
        <5>1. f.id < e.id /\ f.id \in Nat /\ e.id \in Nat
          BY <2>2, <2>3, <4>4
        <5> QED
          BY <5>1, <4>4
      <4>5. CASE d = e /\ f = e
        BY <4>5, <2>2
      <4> QED
        BY <4>1, <4>2, <4>3, <4>4, <4>5
    <3> QED
      BY <3>1, <1>3, <1>4, <2>1 DEF Sorted
  <2>5. Tailing!MissedIsTied'
    <3>1. SUFFICES ASSUME pc \notin {"new", "done"}, NEW f \in Tailing!Missed'
                   PROVE  \E d \in Tailing!Sent : d.at = f.at /\ d.id < f.id
      BY <1>3, <1>4 DEF Tailing!MissedIsTied
    <3>2. /\ f \in Tailing!ToSet(ring)' /\ Tailing!matches(f) /\ f.id >= since /\ f.at <= last_at
          /\ f \notin Tailing!Sent
      BY <1>3, <1>4 DEF Tailing!Missed, Tailing!matches
    <3>3. CASE f \in Tailing!ToSet(ring)
      <4>1. f \in Tailing!Missed
        BY <3>2, <3>3 DEF Tailing!Missed
      <4> QED
        BY <4>1, <3>1, <2>1 DEF TailInv, Tailing!MissedIsTied
    <3>4. CASE f = e
      <4>1. last_at > 0
        <5>1. e.at \in 1..MaxTime
          BY DEF Tailing!Entry
        <5> QED
          BY ONLY <5>1, <2>2, <3>2, <3>4, StreamsAssumption
      <4>2. PICK d \in Tailing!Sent : d.at = last_at
        BY <4>1, <3>1, <2>1 DEF Sorted
      <4>3. d \in Seen /\ d.id < e.id /\ d.at <= e.at /\ d.at \in Nat
        BY <4>2, <1>4, <2>2, <2>3
      <4>4. d.at = e.at
        BY ONLY <4>2, <4>3, <2>2, <3>2, <3>4
      <4> QED
        BY <4>3, <4>4, <3>4
    <3> QED
      BY <3>2, <3>3, <3>4, <1>2
  <2> QED
    BY <1>1, <1>5, <2>4, <2>5 DEF TailInv, TailTyped
<1> QED
  BY <1>6, <1>7

\* Events of the ring that are later than last_at are lined up in order.
LEMMA LineUpSorts ==
    ASSUME TailTyped, Sorted, pend = {}, NEW es \in SUBSET Tailing!ToSet(ring),
           \A e \in es : e.at > last_at,
           Tailing!LineUp(es), UNCHANGED <<ring, out>>, pc # "done"
    PROVE  /\ Sorted'
           /\ Tailing!Sent' = Tailing!Sent \cup es
           /\ last_at' \in 0..MaxTime /\ pend' = es /\ last_at' >= last_at
<1>1. /\ ring \in Seq(Tailing!Entry) /\ out \in Seq(Tailing!Entry)
      /\ \A e \in Tailing!Entry : e.id \in Nat /\ e.at \in Nat
      /\ Tailing!Sent \in SUBSET Tailing!Entry /\ Seen \in SUBSET Tailing!Entry
      /\ last_at \in Nat /\ Tailing!ToSet(out) = {out[i] : i \in 1..Len(out)}
  BY TailParts
<1>2. Tailing!Sent' = Tailing!Sent \cup es /\ pend' = es
  BY DEF Tailing!LineUp, Tailing!Sent, Tailing!ToSet
<1>3. Seen' \subseteq Seen /\ es \subseteq Seen /\ Tailing!Sent \subseteq Seen
  BY <1>2 DEF Seen, Tailing!ToSet
<1>4. \A d \in Seen : d.id \in Nat /\ d.at \in Nat
  BY <1>1
<1>5. last_at \in 0..MaxTime
  BY DEF TailTyped, Tailing!TypeOK
<1>6. \A d \in Tailing!Sent : d.at <= last_at
  BY DEF Sorted
<1>7. /\ last_at' \in 0..MaxTime /\ last_at' >= last_at
      /\ \A d \in Tailing!Sent' : d.at <= last_at'
      /\ last_at' > 0 => \E d \in Tailing!Sent' : d.at = last_at'
  <2>1. CASE es = {} /\ UNCHANGED last_at
    BY <2>1, <1>1, <1>2, <1>5, <1>6 DEF Sorted
  <2>2. CASE es # {}
    <3>1. PICK e \in es : (\A d \in es : d.id <= e.id) /\ last_at' = e.at
      BY <2>2 DEF Tailing!LineUp
    <3>2. e \in Seen /\ e.at > last_at /\ e.at \in Nat
      BY <1>3, <1>4, <3>1
    <3>3. e.at \in 0..MaxTime
      <4>1. e \in Tailing!Entry
        BY <1>1, <3>2
      <4>2. e.at \in 1..MaxTime
        BY <4>1 DEF Tailing!Entry
      <4> QED
        BY <4>2
    <3>4. ASSUME NEW d \in es PROVE d.at <= e.at
      <4>1. d \in Seen /\ e \in Seen /\ d.id <= e.id /\ d.id \in Nat /\ e.id \in Nat /\ e.at \in Nat
        BY <1>3, <1>4, <3>1
      <4>2. d.id = e.id => d = e
        BY <4>1 DEF Sorted
      <4>3. d.id < e.id => d.at <= e.at
        BY <4>1 DEF Sorted
      <4> QED
        BY <4>1, <4>2, <4>3
    <3>5. ASSUME NEW d \in Tailing!Sent PROVE d.at <= e.at
      <4>1. d.at <= last_at /\ d.at \in Nat /\ e.at > last_at /\ e.at \in Nat /\ last_at \in Nat
        BY <1>1, <1>3, <1>4, <1>6, <3>2
      <4> QED
        BY ONLY <4>1
    <3> QED
      BY <1>1, <1>2, <3>1, <3>2, <3>3, <3>4, <3>5
  <2> QED
    BY <2>1, <2>2 DEF Tailing!LineUp
<1>8. ASSUME NEW i \in 1..Len(out'), NEW e \in pend' PROVE out'[i].id < e.id
  <2>1. out[i] \in Tailing!Sent /\ out[i] \in Seen /\ e \in es /\ e \in Seen
    BY <1>1, <1>2, <1>3 DEF Tailing!Sent
  <2>2. /\ out[i].at <= last_at /\ e.at > last_at /\ out[i].at \in Nat /\ e.at \in Nat
        /\ last_at \in Nat /\ out[i].id \in Nat /\ e.id \in Nat
    BY <1>1, <1>4, <1>6, <2>1
  <2>3. e.id = out[i].id => e = out[i]
    BY <2>1 DEF Sorted
  <2>4. e.id < out[i].id => e.at <= out[i].at
    BY <2>1 DEF Sorted
  <2>5. e # out[i] /\ ~(e.at <= out[i].at)
    BY ONLY <2>2
  <2> QED
    BY <2>2, <2>3, <2>4, <2>5
<1>9. \A d, e \in Seen' : (d.id = e.id => d = e) /\ (d.id < e.id => d.at <= e.at)
  BY <1>3 DEF Sorted
<1> QED
  BY <1>2, <1>7, <1>8, <1>9 DEF Sorted

\* What is lined up was pushed.
LEMMA LineUpTyped ==
    ASSUME TailTyped, NEW es \in SUBSET Tailing!ToSet(ring), Tailing!LineUp(es),
           UNCHANGED <<ring, pushed, out>>
    PROVE  /\ Tailing!Sent' \subseteq Seen /\ pend' = es /\ pend' \in SUBSET Tailing!Entry
           /\ \A e \in Tailing!Sent' : e.id <= pushed' 
           /\ last_at' \in 0..MaxTime
<1>1. pend' = es /\ Tailing!Sent' \subseteq Seen
  BY DEF Tailing!LineUp, Tailing!Sent, Tailing!ToSet, Seen
<1>2. Seen \in SUBSET Tailing!Entry /\ \A e \in Seen : e.id <= pushed
  BY TailParts
<1>3. es \in SUBSET Tailing!Entry
  BY <1>2 DEF Seen
<1>4. last_at' = last_at \/ \E e \in es : last_at' = e.at
  BY DEF Tailing!LineUp
<1>5. last_at \in 0..MaxTime /\ \A e \in Tailing!Entry : e.at \in 0..MaxTime
  BY DEF TailTyped, Tailing!TypeOK, Tailing!Entry
<1>6. last_at' \in 0..MaxTime
  BY <1>3, <1>4, <1>5
<1> QED
  BY <1>1, <1>2, <1>3, <1>6

\* The handler takes the backlog, and nothing after it is left out.
LEMMA ConnectKeeps ==
    ASSUME TailInv, Tailing!connect
    PROVE  TailInv'
<1> DEFINE t == Tailing!recent_events(Backlog)
           es == {e \in Tailing!ToSet(t) : Tailing!matches(e)}
<1>1. /\ pc = "new" /\ pc' = "backlog" /\ Tailing!LineUp(es)
      /\ since' = IF ring = << >> THEN 1 ELSE t[1].id
      /\ UNCHANGED <<now, stamp, ring, pushed, unsorted, queued, out, connected>>
  BY DEF Tailing!connect, Tailing!events
<1>2. TailTyped /\ out = << >> /\ pend = {} /\ last_at = 0
  BY <1>1 DEF TailInv, TailTyped, LinedUp
<1>3. /\ ring \in Seq(Tailing!Entry) /\ Len(ring) \in Nat /\ pushed \in Nat /\ Len(ring) <= pushed
      /\ Seen \in SUBSET Tailing!Entry
      /\ \A i \in 1..Len(ring) : ring[i].id = pushed - Len(ring) + i
  BY <1>2, TailParts DEF TailTyped, Numbered
<1>4. /\ t \in Seq(Tailing!Entry) /\ Len(t) = IF Len(ring) <= Backlog THEN Len(ring) ELSE Backlog
      /\ \A i \in 1..Len(t) : t[i] = ring[Len(ring) - Len(t) + i]
  BY ONLY <1>3, NewestAre, StreamsAssumption DEF Tailing!recent_events
<1> HIDE DEF t
<1>5. /\ Tailing!ToSet(t) = {t[i] : i \in 1..Len(t)} /\ Tailing!ToSet(ring) = {ring[i] : i \in 1..Len(ring)}
  BY <1>3, <1>4, SetOf
<1>6. Len(t) \in Nat /\ Len(t) <= Len(ring) /\ (Len(t) = 0 => Len(ring) = 0)
  BY ONLY <1>3, <1>4, StreamsAssumption
<1>7. es \in SUBSET Tailing!ToSet(ring)
  <2>1. ASSUME NEW i \in 1..Len(t) PROVE t[i] \in Tailing!ToSet(ring)
    <3>1. Len(ring) - Len(t) + i \in 1..Len(ring)
      BY ONLY <1>3, <1>6, i \in 1..Len(t)
    <3> QED
      BY <3>1, <1>4, <1>5
  <2> QED
    BY <2>1, <1>5
<1>8. /\ Tailing!Sent' \subseteq Seen /\ pend' = es /\ pend' \in SUBSET Tailing!Entry
      /\ \A e \in Tailing!Sent' : e.id <= pushed'
      /\ last_at' \in 0..MaxTime
  BY <1>1, <1>2, <1>7, LineUpTyped
<1> HIDE DEF es
<1>9. since' \in 1..TailEvents
  <2>1. CASE ring = << >>
    BY <2>1, <1>1, StreamsAssumption
  <2>2. CASE ring # << >>
    <3>1. 1 \in 1..Len(t)
      BY <2>2, <1>3, <1>6
    <3>2. t[1] \in Tailing!Entry
      BY <3>1, <1>4
    <3> QED
      BY <3>2, <1>1, <2>2 DEF Tailing!Entry
  <2> QED
    BY <2>1, <2>2
<1>10. TailTyped'
  <2>1. Tailing!TypeOK'
    BY <1>1, <1>2, <1>8, <1>9 DEF TailTyped, Tailing!TypeOK, Tailing!Entry
  <2>2. Numbered'
    BY <1>1, <1>2 DEF TailTyped, Numbered
  <2>3. LinedUp'
    BY <1>1, <1>8 DEF LinedUp
  <2> QED
    BY <2>1, <2>2, <2>3 DEF TailTyped
<1>11. Tailing!InOrder'
  <2>1. out' = << >>
    BY <1>1, <1>2
  <2> QED
    BY <2>1 DEF Tailing!InOrder
<1>12. ~unsorted' => Sorted'
  <2>1. SUFFICES ASSUME ~unsorted PROVE Sorted'
    BY <1>1
  <2>2. \A e \in es : e.at > last_at
    <3>1. es \in SUBSET Tailing!Entry
      BY <1>8
    <3>2. \A e \in es : e.at \in 1..MaxTime
      BY <3>1 DEF Tailing!Entry
    <3> QED
      BY ONLY <3>2, <1>2, StreamsAssumption
  <2>3. Sorted
    BY <2>1 DEF TailInv
  <2>4. Tailing!LineUp(es) /\ UNCHANGED <<ring, out>> /\ pc # "done"
    BY <1>1 DEF es
  <2> QED
    BY <2>2, <2>3, <2>4, <1>2, <1>7, LineUpSorts
<1>13. ASSUME NEW f \in Tailing!Missed' PROVE FALSE
  <2>m. /\ f \in Tailing!ToSet(ring)' /\ Tailing!matches(f)' /\ f.id >= since' /\ f \notin Tailing!Sent'
    BY ONLY f \in Tailing!Missed' DEF Tailing!Missed
  <2>r. Tailing!ToSet(ring)' = Tailing!ToSet(ring)
    BY <1>1 DEF Tailing!ToSet
  <2>1. /\ f \in Tailing!ToSet(ring) /\ Tailing!matches(f) /\ f.id >= since' /\ f \notin pend'
    BY <2>m, <2>r DEF Tailing!matches, Tailing!Sent
  <2>2. PICK i \in 1..Len(ring) : f = ring[i]
    BY <2>1, <1>5
  <2>3. 1 \in 1..Len(t) /\ ring # << >>
    BY <2>2, <1>3, <1>6
  <2>4. /\ f.id = pushed - Len(ring) + i /\ t[1] = ring[Len(ring) - Len(t) + 1]
        /\ Len(ring) - Len(t) + 1 \in 1..Len(ring)
    <3>1. f.id = pushed - Len(ring) + i
      BY <2>2, <1>3
    <3>2. t[1] = ring[Len(ring) - Len(t) + 1]
      BY <2>3, <1>4
    <3>3. 1 <= Len(t)
      BY ONLY <2>3, <1>6
    <3>4. Len(ring) - Len(t) + 1 \in 1..Len(ring)
      BY ONLY <3>3, <1>3, <1>6
    <3> QED
      BY <3>1, <3>2, <3>4
  <2>5. since' = pushed - Len(ring) + (Len(ring) - Len(t) + 1)
    BY <2>3, <2>4, <1>1, <1>3
  <2> DEFINE k == i - (Len(ring) - Len(t))
  <2>6. k \in 1..Len(t) /\ Len(ring) - Len(t) + k = i
    BY ONLY <1>3, <1>6, <2>1, <2>4, <2>5, i \in 1..Len(ring)
  <2> HIDE DEF k
  <2>7. t[k] = f
    BY <2>2, <2>6, <1>4
  <2> QED
    BY <2>1, <2>6, <2>7, <1>5, <1>8 DEF es
<1>14. Tailing!MissedIsTied'
  BY <1>13 DEF Tailing!MissedIsTied
<1> QED
  BY <1>10, <1>11, <1>12, <1>14 DEF TailInv, TailTyped

\* A poll lines up what is later than last_at, and ties are what it passes over.
LEMMA PollKeeps ==
    ASSUME TailInv, pc = "poll", Tailing!Poll(Tailing!Fresh(RingSize))
    PROVE  TailInv'
<1> DEFINE es == Tailing!Fresh(RingSize)
<1>1. /\ pc' = "send" /\ Tailing!LineUp(es)
      /\ UNCHANGED <<now, stamp, ring, pushed, unsorted, queued, since, out, connected>>
  BY DEF Tailing!Poll, Tailing!events
<1>2. TailTyped /\ pend = {}
  BY DEF TailInv, TailTyped, LinedUp
<1>3. es = {e \in Tailing!ToSet(ring) : e.at > last_at /\ Tailing!matches(e)}
  <2>1. Len(ring) <= RingSize
    BY <1>2 DEF TailTyped, Tailing!TypeOK
  <2> QED
    BY <2>1 DEF Tailing!Fresh, Tailing!recent_events, Tailing!Newest
<1> HIDE DEF es
<1>4. es \in SUBSET Tailing!ToSet(ring) /\ \A e \in es : e.at > last_at
  BY <1>3
<1>5. /\ Tailing!Sent' \subseteq Seen /\ pend' = es /\ pend' \in SUBSET Tailing!Entry
      /\ \A e \in Tailing!Sent' : e.id <= pushed'
      /\ last_at' \in 0..MaxTime
  BY <1>1, <1>2, <1>4, LineUpTyped
<1>6. TailTyped'
  <2>1. Tailing!TypeOK'
    BY <1>1, <1>2, <1>5 DEF TailTyped, Tailing!TypeOK, Tailing!Entry
  <2>2. Numbered'
    BY <1>1, <1>2 DEF TailTyped, Numbered
  <2>3. LinedUp'
    BY <1>1, <1>5 DEF LinedUp
  <2> QED
    BY <2>1, <2>2, <2>3 DEF TailTyped
<1>7. Tailing!InOrder'
  BY <1>1 DEF TailInv, Tailing!InOrder
<1>8. CASE unsorted
  BY <1>1, <1>6, <1>7, <1>8 DEF TailInv, TailTyped, Tailing!MissedIsTied
<1>9. CASE ~unsorted
  <2>1. Sorted
    BY <1>9 DEF TailInv
  <2>2. Sorted' /\ Tailing!Sent' = Tailing!Sent \cup es
    BY <1>1, <1>2, <1>4, <2>1, LineUpSorts
  <2>3. ASSUME NEW f \in Tailing!Missed' PROVE \E d \in Tailing!Sent' : d.at = f.at /\ d.id < f.id
    <3>1. /\ f \in Tailing!ToSet(ring) /\ Tailing!matches(f) /\ f.id >= since
          /\ f \notin Tailing!Sent /\ f \notin es
      BY <1>1, <2>2 DEF Tailing!Missed, Tailing!matches, Tailing!ToSet
    <3>2. ~(f.at > last_at)
      BY <1>3, <3>1
    <3>3. f.at \in Nat /\ last_at \in Nat
      BY <1>2, <3>1, TailParts DEF Seen
    <3>4. f \in Tailing!Missed
      BY <3>1, <3>2, <3>3 DEF Tailing!Missed
    <3>5. PICK d \in Tailing!Sent : d.at = f.at /\ d.id < f.id
      BY <1>9, <3>4 DEF TailInv, Tailing!MissedIsTied
    <3> QED
      BY <3>5, <2>2
  <2> QED
    BY <1>6, <1>7, <2>2, <2>3 DEF TailInv, TailTyped, Tailing!MissedIsTied
<1> QED
  BY <1>8, <1>9, <1>2 DEF TailTyped, Tailing!TypeOK

\* The first of the events lined up is sent.
LEMMA SendKeeps ==
    ASSUME TailInv, Tailing!send_one, pc \in {"backlog", "send"},
           UNCHANGED <<now, stamp, ring, pushed, unsorted, pc, last_at, since, connected>>
    PROVE  TailInv'
<1>1. PICK e \in pend :
        (\A d \in pend : e.id <= d.id) /\ out' = Append(out, e) /\ pend' = pend \ {e}
  BY DEF Tailing!send_one
<1>2. TailTyped /\ queued < Capacity /\ queued' = queued + 1
  BY DEF Tailing!send_one, TailInv, TailTyped
<1>3. /\ out \in Seq(Tailing!Entry) /\ pend \in SUBSET Tailing!Entry
      /\ \A d \in Tailing!Entry : d.id \in Nat /\ d.at \in Nat
      /\ Tailing!ToSet(out) = {out[i] : i \in 1..Len(out)}
      /\ Tailing!Sent \in SUBSET Tailing!Entry
  BY <1>2, TailParts
<1>4. /\ e \in Tailing!Entry /\ out' \in Seq(Tailing!Entry) /\ Len(out') = Len(out) + 1
      /\ out'[Len(out) + 1] = e /\ \A i \in 1..Len(out) : out'[i] = out[i]
  BY <1>1, <1>3
<1>5. Len(out) \in Nat
  BY <1>3
<1>6. Tailing!Sent' = Tailing!Sent
  <2>1. Tailing!ToSet(out)' = {out'[i] : i \in 1..Len(out')}
    BY <1>4 DEF Tailing!ToSet
  <2>2. 1..Len(out') = 1..Len(out) \cup {Len(out) + 1}
    BY ONLY <1>4, <1>5
  <2>3. Tailing!ToSet(out)' = Tailing!ToSet(out) \cup {e}
    <3>1. ASSUME NEW i \in 1..Len(out') PROVE out'[i] \in Tailing!ToSet(out) \cup {e}
      <4>1. i \in 1..Len(out) \/ i = Len(out) + 1
        BY <2>2
      <4> QED
        BY <4>1, <1>3, <1>4
    <3>2. ASSUME NEW i \in 1..Len(out) PROVE out[i] \in Tailing!ToSet(out)'
      <4>1. i \in 1..Len(out') /\ out[i] = out'[i]
        BY <2>2, <1>4
      <4> QED
        BY <4>1, <2>1
    <3>3. e \in Tailing!ToSet(out)'
      <4>1. Len(out) + 1 \in 1..Len(out')
        BY <2>2
      <4> QED
        BY <4>1, <1>4, <2>1
    <3>4. Tailing!ToSet(out)' \subseteq Tailing!ToSet(out) \cup {e}
      BY <3>1, <2>1
    <3>5. Tailing!ToSet(out) \cup {e} \subseteq Tailing!ToSet(out)'
      BY <3>2, <3>3, <1>3
    <3> QED
      BY <3>4, <3>5
  <2> QED
    BY <1>1, <2>3 DEF Tailing!Sent
<1>7. Seen' = Seen /\ Tailing!Missed' = Tailing!Missed
  BY <1>6 DEF Seen, Tailing!Missed, Tailing!matches, Tailing!ToSet
<1>8. TailTyped'
  <2>1. queued' \in 0..Capacity
    <3>1. queued \in 0..Capacity
      BY <1>2 DEF TailTyped, Tailing!TypeOK
    <3> QED
      BY ONLY <1>2, <3>1, StreamsAssumption
  <2>2. pend' \in SUBSET Tailing!Entry
    BY <1>1, <1>3
  <2>3. Tailing!TypeOK'
    BY <1>2, <1>4, <2>1, <2>2 DEF TailTyped, Tailing!TypeOK, Tailing!Entry
  <2>4. Numbered'
    BY <1>2 DEF TailTyped, Numbered
  <2>5. LinedUp'
    BY <1>2, <1>6 DEF TailTyped, LinedUp
  <2> QED
    BY <2>3, <2>4, <2>5 DEF TailTyped
<1>9. CASE unsorted
  BY <1>8, <1>9 DEF TailInv, TailTyped, Tailing!InOrder, Tailing!MissedIsTied
<1>10. CASE ~unsorted
  <2>1. Sorted
    BY <1>10 DEF TailInv
  <2>2. ASSUME NEW i \in 1..Len(out'), NEW d \in pend' PROVE out'[i].id < d.id
    <3>1. d \in pend /\ d # e /\ e.id <= d.id
      BY <1>1
    <3>2. CASE i \in 1..Len(out)
      BY <3>1, <3>2, <1>4, <2>1 DEF Sorted
    <3>3. CASE i = Len(out) + 1
      <4>1. d \in Seen /\ e \in Seen /\ d.id \in Nat /\ e.id \in Nat
        BY <1>1, <1>3, <3>1 DEF Seen, Tailing!Sent
      <4>2. d.id # e.id
        BY <2>1, <3>1, <4>1 DEF Sorted
      <4> QED
        BY <1>4, <3>1, <3>3, <4>1, <4>2
    <3> QED
      BY ONLY <3>2, <3>3, <1>4, <1>5, i \in 1..Len(out')
  <2>3. Sorted'
    BY <1>6, <1>7, <2>1, <2>2 DEF Sorted
  <2>4. ASSUME NEW i \in 1..Len(out'), NEW j \in 1..Len(out'), i < j PROVE out'[i].id < out'[j].id
    <3>1. i \in 1..Len(out)
      BY ONLY <1>4, <1>5, <2>4, i \in 1..Len(out'), j \in 1..Len(out')
    <3>2. CASE j \in 1..Len(out)
      <4>1. i \in DOMAIN out /\ j \in DOMAIN out
        BY <1>3, <3>1, <3>2
      <4> QED
        BY <1>4, <1>10, <2>4, <3>1, <3>2, <4>1 DEF TailInv, Tailing!InOrder
    <3>3. CASE j = Len(out) + 1
      BY <1>1, <1>4, <2>1, <3>1, <3>3 DEF Sorted
    <3> QED
      BY ONLY <3>2, <3>3, <1>4, <1>5, j \in 1..Len(out')
  <2>5. Tailing!InOrder'
    <3>1. DOMAIN out' = 1..Len(out')
      BY <1>4
    <3> QED
      BY <2>4, <3>1 DEF Tailing!InOrder
  <2>6. Tailing!MissedIsTied'
    BY <1>6, <1>7 DEF TailInv, Tailing!MissedIsTied
  <2> QED
    BY <1>8, <2>3, <2>5, <2>6 DEF TailInv, TailTyped
<1> QED
  BY <1>9, <1>10, <1>2 DEF TailTyped, Tailing!TypeOK

\* When the task ends, nothing that was lined up follows.
LEMMA StopKeeps ==
    ASSUME TailInv, Tailing!Stop, pc # "new"
    PROVE  TailInv'
<1>1. /\ pc' = "done" /\ pend' = {}
      /\ UNCHANGED <<now, stamp, ring, pushed, unsorted, queued, last_at, since, out, connected>>
  BY DEF Tailing!Stop, Tailing!events
<1>2. TailTyped
  BY DEF TailInv, TailTyped
<1>3. Tailing!Sent' \subseteq Tailing!Sent /\ Seen' \subseteq Seen
  BY <1>1 DEF Tailing!Sent, Seen, Tailing!ToSet
<1>4. Tailing!TypeOK' /\ Numbered' /\ LinedUp'
  BY <1>1, <1>2, <1>3 DEF TailTyped, Tailing!TypeOK, Tailing!Entry, Numbered, LinedUp
<1>5. ~unsorted' => Sorted'
  BY <1>1, <1>3 DEF TailInv, Sorted
<1>6. Tailing!InOrder' /\ Tailing!MissedIsTied'
  BY <1>1 DEF TailInv, Tailing!InOrder, Tailing!MissedIsTied
<1> QED
  BY <1>4, <1>5, <1>6 DEF TailInv

\* Steps that touch neither the ring nor what is sent or lined up.
LEMMA TailQuiet ==
    ASSUME TailInv, Tailing!TypeOK', UNCHANGED <<ring, pushed, unsorted, pend, last_at, since, out>>,
           \/ pc' = pc
           \/ pc = "backlog" /\ pend = {} /\ pc' = "poll"
           \/ pc = "send" /\ pend = {} /\ pc' = "poll"
    PROVE  TailInv'
<1>1. Tailing!Sent' = Tailing!Sent /\ Seen' = Seen /\ Tailing!Missed' = Tailing!Missed
  BY DEF Tailing!Sent, Seen, Tailing!Missed, Tailing!matches, Tailing!ToSet
<1>2. Numbered' /\ LinedUp'
  BY <1>1 DEF TailInv, Numbered, LinedUp
<1>3. ~unsorted' => Sorted'
  BY <1>1 DEF TailInv, Sorted
<1>4. Tailing!InOrder' /\ Tailing!MissedIsTied'
  BY <1>1 DEF TailInv, Tailing!InOrder, Tailing!MissedIsTied
<1> QED
  BY <1>2, <1>3, <1>4 DEF TailInv

\* Each step of pushers, handler, task and client keeps the invariant.
LEMMA TailNext == TailInv /\ [Tailing!Next]_(Tailing!vars) => TailInv'
<1> SUFFICES ASSUME TailInv, [Tailing!Next]_(Tailing!vars) PROVE TailInv'
  OBVIOUS
<1> USE DEF Tailing!events, Tailing!tail
<1>t. Tailing!TypeOK
  BY DEF TailInv
<1>1. CASE Tailing!Tick
  <2>1. Tailing!TypeOK'
    <3>1. now' \in 1..MaxTime
      <4>1. now \in 1..MaxTime /\ now < MaxTime /\ now' = now + 1
        BY <1>1, <1>t DEF Tailing!Tick, Tailing!TypeOK
      <4> QED
        BY ONLY <4>1, StreamsAssumption
    <3> QED
      BY <3>1, <1>1, <1>t DEF Tailing!Tick, Tailing!TypeOK, Tailing!Entry
  <2> QED
    BY <2>1, <1>1, TailQuiet DEF Tailing!Tick
<1>2. ASSUME NEW p \in Pushers, Tailing!take_time(p) PROVE TailInv'
  <2>1. Tailing!TypeOK'
    <3>1. stamp' \in [Pushers -> 0..MaxTime]
      BY <1>2, <1>t DEF Tailing!take_time, Tailing!TypeOK
    <3> QED
      BY <3>1, <1>2, <1>t DEF Tailing!take_time, Tailing!TypeOK, Tailing!Entry
  <2> QED
    BY <2>1, <1>2, TailQuiet DEF Tailing!take_time
<1>3. ASSUME NEW p \in Pushers, Tailing!push_event(p) PROVE TailInv'
  BY <1>3, PushKeeps
<1>4. CASE Tailing!connect
  BY <1>4, ConnectKeeps
<1>5. CASE Tailing!send_backlog
  <2>1. CASE pend = {}
    <3>1. Tailing!TypeOK'
      BY <1>5, <1>t, <2>1 DEF Tailing!send_backlog, Tailing!TypeOK, Tailing!Entry
    <3> QED
      BY <3>1, <2>1, <1>5, TailQuiet DEF Tailing!send_backlog
  <2>2. CASE pend # {}
    BY <2>2, <1>5, SendKeeps DEF Tailing!send_backlog
  <2> QED
    BY <2>1, <2>2
<1>6. CASE Tailing!poll
  <2>1. CASE connected
    BY <1>6, <2>1, PollKeeps DEF Tailing!poll
  <2>2. CASE ~connected
    BY <1>6, <2>2, StopKeeps DEF Tailing!poll
  <2> QED
    BY <2>1, <2>2
<1>7. CASE Tailing!send
  <2>1. CASE pend = {} /\ pc' = "poll" /\ UNCHANGED <<Tailing!events, pend, queued, last_at, since, out, connected>>
    <3>1. Tailing!TypeOK'
      BY <1>t, <2>1 DEF Tailing!TypeOK, Tailing!Entry
    <3> QED
      BY <3>1, <2>1, <1>7, TailQuiet DEF Tailing!send
  <2>2. CASE Tailing!send_one /\ UNCHANGED <<Tailing!events, pc, last_at, since, connected>>
    BY <2>2, <1>7, SendKeeps DEF Tailing!send
  <2>3. CASE Tailing!Stop
    BY <2>3, <1>7, StopKeeps DEF Tailing!send
  <2> QED
    BY <1>7, <2>1, <2>2, <2>3 DEF Tailing!send
<1>8. CASE Tailing!Receive
  <2>1. Tailing!TypeOK'
    <3>1. queued' \in 0..Capacity
      <4>1. queued \in 0..Capacity /\ queued > 0 /\ queued' = queued - 1
        BY <1>8, <1>t DEF Tailing!Receive, Tailing!TypeOK
      <4> QED
        BY ONLY <4>1, StreamsAssumption
    <3> QED
      BY <3>1, <1>8, <1>t DEF Tailing!Receive, Tailing!TypeOK, Tailing!Entry
  <2> QED
    BY <2>1, <1>8, TailQuiet DEF Tailing!Receive
<1>9. CASE Tailing!Disconnect
  <2>1. Tailing!TypeOK'
    BY <1>9, <1>t DEF Tailing!Disconnect, Tailing!TypeOK, Tailing!Entry
  <2> QED
    BY <2>1, <1>9, TailQuiet DEF Tailing!Disconnect
<1>10. CASE UNCHANGED Tailing!vars
  <2>1. Tailing!TypeOK'
    BY <1>10, <1>t DEF Tailing!vars, Tailing!TypeOK, Tailing!Entry
  <2> QED
    BY <2>1, <1>10, TailQuiet DEF Tailing!vars
<1> QED
  BY <1>1, <1>2, <1>3, <1>4, <1>5, <1>6, <1>7, <1>8, <1>9, <1>10 DEF Tailing!Next

\* handlers/events.rs, state.rs: the client of the event tail sees the events in the
\* order of the ring, none twice, and misses none that is still there but for ties.
THEOREM TailTrue == FlowsSpec => []TailIsTrue
<1>1. TailInv => TailIsTrue
  BY DEF TailInv, TailTyped, TailIsTrue
<1> QED
  BY <1>1, OneAtATime, TailInit, TailNext, PTL DEF FlowsSpec, FlowsInit

-----------------------------------------------------------------------------
(* The pairing stream *)

\* Where the events shown and the events heard are in the history of the client:
\* in order, the ones heard after the ones shown, and before the one in hand.
Placed(f, g) ==
    /\ \A i \in Waiting!Shown : told[i] = history[f[i]]
    /\ \A i, j \in Waiting!Shown : i < j => f[i] < f[j]
    /\ \A i \in 1..Len(heard) : heard[i] = history[g[i]]
    /\ \A i, j \in 1..Len(heard) : i < j => g[i] < g[j]
    /\ \A i \in Waiting!Shown, j \in 1..Len(heard) : f[i] < g[j]
    /\ handling # "none" =>
         /\ \A i \in Waiting!Shown : f[i] < Len(history)
         /\ \A i \in 1..Len(heard) : g[i] < Len(history)

InPlace ==
    /\ \E f \in [Waiting!Shown -> 1..Len(history)], g \in [1..Len(heard) -> 1..Len(history)] : Placed(f, g)
    /\ handling # "none" => Len(history) > 0 /\ history[Len(history)] = handling

\* Nothing is heard before the subscription, and only the end is terminal.
InTime ==
    /\ stream \in {"look", "subscribe"} => told = << >> /\ heard = << >>
    /\ stream # "closed" => \A i \in 1..Len(told) : told[i] \notin Waiting!Terminal

\* What may end the stream is in its channel, or about to be, unless that lost some.
Awaited ==
    stream = "listen" /\ ~lagged =>
        \A i \in (joined + 1)..Len(history) :
            history[i] \in Waiting!Final =>
                handling = history[i] \/ \E j \in 1..Len(heard) : heard[j] = history[i]

WaitInv == Waiting!TypeOK /\ InPlace /\ InTime /\ Awaited /\ Waiting!ReadyIsReady

\* The types, by themselves.
LEMMA WaitShapes ==
    ASSUME Waiting!TypeOK
    PROVE  /\ history \in Seq(Waiting!ClientEvents) /\ heard \in Seq(Waiting!ClientEvents)
           /\ told \in Seq(Waiting!ClientEvents \cup Waiting!Terminal)
           /\ Len(history) \in Nat /\ Len(heard) \in Nat /\ Len(told) \in Nat
           /\ joined \in Nat /\ joined <= Len(history)
           /\ Waiting!Shown = {i \in 1..Len(told) : told[i] \notin Waiting!Terminal}
           /\ \A e \in Waiting!ClientEvents : e \notin Waiting!Terminal /\ e # "none"
           /\ \A i \in 1..Len(history) : history[i] \in Waiting!ClientEvents
           /\ \A i \in 1..Len(heard) : heard[i] \in Waiting!ClientEvents
           /\ \A i \in 1..Len(told) : told[i] \in Waiting!ClientEvents \cup Waiting!Terminal
<1>1. /\ history \in Seq(Waiting!ClientEvents) /\ heard \in Seq(Waiting!ClientEvents)
      /\ told \in Seq(Waiting!ClientEvents \cup Waiting!Terminal) /\ joined \in 0..Len(history)
  BY DEF Waiting!TypeOK
<1>2. \A e \in Waiting!ClientEvents : e \notin Waiting!Terminal /\ e # "none"
  BY DEF Waiting!ClientEvents, Waiting!Terminal
<1>3. Waiting!Shown = {i \in 1..Len(told) : told[i] \notin Waiting!Terminal}
  BY <1>1 DEF Waiting!Shown
<1> QED
  BY <1>1, <1>2, <1>3

\* Saying something keeps what was said before.
LEMMA Said ==
    ASSUME NEW S, NEW s \in Seq(S), NEW t \in Seq(S)
    PROVE  /\ s \o t \in Seq(S) /\ Len(s \o t) = Len(s) + Len(t)
           /\ \A i \in 1..Len(s) : (s \o t)[i] = s[i]
           /\ \A i \in 1..Len(t) : (s \o t)[Len(s) + i] = t[i]
BY ConcatProperties

\* A terminal event, or none, is not shown.
LEMMA SaysNone ==
    ASSUME Waiting!TypeOK, NEW t \in Waiting!Terminal, told' = told \o << >> \/ told' = told \o <<t>>
    PROVE  /\ told' \in Seq(Waiting!ClientEvents \cup Waiting!Terminal)
           /\ Waiting!Shown' = Waiting!Shown /\ \A i \in Waiting!Shown : told'[i] = told[i]
           /\ Len(told') >= Len(told)
<1> DEFINE S == Waiting!ClientEvents \cup Waiting!Terminal
<1>1. PICK es \in Seq(S) : told' = told \o es /\ Len(es) \in {0, 1} /\ (Len(es) = 1 => es[1] = t)
  <2>1. << >> \in Seq(S) /\ Len(<< >>) = 0 /\ <<t>> \in Seq(S) /\ Len(<<t>>) = 1 /\ <<t>>[1] = t
    OBVIOUS
  <2> HIDE DEF S
  <2> USE <2>1
  <2>2. CASE told' = told \o << >>
    <3> WITNESS << >> \in Seq(S)
    <3> QED
      BY <2>1, <2>2
  <2>3. CASE told' = told \o <<t>>
    <3> WITNESS <<t>> \in Seq(S)
    <3> QED
      BY <2>1, <2>3
  <2> QED
    BY <2>2, <2>3
<1>2. /\ told \in Seq(S) /\ Len(told) \in Nat
      /\ Waiting!Shown = {i \in 1..Len(told) : told[i] \notin Waiting!Terminal}
  BY WaitShapes
<1> HIDE DEF S
<1>3. /\ told' \in Seq(S) /\ Len(told') = Len(told) + Len(es)
      /\ \A i \in 1..Len(told) : told'[i] = told[i]
      /\ \A i \in 1..Len(es) : told'[Len(told) + i] = es[i]
  BY ONLY <1>1, <1>2, Said
<1>4. Waiting!Shown' = {i \in 1..Len(told') : told'[i] \notin Waiting!Terminal}
  BY <1>3 DEF Waiting!Shown, Waiting!Terminal
<1>5. ASSUME NEW i PROVE i \in Waiting!Shown' <=> i \in Waiting!Shown
  <2>1. CASE i \in 1..Len(told)
    <3>1. i \in 1..Len(told')
      BY ONLY <2>1, <1>1, <1>2, <1>3
    <3> QED
      BY <3>1, <2>1, <1>2, <1>3, <1>4
  <2>2. CASE i \in 1..Len(told') /\ i \notin 1..Len(told)
    <3>1. Len(es) = 1 /\ i = Len(told) + 1 /\ 1 \in 1..Len(es)
      BY ONLY <2>2, <1>1, <1>2, <1>3
    <3>2. told'[i] = t
      BY <3>1, <1>1, <1>3
    <3> QED
      BY <2>2, <3>2, <1>2, <1>4
  <2>3. CASE i \notin 1..Len(told') /\ i \notin 1..Len(told)
    BY <2>3, <1>2, <1>4
  <2> QED
    BY <2>1, <2>2, <2>3
<1>6. Len(told') >= Len(told)
  BY ONLY <1>1, <1>2, <1>3
<1> QED
  BY <1>2, <1>3, <1>5, <1>6 DEF S

\* Another event is shown, and may be the last.
LEMMA SaysOne ==
    ASSUME Waiting!TypeOK, NEW e \in Waiting!ClientEvents, NEW t \in Waiting!Terminal,
           told' = told \o <<e>> \/ told' = told \o <<e, t>>
    PROVE  /\ told' \in Seq(Waiting!ClientEvents \cup Waiting!Terminal)
           /\ Waiting!Shown' = Waiting!Shown \cup {Len(told) + 1}
           /\ told'[Len(told) + 1] = e /\ \A i \in Waiting!Shown : told'[i] = told[i]
<1> DEFINE S == Waiting!ClientEvents \cup Waiting!Terminal
<1>1. PICK es \in Seq(S) : /\ told' = told \o es /\ Len(es) \in {1, 2} /\ es[1] = e
                           /\ Len(es) = 2 => es[2] = t
  <2>1. <<e>> \in Seq(S) /\ Len(<<e>>) = 1 /\ <<e>>[1] = e
    OBVIOUS
  <2>2. <<e, t>> \in Seq(S) /\ Len(<<e, t>>) = 2 /\ <<e, t>>[1] = e /\ <<e, t>>[2] = t
    OBVIOUS
  <2> HIDE DEF S
  <2> USE <2>1, <2>2
  <2>3. CASE told' = told \o <<e>>
    <3> WITNESS <<e>> \in Seq(S)
    <3> QED
      BY <2>1, <2>3
  <2>4. CASE told' = told \o <<e, t>>
    <3> WITNESS <<e, t>> \in Seq(S)
    <3> QED
      BY <2>2, <2>4
  <2> QED
    BY <2>3, <2>4
<1>2. /\ told \in Seq(S) /\ Len(told) \in Nat /\ e \notin Waiting!Terminal
      /\ Waiting!Shown = {i \in 1..Len(told) : told[i] \notin Waiting!Terminal}
  BY WaitShapes
<1> HIDE DEF S
<1>3. /\ told' \in Seq(S) /\ Len(told') = Len(told) + Len(es)
      /\ \A i \in 1..Len(told) : told'[i] = told[i]
      /\ \A i \in 1..Len(es) : told'[Len(told) + i] = es[i]
  BY ONLY <1>1, <1>2, Said
<1>4. Waiting!Shown' = {i \in 1..Len(told') : told'[i] \notin Waiting!Terminal}
  BY <1>3 DEF Waiting!Shown, Waiting!Terminal
<1>5. ASSUME NEW i PROVE i \in Waiting!Shown' <=> i \in Waiting!Shown \cup {Len(told) + 1}
  <2>1. CASE i \in 1..Len(told)
    <3>1. i \in 1..Len(told') /\ i # Len(told) + 1
      BY ONLY <2>1, <1>1, <1>2, <1>3
    <3> QED
      BY <3>1, <2>1, <1>2, <1>3, <1>4
  <2>2. CASE i = Len(told) + 1
    <3>1. i \in 1..Len(told') /\ 1 \in 1..Len(es)
      BY ONLY <2>2, <1>1, <1>2, <1>3
    <3>2. told'[Len(told) + 1] = es[1]
      BY ONLY <3>1, <1>3
    <3>3. told'[i] = e
      BY <3>2, <2>2, <1>1
    <3> QED
      BY <2>2, <3>1, <3>3, <1>2, <1>4
  <2>3. CASE i \in 1..Len(told') /\ i \notin 1..Len(told) /\ i # Len(told) + 1
    <3>m. Len(es) \in {1, 2} /\ Len(told') = Len(told) + Len(es) /\ Len(told) \in Nat
      BY <1>1, <1>2, <1>3
    <3>l. i \in Int /\ i <= Len(told) + Len(es) /\ i > Len(told) + 1
      BY ONLY <3>m, <2>3
    <3>n. Len(es) = 2
      <4>1. CASE Len(es) = 1
        BY ONLY <4>1, <3>l, <3>m
      <4> QED
        BY ONLY <4>1, <3>m
    <3>1. Len(es) = 2 /\ i = Len(told) + 2 /\ 2 \in 1..Len(es)
      <4>1. i = Len(told) + 2
        BY ONLY <3>l, <3>m, <3>n
      <4>2. 2 \in 1..2
        OBVIOUS
      <4> QED
        BY ONLY <3>n, <4>1, <4>2
    <3>t. told'[Len(told) + 2] = es[2]
      BY <3>1, <1>3
    <3>2. told'[i] = t
      BY <3>1, <3>t, <1>1
    <3> QED
      BY <2>3, <3>2, <1>2, <1>4
  <2>4. CASE i \notin 1..Len(told') /\ i \notin 1..Len(told) /\ i # Len(told) + 1
    BY <2>4, <1>2, <1>4
  <2> QED
    BY <2>1, <2>2, <2>3, <2>4
<1>6. told'[Len(told) + 1] = e
  <2>1. 1 \in 1..Len(es)
    BY <1>1
  <2> QED
    BY <2>1, <1>1, <1>3
<1>7. \A i \in Waiting!Shown : told'[i] = told[i]
  BY <1>2, <1>3
<1> QED
  BY <1>3, <1>5, <1>6, <1>7 DEF S

\* Nothing has happened at first.
LEMMA WaitInit == ASSUME Waiting!Init PROVE WaitInv
<1>1. history = << >> /\ heard = << >> /\ told = << >> /\ joined = 0 /\ handling = "none"
  BY DEF Waiting!Init
<1>2. Waiting!TypeOK
  <2>1. /\ << >> \in Seq(Waiting!ClientEvents) /\ << >> \in Seq(Waiting!ClientEvents \cup Waiting!Terminal)
        /\ Len(<< >>) = 0
    OBVIOUS
  <2>2. 0 \in 0..Len(history) /\ Len(heard) <= ChannelCapacity
    <3>1. Len(history) = 0 /\ Len(heard) = 0
      BY <1>1
    <3> QED
      BY ONLY <3>1, StreamsAssumption
  <2> QED
    BY <1>1, <2>1, <2>2 DEF Waiting!Init, Waiting!TypeOK
<1>3. InPlace
  <2> DEFINE f == [i \in Waiting!Shown |-> 1]
             g == [i \in 1..Len(heard) |-> 1]
  <2>1. Waiting!Shown = {} /\ 1..Len(heard) = {}
    BY <1>1 DEF Waiting!Shown
  <2>2. f \in [Waiting!Shown -> 1..Len(history)] /\ g \in [1..Len(heard) -> 1..Len(history)]
    BY <2>1
  <2>3. Placed(f, g)
    BY <1>1, <2>1 DEF Placed
  <2> HIDE DEF f, g
  <2> QED
    BY <1>1, <2>2, <2>3 DEF InPlace
<1>4. InTime /\ Awaited
  BY <1>1 DEF Waiting!Init, InTime, Awaited
<1>5. Waiting!ReadyIsReady
  BY <1>1 DEF Waiting!ReadyIsReady, Waiting!Contains
<1> QED
  BY <1>2, <1>3, <1>4, <1>5 DEF WaitInv

\* An event of the client takes the last place of its history.
LEMMA HandleKeeps ==
    ASSUME WaitInv, NEW e \in Waiting!ClientEvents, NEW from, NEW to \in {"out", "pairing", "in"},
           Waiting!Handle(e, from, to)
    PROVE  WaitInv'
<1>1. /\ handling = "none" /\ status' = to /\ handling' = e /\ history' = Append(history, e)
      /\ UNCHANGED <<heard, lagged, stream, told, joined>>
  BY DEF Waiting!Handle, Waiting!reader
<1>2. /\ Waiting!TypeOK /\ history \in Seq(Waiting!ClientEvents) /\ Len(history) \in Nat
      /\ joined \in Nat /\ joined <= Len(history) /\ e # "none"
      /\ joined \in 0..Len(history) /\ Len(heard) \in Nat
      /\ \A i \in 1..Len(heard) : heard[i] \in Waiting!ClientEvents
  BY WaitShapes DEF WaitInv, Waiting!TypeOK
<1>3. /\ history' \in Seq(Waiting!ClientEvents) /\ Len(history') = Len(history) + 1
      /\ history'[Len(history) + 1] = e
      /\ \A i \in 1..Len(history) : history'[i] = history[i]
  BY <1>1, <1>2
<1>4. Waiting!Shown' = Waiting!Shown
  BY <1>1 DEF Waiting!Shown, Waiting!Terminal
<1>5. Waiting!TypeOK'
  <2>1. joined' \in 0..Len(history')
    <3>1. joined' = joined
      BY <1>1
    <3> QED
      BY ONLY <3>1, <1>2, <1>3
  <2> QED
    BY <1>1, <1>2, <1>3, <2>1 DEF Waiting!TypeOK, Waiting!ClientEvents, Waiting!Terminal
<1>6. InPlace'
  <2>1. PICK f \in [Waiting!Shown -> 1..Len(history)], g \in [1..Len(heard) -> 1..Len(history)] : Placed(f, g)
    BY DEF WaitInv, InPlace
  <2>2. 1..Len(history) \subseteq 1..Len(history') /\ \A k \in 1..Len(history) : k < Len(history')
    BY ONLY <1>2, <1>3
  <2>3. f \in [Waiting!Shown' -> 1..Len(history')] /\ g \in [1..Len(heard') -> 1..Len(history')]
    BY <1>1, <1>4, <2>2
  <2>4. /\ \A i \in Waiting!Shown : f[i] \in 1..Len(history)
        /\ \A i \in 1..Len(heard) : g[i] \in 1..Len(history)
    OBVIOUS
  <2>5. Placed(f, g)'
    BY <1>1, <1>3, <1>4, <2>1, <2>2, <2>4 DEF Placed
  <2>6. Len(history') > 0 /\ history'[Len(history')] = handling'
    BY <1>1, <1>2, <1>3
  <2> QED
    BY <2>3, <2>5, <2>6 DEF InPlace
<1>7. InTime'
  BY <1>1 DEF WaitInv, InTime, Waiting!Terminal
<1>8. Awaited'
  <2>1. SUFFICES ASSUME stream = "listen", ~lagged, NEW i \in (joined + 1)..Len(history'),
                        history'[i] \in Waiting!Final
                 PROVE  handling' = history'[i] \/ \E j \in 1..Len(heard) : heard[j] = history'[i]
    BY <1>1 DEF Awaited, Waiting!Final
  <2>2. CASE i = Len(history) + 1
    BY <1>1, <1>3, <2>2
  <2>3. CASE i # Len(history) + 1
    <3>1. i \in (joined + 1)..Len(history) /\ i \in 1..Len(history)
      BY ONLY <1>2, <1>3, <2>3, i \in (joined + 1)..Len(history')
    <3>2. history'[i] = history[i]
      BY <1>3, <3>1
    <3>3. handling = history[i] \/ \E j \in 1..Len(heard) : heard[j] = history[i]
      BY <2>1, <3>1, <3>2 DEF WaitInv, Awaited
    <3>4. handling # history[i]
      <4>1. history[i] \in Waiting!ClientEvents
        BY <1>2, <3>1
      <4> QED
        BY <4>1, <1>1, WaitShapes DEF WaitInv
    <3> QED
      BY <3>2, <3>3, <3>4
  <2> QED
    BY <2>2, <2>3
<1>9. Waiting!ReadyIsReady'
  <2>1. Waiting!ToSet(history) \subseteq Waiting!ToSet(history)'
    <3>1. ASSUME NEW i \in DOMAIN history PROVE i \in DOMAIN history' /\ history'[i] = history[i]
      BY <1>2, <1>3
    <3> QED
      BY <3>1 DEF Waiting!ToSet
  <2> QED
    BY <1>1, <2>1 DEF WaitInv, Waiting!ReadyIsReady, Waiting!Contains
<1> QED
  BY <1>5, <1>6, <1>7, <1>8, <1>9 DEF WaitInv

\* The event in hand is the last one heard, or is kept from the stream.
LEMMA BroadcastKeeps ==
    ASSUME WaitInv, Waiting!broadcast_event
    PROVE  WaitInv'
<1> DEFINE full == Len(heard) = ChannelCapacity
           base == IF full THEN Tail(heard) ELSE heard
<1>1. /\ handling # "none" /\ handling' = "none" /\ UNCHANGED <<status, history, stream, told, joined>>
      /\ IF stream = "listen" /\ handling # "kept"
         THEN heard' = Append(base, handling) /\ lagged' = (lagged \/ full)
         ELSE UNCHANGED <<heard, lagged>>
  BY DEF Waiting!broadcast_event, Waiting!reader
<1>2. /\ Waiting!TypeOK /\ history \in Seq(Waiting!ClientEvents) /\ Len(history) \in Nat
      /\ heard \in Seq(Waiting!ClientEvents) /\ Len(heard) \in Nat
      /\ handling \in Waiting!ClientEvents
      /\ Len(heard) <= ChannelCapacity /\ lagged \in BOOLEAN
  BY <1>1, WaitShapes DEF WaitInv, Waiting!TypeOK
<1>3. Waiting!Shown' = Waiting!Shown
  BY <1>1 DEF Waiting!Shown, Waiting!Terminal
<1>4. PICK f \in [Waiting!Shown -> 1..Len(history)], g \in [1..Len(heard) -> 1..Len(history)] : Placed(f, g)
  BY DEF WaitInv, InPlace
<1>5. Len(history) > 0 /\ history[Len(history)] = handling
  BY <1>1 DEF WaitInv, InPlace
<1>6. InTime'
  BY <1>1 DEF WaitInv, InTime, Waiting!Terminal
<1>7. Waiting!ReadyIsReady'
  BY <1>1 DEF WaitInv, Waiting!ReadyIsReady, Waiting!Contains, Waiting!ToSet
<1>8. CASE ~(stream = "listen" /\ handling # "kept")
  <2>1. UNCHANGED <<heard, lagged>>
    BY <1>1, <1>8
  <2>2. Waiting!TypeOK'
    BY <1>1, <1>2, <2>1 DEF Waiting!TypeOK, Waiting!ClientEvents, Waiting!Terminal
  <2>3. InPlace'
    <3>1. Placed(f, g)'
      BY <1>1, <1>3, <1>4, <2>1 DEF Placed
    <3>2. f \in [Waiting!Shown' -> 1..Len(history')] /\ g \in [1..Len(heard') -> 1..Len(history')]
      BY <1>1, <1>3, <2>1
    <3> QED
      BY <1>1, <3>1, <3>2 DEF InPlace
  <2>4. Awaited'
    <3>1. "kept" \notin Waiting!Final
      BY DEF Waiting!Final
    <3> QED
      BY <1>1, <1>8, <2>1, <3>1 DEF WaitInv, Awaited, Waiting!Final
  <2> QED
    BY <1>6, <1>7, <2>2, <2>3, <2>4 DEF WaitInv
<1>9. CASE stream = "listen" /\ handling # "kept"
  <2>1. heard' = Append(base, handling) /\ lagged' = (lagged \/ full)
    BY <1>1, <1>9
  <2>2. PICK d \in {0, 1} :
          /\ base \in Seq(Waiting!ClientEvents) /\ Len(base) = Len(heard) - d
          /\ \A i \in 1..Len(base) : base[i] = heard[i + d]
          /\ d = 1 <=> full
          /\ Len(base) \in Nat /\ Len(base) + 1 <= ChannelCapacity
    <3>1. CASE full
      <4>1. heard # << >>
        BY <1>2, <3>1, StreamsAssumption
      <4>2. /\ Tail(heard) \in Seq(Waiting!ClientEvents) /\ Len(Tail(heard)) = Len(heard) - 1
            /\ \A i \in 1..Len(Tail(heard)) : Tail(heard)[i] = heard[i + 1]
        BY <1>2, <4>1
      <4>3. Len(heard) - 1 \in Nat /\ Len(heard) - 1 + 1 <= ChannelCapacity
        BY ONLY <1>2, <3>1, StreamsAssumption
      <4> QED
        BY <3>1, <4>2, <4>3
    <3>2. CASE ~full
      BY <1>2, <3>2, StreamsAssumption
    <3> QED
      BY <3>1, <3>2
  <2> HIDE DEF base
  <2>3. /\ heard' \in Seq(Waiting!ClientEvents) /\ Len(heard') = Len(base) + 1
        /\ heard'[Len(base) + 1] = handling
        /\ \A i \in 1..Len(base) : heard'[i] = heard[i + d] /\ i + d \in 1..Len(heard)
    <3>1. /\ heard' \in Seq(Waiting!ClientEvents) /\ Len(heard') = Len(base) + 1
          /\ heard'[Len(base) + 1] = handling
          /\ \A i \in 1..Len(base) : heard'[i] = base[i]
      BY <1>2, <2>1, <2>2
    <3>2. \A i \in 1..Len(base) : i + d \in 1..Len(heard)
      BY ONLY <1>2, <2>2
    <3> QED
      BY <2>2, <3>1, <3>2
  <2>4. Waiting!TypeOK'
    <3>1. Len(heard') <= ChannelCapacity
      BY <2>2, <2>3
    <3>2. lagged' \in BOOLEAN
      BY <2>1
    <3> QED
      BY <1>1, <1>2, <2>3, <3>1, <3>2 DEF Waiting!TypeOK, Waiting!ClientEvents, Waiting!Terminal
  <2>5. InPlace'
    <3>1. \A i \in 1..Len(heard') : i # Len(base) + 1 => i \in 1..Len(base) /\ i + d \in 1..Len(heard)
      <4>1. \A i \in 1..Len(heard') : i # Len(base) + 1 => i \in 1..Len(base)
        BY ONLY <2>2, <2>3
      <4> QED
        BY <4>1, <2>3
    <3>2. \A i \in 1..Len(heard) : g[i] \in 1..Len(history) /\ g[i] < Len(history)
      BY <1>1, <1>4 DEF Placed
    <3>3. \A i \in Waiting!Shown : f[i] \in 1..Len(history) /\ f[i] < Len(history)
      BY <1>1, <1>4 DEF Placed
    <3>4. PICK h \in [1..Len(heard') -> 1..Len(history)] :
            \A i \in 1..Len(heard') : /\ i = Len(base) + 1 => h[i] = Len(history)
                                      /\ i # Len(base) + 1 => h[i] = g[i + d]
      <4> DEFINE k == [i \in 1..Len(heard') |-> IF i = Len(base) + 1 THEN Len(history) ELSE g[i + d]]
      <4>1. Len(history) \in 1..Len(history)
        BY <1>2, <1>5
      <4>2. ASSUME NEW i \in 1..Len(heard')
            PROVE  (IF i = Len(base) + 1 THEN Len(history) ELSE g[i + d]) \in 1..Len(history)
        BY <3>1, <3>2, <4>1
      <4>3. k \in [1..Len(heard') -> 1..Len(history)]
        BY <4>2
      <4>4. \A i \in 1..Len(heard') : /\ i = Len(base) + 1 => k[i] = Len(history)
                                      /\ i # Len(base) + 1 => k[i] = g[i + d]
        OBVIOUS
      <4> HIDE DEF k
      <4> QED
        BY <4>3, <4>4
    <3>5. ASSUME NEW i \in 1..Len(heard') PROVE heard'[i] = history[h[i]]
      BY <1>4, <1>5, <2>3, <3>1, <3>4 DEF Placed
    <3>6. ASSUME NEW i \in 1..Len(heard'), NEW j \in 1..Len(heard'), i < j PROVE h[i] < h[j]
      <4>1. i # Len(base) + 1
        BY ONLY <2>2, <2>3, <3>6, i \in 1..Len(heard'), j \in 1..Len(heard')
      <4>2. i + d \in 1..Len(heard) /\ h[i] = g[i + d]
        BY <3>1, <3>4, <4>1
      <4>3. CASE j = Len(base) + 1
        BY <3>2, <3>4, <4>2, <4>3
      <4>4. CASE j # Len(base) + 1
        <5>1. j + d \in 1..Len(heard) /\ h[j] = g[j + d]
          BY <3>1, <3>4, <4>4
        <5>2. i + d < j + d
          BY ONLY <3>6, <2>2, i \in 1..Len(heard'), j \in 1..Len(heard')
        <5> QED
          BY <1>4, <4>2, <5>1, <5>2 DEF Placed
      <4> QED
        BY <4>3, <4>4
    <3>7. ASSUME NEW i \in Waiting!Shown, NEW j \in 1..Len(heard') PROVE f[i] < h[j]
      BY <1>4, <3>1, <3>3, <3>4 DEF Placed
    <3>8. Placed(f, h)'
      BY <1>1, <1>3, <1>4, <3>5, <3>6, <3>7 DEF Placed
    <3>9. f \in [Waiting!Shown' -> 1..Len(history')] /\ h \in [1..Len(heard') -> 1..Len(history')]
      BY <1>1, <1>3
    <3> QED
      BY <1>1, <3>8, <3>9 DEF InPlace
  <2>6. Awaited'
    <3>1. SUFFICES ASSUME ~lagged', NEW i \in (joined + 1)..Len(history), history[i] \in Waiting!Final
                   PROVE  \E j \in 1..Len(heard') : heard'[j] = history[i]
      BY <1>1 DEF Awaited, Waiting!Final
    <3>2. ~lagged /\ ~full /\ d = 0
      BY <2>1, <2>2, <3>1
    <3>3. handling = history[i] \/ \E j \in 1..Len(heard) : heard[j] = history[i]
      BY <1>9, <3>1, <3>2 DEF WaitInv, Awaited
    <3>4. CASE handling = history[i]
      <4>1. Len(base) + 1 \in 1..Len(heard')
        BY <2>2, <2>3
      <4> QED
        BY <2>3, <3>4, <4>1
    <3>5. ASSUME NEW j \in 1..Len(heard), heard[j] = history[i] PROVE \E k \in 1..Len(heard') : heard'[k] = history[i]
      <4>1. j \in 1..Len(base) /\ j \in 1..Len(heard') /\ j + d = j
        BY ONLY <1>2, <2>2, <2>3, <3>2, j \in 1..Len(heard)
      <4> QED
        BY <2>3, <3>5, <4>1
    <3> QED
      BY <3>3, <3>4, <3>5
  <2> QED
    BY <1>6, <1>7, <2>4, <2>5, <2>6 DEF WaitInv
<1> QED
  BY <1>8, <1>9

\* What is not shown changes no place.
LEMMA NothingShown ==
    ASSUME WaitInv, NEW t \in Waiting!Terminal, told' = told \o << >> \/ told' = told \o <<t>>,
           UNCHANGED <<status, handling, history, heard, lagged>>,
           stream' \in {"look", "subscribe", "listen", "closed"}, joined' \in 0..Len(history)
    PROVE  Waiting!TypeOK' /\ InPlace'
<1>1. /\ told' \in Seq(Waiting!ClientEvents \cup Waiting!Terminal)
      /\ Waiting!Shown' = Waiting!Shown /\ \A i \in Waiting!Shown : told'[i] = told[i]
  BY SaysNone DEF WaitInv
<1>2. Waiting!TypeOK'
  BY <1>1 DEF WaitInv, Waiting!TypeOK, Waiting!ClientEvents, Waiting!Terminal
<1>3. PICK f \in [Waiting!Shown -> 1..Len(history)], g \in [1..Len(heard) -> 1..Len(history)] : Placed(f, g)
  BY DEF WaitInv, InPlace
<1>4. Placed(f, g)'
  BY <1>1, <1>3 DEF Placed
<1>5. f \in [Waiting!Shown' -> 1..Len(history')] /\ g \in [1..Len(heard') -> 1..Len(history')]
  BY <1>1
<1> QED
  BY <1>2, <1>4, <1>5 DEF WaitInv, InPlace

\* What the stream does with an event it receives.
LEMMA Forwarded ==
    ASSUME WaitInv, NEW e \in Waiting!ClientEvents, Waiting!forward(e)
    PROVE  /\ joined' = joined
           /\ \/ told' = told \o <<e>> /\ stream' = "listen" /\ e \notin Waiting!Final
              \/ told' = told \o <<e, "ready">> /\ stream' = "closed" /\ SkipHistorySync
              \/ told' = told \o <<"ready">> /\ stream' = "closed" /\ e = "offline_sync_completed"
              \/ told' = told \o <<"error">> /\ stream' = "closed"
              \/ told' = told \o << >> /\ stream' = "listen" /\ e \notin Waiting!Final
<1>1. CASE e = "qr_code"
  BY <1>1 DEF Waiting!forward, Waiting!Send, Waiting!Final
<1>2. CASE e = "connected"
  BY <1>2 DEF Waiting!forward, Waiting!Send, Waiting!Final
<1>3. CASE e = "offline_sync_completed"
  BY <1>3 DEF Waiting!forward, Waiting!Send, Waiting!Final
<1>4. CASE e = "logged_out"
  BY <1>4 DEF Waiting!forward, Waiting!Send, Waiting!Final
<1>5. CASE e \notin {"qr_code", "connected", "offline_sync_completed", "logged_out"}
  BY <1>5 DEF Waiting!forward, Waiting!Send, Waiting!Final
<1> QED
  BY <1>1, <1>2, <1>3, <1>4, <1>5

\* The first event heard leaves the channel, and may be shown.
LEMMA PlacesReceived ==
    ASSUME WaitInv, heard # << >>, heard' = Tail(heard),
           UNCHANGED <<status, handling, history, lagged, joined>>,
           stream' \in {"listen", "closed"}, NEW t \in Waiting!Terminal,
           \/ told' = told \o << >> \/ told' = told \o <<t>>
           \/ told' = told \o <<Head(heard)>> \/ told' = told \o <<Head(heard), t>>
    PROVE  Waiting!TypeOK' /\ InPlace'
<1> DEFINE e == heard[1]
<1>1. /\ heard \in Seq(Waiting!ClientEvents) /\ Len(heard) \in Nat /\ Len(told) \in Nat
      /\ Len(heard) <= ChannelCapacity /\ Waiting!TypeOK
      /\ Waiting!Shown \in SUBSET (1..Len(told))
  BY WaitShapes DEF WaitInv, Waiting!TypeOK
<1>2. Head(heard) = e /\ e \in Waiting!ClientEvents /\ 1 \in 1..Len(heard)
  BY <1>1
<1>3. /\ heard' \in Seq(Waiting!ClientEvents) /\ Len(heard') = Len(heard) - 1
      /\ \A i \in 1..Len(heard') : heard'[i] = heard[i + 1] /\ i + 1 \in 1..Len(heard)
  <2>1. /\ heard' \in Seq(Waiting!ClientEvents) /\ Len(heard') = Len(heard) - 1
        /\ \A i \in 1..Len(heard') : heard'[i] = heard[i + 1]
    BY <1>1
  <2>2. \A i \in 1..Len(heard') : i + 1 \in 1..Len(heard)
    BY ONLY <1>1, <2>1
  <2> QED
    BY <2>1, <2>2
<1> HIDE DEF e
<1>4. /\ told' \in Seq(Waiting!ClientEvents \cup Waiting!Terminal)
      /\ \A i \in Waiting!Shown : told'[i] = told[i]
      /\ \/ Waiting!Shown' = Waiting!Shown
         \/ Waiting!Shown' = Waiting!Shown \cup {Len(told) + 1} /\ told'[Len(told) + 1] = e
  <2>1. CASE told' = told \o << >> \/ told' = told \o <<t>>
    BY <1>1, <2>1, SaysNone
  <2>2. CASE told' = told \o <<e>> \/ told' = told \o <<e, t>>
    BY <1>1, <1>2, <2>2, SaysOne
  <2> QED
    BY <1>2, <2>1, <2>2
<1>5. Waiting!TypeOK'
  <2>1. Len(heard') <= ChannelCapacity
    BY ONLY <1>1, <1>3, StreamsAssumption
  <2> QED
    BY <1>1, <1>3, <1>4, <2>1 DEF Waiting!TypeOK, Waiting!ClientEvents, Waiting!Terminal
<1>6. PICK f \in [Waiting!Shown -> 1..Len(history)], g \in [1..Len(heard) -> 1..Len(history)] : Placed(f, g)
  BY DEF WaitInv, InPlace
<1>7. /\ \A i \in 1..Len(heard) : g[i] \in 1..Len(history)
      /\ \A i \in Waiting!Shown : f[i] \in 1..Len(history)
  OBVIOUS
<1>8. PICK h \in [1..Len(heard') -> 1..Len(history)] : \A i \in 1..Len(heard') : h[i] = g[i + 1]
  <2> DEFINE k == [i \in 1..Len(heard') |-> g[i + 1]]
  <2>1. k \in [1..Len(heard') -> 1..Len(history)]
    BY <1>3, <1>7
  <2>2. \A i \in 1..Len(heard') : k[i] = g[i + 1]
    OBVIOUS
  <2> HIDE DEF k
  <2> QED
    BY <2>1, <2>2
<1>9. PICK s \in [Waiting!Shown' -> 1..Len(history)] :
        /\ \A i \in Waiting!Shown : s[i] = f[i]
        /\ Len(told) + 1 \in Waiting!Shown' => s[Len(told) + 1] = g[1]
  <2>0. Len(told) + 1 \notin Waiting!Shown
    BY ONLY <1>1
  <2> DEFINE k == [i \in Waiting!Shown' |-> IF i = Len(told) + 1 THEN g[1] ELSE f[i]]
  <2>1. k \in [Waiting!Shown' -> 1..Len(history)]
    <3>1. ASSUME NEW i \in Waiting!Shown' PROVE (IF i = Len(told) + 1 THEN g[1] ELSE f[i]) \in 1..Len(history)
      BY <1>2, <1>4, <1>7
    <3> QED
      BY <3>1
  <2>2. /\ \A i \in Waiting!Shown : k[i] = f[i]
        /\ Len(told) + 1 \in Waiting!Shown' => k[Len(told) + 1] = g[1]
    BY <2>0, <1>4
  <2> HIDE DEF k
  <2> QED
    BY <2>1, <2>2
<1>10. ASSUME NEW i \in Waiting!Shown'
       PROVE  \/ i \in Waiting!Shown /\ s[i] = f[i] /\ told'[i] = told[i]
              \/ i = Len(told) + 1 /\ s[i] = g[1] /\ told'[i] = e
  <2>1. i \in Waiting!Shown \/ (i = Len(told) + 1 /\ told'[i] = e)
    BY <1>4
  <2> QED
    BY <2>1, <1>4, <1>9
<1>11. ASSUME NEW i \in Waiting!Shown' PROVE told'[i] = history[s[i]]
  BY <1>2, <1>6, <1>10 DEF Placed, e
<1>12. ASSUME NEW i \in Waiting!Shown', NEW j \in Waiting!Shown', i < j PROVE s[i] < s[j]
  <2>1. i \in Waiting!Shown /\ s[i] = f[i]
    <3>1. i # Len(told) + 1
      <4>1. /\ j \in 1..Len(told) \/ j = Len(told) + 1
            /\ i \in 1..Len(told) \/ i = Len(told) + 1
        BY <1>1, <1>4
      <4> QED
        BY ONLY <1>1, <1>12, <4>1
    <3> QED
      BY <3>1, <1>10
  <2>2. CASE j \in Waiting!Shown /\ s[j] = f[j]
    BY <1>6, <1>12, <2>1, <2>2 DEF Placed
  <2>3. CASE s[j] = g[1]
    BY <1>2, <1>6, <2>1, <2>3 DEF Placed
  <2> QED
    BY <1>10, <2>2, <2>3
<1>13. ASSUME NEW i \in 1..Len(heard') PROVE heard'[i] = history[h[i]]
  BY <1>3, <1>6, <1>8 DEF Placed
<1>14. ASSUME NEW i \in 1..Len(heard'), NEW j \in 1..Len(heard'), i < j PROVE h[i] < h[j]
  <2>1. i + 1 < j + 1
    BY ONLY <1>14, i \in 1..Len(heard'), j \in 1..Len(heard')
  <2> QED
    BY <1>3, <1>6, <1>8, <2>1 DEF Placed
<1>15. ASSUME NEW i \in Waiting!Shown', NEW j \in 1..Len(heard') PROVE s[i] < h[j]
  <2>1. h[j] = g[j + 1] /\ j + 1 \in 1..Len(heard) /\ 1 < j + 1
    <3>1. 1 < j + 1
      BY ONLY j \in 1..Len(heard')
    <3> QED
      BY <1>3, <1>8, <3>1
  <2>2. CASE i \in Waiting!Shown /\ s[i] = f[i]
    BY <1>6, <2>1, <2>2 DEF Placed
  <2>3. CASE s[i] = g[1]
    BY <1>2, <1>6, <2>1, <2>3 DEF Placed
  <2> QED
    BY <1>10, <2>2, <2>3
<1>16. handling' # "none" => /\ \A i \in Waiting!Shown' : s[i] < Len(history)
                             /\ \A i \in 1..Len(heard') : h[i] < Len(history)
  BY <1>2, <1>3, <1>6, <1>8, <1>10 DEF Placed
<1>17. Placed(s, h)'
  BY <1>11, <1>12, <1>13, <1>14, <1>15, <1>16 DEF Placed
<1>18. s \in [Waiting!Shown' -> 1..Len(history')] /\ h \in [1..Len(heard') -> 1..Len(history')]
  OBVIOUS
<1> QED
  BY <1>5, <1>17, <1>18 DEF WaitInv, InPlace

\* An answer has the words that were said, and those that are added.
LEMMA Words ==
    ASSUME NEW S, NEW s \in Seq(S), NEW t \in Seq(S), NEW w
    PROVE  Waiting!Contains(s \o t, w) <=> Waiting!Contains(s, w) \/ \E i \in 1..Len(t) : t[i] = w
<1>1. /\ Len(s \o t) = Len(s) + Len(t) /\ Len(s) \in Nat /\ Len(t) \in Nat
      /\ \A i \in 1..Len(s) : (s \o t)[i] = s[i]
      /\ \A i \in 1..Len(t) : (s \o t)[Len(s) + i] = t[i]
  BY Said
<1>2. ASSUME NEW i \in 1..Len(s \o t), (s \o t)[i] = w
      PROVE  (\E j \in 1..Len(s) : s[j] = w) \/ \E j \in 1..Len(t) : t[j] = w
  <2>1. CASE i \in 1..Len(s)
    BY <1>1, <1>2, <2>1
  <2>2. CASE i \notin 1..Len(s)
    <3>1. i - Len(s) \in 1..Len(t) /\ Len(s) + (i - Len(s)) = i
      BY ONLY <1>1, <2>2, i \in 1..Len(s \o t)
    <3> QED
      BY <1>1, <1>2, <3>1
  <2> QED
    BY <2>1, <2>2
<1>3. ASSUME NEW i \in 1..Len(s), s[i] = w PROVE \E j \in 1..Len(s \o t) : (s \o t)[j] = w
  <2>1. i \in 1..Len(s \o t)
    BY ONLY <1>1, i \in 1..Len(s)
  <2> QED
    BY <2>1, <1>1, <1>3
<1>4. ASSUME NEW i \in 1..Len(t), t[i] = w PROVE \E j \in 1..Len(s \o t) : (s \o t)[j] = w
  <2>1. Len(s) + i \in 1..Len(s \o t)
    BY ONLY <1>1, i \in 1..Len(t)
  <2> QED
    BY <2>1, <1>1, <1>4
<1> QED
  BY <1>2, <1>3, <1>4 DEF Waiting!Contains

\* What the answer has after one of the steps of the stream.
LEMMA WordsAdded ==
    ASSUME Waiting!TypeOK, NEW w
    PROVE  /\ told' = told \o << >> => (Waiting!Contains(told', w) <=> Waiting!Contains(told, w)) /\ told' = told
           /\ \A e \in Waiting!ClientEvents \cup Waiting!Terminal :
                told' = told \o <<e>> => (Waiting!Contains(told', w) <=> Waiting!Contains(told, w) \/ w = e)
           /\ \A e, t \in Waiting!ClientEvents \cup Waiting!Terminal :
                told' = told \o <<e, t>> => (Waiting!Contains(told', w) <=> Waiting!Contains(told, w) \/ w = e \/ w = t)
<1> DEFINE S == Waiting!ClientEvents \cup Waiting!Terminal
<1>1. told \in Seq(S)
  BY WaitShapes
<1> HIDE DEF S
<1>2. told \o << >> = told
  BY <1>1, ConcatEmptySeq
<1>3. ASSUME NEW e \in S PROVE Waiting!Contains(told \o <<e>>, w) <=> Waiting!Contains(told, w) \/ w = e
  <2>1. <<e>> \in Seq(S) /\ Len(<<e>>) = 1 /\ <<e>>[1] = e
    OBVIOUS
  <2>2. (\E i \in 1..Len(<<e>>) : <<e>>[i] = w) <=> w = e
    BY <2>1
  <2> DEFINE u == <<e>>
  <2>3. u \in Seq(S) /\ ((\E i \in 1..Len(u) : u[i] = w) <=> w = e)
    BY <2>1, <2>2
  <2> HIDE DEF u
  <2>4. Waiting!Contains(told \o u, w)
          <=> Waiting!Contains(told, w) \/ \E i \in 1..Len(u) : u[i] = w
    BY ONLY <1>1, <2>3, Words
  <2> QED
    BY <2>3, <2>4 DEF u
<1>4. ASSUME NEW e \in S, NEW t \in S
      PROVE  Waiting!Contains(told \o <<e, t>>, w) <=> Waiting!Contains(told, w) \/ w = e \/ w = t
  <2>1. <<e, t>> \in Seq(S) /\ Len(<<e, t>>) = 2 /\ <<e, t>>[1] = e /\ <<e, t>>[2] = t
    OBVIOUS
  <2>2. (\E i \in 1..Len(<<e, t>>) : <<e, t>>[i] = w) <=> w = e \/ w = t
    BY <2>1
  <2> DEFINE u == <<e, t>>
  <2>3. u \in Seq(S) /\ ((\E i \in 1..Len(u) : u[i] = w) <=> w = e \/ w = t)
    BY <2>1, <2>2
  <2> HIDE DEF u
  <2>4. Waiting!Contains(told \o u, w)
          <=> Waiting!Contains(told, w) \/ \E i \in 1..Len(u) : u[i] = w
    BY ONLY <1>1, <2>3, Words
  <2> QED
    BY <2>3, <2>4 DEF u
<1> QED
  BY <1>2, <1>3, <1>4 DEF S

\* While the stream is open nothing that was said is terminal.
LEMMA NoEndYet ==
    ASSUME WaitInv, stream # "closed", NEW w \in Waiting!Terminal
    PROVE  ~Waiting!Contains(told, w)
BY DEF WaitInv, InTime, Waiting!Contains

\* Looking, subscribing, giving up: the stream alone moves.
LEMMA ReaderKeeps ==
    ASSUME WaitInv, \/ Waiting!look \/ Waiting!subscribe_events
                    \/ Waiting!deadline \/ Waiting!CallerHangsUp
    PROVE  WaitInv'
<1>1. UNCHANGED <<status, handling, history, heard, lagged>>
  BY DEF Waiting!look, Waiting!subscribe_events, Waiting!deadline, Waiting!CallerHangsUp, Waiting!session
<1>t. Waiting!TypeOK
  BY DEF WaitInv
<1>2. told \o << >> = told
  BY <1>t, WordsAdded, WaitShapes, ConcatEmptySeq
<1>3. /\ \/ stream' = "closed" /\ stream = "look" /\ told' = told \o <<"ready">> /\ joined' = joined
         \/ stream' = "subscribe" /\ stream = "look" /\ told' = told \o << >> /\ joined' = joined
         \/ stream' = "listen" /\ stream = "subscribe" /\ told' = told \o << >> /\ joined' = Len(history)
         \/ stream' = "closed" /\ stream = "listen" /\ told' = told \o <<"timeout">> /\ joined' = joined
         \/ stream' = "closed" /\ stream = "listen" /\ told' = told \o << >> /\ joined' = joined
  BY <1>2 DEF Waiting!look, Waiting!subscribe_events, Waiting!deadline, Waiting!CallerHangsUp, Waiting!Send
<1>4. joined' \in 0..Len(history) /\ stream' \in {"look", "subscribe", "listen", "closed"}
  <2>1. joined \in 0..Len(history) /\ Len(history) \in Nat
    BY <1>t, WaitShapes DEF Waiting!TypeOK
  <2> QED
    BY <1>3, <2>1
<1>5. "ready" \in Waiting!Terminal /\ "timeout" \in Waiting!Terminal
  BY DEF Waiting!Terminal
<1>6. Waiting!TypeOK' /\ InPlace'
  <2>1. told' = told \o << >> \/ told' = told \o <<"ready">> \/ told' = told \o <<"timeout">>
    BY <1>3
  <2> QED
    BY <1>1, <1>4, <1>5, <2>1, NothingShown
<1>7. InTime'
  <2>1. stream' # "closed" => told' = told /\ heard' = heard /\ stream # "closed"
    BY <1>1, <1>2, <1>3
  <2>2. stream' \in {"look", "subscribe"} => stream = "look"
    BY <1>3
  <2> QED
    BY <2>1, <2>2, <1>3 DEF WaitInv, InTime, Waiting!Terminal
<1>8. Awaited'
  <2>1. SUFFICES ASSUME stream' = "listen" PROVE \A i \in (joined' + 1)..Len(history') : FALSE
    BY DEF Awaited
  <2>2. joined' = Len(history') /\ Len(history') \in Nat
    BY <1>1, <1>3, <1>t, <2>1, WaitShapes
  <2> QED
    BY ONLY <2>2
<1>9. Waiting!ReadyIsReady'
  <2>1. CASE told' = told \o << >>
    BY <1>1, <1>2, <2>1 DEF WaitInv, Waiting!ReadyIsReady, Waiting!Contains, Waiting!ToSet
  <2>2. CASE stream = "look" /\ told' = told \o <<"ready">>
    <3>1. told = << >>
      BY <2>2 DEF WaitInv, InTime
    <3>2. Len(told') = 1
      BY <2>2, <3>1
    <3> QED
      BY <3>2 DEF Waiting!ReadyIsReady
  <2>3. CASE stream = "listen" /\ told' = told \o <<"timeout">>
    <3>1. ~Waiting!Contains(told, "ready")
      BY <1>5, <2>3, NoEndYet
    <3>2. ~Waiting!Contains(told', "ready")
      BY <1>t, <1>5, <2>3, <3>1, WordsAdded
    <3> QED
      BY <3>2 DEF Waiting!ReadyIsReady, Waiting!Contains
  <2> QED
    BY <1>3, <2>1, <2>2, <2>3
<1> QED
  BY <1>6, <1>7, <1>8, <1>9 DEF WaitInv

\* Each event the stream receives is passed over, shown, or its end.
LEMMA RecvKeeps ==
    ASSUME WaitInv, Waiting!recv
    PROVE  WaitInv'
<1> DEFINE e == Head(heard)
<1>1. /\ stream = "listen" /\ heard # << >> /\ heard' = Tail(heard) /\ Waiting!forward(e)
      /\ UNCHANGED <<status, handling, history, lagged>>
  BY DEF Waiting!recv, Waiting!session
<1>t. Waiting!TypeOK
  BY DEF WaitInv
<1>2. /\ heard \in Seq(Waiting!ClientEvents) /\ Len(heard) \in Nat /\ Len(heard) > 0
      /\ e = heard[1] /\ e \in Waiting!ClientEvents
      /\ Len(heard') = Len(heard) - 1 /\ \A i \in 1..Len(heard') : heard'[i] = heard[i + 1]
  <2>1. heard \in Seq(Waiting!ClientEvents)
    BY <1>t, WaitShapes
  <2> QED
    BY <2>1, <1>1
<1> HIDE DEF e
<1>3. /\ joined' = joined
      /\ \/ told' = told \o <<e>> /\ stream' = "listen" /\ e \notin Waiting!Final
         \/ told' = told \o <<e, "ready">> /\ stream' = "closed" /\ SkipHistorySync
         \/ told' = told \o <<"ready">> /\ stream' = "closed" /\ e = "offline_sync_completed"
         \/ told' = told \o <<"error">> /\ stream' = "closed"
         \/ told' = told \o << >> /\ stream' = "listen" /\ e \notin Waiting!Final
  BY <1>1, <1>2, Forwarded
<1>4. /\ "ready" \in Waiting!Terminal /\ "error" \in Waiting!Terminal
      /\ "ready" # "error"
  BY DEF Waiting!Terminal
<1>5. Waiting!TypeOK' /\ InPlace'
  <2>1. stream' \in {"listen", "closed"}
    BY <1>3
  <2>2. CASE told' = told \o <<"error">>
    BY <1>1, <1>3, <1>4, <2>1, <2>2, PlacesReceived
  <2>3. CASE ~(told' = told \o <<"error">>)
    <3>1. \/ told' = told \o << >> \/ told' = told \o <<"ready">>
          \/ told' = told \o <<Head(heard)>> \/ told' = told \o <<Head(heard), "ready">>
      BY <1>3, <2>3 DEF e
    <3> QED
      BY <1>1, <1>3, <1>4, <2>1, <3>1, PlacesReceived
  <2> QED
    BY <2>2, <2>3
<1>6. InTime'
  <2>1. SUFFICES ASSUME stream' = "listen" PROVE \A i \in 1..Len(told') : told'[i] \notin Waiting!Terminal
    BY <1>3 DEF InTime, Waiting!Terminal
  <2>2. ASSUME NEW w \in Waiting!Terminal PROVE ~Waiting!Contains(told', w)
    <3>1. ~Waiting!Contains(told, w) /\ w # e
      BY <1>1, <1>2, <1>t, NoEndYet, WaitShapes
    <3>2. told' = told \o <<e>> \/ told' = told \o << >>
      BY <1>3, <2>1
    <3> QED
      BY <1>2, <1>t, <3>1, <3>2, WordsAdded
  <2> QED
    BY <2>2 DEF Waiting!Contains
<1>7. Awaited'
  <2>1. SUFFICES ASSUME stream' = "listen", ~lagged, NEW i \in (joined + 1)..Len(history),
                        history[i] \in Waiting!Final
                 PROVE  handling = history[i] \/ \E j \in 1..Len(heard') : heard'[j] = history[i]
    BY <1>1, <1>3 DEF Awaited, Waiting!Final
  <2>2. handling = history[i] \/ \E j \in 1..Len(heard) : heard[j] = history[i]
    BY <1>1, <2>1 DEF WaitInv, Awaited
  <2>3. ASSUME NEW j \in 1..Len(heard), heard[j] = history[i]
        PROVE  \E k \in 1..Len(heard') : heard'[k] = history[i]
    <3>1. e \notin Waiting!Final
      BY <1>3, <2>1
    <3>2. j # 1
      BY <1>2, <2>1, <2>3, <3>1
    <3>3. j - 1 \in 1..Len(heard') /\ (j - 1) + 1 = j
      BY ONLY <1>2, <3>2, j \in 1..Len(heard)
    <3>4. heard'[j - 1] = heard[j]
      BY <1>2, <3>3
    <3> QED
      BY <2>3, <3>3, <3>4
  <2> QED
    BY <2>2, <2>3
<1>8. Waiting!ReadyIsReady'
  <2>1. SUFFICES ASSUME Waiting!Contains(told', "ready"), ~SkipHistorySync
                 PROVE  "offline_sync_completed" \in Waiting!ToSet(history)
    BY <1>1 DEF Waiting!ReadyIsReady, Waiting!Contains, Waiting!ToSet
  <2>2. ~Waiting!Contains(told, "ready") /\ e # "ready"
    BY <1>1, <1>2, <1>4, <1>t, NoEndYet, WaitShapes
  <2>3. e = "offline_sync_completed"
    <3>1. told' # told \o << >> /\ told' # told \o <<e>> /\ told' # told \o <<"error">>
      BY <1>2, <1>4, <1>t, <2>1, <2>2, WordsAdded
    <3> QED
      BY <1>3, <2>1, <3>1
  <2>4. PICK f \in [Waiting!Shown -> 1..Len(history)], g \in [1..Len(heard) -> 1..Len(history)] : Placed(f, g)
    BY DEF WaitInv, InPlace
  <2>5. 1 \in 1..Len(heard)
    BY <1>2
  <2>6. heard[1] = history[g[1]] /\ g[1] \in 1..Len(history)
    BY <2>4, <2>5 DEF Placed
  <2>7. g[1] \in DOMAIN history
    BY <1>t, <2>6, WaitShapes
  <2> QED
    BY <1>2, <2>3, <2>6, <2>7 DEF Waiting!ToSet
<1> QED
  BY <1>5, <1>6, <1>7, <1>8 DEF WaitInv

\* Events, their handler and the stream keep the invariant.
LEMMA WaitNext == WaitInv /\ [Waiting!Next]_(Waiting!vars) => WaitInv'
<1> SUFFICES ASSUME WaitInv, [Waiting!Next]_(Waiting!vars) PROVE WaitInv'
  OBVIOUS
<1>1. CASE \/ Waiting!PairingQrCode \/ Waiting!Connected \/ Waiting!Disconnected
           \/ Waiting!OfflineSyncCompleted \/ \E purge \in BOOLEAN : Waiting!LoggedOut(purge)
  <2>1. {"qr_code", "connected", "disconnected", "offline_sync_completed", "logged_out", "kept"}
          = Waiting!ClientEvents
    BY DEF Waiting!ClientEvents
  <2>2. \E x \in Waiting!ClientEvents, from \in {{"pairing"}, {"in"}, {"pairing", "in"}},
           to \in {"out", "pairing", "in"} : Waiting!Handle(x, from, to)
    BY <1>1, <2>1 DEF Waiting!PairingQrCode, Waiting!Connected, Waiting!Disconnected,
       Waiting!OfflineSyncCompleted, Waiting!LoggedOut
  <2> QED
    BY <2>2, HandleKeeps
<1>2. CASE Waiting!broadcast_event
  BY <1>2, BroadcastKeeps
<1>3. CASE Waiting!look \/ Waiting!subscribe_events \/ Waiting!deadline \/ Waiting!CallerHangsUp
  BY <1>3, ReaderKeeps
<1>4. CASE Waiting!recv
  BY <1>4, RecvKeeps
<1>5. CASE UNCHANGED Waiting!vars
  <2>1. UNCHANGED <<status, handling, history, heard, lagged, stream, told, joined>>
    BY <1>5 DEF Waiting!vars, Waiting!session, Waiting!reader
  <2>2. Waiting!TypeOK'
    BY <2>1 DEF WaitInv, Waiting!TypeOK, Waiting!ClientEvents, Waiting!Terminal
  <2>3. Waiting!Shown' = Waiting!Shown
    BY <2>1 DEF Waiting!Shown, Waiting!Terminal
  <2>4. InPlace'
    <3>1. PICK f \in [Waiting!Shown -> 1..Len(history)], g \in [1..Len(heard) -> 1..Len(history)] : Placed(f, g)
      BY DEF WaitInv, InPlace
    <3>2. Placed(f, g)' /\ (handling' # "none" => Len(history') > 0 /\ history'[Len(history')] = handling')
      BY <2>1, <2>3, <3>1 DEF WaitInv, InPlace, Placed
    <3>3. f \in [Waiting!Shown' -> 1..Len(history')] /\ g \in [1..Len(heard') -> 1..Len(history')]
      BY <2>1, <2>3
    <3> QED
      BY <3>2, <3>3 DEF InPlace
  <2>5. InTime' /\ Awaited' /\ Waiting!ReadyIsReady'
    BY <2>1 DEF WaitInv, InTime, Awaited, Waiting!ReadyIsReady, Waiting!Terminal, Waiting!Final,
       Waiting!Contains, Waiting!ToSet
  <2> QED
    BY <2>2, <2>4, <2>5 DEF WaitInv
<1> QED
  BY <1>1, <1>2, <1>3, <1>4, <1>5 DEF Waiting!Next

\* The events shown are in the history, in that order.
LEMMA WaitSafe == ASSUME WaitInv PROVE WaitIsTrue
<1>1. PICK f \in [Waiting!Shown -> 1..Len(history)], g \in [1..Len(heard) -> 1..Len(history)] : Placed(f, g)
  BY DEF WaitInv, InPlace
<1>2. Waiting!ForwardsInOrder
  BY <1>1 DEF Waiting!ForwardsInOrder, Placed
<1> QED
  BY <1>2 DEF WaitInv, WaitIsTrue

\* A stream that times out has none of its ends in the history it saw, or on the way.
LEMMA TimesOut ==
    ASSUME WaitInv, [Waiting!Next]_(Waiting!vars),
           ~Waiting!Contains(told, "timeout"), Waiting!Contains(told', "timeout")
    PROVE  \/ \A i \in (joined + 1)..Len(history) : history[i] \notin Waiting!Final
           \/ handling # "none" \/ heard # << >> \/ lagged
<1>t. Waiting!TypeOK
  BY DEF WaitInv
<1>1. told' # told /\ told' # told \o << >>
  BY <1>t, WordsAdded
<1>2. CASE Waiting!recv
  <2> DEFINE e == Head(heard)
  <2>1. e \in Waiting!ClientEvents
    BY <1>2, <1>t, WaitShapes DEF Waiting!recv
  <2>2. Waiting!forward(e)
    BY <1>2 DEF Waiting!recv
  <2> HIDE DEF e
  <2>3. told' = told \o <<e>> \/ told' = told \o <<e, "ready">> \/ told' = told \o <<"ready">> \/ told' = told \o <<"error">>
    BY <1>1, <2>1, <2>2, Forwarded
  <2>4. /\ e # "timeout" /\ "ready" \in Waiting!Terminal /\ "error" \in Waiting!Terminal
        /\ "ready" # "timeout" /\ "error" # "timeout"
    BY <2>1 DEF Waiting!ClientEvents, Waiting!Terminal
  <2> QED
    BY <1>t, <2>1, <2>3, <2>4, WordsAdded
<1>3. CASE Waiting!look
  <2>1. told' = told \o <<"ready">>
    BY <1>1, <1>3 DEF Waiting!look, Waiting!Send
  <2>2. "ready" \in Waiting!Terminal /\ "ready" # "timeout"
    BY DEF Waiting!Terminal
  <2> QED
    BY <1>t, <2>1, <2>2, WordsAdded
<1>4. CASE Waiting!deadline
  <2>1. stream = "listen"
    BY <1>4 DEF Waiting!deadline
  <2>2. SUFFICES ASSUME handling = "none", heard = << >>, ~lagged, NEW i \in (joined + 1)..Len(history),
                        history[i] \in Waiting!Final
                 PROVE  FALSE
    BY <1>t DEF Waiting!TypeOK
  <2>3. handling = history[i] \/ \E j \in 1..Len(heard) : heard[j] = history[i]
    BY <2>1, <2>2 DEF WaitInv, Awaited
  <2>4. "none" \notin Waiting!Final
    BY DEF Waiting!Final
  <2> QED
    BY <2>2, <2>3, <2>4
<1> QED
  BY <1>1, <1>2, <1>3, <1>4 DEF Waiting!Next, Waiting!vars, Waiting!reader, Waiting!PairingQrCode,
     Waiting!Connected, Waiting!Disconnected, Waiting!OfflineSyncCompleted, Waiting!LoggedOut,
     Waiting!Handle, Waiting!broadcast_event, Waiting!subscribe_events, Waiting!CallerHangsUp, Waiting!Send

\* sessions.rs, connect_and_wait: the stream shows what happened in that order, and
\* says `ready` only of a session whose history is synced, unless it skips that.
THEOREM WaitTrue == FlowsSpec => []WaitIsTrue
BY OneAtATime, WaitInit, WaitNext, WaitSafe, PTL DEF FlowsSpec, FlowsInit

\* sessions.rs:510-511: timeout is sent only if no terminal state was reached after
\* the subscription, as far as the stream has received the events.
THEOREM TimeoutTrue == FlowsSpec => WaitTimeout
BY OneAtATime, WaitInit, WaitNext, TimesOut, PTL
   DEF FlowsSpec, FlowsInit, WaitTimeout, Waiting!TimeoutIsTimeout
=============================================================================
