---------------------------- MODULE EventBus_proofs ----------------------------
(* Proofs about EventBus for any number of publications and subscriptions.    *)
EXTENDS EventBus, TLAPS

(* Every variable of the bus keeps its type in every reachable state.         *)
THEOREM TypeCorrect == Spec => []TypeOK
<1>1. Init => TypeOK
  <2> SUFFICES ASSUME Init PROVE TypeOK
    OBVIOUS
  <2>1. dispatching \in BOOLEAN /\ stolen \in BOOLEAN
    BY Zenon DEF Init
  <2>0. queue \in Seq(Events)
    BY DEF Init
  <2>2. failed \in [Events -> BOOLEAN] /\ pc \in [Events -> PC]
    BY DEF Init, PC
  <2>3. subscriptions \subseteq Subs /\ appended \in Nat /\ order \in [Subs -> Nat]
    BY DEF Init
  <2>4. /\ caller \in [Events -> Events \cup {External}]
        /\ current \in [Events -> Events]
        /\ snapshot \in [Events -> SUBSET Subs]
        /\ delivered \in [Events -> SUBSET Subs]
    BY DEF Init
  <2> QED BY <2>0, <2>1, <2>2, <2>3, <2>4 DEF TypeOK
<1>2. TypeOK /\ [Next]_vars => TypeOK'
  <2> SUFFICES ASSUME TypeOK, [Next]_vars PROVE TypeOK'
    OBVIOUS
  <2> USE DEF TypeOK, PC, locals, registry
  <2>1. CASE UNCHANGED vars
    BY <2>1 DEF vars
  <2>2. ASSUME NEW s \in Subs, Subscribe(s) PROVE TypeOK'
    BY <2>2 DEF Subscribe
  <2>3. ASSUME NEW s \in Subs, Unsubscribe(s) PROVE TypeOK'
    BY <2>3 DEF Unsubscribe
  <2>4. ASSUME NEW c \in Events, NEW p \in Events \cup {External}, Publish(c, p)
        PROVE TypeOK'
    BY <2>4 DEF Publish
  <2>5. ASSUME NEW c \in Events, Take(c) PROVE TypeOK'
    <3>1. Head(queue) \in Events /\ Tail(queue) \in Seq(Events)
      BY <2>5 DEF Take
    <3> QED BY <2>5, <3>1 DEF Take
  <2>6. ASSUME NEW c \in Events, Drained(c) PROVE TypeOK'
    BY <2>6 DEF Drained
  <2>7. ASSUME NEW c \in Events, Invoke(c) PROVE TypeOK'
    BY <2>7 DEF Invoke, Earliest
  <2>8. ASSUME NEW c \in Events, NEW raises \in BOOLEAN, HandlerEnds(c, raises)
        PROVE TypeOK'
    BY <2>8 DEF HandlerEnds
  <2>9. ASSUME NEW c \in Events, Finally(c) PROVE TypeOK'
    BY <2>9 DEF Finally
  <2> QED
    BY <2>1, <2>2, <2>3, <2>4, <2>5, <2>6, <2>7, <2>8, <2>9 DEF Next, Step
<1> QED BY <1>1, <1>2, PTL DEF Spec

(* No published event is left in the queue, and _dispatching is never left    *)
(* set, without a publish() call that is still going to drain the queue       *)
(* (the early return of in_memory.py 80-81 relies on it), although a finally  *)
(* block may clear the flag of a dispatcher it does not belong to.            *)
THEOREM NoEventOrphaned == Spec => []NoOrphanedEvent
<1>1. Init => NoOrphanedEvent
  BY DEF Init, NoOrphanedEvent
<1>2. TypeOK /\ NoOrphanedEvent /\ [Next]_vars => NoOrphanedEvent'
  <2> SUFFICES ASSUME TypeOK, NoOrphanedEvent, [Next]_vars PROVE NoOrphanedEvent'
    OBVIOUS
  <2> USE DEF NoOrphanedEvent, Active, TypeOK, PC, locals, registry
  <2>1. CASE UNCHANGED vars
    BY <2>1 DEF vars
  <2>2. ASSUME NEW s \in Subs, Subscribe(s) PROVE NoOrphanedEvent'
    BY <2>2 DEF Subscribe
  <2>3. ASSUME NEW s \in Subs, Unsubscribe(s) PROVE NoOrphanedEvent'
    BY <2>3 DEF Unsubscribe
  <2>4. ASSUME NEW c \in Events, NEW p \in Events \cup {External}, Publish(c, p)
        PROVE NoOrphanedEvent'
    <3>1. CASE dispatching
      <4>1. PICK d \in Events : Active(d)
        BY <3>1
      <4>2. Active(d)'
        BY <2>4, <4>1 DEF Publish
      <4> QED BY <4>2
    <3>2. CASE ~dispatching
      <4>1. pc'[c] = "loop"
        BY <2>4, <3>2 DEF Publish
      <4> QED BY <4>1
    <3> QED BY <3>1, <3>2
  <2>5. ASSUME NEW c \in Events, Take(c) PROVE NoOrphanedEvent'
    BY <2>5 DEF Take
  <2>6. ASSUME NEW c \in Events, Drained(c) PROVE NoOrphanedEvent'
    BY <2>6 DEF Drained
  <2>7. ASSUME NEW c \in Events, Invoke(c) PROVE NoOrphanedEvent'
    BY <2>7 DEF Invoke
  <2>8. ASSUME NEW c \in Events, NEW raises \in BOOLEAN, HandlerEnds(c, raises)
        PROVE NoOrphanedEvent'
    BY <2>8 DEF HandlerEnds
  <2>9. ASSUME NEW c \in Events, Finally(c) PROVE NoOrphanedEvent'
    <3>1. ASSUME NEW d \in Events, Active(d) PROVE Active(d)'
      BY <2>9, <3>1 DEF Finally
    <3> QED BY <2>9, <3>1 DEF Finally
  <2> QED
    BY <2>1, <2>2, <2>3, <2>4, <2>5, <2>6, <2>7, <2>8, <2>9 DEF Next, Step
<1> QED BY <1>1, <1>2, TypeCorrect, PTL DEF Spec

(* While nothing has been stolen, the flag is set exactly when a call drains. *)
FlagOwned == ~stolen => \A c \in Events : Active(c) => dispatching

SerialInv == FlagOwned /\ SerialUntilStolen

(* Two publish() calls dispatch at once only after a finally block has        *)
(* cleared _dispatching under a call that set it later: the unconditional     *)
(* reset of in_memory.py 109-112 is the only way to lose serial dispatch.     *)
THEOREM SerialUnlessStolen == Spec => []SerialUntilStolen
<1>1. Init => SerialInv
  BY DEF Init, SerialInv, FlagOwned, SerialUntilStolen, Active
<1>2. TypeOK /\ SerialInv /\ [Next]_vars => SerialInv'
  <2> SUFFICES ASSUME TypeOK, SerialInv, [Next]_vars PROVE SerialInv'
    OBVIOUS
  <2> USE DEF SerialInv, FlagOwned, SerialUntilStolen, Active, TypeOK, PC, locals, registry
  <2>1. CASE UNCHANGED vars
    BY <2>1 DEF vars
  <2>2. ASSUME NEW s \in Subs, Subscribe(s) PROVE SerialInv'
    BY <2>2 DEF Subscribe
  <2>3. ASSUME NEW s \in Subs, Unsubscribe(s) PROVE SerialInv'
    BY <2>3 DEF Unsubscribe
  <2>4. ASSUME NEW c \in Events, NEW p \in Events \cup {External}, Publish(c, p)
        PROVE SerialInv'
    <3>1. CASE dispatching
      <4>1. \A d \in Events : Active(d)' => Active(d)
        BY <2>4, <3>1 DEF Publish
      <4> QED BY <2>4, <4>1, <3>1 DEF Publish
    <3>2. CASE ~dispatching
      <4>1. ~stolen => \A d \in Events : Active(d)' => d = c
        BY <2>4, <3>2 DEF Publish
      <4> QED BY <2>4, <4>1 DEF Publish
    <3> QED BY <3>1, <3>2
  <2>5. ASSUME NEW c \in Events, Take(c) PROVE SerialInv'
    BY <2>5 DEF Take
  <2>6. ASSUME NEW c \in Events, Drained(c) PROVE SerialInv'
    <3>1. ~stolen => \A d \in Events : ~Active(d)'
      BY <2>6 DEF Drained
    <3> QED BY <2>6, <3>1 DEF Drained
  <2>7. ASSUME NEW c \in Events, Invoke(c) PROVE SerialInv'
    BY <2>7 DEF Invoke
  <2>8. ASSUME NEW c \in Events, NEW raises \in BOOLEAN, HandlerEnds(c, raises)
        PROVE SerialInv'
    BY <2>8 DEF HandlerEnds
  <2>9. ASSUME NEW c \in Events, Finally(c) PROVE SerialInv'
    <3>1. \A d \in Events : Active(d)' => Active(d)
      BY <2>9 DEF Finally
    <3>2. ~stolen' => ~stolen /\ ~dispatching
      BY <2>9 DEF Finally
    <3> QED BY <3>1, <3>2
  <2> QED
    BY <2>1, <2>2, <2>3, <2>4, <2>5, <2>6, <2>7, <2>8, <2>9 DEF Next, Step
<1>3. SerialInv => SerialUntilStolen
  BY DEF SerialInv
<1> QED BY <1>1, <1>2, <1>3, TypeCorrect, PTL DEF Spec

Published == {c \in Events : pc[c] # "idle"}

(* An event is in one place only: the queue, or the snapshot loop of the one  *)
(* call that took it.                                                         *)
QueuedOnce ==
    /\ \A i \in 1..Len(queue) : queue[i] \in Published
    /\ \A i, j \in 1..Len(queue) : queue[i] = queue[j] => i = j
TakenOnce ==
    /\ \A c \in Events : snapshot[c] # {} => current[c] \in Published
    /\ \A c, d \in Events :
          current[c] = current[d] /\ c # d => snapshot[c] = {} \/ snapshot[d] = {}
    /\ \A c \in Events, i \in 1..Len(queue) : queue[i] = current[c] => snapshot[c] = {}
OneHolder == QueuedOnce /\ TakenOnce

LEMMA PublishedGrows ==
    ASSUME TypeOK, [Next]_vars
    PROVE  Published \subseteq Published'
<1> USE DEF Published, TypeOK, PC, locals, registry
<1>1. CASE UNCHANGED vars
  BY <1>1 DEF vars
<1>2. ASSUME NEW s \in Subs, Subscribe(s) \/ Unsubscribe(s)
      PROVE Published \subseteq Published'
  BY <1>2 DEF Subscribe, Unsubscribe
<1>3. ASSUME NEW c \in Events, NEW p \in Events \cup {External}, Publish(c, p)
      PROVE Published \subseteq Published'
  BY <1>3 DEF Publish
<1>4. ASSUME NEW c \in Events, Step(c) PROVE Published \subseteq Published'
  BY <1>4 DEF Step, Take, Drained, Invoke, HandlerEnds, Finally
<1> QED BY <1>1, <1>2, <1>3, <1>4 DEF Next

LEMMA EventInOnePlace == Spec => []OneHolder
<1>1. Init => OneHolder
  BY DEF Init, OneHolder, QueuedOnce, TakenOnce
<1>2. TypeOK /\ OneHolder /\ [Next]_vars => OneHolder'
  <2> SUFFICES ASSUME TypeOK, OneHolder, [Next]_vars PROVE OneHolder'
    OBVIOUS
  <2>0. Published \subseteq Published'
    BY PublishedGrows
  <2> USE DEF OneHolder, QueuedOnce, TakenOnce, TypeOK, locals, registry
  <2>1. CASE UNCHANGED vars
    BY <2>1 DEF vars, Published
  <2>2. ASSUME NEW s \in Subs, Subscribe(s) \/ Unsubscribe(s) PROVE OneHolder'
    BY <2>0, <2>2 DEF Subscribe, Unsubscribe
  <2>3. ASSUME NEW c \in Events, NEW p \in Events \cup {External}, Publish(c, p)
        PROVE OneHolder'
    <3>1. c \notin Published /\ c \in Published'
      BY <2>3 DEF Publish, Published, PC
    <3>2. /\ Len(queue') = Len(queue) + 1
          /\ queue'[Len(queue) + 1] = c
          /\ \A i \in 1..Len(queue) : queue'[i] = queue[i]
      BY <2>3 DEF Publish
    <3> DEFINE n == Len(queue)
    <3>3. n \in Nat /\ Len(queue') \in Nat
      OBVIOUS
    <3>4. \A i \in 1..Len(queue') : i \in 1..n \/ (i = n + 1 /\ queue'[i] = c)
      BY <3>2, <3>3
    <3>5. \A i \in 1..n : queue'[i] = queue[i] /\ queue[i] \in Published /\ queue[i] # c
      BY <3>1, <3>2
    <3>6. QueuedOnce'
      <4>1. \A i \in 1..Len(queue') : queue'[i] \in Published'
        BY <3>1, <3>4, <3>5, <2>0
      <4>2. \A i, j \in 1..Len(queue') : queue'[i] = queue'[j] => i = j
        BY <3>4, <3>5
      <4> QED BY <4>1, <4>2
    <3>7. current' = current /\ snapshot' = snapshot
      BY <2>3 DEF Publish
    <3>8. \A d \in Events : current[d] = c => snapshot[d] = {}
      BY <3>1
    <3>9. TakenOnce'
      <4>1. \A d \in Events, i \in 1..Len(queue') :
               queue'[i] = current[d] => snapshot[d] = {}
        BY <3>4, <3>5, <3>8
      <4> QED BY <4>1, <3>7, <2>0
    <3> QED BY <3>6, <3>9
  <2>4. ASSUME NEW c \in Events, Take(c) PROVE OneHolder'
    <3>1. /\ Len(queue') = Len(queue) - 1
          /\ Head(queue) = queue[1] /\ 1 \in 1..Len(queue)
          /\ \A i \in 1..Len(queue') : queue'[i] = queue[i + 1] /\ i + 1 \in 1..Len(queue)
      BY <2>4 DEF Take
    <3>2. QueuedOnce'
      <4>1. \A i \in 1..Len(queue') : queue'[i] \in Published'
        BY <3>1, <2>0
      <4>2. \A i, j \in 1..Len(queue') : queue'[i] = queue'[j] => i + 1 = j + 1
        BY <3>1
      <4> QED BY <4>1, <4>2
    <3>3. \A i \in 1..Len(queue') : queue'[i] # Head(queue)
      BY <3>1
    <3>4. \A d \in Events : current[d] = Head(queue) => snapshot[d] = {}
      BY <3>1
    <3>5. /\ current'[c] = Head(queue)
          /\ \A d \in Events \ {c} : current'[d] = current[d] /\ snapshot'[d] = snapshot[d]
      BY <2>4 DEF Take
    <3>6. Head(queue) \in Published' /\ Len(queue') \in Nat
      BY <3>1, <2>0
    <3>7. TakenOnce'
      <4>1. \A d \in Events : snapshot'[d] # {} => current'[d] \in Published'
        BY <3>5, <3>6, <2>0
      <4>2. \A d, e \in Events : current'[d] = current'[e] /\ d # e
                                   => snapshot'[d] = {} \/ snapshot'[e] = {}
        BY <3>4, <3>5, SMTT(30)
      <4>3. \A d \in Events, i \in 1..Len(queue') :
               queue'[i] = current'[d] => snapshot'[d] = {}
        BY <3>1, <3>3, <3>5, SMTT(30)
      <4> QED BY <4>1, <4>2, <4>3, SMTT(30)
    <3> QED BY <3>2, <3>7
  <2>5. ASSUME NEW c \in Events, Drained(c) \/ Finally(c) PROVE OneHolder'
    BY <2>0, <2>5, SMTT(30) DEF Drained, Finally
  <2>6. ASSUME NEW c \in Events, Invoke(c) PROVE OneHolder'
    <3>1. \A d \in Events : snapshot'[d] \subseteq snapshot[d]
      BY <2>6 DEF Invoke
    <3> QED BY <3>1, <2>0, <2>6 DEF Invoke
  <2>7. ASSUME NEW c \in Events, NEW raises \in BOOLEAN, HandlerEnds(c, raises)
        PROVE OneHolder'
    BY <2>0, <2>7 DEF HandlerEnds
  <2> QED
    BY <2>1, <2>2, <2>3, <2>4, <2>5, <2>6, <2>7, ZenonT(30) DEF Next, Step
<1> QED BY <1>1, <1>2, TypeCorrect, PTL DEF Spec

OrderBounded == \A s \in Subs : order[s] <= appended

LEMMA Ranked == Spec => []OrderBounded
<1>1. Init => OrderBounded
  BY DEF Init, OrderBounded
<1>2. TypeOK /\ OrderBounded /\ [Next]_vars => OrderBounded'
  BY DEF TypeOK, OrderBounded, Next, Step, Subscribe, Unsubscribe, Publish, Take,
         Drained, Invoke, HandlerEnds, Finally, vars, registry
<1> QED BY <1>1, <1>2, TypeCorrect, PTL DEF Spec

Due == [e \in Events |-> UNION {snapshot[c] : c \in {d \in Events : current[d] = e}}]

(* The bus implements the safety part of EventDelivery whatever the number of *)
(* dispatchers: FIFO hand-over, at most one delivery per matching             *)
(* subscription registered when the event was taken, in registration order    *)
(* (in_memory.py 77-115).                                                     *)
THEOREM ImplementsDelivery == Spec => Delivery!Safety
<1>1. Init => Delivery!Init
  BY DEF Init, Delivery!Init
<1>2. TypeOK /\ OneHolder /\ OrderBounded /\ [Next]_vars => [Delivery!Next]_(Delivery!dvars)
  <2> SUFFICES ASSUME TypeOK, OneHolder, OrderBounded, [Next]_vars
               PROVE  Delivery!Next \/ UNCHANGED Delivery!dvars
    OBVIOUS
  <2> USE DEF TypeOK, PC, locals, registry
  <2>1. CASE UNCHANGED vars
    BY <2>1 DEF vars, Delivery!dvars
  <2>2. ASSUME NEW s \in Subs, Subscribe(s) PROVE Delivery!Subscribe(s)
    <3>1. /\ order' = [order EXCEPT ![s] = order'[s]]
          /\ \A t \in Subs : order[t] < order'[s]
      BY <2>2 DEF Subscribe, OrderBounded
    <3> QED BY <2>2, <3>1 DEF Subscribe, Delivery!Subscribe
  <2>3. ASSUME NEW s \in Subs, Unsubscribe(s) PROVE Delivery!Unsubscribe(s)
    BY <2>3 DEF Unsubscribe, Delivery!Unsubscribe
  <2>4. ASSUME NEW c \in Events, NEW p \in Events \cup {External}, Publish(c, p)
        PROVE Delivery!Publish(c)
    <3>1. {d \in Events : pc'[d] # "idle"} = {d \in Events : pc[d] # "idle"} \cup {c}
      BY <2>4 DEF Publish
    <3> QED BY <2>4, <3>1 DEF Publish, Delivery!Publish
  <2>5. ASSUME NEW c \in Events, Take(c) PROVE Delivery!Take
    <3> DEFINE h == Head(queue)
               now == {s \in subscriptions : h \in Matches[s]}
    <3>1. h \in Events /\ h = queue[1] /\ 1 \in 1..Len(queue)
      BY <2>5 DEF Take
    <3>2. /\ current' = [current EXCEPT ![c] = h]
          /\ snapshot' = [snapshot EXCEPT ![c] = now]
          /\ snapshot[c] = {}
      BY <2>5 DEF Take
    <3>3. \A d \in Events : current[d] = h => snapshot[d] = {}
      BY <3>1 DEF OneHolder, TakenOnce
    <3>4. Due' = [Due EXCEPT ![h] = now]
      <4>1. ASSUME NEW e \in Events, e # h PROVE Due'[e] = Due[e]
        BY <4>1, <3>1, <3>2 DEF Due
      <4>2. Due'[h] = now
        BY <3>1, <3>2, <3>3 DEF Due
      <4> QED BY <3>1, <4>1, <4>2 DEF Due
    <3> QED BY <2>5, <3>4 DEF Take, Due, Delivery!Take
  <2>6. ASSUME NEW c \in Events, Drained(c) \/ Finally(c) PROVE UNCHANGED Delivery!dvars
    <3>1. {d \in Events : pc'[d] # "idle"} = {d \in Events : pc[d] # "idle"}
      BY <2>6 DEF Drained, Finally
    <3> QED BY <2>6, <3>1 DEF Drained, Finally, Delivery!dvars
  <2>7. ASSUME NEW c \in Events, NEW x \in Events, current[c] = x, Invoke(c)
        PROVE Delivery!Deliver(x)
    <3>1. PICK s \in Earliest(snapshot[c]) :
              /\ snapshot' = [snapshot EXCEPT ![c] = @ \ {s}]
              /\ delivered' = [delivered EXCEPT ![current[c]] = @ \cup {s}]
      BY <2>7 DEF Invoke
    <3>2. s \in snapshot[c] /\ \A t \in snapshot[c] : order[s] <= order[t]
      BY <3>1 DEF Earliest
    <3>3. \A d \in Events : current[d] = x /\ d # c => snapshot[d] = {}
      BY <2>7, <3>2 DEF OneHolder, TakenOnce
    <3>4. Due[x] = snapshot[c]
      BY <2>7, <3>3 DEF Due
    <3>5. Due' = [Due EXCEPT ![x] = @ \ {s}]
      <4>1. current' = current
        BY <2>7 DEF Invoke
      <4>2. ASSUME NEW e \in Events, e # x PROVE Due'[e] = Due[e]
        BY <2>7, <4>1, <4>2, <3>1 DEF Due
      <4>3. Due'[x] = snapshot[c] \ {s}
        BY <2>7, <4>1, <3>1, <3>3 DEF Due
      <4> QED BY <3>4, <4>2, <4>3 DEF Due
    <3>6. {d \in Events : pc'[d] # "idle"} = {d \in Events : pc[d] # "idle"}
      BY <2>7 DEF Invoke
    <3> QED BY <2>7, <3>1, <3>2, <3>4, <3>5, <3>6 DEF Invoke, Due, Delivery!Deliver
  <2>8. ASSUME NEW c \in Events, NEW raises \in BOOLEAN, HandlerEnds(c, raises)
        PROVE UNCHANGED Delivery!dvars
    <3>1. {d \in Events : pc'[d] # "idle"} = {d \in Events : pc[d] # "idle"}
      BY <2>8 DEF HandlerEnds
    <3> QED BY <2>8, <3>1 DEF HandlerEnds, Delivery!dvars
  <2>9. \A c \in Events : current[c] \in Events
    OBVIOUS
  <2> HIDE DEF TypeOK, PC, locals, registry
  <2>10. ASSUME NEW s \in Subs, Subscribe(s) \/ Unsubscribe(s) PROVE Delivery!Next
    BY <2>2, <2>3, <2>10 DEF Delivery!Next
  <2>11. ASSUME NEW c \in Events, NEW p \in Events \cup {External}, Publish(c, p)
         PROVE Delivery!Next
    BY <2>4, <2>11 DEF Delivery!Next
  <2>12. ASSUME NEW c \in Events, Step(c) PROVE Delivery!Next \/ UNCHANGED Delivery!dvars
    <3>1. CASE Take(c)
      BY <2>5, <3>1 DEF Delivery!Next
    <3>2. CASE Drained(c) \/ Finally(c)
      BY <2>6, <3>2
    <3>3. CASE Invoke(c)
      <4>1. PICK x \in Events : current[c] = x
        BY <2>9
      <4> QED BY <2>7, <3>3, <4>1 DEF Delivery!Next
    <3>4. ASSUME NEW raises \in BOOLEAN, HandlerEnds(c, raises) PROVE UNCHANGED Delivery!dvars
      BY <2>8, <3>4
    <3> QED BY <2>12, <3>1, <3>2, <3>3, <3>4 DEF Step
  <2> QED
    BY <2>1, <2>10, <2>11, <2>12 DEF Next
<1> QED BY <1>1, <1>2, TypeCorrect, EventInOnePlace, Ranked, PTL DEF Spec, Delivery!Safety
==============================================================================
