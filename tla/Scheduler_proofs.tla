--------------------------- MODULE Scheduler_proofs ---------------------------
(* Proofs about Scheduler for any number of registrations and any calendar.   *)
EXTENDS Scheduler, TLAPS

(* Every variable of the scheduler keeps its type in every reachable state.   *)
THEOREM SchedulerTypeCorrect == Spec => []TypeOK
<1>1. Init => TypeOK
  <2> SUFFICES ASSUME Init PROVE TypeOK
    OBVIOUS
  <2>1. closed \in BOOLEAN
    BY Zenon DEF Init
  <2>2. /\ now \in Instants
        /\ deadline \in [Tokens -> Instants]
        /\ cursor \in [Tokens -> Instants]
        /\ since \in [Tokens -> Instants]
    BY SchedulerAssumption DEF Init, Instants
  <2>3. /\ registry \in [Tokens -> {"absent", "placeholder", "timer"}]
        /\ stage \in [Tokens -> Stages]
        /\ policy \in [Tokens -> Policies]
        /\ silenced \in [Tokens -> BOOLEAN]
        /\ returned \subseteq Tokens /\ cancelling \subseteq Tokens /\ cancelled \subseteq Tokens
    BY DEF Init, Stages, Policies
  <2>4. log \in [Tokens -> Seq(Instants)]
    BY DEF Init
  <2> QED BY <2>1, <2>2, <2>3, <2>4 DEF TypeOK
<1>2. TypeOK /\ [Next]_vars => TypeOK'
  <2> SUFFICES ASSUME TypeOK, [Next]_vars PROVE TypeOK'
    OBVIOUS
  <2> USE SchedulerAssumption DEF TypeOK, Stages, Instants
  <2>1. CASE UNCHANGED vars
    BY <2>1 DEF vars
  <2>2. CASE Tick
    BY <2>2 DEF Tick
  <2>3. CASE Close
    BY <2>3 DEF Close
  <2>4. ASSUME NEW r \in Once, NEW d \in Instants, NEW p \in Policies, ScheduleOnce(r, d, p)
        PROVE TypeOK'
    BY <2>4 DEF ScheduleOnce
  <2>5. ASSUME NEW r \in Recurring, NEW p \in Policies, ScheduleRecurring(r, p)
        PROVE TypeOK'
    BY <2>5 DEF ScheduleRecurring
  <2>6. ASSUME NEW r \in Tokens, Arm(r) PROVE TypeOK'
    <3>1. /\ registry' \in [Tokens -> {"absent", "placeholder", "timer"}]
          /\ stage' \in [Tokens -> Stages]
          /\ silenced' \in [Tokens -> BOOLEAN]
          /\ since' \in [Tokens -> Instants]
      BY <2>6 DEF Arm
    <3>2. deadline' \in [Tokens -> Instants]
      BY <2>6 DEF Arm, NextAfter
    <3> QED BY <2>6, <3>1, <3>2 DEF Arm
  <2>7. ASSUME NEW r \in Tokens, Start(r) PROVE TypeOK'
    BY <2>7 DEF Start
  <2>8. ASSUME NEW r \in Tokens, Wake(r) PROVE TypeOK'
    BY <2>8 DEF Wake
  <2>9. ASSUME NEW r \in Tokens, DeliverOnce(r) PROVE TypeOK'
    BY <2>9 DEF DeliverOnce
  <2>10. ASSUME NEW r \in Tokens, DeliverRecurring(r) PROVE TypeOK'
    <3>1. /\ stage' \in [Tokens -> Stages] /\ cursor' \in [Tokens -> Instants]
          /\ UNCHANGED <<now, closed, registry, policy, deadline, silenced, returned,
                         cancelling, cancelled, since, log>>
      BY <2>10, ZenonT(30) DEF DeliverRecurring
    <3> QED BY <3>1
  <2>11. ASSUME NEW r \in Tokens, NEW raises \in BOOLEAN, Publish(r, raises) PROVE TypeOK'
    BY <2>11 DEF Publish
  <2>12. ASSUME NEW r \in Tokens, Cancel(r) \/ CancelTimer(r) PROVE TypeOK'
    BY <2>12 DEF Cancel, CancelTimer
  <2> QED
    BY <2>1, <2>2, <2>3, <2>4, <2>5, <2>6, <2>7, <2>8, <2>9, <2>10, <2>11, <2>12
       DEF Next, Callback, Tokens
<1> QED BY <1>1, <1>2, PTL DEF Spec

(* The registry is empty for good once the scheduler is closed, and so is the *)
(* entry of a token that was cancelled: nothing registers it a second time.   *)
WithdrawnIsAbsent ==
    /\ closed => \A r \in Tokens : registry[r] = "absent"
    /\ \A r \in cancelled : registry[r] = "absent" /\ stage[r] # "unused"
    /\ \A r \in Tokens : stage[r] = "unused" => registry[r] = "absent"

LEMMA WithdrawnStaysAbsent == Spec => []WithdrawnIsAbsent
<1>1. Init => WithdrawnIsAbsent
  BY DEF Init, WithdrawnIsAbsent
<1>2. TypeOK /\ WithdrawnIsAbsent /\ [Next]_vars => WithdrawnIsAbsent'
  <2> SUFFICES ASSUME TypeOK, WithdrawnIsAbsent, [Next]_vars PROVE WithdrawnIsAbsent'
    OBVIOUS
  <2> USE DEF TypeOK, WithdrawnIsAbsent
  <2>1. CASE UNCHANGED vars
    BY <2>1 DEF vars
  <2>2. CASE Tick \/ Close
    BY <2>2 DEF Tick, Close
  <2>3. ASSUME NEW r \in Once, NEW d \in Instants, NEW p \in Policies, ScheduleOnce(r, d, p)
        PROVE WithdrawnIsAbsent'
    BY <2>3, ZenonT(30) DEF ScheduleOnce, Tokens
  <2>4. ASSUME NEW r \in Recurring, NEW p \in Policies, ScheduleRecurring(r, p)
        PROVE WithdrawnIsAbsent'
    BY <2>4 DEF ScheduleRecurring, Tokens
  <2>5. ASSUME NEW r \in Tokens, Arm(r) PROVE WithdrawnIsAbsent'
    <3>1. \A q \in Tokens : registry'[q] = registry[q] \/ (q = r /\ registry[q] = "absent")
                            \/ registry'[q] = "absent"
                            \/ (q = r /\ registry[q] # "absent" /\ ~closed)
      BY <2>5 DEF Arm
    <3>2. \A q \in Tokens : stage'[q] = "unused" => stage[q] = "unused"
      BY <2>5 DEF Arm
    <3>3. r \in cancelled \/ closed => registry' [r] = "absent"
      BY <2>5 DEF Arm
    <3> QED BY <2>5, <3>1, <3>2, <3>3 DEF Arm
  <2>6. ASSUME NEW r \in Tokens, Start(r) \/ Wake(r) PROVE WithdrawnIsAbsent'
    BY <2>6 DEF Start, Wake
  <2>7. ASSUME NEW r \in Tokens, DeliverOnce(r) \/ DeliverRecurring(r)
        PROVE WithdrawnIsAbsent'
    BY <2>7 DEF DeliverOnce, DeliverRecurring
  <2>8. ASSUME NEW r \in Tokens, NEW raises \in BOOLEAN, Publish(r, raises)
        PROVE WithdrawnIsAbsent'
    BY <2>8 DEF Publish
  <2>9. ASSUME NEW r \in Tokens, Cancel(r) PROVE WithdrawnIsAbsent'
    BY <2>9 DEF Cancel
  <2>10. ASSUME NEW r \in Tokens, CancelTimer(r) PROVE WithdrawnIsAbsent'
    BY <2>10 DEF CancelTimer
  <2> QED
    BY <2>1, <2>2, <2>3, <2>4, <2>5, <2>6, <2>7, <2>8, <2>9, <2>10 DEF Next, Callback
<1> QED BY <1>1, <1>2, SchedulerTypeCorrect, PTL DEF Spec

(* After cancel() has answered True, or close() has run, no callback passes   *)
(* the lock any more: at most the publication that had already passed it is   *)
(* still to come (threading.py 142-145, 178-186).                             *)
THEOREM NoLateDelivery == Spec => NoDeliveryAfterWithdrawal
<1> DEFINE P == \A r \in Tokens : Withdrawn(r) /\ stage'[r] = "publishing"
                                  => stage[r] = "publishing"
<1>1. TypeOK /\ WithdrawnIsAbsent /\ [Next]_vars => [P]_vars
  <2> SUFFICES ASSUME TypeOK, WithdrawnIsAbsent, [Next]_vars PROVE P \/ UNCHANGED vars
    OBVIOUS
  <2> USE DEF TypeOK, WithdrawnIsAbsent, Withdrawn
  <2>1. CASE Tick \/ Close
    BY <2>1 DEF Tick, Close
  <2>2. ASSUME NEW r \in Once, NEW d \in Instants, NEW p \in Policies, ScheduleOnce(r, d, p)
        PROVE P
    BY <2>2 DEF ScheduleOnce
  <2>3. ASSUME NEW r \in Recurring, NEW p \in Policies, ScheduleRecurring(r, p) PROVE P
    BY <2>3 DEF ScheduleRecurring
  <2>4. ASSUME NEW r \in Tokens, Arm(r) \/ Start(r) \/ Wake(r) PROVE P
    BY <2>4 DEF Arm, Start, Wake
  <2>5. ASSUME NEW r \in Tokens, DeliverOnce(r) PROVE P
    BY <2>5 DEF DeliverOnce
  <2>6. ASSUME NEW r \in Tokens, DeliverRecurring(r) PROVE P
    BY <2>6 DEF DeliverRecurring
  <2>7. ASSUME NEW r \in Tokens, NEW raises \in BOOLEAN, Publish(r, raises) PROVE P
    BY <2>7 DEF Publish
  <2>8. ASSUME NEW r \in Tokens, Cancel(r) \/ CancelTimer(r) PROVE P
    BY <2>8 DEF Cancel, CancelTimer
  <2> QED BY <2>1, <2>2, <2>3, <2>4, <2>5, <2>6, <2>7, <2>8 DEF Next, Callback
<1> QED
  BY <1>1, SchedulerTypeCorrect, WithdrawnStaysAbsent, PTL DEF Spec, NoDeliveryAfterWithdrawal

(* deliver() pops the token of a one-shot before it publishes, so the entry   *)
(* is in the registry only while the publication is still ahead.              *)
OnceInv ==
    \A r \in Once :
        /\ stage[r] \notin {"creating", "rearm"}
        /\ stage[r] \in {"unused", "publishing", "over"} => registry[r] = "absent"
        /\ r \in cancelling \/ silenced[r] => registry[r] = "absent" /\ stage[r] # "unused"
        /\ log[r] # <<>> => stage[r] = "over"
        /\ r \in cancelled => registry[r] = "absent"
SilenceInv == OnceInv /\ CancelledOnceIsSilent

(* A one-shot for which cancel() answered True is never published.            *)
THEOREM CancelledOnceNeverFires == Spec => []CancelledOnceIsSilent
<1>1. Init => SilenceInv
  BY DEF Init, SilenceInv, OnceInv, CancelledOnceIsSilent, Tokens
<1>2. TypeOK /\ WithdrawnIsAbsent /\ SilenceInv /\ [Next]_vars => SilenceInv'
  <2> SUFFICES ASSUME TypeOK, WithdrawnIsAbsent, SilenceInv, [Next]_vars
               PROVE  SilenceInv'
    OBVIOUS
  <2> USE SchedulerAssumption
      DEF TypeOK, WithdrawnIsAbsent, SilenceInv, OnceInv, CancelledOnceIsSilent, Tokens
  <2>1. CASE UNCHANGED vars
    BY <2>1 DEF vars
  <2>2. CASE Tick \/ Close
    BY <2>2 DEF Tick, Close
  <2>3. ASSUME NEW r \in Once, NEW d \in Instants, NEW p \in Policies, ScheduleOnce(r, d, p)
        PROVE SilenceInv'
    <3>1. r \notin cancelled /\ log[r] = <<>>
      BY <2>3 DEF ScheduleOnce
    <3>2. r \notin cancelling /\ ~silenced[r]
      BY <2>3 DEF ScheduleOnce
    <3> QED BY <2>3, <3>1, <3>2 DEF ScheduleOnce
  <2>4. ASSUME NEW r \in Recurring, NEW p \in Policies, ScheduleRecurring(r, p)
        PROVE SilenceInv'
    BY <2>4 DEF ScheduleRecurring
  <2>5. ASSUME NEW r \in Tokens, Arm(r) PROVE SilenceInv'
    BY <2>5 DEF Arm
  <2>6. ASSUME NEW r \in Tokens, Start(r) \/ Wake(r) PROVE SilenceInv'
    BY <2>6 DEF Start, Wake
  <2>7. ASSUME NEW r \in Tokens, DeliverOnce(r) PROVE SilenceInv'
    BY <2>7 DEF DeliverOnce
  <2>8. ASSUME NEW r \in Tokens, DeliverRecurring(r) PROVE SilenceInv'
    BY <2>8 DEF DeliverRecurring
  <2>9. ASSUME NEW r \in Tokens, NEW raises \in BOOLEAN, Publish(r, raises)
        PROVE SilenceInv'
    BY <2>9 DEF Publish
  <2>10. ASSUME NEW r \in Tokens, Cancel(r) PROVE SilenceInv'
    BY <2>10 DEF Cancel
  <2>11. ASSUME NEW r \in Tokens, CancelTimer(r) PROVE SilenceInv'
    BY <2>11 DEF CancelTimer
  <2> QED
    BY <2>1, <2>2, <2>3, <2>4, <2>5, <2>6, <2>7, <2>8, <2>9, <2>10, <2>11
       DEF Next, Callback
<1>3. SilenceInv => CancelledOnceIsSilent
  BY DEF SilenceInv
<1> QED
  BY <1>1, <1>2, <1>3, SchedulerTypeCorrect, WithdrawnStaysAbsent, PTL DEF Spec

(* A registration has published nothing at or beyond the deadline it waits    *)
(* for, and without SKIP everything before it: the cursor of a callback is    *)
(* the deadline it has served, and no occurrence lies between the cursor and  *)
(* the next deadline.                                                         *)
Waiting == {"stored", "armed", "fired", "publishing"}

Forward(r) ==
    /\ \A i, j \in 1..Len(log[r]) : i < j => log[r][i] < log[r][j]
    /\ stage[r] \in {"unused", "creating"} => log[r] = <<>>
    /\ r \in Once => stage[r] \notin {"creating", "rearm"}
    /\ r \in Once /\ stage[r] # "over" => log[r] = <<>>
    /\ stage[r] \in Waiting => \A i \in 1..Len(log[r]) : log[r][i] < deadline[r]
    /\ stage[r] = "publishing" /\ r \in Recurring => deadline[r] <= cursor[r]
    /\ stage[r] = "rearm" => \A i \in 1..Len(log[r]) : log[r][i] <= cursor[r]

Published(r, o, n) == \E j \in 1..n : log[r][j] = o

Gapless(r) ==
    r \in Recurring /\ policy[r] # "skip" =>
        /\ \A i \in 1..Len(log[r]), o \in Occurrences :
               since[r] < o /\ o < log[r][i] => Published(r, o, i)
        /\ stage[r] \in Waiting => \A o \in Occurrences :
               since[r] < o /\ o < deadline[r] => Published(r, o, Len(log[r]))
        /\ stage[r] = "publishing" => cursor[r] = deadline[r]
        /\ stage[r] = "rearm" => \A o \in Occurrences :
               since[r] < o /\ o <= cursor[r] => Published(r, o, Len(log[r]))

Advancing == \A r \in Tokens : Forward(r) /\ Gapless(r)

(* What a registration has published bears no mark of what others do.         *)
LEMMA OthersKeepPace ==
    ASSUME NEW q \in Tokens, Forward(q) /\ Gapless(q),
           log'[q] = log[q], stage'[q] = stage[q], deadline'[q] = deadline[q],
           cursor'[q] = cursor[q], policy'[q] = policy[q], since'[q] = since[q]
    PROVE  (Forward(q) /\ Gapless(q))'
BY DEF Forward, Gapless, Published

(* A callback that steps on towards its publication, or gives up.             *)
LEMMA StepsKeepPace ==
    ASSUME NEW q \in Tokens, Forward(q) /\ Gapless(q),
           log'[q] = log[q], deadline'[q] = deadline[q], cursor'[q] = cursor[q],
           policy'[q] = policy[q], since'[q] = since[q],
           \/ stage'[q] = "over"
           \/ stage[q] \in Waiting /\ stage'[q] \in Waiting \ {"publishing"}
    PROVE  (Forward(q) /\ Gapless(q))'
BY DEF Forward, Gapless, Published, Waiting

(* The publication appends the deadline, which is later than all before it.   *)
LEMMA PublishingKeepsPace ==
    ASSUME TypeOK, NEW r \in Tokens, Forward(r) /\ Gapless(r), NEW raises \in BOOLEAN,
           Publish(r, raises)
    PROVE  (Forward(r) /\ Gapless(r))'
<1> USE DEF Instants
<1> DEFINE n == Len(log[r])
<1>1. /\ log[r] \in Seq(Instants) /\ deadline[r] \in Instants /\ cursor[r] \in Instants
      /\ since[r] \in Instants /\ MaxTime \in Nat
  BY SchedulerAssumption DEF TypeOK
<1>2. /\ log'[r] = Append(log[r], deadline[r])
      /\ stage[r] = "publishing"
      /\ stage'[r] = IF r \in Once \/ raises THEN "over" ELSE "rearm"
      /\ deadline'[r] = deadline[r] /\ cursor'[r] = cursor[r] /\ policy'[r] = policy[r]
      /\ since'[r] = since[r]
  BY DEF Publish, TypeOK
<1>3. /\ n \in Nat /\ Len(log'[r]) = n + 1 /\ log'[r][n + 1] = deadline[r]
      /\ \A i \in 1..n : log'[r][i] = log[r][i] /\ log[r][i] \in Instants
  BY <1>1, <1>2
<1>4. \A i \in 1..n : log[r][i] < deadline[r]
  BY <1>2 DEF Forward, Waiting
<1>5. Forward(r)'
  <2>1. \A i, j \in 1..(n + 1) : i < j => log'[r][i] < log'[r][j]
    <3> SUFFICES ASSUME NEW i \in 1..(n + 1), NEW j \in 1..(n + 1), i < j
                 PROVE  log'[r][i] < log'[r][j]
      OBVIOUS
    <3>1. i \in 1..n
      BY <1>3
    <3>2. CASE j = n + 1
      BY <1>3, <1>4, <3>1, <3>2
    <3>3. CASE j \in 1..n
      BY <1>3, <3>1, <3>3 DEF Forward
    <3> QED BY <1>3, <3>2, <3>3
  <2>2. stage'[r] = "rearm" => r \in Recurring
    BY <1>2 DEF Tokens
  <2>3. stage'[r] = "rearm" => \A i \in 1..(n + 1) : log'[r][i] <= cursor[r]
    <3> SUFFICES ASSUME stage'[r] = "rearm", NEW i \in 1..(n + 1) PROVE log'[r][i] <= cursor[r]
      OBVIOUS
    <3>1. deadline[r] <= cursor[r]
      BY <1>2, <2>2 DEF Forward
    <3>2. CASE i = n + 1
      BY <1>3, <3>1, <3>2
    <3>3. CASE i \in 1..n
      BY <1>1, <1>3, <1>4, <3>1, <3>3, SMTT(30)
    <3> QED BY <1>3, <3>2, <3>3
  <2> QED BY <1>2, <1>3, <2>1, <2>3 DEF Forward, Waiting
<1>6. Gapless(r)'
  <2> SUFFICES ASSUME r \in Recurring, policy[r] # "skip" PROVE Gapless(r)'
    BY <1>2 DEF Gapless
  <2>1. \A o \in Occurrences : since[r] < o /\ o < deadline[r] => Published(r, o, Len(log[r]))'
    BY <1>2, <1>3, SMTT(30) DEF Gapless, Published, Waiting
  <2>2. \A i \in 1..(n + 1), o \in Occurrences :
            since[r] < o /\ o < log'[r][i] => Published(r, o, i)'
    <3> SUFFICES ASSUME NEW i \in 1..(n + 1), NEW o \in Occurrences, since[r] < o,
                        o < log'[r][i]
                 PROVE  Published(r, o, i)'
      OBVIOUS
    <3>1. CASE i = n + 1
      BY <1>3, <2>1, <3>1 DEF Published
    <3>2. CASE i \in 1..n
      <4>1. Published(r, o, i)
        BY <1>3, <3>2 DEF Gapless
      <4>2. \A j \in 1..i : log'[r][j] = log[r][j]
        BY <1>3, <3>2
      <4> QED BY <4>1, <4>2 DEF Published
    <3> QED BY <1>3, <3>1, <3>2
  <2>3. \A o \in Occurrences : since[r] < o /\ o <= cursor[r] => Published(r, o, Len(log[r]))'
    <3> SUFFICES ASSUME NEW o \in Occurrences, since[r] < o, o <= cursor[r]
                 PROVE  Published(r, o, Len(log[r]))'
      OBVIOUS
    <3>1. cursor[r] = deadline[r] /\ o \in Instants
      BY <1>2, SchedulerAssumption DEF Gapless
    <3>2. CASE o = deadline[r]
      BY <1>3, <3>2 DEF Published
    <3>3. CASE o < deadline[r]
      BY <1>3, <2>1, <3>3 DEF Published
    <3> QED BY <1>1, <3>1, <3>2, <3>3
  <2>4. \A i \in 1..Len(log'[r]), o \in Occurrences :
            since'[r] < o /\ o < log'[r][i] => Published(r, o, i)'
    BY <1>2, <1>3, <2>2
  <2>5. \A o \in Occurrences : since'[r] < o /\ o <= cursor'[r] => Published(r, o, Len(log[r]))'
    BY <1>2, <2>3
  <2>6. stage'[r] \in {"over", "rearm"}
    BY <1>2
  <2> QED BY <2>4, <2>5, <2>6 DEF Gapless, Waiting
<1> QED BY <1>5, <1>6

(* The next timer serves the first occurrence after the cursor, so that none  *)
(* is passed over.                                                            *)
LEMMA ArmingKeepsPace ==
    ASSUME TypeOK, NEW r \in Tokens, Forward(r) /\ Gapless(r), Arm(r)
    PROVE  (Forward(r) /\ Gapless(r))'
<1> USE DEF Instants
<1>1. /\ log[r] \in Seq(Instants) /\ deadline'[r] \in Instants /\ cursor[r] \in Instants
      /\ since[r] \in Instants /\ now \in Instants /\ MaxTime \in Nat
      /\ Occurrences \subseteq Instants
  BY SchedulerAssumption DEF TypeOK, Arm, NextAfter
<1>2. /\ log'[r] = log[r] /\ cursor'[r] = cursor[r] /\ policy'[r] = policy[r]
      /\ since'[r] = IF stage[r] = "creating" THEN now ELSE since[r]
      /\ stage[r] \in {"creating", "rearm"} /\ r \in Recurring
      /\ stage[r] = "creating" => log[r] = <<>>
  BY DEF Arm, TypeOK, Forward, Tokens
<1>3. Len(log[r]) \in Nat /\ \A i \in 1..Len(log[r]) : log[r][i] \in Instants
  BY <1>1
<1>4. CASE stage'[r] = "over"
  BY <1>2, <1>4 DEF Forward, Gapless, Published, Waiting
<1>5. CASE stage'[r] # "over"
  <2>1. stage'[r] = "stored" /\ deadline'[r] \in NextAfter(r)
    BY <1>5 DEF Arm, TypeOK
  <2>2. /\ From(r) < deadline'[r]
        /\ \A o \in Occurrences : o > From(r) => deadline'[r] <= o
    BY <2>1 DEF NextAfter
  <2>3. CASE stage[r] = "creating"
    <3>1. log[r] = <<>> /\ From(r) = now /\ since'[r] = now
      BY <1>2, <2>3 DEF From
    <3>2. ASSUME NEW o \in Occurrences, since'[r] < o PROVE ~(o < deadline'[r])
      <4>1. /\ o \in Nat /\ now \in Nat /\ deadline'[r] \in Nat /\ since'[r] = now
            /\ o > now => deadline'[r] <= o
        BY <1>1, <2>2, <3>1
      <4> QED BY <3>2, <4>1
    <3> QED BY <1>2, <2>1, <3>1, <3>2 DEF Forward, Gapless, Waiting
  <2>4. CASE stage[r] = "rearm"
    <3>1. From(r) = cursor[r] /\ since'[r] = since[r]
      BY <1>2, <2>4 DEF From
    <3>2. \A i \in 1..Len(log[r]) : log[r][i] < deadline'[r]
      <4>1. \A i \in 1..Len(log[r]) : log[r][i] <= cursor[r]
        BY <2>4 DEF Forward
      <4>2. cursor[r] \in Nat /\ deadline'[r] \in Nat /\ cursor[r] < deadline'[r]
        BY <1>1, <2>2, <3>1
      <4> QED BY <1>3, <4>1, <4>2
    <3>3. Forward(r)'
      BY <1>2, <2>1, <3>2 DEF Forward, Waiting, Tokens
    <3>4. r \in Recurring /\ policy[r] # "skip" =>
              \A o \in Occurrences : since[r] < o /\ o < deadline'[r]
                                     => Published(r, o, Len(log[r]))
      <4> SUFFICES ASSUME r \in Recurring, policy[r] # "skip", NEW o \in Occurrences,
                          since[r] < o, o < deadline'[r]
                   PROVE  Published(r, o, Len(log[r]))
        OBVIOUS
      <4>1. /\ o \in Nat /\ cursor[r] \in Nat /\ deadline'[r] \in Nat
            /\ o > cursor[r] => deadline'[r] <= o
        BY <1>1, <2>2, <3>1
      <4>2. o <= cursor[r]
        BY <4>1
      <4> QED BY <2>4, <4>2 DEF Gapless
    <3>5. Gapless(r)'
      BY <1>2, <2>1, <3>1, <3>4 DEF Gapless, Waiting, Published
    <3> QED BY <3>3, <3>5
  <2> QED BY <1>2, <2>3, <2>4
<1> QED BY <1>4, <1>5

(* deliver_recurring passes on to the publication, or drops the occurrence    *)
(* and goes on from the clock, which only SKIP may do.                        *)
LEMMA DeliveringKeepsPace ==
    ASSUME TypeOK, NEW r \in Tokens, Forward(r) /\ Gapless(r), DeliverRecurring(r)
    PROVE  (Forward(r) /\ Gapless(r))'
<1> USE DEF Instants
<1>1. /\ log[r] \in Seq(Instants) /\ deadline[r] \in Instants /\ now \in Instants
      /\ MaxTime \in Nat /\ stage[r] = "fired" /\ r \in Recurring
      /\ log'[r] = log[r] /\ deadline'[r] = deadline[r] /\ policy'[r] = policy[r]
      /\ since'[r] = since[r]
  BY SchedulerAssumption DEF TypeOK, DeliverRecurring
<1>2. CASE stage'[r] = "over"
  <2>1. Forward(r)'
    BY <1>1, <1>2 DEF Forward, Waiting
  <2>2. ASSUME NEW n \in Nat, NEW o \in Occurrences
        PROVE  Published(r, o, n)' <=> Published(r, o, n)
    BY <1>1 DEF Published
  <2>3. Gapless(r)'
    BY <1>1, <1>2, <2>2 DEF Gapless, Waiting
  <2> QED BY <2>1, <2>3
<1>3. CASE stage'[r] # "over"
  <2>1. /\ stage'[r] = IF deadline[r] <= now \/ policy[r] # "skip" THEN "publishing" ELSE "rearm"
        /\ cursor'[r] = IF policy[r] = "skip" /\ now > deadline[r] THEN now ELSE deadline[r]
    BY <1>3 DEF DeliverRecurring, TypeOK
  <2>2. deadline[r] <= cursor'[r] /\ cursor'[r] \in Instants
    BY <1>1, <2>1
  <2>3. \A i \in 1..Len(log[r]) : log[r][i] \in Instants /\ log[r][i] < deadline[r]
    BY <1>1 DEF Forward, Waiting
  <2>4. r \notin Once
    BY <1>1, SchedulerAssumption
  <2>5. Forward(r)'
    BY <1>1, <2>1, <2>2, <2>3, <2>4 DEF Forward, Waiting
  <2>6. Gapless(r)'
    BY <1>1, <2>1 DEF Gapless, Waiting, Published
  <2> QED BY <2>5, <2>6
<1> QED BY <1>2, <1>3

(* Every registration publishes its occurrences once, in calendar order, and  *)
(* without SKIP all of them up to the last, for any calendar, clock and       *)
(* lateness (threading.py 164-195).                                           *)
THEOREM OccurrencesArriveInOrder == Spec => []OccurrencesInOrder
<1>1. Init => Advancing
  BY DEF Init, Advancing, Forward, Gapless, Waiting
<1>2. TypeOK /\ Advancing /\ [Next]_vars => Advancing'
  <2> SUFFICES ASSUME TypeOK, Advancing, [Next]_vars, NEW q \in Tokens
               PROVE  (Forward(q) /\ Gapless(q))'
    BY DEF Advancing
  <2>0. Forward(q) /\ Gapless(q)
    BY DEF Advancing
  <2>1. CASE UNCHANGED vars \/ Tick \/ Close
    BY <2>0, <2>1, OthersKeepPace DEF vars, Tick, Close
  <2>2. ASSUME NEW r \in Once, NEW d \in Instants, NEW p \in Policies, ScheduleOnce(r, d, p)
        PROVE (Forward(q) /\ Gapless(q))'
    <3>1. CASE q = r
      <4>1. log'[q] = <<>> /\ stage'[q] \in {"over", "stored"} /\ q \notin Recurring
        BY <2>0, <2>2, <3>1, SchedulerAssumption DEF ScheduleOnce, Forward, TypeOK, Tokens
      <4> QED BY <4>1 DEF Forward, Gapless, Waiting
    <3>2. CASE q # r
      BY <2>0, <2>2, <3>2, OthersKeepPace DEF ScheduleOnce, TypeOK
    <3> QED BY <3>1, <3>2
  <2>3. ASSUME NEW r \in Recurring, NEW p \in Policies, ScheduleRecurring(r, p)
        PROVE (Forward(q) /\ Gapless(q))'
    <3>1. CASE q = r
      <4>1. log'[q] = <<>> /\ stage'[q] \in {"over", "creating"} /\ q \notin Once
        BY <2>0, <2>3, <3>1, SchedulerAssumption DEF ScheduleRecurring, Forward, TypeOK, Tokens
      <4> QED BY <4>1 DEF Forward, Gapless, Waiting
    <3>2. CASE q # r
      BY <2>0, <2>3, <3>2, OthersKeepPace DEF ScheduleRecurring, TypeOK
    <3> QED BY <3>1, <3>2
  <2>4. ASSUME NEW r \in Tokens, Arm(r) PROVE (Forward(q) /\ Gapless(q))'
    <3>1. CASE q = r
      BY <2>0, <2>4, <3>1, ArmingKeepsPace
    <3>2. CASE q # r
      BY <2>0, <2>4, <3>2, OthersKeepPace DEF Arm, TypeOK
    <3> QED BY <3>1, <3>2
  <2>5. ASSUME NEW r \in Tokens, Start(r) \/ Wake(r) PROVE (Forward(q) /\ Gapless(q))'
    <3>1. CASE q = r
      BY <2>0, <2>5, <3>1, StepsKeepPace DEF Start, Wake, TypeOK, Waiting
    <3>2. CASE q # r
      BY <2>0, <2>5, <3>2, OthersKeepPace DEF Start, Wake, TypeOK
    <3> QED BY <3>1, <3>2
  <2>6. ASSUME NEW r \in Tokens, DeliverOnce(r) PROVE (Forward(q) /\ Gapless(q))'
    <3>1. CASE q = r
      <4>1. log'[q] = <<>> /\ stage'[q] \in {"publishing", "over"} /\ q \notin Recurring
        BY <2>0, <2>6, <3>1, SchedulerAssumption DEF DeliverOnce, Forward, TypeOK
      <4> QED BY <4>1 DEF Forward, Gapless, Waiting
    <3>2. CASE q # r
      BY <2>0, <2>6, <3>2, OthersKeepPace DEF DeliverOnce, TypeOK
    <3> QED BY <3>1, <3>2
  <2>7. ASSUME NEW r \in Tokens, DeliverRecurring(r) PROVE (Forward(q) /\ Gapless(q))'
    <3>1. CASE q = r
      BY <2>0, <2>7, <3>1, DeliveringKeepsPace
    <3>2. CASE q # r
      BY <2>0, <2>7, <3>2, OthersKeepPace DEF DeliverRecurring, TypeOK
    <3> QED BY <3>1, <3>2
  <2>8. ASSUME NEW r \in Tokens, NEW raises \in BOOLEAN, Publish(r, raises)
        PROVE (Forward(q) /\ Gapless(q))'
    <3>1. CASE q = r
      BY <2>0, <2>8, <3>1, PublishingKeepsPace
    <3>2. CASE q # r
      BY <2>0, <2>8, <3>2, OthersKeepPace DEF Publish, TypeOK
    <3> QED BY <3>1, <3>2
  <2>9. ASSUME NEW r \in Tokens, Cancel(r) \/ CancelTimer(r)
        PROVE (Forward(q) /\ Gapless(q))'
    BY <2>0, <2>9, OthersKeepPace DEF Cancel, CancelTimer
  <2> QED
    BY <2>1, <2>2, <2>3, <2>4, <2>5, <2>6, <2>7, <2>8, <2>9 DEF Next, Callback
<1>3. Advancing => OccurrencesInOrder
  BY DEF Advancing, Forward, Gapless, Published, OccurrencesInOrder
<1> QED BY <1>1, <1>2, <1>3, SchedulerTypeCorrect, PTL DEF Spec
==============================================================================
