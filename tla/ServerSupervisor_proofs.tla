------------------------ MODULE ServerSupervisor_proofs ------------------------
(* What ServerSupervisor guarantees for every set of operations and every     *)
(* number of attempts.                                                        *)
EXTENDS ServerSupervisor, TLAPS

LEMMA JobParts ==
    ASSUME NEW j \in Jobs
    PROVE  j[1] \in Ops /\ j[2] \in Attempts /\ j = <<j[1], j[2]>>
BY SupervisorAssumption

LEMMA FirstJob ==
    ASSUME NEW i \in Ops
    PROVE  <<i, 1>> \in Jobs
BY SupervisorAssumption DEF Attempts

LEMMA RetryJob ==
    ASSUME NEW j \in Jobs, j[2] < MaxAttempts
    PROVE  <<j[1], j[2] + 1>> \in Jobs
BY SupervisorAssumption DEF Attempts

------------------------------------------------------------------------------
(* How a step of the supervisor touches the episodes: not at all, or it opens *)
(* one as the holder of the mutation lock, runs one, or closes one and        *)
(* releases the lock.                                                         *)
Opens(j) ==
    /\ stage[j] = "waiting" /\ mutex = None /\ mutex' = j
    /\ stage' = [stage EXCEPT ![j] = "ensuring"]
    /\ \E w \in Availability : BeginEnsure(j, w) /\ (desired' <=> w = "available")

Runs(j) ==
    /\ stage[j] = "ensuring"
    /\ EnsureStep(j) \/ VerifyAgain(j)
    /\ UNCHANGED supervisorVars

Closes(j) ==
    /\ stage[j] = "ensuring" /\ mutex' = None
    /\ \E s \in {"over", "handling"} : stage' = [stage EXCEPT ![j] = s]
    /\ \E status \in {verdict[j], "none"} : EndEnsure(j, status)
    /\ UNCHANGED <<desired, cycle>>

Touches == \/ Flip /\ UNCHANGED supervisorVars
           \/ \E j \in Jobs : Opens(j) \/ Runs(j) \/ Closes(j)

LEMMA EnsureTouched ==
    ASSUME [Next]_vars
    PROVE  Touches \/ (UNCHANGED <<ensureVars, mutex>> /\ (mutex = None \/ UNCHANGED desired))
<1> DEFINE Apart == UNCHANGED <<ensureVars, mutex>> /\ (mutex = None \/ UNCHANGED desired)
<1> USE DEF vars, supervisorVars
<1>1. ASSUME NEW i \in Ops, EnterCall(i) PROVE Touches \/ Apart
  <2>1. CASE closed
    BY <1>1, <2>1 DEF EnterCall
  <2>2. CASE ~closed
    <3>1. stage' = [stage EXCEPT ![<<i, 1>>] = "ensuring"] /\ stage[<<i, 1>>] = "waiting"
          /\ mutex = None /\ mutex' = <<i, 1>> /\ desired' = (op[i] # "stop")
      BY <1>1, <2>2 DEF EnterCall, Goto
    <3>2. \E w \in Availability : BeginEnsure(<<i, 1>>, w) /\ (desired' <=> w = "available")
      <4>1. CASE op[i] = "stop"
        BY <1>1, <2>2, <3>1, <4>1 DEF EnterCall, Availability
      <4>2. CASE op[i] # "stop"
        BY <1>1, <2>2, <3>1, <4>2 DEF EnterCall, Availability
      <4> QED BY <4>1, <4>2
    <3> QED BY <3>1, <3>2, FirstJob DEF Touches, Opens
  <2> QED BY <2>1, <2>2
<1>2. ASSUME NEW j \in Jobs, EnterAttempt(j) PROVE Touches \/ Apart
  <2>1. CASE Current(j[1])
    BY <1>2, <2>1 DEF EnterAttempt, Goto, Current, Armed, Touches, Opens, Availability
  <2>2. CASE ~Current(j[1])
    BY <1>2, <2>2 DEF EnterAttempt
  <2> QED BY <2>1, <2>2
<1>3. ASSUME NEW j \in Jobs, LeaveEnsure(j) \/ RaiseFromEnsure(j) PROVE Touches
  BY <1>3 DEF LeaveEnsure, RaiseFromEnsure, Goto, Touches, Closes
<1>4. ASSUME NEW j \in Jobs,
             RunEnsure(j) \/ (stage[j] = "ensuring" /\ VerifyAgain(j) /\ UNCHANGED supervisorVars)
      PROVE  Touches
  BY <1>4 DEF RunEnsure, Touches, Runs
<1>5. ASSUME NEW j \in Jobs,
             HandleSatisfied(j) \/ HandleUnsatisfied(j) \/ Exhaust(j) \/ Report(j)
             \/ ScheduleRetry(j) \/ StoreToken(j) \/ Fire(j) \/ OnRetryDue(j)
             \/ Launch(j) \/ StartThread(j) \/ CancelToken(j) \/ Join(j)
      PROVE  Apart
  BY <1>5 DEF HandleSatisfied, HandleUnsatisfied, Exhaust, Report, ScheduleRetry, StoreToken,
              Fire, OnRetryDue, Launch, StartThread, CancelToken, Join
<1>6. ASSUME NEW i \in Ops,
             EnableRecovery(i) \/ Reconcile(i)
             \/ \E kind \in {"start", "start_recovering", "stop"} : Call(i, kind)
      PROVE  Apart
  BY <1>6 DEF EnableRecovery, Reconcile, Call
<1>7. ASSUME DisableRecovery \/ Close \/ CloseReturns PROVE Apart
  BY <1>7 DEF DisableRecovery, Close, CloseReturns
<1>8. ASSUME Flip /\ UNCHANGED supervisorVars PROVE Touches
  BY <1>8 DEF Touches
<1>9. CASE UNCHANGED vars
  BY <1>9
<1>10. CASE System
  <2> HIDE DEF Apart
  <2>1. Touches \/ Apart
    BY <1>1, <1>2, <1>3, <1>4, <1>5, <1>7, <1>10 DEF System, Progress
  <2> QED BY <2>1 DEF Apart
<1>11. CASE Environment
  <2> HIDE DEF Apart
  <2>1. Touches \/ Apart
    BY <1>3, <1>4, <1>6, <1>7, <1>8, <1>11 DEF Environment
  <2> QED BY <2>1 DEF Apart
<1> QED BY <1>9, <1>10, <1>11 DEF Next

------------------------------------------------------------------------------
(* The episodes keep their types.                                             *)
LEMMA EnsureTypeStep ==
    ASSUME EnsureTypeOK, [Next]_vars
    PROVE  EnsureTypeOK'
<1> USE DEF EnsureTypeOK, Phases, Availability, Probed, Verdicts, Satisfied
<1>1. CASE UNCHANGED ensureVars
  BY <1>1 DEF ensureVars
<1>2. CASE Flip
  BY <1>2 DEF Flip, InEpisode
<1>3. ASSUME NEW j \in Jobs, Opens(j) PROVE EnsureTypeOK'
  BY <1>3 DEF Opens, BeginEnsure
<1>4. ASSUME NEW j \in Jobs, FirstProbe(j) PROVE EnsureTypeOK'
  BY <1>4 DEF FirstProbe, Probe
<1>5. ASSUME NEW j \in Jobs, Command(j) PROVE EnsureTypeOK'
  BY <1>5 DEF Command
<1>6. ASSUME NEW j \in Jobs, Verify(j) \/ VerifyAgain(j) PROVE EnsureTypeOK'
  BY <1>6 DEF Verify, VerifyAgain, Probe
<1>7. ASSUME NEW j \in Jobs, Closes(j) PROVE EnsureTypeOK'
  BY <1>7 DEF Closes, EndEnsure
<1> HIDE DEF EnsureTypeOK
<1> QED
  BY EnsureTouched, <1>1, <1>2, <1>3, <1>4, <1>5, <1>6, <1>7 DEF Touches, Runs, EnsureStep

(* Only an attempt with a successor left in the budget stores a token.        *)
StoringHasRetry == \A j \in Jobs : stage[j] = "storing" => j[2] < MaxAttempts

SupervisorTypeOK ==
    /\ desired \in BOOLEAN /\ enabled \in BOOLEAN
    /\ cycle \in Ops \cup {None}
    /\ token \in Jobs \cup {None}
    /\ subscribed \in BOOLEAN /\ closed \in BOOLEAN
    /\ mutex \in Jobs \cup {None}
    /\ op \in [Ops -> Kinds]
    /\ stage \in [Jobs -> Stages]
    /\ doomed \subseteq Jobs
    /\ closer \in {"idle", "joining", "returned", "error"}
    /\ joining \subseteq Jobs
    /\ exhausted \subseteq Ops
    /\ raised \in BOOLEAN /\ overtaken \in BOOLEAN
    /\ StoringHasRetry

Typed == EnsureTypeOK /\ SupervisorTypeOK

LEMMA TypedInit == Init => Typed
<1> SUFFICES ASSUME Init PROVE Typed
  OBVIOUS
<1>1. EnsureTypeOK
  BY DEF Init, EnsureInit, EnsureTypeOK, Phases, Probed, Availability, Verdicts, Satisfied
<1>2. /\ desired \in BOOLEAN /\ enabled \in BOOLEAN /\ subscribed \in BOOLEAN
      /\ closed \in BOOLEAN /\ raised \in BOOLEAN /\ overtaken \in BOOLEAN
  BY Zenon DEF Init
<1>3. op \in [Ops -> Kinds] /\ stage \in [Jobs -> Stages]
  BY DEF Init, Kinds, Stages
<1> QED BY <1>1, <1>2, <1>3 DEF Init, Typed, SupervisorTypeOK, StoringHasRetry

LEMMA TypedStep == Typed /\ [Next]_vars => Typed'
<1> SUFFICES ASSUME Typed, [Next]_vars PROVE SupervisorTypeOK'
  BY EnsureTypeStep DEF Typed
<1> USE SupervisorAssumption DEF Typed, SupervisorTypeOK, StoringHasRetry, Stages, Goto, Invalidate
<1>1. CASE UNCHANGED vars
  BY <1>1 DEF vars, supervisorVars
<1>2. ASSUME NEW i \in Ops, NEW kind \in {"start", "start_recovering", "stop"}, Call(i, kind)
      PROVE  SupervisorTypeOK'
  BY <1>2, FirstJob DEF Call, Kinds
<1>3. ASSUME NEW i \in Ops, EnterCall(i) PROVE SupervisorTypeOK'
  <2>1. CASE closed
    BY <1>3, <2>1, FirstJob DEF EnterCall
  <2>2. CASE ~closed
    <3>1. /\ UNCHANGED <<closed, op, closer, joining, exhausted, raised, overtaken>>
          /\ mutex' = <<i, 1>> /\ stage' = [stage EXCEPT ![<<i, 1>>] = "ensuring"]
          /\ desired' \in BOOLEAN /\ enabled' \in BOOLEAN /\ subscribed' \in BOOLEAN
          /\ cycle' \in {i, None} /\ token' = None /\ doomed' = doomed \cup ({token} \ {None})
      BY <1>3, <2>2 DEF EnterCall
    <3> QED BY <3>1, FirstJob
  <2> QED BY <2>1, <2>2
<1>4. ASSUME NEW j \in Jobs, EnterAttempt(j) PROVE SupervisorTypeOK'
  BY <1>4 DEF EnterAttempt
<1>5. ASSUME NEW j \in Jobs, LeaveEnsure(j) PROVE SupervisorTypeOK'
  BY <1>5 DEF LeaveEnsure
<1>6. ASSUME NEW j \in Jobs, RaiseFromEnsure(j) PROVE SupervisorTypeOK'
  BY <1>6 DEF RaiseFromEnsure
<1>7. ASSUME NEW j \in Jobs, HandleSatisfied(j) \/ Exhaust(j) PROVE SupervisorTypeOK'
  BY <1>7 DEF HandleSatisfied, Exhaust, EndCycle
<1>8. ASSUME NEW j \in Jobs, HandleUnsatisfied(j) \/ Report(j) PROVE SupervisorTypeOK'
  BY <1>8, JobParts DEF HandleUnsatisfied, Report
<1>9. ASSUME NEW j \in Jobs, ScheduleRetry(j) PROVE SupervisorTypeOK'
  BY <1>9, RetryJob DEF ScheduleRetry
<1>10. ASSUME NEW j \in Jobs, StoreToken(j) PROVE SupervisorTypeOK'
  <2>1. CASE Current(j[1])
    BY <1>10, <2>1, RetryJob DEF StoreToken
  <2>2. CASE ~Current(j[1])
    BY <1>10, <2>2, RetryJob DEF StoreToken
  <2> QED BY <2>1, <2>2
<1>11. ASSUME NEW t \in Jobs, CancelToken(t) \/ Fire(t) \/ OnRetryDue(t) PROVE SupervisorTypeOK'
  BY <1>11 DEF CancelToken, Fire, OnRetryDue
<1>12. ASSUME NEW j \in Jobs, Launch(j) \/ StartThread(j) \/ Join(j) PROVE SupervisorTypeOK'
  BY <1>12 DEF Launch, StartThread, Join
<1>13. ASSUME NEW i \in Ops, EnableRecovery(i) PROVE SupervisorTypeOK'
  BY <1>13, FirstJob DEF EnableRecovery, Kick, Kinds
<1>14. ASSUME NEW i \in Ops, Reconcile(i) PROVE SupervisorTypeOK'
  BY <1>14, FirstJob DEF Reconcile, Kick, Kinds
<1>15. ASSUME DisableRecovery PROVE SupervisorTypeOK'
  BY <1>15 DEF DisableRecovery
<1>16. ASSUME Close \/ CloseReturns PROVE SupervisorTypeOK'
  BY <1>16 DEF Close, CloseReturns, AttemptThreads
<1>17. ASSUME UNCHANGED supervisorVars PROVE SupervisorTypeOK'
  BY <1>17 DEF supervisorVars
<1> HIDE DEF Typed, SupervisorTypeOK, StoringHasRetry, Stages, Goto, Invalidate
<1> QED
  BY <1>1, <1>2, <1>3, <1>4, <1>5, <1>6, <1>7, <1>8, <1>9, <1>10, <1>11, <1>12, <1>13,
     <1>14, <1>15, <1>16, <1>17
     DEF Next, System, Environment, Progress, RunEnsure

(* Every variable of the supervisor and of its episodes keeps its type in     *)
(* every reachable state.                                                     *)
THEOREM ServerTypeCorrect == Spec => []TypeOK
<1>1. Typed => TypeOK
  BY DEF Typed, SupervisorTypeOK, TypeOK
<1> QED BY TypedInit, TypedStep, <1>1, PTL DEF Spec

LEMMA AlwaysTyped == Spec => []Typed
BY TypedInit, TypedStep, PTL DEF Spec

------------------------------------------------------------------------------
(* The stages a job goes through, and the only ways it enters one.            *)
Forward == {<<"armed", "due">>, <<"armed", "over">>, <<"due", "launching">>, <<"due", "over">>,
            <<"launching", "registered">>, <<"launching", "over">>, <<"registered", "waiting">>,
            <<"waiting", "ensuring">>, <<"waiting", "over">>, <<"ensuring", "handling">>,
            <<"ensuring", "over">>, <<"handling", "retrying">>, <<"handling", "over">>,
            <<"retrying", "storing">>, <<"retrying", "reporting">>, <<"storing", "over">>,
            <<"reporting", "over">>}

(* A job before the end of its attempt.                                       *)
Early == {"unused", "armed", "due", "launching", "registered", "waiting", "ensuring",
          "handling", "retrying"}

FreshUnused == \A i \in Ops : op[i] = "none" => stage[<<i, 1>>] = "unused"

Called(k) == /\ k[2] = 1 /\ op[k[1]] = "none" /\ op'[k[1]] # "none"
             /\ stage'[k] \in {"waiting", "launching"}
             /\ stage'[k] = "launching" => op'[k[1]] = "kick"

Retried(k) == \E j \in Jobs : /\ k = <<j[1], j[2] + 1>>
                              /\ stage[j] = "retrying" /\ stage'[j] = "storing"
                              /\ stage'[k] = "armed"

Moved(k) == /\ <<stage[k], stage'[k]>> \in Forward
            /\ stage'[k] = "ensuring" => /\ mutex = None /\ mutex' = k
                                         /\ cycle = k[1] \/ k[2] = 1
            /\ stage[k] = "ensuring" => mutex' = None
            /\ stage'[k] = "reporting" => cycle' # k[1]
            /\ stage'[k] = "reporting" => k[2] >= MaxAttempts
            /\ stage'[k] = "handling" => op[k[1]] \notin {"start", "stop"}
            /\ stage'[k] = "registered" => ~closed
            /\ stage'[k] = "storing" => stage'[<<k[1], k[2] + 1>>] = "armed"

LEMMA StageMoves ==
    ASSUME Typed, [Next]_vars, NEW k \in Jobs
    PROVE  stage'[k] = stage[k] \/ Called(k) \/ Retried(k) \/ Moved(k)
<1> DEFINE P == stage'[k] = stage[k] \/ Called(k) \/ Retried(k) \/ Moved(k)
<1> USE JobParts DEF Typed, SupervisorTypeOK, Goto, Forward, Moved
<1>1. ASSUME NEW i \in Ops, NEW kind \in {"start", "start_recovering", "stop"}, Call(i, kind)
      PROVE  P
  BY <1>1, FirstJob DEF Call, Called
<1>2. ASSUME NEW i \in Ops, EnableRecovery(i) \/ Reconcile(i) PROVE P
  BY <1>2, FirstJob DEF EnableRecovery, Reconcile, Kick, Called
<1>3. ASSUME NEW i \in Ops, EnterCall(i) PROVE P
  BY <1>3, FirstJob DEF EnterCall
<1>4. ASSUME NEW j \in Jobs, EnterAttempt(j) \/ LeaveEnsure(j) \/ RaiseFromEnsure(j) PROVE P
  BY <1>4 DEF EnterAttempt, LeaveEnsure, RaiseFromEnsure, Current
<1>5. ASSUME NEW j \in Jobs, HandleSatisfied(j) \/ HandleUnsatisfied(j) \/ Report(j) PROVE P
  BY <1>5 DEF HandleSatisfied, HandleUnsatisfied, Report
<1>6. ASSUME NEW j \in Jobs, Exhaust(j) PROVE P
  <2>1. /\ cycle' # j[1] /\ stage[j] = "retrying" /\ j[2] >= MaxAttempts
        /\ stage' = [stage EXCEPT ![j] = "reporting"]
    BY <1>6, SupervisorAssumption DEF Exhaust, EndCycle, Invalidate
  <2> QED BY <2>1
<1>7. ASSUME NEW j \in Jobs, ScheduleRetry(j) PROVE P
  <2>1. <<j[1], j[2] + 1>> \in Jobs /\ <<j[1], j[2] + 1>> # j
    BY <1>7, RetryJob DEF ScheduleRetry, Attempts
  <2>2. /\ stage[j] = "retrying" /\ stage'[j] = "storing"
        /\ stage'[<<j[1], j[2] + 1>>] = "armed"
        /\ k \notin {j, <<j[1], j[2] + 1>>} => stage'[k] = stage[k]
    BY <1>7, <2>1 DEF ScheduleRetry
  <2>3. CASE k = j
    BY <2>2, <2>3
  <2>4. CASE k = <<j[1], j[2] + 1>>
    BY <2>2, <2>4 DEF Retried
  <2> QED BY <2>2, <2>3, <2>4
<1>8. ASSUME NEW j \in Jobs, StoreToken(j) PROVE P
  <2>1. j[2] < MaxAttempts /\ <<j[1], j[2] + 1>> \in Jobs
    BY <1>8, RetryJob DEF StoreToken, StoringHasRetry
  <2>2. CASE Current(j[1])
    BY <1>8, <2>1, <2>2 DEF StoreToken
  <2>3. CASE ~Current(j[1])
    BY <1>8, <2>1, <2>3 DEF StoreToken
  <2> QED BY <2>2, <2>3
<1>9. ASSUME NEW j \in Jobs, CancelToken(j) \/ Fire(j) \/ OnRetryDue(j) PROVE P
  BY <1>9 DEF CancelToken, Fire, OnRetryDue
<1>10. ASSUME NEW j \in Jobs, Launch(j) \/ StartThread(j) PROVE P
  BY <1>10 DEF Launch, StartThread, Current
<1>11. ASSUME UNCHANGED stage PROVE P
  BY <1>11
<1>12. ASSUME NEW j \in Jobs, Join(j) \/ RunEnsure(j) PROVE UNCHANGED stage
  BY <1>12 DEF Join, RunEnsure, supervisorVars
<1>13. ASSUME DisableRecovery \/ Close \/ CloseReturns PROVE UNCHANGED stage
  BY <1>13 DEF DisableRecovery, Close, CloseReturns
<1>14. ASSUME UNCHANGED supervisorVars PROVE UNCHANGED stage
  BY <1>14 DEF supervisorVars
<1> HIDE JobParts DEF P, Typed, SupervisorTypeOK, Goto, Forward, Moved
<1>15. ASSUME System PROVE P
  BY <1>3, <1>4, <1>5, <1>7, <1>8, <1>9, <1>10, <1>11, <1>12, <1>13, <1>15, <1>6 DEF System, Progress
<1>16. ASSUME Environment PROVE P
  BY <1>1, <1>2, <1>4, <1>11, <1>13, <1>14, <1>16 DEF Environment
<1>17. ASSUME UNCHANGED vars PROVE P
  BY <1>11, <1>14, <1>17 DEF vars
<1> QED BY <1>15, <1>16, <1>17 DEF Next, P

(* Of all the attempts made for one operation, at most one has begun and is   *)
(* not over yet: the next one is armed when the previous one is done.         *)
OneAfterAnother ==
    \A i \in Ops, m, n \in Attempts :
        m < n /\ stage[<<i, m>>] \in Early => stage[<<i, n>>] = "unused"

Sequenced == FreshUnused /\ OneAfterAnother

LEMMA JobOf ==
    ASSUME NEW i \in Ops, NEW n \in Attempts
    PROVE  <<i, n>> \in Jobs
BY SupervisorAssumption

LEMMA SequencedInit == Init => Sequenced
BY FirstJob, JobOf DEF Init, Sequenced, FreshUnused, OneAfterAnother

LEMMA OpMoves ==
    ASSUME Typed, [Next]_vars, NEW i \in Ops
    PROVE  \/ op'[i] = op[i]
           \/ op[i] = "none" /\ op'[i] # "none" /\ (op'[i] = "kick" => ~closed)
<1> DEFINE P == \/ op'[i] = op[i]
                \/ op[i] = "none" /\ op'[i] # "none" /\ (op'[i] = "kick" => ~closed)
<1>1. ASSUME UNCHANGED op PROVE P
  BY <1>1
<1> USE DEF Typed, SupervisorTypeOK
<1>2. ASSUME NEW h \in Ops, NEW kind \in {"start", "start_recovering", "stop"}, Call(h, kind)
      PROVE  P
  BY <1>2 DEF Call
<1>3. ASSUME NEW h \in Ops, EnableRecovery(h) \/ Reconcile(h) PROVE P
  BY <1>3 DEF EnableRecovery, Reconcile, Kick
<1> HIDE DEF Typed, SupervisorTypeOK
<1>4. ASSUME NEW j \in Jobs, Progress(j) \/ RaiseFromEnsure(j) PROVE UNCHANGED op
  BY <1>4 DEF Progress, EnterAttempt, RunEnsure, LeaveEnsure, HandleSatisfied,
     HandleUnsatisfied, Exhaust, Report, ScheduleRetry, StoreToken, Fire, OnRetryDue,
     Launch, StartThread, CancelToken, Join, RaiseFromEnsure, supervisorVars
<1>5. ASSUME NEW h \in Ops, EnterCall(h) PROVE UNCHANGED op
  BY <1>5 DEF EnterCall
<1>6. ASSUME CloseReturns \/ DisableRecovery \/ Close PROVE UNCHANGED op
  BY <1>6 DEF CloseReturns, DisableRecovery, Close
<1>7. ASSUME UNCHANGED supervisorVars \/ UNCHANGED vars PROVE UNCHANGED op
  BY <1>7 DEF supervisorVars, vars
<1> HIDE DEF P
<1>8. P
  BY <1>1, <1>2, <1>3, <1>4, <1>5, <1>6, <1>7 DEF Next, System, Environment
<1> QED BY <1>8 DEF P

LEMMA SequencedStep == Typed /\ Sequenced /\ [Next]_vars => Sequenced'
<1> SUFFICES ASSUME Typed, Sequenced, [Next]_vars PROVE Sequenced'
  OBVIOUS
<1>1. FreshUnused'
  <2> SUFFICES ASSUME NEW i \in Ops, op'[i] = "none" PROVE stage'[<<i, 1>>] = "unused"
    BY DEF FreshUnused
  <2>1. stage[<<i, 1>>] = "unused" /\ <<i, 1>> \in Jobs
    BY OpMoves, FirstJob DEF Sequenced, FreshUnused
  <2>2. ~Called(<<i, 1>>)
    BY DEF Called
  <2>3. ~Retried(<<i, 1>>)
    BY JobParts DEF Retried, Attempts
  <2> QED BY <2>1, <2>2, <2>3, StageMoves DEF Moved, Forward
<1>2. ASSUME NEW i \in Ops, NEW m \in Attempts, NEW n \in Attempts,
             m < n, stage'[<<i, m>>] \in Early
      PROVE  stage'[<<i, n>>] = "unused"
  <2> USE DEF Attempts
  <2> DEFINE M == <<i, m>>
             N == <<i, n>>
  <2>1. M \in Jobs /\ N \in Jobs /\ n # 1
    BY <1>2, JobOf
  <2>2. stage[M] \in Early \/ (m > 1 /\ stage[<<i, m - 1>>] = "retrying")
    <3>1. CASE Called(M)
      BY <3>1, <2>1 DEF Called, Sequenced, FreshUnused, Early
    <3>2. CASE Retried(M)
      BY <3>2, JobParts DEF Retried
    <3>3. CASE stage'[M] = stage[M] \/ Moved(M)
      BY <3>3, <1>2 DEF Moved, Forward, Early
    <3> QED BY <3>1, <3>2, <3>3, <2>1, StageMoves
  <2>3. stage[N] = "unused"
    <3>1. CASE stage[M] \in Early
      BY <3>1, <1>2 DEF Sequenced, OneAfterAnother
    <3>2. CASE m > 1 /\ stage[<<i, m - 1>>] = "retrying"
      <4>1. m - 1 \in Attempts /\ m - 1 < n
        BY <3>2, <1>2, SupervisorAssumption
      <4> QED BY <4>1, <3>2 DEF Sequenced, OneAfterAnother, Early
    <3> QED BY <3>1, <3>2, <2>2
  <2>4. ~Retried(N)
    <3> SUFFICES ASSUME Retried(N) PROVE FALSE
      OBVIOUS
    <3>1. PICK j \in Jobs : N = <<j[1], j[2] + 1>> /\ stage[j] = "retrying" /\ stage'[j] = "storing"
      BY DEF Retried
    <3>2. j = <<i, n - 1>> /\ n - 1 \in Attempts
      BY <3>1, JobParts, SupervisorAssumption
    <3>3. m # n - 1
      BY <3>1, <3>2, <1>2 DEF Early
    <3>4. m < n - 1 /\ stage[M] \notin Early
      BY <3>1, <3>2, <3>3, <1>2, SupervisorAssumption DEF Sequenced, OneAfterAnother
    <3>5. m > 1 /\ stage[<<i, m - 1>>] = "retrying"
      BY <3>4, <2>2
    <3>6. m - 1 \in Attempts /\ m - 1 < n - 1
      BY <3>4, <3>5, <1>2, SupervisorAssumption
    <3> QED BY <3>1, <3>2, <3>5, <3>6 DEF Sequenced, OneAfterAnother, Early
  <2>5. ~Called(N)
    BY <2>1 DEF Called
  <2> HIDE DEF M, N
  <2>6. stage'[N] = "unused"
    BY <2>1, <2>3, <2>4, <2>5, StageMoves DEF Moved, Forward
  <2> QED BY <2>6 DEF N
<1> QED BY <1>1, <1>2 DEF Sequenced, OneAfterAnother

LEMMA AlwaysSequenced == Spec => []Sequenced
BY SequencedInit, SequencedStep, AlwaysTyped, PTL DEF Spec

------------------------------------------------------------------------------
(* _mutation_lock is held by exactly the job that runs ensure(), whose locals *)
(* exist only as long, and every episode pursues the current intent.          *)
MutexGuards ==
    /\ \A j \in Jobs : stage[j] = "ensuring" <=> mutex = j
    /\ \A j \in Jobs : stage[j] # "ensuring" => phase[j] = "idle"
    /\ IntentRespected

LEMMA MutexInit == Init => MutexGuards
BY SupervisorAssumption DEF Init, EnsureInit, MutexGuards, IntentRespected

LEMMA MutexStep == Typed /\ Sequenced /\ MutexGuards /\ [Next]_vars => MutexGuards'
<1> SUFFICES ASSUME Typed, Sequenced, MutexGuards, [Next]_vars PROVE MutexGuards'
  OBVIOUS
<1> USE SupervisorAssumption
<1>1. ASSUME UNCHANGED mutex, NEW k \in Jobs
      PROVE  stage'[k] = "ensuring" <=> stage[k] = "ensuring"
  <2>1. CASE Called(k)
    <3>1. stage[k] = "unused"
      BY <2>1, JobParts DEF Called, Sequenced, FreshUnused
    <3> QED BY <3>1, <2>1 DEF Called
  <2>2. CASE Retried(k)
    <3>1. PICK j \in Jobs : k = <<j[1], j[2] + 1>> /\ stage[j] = "retrying" /\ stage'[k] = "armed"
      BY <2>2 DEF Retried
    <3>2. k[1] = j[1] /\ k[2] = j[2] + 1 /\ j[2] \in Attempts /\ k[2] \in Attempts /\ j[1] \in Ops
          /\ k = <<k[1], k[2]>> /\ j = <<j[1], j[2]>>
      BY <3>1, JobParts
    <3>3. stage[k] = "unused"
      BY <3>1, <3>2 DEF Sequenced, OneAfterAnother, Early, Attempts
    <3> QED BY <3>1, <3>3
  <2>3. CASE Moved(k)
    BY <2>3, <1>1 DEF Moved, MutexGuards
  <2> QED BY <2>1, <2>2, <2>3, StageMoves
<1>2. CASE UNCHANGED <<ensureVars, mutex>> /\ (mutex = None \/ UNCHANGED desired)
  BY <1>1, <1>2 DEF MutexGuards, IntentRespected, ensureVars
<1>3. CASE Flip /\ UNCHANGED supervisorVars
  BY <1>3 DEF Flip, supervisorVars, MutexGuards, IntentRespected
<1> USE DEF Typed, SupervisorTypeOK, EnsureTypeOK, MutexGuards, IntentRespected
<1>4. ASSUME NEW j \in Jobs, Opens(j) PROVE MutexGuards'
  <2>1. PICK w \in Availability : BeginEnsure(j, w) /\ (desired' <=> w = "available")
    BY <1>4 DEF Opens
  <2> QED BY <1>4, <2>1 DEF Opens, BeginEnsure
<1>5. ASSUME NEW j \in Jobs, Runs(j) PROVE MutexGuards'
  <2>1. UNCHANGED <<wanted, mutex, stage, desired>> /\ \A k \in Jobs \ {j} : phase'[k] = phase[k]
    BY <1>5 DEF Runs, supervisorVars, EnsureStep, FirstProbe, Command, Verify, VerifyAgain
  <2> QED BY <1>5, <2>1 DEF Runs
<1>6. ASSUME NEW j \in Jobs, Closes(j) PROVE MutexGuards'
  BY <1>6 DEF Closes, EndEnsure
<1> HIDE DEF Typed, SupervisorTypeOK, EnsureTypeOK, MutexGuards, IntentRespected
<1> QED BY EnsureTouched, <1>2, <1>3, <1>4, <1>5, <1>6 DEF Touches

LEMMA AlwaysMutexGuards == Spec => []MutexGuards
BY MutexInit, MutexStep, AlwaysTyped, AlwaysSequenced, PTL DEF Spec

(* Whatever calls, attempts and retries race, the server is only driven       *)
(* towards the desired_running of the moment.                                 *)
THEOREM IntentIsRespected == Spec => []IntentRespected
<1>1. MutexGuards => IntentRespected
  BY DEF MutexGuards
<1> QED BY AlwaysMutexGuards, <1>1, PTL

------------------------------------------------------------------------------
(* What an episode knows in each phase, undisturbed from outside.             *)
EpisodeFacts ==
    /\ \A j \in Jobs : phase[j] \in {"idle", "probe", "command"} => attempt[j] = "none"
    /\ \A j \in Jobs : phase[j] = "verify" => attempt[j] # "none"
    /\ ResultConsistent
    /\ SatisfiedMeansSo

LEMMA EpisodeInit == Init => EpisodeFacts
BY DEF Init, EnsureInit, EpisodeFacts, ResultConsistent, SatisfiedMeansSo

LEMMA EpisodeStep == Typed /\ MutexGuards /\ EpisodeFacts /\ [Next]_vars => EpisodeFacts'
<1> SUFFICES ASSUME Typed, MutexGuards, EpisodeFacts, [Next]_vars PROVE EpisodeFacts'
  OBVIOUS
<1>1. CASE UNCHANGED ensureVars
  BY <1>1 DEF ensureVars, EpisodeFacts, ResultConsistent, SatisfiedMeansSo
<1> USE DEF EpisodeFacts, ResultConsistent, SatisfiedMeansSo, Typed, EnsureTypeOK, Satisfied
<1>2. CASE Flip
  BY <1>2 DEF Flip, InEpisode
<1>3. ASSUME NEW j \in Jobs, Opens(j) PROVE EpisodeFacts'
  <2>1. phase[j] = "idle"
    BY <1>3 DEF Opens, MutexGuards
  <2> QED BY <1>3, <2>1 DEF Opens, BeginEnsure
<1>4. ASSUME NEW j \in Jobs, Runs(j) PROVE EpisodeFacts'
  <2>1. \A k \in Jobs \ {j} : phase[k] = "idle"
    BY <1>4 DEF Runs, MutexGuards
  <2>2. CASE FirstProbe(j)
    BY <2>1, <2>2 DEF FirstProbe, Probe, Availability
  <2>3. CASE Command(j)
    BY <2>1, <2>3 DEF Command
  <2>4. CASE Verify(j)
    BY <2>1, <2>4 DEF Verify, Probe, Availability
  <2>5. CASE VerifyAgain(j)
    BY <2>1, <2>5 DEF VerifyAgain, Probe
  <2> QED BY <1>4, <2>2, <2>3, <2>4, <2>5 DEF Runs, EnsureStep
<1>5. ASSUME NEW j \in Jobs, Closes(j) PROVE EpisodeFacts'
  BY <1>5 DEF Closes, EndEnsure
<1> HIDE DEF EpisodeFacts, Typed
<1> QED BY EnsureTouched, <1>1, <1>2, <1>3, <1>4, <1>5 DEF Touches

LEMMA AlwaysEpisodeFacts == Spec => []EpisodeFacts
BY EpisodeInit, EpisodeStep, AlwaysTyped, AlwaysMutexGuards, PTL DEF Spec

(* Every result ensure() builds passes its own consistency checks.            *)
THEOREM ResultsAreConsistent == Spec => []ResultConsistent
<1>1. EpisodeFacts => ResultConsistent
  BY DEF EpisodeFacts
<1> QED BY AlwaysEpisodeFacts, <1>1, PTL

(* A satisfied result describes the server, unless somebody outside the       *)
(* process changed it during the episode.                                     *)
THEOREM SatisfiedIsTrue == Spec => []SatisfiedMeansSo
<1>1. EpisodeFacts => SatisfiedMeansSo
  BY DEF EpisodeFacts
<1> QED BY AlwaysEpisodeFacts, <1>1, PTL

------------------------------------------------------------------------------
(* A live cycle and a stored token exist only under the recovery gate.        *)
LEMMA GateInit == Init => CycleGated
BY DEF Init, CycleGated

LEMMA GateStep == Typed /\ CycleGated /\ [Next]_vars => CycleGated'
<1> SUFFICES ASSUME Typed, CycleGated, [Next]_vars PROVE CycleGated'
  OBVIOUS
<1> USE SupervisorAssumption
<1>1. ASSUME UNCHANGED <<desired, enabled, cycle, token, subscribed, closed>>
      PROVE  CycleGated'
  BY <1>1 DEF CycleGated, Armed
<1>2. ASSUME NEW i \in Ops, EnterCall(i) PROVE CycleGated'
  <2>1. CASE closed
    BY <1>1, <1>2, <2>1 DEF EnterCall
  <2>2. CASE ~closed
    BY <1>2, <2>2 DEF EnterCall, Invalidate, CycleGated, Armed
  <2> QED BY <2>1, <2>2
<1>3. ASSUME NEW j \in Jobs, HandleSatisfied(j) \/ Exhaust(j) PROVE CycleGated'
  BY <1>3 DEF HandleSatisfied, Exhaust, EndCycle, Invalidate, CycleGated, Armed
<1>4. ASSUME NEW j \in Jobs, StoreToken(j) PROVE CycleGated'
  BY <1>4, JobParts DEF StoreToken, Current, CycleGated, Armed
<1>5. ASSUME NEW j \in Jobs, OnRetryDue(j) PROVE CycleGated'
  BY <1>5 DEF OnRetryDue, CycleGated, Armed
<1>6. ASSUME NEW i \in Ops, EnableRecovery(i) PROVE CycleGated'
  BY <1>6 DEF EnableRecovery, Kick, Invalidate, CycleGated, Armed
<1>7. ASSUME NEW i \in Ops, Reconcile(i) PROVE CycleGated'
  <2>1. token = None
    BY <1>7, JobParts DEF Reconcile, CycleGated, Typed, SupervisorTypeOK
  <2> QED BY <1>7, <2>1 DEF Reconcile, Kick, CycleGated, Armed
<1>8. ASSUME DisableRecovery \/ Close PROVE CycleGated'
  BY <1>8 DEF DisableRecovery, Close, Invalidate, CycleGated
<1> DEFINE Same == UNCHANGED <<desired, enabled, cycle, token, subscribed, closed>>
<1>9. ASSUME NEW j \in Jobs,
             EnterAttempt(j) \/ RunEnsure(j) \/ LeaveEnsure(j) \/ HandleUnsatisfied(j)
             \/ Report(j) \/ ScheduleRetry(j) \/ Fire(j) \/ Launch(j) \/ StartThread(j)
             \/ CancelToken(j) \/ Join(j) \/ RaiseFromEnsure(j)
      PROVE  Same
  BY <1>9 DEF EnterAttempt, RunEnsure, LeaveEnsure, HandleUnsatisfied, Report, ScheduleRetry,
              Fire, Launch, StartThread, CancelToken, Join, RaiseFromEnsure, supervisorVars
<1>10. ASSUME NEW i \in Ops, NEW kind \in {"start", "start_recovering", "stop"}, Call(i, kind)
       PROVE  Same
  BY <1>10 DEF Call
<1>11. ASSUME CloseReturns \/ UNCHANGED supervisorVars \/ UNCHANGED vars PROVE Same
  BY <1>11 DEF CloseReturns, supervisorVars, vars
<1>12. ASSUME Same PROVE CycleGated'
  BY <1>1, <1>12
<1> HIDE DEF Same
<1> QED
  BY <1>2, <1>3, <1>4, <1>5, <1>6, <1>7, <1>8, <1>9, <1>10, <1>11, <1>12
     DEF Next, System, Environment, Progress

(* No recovery cycle outlives stop(), disabling or close(), and no retry      *)
(* token outlives its cycle.                                                  *)
THEOREM RecoveryIsGated == Spec => []CycleGated
BY GateInit, GateStep, AlwaysTyped, PTL DEF Spec

------------------------------------------------------------------------------
(* Where a new cycle and a new exhaustion come from.                          *)
NewCycle == \/ cycle' \in {cycle, None}
            \/ \E i \in Ops : cycle' = i /\ stage[<<i, 1>>] \in {"unused", "waiting"}

NewlyExhausted == \/ exhausted' = exhausted
                  \/ \E j \in Jobs : stage[j] = "reporting" /\ exhausted' = exhausted \cup {j[1]}

LEMMA CycleMoves ==
    ASSUME Sequenced, [Next]_vars
    PROVE  NewCycle /\ NewlyExhausted
<1> DEFINE P == NewCycle /\ NewlyExhausted
<1> USE DEF NewCycle, NewlyExhausted
<1>1. ASSUME NEW i \in Ops, EnterCall(i) PROVE P
  <2>1. CASE closed
    BY <1>1, <2>1 DEF EnterCall
  <2>2. CASE ~closed
    <3>1. stage[<<i, 1>>] = "waiting" /\ cycle' \in {i, None} /\ exhausted' = exhausted
      BY <1>1, <2>2 DEF EnterCall, Invalidate
    <3> QED BY <3>1
  <2> QED BY <2>1, <2>2
<1>2. ASSUME NEW j \in Jobs, Report(j) PROVE P
  BY <1>2 DEF Report
<1>3. ASSUME NEW j \in Jobs, HandleSatisfied(j) \/ Exhaust(j) PROVE P
  BY <1>3 DEF HandleSatisfied, Exhaust, EndCycle, Invalidate
<1>4. ASSUME NEW i \in Ops, EnableRecovery(i) \/ Reconcile(i) PROVE P
  BY <1>4 DEF EnableRecovery, Reconcile, Kick, Invalidate, Sequenced, FreshUnused
<1>5. ASSUME DisableRecovery \/ Close PROVE P
  BY <1>5 DEF DisableRecovery, Close, Invalidate
<1>6. ASSUME UNCHANGED <<cycle, exhausted>> PROVE P
  BY <1>6
<1> DEFINE Same == UNCHANGED <<cycle, exhausted>>
<1>7. ASSUME NEW j \in Jobs,
             EnterAttempt(j) \/ RunEnsure(j) \/ LeaveEnsure(j) \/ HandleUnsatisfied(j)
             \/ ScheduleRetry(j) \/ StoreToken(j) \/ Fire(j) \/ OnRetryDue(j) \/ Launch(j)
             \/ StartThread(j) \/ CancelToken(j) \/ Join(j) \/ RaiseFromEnsure(j)
      PROVE  Same
  BY <1>7 DEF EnterAttempt, RunEnsure, LeaveEnsure, HandleUnsatisfied, ScheduleRetry, StoreToken,
     Fire, OnRetryDue, Launch, StartThread, CancelToken, Join, RaiseFromEnsure, supervisorVars
<1>8. ASSUME NEW i \in Ops, NEW kind \in {"start", "start_recovering", "stop"}, Call(i, kind)
      PROVE  Same
  BY <1>8 DEF Call
<1>9. ASSUME CloseReturns \/ UNCHANGED supervisorVars \/ UNCHANGED vars PROVE Same
  BY <1>9 DEF CloseReturns, supervisorVars, vars
<1>10. ASSUME Same PROVE P
  BY <1>6, <1>10
<1> HIDE DEF P, Same, NewCycle, NewlyExhausted
<1>11. P
  BY <1>1, <1>2, <1>3, <1>4, <1>5, <1>7, <1>8, <1>9, <1>10
     DEF Next, System, Environment, Progress
<1> QED BY <1>11 DEF P

(* Once an attempt has spent the budget of its cycle, the cycle is not live,  *)
(* its first attempt is long over and none of its attempts is in ensure().    *)
Finished(i) == i \in exhausted \/ \E n \in Attempts : stage[<<i, n>>] = "reporting"

FinishedForGood ==
    \A i \in Ops : Finished(i) => /\ cycle # i
                                  /\ stage[<<i, 1>>] \notin Early
                                  /\ \A n \in Attempts : stage[<<i, n>>] # "ensuring"

LEMMA FinishedInit == Init => FinishedForGood
BY JobOf DEF Init, FinishedForGood, Finished

LEMMA FinishedStep == Typed /\ Sequenced /\ FinishedForGood /\ [Next]_vars => FinishedForGood'
<1> SUFFICES ASSUME Typed, Sequenced, FinishedForGood, [Next]_vars, NEW i \in Ops, Finished(i)'
             PROVE  /\ cycle' # i
                    /\ stage'[<<i, 1>>] \notin Early
                    /\ \A n \in Attempts : stage'[<<i, n>>] # "ensuring"
  BY DEF FinishedForGood
<1>1. NewCycle /\ NewlyExhausted
  BY CycleMoves
<1>2. ASSUME NEW m \in Attempts, stage'[<<i, m>>] = "ensuring"
      PROVE  stage[<<i, m>>] \in {"waiting", "ensuring"}
  BY <1>2, JobOf, StageMoves DEF Called, Retried, Moved, Forward
<1>3. ASSUME stage[<<i, 1>>] \notin Early
      PROVE  stage'[<<i, 1>>] \notin Early
  <2>1. ~Called(<<i, 1>>)
    BY <1>3 DEF Called, Sequenced, FreshUnused, Early
  <2>2. ~Retried(<<i, 1>>)
    BY JobParts DEF Retried, Attempts
  <2> QED BY <1>3, <2>1, <2>2, FirstJob, StageMoves DEF Moved, Forward, Early
<1>4. CASE Finished(i)
  <2>1. /\ cycle # i /\ stage[<<i, 1>>] \notin Early
        /\ \A n \in Attempts : stage[<<i, n>>] # "ensuring"
    BY <1>4 DEF FinishedForGood
  <2>2. cycle' # i
    BY <2>1, <1>1, SupervisorAssumption DEF NewCycle, Early
  <2>3. ASSUME NEW n \in Attempts PROVE stage'[<<i, n>>] # "ensuring"
    <3> DEFINE N == <<i, n>>
    <3>1. N \in Jobs /\ N[1] = i /\ N[2] = n
      BY JobOf
    <3>2. n = 1 => stage[N] \notin Early
      BY <2>1
    <3> HIDE DEF N
    <3>3. stage'[N] = "ensuring" => stage[N] = "ensuring" \/ cycle = i \/ (n = 1 /\ stage[N] = "waiting")
      BY <3>1, StageMoves DEF Called, Retried, Moved, Forward
    <3>4. stage[N] # "ensuring"
      BY <2>1 DEF N
    <3>5. stage'[N] # "ensuring"
      BY <3>2, <3>3, <3>4, <2>1 DEF Early
    <3> QED BY <3>5 DEF N
  <2> QED BY <2>1, <2>2, <2>3, <1>3
<1>5. CASE ~Finished(i)
  <2>1. i \notin exhausted'
    <3> SUFFICES ASSUME NEW j \in Jobs, stage[j] = "reporting", j[1] = i PROVE FALSE
      BY <1>1, <1>5 DEF NewlyExhausted, Finished
    <3> QED BY <1>5, JobParts DEF Finished
  <2>2. PICK n \in Attempts : stage'[<<i, n>>] = "reporting"
    BY <2>1 DEF Finished
  <2>3. stage[<<i, n>>] = "retrying" /\ cycle' # i
    <3> DEFINE N == <<i, n>>
    <3>1. N \in Jobs /\ N[1] = i /\ stage'[N] = "reporting" /\ stage[N] # "reporting"
      BY <2>2, <1>5, JobOf DEF Finished
    <3> HIDE DEF N
    <3>2. stage[N] = "retrying" /\ cycle' # i
      BY <3>1, StageMoves DEF Called, Retried, Moved, Forward
    <3> QED BY <3>2 DEF N
  <2>4. ASSUME NEW m \in Attempts, stage[<<i, m>>] \in Early PROVE m >= n
    BY <2>3, <2>4 DEF Sequenced, OneAfterAnother, Attempts
  <2>5. ASSUME NEW m \in Attempts, m > n PROVE stage[<<i, m>>] = "unused"
    BY <2>3, <2>5 DEF Sequenced, OneAfterAnother, Attempts, Early
  <2>6. ASSUME NEW m \in Attempts PROVE stage'[<<i, m>>] # "ensuring"
    <3> SUFFICES ASSUME stage'[<<i, m>>] = "ensuring" PROVE FALSE
      OBVIOUS
    <3>1. stage[<<i, m>>] \in {"waiting", "ensuring"}
      BY <1>2
    <3>2. m >= n /\ ~(m > n)
      BY <3>1, <2>4, <2>5 DEF Early
    <3>3. m = n
      BY <3>2 DEF Attempts
    <3> QED BY <3>3, <2>2
  <2>7. stage'[<<i, 1>>] \notin Early
    <3>1. CASE n = 1
      BY <3>1, <2>2 DEF Early
    <3>2. CASE n # 1
      <4>1. 1 \in Attempts /\ ~(1 >= n)
        BY <3>2, SupervisorAssumption DEF Attempts
      <4> QED BY <4>1, <2>4, <1>3
    <3> QED BY <3>1, <3>2
  <2> QED BY <2>3, <2>6, <2>7
<1> QED BY <1>4, <1>5

(* AdbServerRecoveryExhausted is the last word on its cycle.                  *)
THEOREM ExhaustionIsFinal == Spec => []ExhaustedIsFinal
<1>1. Spec => []FinishedForGood
  BY FinishedInit, FinishedStep, AlwaysTyped, AlwaysSequenced, PTL DEF Spec
<1>2. Typed /\ FinishedForGood => ExhaustedIsFinal
  BY DEF Typed, SupervisorTypeOK, FinishedForGood, Finished, ExhaustedIsFinal
<1> QED BY <1>1, <1>2, AlwaysTyped, PTL

------------------------------------------------------------------------------
(* close() knows every attempt thread that exists after it.                   *)
Running == {"registered", "waiting", "ensuring", "handling", "retrying", "storing", "reporting"}

JoinsAll ==
    /\ ~closed => closer = "idle"
    /\ closer = "returned" => joining = {}
    /\ closed /\ closer # "error" => AttemptThreads \subseteq joining

LEMMA ThreadMoves ==
    ASSUME Typed, [Next]_vars, closed, NEW k \in AttemptThreads'
    PROVE  k \in AttemptThreads
<1>1. k \in Jobs /\ k[1] \in Ops /\ k[2] \in Attempts /\ IsThread(k)' /\ stage'[k] \in Running
  BY JobParts DEF AttemptThreads, Running
<1>2. IsThread(k)
  BY <1>1, OpMoves DEF IsThread, Attempts
<1>3. ~Called(k)
  BY <1>1, OpMoves DEF Called, IsThread
<1>4. stage[k] \in Running
  BY <1>1, <1>3, StageMoves DEF Retried, Moved, Forward, Running
<1> QED BY <1>1, <1>2, <1>4 DEF AttemptThreads, Running

LEMMA JoinsInit == Init => JoinsAll
BY DEF Init, JoinsAll

LEMMA JoinsStep == Typed /\ JoinsAll /\ [Next]_vars => JoinsAll'
<1> SUFFICES ASSUME Typed, JoinsAll, [Next]_vars PROVE JoinsAll'
  OBVIOUS
<1>1. ASSUME UNCHANGED <<closed, closer, joining>> PROVE JoinsAll'
  <2>1. closed => AttemptThreads' \subseteq AttemptThreads
    BY ThreadMoves
  <2> QED BY <1>1, <2>1 DEF JoinsAll
<1>2. ASSUME NEW j \in Jobs, Join(j) PROVE JoinsAll'
  <2>1. AttemptThreads' = AttemptThreads /\ closed' = closed /\ joining' = joining \ {j}
    BY <1>2 DEF Join, AttemptThreads, IsThread
  <2>2. CASE stage[j] = "registered"
    BY <1>2, <2>1, <2>2 DEF Join, JoinsAll
  <2>3. CASE stage[j] = "over"
    <3>1. j \notin AttemptThreads
      BY <2>3 DEF AttemptThreads
    <3> QED BY <1>2, <2>1, <2>3, <3>1 DEF Join, JoinsAll
  <2> QED BY <1>2, <2>2, <2>3 DEF Join
<1>3. ASSUME Close PROVE JoinsAll'
  <2>1. AttemptThreads' = AttemptThreads
    BY <1>3 DEF Close, AttemptThreads, IsThread
  <2> QED BY <1>3, <2>1 DEF Close, JoinsAll
<1>4. ASSUME CloseReturns PROVE JoinsAll'
  <2>1. AttemptThreads' = AttemptThreads
    BY <1>4 DEF CloseReturns, AttemptThreads, IsThread
  <2> QED BY <1>4, <2>1 DEF CloseReturns, JoinsAll
<1> DEFINE Same == UNCHANGED <<closed, closer, joining>>
<1>5. ASSUME NEW j \in Jobs,
             EnterAttempt(j) \/ RunEnsure(j) \/ LeaveEnsure(j) \/ HandleSatisfied(j)
             \/ HandleUnsatisfied(j) \/ Exhaust(j) \/ Report(j) \/ ScheduleRetry(j)
             \/ StoreToken(j) \/ Fire(j) \/ OnRetryDue(j) \/ Launch(j) \/ StartThread(j)
             \/ CancelToken(j) \/ RaiseFromEnsure(j)
      PROVE  Same
  BY <1>5 DEF EnterAttempt, RunEnsure, LeaveEnsure, HandleSatisfied, HandleUnsatisfied, Exhaust,
     Report, ScheduleRetry, StoreToken, Fire, OnRetryDue, Launch, StartThread, CancelToken,
     RaiseFromEnsure, supervisorVars
<1>6. ASSUME NEW i \in Ops,
             EnterCall(i) \/ EnableRecovery(i) \/ Reconcile(i)
             \/ \E kind \in {"start", "start_recovering", "stop"} : Call(i, kind)
      PROVE  Same
  BY <1>6 DEF EnterCall, EnableRecovery, Reconcile, Kick, Call
<1>7. ASSUME DisableRecovery \/ UNCHANGED supervisorVars \/ UNCHANGED vars PROVE Same
  BY <1>7 DEF DisableRecovery, supervisorVars, vars
<1>8. ASSUME Same PROVE JoinsAll'
  BY <1>1, <1>8
<1> HIDE DEF Same
<1> QED
  BY <1>2, <1>3, <1>4, <1>5, <1>6, <1>7, <1>8 DEF Next, System, Environment, Progress

(* When close() returns no attempt thread runs, and none can start any more.  *)
THEOREM ClosingQuiesces == Spec => []CloseQuiesces
<1>1. Typed /\ JoinsAll => CloseQuiesces
  BY DEF JoinsAll, CloseQuiesces, Typed, SupervisorTypeOK
<1> QED BY JoinsInit, JoinsStep, AlwaysTyped, <1>1, PTL DEF Spec
------------------------------------------------------------------------------
(* A token is taken out of _retry_token only when its cycle gives way to      *)
(* another or to none, or when a later store overtakes it; a cycle that opens *)
(* has its first attempt on the way.                                          *)
GoesOn == cycle' = cycle /\ (doomed' \subseteq doomed \/ overtaken')
Opened == cycle' # None => stage'[<<cycle', 1>>] \in {"ensuring", "launching"}

LEMMA CycleGoesOn ==
    ASSUME Typed, [Next]_vars
    PROVE  GoesOn \/ Opened
<1> USE SupervisorAssumption DEF GoesOn, Opened, Goto, Invalidate, Typed, SupervisorTypeOK
<1>1. ASSUME NEW i \in Ops, EnterCall(i) PROVE GoesOn \/ Opened
  <2>1. CASE closed
    BY <1>1, <2>1 DEF EnterCall
  <2>2. CASE ~closed
    BY <1>1, <2>2, FirstJob DEF EnterCall
  <2> QED BY <2>1, <2>2
<1>2. ASSUME NEW i \in Ops, EnableRecovery(i) \/ Reconcile(i) PROVE Opened
  BY <1>2, FirstJob DEF EnableRecovery, Reconcile, Kick
<1>3. ASSUME NEW j \in Jobs, HandleSatisfied(j) \/ Exhaust(j) PROVE GoesOn \/ Opened
  BY <1>3 DEF HandleSatisfied, Exhaust, EndCycle
<1>4. ASSUME NEW j \in Jobs, StoreToken(j) PROVE GoesOn
  BY <1>4 DEF StoreToken
<1>5. ASSUME DisableRecovery \/ Close PROVE Opened
  BY <1>5 DEF DisableRecovery, Close
<1>6. ASSUME NEW j \in Jobs, CancelToken(j) PROVE GoesOn
  BY <1>6 DEF CancelToken
<1> DEFINE Same == UNCHANGED <<cycle, doomed>>
<1>7. ASSUME NEW j \in Jobs,
             EnterAttempt(j) \/ RunEnsure(j) \/ LeaveEnsure(j) \/ HandleUnsatisfied(j)
             \/ Report(j) \/ ScheduleRetry(j) \/ Fire(j) \/ OnRetryDue(j) \/ Launch(j)
             \/ StartThread(j) \/ Join(j) \/ RaiseFromEnsure(j)
      PROVE  Same
  BY <1>7 DEF EnterAttempt, RunEnsure, LeaveEnsure, HandleUnsatisfied, Report, ScheduleRetry,
     Fire, OnRetryDue, Launch, StartThread, Join, RaiseFromEnsure, supervisorVars
<1>8. ASSUME NEW i \in Ops, NEW kind \in {"start", "start_recovering", "stop"}, Call(i, kind)
      PROVE  Same
  BY <1>8 DEF Call
<1>9. ASSUME CloseReturns \/ UNCHANGED supervisorVars \/ UNCHANGED vars PROVE Same
  BY <1>9 DEF CloseReturns, supervisorVars, vars
<1>10. ASSUME Same PROVE GoesOn
  BY <1>10
<1> HIDE DEF GoesOn, Opened, Same
<1> QED
  BY <1>1, <1>2, <1>3, <1>4, <1>5, <1>6, <1>7, <1>8, <1>9, <1>10
     DEF Next, System, Environment, Progress

(* Only a call that asked for recovery opens a cycle, and a token is only     *)
(* heard of once its timer has been armed.                                    *)
CycleAsked == cycle # None => op[cycle] \in {"kick", "start_recovering"}

TokensSeen ==
    /\ \A t \in doomed : stage[t] # "unused"
    /\ token # None => stage[token] # "unused"
    /\ \A j \in Jobs : stage[j] = "storing" => stage[<<j[1], j[2] + 1>>] # "unused"

TokenMoves == /\ doomed' \subseteq doomed \cup ({token} \ {None})
              /\ \/ token' \in {token, None}
                 \/ \E j \in Jobs : stage[j] = "storing" /\ token' = <<j[1], j[2] + 1>>

LEMMA TokenMove ==
    ASSUME [Next]_vars
    PROVE  TokenMoves
<1> DEFINE Same == UNCHANGED <<token, doomed>>
<1> USE DEF TokenMoves, Invalidate
<1>1. ASSUME NEW i \in Ops, EnterCall(i) PROVE TokenMoves
  <2>1. CASE closed
    BY <1>1, <2>1 DEF EnterCall
  <2>2. CASE ~closed
    BY <1>1, <2>2 DEF EnterCall
  <2> QED BY <2>1, <2>2
<1>2. ASSUME NEW i \in Ops, EnableRecovery(i) PROVE TokenMoves
  BY <1>2 DEF EnableRecovery
<1>3. ASSUME NEW j \in Jobs, HandleSatisfied(j) \/ Exhaust(j) PROVE TokenMoves
  BY <1>3 DEF HandleSatisfied, Exhaust, EndCycle
<1>4. ASSUME NEW j \in Jobs, StoreToken(j) PROVE TokenMoves
  BY <1>4 DEF StoreToken
<1>5. ASSUME DisableRecovery \/ Close PROVE TokenMoves
  BY <1>5 DEF DisableRecovery, Close
<1>6. ASSUME NEW j \in Jobs, CancelToken(j) \/ OnRetryDue(j) PROVE TokenMoves
  BY <1>6 DEF CancelToken, OnRetryDue
<1>7. ASSUME NEW j \in Jobs,
             EnterAttempt(j) \/ RunEnsure(j) \/ LeaveEnsure(j) \/ HandleUnsatisfied(j)
             \/ Report(j) \/ ScheduleRetry(j) \/ Fire(j) \/ Launch(j)
             \/ StartThread(j) \/ Join(j) \/ RaiseFromEnsure(j)
      PROVE  Same
  BY <1>7 DEF EnterAttempt, RunEnsure, LeaveEnsure, HandleUnsatisfied, Report, ScheduleRetry,
     Fire, Launch, StartThread, Join, RaiseFromEnsure, supervisorVars
<1>8. ASSUME NEW i \in Ops,
             Reconcile(i) \/ \E kind \in {"start", "start_recovering", "stop"} : Call(i, kind)
      PROVE  Same
  BY <1>8 DEF Reconcile, Call
<1>9. ASSUME CloseReturns \/ UNCHANGED supervisorVars \/ UNCHANGED vars PROVE Same
  BY <1>9 DEF CloseReturns, supervisorVars, vars
<1>10. ASSUME Same PROVE TokenMoves
  BY <1>10
<1> HIDE DEF Same, TokenMoves
<1> QED
  BY <1>1, <1>2, <1>3, <1>4, <1>5, <1>6, <1>7, <1>8, <1>9, <1>10
     DEF Next, System, Environment, Progress

LEMMA TokensInit == Init => TokensSeen /\ CycleAsked
BY DEF Init, TokensSeen, CycleAsked

LEMMA TokensStep == Typed /\ TokensSeen /\ [Next]_vars => TokensSeen'
<1> SUFFICES ASSUME Typed, TokensSeen, [Next]_vars PROVE TokensSeen'
  OBVIOUS
<1>1. ASSUME NEW k \in Jobs, stage'[k] = "unused" PROVE stage[k] = "unused"
  BY <1>1, StageMoves DEF Called, Retried, Moved, Forward
<1>2. TokenMoves
  BY TokenMove
<1>3. ASSUME NEW j \in Jobs, stage[j] = "storing"
      PROVE  <<j[1], j[2] + 1>> \in Jobs /\ stage[<<j[1], j[2] + 1>>] # "unused"
  BY <1>3, RetryJob DEF Typed, SupervisorTypeOK, StoringHasRetry, TokensSeen
<1>4. \A t \in doomed' : stage'[t] # "unused"
  BY <1>1, <1>2 DEF TokenMoves, TokensSeen, Typed, SupervisorTypeOK
<1>5. token' # None => stage'[token'] # "unused"
  BY <1>1, <1>2, <1>3 DEF TokenMoves, TokensSeen, Typed, SupervisorTypeOK
<1>6. ASSUME NEW j \in Jobs, stage'[j] = "storing"
      PROVE  stage'[<<j[1], j[2] + 1>>] # "unused"
  <2>1. CASE stage[j] = "storing"
    BY <1>1, <1>3, <2>1
  <2>2. CASE stage[j] # "storing"
    BY <1>6, <2>2, StageMoves DEF Called, Retried, Moved, Forward
  <2> QED BY <2>1, <2>2
<1> QED BY <1>4, <1>5, <1>6 DEF TokensSeen

LEMMA AskedStep == Typed /\ CycleAsked /\ [Next]_vars => CycleAsked'
<1> SUFFICES ASSUME Typed, CycleAsked, [Next]_vars PROVE CycleAsked'
  OBVIOUS
<1> USE SupervisorAssumption DEF Typed, SupervisorTypeOK
<1>1. ASSUME cycle' \in {cycle, None} PROVE CycleAsked'
  BY <1>1, OpMoves DEF CycleAsked
<1>2. ASSUME NEW i \in Ops, EnterCall(i) PROVE CycleAsked'
  <2>1. CASE cycle' = cycle
    BY <1>1, <2>1
  <2>2. CASE cycle' # cycle
    BY <1>2, <2>2 DEF EnterCall, Invalidate, CycleAsked
  <2> QED BY <2>1, <2>2
<1>3. ASSUME NEW i \in Ops, EnableRecovery(i) \/ Reconcile(i) PROVE CycleAsked'
  BY <1>3 DEF EnableRecovery, Reconcile, Kick, Invalidate, CycleAsked
<1> DEFINE Same == cycle' \in {cycle, None}
<1>4. ASSUME NEW j \in Jobs, Progress(j) \/ RaiseFromEnsure(j) PROVE Same
  BY <1>4 DEF Progress, EnterAttempt, RunEnsure, LeaveEnsure, HandleSatisfied,
     HandleUnsatisfied, Exhaust, Report, ScheduleRetry, StoreToken, Fire, OnRetryDue,
     Launch, StartThread, CancelToken, Join, RaiseFromEnsure, supervisorVars, EndCycle, Invalidate
<1>5. ASSUME NEW i \in Ops, NEW kind \in {"start", "start_recovering", "stop"}, Call(i, kind)
      PROVE  Same
  BY <1>5 DEF Call
<1>6. ASSUME CloseReturns \/ DisableRecovery \/ Close PROVE Same
  BY <1>6 DEF CloseReturns, DisableRecovery, Close, Invalidate
<1>7. ASSUME UNCHANGED supervisorVars \/ UNCHANGED vars PROVE Same
  BY <1>7 DEF supervisorVars, vars
<1> HIDE DEF Typed, SupervisorTypeOK
<1> QED
  BY <1>1, <1>2, <1>3, <1>4, <1>5, <1>6, <1>7 DEF Next, System, Environment

------------------------------------------------------------------------------
(* The driver of a live cycle stays on its way, or arms the next retry.       *)
Under == {"due", "launching", "registered", "waiting", "ensuring", "handling", "retrying"}

Arms(k) == /\ stage[k] = "retrying" /\ k[2] < MaxAttempts
           /\ stage'[<<k[1], k[2] + 1>>] = "armed"

LEMMA DriverMoves ==
    ASSUME Typed, Sequenced, CycleGated, CycleAsked, [Next]_vars, NEW k \in Jobs,
           cycle = k[1], cycle' = cycle, ~raised', Driving(k)
    PROVE  stage'[k] \in Under \cup {"armed"} \/ Arms(k)
<1> DEFINE P == stage'[k] \in Under \cup {"armed"} \/ Arms(k)
<1>0. /\ k[1] \in Ops /\ cycle # None /\ stage[k] \in Under \cup {"armed"}
      /\ stage[k] = "armed" => k \notin doomed
      /\ Current(k[1]) /\ subscribed /\ op[k[1]] \in {"kick", "start_recovering"}
  BY JobParts, SupervisorAssumption DEF Driving, Under, CycleGated, Current, CycleAsked
<1>1. ASSUME UNCHANGED stage PROVE P
  BY <1>0, <1>1
<1> USE DEF Under, Goto
<1>2. ASSUME NEW i \in Ops, NEW kind \in {"start", "start_recovering", "stop"}, Call(i, kind)
      PROVE  P
  BY <1>0, <1>2 DEF Call, Typed, SupervisorTypeOK
<1>3. ASSUME NEW i \in Ops, EnableRecovery(i) \/ Reconcile(i) PROVE P
  BY <1>0, <1>3 DEF EnableRecovery, Reconcile, Kick, Typed, SupervisorTypeOK
<1>4. ASSUME NEW i \in Ops, EnterCall(i) PROVE P
  BY <1>0, <1>4 DEF EnterCall, Current, Typed, SupervisorTypeOK
<1>5. ASSUME NEW j \in Jobs, EnterAttempt(j) PROVE P
  BY <1>0, <1>5 DEF EnterAttempt, Typed, SupervisorTypeOK
<1>6. ASSUME NEW j \in Jobs, LeaveEnsure(j) PROVE P
  BY <1>0, <1>6 DEF LeaveEnsure, Typed, SupervisorTypeOK
<1>7. ASSUME NEW j \in Jobs, RaiseFromEnsure(j) PROVE P
  BY <1>0, <1>7 DEF RaiseFromEnsure, Typed, SupervisorTypeOK
<1>8. ASSUME NEW j \in Jobs, HandleSatisfied(j) \/ Exhaust(j) PROVE P
  <2>1. j # k
    BY <1>0, <1>8 DEF HandleSatisfied, Exhaust, EndCycle, Invalidate
  <2> QED BY <1>0, <1>8, <2>1 DEF HandleSatisfied, Exhaust, Typed, SupervisorTypeOK
<1>9. ASSUME NEW j \in Jobs, HandleUnsatisfied(j) \/ Report(j) PROVE P
  BY <1>0, <1>9 DEF HandleUnsatisfied, Report, Typed, SupervisorTypeOK
<1>10. ASSUME NEW j \in Jobs, ScheduleRetry(j) PROVE P
  <2>1. <<j[1], j[2] + 1>> \in Jobs
    BY <1>10, RetryJob DEF ScheduleRetry
  <2> QED BY <1>0, <1>10, <2>1 DEF ScheduleRetry, Arms, Typed, SupervisorTypeOK
<1>11. ASSUME NEW j \in Jobs, StoreToken(j) PROVE P
  <2>1. j[2] < MaxAttempts /\ <<j[1], j[2] + 1>> \in Jobs
    BY <1>11, RetryJob DEF StoreToken, StoringHasRetry, Typed, SupervisorTypeOK
  <2>2. ~Current(j[1]) => <<j[1], j[2] + 1>> # k
    BY <1>0
  <2> QED BY <1>0, <1>11, <2>1, <2>2 DEF StoreToken, Typed, SupervisorTypeOK
<1>12. ASSUME NEW j \in Jobs, CancelToken(j) \/ Fire(j) PROVE P
  BY <1>0, <1>12 DEF CancelToken, Fire, Typed, SupervisorTypeOK
<1>13. ASSUME NEW j \in Jobs, OnRetryDue(j) \/ Launch(j) \/ StartThread(j) PROVE P
  BY <1>0, <1>13 DEF OnRetryDue, Launch, StartThread, Typed, SupervisorTypeOK
<1>14. ASSUME NEW j \in Jobs, Join(j) \/ RunEnsure(j) PROVE UNCHANGED stage
  BY <1>14 DEF Join, RunEnsure, supervisorVars
<1>15. ASSUME DisableRecovery \/ Close \/ CloseReturns PROVE UNCHANGED stage
  BY <1>15 DEF DisableRecovery, Close, CloseReturns
<1>16. ASSUME UNCHANGED supervisorVars \/ UNCHANGED vars PROVE UNCHANGED stage
  BY <1>16 DEF supervisorVars, vars
<1> HIDE DEF P
<1>17. P
  BY <1>1, <1>2, <1>3, <1>4, <1>5, <1>6, <1>7, <1>8, <1>9, <1>10, <1>11, <1>12, <1>13,
     <1>14, <1>15, <1>16 DEF Next, System, Environment, Progress
<1> QED BY <1>17 DEF P

LEMMA HistoryStays ==
    ASSUME Typed, [Next]_vars
    PROVE  (raised => raised') /\ (overtaken => overtaken')
<1> DEFINE P == (raised => raised') /\ (overtaken => overtaken')
<1>0. ASSUME UNCHANGED <<raised, overtaken>> PROVE P
  BY <1>0
<1>1. ASSUME NEW j \in Jobs,
             EnterAttempt(j) \/ RunEnsure(j) \/ LeaveEnsure(j) \/ HandleSatisfied(j)
             \/ HandleUnsatisfied(j) \/ Exhaust(j) \/ Report(j) \/ ScheduleRetry(j)
             \/ Fire(j) \/ OnRetryDue(j) \/ Launch(j) \/ StartThread(j) \/ CancelToken(j)
             \/ Join(j)
      PROVE  P
  BY <1>0, <1>1 DEF EnterAttempt, RunEnsure, LeaveEnsure, HandleSatisfied, HandleUnsatisfied,
     Exhaust, Report, ScheduleRetry, Fire, OnRetryDue, Launch, StartThread, CancelToken, Join,
     supervisorVars
<1>5. ASSUME NEW j \in Jobs, StoreToken(j) PROVE P
  <2>1. raised' = raised
    BY <1>5 DEF StoreToken
  <2>2. CASE Current(j[1])
    <3>1. overtaken' = (overtaken \/ token # None)
      BY <1>5, <2>2, Zenon DEF StoreToken
    <3> QED BY <2>1, <3>1, Zenon
  <2>3. CASE ~Current(j[1])
    BY <1>5, <2>1, <2>3 DEF StoreToken
  <2> QED BY <2>2, <2>3
<1>6. ASSUME NEW j \in Jobs, RaiseFromEnsure(j) PROVE P
  <2>1. /\ raised' = (raised \/ cycle = j[1])
        /\ overtaken' = overtaken
    BY <1>6, Zenon DEF RaiseFromEnsure
  <2> QED BY <2>1, Zenon
<1>2. ASSUME NEW i \in Ops,
             EnterCall(i) \/ EnableRecovery(i) \/ Reconcile(i)
             \/ \E kind \in {"start", "start_recovering", "stop"} : Call(i, kind)
      PROVE  P
  BY <1>2 DEF EnterCall, EnableRecovery, Reconcile, Call
<1>3. ASSUME CloseReturns \/ DisableRecovery \/ Close PROVE P
  BY <1>3 DEF CloseReturns, DisableRecovery, Close
<1>4. ASSUME UNCHANGED supervisorVars \/ UNCHANGED vars PROVE P
  BY <1>4 DEF supervisorVars, vars
<1> HIDE DEF P
<1>7. P
  BY <1>1, <1>2, <1>3, <1>4, <1>5, <1>6 DEF Next, System, Environment, Progress
<1> QED BY <1>7 DEF P

LEMMA DriverInit == Init => CycleHasDriverUnless
BY DEF Init, CycleHasDriverUnless, CycleHasDriver

LEMMA DriverStep ==
    Typed /\ Sequenced /\ CycleGated /\ TokensSeen /\ CycleAsked /\ CycleHasDriverUnless
    /\ [Next]_vars => CycleHasDriverUnless'
<1> SUFFICES ASSUME Typed, Sequenced, CycleGated, TokensSeen, CycleAsked, CycleHasDriverUnless,
                    [Next]_vars, cycle' # None, ~raised', ~overtaken'
             PROVE  \E n \in Attempts : Driving(<<cycle, n>>)'
  BY DEF CycleHasDriverUnless, CycleHasDriver
<1>0. 1 \in Attempts
  BY SupervisorAssumption DEF Attempts
<1>1. CASE Opened
  <2>1. stage'[<<cycle', 1>>] \in {"ensuring", "launching"}
    BY <1>1 DEF Opened
  <2> QED BY <1>0, <2>1 DEF Driving
<1>2. CASE GoesOn
  <2>1. ~raised /\ ~overtaken /\ cycle' = cycle /\ cycle # None /\ doomed' \subseteq doomed
    BY <1>2, HistoryStays DEF GoesOn
  <2>2. PICK n \in Attempts : Driving(<<cycle, n>>)
    BY <2>1 DEF CycleHasDriverUnless, CycleHasDriver
  <2> DEFINE k == <<cycle, n>>
  <2>3. k \in Jobs /\ k[1] = cycle /\ k[2] = n
    BY <2>1, JobOf DEF Typed, SupervisorTypeOK
  <2>4. Driving(k) /\ k = <<cycle', n>>
    BY <2>1, <2>2
  <2> HIDE DEF k
  <2>5. stage[k] \in Early /\ stage[k] # "unused" /\ (stage[k] = "armed" => k \notin doomed)
    BY <2>4 DEF Driving, Early
  <2>6. CASE Arms(k)
    <3>1. n + 1 \in Attempts /\ <<cycle, n + 1>> \in Jobs
      BY <2>1, <2>3, <2>6, RetryJob, SupervisorAssumption DEF Arms, Attempts
    <3>2. stage[<<cycle, n + 1>>] = "unused"
      BY <2>1, <2>3, <2>4, <2>5, <3>1 DEF Sequenced, OneAfterAnother, Attempts, Typed, SupervisorTypeOK
    <3>3. <<cycle, n + 1>> \notin doomed
      BY <3>2 DEF TokensSeen
    <3>4. stage'[<<cycle', n + 1>>] = "armed" /\ <<cycle', n + 1>> \notin doomed'
      BY <2>1, <2>3, <2>6, <3>3 DEF Arms
    <3> QED BY <3>1, <3>4 DEF Driving
  <2>7. CASE stage'[k] \in Under
    BY <2>4, <2>7 DEF Under, Driving
  <2>8. CASE stage'[k] = "armed"
    <3>1. ~Retried(k)
      <4> SUFFICES ASSUME NEW j \in Jobs, k = <<j[1], j[2] + 1>>, stage[j] = "retrying"
                   PROVE  FALSE
        BY DEF Retried
      <4>1. j = <<j[1], j[2]>> /\ j[1] \in Ops /\ j[2] \in Attempts /\ j[2] + 1 = n
        BY <2>3, JobParts
      <4>2. stage[k] = "unused"
        BY <4>1 DEF Sequenced, OneAfterAnother, Early, Attempts
      <4> QED BY <2>5, <4>2
    <3>2. stage[k] = "armed"
      BY <2>3, <2>8, <3>1, StageMoves DEF Called, Moved, Forward
    <3>3. k \notin doomed'
      BY <2>1, <2>5, <3>2
    <3> QED BY <2>4, <2>8, <3>3 DEF Driving
  <2> QED BY <2>1, <2>3, <2>4, <2>6, <2>7, <2>8, DriverMoves
<1> QED BY <1>1, <1>2, CycleGoesOn

(* A live cycle is always driven on, unless an exception left ensure() or a   *)
(* retry was stored over a newer one (server.py 245-248, 296-303).            *)
THEOREM LiveCyclesAreDriven == Spec => []CycleHasDriverUnless
<1>1. Spec => [](TokensSeen /\ CycleAsked)
  BY TokensInit, TokensStep, AskedStep, AlwaysTyped, PTL DEF Spec
<1> QED
  BY DriverInit, DriverStep, <1>1, AlwaysTyped, AlwaysSequenced, RecoveryIsGated, PTL DEF Spec
------------------------------------------------------------------------------
(* Where the attempts of a cycle come from: a job on its way to a launch      *)
(* belongs to a kick or is a retry, one past ensure() and every retry belongs *)
(* to an operation that asked for recovery, and only the last attempt reports.*)
Origins ==
    /\ \A j \in Jobs : stage[j] \in {"armed", "due", "launching", "registered"}
                       => j[2] > 1 \/ op[j[1]] = "kick"
    /\ \A j \in Jobs : \/ stage[j] \in {"handling", "retrying", "storing", "reporting"}
                       \/ j[2] > 1 /\ stage[j] # "unused"
                       => Recovering(j[1])
    /\ \A j \in Jobs : stage[j] = "reporting" => j[2] = MaxAttempts

LEMMA UsedAsked ==
    ASSUME Typed, Sequenced, NEW j \in Jobs, stage[j] # "unused"
    PROVE  op[j[1]] # "none"
<1> SUFFICES ASSUME op[j[1]] = "none" PROVE FALSE
  OBVIOUS
<1>1. /\ j[1] \in Ops /\ j[2] \in Attempts /\ j = <<j[1], j[2]>> /\ 1 \in Attempts
  BY JobParts, SupervisorAssumption DEF Attempts
<1>2. stage[<<j[1], 1>>] = "unused"
  BY <1>1 DEF Sequenced, FreshUnused
<1>3. j[2] # 1
  BY <1>1, <1>2
<1>4. 1 < j[2]
  BY <1>1, <1>3, SupervisorAssumption DEF Attempts
<1> QED BY <1>1, <1>2, <1>4 DEF Sequenced, OneAfterAnother, Early

LEMMA OriginsInit == Init => Origins
BY DEF Init, Origins

LEMMA OriginsStep == Typed /\ Sequenced /\ Origins /\ [Next]_vars => Origins'
<1> SUFFICES ASSUME Typed, Sequenced, Origins, [Next]_vars, NEW k \in Jobs
             PROVE  /\ stage'[k] \in {"armed", "due", "launching", "registered"}
                       => k[2] > 1 \/ op'[k[1]] = "kick"
                    /\ \/ stage'[k] \in {"handling", "retrying", "storing", "reporting"}
                       \/ k[2] > 1 /\ stage'[k] # "unused"
                       => Recovering(k[1])'
                    /\ stage'[k] = "reporting" => k[2] = MaxAttempts
  BY DEF Origins
<1>1. k[1] \in Ops /\ k[2] \in Attempts
  BY JobParts
<1>2. stage[k] # "unused" => op[k[1]] # "none" /\ op'[k[1]] = op[k[1]]
  BY <1>1, UsedAsked, OpMoves
<1>3. CASE Called(k)
  BY <1>3 DEF Called
<1>4. CASE Retried(k)
  <2>1. PICK j \in Jobs : k = <<j[1], j[2] + 1>> /\ stage[j] = "retrying" /\ stage'[k] = "armed"
    BY <1>4 DEF Retried
  <2>2. Recovering(j[1]) /\ op'[j[1]] = op[j[1]] /\ k[1] = j[1] /\ k[2] > 1
    BY <2>1, JobParts, UsedAsked, OpMoves, SupervisorAssumption DEF Origins, Attempts
  <2> QED BY <2>1, <2>2 DEF Recovering
<1>5. CASE stage'[k] = stage[k]
  BY <1>2, <1>5 DEF Origins, Recovering
<1>6. CASE Moved(k)
  <2>1. stage[k] # "unused"
    BY <1>6 DEF Moved, Forward
  <2>2. op'[k[1]] = op[k[1]] /\ op[k[1]] # "none" /\ op[k[1]] \in Kinds
    BY <1>1, <1>2, <2>1 DEF Typed, SupervisorTypeOK
  <2>3. stage'[k] \in {"armed", "due", "launching", "registered"}
        => stage[k] \in {"armed", "due", "launching"}
    BY <1>6 DEF Moved, Forward
  <2>4. stage'[k] \in {"handling", "retrying", "storing", "reporting"}
        => stage[k] \in {"handling", "retrying"} \/ op[k[1]] \notin {"start", "stop"}
    BY <1>6 DEF Moved, Forward
  <2>5. stage'[k] = "reporting" => k[2] = MaxAttempts
    BY <1>1, <1>6, SupervisorAssumption DEF Moved, Attempts
  <2> QED BY <2>1, <2>2, <2>3, <2>4, <2>5 DEF Origins, Recovering, Kinds
<1> QED BY <1>3, <1>4, <1>5, <1>6, StageMoves

LEMMA AlwaysOrigins == Spec => []Origins
BY OriginsInit, OriginsStep, AlwaysTyped, AlwaysSequenced, PTL DEF Spec

LEMMA AlwaysCycleAsked == Spec => []CycleAsked
<1>1. Init => CycleAsked
  BY TokensInit
<1> QED BY <1>1, AskedStep, AlwaysTyped, PTL DEF Spec
------------------------------------------------------------------------------
(* The attempts as RecoveryCycle sees them: only the job that moves changes,  *)
(* and a cycle is opened by a kick or when a start() call gets its lock.      *)
Sound == Typed /\ Sequenced /\ MutexGuards /\ CycleGated /\ CycleAsked /\ Origins

Moves(j) ==
    /\ op' = op
    /\ \A k \in Jobs :
          /\ stage'[k] = "unused" <=> stage[k] = "unused"
          /\ k # j => stage'[k] = stage[k] \/ (stage[k] = "storing" /\ stage'[k] = "over")

LEMMA OneMove ==
    ASSUME Typed, NEW j \in Jobs, NEW s, op' = op, stage' = [stage EXCEPT ![j] = s],
           stage[j] # "unused", s # "unused"
    PROVE  Moves(j) /\ stage'[j] = s
BY DEF Moves, Typed, SupervisorTypeOK

LEMMA AttemptMoves ==
    ASSUME NEW j \in Jobs, Moves(j)
    PROVE  /\ Attempted' = [Attempted EXCEPT ![j] = AttemptOf(j)']
           /\ HandedOn(j)' <=> HandedOn(j)
           /\ Recovering(j[1])' <=> Recovering(j[1])
<1>1. ASSUME NEW k \in Jobs PROVE HandedOn(k)' <=> HandedOn(k)
  <2>1. CASE k[2] < MaxAttempts
    <3>1. <<k[1], k[2] + 1>> \in Jobs
      BY <2>1, RetryJob
    <3> QED BY <3>1 DEF HandedOn, Moves
  <2>2. CASE ~(k[2] < MaxAttempts)
    BY <2>2 DEF HandedOn
  <2> QED BY <2>1, <2>2
<1>2. ASSUME NEW k \in Jobs PROVE Recovering(k[1])' <=> Recovering(k[1])
  BY DEF Recovering, Moves
<1>3. ASSUME NEW k \in Jobs, k # j PROVE AttemptOf(k)' = AttemptOf(k)
  BY <1>1, <1>2, <1>3 DEF AttemptOf, Moves
<1> QED BY <1>1, <1>2, <1>3 DEF Attempted

LEMMA OpenedStays ==
    ASSUME NEW j \in Jobs, Moves(j),
           \/ j[2] > 1
           \/ op[j[1]] # "start_recovering"
           \/ stage'[j] \in {"unused", "waiting"} <=> stage[j] \in {"unused", "waiting"}
    PROVE  OpenedCycles' = OpenedCycles
<1> SUFFICES ASSUME NEW i \in Ops, op[i] = "start_recovering"
             PROVE  stage'[<<i, 1>>] \in {"unused", "waiting"}
                    <=> stage[<<i, 1>>] \in {"unused", "waiting"}
  BY DEF OpenedCycles, Moves
<1>1. <<i, 1>> \in Jobs
  BY FirstJob
<1> QED BY <1>1 DEF Moves

LEMMA NoAttemptMoves ==
    ASSUME UNCHANGED <<op, stage>>
    PROVE  UNCHANGED <<Attempted, OpenedCycles>>
<1>1. ASSUME NEW k \in Jobs PROVE AttemptOf(k)' = AttemptOf(k)
  BY DEF AttemptOf, HandedOn, Recovering
<1> QED BY <1>1 DEF Attempted, OpenedCycles

(* A job of a recovering operation that has not begun is the attempt to be    *)
(* made next, and no later one has been scheduled.                            *)
LEMMA AwaitedIsNext ==
    ASSUME Sound, NEW j \in Jobs, Recovering(j[1]),
           stage[j] \in {"armed", "due", "launching", "registered", "waiting"}
    PROVE  /\ Attempted[j] = "waiting"
           /\ j[2] = 1 \/ Attempted[<<j[1], j[2] - 1>>] = "handed on"
<1>1. Attempted[j] = "waiting"
  BY DEF Attempted, AttemptOf
<1>2. ASSUME j[2] # 1 PROVE Attempted[<<j[1], j[2] - 1>>] = "handed on"
  <2> DEFINE p == <<j[1], j[2] - 1>>
  <2>1. /\ j[1] \in Ops /\ j[2] \in Attempts /\ j[2] - 1 \in Attempts /\ j[2] - 1 < j[2]
        /\ j = <<j[1], j[2]>> /\ j[2] - 1 < MaxAttempts /\ j[2] - 1 + 1 = j[2]
    BY <1>2, JobParts, SupervisorAssumption DEF Attempts
  <2>2. p \in Jobs /\ p[1] = j[1] /\ p[2] = j[2] - 1
    BY <2>1, JobOf
  <2>3. stage[p] \notin Early
    BY <2>1 DEF Sound, Sequenced, OneAfterAnother
  <2>4. <<p[1], p[2] + 1>> = j
    BY <2>1, <2>2
  <2> HIDE DEF p
  <2>5. stage[p] \in {"storing", "over"}
    <3>1. stage[p] \in Stages
      BY <2>2 DEF Sound, Typed, SupervisorTypeOK
    <3>2. stage[p] # "reporting"
      BY <2>1, <2>2, SupervisorAssumption DEF Sound, Origins, Attempts
    <3> QED BY <2>3, <3>1, <3>2 DEF Early, Stages
  <2>6. HandedOn(p) /\ Recovering(p[1])
    BY <2>1, <2>2, <2>4 DEF HandedOn
  <2>7. Attempted[p] = "handed on"
    BY <2>2, <2>5, <2>6 DEF Attempted, AttemptOf
  <2> QED BY <2>7 DEF p
<1> QED BY <1>1, <1>2

LEMMA NoneAfter ==
    ASSUME Sound, NEW j \in Jobs, stage[j] \in Early
    PROVE  ~HandedOn(j)
<1> SUFFICES ASSUME j[2] < MaxAttempts PROVE stage[<<j[1], j[2] + 1>>] = "unused"
  BY DEF HandedOn
<1>1. /\ j[1] \in Ops /\ j[2] \in Attempts /\ j[2] + 1 \in Attempts /\ j[2] < j[2] + 1
      /\ j = <<j[1], j[2]>>
  BY JobParts, SupervisorAssumption DEF Attempts
<1> QED BY <1>1 DEF Sound, Sequenced, OneAfterAnother

LEMMA IsOpened ==
    ASSUME Sound, NEW j \in Jobs, Recovering(j[1]), stage[j] # "unused",
           j[2] > 1 \/ op[j[1]] = "kick"
    PROVE  j[1] \in OpenedCycles
<1>1. j[1] \in Ops /\ j[2] \in Attempts /\ j = <<j[1], j[2]>> /\ 1 \in Attempts
  BY JobParts, SupervisorAssumption DEF Attempts
<1>2. CASE op[j[1]] = "kick"
  BY <1>1, <1>2 DEF OpenedCycles
<1>3. CASE op[j[1]] # "kick"
  <2>1. 1 < j[2]
    BY <1>1, <1>3 DEF Attempts
  <2>2. stage[<<j[1], 1>>] \notin Early
    BY <1>1, <2>1 DEF Sound, Sequenced, OneAfterAnother
  <2> QED BY <1>1, <1>3, <2>2 DEF OpenedCycles, Recovering, Early
<1> QED BY <1>2, <1>3

(* A scheduled attempt that is dropped, and a move RecoveryCycle does not see.*)
LEMMA Withdrawn ==
    ASSUME Sound, NEW j \in Jobs, j[2] > 1 \/ op[j[1]] = "kick",
           stage[j] \in {"armed", "due", "launching", "registered", "waiting"},
           Moves(j), stage'[j] = "over", UNCHANGED <<cycle, exhausted>>
    PROVE  Recovery!Next
<1>0. Recovering(j[1])
  BY DEF Sound, Origins, Recovering
<1>1. j = <<j[1], j[2]>> /\ j[1] \in Ops /\ j[2] \in Attempts
  BY JobParts
<1>2. AttemptOf(j)' = "over"
  <2>1. ~HandedOn(j)' /\ Recovering(j[1])'
    BY <1>0, NoneAfter, AttemptMoves DEF Early
  <2> QED BY <2>1 DEF AttemptOf
<1>3. Attempted' = [Attempted EXCEPT ![j] = "over"]
  BY <1>2, AttemptMoves
<1>4. OpenedCycles' = OpenedCycles
  BY OpenedStays
<1>5. j[1] \in OpenedCycles
  BY <1>0, IsOpened
<1>6. /\ Attempted[<<j[1], j[2]>>] = "waiting"
      /\ j[2] = 1 \/ Attempted[<<j[1], j[2] - 1>>] = "handed on"
  BY <1>0, <1>1, AwaitedIsNext
<1>7. Recovery!Withdraw(j[1], j[2])
  BY <1>1, <1>3, <1>4, <1>5, <1>6 DEF Recovery!Withdraw, Recovery!IsNext
<1> QED BY <1>1, <1>7 DEF Recovery!Next, Recovery!Attempts, Attempts

LEMMA Unseen ==
    ASSUME Sound, NEW j \in Jobs, Moves(j), AttemptOf(j)' = AttemptOf(j),
           \/ j[2] > 1
           \/ op[j[1]] # "start_recovering"
           \/ stage'[j] \in {"unused", "waiting"} <=> stage[j] \in {"unused", "waiting"},
           UNCHANGED <<cycle, exhausted>>
    PROVE  UNCHANGED Recovery!cvars
<1>1. Attempted' = Attempted
  BY AttemptMoves DEF Attempted
<1> QED BY <1>1, OpenedStays DEF Recovery!cvars
LEMMA NobodyRuns ==
    ASSUME Sound, mutex = None
    PROVE  Recovery!Idle
<1>1. Jobs = Ops \X Recovery!Attempts
  BY SupervisorAssumption DEF Attempts, Recovery!Attempts
<1>2. ASSUME NEW j \in Jobs PROVE Attempted[j] # "running"
  <2>1. stage[j] # "ensuring"
    BY SupervisorAssumption DEF Sound, MutexGuards
  <2> QED BY <2>1 DEF Attempted, AttemptOf
<1> QED BY <1>1, <1>2 DEF Recovery!Idle

(* Each action of the supervisor is a step of RecoveryCycle or unseen by it.  *)
Maps == Recovery!Next \/ UNCHANGED Recovery!cvars

LEMMA FreshCall ==
    ASSUME Sound, NEW i \in Ops, NEW kind, NEW s \in {"waiting", "launching"},
           op[i] = "none", op' = [op EXCEPT ![i] = kind],
           stage' = [stage EXCEPT ![<<i, 1>>] = s]
    PROVE  /\ Attempted' = Attempted
           /\ op'[i] = kind /\ stage'[<<i, 1>>] = s
           /\ \A h \in Ops \ {i} : op'[h] = op[h] /\ stage'[<<h, 1>>] = stage[<<h, 1>>]
<1>1. <<i, 1>> \in Jobs
  BY FirstJob
<1>2. op \in [Ops -> Kinds] /\ stage \in [Jobs -> Stages]
  BY DEF Sound, Typed, SupervisorTypeOK
<1>3. ASSUME NEW k \in Jobs, k[1] = i PROVE stage[k] = "unused"
  BY <1>3, UsedAsked DEF Sound
<1>4. ASSUME NEW k \in Jobs, k[1] = i PROVE AttemptOf(k)' = "waiting" /\ AttemptOf(k) = "waiting"
  <2>1. stage[k] = "unused"
    BY <1>3, <1>4
  <2>2. stage'[k] \in {"unused", "waiting", "launching"}
    BY <1>2, <2>1 
  <2> QED BY <2>1, <2>2 DEF AttemptOf
<1>5. ASSUME NEW k \in Jobs, k[1] # i PROVE AttemptOf(k)' = AttemptOf(k)
  <2>1. stage'[k] = stage[k] /\ op'[k[1]] = op[k[1]]
    BY <1>2, <1>5, JobParts 
  <2>2. HandedOn(k)' <=> HandedOn(k)
    <3>1. CASE k[2] < MaxAttempts
      <4>1. <<k[1], k[2] + 1>> \in Jobs /\ <<k[1], k[2] + 1>> # <<i, 1>>
        BY <1>5, <3>1, RetryJob
      <4>2. stage'[<<k[1], k[2] + 1>>] = stage[<<k[1], k[2] + 1>>]
        BY <1>2, <4>1 
      <4> QED BY <4>2 DEF HandedOn
    <3>2. CASE ~(k[2] < MaxAttempts)
      BY <3>2 DEF HandedOn
    <3> QED BY <3>1, <3>2
  <2> QED BY <2>1, <2>2 DEF AttemptOf, Recovering
<1>6. Attempted' = Attempted
  BY <1>4, <1>5 DEF Attempted
<1>7. ASSUME NEW h \in Ops, h # i
      PROVE  op'[h] = op[h] /\ stage'[<<h, 1>>] = stage[<<h, 1>>]
  BY <1>1, <1>2, <1>7, FirstJob 
<1> QED BY <1>1, <1>2, <1>6, <1>7

LEMMA CallMaps ==
    ASSUME Sound, NEW i \in Ops, NEW kind \in {"start", "start_recovering", "stop"}, Call(i, kind)
    PROVE  Maps
<1>1. /\ op[i] = "none" /\ op' = [op EXCEPT ![i] = kind]
      /\ stage' = [stage EXCEPT ![<<i, 1>>] = "waiting"]
      /\ UNCHANGED <<cycle, exhausted>>
  BY DEF Call, Goto
<1>2. /\ Attempted' = Attempted
      /\ op'[i] = kind /\ stage'[<<i, 1>>] = "waiting"
      /\ \A h \in Ops \ {i} : op'[h] = op[h] /\ stage'[<<h, 1>>] = stage[<<h, 1>>]
  BY <1>1, FreshCall
<1>3. OpenedCycles' = OpenedCycles
  BY <1>1, <1>2 DEF OpenedCycles
<1> QED BY <1>1, <1>2, <1>3 DEF Maps, Recovery!cvars

LEMMA KickMaps ==
    ASSUME Sound, NEW i \in Ops, EnableRecovery(i) \/ Reconcile(i)
    PROVE  Maps
<1>1. /\ op[i] = "none" /\ op' = [op EXCEPT ![i] = "kick"]
      /\ stage' = [stage EXCEPT ![<<i, 1>>] = "launching"]
      /\ cycle' = i /\ exhausted' = exhausted
  BY DEF EnableRecovery, Reconcile, Kick, Invalidate, Goto
<1>2. /\ Attempted' = Attempted
      /\ op'[i] = "kick"
      /\ \A h \in Ops \ {i} : op'[h] = op[h] /\ stage'[<<h, 1>>] = stage[<<h, 1>>]
  BY <1>1, FreshCall
<1>3. i \notin OpenedCycles /\ OpenedCycles' = OpenedCycles \cup {i}
  BY <1>1, <1>2 DEF OpenedCycles
<1>4. Recovery!Open(i)
  BY <1>1, <1>2, <1>3 DEF Recovery!Open
<1> QED BY <1>4 DEF Maps, Recovery!Next

LEMMA EnterCallMaps ==
    ASSUME Sound, NEW i \in Ops, EnterCall(i)
    PROVE  Maps
<1> DEFINE j == <<i, 1>>
<1>1. j \in Jobs /\ j[1] = i /\ j[2] = 1 /\ 1 \in Attempts /\ j = <<i, 1>>
  BY FirstJob, SupervisorAssumption DEF Attempts
<1> HIDE DEF j
<1>2. /\ stage[j] = "waiting" /\ op[i] # "kick" /\ mutex = None
      /\ op' = op /\ exhausted' = exhausted
      /\ cycle' \in {cycle, None, i}
  BY <1>1 DEF EnterCall, IsThread, Invalidate
<1>3. PICK s \in {"over", "ensuring"} : stage' = [stage EXCEPT ![j] = s]
  BY <1>1 DEF EnterCall, Goto
<1>4. Moves(j) /\ stage'[j] = s
  BY <1>1, <1>2, <1>3, OneMove DEF Sound
<1>5. CASE op[i] # "start_recovering"
  <2>1. ~Recovering(i)
    BY <1>2, <1>5 DEF Recovering
  <2>2. AttemptOf(j)' = AttemptOf(j)
    BY <1>1, <1>4, <2>1, AttemptMoves DEF AttemptOf
  <2>3. cycle' \in {cycle, None}
    BY <1>5 DEF EnterCall, Invalidate
  <2>4. UNCHANGED <<Attempted, OpenedCycles>>
    BY <1>1, <1>4, <1>5, <2>2, AttemptMoves, OpenedStays DEF Attempted
  <2> QED BY <1>2, <2>3, <2>4 DEF Maps, Recovery!Next, Recovery!GiveUp, Recovery!cvars
<1>6. CASE op[i] = "start_recovering"
  <2>1. i \notin OpenedCycles /\ OpenedCycles' = OpenedCycles \cup {i}
    <3>1. ASSUME NEW h \in Ops, h # i PROVE stage'[<<h, 1>>] = stage[<<h, 1>>]
      BY <1>1, <1>3, <3>1, FirstJob DEF Sound, Typed, SupervisorTypeOK
    <3> QED BY <1>1, <1>2, <1>4, <1>6, <3>1 DEF OpenedCycles
  <2>2. ~HandedOn(j)' /\ Recovering(j[1])'
    BY <1>1, <1>2, <1>4, <1>6, NoneAfter, AttemptMoves DEF Early, Recovering
  <2>3. CASE s = "over"
    <3>1. AttemptOf(j)' = "over"
      BY <1>4, <2>2, <2>3 DEF AttemptOf
    <3>2. cycle' = cycle
      <4>1. closed
        BY <1>1, <1>4, <2>3 DEF EnterCall, Goto, Sound, Typed, SupervisorTypeOK
      <4> QED BY <4>1 DEF EnterCall
    <3>3. Attempted' = [Attempted EXCEPT ![<<i, 1>>] = "over"]
      BY <1>1, <1>4, <3>1, AttemptMoves
    <3> QED BY <1>2, <2>1, <3>2, <3>3 DEF Maps, Recovery!Next, Recovery!Refuse
  <2>4. CASE s = "ensuring"
    <3>1. AttemptOf(j)' = "running"
      BY <1>4, <2>2, <2>4 DEF AttemptOf
    <3>2. cycle' = i
      <4>1. ~closed
        BY <1>1, <1>4, <2>4 DEF EnterCall, Goto, Sound, Typed, SupervisorTypeOK
      <4> QED BY <1>6, <4>1 DEF EnterCall, Invalidate
    <3>3. Attempted' = [Attempted EXCEPT ![<<i, 1>>] = "running"]
      BY <1>1, <1>4, <3>1, AttemptMoves
    <3>4. Recovery!Idle
      BY <1>2, NobodyRuns
    <3> QED BY <1>2, <2>1, <3>2, <3>3, <3>4 DEF Maps, Recovery!Next, Recovery!Open
  <2> QED BY <2>3, <2>4
<1> QED BY <1>5, <1>6

LEMMA AttemptMaps ==
    ASSUME Sound, NEW j \in Jobs,
           EnterAttempt(j) \/ Fire(j) \/ OnRetryDue(j) \/ Launch(j) \/ StartThread(j)
           \/ CancelToken(j)
    PROVE  Maps
<1>1. j[1] \in Ops /\ j[2] \in Attempts /\ j = <<j[1], j[2]>> /\ Recovery!Attempts = Attempts
  BY JobParts DEF Attempts, Recovery!Attempts
<1>2. op' = op /\ UNCHANGED <<cycle, exhausted>>
  BY DEF EnterAttempt, Fire, OnRetryDue, Launch, StartThread, CancelToken
<1>3. CASE stage' = stage
  BY <1>2, <1>3, NoAttemptMoves DEF Maps, Recovery!cvars
<1>4. CASE stage' # stage
  <2>1. PICK s : /\ stage' = [stage EXCEPT ![j] = s]
                 /\ \/ s = "over"
                       /\ stage[j] \in {"armed", "due", "launching", "registered", "waiting"}
                    \/ s \in {"due", "launching", "registered", "waiting"}
                       /\ stage[j] \in {"armed", "due", "launching", "registered"}
                    \/ s = "ensuring" /\ stage[j] = "waiting" /\ Current(j[1]) /\ mutex = None
                 /\ stage[j] = "waiting" => IsThread(j)
    <3>1. CASE EnterAttempt(j)
      BY <3>1 DEF EnterAttempt, Goto
    <3>2. CASE Fire(j) \/ StartThread(j)
      BY <3>2 DEF Fire, StartThread, Goto
    <3>3. CASE OnRetryDue(j) \/ Launch(j)
      BY <3>3 DEF OnRetryDue, Launch, Goto
    <3>4. CASE CancelToken(j)
      <4>1. stage[j] = "armed"
        BY <1>4, <3>4 DEF CancelToken, Sound, Typed, SupervisorTypeOK
      <4> QED BY <3>4, <4>1 DEF CancelToken
    <3> QED BY <3>1, <3>2, <3>3, <3>4
  <2>2. Moves(j) /\ stage'[j] = s
    BY <1>2, <2>1, OneMove DEF Sound
  <2>3. j[2] > 1 \/ op[j[1]] = "kick"
    BY <1>1, <2>1, SupervisorAssumption DEF Sound, Origins, IsThread, Attempts
  <2>4. Recovering(j[1])
    BY <2>1, <2>3 DEF Sound, Origins, Recovering
  <2>5. CASE s = "over"
    BY <1>2, <2>1, <2>2, <2>3, <2>5, Withdrawn DEF Maps
  <2>6. CASE s \in {"due", "launching", "registered", "waiting"}
    <3>1. AttemptOf(j) = "waiting" /\ AttemptOf(j)' = "waiting"
      BY <2>1, <2>2, <2>6 DEF AttemptOf
    <3> QED BY <1>2, <2>2, <2>3, <3>1, Unseen DEF Maps
  <2>7. CASE s = "ensuring"
    <3>1. AttemptOf(j)' = "running"
      BY <2>2, <2>4, <2>7, AttemptMoves DEF AttemptOf
    <3>2. Attempted' = [Attempted EXCEPT ![<<j[1], j[2]>>] = "running"]
      BY <1>1, <2>2, <3>1, AttemptMoves
    <3>3. /\ Attempted[<<j[1], j[2]>>] = "waiting"
          /\ j[2] = 1 \/ Attempted[<<j[1], j[2] - 1>>] = "handed on"
      BY <1>1, <2>1, <2>4, <2>7, AwaitedIsNext
    <3>4. OpenedCycles' = OpenedCycles
      BY <2>2, <2>3, OpenedStays
    <3>5. Recovery!Idle /\ cycle = j[1]
      BY <2>1, <2>7, NobodyRuns DEF Current
    <3>6. Recovery!Begin(j[1], j[2])
      BY <1>2, <3>2, <3>3, <3>4, <3>5 DEF Recovery!Begin, Recovery!IsNext
    <3> QED BY <1>1, <3>6 DEF Maps, Recovery!Next
  <2> QED BY <2>1, <2>5, <2>6, <2>7
<1> QED BY <1>3, <1>4

LEMMA ReturnMaps ==
    ASSUME Sound, NEW j \in Jobs, LeaveEnsure(j) \/ RaiseFromEnsure(j)
    PROVE  Maps
<1>1. j[1] \in Ops /\ j[2] \in Attempts /\ j = <<j[1], j[2]>> /\ Recovery!Attempts = Attempts
  BY JobParts DEF Attempts, Recovery!Attempts
<1>2. PICK s \in {"over", "handling"} :
         /\ op' = op /\ UNCHANGED <<cycle, exhausted>>
         /\ stage[j] = "ensuring" /\ stage' = [stage EXCEPT ![j] = s]
  BY DEF LeaveEnsure, RaiseFromEnsure, Goto
<1>3. Moves(j) /\ stage'[j] = s
  BY <1>2, OneMove DEF Sound
<1>4. OpenedCycles' = OpenedCycles
  BY <1>2, <1>3, OpenedStays
<1>5. CASE ~Recovering(j[1])
  <2>1. AttemptOf(j)' = AttemptOf(j)
    BY <1>3, <1>5, AttemptMoves DEF AttemptOf
  <2> QED BY <1>2, <1>3, <2>1, Unseen DEF Maps
<1>6. CASE Recovering(j[1])
  <2>1. Recovering(j[1])' /\ ~HandedOn(j)'
    BY <1>2, <1>3, <1>6, NoneAfter, AttemptMoves DEF Early
  <2>2. AttemptOf(j)' \in {"over", "returned"} /\ AttemptOf(j) = "running"
    BY <1>2, <1>3, <1>6, <2>1 DEF AttemptOf
  <2>3. /\ Attempted' = [Attempted EXCEPT ![<<j[1], j[2]>>] = AttemptOf(j)']
        /\ Attempted[<<j[1], j[2]>>] = "running"
    BY <1>1, <1>3, <2>2, AttemptMoves DEF Attempted
  <2>4. Recovery!Return(j[1], j[2])
    BY <1>2, <1>4, <2>2, <2>3 DEF Recovery!Return
  <2> QED BY <1>1, <2>4 DEF Maps, Recovery!Next
<1> QED BY <1>5, <1>6

LEMMA ConcludeMaps ==
    ASSUME Sound, NEW j \in Jobs, HandleSatisfied(j) \/ HandleUnsatisfied(j) \/ Exhaust(j)
    PROVE  Maps
<1>1. j[1] \in Ops /\ j[2] \in Attempts /\ j = <<j[1], j[2]>> /\ Recovery!Attempts = Attempts
  BY JobParts DEF Attempts, Recovery!Attempts
<1>2. PICK s \in {"over", "retrying", "reporting"} :
         /\ op' = op /\ exhausted' = exhausted
         /\ stage[j] \in {"handling", "retrying"} /\ stage' = [stage EXCEPT ![j] = s]
         /\ s = "retrying" => cycle' = cycle
         /\ s # "retrying" => cycle' = IF cycle = j[1] THEN None ELSE cycle
         /\ s = "reporting" => j[2] >= MaxAttempts
  <2>1. CASE HandleSatisfied(j)
    BY <2>1 DEF HandleSatisfied, EndCycle, Invalidate, Goto
  <2>2. CASE HandleUnsatisfied(j)
    <3>1. cycle = j[1] => Current(j[1])
      BY <1>1, SupervisorAssumption DEF Sound, CycleGated, Current
    <3> QED BY <2>2, <3>1 DEF HandleUnsatisfied, Goto
  <2>3. CASE Exhaust(j)
    BY <2>3 DEF Exhaust, EndCycle, Invalidate, Goto
  <2> QED BY <2>1, <2>2, <2>3
<1>3. Moves(j) /\ stage'[j] = s
  BY <1>2, OneMove DEF Sound
<1>4. OpenedCycles' = OpenedCycles
  BY <1>2, <1>3, OpenedStays
<1>5. Recovering(j[1]) /\ Recovering(j[1])' /\ ~HandedOn(j)'
  BY <1>2, <1>3, NoneAfter, AttemptMoves DEF Early, Sound, Origins
<1>6. AttemptOf(j) = "returned"
  BY <1>2, <1>5 DEF AttemptOf
<1>7. CASE s = "retrying"
  <2>1. AttemptOf(j)' = "returned"
    BY <1>3, <1>5, <1>7 DEF AttemptOf
  <2> QED BY <1>2, <1>3, <1>6, <1>7, <2>1, Unseen DEF Maps
<1>8. CASE s # "retrying"
  <2>1. AttemptOf(j)' = "over" \/ (AttemptOf(j)' = "spent" /\ j[2] = MaxAttempts)
    <3>1. s = "reporting" => j[2] = MaxAttempts
      BY <1>1, <1>2, SupervisorAssumption DEF Attempts
    <3> QED BY <1>2, <1>3, <1>5, <1>8, <3>1 DEF AttemptOf
  <2>2. /\ Attempted' = [Attempted EXCEPT ![<<j[1], j[2]>>] = AttemptOf(j)']
        /\ Attempted[<<j[1], j[2]>>] = "returned"
    BY <1>1, <1>3, <1>6, AttemptMoves DEF Attempted
  <2>3. Recovery!Conclude(j[1], j[2])
    BY <1>2, <1>4, <1>8, <2>1, <2>2 DEF Recovery!Conclude, Recovery!Over
  <2> QED BY <1>1, <2>3 DEF Maps, Recovery!Next
<1> QED BY <1>7, <1>8

LEMMA ReportMaps ==
    ASSUME Sound, NEW j \in Jobs, Report(j)
    PROVE  Maps
<1>1. j[1] \in Ops /\ j = <<j[1], MaxAttempts>> /\ j[2] = MaxAttempts
  BY JobParts DEF Report, Sound, Origins
<1>2. /\ stage[j] = "reporting" /\ stage' = [stage EXCEPT ![j] = "over"]
      /\ op' = op /\ cycle' = cycle /\ exhausted' = exhausted \cup {j[1]}
  BY DEF Report, Goto
<1>3. Moves(j) /\ stage'[j] = "over"
  BY <1>2, OneMove DEF Sound
<1>4. Recovering(j[1]) /\ Recovering(j[1])' /\ ~HandedOn(j)'
  BY <1>1, <1>2, <1>3, AttemptMoves, SupervisorAssumption DEF Sound, Origins, HandedOn
<1>5. AttemptOf(j) = "spent" /\ AttemptOf(j)' = "over"
  BY <1>2, <1>3, <1>4 DEF AttemptOf
<1>6. /\ Attempted' = [Attempted EXCEPT ![<<j[1], MaxAttempts>>] = "over"]
      /\ Attempted[<<j[1], MaxAttempts>>] = "spent"
  BY <1>1, <1>3, <1>5, AttemptMoves DEF Attempted
<1>7. OpenedCycles' = OpenedCycles
  BY <1>2, <1>3, OpenedStays
<1>8. Recovery!Report(j[1])
  BY <1>2, <1>6, <1>7 DEF Recovery!Report
<1> QED BY <1>1, <1>8 DEF Maps, Recovery!Next

LEMMA ScheduleMaps ==
    ASSUME Sound, NEW j \in Jobs, ScheduleRetry(j)
    PROVE  Maps
<1> DEFINE r == <<j[1], j[2] + 1>>
<1>1. /\ j[1] \in Ops /\ j[2] \in Attempts /\ j = <<j[1], j[2]>> /\ j[2] < MaxAttempts
      /\ Recovery!Attempts = Attempts
  BY JobParts DEF ScheduleRetry, Attempts, Recovery!Attempts
<1>2. r \in Jobs /\ r # j /\ r[1] = j[1] /\ r[2] = j[2] + 1 /\ r[2] > 1
  BY <1>1, RetryJob, SupervisorAssumption DEF Attempts
<1>3. /\ stage[j] = "retrying" /\ stage' = [stage EXCEPT ![j] = "storing", ![r] = "armed"]
      /\ UNCHANGED <<op, cycle, exhausted>>
  BY DEF ScheduleRetry
<1>4. stage[r] = "unused" /\ ~HandedOn(j)
  BY <1>1, <1>3, NoneAfter DEF HandedOn, Early
<1> HIDE DEF r
<1>5. /\ stage'[j] = "storing" /\ stage'[r] = "armed"
      /\ \A k \in Jobs \ {j, r} : stage'[k] = stage[k]
  BY <1>2, <1>3 DEF Sound, Typed, SupervisorTypeOK
<1>6. \A h \in Ops : Recovering(h)' <=> Recovering(h)
  BY <1>3 DEF Recovering
<1>7. ASSUME NEW k \in Jobs, k # j PROVE AttemptOf(k)' = AttemptOf(k)
  <2>0. k[1] \in Ops
    BY JobParts
  <2>1. CASE k = r
    BY <1>4, <1>5, <1>6, <2>0, <2>1 DEF AttemptOf
  <2>2. CASE k # r
    <3>1. HandedOn(k)' <=> HandedOn(k)
      <4>1. CASE k[2] < MaxAttempts
        <5>1. <<k[1], k[2] + 1>> \in Jobs /\ <<k[1], k[2] + 1>> # r
          BY <1>2, <1>7, <4>1, RetryJob, JobParts, SupervisorAssumption DEF Attempts, r
        <5>2. stage'[<<k[1], k[2] + 1>>] = "unused" <=> stage[<<k[1], k[2] + 1>>] = "unused"
          BY <1>3, <1>5, <5>1
        <5> QED BY <5>2 DEF HandedOn
      <4>2. CASE ~(k[2] < MaxAttempts)
        BY <4>2 DEF HandedOn
      <4> QED BY <4>1, <4>2
    <3>2. stage'[k] = stage[k]
      BY <1>5, <1>7, <2>2
    <3> QED BY <1>6, <2>0, <3>1, <3>2 DEF AttemptOf
  <2> QED BY <2>1, <2>2
<1>8. AttemptOf(j) = "returned" /\ AttemptOf(j)' = "handed on"
  <2>1. HandedOn(j)' /\ Recovering(j[1])
    BY <1>1, <1>3, <1>5 DEF HandedOn, r, Sound, Origins
  <2> QED BY <1>1, <1>3, <1>5, <1>6, <2>1 DEF AttemptOf
<1>9. /\ Attempted' = [Attempted EXCEPT ![<<j[1], j[2]>>] = "handed on"]
      /\ Attempted[<<j[1], j[2]>>] = "returned"
  BY <1>1, <1>7, <1>8 DEF Attempted
<1>10. OpenedCycles' = OpenedCycles
  <2> SUFFICES ASSUME NEW i \in Ops
               PROVE  stage'[<<i, 1>>] \in {"unused", "waiting"}
                      <=> stage[<<i, 1>>] \in {"unused", "waiting"}
    BY <1>3 DEF OpenedCycles
  <2>1. <<i, 1>> \in Jobs /\ <<i, 1>> # r
    BY <1>2, FirstJob
  <2> QED BY <1>3, <1>5, <2>1
<1>11. Recovery!HandOn(j[1], j[2])
  BY <1>1, <1>3, <1>9, <1>10 DEF Recovery!HandOn
<1> QED BY <1>1, <1>11 DEF Maps, Recovery!Next

LEMMA StoreMaps ==
    ASSUME Sound, NEW j \in Jobs, StoreToken(j)
    PROVE  Maps
<1> DEFINE r == <<j[1], j[2] + 1>>
<1>1. stage[j] = "storing" /\ UNCHANGED <<op, cycle, exhausted>>
  BY DEF StoreToken
<1>2. r \in Jobs /\ r # j /\ r[2] > 1
  BY <1>1, RetryJob, JobParts, SupervisorAssumption
     DEF Attempts, Sound, Typed, SupervisorTypeOK, StoringHasRetry
<1>3. CASE Current(j[1]) \/ stage[r] # "armed"
  <2>1. stage' = [stage EXCEPT ![j] = "over"]
    BY <1>2, <1>3 DEF StoreToken, Goto, Sound, Typed, SupervisorTypeOK
  <2>2. Moves(j) /\ stage'[j] = "over"
    BY <1>1, <2>1, OneMove DEF Sound
  <2>3. AttemptOf(j)' = AttemptOf(j)
    BY <1>1, <2>2, AttemptMoves DEF AttemptOf
  <2> QED BY <1>1, <2>2, <2>3, Unseen DEF Maps
<1>4. CASE ~Current(j[1]) /\ stage[r] = "armed"
  <2>1. stage' = [stage EXCEPT ![j] = "over", ![r] = "over"]
    BY <1>2, <1>4 DEF StoreToken, Sound, Typed, SupervisorTypeOK
  <2> HIDE DEF r
  <2>2. Moves(r) /\ stage'[r] = "over"
    BY <1>1, <1>2, <1>4, <2>1 DEF Moves, Sound, Typed, SupervisorTypeOK
  <2> QED BY <1>1, <1>2, <1>4, <2>2, Withdrawn DEF Maps
<1> QED BY <1>3, <1>4

LEMMA QuietMaps ==
    ASSUME UNCHANGED <<op, stage, exhausted>>, cycle' \in {cycle, None}
    PROVE  Maps
<1>1. UNCHANGED <<Attempted, OpenedCycles>>
  BY NoAttemptMoves
<1> QED BY <1>1 DEF Maps, Recovery!Next, Recovery!GiveUp, Recovery!cvars

LEMMA EveryStepMaps ==
    ASSUME Sound, [Next]_vars
    PROVE  Maps
<1>1. ASSUME NEW j \in Jobs, Progress(j) PROVE Maps
  <2>1. ASSUME RunEnsure(j) \/ Join(j) PROVE Maps
    BY <2>1, QuietMaps DEF RunEnsure, Join, supervisorVars
  <2> QED BY <1>1, <2>1, AttemptMaps, ReturnMaps, ConcludeMaps, ReportMaps, ScheduleMaps, StoreMaps
          DEF Progress
<1>2. ASSUME CloseReturns \/ Close \/ DisableRecovery \/ UNCHANGED supervisorVars \/ UNCHANGED vars
      PROVE  Maps
  BY <1>2, QuietMaps DEF CloseReturns, Close, DisableRecovery, Invalidate, supervisorVars, vars
<1>3. CASE System
  BY <1>1, <1>2, <1>3, EnterCallMaps DEF System
<1>4. CASE Environment
  BY <1>2, <1>4, CallMaps, KickMaps, ReturnMaps DEF Environment
<1> QED BY <1>2, <1>3, <1>4 DEF Next

(* Whatever calls, retries and failures interleave, each step of the          *)
(* supervisor is a step of RecoveryCycle, or one it does not see: attempts of *)
(* a cycle are made in order, one at a time, only while it is live, and its   *)
(* exhaustion is reported only after the last (server.py 154-350).            *)
THEOREM ImplementsRecoveryCycle == Spec => RunsRecoveryCycles
<1>1. Init => Recovery!Init
  <2> SUFFICES ASSUME Init PROVE Recovery!Init
    OBVIOUS
  <2>1. ASSUME NEW j \in Jobs PROVE AttemptOf(j) = "waiting"
    BY <2>1, JobParts DEF Init, AttemptOf, Recovering
  <2>2. Attempted = [j \in Ops \X Recovery!Attempts |-> "waiting"]
    BY <2>1, SupervisorAssumption DEF Attempted, Attempts, Recovery!Attempts
  <2>3. OpenedCycles = {}
    BY DEF Init, OpenedCycles
  <2> QED BY <2>2, <2>3 DEF Init, Recovery!Init
<1>2. Sound /\ [Next]_vars => [Recovery!Next]_(Recovery!cvars)
  BY EveryStepMaps DEF Maps
<1>3. Spec => []Sound
  BY AlwaysTyped, AlwaysSequenced, AlwaysMutexGuards, RecoveryIsGated, AlwaysCycleAsked,
     AlwaysOrigins, PTL DEF Sound
<1> QED BY <1>1, <1>2, <1>3, PTL DEF Spec, RunsRecoveryCycles, Recovery!Spec
==============================================================================
