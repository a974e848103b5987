--------------------- MODULE ObservationSupervisor_proofs ---------------------
(* What ObservationSupervisor guarantees for every number of sessions,        *)
(* attempts and stoppers.                                                     *)
EXTENDS ObservationSupervisor, TLAPS

LEMMA ObsJobParts ==
    ASSUME NEW j \in Jobs
    PROVE  j[1] \in Cycles /\ j[2] \in Attempts /\ j = <<j[1], j[2]>>
BY ObservationAssumption DEF Jobs

LEMMA ObsJobOf ==
    ASSUME NEW c \in Cycles, NEW n \in Attempts
    PROVE  <<c, n>> \in Jobs
BY DEF Jobs

LEMMA ObsFirstJob ==
    /\ <<0, 1>> \in Jobs
    /\ \A g \in Sessions : g \in Cycles /\ <<g, 1>> \in Jobs
BY ObservationAssumption, ObserverAssumption DEF Jobs, Cycles, Sessions, Attempts

LEMMA ObsRetryJob ==
    ASSUME NEW j \in Jobs, j[2] < MaxAttempts
    PROVE  <<j[1], j[2] + 1>> \in Jobs
BY ObservationAssumption DEF Jobs, Attempts

------------------------------------------------------------------------------
(* How a step of the whole touches the observer.                              *)
Received ==
    /\ bus # <<>> /\ bus' = Tail(bus)
    /\ UNCHANGED <<generation, active, obsClosed, sess, srcClosed, cut, terminal, stop, target>>

Attends ==
    \/ StartSession
    \/ \E g \in Sessions : SessionStep(g) \/ StreamFails(g) \/ PublishRaises(g)
    \/ \E p \in Stoppers \ {Closer} : CallStop(p)
    \/ \E p \in Stoppers : StopStep(p)
    \/ closer = "observer" /\ CallClose(Closer)
    \/ Received

LEMMA ObserverAttended ==
    ASSUME [Next]_vars
    PROVE  Attends \/ UNCHANGED observerVars
<1>1. ASSUME NEW j \in Jobs, StartObservation(j) PROVE Attends \/ UNCHANGED observerVars
  BY <1>1 DEF StartObservation, Attends
<1>2. ASSUME NEW j \in Jobs, Progress(j), ~StartObservation(j) PROVE UNCHANGED observerVars
  BY <1>2 DEF Progress, TakeEvidence, TimeOut, Complete, StepDown, GiveUp, Exhaust,
     ScheduleRetry, StoreToken, CancelToken, Fire, OnRetryDue, Launch, StartThread
<1>3. ASSUME Deliver PROVE Attends
  BY <1>3 DEF Deliver, Attends, Received
<1>4. ASSUME CloseObserver PROVE Attends
  BY <1>4 DEF CloseObserver, Attends
<1>5. ASSUME Start \/ Close \/ Join PROVE UNCHANGED observerVars
  BY <1>5 DEF Start, Close, Join
<1>6. CASE System
  BY <1>1, <1>2, <1>3, <1>4, <1>5, <1>6 DEF System, Attends
<1>7. CASE Environment
  BY <1>5, <1>7 DEF Environment, Attends
<1> QED BY <1>6, <1>7 DEF Next, vars

------------------------------------------------------------------------------
(* The observer keeps its types, and the thread that is about to publish a    *)
(* terminal event has one.                                                    *)
HasTerminal == \A g \in Sessions : sess[g] = "publishing" => terminal[g] # "none"

ObserverTyped == ObserverTypeOK /\ HasTerminal

LEMMA ObserverTypeStep ==
    ASSUME ObserverTyped, [Next]_vars
    PROVE  ObserverTyped'
<1> USE ObserverAssumption
    DEF ObserverTyped, ObserverTypeOK, HasTerminal, SessionStages, StopStages, Outcomes, Failures
<1>1. CASE UNCHANGED observerVars
  BY <1>1 DEF observerVars
<1>2. CASE StartSession
  <2>1. generation + 1 \in 0..MaxSessions
    BY <1>2 DEF StartSession
  <2>2. /\ generation' = generation + 1 /\ active' = generation + 1
        /\ sess' = [sess EXCEPT ![generation + 1] = "resolving"]
        /\ UNCHANGED <<obsClosed, srcClosed, cut, terminal, stop, target, bus>>
    BY <1>2 DEF StartSession
  <2> QED BY <2>1, <2>2
<1>3. ASSUME NEW g \in Sessions,
             Register(g) \/ Connected(g) \/ OpenFails(g) \/ OpenAbandoned(g) \/ StreamCut(g)
             \/ StreamFails(g) \/ PublishRaises(g)
      PROVE  ObserverTyped'
  BY <1>3, ZenonT(30) DEF Register, Connected, Advance, OpenFails, OpenAbandoned, StreamCut, StreamFails,
     PublishRaises, EndWith
<1>4. ASSUME NEW g \in Sessions, PublishStarted(g) PROVE ObserverTyped'
  <2>1. <<"started", g>> \in Evidence \X Sessions
    BY DEF Evidence
  <2>2. bus' \in Seq(Evidence \X Sessions)
    BY <1>4, <2>1 DEF PublishStarted
  <2> QED BY <1>4, <2>2 DEF PublishStarted
<1>5. ASSUME NEW g \in Sessions, MarkInactive(g) PROVE ObserverTyped'
  BY <1>5 DEF MarkInactive
<1>6. ASSUME NEW g \in Sessions, PublishTerminal(g) PROVE ObserverTyped'
  <2>1. <<terminal[g], g>> \in Evidence \X Sessions
    BY <1>6 DEF Evidence, PublishTerminal
  <2>2. bus' \in Seq(Evidence \X Sessions)
    BY <1>6, <2>1 DEF PublishTerminal
  <2> QED BY <1>6, <2>2 DEF PublishTerminal
<1>7. ASSUME NEW p \in Stoppers, CallStop(p) \/ StopStep(p) PROVE ObserverTyped'
  BY <1>7, ZenonT(30) DEF CallStop, StopStep, StopRead, SourceClose, CutSocket, Joined
<1>8. ASSUME CallClose(Closer) PROVE ObserverTyped'
  BY <1>8 DEF CallClose
<1>9. CASE Received
  BY <1>9 DEF Received
<1> HIDE DEF ObserverTyped
<1> QED
  BY ObserverAttended, <1>1, <1>2, <1>3, <1>4, <1>5, <1>6, <1>7, <1>8, <1>9
     DEF Attends, SessionStep

(* Only an attempt with a successor left in the budget stores a token.        *)
StoringHasRetry == \A j \in Jobs : stage[j] = "storing" => j[2] < MaxAttempts

SupervisorTyped ==
    /\ current \in 0..MaxSessions
    /\ cycle \in Cycles \cup {None}
    /\ token \in Jobs \cup {None} /\ thread \in Jobs \cup {None} /\ joinee \in Jobs \cup {None}
    /\ subscribed \in BOOLEAN /\ closed \in BOOLEAN
    /\ stage \in [Jobs -> Stages]
    /\ got \in [Jobs -> 0..MaxSessions]
    /\ evidence \in [Jobs -> Evidence \cup {"none"}]
    /\ verdict \in [Jobs -> Verdicts]
    /\ doomed \subseteq Jobs
    /\ closer \in CloserStages
    /\ late \in 0..MaxSessions
    /\ overtaken \in BOOLEAN
    /\ StoringHasRetry

Typed == ObserverTyped /\ SupervisorTyped

LEMMA TypedInit == Init => Typed
<1> SUFFICES ASSUME Init PROVE Typed
  OBVIOUS
<1> USE ObserverAssumption, ObservationAssumption
<1>1. ObserverTyped
  <2>1. obsClosed \in BOOLEAN /\ sess \in [Sessions -> SessionStages] /\ bus = << >>
    BY DEF Init, ObserverInit, SessionStages
  <2>2. srcClosed \in [Sessions -> BOOLEAN] /\ cut \in [Sessions -> BOOLEAN]
    BY DEF Init, ObserverInit
  <2>3. terminal \in [Sessions -> Outcomes \cup {"none"}] /\ stop \in [Stoppers -> StopStages]
        /\ target \in [Stoppers -> 0..MaxSessions]
    BY DEF Init, ObserverInit, StopStages
  <2>4. HasTerminal
    BY DEF Init, ObserverInit, HasTerminal
  <2> QED BY <2>1, <2>2, <2>3, <2>4 DEF Init, ObserverInit, ObserverTyped, ObserverTypeOK
<1>2. subscribed \in BOOLEAN /\ closed \in BOOLEAN /\ overtaken \in BOOLEAN
  BY Zenon DEF Init
<1>3. /\ stage \in [Jobs -> Stages] /\ got \in [Jobs -> 0..MaxSessions]
      /\ evidence \in [Jobs -> Evidence \cup {"none"}] /\ verdict \in [Jobs -> Verdicts]
  BY DEF Init, Stages, Verdicts
<1>4. StoringHasRetry
  BY DEF Init, StoringHasRetry
<1> QED BY <1>1, <1>2, <1>3, <1>4 DEF Init, Typed, SupervisorTyped, CloserStages

LEMMA TypedStep == Typed /\ [Next]_vars => Typed'
<1> SUFFICES ASSUME Typed, [Next]_vars PROVE SupervisorTyped'
  BY ObserverTypeStep DEF Typed
<1> USE ObserverAssumption, ObservationAssumption
    DEF SupervisorTyped, StoringHasRetry, Stages, Verdicts, Goto, Forget, Consume, ReleaseThread
<1>1. CASE UNCHANGED vars
  BY <1>1 DEF Typed, vars, localVars, historyVars
<1>2. ASSUME UNCHANGED Untouched PROVE SupervisorTyped'
  BY <1>2 DEF Typed, Untouched, localVars, historyVars
<1>3. ASSUME Start PROVE SupervisorTyped'
  BY <1>3, ObsFirstJob DEF Typed, Start, historyVars, Cycles
<1>4. ASSUME NEW j \in Jobs, StartObservation(j) PROVE SupervisorTyped'
  <2>1. ASSUME StartSession PROVE generation' \in 0..MaxSessions
    BY <2>1, ObserverTypeStep DEF Typed, ObserverTyped, ObserverTypeOK
  <2> QED BY <1>4, <2>1 DEF Typed, StartObservation, historyVars
<1>5. ASSUME NEW j \in Jobs, TakeEvidence(j) PROVE SupervisorTyped'
  BY <1>5 DEF Typed, TakeEvidence, historyVars
<1>6. ASSUME NEW j \in Jobs, TimeOut(j) PROVE SupervisorTyped'
  BY <1>6 DEF Typed, TimeOut
<1>7. ASSUME NEW j \in Jobs, Complete(j) PROVE SupervisorTyped'
  BY <1>7 DEF Typed, Complete, historyVars
<1>8. ASSUME NEW j \in Jobs, StepDown(j) PROVE SupervisorTyped'
  BY <1>8 DEF Typed, StepDown, historyVars
<1>9. ASSUME NEW j \in Jobs, GiveUp(j) \/ Exhaust(j) PROVE SupervisorTyped'
  BY <1>9 DEF Typed, GiveUp, Exhaust, EndCycle, historyVars
<1>10. ASSUME NEW j \in Jobs, ScheduleRetry(j) PROVE SupervisorTyped'
  BY <1>10, ObsRetryJob DEF Typed, ScheduleRetry, historyVars
<1>11. ASSUME NEW j \in Jobs, StoreToken(j) PROVE SupervisorTyped'
  <2>1. <<j[1], j[2] + 1>> \in Jobs
    BY <1>11, ObsRetryJob DEF Typed, StoreToken
  <2>2. CASE Live(j[1])
    BY <1>11, <2>1, <2>2 DEF Typed, StoreToken
  <2>3. CASE ~Live(j[1])
    BY <1>11, <2>1, <2>3 DEF Typed, StoreToken
  <2> QED BY <2>2, <2>3
<1>12. ASSUME NEW t \in Jobs, CancelToken(t) \/ Fire(t) \/ OnRetryDue(t) PROVE SupervisorTyped'
  BY <1>12 DEF Typed, CancelToken, Fire, OnRetryDue, historyVars
<1>13. ASSUME NEW j \in Jobs, Launch(j) \/ StartThread(j) PROVE SupervisorTyped'
  BY <1>13 DEF Typed, Launch, StartThread, historyVars
<1>14. ASSUME Deliver PROVE SupervisorTyped'
  <2>1. Head(bus)[1] \in Evidence /\ Head(bus)[2] \in Sessions
    BY <1>14 DEF Deliver, Typed, ObserverTyped, ObserverTypeOK
  <2>2. evidence' \in [Jobs -> Evidence \cup {"none"}]
    BY <1>14, <2>1 DEF Deliver, Typed
  <2>3. \/ UNCHANGED <<cycle, stage>>
        \/ /\ cycle' = Head(bus)[2]
           /\ stage' = [stage EXCEPT ![<<Head(bus)[2], 1>>] = "launching"]
    BY <1>14 DEF Deliver, OnObservationFailed
  <2>4. UNCHANGED <<current, token, thread, subscribed, closed, got, verdict, doomed, closer,
                    joinee, late, overtaken>>
    BY <1>14 DEF Deliver
  <2> QED BY <2>1, <2>2, <2>3, <2>4, ObsFirstJob DEF Typed
<1>15. ASSUME Close \/ CloseObserver \/ Join PROVE SupervisorTyped'
  BY <1>15 DEF Typed, Close, CloseObserver, Join, CloserStages, localVars, historyVars
<1> HIDE DEF SupervisorTyped
<1> QED
  BY <1>1, <1>2, <1>3, <1>4, <1>5, <1>6, <1>7, <1>8, <1>9, <1>10, <1>11, <1>12, <1>13, <1>14, <1>15
     DEF Next, System, Environment, Progress

LEMMA AlwaysTyped == Spec => []Typed
BY TypedInit, TypedStep, PTL DEF Spec

(* Every variable of the supervisor, its episodes and its observer keeps its  *)
(* type in every reachable state.                                             *)
THEOREM ObservationTypeCorrect == Spec => []TypeOK
<1>1. Typed => TypeOK
  BY DEF Typed, ObserverTyped, SupervisorTyped, TypeOK
<1> QED BY AlwaysTyped, <1>1, PTL

------------------------------------------------------------------------------
(* Generations are handed out one by one, and only the newest has a thread    *)
(* that still owns a source.                                                  *)
Unstarted == \A g \in Sessions : g > generation => sess[g] = "unused"

SessionFacts == OneSession /\ Unstarted

LEMMA SessionInit == Init => SessionFacts
BY ObserverAssumption DEF Init, ObserverInit, SessionFacts, OneSession, Unstarted, Running, Sessions

LEMMA SessionStepKeeps == Typed /\ SessionFacts /\ [Next]_vars => SessionFacts'
<1> SUFFICES ASSUME Typed, SessionFacts, [Next]_vars PROVE SessionFacts'
  OBVIOUS
<1> USE ObserverAssumption DEF SessionFacts, OneSession, Unstarted, Running, Sessions
<1>0. /\ generation \in 0..MaxSessions /\ active \in 0..MaxSessions
      /\ sess \in [Sessions -> SessionStages]
  BY DEF Typed, ObserverTyped, ObserverTypeOK
<1>1. ASSUME UNCHANGED <<generation, active, sess>> PROVE SessionFacts'
  BY <1>1
<1>2. CASE StartSession
  <2>1. /\ generation + 1 \in 1..MaxSessions /\ active = 0
        /\ generation' = generation + 1 /\ active' = generation + 1
        /\ sess' = [sess EXCEPT ![generation + 1] = "resolving"]
    BY <1>0, <1>2 DEF StartSession, StartAccepted
  <2> QED BY <1>0, <2>1
<1>3. ASSUME NEW g \in Sessions,
             Register(g) \/ Connected(g) \/ OpenFails(g) \/ OpenAbandoned(g) \/ PublishStarted(g)
             \/ StreamCut(g) \/ StreamFails(g) \/ PublishRaises(g)
      PROVE  SessionFacts'
  <2>1. /\ UNCHANGED <<generation, active>>
        /\ sess[g] \in {"resolving", "connecting", "opened", "streaming"}
        /\ \E s \in {"connecting", "opened", "streaming", "ending"} :
              sess' = [sess EXCEPT ![g] = s]
    BY <1>3 DEF Register, Connected, Advance, OpenFails, OpenAbandoned, PublishStarted,
       StreamCut, StreamFails, PublishRaises, EndWith
  <2> QED BY <1>0, <2>1
<1>4. ASSUME NEW g \in Sessions, MarkInactive(g) PROVE SessionFacts'
  <2>1. /\ UNCHANGED generation /\ sess[g] = "ending" /\ active = g /\ active' = 0
        /\ \E s \in {"ended", "publishing"} : sess' = [sess EXCEPT ![g] = s]
    BY <1>4 DEF MarkInactive
  <2> QED BY <1>0, <2>1
<1>5. ASSUME NEW g \in Sessions, PublishTerminal(g) PROVE SessionFacts'
  BY <1>0, <1>5 DEF PublishTerminal
<1>6. ASSUME \/ \E p \in Stoppers : CallStop(p) \/ StopStep(p)
             \/ CallClose(Closer) \/ Received \/ UNCHANGED observerVars
      PROVE  UNCHANGED <<generation, active, sess>>
  BY <1>6 DEF CallStop, StopStep, StopRead, SourceClose, CutSocket, Joined, CallClose, Received,
     observerVars
<1> HIDE DEF SessionFacts
<1> QED BY ObserverAttended, <1>1, <1>2, <1>3, <1>4, <1>5, <1>6 DEF Attends, SessionStep

LEMMA AlwaysSessionFacts == Spec => []SessionFacts
BY SessionInit, SessionStepKeeps, AlwaysTyped, PTL DEF Spec

(* Whatever start(), stop(), close() and dying session threads do, at most    *)
(* one session is under way, it is the active one, and it is the newest.      *)
THEOREM OneSessionAtATime == Spec => []OneSession
<1>1. SessionFacts => OneSession
  BY DEF SessionFacts
<1> QED BY AlwaysSessionFacts, <1>1, PTL

LEMMA EndedForGood ==
    ASSUME Typed, SessionFacts, [Next]_vars, NEW g \in Sessions, sess[g] = "ended"
    PROVE  sess'[g] = "ended"
<1> USE ObserverAssumption DEF Sessions
<1>0. generation \in 0..MaxSessions /\ sess \in [Sessions -> SessionStages]
  BY DEF Typed, ObserverTyped, ObserverTypeOK
<1>1. CASE StartSession
  <2>1. generation + 1 \in Sessions /\ sess[generation + 1] = "unused"
    BY <1>0, <1>1 DEF StartSession, SessionFacts, Unstarted
  <2> QED BY <1>0, <1>1, <2>1 DEF StartSession
<1>2. ASSUME NEW h \in Sessions, SessionStep(h) \/ StreamFails(h) \/ PublishRaises(h)
      PROVE  sess'[g] = "ended"
  <2>1. sess[h] # "ended" /\ \E s \in SessionStages : sess' = [sess EXCEPT ![h] = s]
    BY <1>2 DEF SessionStep, Register, Connected, Advance, OpenFails, OpenAbandoned,
       PublishStarted, StreamCut, MarkInactive, PublishTerminal, StreamFails, PublishRaises,
       EndWith, SessionStages
  <2> QED BY <1>0, <2>1
<1>3. ASSUME \/ \E p \in Stoppers : CallStop(p) \/ StopStep(p)
             \/ CallClose(Closer) \/ Received \/ UNCHANGED observerVars
      PROVE  UNCHANGED sess
  BY <1>3 DEF CallStop, StopStep, StopRead, SourceClose, CutSocket, Joined, CallClose, Received,
     observerVars
<1> QED BY ObserverAttended, <1>1, <1>2, <1>3 DEF Attends

------------------------------------------------------------------------------
(* A live cycle exists only in an open, started supervisor, and a stored      *)
(* token belongs to it.                                                       *)
LEMMA GateInit == Init => CycleGated
BY DEF Init, CycleGated

LEMMA NoTokenAtRest ==
    ASSUME Typed, CycleGated, cycle = None
    PROVE  token = None
<1> SUFFICES ASSUME token # None PROVE FALSE
  OBVIOUS
<1>1. token[1] \in Cycles /\ cycle = token[1]
  BY ObsJobParts DEF Typed, SupervisorTyped, CycleGated
<1> QED BY <1>1, ObservationAssumption

LEMMA GateStep == Typed /\ CycleGated /\ [Next]_vars => CycleGated'
<1> SUFFICES ASSUME Typed, CycleGated, [Next]_vars PROVE CycleGated'
  OBVIOUS
<1> USE ObserverAssumption, ObservationAssumption
<1>1. ASSUME UNCHANGED <<cycle, token, subscribed, closed>> PROVE CycleGated'
  BY <1>1 DEF CycleGated
<1>2. ASSUME Start PROVE CycleGated'
  BY <1>2, NoTokenAtRest DEF Start, CycleGated
<1>3. ASSUME NEW j \in Jobs, Complete(j) PROVE CycleGated'
  BY <1>3 DEF Complete, Forget, CycleGated
<1>4. ASSUME NEW j \in Jobs, GiveUp(j) \/ Exhaust(j) PROVE CycleGated'
  BY <1>4 DEF GiveUp, Exhaust, EndCycle, Forget, CycleGated
<1>5. ASSUME NEW j \in Jobs, StoreToken(j) PROVE CycleGated'
  BY <1>5, ObsJobParts DEF StoreToken, Live, CycleGated
<1>6. ASSUME NEW t \in Jobs, OnRetryDue(t) PROVE CycleGated'
  BY <1>6 DEF OnRetryDue, CycleGated
<1>7. ASSUME Deliver PROVE CycleGated'
  BY <1>7, NoTokenAtRest DEF Deliver, OnObservationFailed, CycleGated
<1>8. ASSUME Close PROVE CycleGated'
  BY <1>8 DEF Close, Forget, CycleGated
<1>9. ASSUME NEW j \in Jobs,
             StartObservation(j) \/ TakeEvidence(j) \/ TimeOut(j) \/ StepDown(j)
             \/ ScheduleRetry(j) \/ CancelToken(j) \/ Fire(j) \/ Launch(j) \/ StartThread(j)
      PROVE  UNCHANGED <<cycle, token, subscribed, closed>>
  BY <1>9 DEF StartObservation, TakeEvidence, TimeOut, StepDown, ScheduleRetry, CancelToken,
     Fire, Launch, StartThread
<1>10. ASSUME UNCHANGED Untouched \/ CloseObserver \/ Join \/ UNCHANGED vars
       PROVE  UNCHANGED <<cycle, token, subscribed, closed>>
  BY <1>10 DEF Untouched, CloseObserver, Join, vars
<1> QED
  BY <1>1, <1>2, <1>3, <1>4, <1>5, <1>6, <1>7, <1>8, <1>9, <1>10
     DEF Next, System, Environment, Progress

LEMMA AlwaysCycleGated == Spec => []CycleGated
BY GateInit, GateStep, AlwaysTyped, PTL DEF Spec

(* No cycle is live before start() or after close(), and no retry token       *)
(* outlives its cycle.                                                        *)
THEOREM EstablishmentIsGated == Spec => []CycleGated
BY AlwaysCycleGated

------------------------------------------------------------------------------
(* The stages a job goes through, and the only ways it enters one.            *)
Forward == {<<"armed", "due">>, <<"armed", "over">>, <<"due", "launching">>, <<"due", "over">>,
            <<"launching", "registered">>, <<"launching", "over">>,
            <<"registered", "entering">>, <<"entering", "waiting">>, <<"entering", "handling">>,
            <<"waiting", "handling">>, <<"handling", "over">>, <<"handling", "ending">>,
            <<"handling", "retrying">>, <<"ending", "over">>, <<"retrying", "over">>,
            <<"retrying", "storing">>, <<"storing", "over">>}

(* A job before the end of its attempt.                                       *)
Early == Stages \ {"storing", "over"}

Begun(k) == k = <<0, 1>> /\ Start /\ stage'[k] = "entering"

Reopened(k) ==
    /\ k[2] = 1 /\ Deliver /\ bus # <<>> /\ Head(bus) = <<"server_connection", k[1]>>
    /\ stage'[k] = "launching"

Retried(k) == \E j \in Jobs : /\ k = <<j[1], j[2] + 1>>
                              /\ stage[j] = "retrying" /\ stage'[j] = "storing"
                              /\ stage'[k] = "armed"

Moved(k) == /\ <<stage[k], stage'[k]>> \in Forward
            /\ stage'[k] = "storing" => stage'[<<k[1], k[2] + 1>>] = "armed"

LEMMA StageMoves ==
    ASSUME Typed, [Next]_vars, NEW k \in Jobs
    PROVE  stage'[k] = stage[k] \/ Begun(k) \/ Reopened(k) \/ Retried(k) \/ Moved(k)
<1> DEFINE P == stage'[k] = stage[k] \/ Begun(k) \/ Reopened(k) \/ Retried(k) \/ Moved(k)
<1> USE DEF Goto, Forward, Moved
<1>0. stage \in [Jobs -> Stages]
  BY DEF Typed, SupervisorTyped
<1>1. ASSUME Start PROVE P
  BY <1>0, <1>1, ObsFirstJob DEF Start, Begun
<1>2. ASSUME NEW j \in Jobs, StartObservation(j) \/ TakeEvidence(j) \/ TimeOut(j) PROVE P
  BY <1>0, <1>2 DEF StartObservation, TakeEvidence, TimeOut
<1>3. ASSUME NEW j \in Jobs, Complete(j) \/ StepDown(j) PROVE P
  BY <1>0, <1>3 DEF Complete, StepDown
<1>4. ASSUME NEW j \in Jobs, GiveUp(j) \/ Exhaust(j) PROVE P
  BY <1>0, <1>4 DEF GiveUp, Exhaust
<1>5. ASSUME NEW j \in Jobs, ScheduleRetry(j) PROVE P
  <2>1. <<j[1], j[2] + 1>> \in Jobs /\ <<j[1], j[2] + 1>> # j
    BY <1>5, ObsRetryJob, ObsJobParts, ObservationAssumption DEF ScheduleRetry, Attempts
  <2>2. /\ stage[j] = "retrying" /\ stage'[j] = "storing"
        /\ stage'[<<j[1], j[2] + 1>>] = "armed"
        /\ k \notin {j, <<j[1], j[2] + 1>>} => stage'[k] = stage[k]
    BY <1>0, <1>5, <2>1 DEF ScheduleRetry
  <2>3. CASE k = j
    BY <2>2, <2>3
  <2>4. CASE k = <<j[1], j[2] + 1>>
    BY <2>2, <2>4 DEF Retried
  <2> QED BY <2>2, <2>3, <2>4
<1>6. ASSUME NEW j \in Jobs, StoreToken(j) PROVE P
  <2>1. <<j[1], j[2] + 1>> \in Jobs /\ <<j[1], j[2] + 1>> # j
    BY <1>6, ObsRetryJob, ObsJobParts, ObservationAssumption
       DEF StoreToken, Attempts, Typed, SupervisorTyped, StoringHasRetry
  <2>2. CASE Live(j[1])
    BY <1>0, <1>6, <2>1, <2>2 DEF StoreToken
  <2>3. CASE ~Live(j[1])
    BY <1>0, <1>6, <2>1, <2>3 DEF StoreToken
  <2> QED BY <2>2, <2>3
<1>7. ASSUME NEW j \in Jobs, CancelToken(j) \/ Fire(j) \/ OnRetryDue(j) PROVE P
  BY <1>0, <1>7 DEF CancelToken, Fire, OnRetryDue
<1>8. ASSUME NEW j \in Jobs, Launch(j) \/ StartThread(j) PROVE P
  BY <1>0, <1>8 DEF Launch, StartThread
<1>9. ASSUME Deliver PROVE P
  <2>1. /\ bus # <<>> /\ Head(bus) \in Evidence \X Sessions
    BY <1>9 DEF Deliver, Typed, ObserverTyped, ObserverTypeOK
  <2>2. CASE UNCHANGED stage
    BY <2>2
  <2>3. CASE /\ Head(bus)[1] = "server_connection"
             /\ stage' = [stage EXCEPT ![<<Head(bus)[2], 1>>] = "launching"]
    BY <1>0, <1>9, <2>1, <2>3 DEF Reopened
  <2> QED BY <1>9, <2>2, <2>3 DEF Deliver, OnObservationFailed
<1>10. ASSUME UNCHANGED stage PROVE P
  BY <1>10
<1>11. ASSUME UNCHANGED Untouched \/ Close \/ CloseObserver \/ Join \/ UNCHANGED vars
       PROVE  UNCHANGED stage
  BY <1>11 DEF Untouched, Close, CloseObserver, Join, vars, localVars
<1> HIDE DEF P
<1>12. P
  BY <1>1, <1>2, <1>3, <1>4, <1>5, <1>6, <1>7, <1>8, <1>9, <1>10, <1>11
     DEF Next, System, Environment, Progress
<1> QED BY <1>12 DEF P

------------------------------------------------------------------------------
(* A session announces its end once, so a cycle is opened for it once, and    *)
(* only after its thread has ended.                                           *)
TerminalOnce ==
    /\ \A i \in 1..Len(bus) : bus[i][1] # "started" => sess[bus[i][2]] = "ended"
    /\ \A i, k \in 1..Len(bus) :
          bus[i][1] # "started" /\ bus[k][1] # "started" /\ bus[i][2] = bus[k][2] => i = k

LEMMA BusMoves ==
    ASSUME Typed, [Next]_vars
    PROVE  \/ bus' = bus
           \/ \E g \in Sessions : bus' = Append(bus, <<"started", g>>)
           \/ \E g \in Sessions, kind \in Outcomes :
                 /\ sess[g] = "publishing" /\ sess'[g] = "ended"
                 /\ bus' = Append(bus, <<kind, g>>)
           \/ bus # <<>> /\ bus' = Tail(bus) /\ UNCHANGED sess
<1>1. ASSUME NEW g \in Sessions, PublishTerminal(g)
      PROVE  /\ sess[g] = "publishing" /\ sess'[g] = "ended" /\ terminal[g] \in Outcomes
             /\ bus' = Append(bus, <<terminal[g], g>>)
  BY <1>1 DEF PublishTerminal, Typed, ObserverTyped, ObserverTypeOK, HasTerminal
<1>2. ASSUME NEW g \in Sessions,
             Register(g) \/ Connected(g) \/ OpenFails(g) \/ OpenAbandoned(g) \/ MarkInactive(g)
             \/ StreamCut(g) \/ StreamFails(g) \/ PublishRaises(g)
      PROVE  bus' = bus
  BY <1>2 DEF Register, Connected, Advance, OpenFails, OpenAbandoned, MarkInactive, StreamCut,
     StreamFails, PublishRaises, EndWith
<1>3. ASSUME \/ \E p \in Stoppers : CallStop(p) \/ StopStep(p)
             \/ CallClose(Closer) \/ StartSession \/ UNCHANGED observerVars
      PROVE  bus' = bus
  BY <1>3 DEF CallStop, StopStep, StopRead, SourceClose, CutSocket, Joined, CallClose,
     StartSession, observerVars
<1> QED BY ObserverAttended, <1>1, <1>2, <1>3 DEF Attends, SessionStep, PublishStarted, Received

LEMMA TerminalInit == Init => TerminalOnce
BY DEF Init, ObserverInit, TerminalOnce

LEMMA TerminalStep == Typed /\ SessionFacts /\ TerminalOnce /\ [Next]_vars => TerminalOnce'
<1> SUFFICES ASSUME Typed, SessionFacts, TerminalOnce, [Next]_vars PROVE TerminalOnce'
  OBVIOUS
<1>0. /\ bus \in Seq(Evidence \X Sessions)
      /\ \A i \in 1..Len(bus) : bus[i][2] \in Sessions
  BY DEF Typed, ObserverTyped, ObserverTypeOK
<1>1. \A g \in Sessions : sess[g] = "ended" => sess'[g] = "ended"
  BY EndedForGood
<1>2. CASE bus' = bus
  BY <1>0, <1>1, <1>2 DEF TerminalOnce
<1>3. ASSUME NEW g \in Sessions, bus' = Append(bus, <<"started", g>>) PROVE TerminalOnce'
  <2>1. /\ Len(bus') = Len(bus) + 1 /\ Len(bus) \in Nat
        /\ \A i \in 1..Len(bus) : bus'[i] = bus[i]
        /\ bus'[Len(bus) + 1] = <<"started", g>>
    BY <1>0, <1>3
  <2> QED BY <1>0, <1>1, <2>1, SMTT(30) DEF TerminalOnce
<1>4. ASSUME NEW g \in Sessions, NEW kind \in Outcomes,
             sess[g] = "publishing", sess'[g] = "ended", bus' = Append(bus, <<kind, g>>)
      PROVE  TerminalOnce'
  <2>1. /\ Len(bus') = Len(bus) + 1 /\ Len(bus) \in Nat
        /\ \A i \in 1..Len(bus) : bus'[i] = bus[i]
        /\ bus'[Len(bus) + 1] = <<kind, g>>
    BY <1>0, <1>4
  <2>2. \A i \in 1..Len(bus) : bus[i][1] # "started" => bus[i][2] # g
    BY <1>4 DEF TerminalOnce
  <2>3. ASSUME NEW i \in 1..Len(bus'), bus'[i][1] # "started"
        PROVE  sess'[bus'[i][2]] = "ended"
    <3>1. CASE i = Len(bus) + 1
      BY <1>4, <2>1, <3>1
    <3>2. CASE i # Len(bus) + 1
      BY <1>0, <1>1, <2>1, <2>3, <3>2 DEF TerminalOnce
    <3> QED BY <3>1, <3>2
  <2>4. ASSUME NEW i \in 1..Len(bus'), NEW k \in 1..Len(bus'),
               bus'[i][1] # "started", bus'[k][1] # "started", bus'[i][2] = bus'[k][2]
        PROVE  i = k
    <3>1. CASE i \in 1..Len(bus) /\ k \in 1..Len(bus)
      BY <2>1, <2>4, <3>1 DEF TerminalOnce
    <3>2. CASE ~(i \in 1..Len(bus) /\ k \in 1..Len(bus))
      BY <2>1, <2>2, <2>4, <3>2
    <3> QED BY <3>1, <3>2
  <2> QED BY <2>3, <2>4 DEF TerminalOnce
<1>5. CASE bus # <<>> /\ bus' = Tail(bus) /\ UNCHANGED sess
  <2>1. /\ Len(bus') = Len(bus) - 1 /\ Len(bus) \in Nat
        /\ \A i \in 1..Len(bus') : bus'[i] = bus[i + 1]
    BY <1>0, <1>5
  <2> QED BY <1>0, <1>5, <2>1 DEF TerminalOnce
<1> QED BY BusMoves, <1>2, <1>3, <1>4, <1>5

(* First attempts are made once.                                              *)
FreshUnused ==
    /\ \A g \in Sessions : stage[<<g, 1>>] # "unused" =>
          /\ sess[g] = "ended"
          /\ \A i \in 1..Len(bus) : bus[i][2] = g => bus[i][1] = "started"
    /\ stage[<<0, 1>>] # "unused" => subscribed \/ closed

LEMMA FreshInit == Init => FreshUnused
BY ObsFirstJob DEF Init, FreshUnused

LEMMA GateGoesOn ==
    ASSUME [Next]_vars, subscribed \/ closed
    PROVE  subscribed' \/ closed'
<1>1. ASSUME NEW j \in Jobs, Progress(j) PROVE UNCHANGED <<subscribed, closed>>
  BY <1>1 DEF Progress, StartObservation, TakeEvidence, TimeOut, Complete, StepDown, GiveUp,
     Exhaust, ScheduleRetry, StoreToken, CancelToken, Fire, OnRetryDue, Launch, StartThread
<1>2. ASSUME UNCHANGED Untouched \/ CloseObserver \/ Join \/ Deliver \/ UNCHANGED vars
      PROVE  UNCHANGED <<subscribed, closed>>
  BY <1>2 DEF Untouched, CloseObserver, Join, Deliver, vars
<1>3. ASSUME Start \/ Close PROVE subscribed' \/ closed'
  BY <1>3 DEF Start, Close
<1> QED BY <1>1, <1>2, <1>3 DEF Next, System, Environment

LEMMA FreshStep ==
    Typed /\ SessionFacts /\ TerminalOnce /\ FreshUnused /\ [Next]_vars => FreshUnused'
<1> SUFFICES ASSUME Typed, SessionFacts, TerminalOnce, FreshUnused, [Next]_vars
             PROVE  FreshUnused'
  OBVIOUS
<1>0. bus \in Seq(Evidence \X Sessions) /\ Len(bus) \in Nat
  BY DEF Typed, ObserverTyped, ObserverTypeOK
<1>1. ASSUME NEW g \in Sessions, stage'[<<g, 1>>] # "unused"
      PROVE  /\ sess'[g] = "ended"
             /\ \A i \in 1..Len(bus') : bus'[i][2] = g => bus'[i][1] = "started"
  <2> DEFINE k == <<g, 1>>
  <2>0. k \in Jobs
    BY ObsFirstJob
  <2>1. CASE stage[k] # "unused"
    <3>1. sess[g] = "ended" /\ \A i \in 1..Len(bus) : bus[i][2] = g => bus[i][1] = "started"
      BY <2>1 DEF FreshUnused
    <3>2. sess'[g] = "ended"
      BY <3>1, EndedForGood
    <3>3. CASE bus' = bus
      BY <3>1, <3>2, <3>3
    <3>4. ASSUME NEW h \in Sessions, NEW kind \in Evidence, bus' = Append(bus, <<kind, h>>),
                 kind = "started" \/ sess[h] = "publishing"
          PROVE  \A i \in 1..Len(bus') : bus'[i][2] = g => bus'[i][1] = "started"
      <4>1. /\ Len(bus') = Len(bus) + 1
            /\ \A i \in 1..Len(bus) : bus'[i] = bus[i]
            /\ bus'[Len(bus) + 1] = <<kind, h>>
        BY <1>0, <3>4
      <4> QED BY <1>0, <3>1, <3>4, <4>1
    <3>5. CASE bus # <<>> /\ bus' = Tail(bus)
      <4>1. Len(bus') = Len(bus) - 1 /\ \A i \in 1..Len(bus') : bus'[i] = bus[i + 1]
        BY <1>0, <3>5
      <4> QED BY <1>0, <3>1, <3>2, <4>1
    <3> QED BY <3>2, <3>3, <3>4, <3>5, BusMoves DEF Evidence
  <2>2. CASE stage[k] = "unused"
    <3>1. ~Begun(k) /\ ~Moved(k)
      BY <2>2, ObserverAssumption DEF Begun, Moved, Forward, Sessions
    <3>2. ~Retried(k)
      BY ObsJobParts, ObservationAssumption DEF Retried, Attempts
    <3>3. Reopened(k)
      BY <1>1, <2>0, <2>2, <3>1, <3>2, StageMoves
    <3>4. /\ Len(bus) > 0 /\ bus[1] = <<"server_connection", g>>
          /\ bus' = Tail(bus) /\ sess' = sess
      BY <1>0, <3>3 DEF Reopened, Deliver
    <3>5. sess[g] = "ended" /\ \A i \in 2..Len(bus) : bus[i][2] = g => bus[i][1] = "started"
      BY <1>0, <3>4 DEF TerminalOnce
    <3>6. Len(bus') = Len(bus) - 1 /\ \A i \in 1..Len(bus') : bus'[i] = bus[i + 1]
      BY <1>0, <3>4
    <3> QED BY <1>0, <3>4, <3>5, <3>6
  <2> QED BY <2>1, <2>2
<1>2. ASSUME stage'[<<0, 1>>] # "unused" PROVE subscribed' \/ closed'
  <2> DEFINE k == <<0, 1>>
  <2>1. CASE stage[k] # "unused"
    BY <2>1, GateGoesOn DEF FreshUnused
  <2>2. CASE stage[k] = "unused"
    <3>1. ~Moved(k)
      BY <2>2 DEF Moved, Forward
    <3>2. ~Retried(k)
      BY ObsJobParts, ObservationAssumption DEF Retried, Attempts
    <3>3. ~Reopened(k)
      <4>1. ASSUME Reopened(k) PROVE FALSE
        <5>1. Head(bus) = <<"server_connection", 0>> /\ bus # <<>>
          BY <4>1 DEF Reopened
        <5> QED BY <1>0, <5>1 DEF Sessions
      <4> QED BY <4>1
    <3>4. Begun(k)
      BY <1>2, <2>2, <3>1, <3>2, <3>3, StageMoves, ObsFirstJob
    <3> QED BY <3>4 DEF Begun, Start
  <2> QED BY <2>1, <2>2
<1> QED BY <1>1, <1>2 DEF FreshUnused

------------------------------------------------------------------------------
(* Of all the attempts of one cycle, at most one has begun and is not over    *)
(* yet: the next one is armed when the previous one is done.                  *)
Sequenced ==
    \A c \in Cycles, m, n \in Attempts :
        m < n /\ stage[<<c, m>>] \in Early => stage[<<c, n>>] = "unused"

LEMMA SequencedInit == Init => Sequenced
BY ObsJobOf DEF Init, Sequenced

LEMMA SequencedStep ==
    Typed /\ TerminalOnce /\ FreshUnused /\ Sequenced /\ [Next]_vars => Sequenced'
<1> SUFFICES ASSUME Typed, TerminalOnce, FreshUnused, Sequenced, [Next]_vars,
                    NEW c \in Cycles, NEW m \in Attempts, NEW n \in Attempts,
                    m < n, stage'[<<c, m>>] \in Early
             PROVE  stage'[<<c, n>>] = "unused"
  BY DEF Sequenced
<1> USE DEF Attempts
<1> DEFINE M == <<c, m>>
           N == <<c, n>>
<1>0. stage \in [Jobs -> Stages] /\ M \in Jobs /\ N \in Jobs /\ n # 1
  BY ObsJobOf, ObservationAssumption DEF Typed, SupervisorTyped
<1>1. stage[M] \in Early \/ (m > 1 /\ stage[<<c, m - 1>>] = "retrying")
  <2>1. CASE Begun(M)
    BY <2>1 DEF Begun, Start, FreshUnused, Early, Stages
  <2>2. CASE Reopened(M)
    <3>1. bus # <<>> /\ Head(bus) = <<"server_connection", c>> /\ m = 1
      BY <2>2 DEF Reopened
    <3>2. bus[1][2] = c /\ bus[1][1] # "started" /\ 1 \in 1..Len(bus) /\ c \in Sessions
      BY <3>1 DEF Typed, ObserverTyped, ObserverTypeOK
    <3>3. stage[<<c, 1>>] = "unused"
      BY <3>2 DEF FreshUnused
    <3> QED BY <3>1, <3>3 DEF Early, Stages
  <2>3. CASE Retried(M)
    BY <2>3, ObsJobParts DEF Retried
  <2>4. CASE stage'[M] = stage[M] \/ Moved(M)
    BY <1>0, <2>4 DEF Moved, Forward, Early, Stages
  <2> QED BY <1>0, <2>1, <2>2, <2>3, <2>4, StageMoves
<1>2. stage[N] = "unused"
  <2>1. CASE stage[M] \in Early
    BY <2>1 DEF Sequenced
  <2>2. CASE m > 1 /\ stage[<<c, m - 1>>] = "retrying"
    <3>1. m - 1 \in Attempts /\ m - 1 < n
      BY <2>2, ObservationAssumption
    <3> QED BY <2>2, <3>1 DEF Sequenced, Early, Stages
  <2> QED BY <1>1, <2>1, <2>2
<1>3. ~Retried(N)
  <2> SUFFICES ASSUME Retried(N) PROVE FALSE
    OBVIOUS
  <2>1. PICK j \in Jobs : N = <<j[1], j[2] + 1>> /\ stage[j] = "retrying" /\ stage'[j] = "storing"
    BY DEF Retried
  <2>2. j = <<c, n - 1>> /\ n - 1 \in Attempts
    BY <2>1, ObsJobParts, ObservationAssumption
  <2>3. m # n - 1
    BY <2>1, <2>2 DEF Early
  <2>4. m < n - 1 /\ stage[M] \notin Early
    BY <2>1, <2>2, <2>3, ObservationAssumption DEF Sequenced
  <2>5. m > 1 /\ stage[<<c, m - 1>>] = "retrying"
    BY <2>4, <1>1
  <2>6. m - 1 \in Attempts /\ m - 1 < n - 1
    BY <2>4, <2>5, ObservationAssumption
  <2> QED BY <2>1, <2>2, <2>5, <2>6 DEF Sequenced, Early, Stages
<1>4. ~Begun(N) /\ ~Reopened(N)
  BY <1>0 DEF Begun, Reopened
<1> HIDE DEF M, N
<1>5. stage'[N] = "unused"
  BY <1>0, <1>2, <1>3, <1>4, StageMoves DEF Moved, Forward
<1> QED BY <1>5 DEF N

------------------------------------------------------------------------------
(* What a step can do to the jobs of one cycle, in the terms the arguments    *)
(* below use.                                                                 *)
LEMMA NoRivalInCycle ==
    ASSUME Sequenced, NEW j \in Jobs, NEW k \in Jobs, j[1] = k[1],
           stage[j] \in Early \ {"unused"}, stage[k] \in Early \ {"unused"}
    PROVE  j = k
<1>1. /\ j[1] \in Cycles /\ j[2] \in Attempts /\ j = <<j[1], j[2]>>
      /\ k[1] \in Cycles /\ k[2] \in Attempts /\ k = <<k[1], k[2]>>
  BY ObsJobParts
<1>2. ~(j[2] < k[2])
  BY <1>1 DEF Sequenced
<1>3. ~(k[2] < j[2])
  BY <1>1 DEF Sequenced
<1> QED BY <1>1, <1>2, <1>3, ObservationAssumption DEF Attempts

LEMMA RetryUnused ==
    ASSUME Sequenced, NEW j \in Jobs, j[2] < MaxAttempts, stage[j] \in Early
    PROVE  /\ <<j[1], j[2] + 1>> \in Jobs /\ <<j[1], j[2] + 1>> # j
           /\ stage[<<j[1], j[2] + 1>>] = "unused"
<1>1. j[1] \in Cycles /\ j[2] \in Attempts /\ j[2] + 1 \in Attempts /\ j = <<j[1], j[2]>>
  BY ObsJobParts, ObservationAssumption DEF Attempts
<1> QED BY <1>1, ObsJobOf, ObservationAssumption DEF Sequenced, Attempts

(* The first attempt of cycle 0 is made in start(), never in a thread.        *)
MadeByStart == stage[<<0, 1>>] \notin {"armed", "due", "launching", "registered"}

LEMMA MadeByStartInit == Init => MadeByStart
BY ObsFirstJob DEF Init, MadeByStart

LEMMA MadeByStartStep == Typed /\ MadeByStart /\ [Next]_vars => MadeByStart'
<1> SUFFICES ASSUME Typed, MadeByStart, [Next]_vars PROVE MadeByStart'
  OBVIOUS
<1>1. ~Retried(<<0, 1>>)
  BY ObsJobParts, ObservationAssumption DEF Retried, Attempts
<1>2. ~Reopened(<<0, 1>>)
  <2>1. ASSUME bus # <<>>, Head(bus) = <<"server_connection", 0>> PROVE FALSE
    <3>1. bus \in Seq(Evidence \X Sessions)
      BY DEF Typed, ObserverTyped, ObserverTypeOK
    <3> QED BY <2>1, <3>1 DEF Sessions
  <2> QED BY <2>1 DEF Reopened
<1> QED BY <1>1, <1>2, StageMoves, ObsFirstJob DEF MadeByStart, Begun, Moved, Forward

(* One episode at a time, conducted by _attempt_thread or by start(), for the *)
(* live cycle.                                                                *)
EpisodeFacts ==
    /\ OneEpisode
    /\ \A j \in Jobs : InEpisode(j) /\ ~closed => cycle = j[1]
    /\ thread # None => InEpisode(thread) /\ IsThread(thread)

LEMMA EpisodeInit == Init => EpisodeFacts
BY DEF Init, EpisodeFacts, OneEpisode, InEpisode

LEMMA EpisodeStep ==
    Typed /\ Sequenced /\ MadeByStart /\ CycleGated /\ EpisodeFacts /\ [Next]_vars
        => EpisodeFacts'
<1> SUFFICES ASSUME Typed, Sequenced, MadeByStart, CycleGated, EpisodeFacts, [Next]_vars
             PROVE  EpisodeFacts'
  OBVIOUS
<1> USE ObservationAssumption
<1>0. stage \in [Jobs -> Stages] /\ thread \in Jobs \cup {None}
  BY DEF Typed, SupervisorTyped
<1>1. ASSUME UNCHANGED <<thread, cycle, closed>>,
             \A k \in Jobs : InEpisode(k)' <=> InEpisode(k)
      PROVE  EpisodeFacts'
  BY <1>0, <1>1 DEF EpisodeFacts, OneEpisode
<1>2. ASSUME thread' = None, \A k \in Jobs : ~InEpisode(k)' PROVE EpisodeFacts'
  BY <1>2 DEF EpisodeFacts, OneEpisode
<1>3. ASSUME Start PROVE EpisodeFacts'
  <2>1. cycle = None /\ \A k \in Jobs : ~InEpisode(k)
    BY <1>3, ObsJobParts DEF Start, CycleGated, EpisodeFacts
  <2>2. thread = None
    BY <1>0, <2>1 DEF EpisodeFacts
  <2>3. /\ thread' = None /\ cycle' = 0 /\ stage' = [stage EXCEPT ![<<0, 1>>] = "entering"]
        /\ <<0, 1>> \in Jobs
    BY <1>3, <2>2, ObsFirstJob DEF Start, Goto
  <2> QED BY <1>0, <2>1, <2>3 DEF EpisodeFacts, OneEpisode, InEpisode, IsThread
<1>4. ASSUME NEW j \in Jobs,
             StartObservation(j) \/ TakeEvidence(j) \/ TimeOut(j) \/ StartThread(j)
      PROVE  EpisodeFacts'
  <2>1. /\ UNCHANGED <<thread, cycle, closed>> /\ InEpisode(j)
        /\ \E s \in {"entering", "waiting", "handling"} : stage' = [stage EXCEPT ![j] = s]
    BY <1>4 DEF StartObservation, TakeEvidence, TimeOut, StartThread, Goto, InEpisode
  <2> QED BY <1>0, <1>1, <2>1 DEF InEpisode
<1>5. ASSUME NEW j \in Jobs, Complete(j) \/ StepDown(j) PROVE EpisodeFacts'
  <2>1. InEpisode(j) /\ \A k \in Jobs \ {j} : ~InEpisode(k)
    BY <1>5 DEF Complete, StepDown, InEpisode, EpisodeFacts, OneEpisode
  <2>2. thread \in {j, None}
    BY <2>1, <1>0 DEF EpisodeFacts
  <2>3. /\ thread' = None
        /\ \E s \in {"over", "retrying", "ending"} : stage' = [stage EXCEPT ![j] = s]
    BY <1>5, <2>2 DEF Complete, StepDown, ReleaseThread, Goto
  <2> QED BY <1>0, <1>2, <2>1, <2>3 DEF InEpisode
<1>6. ASSUME NEW j \in Jobs, GiveUp(j) \/ Exhaust(j) PROVE EpisodeFacts'
  <2>1. /\ stage[j] \in {"ending", "retrying"} /\ stage' = [stage EXCEPT ![j] = "over"]
        /\ UNCHANGED <<thread, closed>> /\ cycle' = IF cycle = j[1] THEN None ELSE cycle
    BY <1>6 DEF GiveUp, Exhaust, Goto, EndCycle, Forget
  <2>2. \A k \in Jobs : InEpisode(k)' <=> InEpisode(k)
    BY <1>0, <2>1 DEF InEpisode
  <2>3. ASSUME NEW k \in Jobs, InEpisode(k) PROVE k[1] # j[1] \/ closed
    BY <2>1, <2>3, NoRivalInCycle DEF InEpisode, Early, Stages
  <2> QED BY <1>0, <2>1, <2>2, <2>3 DEF EpisodeFacts, OneEpisode
<1>7. ASSUME NEW j \in Jobs, ScheduleRetry(j) PROVE EpisodeFacts'
  <2>1. /\ UNCHANGED <<thread, cycle, closed>> /\ stage[j] = "retrying" /\ j[2] < MaxAttempts
        /\ stage' = [stage EXCEPT ![j] = "storing", ![<<j[1], j[2] + 1>>] = "armed"]
    BY <1>7 DEF ScheduleRetry
  <2>2. /\ <<j[1], j[2] + 1>> \in Jobs /\ <<j[1], j[2] + 1>> # j
        /\ stage[<<j[1], j[2] + 1>>] = "unused"
    BY <2>1, RetryUnused DEF Early, Stages
  <2> QED BY <1>0, <1>1, <2>1, <2>2 DEF InEpisode
<1>8. ASSUME NEW j \in Jobs, StoreToken(j) PROVE EpisodeFacts'
  <2>1. <<j[1], j[2] + 1>> \in Jobs /\ <<j[1], j[2] + 1>> # j
    BY <1>8, ObsRetryJob, ObsJobParts DEF StoreToken, Attempts, Typed, SupervisorTyped, StoringHasRetry
  <2>2. CASE Live(j[1])
    BY <1>0, <1>1, <1>8, <2>1, <2>2 DEF StoreToken, Goto, InEpisode
  <2>3. CASE ~Live(j[1])
    BY <1>0, <1>1, <1>8, <2>1, <2>3 DEF StoreToken, InEpisode
  <2> QED BY <2>2, <2>3
<1>9. ASSUME NEW j \in Jobs, CancelToken(j) \/ Fire(j) \/ OnRetryDue(j) PROVE EpisodeFacts'
  BY <1>0, <1>1, <1>9 DEF CancelToken, Fire, OnRetryDue, Goto, InEpisode
<1>10. ASSUME NEW j \in Jobs, Launch(j) PROVE EpisodeFacts'
  <2>1. CASE ~(Live(j[1]) /\ thread = None)
    BY <1>0, <1>1, <1>10, <2>1 DEF Launch, Goto, InEpisode
  <2>2. CASE Live(j[1]) /\ thread = None
    <3>1. /\ thread' = j /\ stage[j] = "launching" /\ stage' = [stage EXCEPT ![j] = "registered"]
          /\ UNCHANGED <<cycle, closed>> /\ cycle = j[1] /\ ~closed
      BY <1>10, <2>2 DEF Launch, Goto, Live
    <3>2. ASSUME NEW k \in Jobs, InEpisode(k) PROVE FALSE
      <4>1. ~IsThread(k)
        BY <2>2, <3>2 DEF EpisodeFacts, OneEpisode
      <4>2. k[1] = j[1]
        BY <3>1, <3>2 DEF EpisodeFacts
      <4> QED BY <3>1, <3>2, <4>2, NoRivalInCycle DEF InEpisode, Early, Stages
    <3>3. IsThread(j)
      BY <3>1 DEF MadeByStart, IsThread
    <3> QED BY <1>0, <3>1, <3>2, <3>3 DEF EpisodeFacts, OneEpisode, InEpisode
  <2> QED BY <2>1, <2>2
<1>11. ASSUME Deliver PROVE EpisodeFacts'
  <2>1. CASE UNCHANGED <<cycle, stage>>
    <3>1. UNCHANGED <<thread, cycle, closed, stage>>
      BY <1>11, <2>1 DEF Deliver
    <3> QED BY <1>1, <3>1 DEF InEpisode
  <2>2. CASE /\ ~closed /\ cycle = None
             /\ stage' = [stage EXCEPT ![<<Head(bus)[2], 1>>] = "launching"]
    <3>1. \A k \in Jobs : ~InEpisode(k)
      BY <2>2, ObsJobParts DEF EpisodeFacts
    <3>2. thread = None /\ UNCHANGED thread
      BY <1>0, <1>11, <3>1 DEF EpisodeFacts, Deliver
    <3> QED BY <1>0, <1>2, <2>2, <3>1, <3>2 DEF InEpisode
  <2> QED BY <1>11, <2>1, <2>2 DEF Deliver, OnObservationFailed, Goto
<1>12. ASSUME Close PROVE EpisodeFacts'
  BY <1>0, <1>12 DEF Close, localVars, EpisodeFacts, OneEpisode, InEpisode
<1>13. ASSUME UNCHANGED Untouched \/ CloseObserver \/ Join \/ UNCHANGED vars PROVE EpisodeFacts'
  <2>1. UNCHANGED <<thread, cycle, closed, stage>>
    BY <1>13 DEF Untouched, CloseObserver, Join, vars, localVars
  <2> QED BY <1>1, <2>1 DEF InEpisode
<1> QED
  BY <1>3, <1>4, <1>5, <1>6, <1>7, <1>8, <1>9, <1>10, <1>11, <1>12, <1>13
     DEF Next, System, Environment, Progress

(* The invariants that hold together, and on which the rest is built.         *)
Core == /\ Typed /\ SessionFacts /\ TerminalOnce /\ FreshUnused /\ Sequenced
        /\ MadeByStart /\ CycleGated /\ EpisodeFacts

LEMMA AlwaysCore == Spec => []Core
<1>1. Init => Core
  BY TypedInit, SessionInit, TerminalInit, FreshInit, SequencedInit, MadeByStartInit, GateInit,
     EpisodeInit DEF Core
<1>2. Core /\ [Next]_vars => Core'
  BY TypedStep, SessionStepKeeps, TerminalStep, FreshStep, SequencedStep, MadeByStartStep,
     GateStep, EpisodeStep DEF Core
<1> QED BY <1>1, <1>2, PTL DEF Spec

(* Establishment episodes never overlap, and _attempt_thread is the thread    *)
(* that conducts the one under way.                                           *)
THEOREM OneEpisodeAtATime == Spec => []OneEpisode
<1>1. Core => OneEpisode
  BY DEF Core, EpisodeFacts
<1> QED BY AlwaysCore, <1>1, PTL

------------------------------------------------------------------------------
(* What the supervisor and its episode know of the active session.            *)
Acquainted(j) ==
    /\ got[j] # 0 => /\ stage[j] \in {"waiting", "handling"}
                     /\ active \in {0, got[j]}
                     /\ current < got[j] /\ got[j] <= generation
    /\ evidence[j] # "none" => got[j] # 0
    /\ evidence[j] \in Outcomes => sess[got[j]] = "ended"
    /\ stage[j] = "waiting" => got[j] # 0
    /\ stage[j] = "handling" /\ verdict[j] = "satisfied" => got[j] # 0
    /\ stage[j] = "handling" /\ verdict[j] # "satisfied" /\ got[j] # 0
          => sess[got[j]] = "ended" \/ late = got[j]

Known == ~closed => active \in {0, current, late} \/ \E j \in Jobs : active = got[j]

RestFacts ==
    /\ \A j \in Jobs : Acquainted(j)
    /\ current <= generation
    /\ subscribed => ~closed
    /\ Known

LEMMA RestInit == Init => RestFacts
BY DEF Init, ObserverInit, RestFacts, Acquainted, Known, Outcomes, Failures

(* No step of the observer but start() allocates or activates a session.      *)
Quiet == \/ \E g \in Sessions : SessionStep(g) \/ StreamFails(g) \/ PublishRaises(g)
         \/ \E p \in Stoppers : CallStop(p) \/ StopStep(p)
         \/ CallClose(Closer) \/ UNCHANGED observerVars

LEMMA SessionQuiet ==
    ASSUME Quiet
    PROVE  generation' = generation /\ active' \in {active, 0}
<1>1. ASSUME NEW g \in Sessions, SessionStep(g) \/ StreamFails(g) \/ PublishRaises(g)
      PROVE  generation' = generation /\ active' \in {active, 0}
  BY <1>1 DEF SessionStep, Register, Connected, Advance, OpenFails, OpenAbandoned,
     PublishStarted, StreamCut, MarkInactive, PublishTerminal, StreamFails, PublishRaises, EndWith
<1>2. ASSUME \/ \E p \in Stoppers : CallStop(p) \/ StopStep(p)
             \/ CallClose(Closer) \/ UNCHANGED observerVars
      PROVE  generation' = generation /\ active' \in {active, 0}
  BY <1>2 DEF CallStop, StopStep, StopRead, SourceClose, CutSocket, Joined, CallClose,
     observerVars
<1> QED BY <1>1, <1>2 DEF Quiet

(* Steps that leave what is known alone: the active session may only go.      *)
LEMMA RestKept ==
    ASSUME Core, RestFacts, [Next]_vars,
           UNCHANGED <<got, evidence, verdict, current, late, generation>>,
           active' \in {active, 0},
           closed' = closed, subscribed' => ~closed',
           \A k \in Jobs : stage'[k] = stage[k]
                           \/ {stage[k], stage'[k]} \cap {"waiting", "handling"} = {}
    PROVE  RestFacts'
<1>0. \A g \in Sessions : sess[g] = "ended" => sess'[g] = "ended"
  BY EndedForGood DEF Core
<1>1. ASSUME NEW k \in Jobs PROVE Acquainted(k)'
  <2>1. Acquainted(k)
    BY DEF RestFacts
  <2>2. got[k] # 0 => got[k] \in Sessions
    BY ObserverAssumption DEF Core, Typed, SupervisorTyped, Sessions
  <2>3. stage'[k] = stage[k] \/ {stage[k], stage'[k]} \cap {"waiting", "handling"} = {}
    OBVIOUS
  <2>4. evidence[k] \in Outcomes => got[k] # 0
    BY <2>1 DEF Acquainted, Outcomes, Failures
  <2> QED BY <1>0, <2>1, <2>2, <2>3, <2>4 DEF Acquainted
<1>2. Known'
  BY DEF RestFacts, Known
<1> QED BY <1>1, <1>2 DEF RestFacts

LEMMA RestStep == Core /\ RestFacts /\ [Next]_vars => RestFacts'
<1> SUFFICES ASSUME Core, RestFacts, [Next]_vars PROVE RestFacts'
  OBVIOUS
<1> USE ObserverAssumption, ObservationAssumption
<1>0. /\ stage \in [Jobs -> Stages] /\ got \in [Jobs -> 0..MaxSessions]
      /\ evidence \in [Jobs -> Evidence \cup {"none"}] /\ verdict \in [Jobs -> Verdicts]
      /\ current \in 0..MaxSessions /\ late \in 0..MaxSessions
      /\ generation \in 0..MaxSessions /\ active \in 0..MaxSessions
  BY DEF Core, Typed, SupervisorTyped, ObserverTyped, ObserverTypeOK
<1>a. ASSUME NEW j \in Jobs, InEpisode(j), NEW k \in Jobs \ {j}
      PROVE  ~InEpisode(k) /\ got[k] = 0
  <2>1. ~InEpisode(k)
    BY <1>a DEF Core, EpisodeFacts, OneEpisode
  <2> QED BY <2>1 DEF RestFacts, Acquainted, InEpisode
<1>1. ASSUME NEW j \in Jobs, StartObservation(j) PROVE RestFacts'
  <2>1. InEpisode(j) /\ got[j] = 0 /\ evidence[j] = "none"
    BY <1>1 DEF StartObservation, InEpisode, RestFacts, Acquainted
  <2>2. CASE ~StartSession
    <3>1. /\ stage' = [stage EXCEPT ![j] = "handling"] /\ verdict' = [verdict EXCEPT ![j] = "retry"]
          /\ UNCHANGED <<observerVars, got, current, closed, subscribed, evidence, late>>
      BY <1>1, <2>2 DEF StartObservation, Goto, historyVars
    <3>2. UNCHANGED <<generation, active, sess>>
      BY <3>1 DEF observerVars
    <3>3. ASSUME NEW k \in Jobs PROVE Acquainted(k)'
      BY <1>0, <1>a, <2>1, <3>1, <3>2 DEF RestFacts, Acquainted, InEpisode
    <3> QED BY <3>1, <3>2, <3>3 DEF RestFacts, Known
  <2>3. CASE StartSession
    <3>1. /\ stage' = [stage EXCEPT ![j] = "waiting"] /\ got' = [got EXCEPT ![j] = generation + 1]
          /\ UNCHANGED <<verdict, current, closed, subscribed, evidence, late>>
      BY <1>1, <2>3 DEF StartObservation, StartSession, StartAccepted, Goto, historyVars
    <3>2. generation' = generation + 1 /\ active' = generation + 1
      BY <2>3 DEF StartSession
    <3>3. ASSUME NEW k \in Jobs PROVE Acquainted(k)'
      <4>1. CASE k = j
        BY <1>0, <2>1, <3>1, <3>2, <4>1 DEF RestFacts, Acquainted, Outcomes, Failures
      <4>2. CASE k # j
        <5>1. got[k] = 0 /\ Acquainted(k)
          BY <1>a, <2>1, <4>2 DEF RestFacts
        <5> QED BY <1>0, <3>1, <4>2, <5>1 DEF Acquainted, Outcomes, Failures
      <4> QED BY <4>1, <4>2
    <3> QED BY <1>0, <3>1, <3>2, <3>3 DEF RestFacts, Known
  <2> QED BY <2>2, <2>3
<1>2. ASSUME NEW j \in Jobs, TakeEvidence(j) PROVE RestFacts'
  <2>1. /\ stage' = [stage EXCEPT ![j] = "handling"] /\ stage[j] = "waiting" /\ InEpisode(j)
        /\ evidence[j] # "none" /\ UNCHANGED <<got, current, closed, subscribed, evidence, late>>
        /\ verdict'[j] = "satisfied" => evidence[j] = "started"
        /\ evidence[j] = "started" => verdict'[j] = "satisfied"
        /\ \A k \in Jobs \ {j} : verdict'[k] = verdict[k]
    BY <1>0, <1>2 DEF TakeEvidence, Goto, historyVars, InEpisode
  <2>2. UNCHANGED <<generation, active, sess>>
    BY <1>2 DEF TakeEvidence, observerVars
  <2>3. ASSUME NEW k \in Jobs PROVE Acquainted(k)'
    BY <1>0, <1>a, <2>1, <2>2 DEF RestFacts, Acquainted, Evidence
  <2> QED BY <2>1, <2>2, <2>3 DEF RestFacts, Known
<1>3. ASSUME NEW j \in Jobs, TimeOut(j) PROVE RestFacts'
  <2>1. /\ stage' = [stage EXCEPT ![j] = "handling"] /\ stage[j] = "waiting" /\ InEpisode(j)
        /\ verdict' = [verdict EXCEPT ![j] = "retry"] /\ late' = got[j] /\ evidence[j] = "none"
        /\ UNCHANGED <<got, current, closed, subscribed, evidence>>
    BY <1>3 DEF TimeOut, Goto, InEpisode
  <2>2. UNCHANGED <<generation, active, sess>>
    BY <1>3 DEF TimeOut, observerVars
  <2>3. ASSUME NEW k \in Jobs PROVE Acquainted(k)'
    BY <1>0, <1>a, <2>1, <2>2 DEF RestFacts, Acquainted
  <2>4. active \in {0, got[j]}
    BY <2>1 DEF RestFacts, Acquainted
  <2> QED BY <2>1, <2>2, <2>3, <2>4 DEF RestFacts, Known
<1>4. ASSUME NEW j \in Jobs, Complete(j) PROVE RestFacts'
  <2>1. /\ stage' = [stage EXCEPT ![j] = "over"] /\ InEpisode(j)
        /\ got' = [got EXCEPT ![j] = 0] /\ evidence' = [evidence EXCEPT ![j] = "none"]
        /\ verdict' = [verdict EXCEPT ![j] = "none"] /\ UNCHANGED <<closed, subscribed, late>>
        /\ stage[j] = "handling" /\ verdict[j] = "satisfied"
    BY <1>4 DEF Complete, Consume, Goto, historyVars, InEpisode
  <2>2. UNCHANGED <<generation, active, sess>>
    BY <1>4 DEF Complete, observerVars
  <2>3. /\ got[j] # 0 /\ active \in {0, got[j]} /\ current < got[j] /\ got[j] <= generation
    BY <2>1 DEF RestFacts, Acquainted
  <2>4. /\ current' \in {current, got[j]} /\ (~closed => current' = got[j])
    BY <1>4, <2>1 DEF Complete, Live, Core, EpisodeFacts
  <2>5. ASSUME NEW k \in Jobs PROVE Acquainted(k)'
    <3>1. CASE k = j
      BY <1>0, <2>1, <3>1 DEF Acquainted, Outcomes, Failures
    <3>2. CASE k # j
      <4>1. got[k] = 0 /\ Acquainted(k)
        BY <1>a, <2>1, <3>2 DEF RestFacts
      <4> QED BY <1>0, <2>1, <2>2, <3>2, <4>1 DEF Acquainted, Outcomes, Failures
    <3> QED BY <3>1, <3>2
  <2> QED BY <1>0, <2>1, <2>2, <2>3, <2>4, <2>5 DEF RestFacts, Known
<1>5. ASSUME NEW j \in Jobs, StepDown(j) PROVE RestFacts'
  <2>1. /\ \E s \in {"over", "retrying", "ending"} : stage' = [stage EXCEPT ![j] = s]
        /\ InEpisode(j) /\ got' = [got EXCEPT ![j] = 0]
        /\ evidence' = [evidence EXCEPT ![j] = "none"]
        /\ verdict' = [verdict EXCEPT ![j] = "none"]
        /\ UNCHANGED <<closed, subscribed, late, current>>
        /\ stage[j] = "handling" /\ verdict[j] # "satisfied"
    BY <1>5 DEF StepDown, Consume, Goto, historyVars, InEpisode
  <2>2. UNCHANGED <<generation, active, sess>>
    BY <1>5 DEF StepDown, observerVars
  <2>3. ASSUME NEW k \in Jobs PROVE Acquainted(k)'
    <3>1. CASE k = j
      BY <1>0, <2>1, <3>1 DEF Acquainted, Outcomes, Failures
    <3>2. CASE k # j
      <4>1. got[k] = 0 /\ Acquainted(k)
        BY <1>a, <2>1, <3>2 DEF RestFacts
      <4> QED BY <1>0, <2>1, <2>2, <3>2, <4>1 DEF Acquainted, Outcomes, Failures
    <3> QED BY <3>1, <3>2
  <2>4. active = got[j] => active \in {0, late}
    <3>1. ASSUME got[j] # 0, sess[got[j]] = "ended" PROVE active # got[j]
      BY <1>0, <3>1 DEF Core, SessionFacts, OneSession, Running, Sessions
    <3> QED BY <2>1, <3>1 DEF RestFacts, Acquainted
  <2>5. Known'
    <3>1. ~closed => active \in {0, current, late} \/ \E k \in Jobs \ {j} : active = got[k]
      BY <2>4 DEF RestFacts, Known
    <3> QED BY <1>0, <1>a, <2>1, <2>2, <3>1 DEF Known
  <2> QED BY <2>1, <2>2, <2>3, <2>5 DEF RestFacts
<1>6. ASSUME Deliver PROVE RestFacts'
  <2>1. /\ UNCHANGED <<generation, active, sess, got, verdict, current, closed, subscribed, late>>
        /\ bus # <<>> /\ Head(bus) = bus[1] /\ 1 \in 1..Len(bus)
        /\ bus[1][1] \in Evidence /\ bus[1][2] \in Sessions
        /\ evidence' = [j \in Jobs |-> IF Concerns(j, bus[1][2]) THEN bus[1][1] ELSE evidence[j]]
    BY <1>6 DEF Deliver, Core, Typed, ObserverTyped, ObserverTypeOK
  <2>2. ASSUME NEW k \in Jobs
        PROVE  stage'[k] = stage[k]
               \/ {stage[k], stage'[k]} \cap {"waiting", "handling"} = {}
    <3>1. CASE UNCHANGED stage
      BY <3>1
    <3>2. CASE /\ ~closed /\ cycle = None
               /\ stage' = [stage EXCEPT ![<<bus[1][2], 1>>] = "launching"]
      <4>1. ~InEpisode(k)
        BY <3>2, ObsJobParts DEF Core, EpisodeFacts
      <4> QED BY <1>0, <3>2, <4>1 DEF InEpisode
    <3> QED BY <1>6, <2>1, <3>1, <3>2 DEF Deliver, OnObservationFailed, Goto
  <2>3. bus[1][1] # "started" => sess[bus[1][2]] = "ended"
    BY <2>1 DEF Core, TerminalOnce
  <2>4. ASSUME NEW k \in Jobs PROVE Acquainted(k)'
    <3>1. Acquainted(k) /\ evidence'[k] = IF Concerns(k, bus[1][2]) THEN bus[1][1] ELSE evidence[k]
      BY <2>1 DEF RestFacts
    <3>2. "started" \notin Outcomes
      BY DEF Outcomes, Failures
    <3> QED BY <2>1, <2>2, <2>3, <3>1, <3>2 DEF Acquainted, Concerns, Sessions
  <2> QED BY <2>1, <2>4 DEF RestFacts, Known
<1>7. ASSUME Close PROVE RestFacts'
  <2>1. closed' = TRUE /\ subscribed' = FALSE
        /\ UNCHANGED <<generation, active, sess, got, evidence, verdict, stage, current, late>>
    BY <1>7 DEF Close, observerVars, localVars, historyVars
  <2> QED BY <2>1 DEF RestFacts, Acquainted, Known
<1>8. ASSUME Start PROVE RestFacts'
  <2>1. /\ stage' = [stage EXCEPT ![<<0, 1>>] = "entering"] /\ ~closed /\ <<0, 1>> \in Jobs
        /\ UNCHANGED <<observerVars, got, evidence, verdict, current, closed, historyVars>>
    BY <1>8, ObsFirstJob DEF Start, Goto
  <2>2. stage[<<0, 1>>] = "unused"
    BY <1>8 DEF Start, Core, FreshUnused
  <2>3. UNCHANGED <<generation, active, late>>
    BY <2>1 DEF observerVars, historyVars
  <2> QED BY <1>0, <2>1, <2>2, <2>3, RestKept
<1>9. ASSUME NEW j \in Jobs,
             \/ GiveUp(j) \/ Exhaust(j) \/ ScheduleRetry(j) \/ StoreToken(j) \/ CancelToken(j)
             \/ Fire(j) \/ OnRetryDue(j) \/ Launch(j) \/ StartThread(j)
      PROVE  RestFacts'
  <2>1. UNCHANGED <<observerVars, got, evidence, verdict, current, closed, subscribed, late>>
    BY <1>9 DEF GiveUp, Exhaust, ScheduleRetry, StoreToken, CancelToken, Fire, OnRetryDue,
       Launch, StartThread, historyVars
  <2>2. ASSUME NEW k \in Jobs
        PROVE  stage'[k] = stage[k]
               \/ {stage[k], stage'[k]} \cap {"waiting", "handling"} = {}
    <3>1. CASE ScheduleRetry(j)
      <4>1. <<j[1], j[2] + 1>> \in Jobs /\ stage[<<j[1], j[2] + 1>>] = "unused"
        BY <3>1, RetryUnused DEF ScheduleRetry, Core, Early, Stages
      <4> QED BY <1>0, <3>1, <4>1 DEF ScheduleRetry
    <3>2. CASE StoreToken(j)
      <4>1. CASE Live(j[1])
        BY <1>0, <3>2, <4>1 DEF StoreToken, Goto
      <4>2. CASE ~Live(j[1])
        BY <1>0, <3>2, <4>2 DEF StoreToken
      <4> QED BY <4>1, <4>2
    <3>3. CASE GiveUp(j) \/ Exhaust(j) \/ CancelToken(j) \/ Fire(j) \/ OnRetryDue(j)
               \/ Launch(j) \/ StartThread(j)
      BY <1>0, <3>3 DEF GiveUp, Exhaust, CancelToken, Fire, OnRetryDue, Launch, StartThread, Goto
    <3> QED BY <1>9, <3>1, <3>2, <3>3
  <2>3. UNCHANGED <<generation, active>>
    BY <2>1 DEF observerVars
  <2> QED BY <2>1, <2>2, <2>3, RestKept DEF RestFacts
<1>10. ASSUME UNCHANGED Untouched \/ CloseObserver \/ Join \/ UNCHANGED vars, Quiet
       PROVE  RestFacts'
  <2>1. UNCHANGED <<got, evidence, verdict, stage, current, closed, subscribed, late>>
    BY <1>10 DEF Untouched, CloseObserver, Join, vars, localVars, historyVars
  <2>2. generation' = generation /\ active' \in {active, 0}
    BY <1>10, SessionQuiet
  <2> QED BY <2>1, <2>2, RestKept DEF RestFacts
<1>11. ASSUME CloseObserver \/ Join \/ UNCHANGED vars PROVE Quiet
  BY <1>11 DEF CloseObserver, Join, vars, Quiet
<1> QED
  BY <1>1, <1>2, <1>3, <1>4, <1>5, <1>6, <1>7, <1>8, <1>9, <1>10, <1>11
     DEF Next, System, Environment, Progress, Quiet

LEMMA AlwaysRestFacts == Spec => []RestFacts
BY RestInit, RestStep, AlwaysCore, PTL DEF Spec

(* Between cycles the supervisor follows the session that is active, unless   *)
(* that came up after its episode had timed out.                              *)
THEOREM RestsOnTheActiveSession == Spec => []RestsOnItsSession
<1>1. Core /\ RestFacts => RestsOnItsSession
  <2> SUFFICES ASSUME Core, RestFacts, subscribed, cycle = None
               PROVE  active \in {0, current, late}
    BY DEF RestsOnItsSession
  <2>1. \A j \in Jobs : ~InEpisode(j)
    BY ObsJobParts, ObservationAssumption DEF Core, EpisodeFacts, RestFacts
  <2>2. \A j \in Jobs : got[j] = 0
    BY <2>1 DEF RestFacts, Acquainted, InEpisode
  <2> QED BY <2>2 DEF RestFacts, Known
<1> QED BY AlwaysCore, AlwaysRestFacts, <1>1, PTL

(* The supervisor never goes back to an older session, however late an        *)
(* episode is handled.                                                        *)
THEOREM AdoptionOnlyForward == Spec => AdoptionMovesForward
<1>1. Core /\ RestFacts /\ [Next]_vars => [current' # current => current' > current]_vars
  <2> SUFFICES ASSUME Core, RestFacts, [Next]_vars, current' # current PROVE current' > current
    OBVIOUS
  <2>1. ASSUME NEW j \in Jobs, Complete(j) PROVE current' > current
    <3>1. current < got[j]
      BY <2>1 DEF Complete, RestFacts, Acquainted
    <3> QED BY <2>1, <3>1 DEF Complete
  <2>2. ASSUME NEW j \in Jobs, Progress(j), ~Complete(j) PROVE UNCHANGED current
    BY <2>2 DEF Progress, StartObservation, TakeEvidence, TimeOut, StepDown, GiveUp, Exhaust,
       ScheduleRetry, StoreToken, CancelToken, Fire, OnRetryDue, Launch, StartThread
  <2>3. ASSUME \/ UNCHANGED Untouched \/ UNCHANGED vars
               \/ Start \/ Deliver \/ Close \/ CloseObserver \/ Join
        PROVE  UNCHANGED current
    BY <2>3 DEF Untouched, vars, Start, Deliver, Close, CloseObserver, Join
  <2> QED BY <2>1, <2>2, <2>3 DEF Next, System, Environment
<1> QED BY AlwaysCore, AlwaysRestFacts, <1>1, PTL DEF Spec, AdoptionMovesForward

------------------------------------------------------------------------------
(* Every armed retry timer is about to be cancelled, is the stored one, or    *)
(* belongs to an attempt that is about to decide.                             *)
Accounted(j) ==
    stage[j] = "armed" =>
        /\ j[2] > 1
        /\ j \in doomed \/ token = j \/ stage[<<j[1], j[2] - 1>>] = "storing"

TimersAccounted == \A j \in Jobs : Accounted(j)

LEMMA TimersInit == Init => TimersAccounted
BY DEF Init, TimersAccounted, Accounted

LEMMA TimersStep == Core /\ TimersAccounted /\ [Next]_vars => TimersAccounted'
<1> SUFFICES ASSUME Core, TimersAccounted, [Next]_vars, NEW k \in Jobs, stage'[k] = "armed"
             PROVE  Accounted(k)'
  BY DEF TimersAccounted, Accounted
<1> USE ObservationAssumption
<1> DEFINE pred == <<k[1], k[2] - 1>>
<1>0. stage \in [Jobs -> Stages] /\ k[1] \in Cycles /\ k[2] \in Attempts /\ k = <<k[1], k[2]>>
  BY ObsJobParts DEF Core, Typed, SupervisorTyped
<1>1. k[2] > 1 => pred \in Jobs
  BY <1>0, ObsJobOf DEF Attempts
<1>2. Accounted(k)
  BY DEF TimersAccounted
<1>3. ASSUME stage[k] = "armed", stage[pred] = "storing" => stage'[pred] = "storing",
             k \in doomed \/ token = k => k \in doomed' \/ token' = k
      PROVE  Accounted(k)'
  BY <1>2, <1>3 DEF Accounted
<1>4. ASSUME NEW j \in Jobs, ScheduleRetry(j) PROVE Accounted(k)'
  <2>1. /\ j[1] \in Cycles /\ j[2] \in Attempts /\ j = <<j[1], j[2]>>
        /\ <<j[1], j[2] + 1>> \in Jobs /\ <<j[1], j[2] + 1>> # j
        /\ stage[<<j[1], j[2] + 1>>] = "unused"
    BY <1>4, RetryUnused, ObsJobParts DEF ScheduleRetry, Core, Early, Stages
  <2>2. CASE k = <<j[1], j[2] + 1>>
    <3>1. pred = j /\ k[2] > 1
      BY <2>1, <2>2 DEF Attempts
    <3>2. stage'[j] = "storing"
      BY <1>0, <1>4, <2>1 DEF ScheduleRetry
    <3> HIDE DEF pred
    <3>3. stage'[pred] = "storing"
      BY <3>1, <3>2
    <3> QED BY <3>1, <3>3 DEF Accounted, pred
  <2>3. CASE k # <<j[1], j[2] + 1>>
    <3>1. stage[k] = "armed" /\ UNCHANGED <<doomed, token>>
      BY <1>0, <1>4, <2>1, <2>3 DEF ScheduleRetry
    <3>2. stage[pred] = "storing" => stage'[pred] = "storing"
      BY <1>0, <1>1, <1>2, <1>4, <2>1, <3>1 DEF ScheduleRetry, Accounted
    <3> QED BY <1>3, <3>1, <3>2
  <2> QED BY <2>2, <2>3
<1>5. ASSUME NEW j \in Jobs, StoreToken(j) PROVE Accounted(k)'
  <2> DEFINE retry == <<j[1], j[2] + 1>>
  <2>1. /\ j[1] \in Cycles /\ j[2] \in Attempts /\ j = <<j[1], j[2]>> /\ retry \in Jobs
        /\ retry # j
    BY <1>5, ObsRetryJob, ObsJobParts DEF StoreToken, Attempts, Core, Typed, SupervisorTyped, StoringHasRetry
  <2>2. CASE Live(j[1])
    <3>1. /\ stage' = [stage EXCEPT ![j] = "over"] /\ token' = retry
          /\ doomed' = doomed \cup ({token} \ {None})
      BY <1>5, <2>2 DEF StoreToken, Goto
    <3>2. stage[k] = "armed"
      BY <1>0, <3>1
    <3>3. CASE k = retry
      BY <1>2, <3>1, <3>2, <3>3 DEF Accounted
    <3>4. CASE k # retry
      <4>1. pred # j
        BY <1>0, <2>1, <3>4 DEF Attempts
      <4>2. stage[pred] = "storing" => stage'[pred] = "storing"
        BY <1>0, <1>1, <1>2, <3>1, <3>2, <4>1 DEF Accounted
      <4>3. k # None
        OBVIOUS
      <4> QED BY <1>3, <3>1, <3>2, <4>2, <4>3
    <3> QED BY <3>3, <3>4
  <2>3. CASE ~Live(j[1])
    <3>1. /\ stage' = [stage EXCEPT ![j] = "over", ![retry] = IF @ = "armed" THEN "over" ELSE @]
          /\ UNCHANGED <<token, doomed>>
      BY <1>5, <2>3 DEF StoreToken
    <3>2. stage[k] = "armed" /\ k # retry
      BY <1>0, <2>1, <3>1
    <3>3. pred # j
      BY <1>0, <2>1, <3>2 DEF Attempts
    <3>4. stage[pred] = "storing" => stage'[pred] = "storing"
      BY <1>0, <1>1, <1>2, <2>1, <3>1, <3>2, <3>3 DEF Accounted
    <3> QED BY <1>3, <3>1, <3>2, <3>4
  <2> QED BY <2>2, <2>3
<1>6. ASSUME NEW t \in Jobs, OnRetryDue(t) PROVE Accounted(k)'
  <2>1. /\ stage[t] = "due" /\ UNCHANGED doomed
        /\ \E s \in {"launching", "over"} : stage' = [stage EXCEPT ![t] = s]
    BY <1>6 DEF OnRetryDue, Goto
  <2>2. stage[k] = "armed" /\ (stage[pred] = "storing" => stage'[pred] = "storing")
    BY <1>0, <1>1, <1>2, <2>1 DEF Accounted
  <2>3. ASSUME token = k PROVE token' = k
    <3>1. CASE Live(t[1])
      <4>1. k[1] = t[1]
        BY <2>3, <3>1 DEF Live, Core, CycleGated
      <4> QED BY <2>1, <2>2, <4>1, NoRivalInCycle DEF Core, Early, Stages
    <3>2. CASE ~Live(t[1])
      BY <1>6, <2>3, <3>2 DEF OnRetryDue
    <3> QED BY <3>1, <3>2
  <2> QED BY <1>3, <2>1, <2>2, <2>3
<1>7. ASSUME NEW t \in Jobs, CancelToken(t) PROVE Accounted(k)'
  <2>1. /\ stage' = [stage EXCEPT ![t] = IF @ = "armed" THEN "over" ELSE @]
        /\ doomed' = doomed \ {t} /\ UNCHANGED token
    BY <1>7 DEF CancelToken
  <2>2. stage[k] = "armed" /\ k # t /\ (stage[pred] = "storing" => stage'[pred] = "storing")
    BY <1>0, <1>1, <1>2, <2>1 DEF Accounted
  <2> QED BY <1>3, <2>1, <2>2
<1>8. ASSUME NEW j \in Jobs,
             \/ StartObservation(j) \/ TakeEvidence(j) \/ TimeOut(j) \/ Complete(j)
             \/ StepDown(j) \/ GiveUp(j) \/ Exhaust(j) \/ Fire(j) \/ Launch(j) \/ StartThread(j)
      PROVE  Accounted(k)'
  <2>1. /\ stage[j] # "storing" /\ \E s \in Stages \ {"armed"} : stage' = [stage EXCEPT ![j] = s]
    BY <1>8 DEF StartObservation, TakeEvidence, TimeOut, Complete, StepDown, GiveUp, Exhaust,
       Fire, Launch, StartThread, Goto, Stages
  <2>2. \/ UNCHANGED <<token, doomed>>
        \/ token' = None /\ doomed' = doomed \cup ({token} \ {None})
    BY <1>8 DEF StartObservation, TakeEvidence, TimeOut, Complete, StepDown, GiveUp, Exhaust,
       Fire, Launch, StartThread, EndCycle, Forget
  <2>3. stage[k] = "armed" /\ (stage[pred] = "storing" => stage'[pred] = "storing")
    BY <1>0, <1>1, <1>2, <2>1 DEF Accounted
  <2> QED BY <1>3, <2>2, <2>3
<1>9. ASSUME Start PROVE Accounted(k)'
  <2>1. /\ stage[<<0, 1>>] = "unused" /\ stage' = [stage EXCEPT ![<<0, 1>>] = "entering"]
        /\ UNCHANGED <<token, doomed>>
    BY <1>9 DEF Start, Goto, Core, FreshUnused
  <2>2. stage[k] = "armed" /\ (stage[pred] = "storing" => stage'[pred] = "storing")
    BY <1>0, <1>1, <1>2, <2>1, ObsFirstJob DEF Accounted
  <2> QED BY <1>3, <2>1, <2>2
<1>10. ASSUME Deliver PROVE Accounted(k)'
  <2>1. CASE UNCHANGED stage
    BY <1>3, <1>10, <2>1 DEF Deliver
  <2>2. CASE /\ Head(bus)[1] = "server_connection"
             /\ stage' = [stage EXCEPT ![<<Head(bus)[2], 1>>] = "launching"]
    <3>1. Head(bus) = bus[1] /\ 1 \in 1..Len(bus) /\ Head(bus)[2] \in Sessions
      BY <1>10 DEF Deliver, Core, Typed, ObserverTyped, ObserverTypeOK
    <3>2. stage[<<Head(bus)[2], 1>>] = "unused" /\ <<Head(bus)[2], 1>> \in Jobs
      BY <2>2, <3>1, ObsFirstJob DEF Core, FreshUnused
    <3>3. stage[k] = "armed" /\ (stage[pred] = "storing" => stage'[pred] = "storing")
      BY <1>0, <1>1, <1>2, <2>2, <3>2 DEF Accounted
    <3> QED BY <1>3, <1>10, <3>3 DEF Deliver
  <2> QED BY <1>10, <2>1, <2>2 DEF Deliver, OnObservationFailed, Goto
<1>11. ASSUME Close PROVE Accounted(k)'
  BY <1>3, <1>11 DEF Close, Forget, localVars
<1>12. ASSUME UNCHANGED Untouched \/ CloseObserver \/ Join \/ UNCHANGED vars PROVE Accounted(k)'
  BY <1>3, <1>12 DEF Untouched, CloseObserver, Join, vars, localVars
<1> QED
  BY <1>4, <1>5, <1>6, <1>7, <1>8, <1>9, <1>10, <1>11, <1>12
     DEF Next, System, Environment, Progress

------------------------------------------------------------------------------
(* How far close() has got, and what it can count on by then.                 *)
ClosingObserver ==
    Closer \in Stoppers =>
        /\ stop[Closer] # "idle" => obsClosed /\ closer # "idle"
        /\ stop[Closer] \in {"closing", "cutting", "joining"} =>
              target[Closer] \in Sessions /\ active \in {0, target[Closer]}
        /\ stop[Closer] = "done" => active = 0

ClosingAttempts ==
    /\ closer # "idle" => closed /\ Closer \in Stoppers
    /\ closer # "idle" => \A j \in Jobs : IsThread(j) /\ InEpisode(j) => joinee = j
    /\ closer = "returned" => stop[Closer] = "done" /\ \A j \in Jobs : IsThread(j) => ~InEpisode(j)

CloseFacts == ClosingObserver /\ ClosingAttempts

LEMMA CloseInit == Init => CloseFacts
BY DEF Init, ObserverInit, CloseFacts, ClosingObserver, ClosingAttempts

LEMMA ThreadMoves ==
    ASSUME [Next]_vars, closed
    PROVE  thread' \in {thread, None}
<1>1. ASSUME NEW j \in Jobs, Progress(j) PROVE thread' \in {thread, None}
  BY <1>1 DEF Progress, StartObservation, TakeEvidence, TimeOut, Complete, StepDown, GiveUp,
     Exhaust, ScheduleRetry, StoreToken, CancelToken, Fire, OnRetryDue, Launch, StartThread,
     ReleaseThread, Live
<1>2. ASSUME \/ UNCHANGED Untouched \/ UNCHANGED vars
             \/ Start \/ Deliver \/ Close \/ CloseObserver \/ Join
      PROVE  UNCHANGED thread
  BY <1>2 DEF Untouched, vars, Start, Deliver, Close, CloseObserver, Join
<1> QED BY <1>1, <1>2 DEF Next, System, Environment

LEMMA CloserMoves ==
    ASSUME [Next]_vars
    PROVE  \/ UNCHANGED <<closed, closer, joinee>>
           \/ Close
           \/ Join
<1>1. ASSUME NEW j \in Jobs, Progress(j) PROVE UNCHANGED <<closed, closer, joinee>>
  BY <1>1 DEF Progress, StartObservation, TakeEvidence, TimeOut, Complete, StepDown, GiveUp,
     Exhaust, ScheduleRetry, StoreToken, CancelToken, Fire, OnRetryDue, Launch, StartThread
<1>2. ASSUME \/ UNCHANGED Untouched \/ UNCHANGED vars \/ Start \/ Deliver \/ CloseObserver
      PROVE  UNCHANGED <<closed, closer, joinee>>
  BY <1>2 DEF Untouched, vars, Start, Deliver, CloseObserver
<1> QED BY <1>1, <1>2 DEF Next, System, Environment

LEMMA StopMoves ==
    ASSUME Core, CloseFacts, [Next]_vars, Closer \in Stoppers, stop'[Closer] # stop[Closer]
    PROVE  (stop[Closer] = "idle" /\ CallClose(Closer) /\ closer = "observer") \/ StopStep(Closer)
<1>0. stop \in [Stoppers -> StopStages]
  BY DEF Core, Typed, ObserverTyped, ObserverTypeOK
<1>1. ASSUME NEW g \in Sessions, SessionStep(g) \/ StreamFails(g) \/ PublishRaises(g)
      PROVE  UNCHANGED stop
  BY <1>1 DEF SessionStep, Register, Connected, Advance, OpenFails, OpenAbandoned,
     PublishStarted, StreamCut, MarkInactive, PublishTerminal, StreamFails, PublishRaises, EndWith
<1>2. ASSUME StartSession \/ Received \/ UNCHANGED observerVars PROVE UNCHANGED stop
  BY <1>2 DEF StartSession, Received, observerVars
<1>3. ASSUME NEW p \in Stoppers, p # Closer, CallStop(p) \/ StopStep(p)
      PROVE  stop'[Closer] = stop[Closer]
  BY <1>0, <1>3 DEF CallStop, StopStep, StopRead, SourceClose, CutSocket, Joined
<1> QED BY ObserverAttended, <1>1, <1>2, <1>3 DEF Attends, CallClose

LEMMA TargetMoves ==
    ASSUME Core, [Next]_vars, Closer \in Stoppers, ~StopRead(Closer)
    PROVE  target'[Closer] = target[Closer]
<1>0. target \in [Stoppers -> 0..MaxSessions]
  BY DEF Core, Typed, ObserverTyped, ObserverTypeOK
<1>1. ASSUME NEW g \in Sessions, SessionStep(g) \/ StreamFails(g) \/ PublishRaises(g)
      PROVE  UNCHANGED target
  BY <1>1 DEF SessionStep, Register, Connected, Advance, OpenFails, OpenAbandoned,
     PublishStarted, StreamCut, MarkInactive, PublishTerminal, StreamFails, PublishRaises, EndWith
<1>2. ASSUME StartSession \/ Received \/ CallClose(Closer) \/ UNCHANGED observerVars
      PROVE  UNCHANGED target
  BY <1>2 DEF StartSession, Received, CallClose, observerVars
<1>3. ASSUME NEW p \in Stoppers, CallStop(p) \/ StopStep(p)
      PROVE  target'[Closer] = target[Closer]
  BY <1>0, <1>3 DEF CallStop, StopStep, StopRead, SourceClose, CutSocket, Joined
<1> QED BY ObserverAttended, <1>1, <1>2, <1>3 DEF Attends

LEMMA ActiveMoves ==
    ASSUME [Next]_vars, obsClosed
    PROVE  obsClosed' /\ active' \in {active, 0}
<1>1. ASSUME Attends \/ UNCHANGED observerVars PROVE obsClosed'
  <2>1. ASSUME NEW g \in Sessions, SessionStep(g) \/ StreamFails(g) \/ PublishRaises(g)
        PROVE  UNCHANGED obsClosed
    BY <2>1 DEF SessionStep, Register, Connected, Advance, OpenFails, OpenAbandoned,
       PublishStarted, StreamCut, MarkInactive, PublishTerminal, StreamFails, PublishRaises, EndWith
  <2>2. ASSUME \/ \E p \in Stoppers : CallStop(p) \/ StopStep(p)
               \/ StartSession \/ Received \/ UNCHANGED observerVars
        PROVE  UNCHANGED obsClosed
    BY <2>2 DEF CallStop, StopStep, StopRead, SourceClose, CutSocket, Joined, StartSession,
       Received, observerVars
  <2> QED BY <1>1, <2>1, <2>2 DEF Attends, CallClose
<1>2. ~StartSession
  BY DEF StartSession, StartAccepted
<1>3. Received => UNCHANGED active
  BY DEF Received
<1> QED BY ObserverAttended, SessionQuiet, <1>1, <1>2, <1>3 DEF Attends, Quiet

LEMMA CloseStep == Core /\ CloseFacts /\ [Next]_vars => CloseFacts'
<1> SUFFICES ASSUME Core, CloseFacts, [Next]_vars PROVE CloseFacts'
  OBVIOUS
<1> USE ObserverAssumption, ObservationAssumption
<1>0. Core'
  BY TypedStep, SessionStepKeeps, TerminalStep, FreshStep, SequencedStep, MadeByStartStep,
     GateStep, EpisodeStep DEF Core
<1>1. ClosingObserver'
  <2> SUFFICES ASSUME Closer \in Stoppers PROVE ClosingObserver'
    BY DEF ClosingObserver
  <2>0. /\ stop \in [Stoppers -> StopStages] /\ target \in [Stoppers -> 0..MaxSessions]
        /\ active \in 0..MaxSessions /\ sess \in [Sessions -> SessionStages]
    BY DEF Core, Typed, ObserverTyped, ObserverTypeOK
  <2>1. closer # "idle" => closer' # "idle"
    BY CloserMoves DEF Close, Join, CloseFacts, ClosingAttempts
  <2>2. CASE stop'[Closer] = stop[Closer]
    <3>1. CASE stop[Closer] = "idle"
      BY <2>2, <3>1 DEF ClosingObserver
    <3>2. CASE stop[Closer] # "idle"
      <4>1. obsClosed' /\ active' \in {active, 0}
        BY <3>2, ActiveMoves DEF CloseFacts, ClosingObserver
      <4>2. CASE ~StopRead(Closer)
        BY <2>1, <2>2, <4>1, <4>2, TargetMoves DEF CloseFacts, ClosingObserver
      <4>3. CASE StopRead(Closer)
        BY <2>0, <2>2, <4>3 DEF StopRead
      <4> QED BY <4>2, <4>3
    <3> QED BY <3>1, <3>2
  <2>3. CASE stop[Closer] = "idle" /\ CallClose(Closer) /\ closer = "observer"
    <3>1. obsClosed' /\ stop'[Closer] = "reading"
      BY <2>0, <2>3 DEF CallClose
    <3> QED BY <2>1, <2>3, <3>1 DEF ClosingObserver
  <2>4. CASE StopStep(Closer)
    <3>0. stop[Closer] # "idle" /\ obsClosed /\ closer # "idle" /\ closer' # "idle"
      BY <2>1, <2>4 DEF StopStep, StopRead, SourceClose, CutSocket, Joined, CloseFacts, ClosingObserver
    <3>1. UNCHANGED <<obsClosed, active, sess>>
      BY <2>4 DEF StopStep, StopRead, SourceClose, CutSocket, Joined
    <3>2. CASE StopRead(Closer)
      BY <2>0, <3>0, <3>1, <3>2 DEF StopRead, ClosingObserver, Sessions
    <3>3. CASE SourceClose(Closer) \/ CutSocket(Closer)
      BY <2>0, <3>0, <3>1, <3>3 DEF SourceClose, CutSocket, CloseFacts, ClosingObserver
    <3>4. CASE Joined(Closer)
      <4>1. /\ sess[target[Closer]] = "ended" /\ target[Closer] \in Sessions
            /\ active \in {0, target[Closer]} /\ stop'[Closer] = "done"
        BY <2>0, <3>4 DEF Joined, CloseFacts, ClosingObserver
      <4>2. active = 0
        BY <4>1 DEF Core, SessionFacts, OneSession, Running, Sessions
      <4> QED BY <3>0, <3>1, <4>1, <4>2 DEF ClosingObserver
    <3> QED BY <2>4, <3>2, <3>3, <3>4 DEF StopStep
  <2> QED BY <2>2, <2>3, <2>4, StopMoves
<1>2. ASSUME closed, NEW j \in Jobs, IsThread(j), InEpisode(j)' PROVE InEpisode(j)
  <2>1. thread' = j
    BY <1>0, <1>2 DEF Core, EpisodeFacts, OneEpisode, IsThread
  <2>2. thread = j
    BY <1>2, <2>1, ThreadMoves
  <2> QED BY <2>2 DEF Core, EpisodeFacts
<1>3. ClosingAttempts'
  <2>1. CASE Close
    <3>1. /\ closed' /\ Closer \in Stoppers /\ closer' = "observer" /\ joinee' = thread
          /\ UNCHANGED stage
      BY <2>1 DEF Close, localVars
    <3> QED BY <3>1 DEF ClosingAttempts, InEpisode, Core, EpisodeFacts, OneEpisode
  <2>2. CASE Join
    <3>1. /\ closer = "observer" /\ stop[Closer] = "done" /\ UNCHANGED <<stage, stop, closed, joinee>>
          /\ closer' \in {"returned", "error"}
          /\ closer' = "returned" => joinee = None \/ stage[joinee] = "over"
      BY <2>2 DEF Join, observerVars, localVars
    <3> QED BY <3>1 DEF CloseFacts, ClosingAttempts, InEpisode
  <2>3. CASE UNCHANGED <<closed, closer, joinee>>
    <3>1. ASSUME closer = "returned" PROVE stop'[Closer] = "done"
      <4>1. Closer \in Stoppers /\ stop[Closer] = "done"
        BY <3>1 DEF CloseFacts, ClosingAttempts
      <4>2. ~StopStep(Closer)
        BY <4>1 DEF StopStep, StopRead, SourceClose, CutSocket, Joined
      <4> QED BY <4>1, <4>2, StopMoves
    <3> QED BY <1>2, <2>3, <3>1 DEF CloseFacts, ClosingAttempts, IsThread
  <2> QED BY <2>1, <2>2, <2>3, CloserMoves
<1> QED BY <1>1, <1>3 DEF CloseFacts

(* When close() returns no session is active, no attempt thread is in an      *)
(* episode, and no retry timer is left that nobody will cancel.               *)
THEOREM ClosingQuiesces == Spec => []CloseQuiesces
<1>1. Core /\ CloseFacts /\ TimersAccounted => CloseQuiesces
  <2> SUFFICES ASSUME Core, CloseFacts, TimersAccounted, closer = "returned"
               PROVE  /\ active = 0
                      /\ \A j \in Jobs : IsThread(j) => ~InEpisode(j)
                      /\ \A j \in Jobs : stage[j] = "armed" =>
                            j \in doomed \/ stage[<<j[1], j[2] - 1>>] = "storing"
    BY DEF CloseQuiesces
  <2>1. closed /\ Closer \in Stoppers /\ stop[Closer] = "done"
    BY DEF CloseFacts, ClosingAttempts
  <2>2. token = None
    BY <2>1, NoTokenAtRest DEF Core, CycleGated
  <2>3. \A j \in Jobs : token # j
    BY <2>2, ObservationAssumption
  <2> QED BY <2>1, <2>3 DEF CloseFacts, ClosingObserver, ClosingAttempts, TimersAccounted, Accounted
<1> QED BY CloseInit, CloseStep, TimersInit, TimersStep, AlwaysCore, <1>1, PTL DEF Spec
------------------------------------------------------------------------------
(* A token is taken out of _retry_token only when its cycle gives way to      *)
(* another or to none, or when a later store overtakes it; a cycle that opens *)
(* has its first attempt on the way.                                          *)
GoesOn == cycle' = cycle /\ (doomed' \subseteq doomed \/ overtaken')
Opened == cycle' # None => cycle' \in Cycles /\ stage'[<<cycle', 1>>] \in {"entering", "launching"}

LEMMA CycleGoesOn ==
    ASSUME Core, [Next]_vars
    PROVE  GoesOn \/ Opened
<1> USE ObservationAssumption DEF GoesOn, Opened, Goto, Forget
<1>0. stage \in [Jobs -> Stages] /\ token \in Jobs \cup {None}
  BY DEF Core, Typed, SupervisorTyped
<1>1. ASSUME Start PROVE Opened
  BY <1>0, <1>1, ObsFirstJob DEF Start, Cycles, Jobs
<1>2. ASSUME NEW j \in Jobs, Complete(j) \/ GiveUp(j) \/ Exhaust(j) PROVE GoesOn \/ Opened
  BY <1>2 DEF Complete, GiveUp, Exhaust, EndCycle
<1>3. ASSUME NEW j \in Jobs, StoreToken(j) PROVE GoesOn
  <2>1. CASE Live(j[1])
    <3>1. CASE token = None
      BY <1>3, <2>1, <3>1 DEF StoreToken
    <3>2. CASE token # None
      <4>1. overtaken' = (overtaken \/ token # None)
        BY <1>3, <2>1, Zenon DEF StoreToken
      <4>2. overtaken'
        BY <3>2, <4>1, Zenon
      <4> QED BY <1>3, <4>2 DEF StoreToken
    <3> QED BY <3>1, <3>2
  <2>2. CASE ~Live(j[1])
    BY <1>3, <2>2 DEF StoreToken
  <2> QED BY <2>1, <2>2
<1>4. ASSUME NEW j \in Jobs, CancelToken(j) PROVE GoesOn
  BY <1>4 DEF CancelToken
<1>5. ASSUME Deliver PROVE GoesOn \/ Opened
  <2>1. CASE UNCHANGED <<cycle, stage>>
    BY <1>5, <2>1 DEF Deliver
  <2>2. CASE /\ cycle' = Head(bus)[2]
             /\ stage' = [stage EXCEPT ![<<Head(bus)[2], 1>>] = "launching"]
    <3>1. Head(bus)[2] \in Sessions
      BY <1>5 DEF Deliver, Core, Typed, ObserverTyped, ObserverTypeOK
    <3> QED BY <1>0, <2>2, <3>1, ObsFirstJob
  <2> QED BY <1>5, <2>1, <2>2 DEF Deliver, OnObservationFailed
<1>6. ASSUME Close PROVE Opened
  BY <1>6 DEF Close
<1> DEFINE Same == UNCHANGED <<cycle, doomed>>
<1>7. ASSUME NEW j \in Jobs,
             \/ StartObservation(j) \/ TakeEvidence(j) \/ TimeOut(j) \/ StepDown(j)
             \/ ScheduleRetry(j) \/ Fire(j) \/ OnRetryDue(j) \/ Launch(j) \/ StartThread(j)
      PROVE  Same
  BY <1>7 DEF StartObservation, TakeEvidence, TimeOut, StepDown, ScheduleRetry, Fire, OnRetryDue,
     Launch, StartThread
<1>8. ASSUME UNCHANGED Untouched \/ CloseObserver \/ Join \/ UNCHANGED vars PROVE Same
  BY <1>8 DEF Untouched, CloseObserver, Join, vars
<1>9. ASSUME Same PROVE GoesOn
  BY <1>9
<1> HIDE DEF GoesOn, Opened, Same
<1> QED
  BY <1>1, <1>2, <1>3, <1>4, <1>5, <1>6, <1>7, <1>8, <1>9 DEF Next, System, Environment, Progress

(* A token is only heard of once its timer has been armed.                    *)
TokensSeen ==
    /\ \A t \in doomed : stage[t] # "unused"
    /\ token # None => stage[token] # "unused"
    /\ \A j \in Jobs : stage[j] = "storing" => stage[<<j[1], j[2] + 1>>] # "unused"

TokenMoves == /\ doomed' \subseteq doomed \cup ({token} \ {None})
              /\ \/ token' \in {token, None}
                 \/ \E j \in Jobs : stage[j] = "storing" /\ token' = <<j[1], j[2] + 1>>

LEMMA TokenMove ==
    ASSUME [Next]_vars
    PROVE  TokenMoves
<1> DEFINE Same == UNCHANGED <<token, doomed>>
<1> USE DEF TokenMoves, Forget
<1>1. ASSUME NEW j \in Jobs, Complete(j) \/ GiveUp(j) \/ Exhaust(j) PROVE TokenMoves
  BY <1>1 DEF Complete, GiveUp, Exhaust, EndCycle
<1>2. ASSUME NEW j \in Jobs, StoreToken(j) PROVE TokenMoves
  BY <1>2 DEF StoreToken
<1>3. ASSUME NEW j \in Jobs, CancelToken(j) \/ OnRetryDue(j) PROVE TokenMoves
  BY <1>3 DEF CancelToken, OnRetryDue
<1>4. ASSUME Close PROVE TokenMoves
  BY <1>4 DEF Close
<1>5. ASSUME NEW j \in Jobs,
             \/ StartObservation(j) \/ TakeEvidence(j) \/ TimeOut(j) \/ StepDown(j)
             \/ ScheduleRetry(j) \/ Fire(j) \/ Launch(j) \/ StartThread(j)
      PROVE  Same
  BY <1>5 DEF StartObservation, TakeEvidence, TimeOut, StepDown, ScheduleRetry, Fire, Launch,
     StartThread
<1>6. ASSUME \/ Start \/ Deliver \/ UNCHANGED Untouched \/ CloseObserver \/ Join
             \/ UNCHANGED vars
      PROVE  Same
  BY <1>6 DEF Start, Deliver, Untouched, CloseObserver, Join, vars
<1>7. ASSUME Same PROVE TokenMoves
  BY <1>7
<1> HIDE DEF Same, TokenMoves
<1> QED
  BY <1>1, <1>2, <1>3, <1>4, <1>5, <1>6, <1>7 DEF Next, System, Environment, Progress

LEMMA TokensInit == Init => TokensSeen
BY DEF Init, TokensSeen

LEMMA TokensStep == Core /\ TokensSeen /\ [Next]_vars => TokensSeen'
<1> SUFFICES ASSUME Core, TokensSeen, [Next]_vars PROVE TokensSeen'
  OBVIOUS
<1>0. Typed /\ token \in Jobs \cup {None} /\ doomed \subseteq Jobs /\ StoringHasRetry
  BY DEF Core, Typed, SupervisorTyped
<1>1. ASSUME NEW k \in Jobs, stage'[k] = "unused" PROVE stage[k] = "unused"
  BY <1>0, <1>1, StageMoves DEF Begun, Reopened, Retried, Moved, Forward
<1>2. TokenMoves
  BY TokenMove
<1>3. ASSUME NEW j \in Jobs, stage[j] = "storing"
      PROVE  <<j[1], j[2] + 1>> \in Jobs /\ stage[<<j[1], j[2] + 1>>] # "unused"
  BY <1>0, <1>3, ObsRetryJob DEF StoringHasRetry, TokensSeen
<1>4. \A t \in doomed' : stage'[t] # "unused"
  BY <1>0, <1>1, <1>2 DEF TokenMoves, TokensSeen
<1>5. token' # None => stage'[token'] # "unused"
  BY <1>0, <1>1, <1>2, <1>3 DEF TokenMoves, TokensSeen
<1>6. ASSUME NEW j \in Jobs, stage'[j] = "storing"
      PROVE  stage'[<<j[1], j[2] + 1>>] # "unused"
  <2>1. CASE stage[j] = "storing"
    BY <1>1, <1>3, <2>1
  <2>2. CASE stage[j] # "storing"
    BY <1>0, <1>6, <2>2, StageMoves DEF Begun, Reopened, Retried, Moved, Forward
  <2> QED BY <2>1, <2>2
<1> QED BY <1>4, <1>5, <1>6 DEF TokensSeen

------------------------------------------------------------------------------
(* The driver of a live cycle stays on its way, or arms the next retry.       *)
Under == {"due", "launching", "registered", "entering", "waiting", "handling", "ending", "retrying"}

Arms(k) == /\ stage[k] = "retrying" /\ k[2] < MaxAttempts
           /\ stage'[<<k[1], k[2] + 1>>] = "armed"

LEMMA NoThreadBeforeLaunch ==
    ASSUME Core, NEW k \in Jobs, cycle = k[1], ~closed, stage[k] = "launching"
    PROVE  thread = None
<1> SUFFICES ASSUME thread # None PROVE FALSE
  OBVIOUS
<1>1. thread \in Jobs /\ InEpisode(thread) /\ thread[1] = k[1]
  BY DEF Core, Typed, SupervisorTyped, EpisodeFacts
<1>2. thread = k
  BY <1>1, NoRivalInCycle DEF Core, InEpisode, Early, Stages
<1> QED BY <1>1, <1>2 DEF InEpisode

LEMMA DriverMoves ==
    ASSUME Core, [Next]_vars, NEW k \in Jobs, cycle = k[1], cycle' = cycle, Driving(k)
    PROVE  stage'[k] \in Under \cup {"armed"} \/ Arms(k)
<1> DEFINE P == stage'[k] \in Under \cup {"armed"} \/ Arms(k)
<1>0. /\ k[1] \in Cycles /\ cycle # None /\ stage[k] \in Under \cup {"armed"}
      /\ stage[k] = "armed" => k \notin doomed
      /\ Live(k[1]) /\ subscribed /\ stage \in [Jobs -> Stages]
  BY ObsJobParts, ObservationAssumption
     DEF Driving, Under, Core, CycleGated, Live, Typed, SupervisorTyped
<1>1. ASSUME UNCHANGED stage PROVE P
  BY <1>0, <1>1
<1> USE DEF Under, Goto
<1>2. ASSUME Start PROVE P
  BY <1>0, <1>2 DEF Start, Core, CycleGated
<1>3. ASSUME NEW j \in Jobs, StartObservation(j) \/ TakeEvidence(j) \/ TimeOut(j) PROVE P
  BY <1>0, <1>3 DEF StartObservation, TakeEvidence, TimeOut
<1>4. ASSUME NEW j \in Jobs, Complete(j) \/ GiveUp(j) \/ Exhaust(j) PROVE P
  <2>1. j # k
    BY <1>0, <1>4 DEF Complete, GiveUp, Exhaust, EndCycle, Live
  <2> QED BY <1>0, <1>4, <2>1 DEF Complete, GiveUp, Exhaust
<1>5. ASSUME NEW j \in Jobs, StepDown(j) PROVE P
  BY <1>0, <1>5 DEF StepDown
<1>6. ASSUME NEW j \in Jobs, ScheduleRetry(j) PROVE P
  <2>1. <<j[1], j[2] + 1>> \in Jobs
    BY <1>6, ObsRetryJob DEF ScheduleRetry
  <2> QED BY <1>0, <1>6, <2>1 DEF ScheduleRetry, Arms
<1>7. ASSUME NEW j \in Jobs, StoreToken(j) PROVE P
  <2>1. <<j[1], j[2] + 1>> \in Jobs
    BY <1>7, ObsRetryJob DEF StoreToken, Core, Typed, SupervisorTyped, StoringHasRetry
  <2>2. ~Live(j[1]) => <<j[1], j[2] + 1>> # k
    BY <1>0
  <2> QED BY <1>0, <1>7, <2>1, <2>2 DEF StoreToken
<1>8. ASSUME NEW j \in Jobs, CancelToken(j) \/ Fire(j) PROVE P
  BY <1>0, <1>8 DEF CancelToken, Fire
<1>9. ASSUME NEW j \in Jobs, OnRetryDue(j) \/ StartThread(j) PROVE P
  BY <1>0, <1>9 DEF OnRetryDue, StartThread
<1>10. ASSUME NEW j \in Jobs, Launch(j) PROVE P
  <2>1. j = k => thread = None
    BY <1>0, <1>10, NoThreadBeforeLaunch DEF Launch, Live
  <2> QED BY <1>0, <1>10, <2>1 DEF Launch
<1>11. ASSUME Deliver PROVE P
  <2>1. UNCHANGED stage
    BY <1>0, <1>11 DEF Deliver, OnObservationFailed
  <2> QED BY <1>1, <2>1
<1>12. ASSUME UNCHANGED Untouched \/ Close \/ CloseObserver \/ Join \/ UNCHANGED vars
       PROVE  UNCHANGED stage
  BY <1>12 DEF Untouched, Close, CloseObserver, Join, vars, localVars
<1> HIDE DEF P
<1>13. P
  BY <1>1, <1>2, <1>3, <1>4, <1>5, <1>6, <1>7, <1>8, <1>9, <1>10, <1>11, <1>12
     DEF Next, System, Environment, Progress
<1> QED BY <1>13 DEF P

LEMMA OvertakenStays ==
    ASSUME [Next]_vars, overtaken
    PROVE  overtaken'
<1>1. ASSUME UNCHANGED overtaken PROVE overtaken'
  BY <1>1
<1>2. ASSUME NEW j \in Jobs,
             \/ StartObservation(j) \/ TakeEvidence(j) \/ TimeOut(j) \/ Complete(j)
             \/ StepDown(j) \/ GiveUp(j) \/ Exhaust(j) \/ ScheduleRetry(j) \/ CancelToken(j)
             \/ Fire(j) \/ OnRetryDue(j) \/ Launch(j) \/ StartThread(j)
      PROVE  UNCHANGED overtaken
  BY <1>2 DEF StartObservation, TakeEvidence, TimeOut, Complete, StepDown, GiveUp, Exhaust,
     ScheduleRetry, CancelToken, Fire, OnRetryDue, Launch, StartThread, historyVars
<1>3. ASSUME NEW j \in Jobs, StoreToken(j) PROVE overtaken'
  <2>1. CASE Live(j[1])
    <3>1. overtaken' = (overtaken \/ token # None)
      BY <1>3, <2>1, Zenon DEF StoreToken
    <3> QED BY <3>1, Zenon
  <2>2. CASE ~Live(j[1])
    BY <1>1, <1>3, <2>2 DEF StoreToken
  <2> QED BY <2>1, <2>2
<1>4. ASSUME \/ Start \/ Deliver \/ Close \/ UNCHANGED Untouched \/ CloseObserver \/ Join
             \/ UNCHANGED vars
      PROVE  UNCHANGED overtaken
  BY <1>4 DEF Start, Deliver, Close, Untouched, CloseObserver, Join, vars, historyVars
<1> QED BY <1>1, <1>2, <1>3, <1>4 DEF Next, System, Environment, Progress

LEMMA DriverInit == Init => CycleHasDriverUnless
BY DEF Init, CycleHasDriverUnless

LEMMA DriverStep ==
    Core /\ TokensSeen /\ CycleHasDriverUnless /\ [Next]_vars => CycleHasDriverUnless'
<1> SUFFICES ASSUME Core, TokensSeen, CycleHasDriverUnless, [Next]_vars, cycle' # None,
                    ~overtaken'
             PROVE  \E n \in Attempts : Driving(<<cycle, n>>)'
  BY DEF CycleHasDriverUnless
<1>0. 1 \in Attempts /\ Typed /\ Sequenced /\ cycle \in Cycles \cup {None}
  BY ObservationAssumption DEF Attempts, Core, Typed, SupervisorTyped
<1>1. CASE Opened
  <2>1. stage'[<<cycle', 1>>] \in {"entering", "launching"}
    BY <1>1 DEF Opened
  <2> QED BY <1>0, <2>1 DEF Driving
<1>2. CASE GoesOn
  <2>1. ~overtaken /\ cycle' = cycle /\ cycle # None /\ doomed' \subseteq doomed
    BY <1>2, OvertakenStays DEF GoesOn
  <2>2. PICK n \in Attempts : Driving(<<cycle, n>>)
    BY <2>1 DEF CycleHasDriverUnless
  <2> DEFINE k == <<cycle, n>>
  <2>3. k \in Jobs /\ k[1] = cycle /\ k[2] = n
    BY <1>0, <2>1, ObsJobOf
  <2>4. Driving(k) /\ k = <<cycle', n>>
    BY <2>1, <2>2
  <2> HIDE DEF k
  <2>5. stage[k] \in Early \ {"unused"} /\ (stage[k] = "armed" => k \notin doomed)
    BY <2>4 DEF Driving, Early, Stages
  <2>6. CASE Arms(k)
    <3> DEFINE r == <<cycle, n + 1>>
    <3>1. n + 1 \in Attempts /\ stage[r] = "unused" /\ stage'[r] = "armed"
      BY <2>3, <2>5, <2>6, RetryUnused, ObservationAssumption, <1>0 DEF Arms, Attempts
    <3>2. r \notin doomed /\ r = <<cycle', n + 1>>
      BY <2>1, <3>1 DEF TokensSeen
    <3> HIDE DEF r
    <3>3. stage'[<<cycle', n + 1>>] = "armed" /\ <<cycle', n + 1>> \notin doomed'
      BY <2>1, <3>1, <3>2
    <3> QED BY <3>1, <3>3 DEF Driving
  <2>7. CASE stage'[k] \in Under
    BY <2>4, <2>7 DEF Under, Driving
  <2>8. CASE stage'[k] = "armed"
    <3>1. ~Retried(k)
      <4> SUFFICES ASSUME NEW j \in Jobs, k = <<j[1], j[2] + 1>>, stage[j] = "retrying"
                   PROVE  FALSE
        BY DEF Retried
      <4>1. j[2] < MaxAttempts /\ j[2] + 1 = n
        BY <2>3, ObsJobParts, ObservationAssumption DEF Attempts
      <4>2. stage[k] = "unused"
        BY <1>0, <4>1, RetryUnused DEF Early, Stages
      <4> QED BY <2>5, <4>2
    <3>2. stage[k] = "armed"
      BY <1>0, <2>3, <2>8, <3>1, StageMoves DEF Begun, Reopened, Moved, Forward
    <3>3. k \notin doomed'
      BY <2>1, <2>5, <3>2
    <3> QED BY <2>4, <2>8, <3>3 DEF Driving
  <2> QED BY <2>1, <2>3, <2>4, <2>6, <2>7, <2>8, DriverMoves
<1> QED BY <1>1, <1>2, CycleGoesOn

(* A live establishment cycle is always driven on, unless a retry was stored  *)
(* over a newer one (devices_observation.py 141-154, 177-194, 283-294).       *)
THEOREM LiveCyclesAreDriven == Spec => []CycleHasDriverUnless
<1>1. Spec => []TokensSeen
  BY TokensInit, TokensStep, AlwaysCore, PTL DEF Spec
<1> QED BY DriverInit, DriverStep, <1>1, AlwaysCore, PTL DEF Spec
------------------------------------------------------------------------------
(* The attempts as RecoveryCycle sees them: only the job that moves changes.  *)
Moves(j) ==
    \A k \in Jobs :
       /\ stage'[k] = "unused" <=> stage[k] = "unused"
       /\ k # j => stage'[k] = stage[k] \/ (stage[k] = "storing" /\ stage'[k] = "over")

LEMMA OneMove ==
    ASSUME Core, NEW j \in Jobs, NEW s, stage' = [stage EXCEPT ![j] = s],
           stage[j] # "unused", s # "unused"
    PROVE  Moves(j) /\ stage'[j] = s
BY DEF Moves, Core, Typed, SupervisorTyped

LEMMA AttemptMoves ==
    ASSUME NEW j \in Jobs, Moves(j)
    PROVE  /\ Attempted' = [Attempted EXCEPT ![j] = AttemptOf(j)']
           /\ OpenedCycles' = OpenedCycles
           /\ HandedOn(j)' <=> HandedOn(j)
<1>1. ASSUME NEW k \in Jobs PROVE HandedOn(k)' <=> HandedOn(k)
  <2>1. CASE k[2] < MaxAttempts
    <3>1. <<k[1], k[2] + 1>> \in Jobs
      BY <2>1, ObsRetryJob
    <3> QED BY <3>1 DEF HandedOn, Moves
  <2>2. CASE ~(k[2] < MaxAttempts)
    BY <2>2 DEF HandedOn
  <2> QED BY <2>1, <2>2
<1>2. ASSUME NEW k \in Jobs, k # j PROVE AttemptOf(k)' = AttemptOf(k)
  BY <1>1, <1>2 DEF AttemptOf, Moves
<1>3. ASSUME NEW c \in Cycles PROVE stage'[<<c, 1>>] = "unused" <=> stage[<<c, 1>>] = "unused"
  <2>1. <<c, 1>> \in Jobs
    BY ObsJobOf, ObservationAssumption DEF Attempts
  <2> QED BY <2>1 DEF Moves
<1> QED BY <1>1, <1>2, <1>3 DEF Attempted, OpenedCycles

LEMMA NoAttemptMoves ==
    ASSUME stage' = stage
    PROVE  UNCHANGED <<Attempted, OpenedCycles>>
<1>1. ASSUME NEW k \in Jobs PROVE AttemptOf(k)' = AttemptOf(k)
  BY DEF AttemptOf, HandedOn
<1> QED BY <1>1 DEF Attempted, OpenedCycles

LEMMA NoneAfter ==
    ASSUME Core, NEW j \in Jobs, stage[j] \in Early
    PROVE  ~HandedOn(j)
BY RetryUnused DEF HandedOn, Core

(* A job that has not begun is the attempt to be made next in a cycle that    *)
(* was opened.                                                                *)
LEMMA AwaitedIsNext ==
    ASSUME Core, NEW j \in Jobs, stage[j] \in {"armed", "due", "launching"}
    PROVE  /\ Attempted[j] = "waiting"
           /\ j[2] = 1 \/ Attempted[<<j[1], j[2] - 1>>] = "handed on"
           /\ j[1] \in OpenedCycles
<1>1. Attempted[j] = "waiting"
  BY DEF Attempted, AttemptOf
<1>2. /\ j[1] \in Cycles /\ j[2] \in Attempts /\ j = <<j[1], j[2]>> /\ 1 \in Attempts
      /\ stage \in [Jobs -> Stages]
  BY ObsJobParts, ObservationAssumption DEF Attempts, Core, Typed, SupervisorTyped
<1>3. ASSUME NEW m \in Attempts, m < j[2] PROVE stage[<<j[1], m>>] \in {"storing", "over"}
  <2>1. stage[<<j[1], m>>] \notin Early
    BY <1>2, <1>3 DEF Core, Sequenced
  <2>2. <<j[1], m>> \in Jobs
    BY <1>2, ObsJobOf
  <2> QED BY <1>2, <2>1, <2>2 DEF Early
<1>4. j[1] \in OpenedCycles
  <2>1. CASE j[2] = 1
    BY <1>2, <2>1 DEF OpenedCycles
  <2>2. CASE j[2] # 1
    <3>1. stage[<<j[1], 1>>] \in {"storing", "over"}
      BY <1>2, <1>3, <2>2, ObservationAssumption DEF Attempts
    <3> QED BY <1>2, <3>1 DEF OpenedCycles
  <2> QED BY <2>1, <2>2
<1>5. ASSUME j[2] # 1 PROVE Attempted[<<j[1], j[2] - 1>>] = "handed on"
  <2> DEFINE p == <<j[1], j[2] - 1>>
  <2>1. j[2] - 1 \in Attempts /\ j[2] - 1 < j[2] /\ j[2] - 1 < MaxAttempts /\ j[2] - 1 + 1 = j[2]
    BY <1>2, <1>5, ObservationAssumption DEF Attempts
  <2>2. p \in Jobs /\ p[1] = j[1] /\ p[2] = j[2] - 1 /\ <<p[1], p[2] + 1>> = j
    BY <1>2, <2>1, ObsJobOf
  <2>3. stage[p] \in {"storing", "over"}
    BY <1>3, <2>1
  <2> HIDE DEF p
  <2>4. HandedOn(p)
    BY <2>1, <2>2 DEF HandedOn
  <2>5. Attempted[p] = "handed on"
    BY <2>2, <2>3, <2>4 DEF Attempted, AttemptOf
  <2> QED BY <2>5 DEF p
<1> QED BY <1>1, <1>4, <1>5

(* Each action of the supervisor is a step of RecoveryCycle or unseen by it.  *)
Maps == Recovery!Next \/ UNCHANGED Recovery!cvars

LEMMA Withdrawn ==
    ASSUME Core, NEW j \in Jobs, stage[j] \in {"armed", "due", "launching"},
           Moves(j), stage'[j] = "over", cycle' = cycle
    PROVE  Maps
<1>1. j[1] \in Cycles /\ j[2] \in Attempts /\ j = <<j[1], j[2]>> /\ Recovery!Attempts = Attempts
  BY ObsJobParts DEF Attempts, Recovery!Attempts
<1>2. AttemptOf(j)' = "over"
  <2>1. ~HandedOn(j)'
    BY NoneAfter, AttemptMoves DEF Early, Stages
  <2> QED BY <2>1 DEF AttemptOf
<1>3. /\ Attempted' = [Attempted EXCEPT ![<<j[1], j[2]>>] = "over"]
      /\ OpenedCycles' = OpenedCycles
  BY <1>1, <1>2, AttemptMoves
<1>4. /\ Attempted[<<j[1], j[2]>>] = "waiting"
      /\ j[2] = 1 \/ Attempted[<<j[1], j[2] - 1>>] = "handed on"
      /\ j[1] \in OpenedCycles
  BY <1>1, AwaitedIsNext
<1>5. Recovery!Withdraw(j[1], j[2])
  BY <1>3, <1>4 DEF Recovery!Withdraw, Recovery!IsNext
<1> QED BY <1>1, <1>5 DEF Maps, Recovery!Next

LEMMA Unseen ==
    ASSUME NEW j \in Jobs, Moves(j), AttemptOf(j)' = AttemptOf(j), cycle' \in {cycle, None}
    PROVE  Maps
<1>1. Attempted' = Attempted /\ OpenedCycles' = OpenedCycles
  BY AttemptMoves DEF Attempted
<1> QED BY <1>1 DEF Maps, Recovery!Next, Recovery!GiveUp, Recovery!cvars

LEMMA QuietMaps ==
    ASSUME stage' = stage, cycle' \in {cycle, None}
    PROVE  Maps
BY NoAttemptMoves DEF Maps, Recovery!Next, Recovery!GiveUp, Recovery!cvars

LEMMA OpenMaps ==
    ASSUME Core, NEW c \in Cycles, stage[<<c, 1>>] = "unused", cycle' = c,
           NEW s \in {"launching", "entering"}, stage' = [stage EXCEPT ![<<c, 1>>] = s],
           s = "entering" => Recovery!Idle
    PROVE  Maps
<1> DEFINE j == <<c, 1>>
<1>1. j \in Jobs /\ 1 \in Attempts /\ stage \in [Jobs -> Stages]
  BY ObsJobOf, ObservationAssumption DEF Attempts, Core, Typed, SupervisorTyped
<1>2. ASSUME NEW k \in Jobs, k # j PROVE stage'[k] = stage[k]
  BY <1>1, <1>2
<1>3. stage'[j] = s
  BY <1>1
<1> HIDE DEF j
<1>4. ASSUME NEW k \in Jobs, k # j PROVE AttemptOf(k)' = AttemptOf(k)
  <2>1. HandedOn(k)' <=> HandedOn(k)
    <3>1. CASE k[2] < MaxAttempts
      <4>1. <<k[1], k[2] + 1>> \in Jobs /\ <<k[1], k[2] + 1>> # j
        BY <3>1, ObsRetryJob, ObsJobParts, ObservationAssumption DEF Attempts, j
      <4> QED BY <1>2, <4>1 DEF HandedOn
    <3>2. CASE ~(k[2] < MaxAttempts)
      BY <3>2 DEF HandedOn
    <3> QED BY <3>1, <3>2
  <2> QED BY <1>2, <1>4, <2>1 DEF AttemptOf
<1>5. AttemptOf(j) = "waiting" /\ AttemptOf(j)' = IF s = "entering" THEN "running" ELSE "waiting"
  BY <1>3 DEF AttemptOf, j
<1>6. Attempted' = IF s = "entering" THEN [Attempted EXCEPT ![<<c, 1>>] = "running"] ELSE Attempted
  BY <1>1, <1>4, <1>5 DEF Attempted, j
<1>7. c \notin OpenedCycles /\ OpenedCycles' = OpenedCycles \cup {c}
  <2>1. ASSUME NEW h \in Cycles, h # c PROVE stage'[<<h, 1>>] = stage[<<h, 1>>]
    BY <1>1, <1>2, <2>1, ObsJobOf DEF j
  <2> QED BY <1>3, <2>1 DEF OpenedCycles, j
<1>8. Recovery!Open(c)
  BY <1>6, <1>7 DEF Recovery!Open
<1> QED BY <1>8 DEF Maps, Recovery!Next

LEMMA StartMaps ==
    ASSUME Core, Start
    PROVE  Maps
<1>1. 0 \in Cycles /\ <<0, 1>> \in Jobs
  BY ObsFirstJob, ObsJobParts
<1>2. stage[<<0, 1>>] = "unused"
  BY DEF Start, Core, FreshUnused
<1>3. Recovery!Idle
  <2>1. Jobs = Cycles \X Recovery!Attempts
    BY DEF Jobs, Attempts, Recovery!Attempts
  <2>2. ASSUME NEW k \in Jobs PROVE Attempted[k] # "running"
    <3>1. ~InEpisode(k)
      BY ObsJobParts, ObservationAssumption DEF Core, EpisodeFacts, CycleGated, Start
    <3> QED BY <3>1 DEF InEpisode, Attempted, AttemptOf
  <2> QED BY <2>1, <2>2 DEF Recovery!Idle
<1> QED BY <1>1, <1>2, <1>3, OpenMaps DEF Start, Goto

LEMMA DeliverMaps ==
    ASSUME Core, Deliver
    PROVE  Maps
<1> DEFINE g == Head(bus)[2]
<1>1. CASE UNCHANGED <<cycle, stage>>
  BY <1>1, QuietMaps
<1>2. CASE ~UNCHANGED <<cycle, stage>>
  <2>1. /\ bus # <<>> /\ Head(bus)[1] = "server_connection"
        /\ cycle' = g /\ stage' = [stage EXCEPT ![<<g, 1>>] = "launching"]
    BY <1>2 DEF Deliver, OnObservationFailed, Goto
  <2>2. /\ bus[1][2] = g /\ bus[1][1] # "started" /\ 1 \in 1..Len(bus)
        /\ g \in Sessions /\ g \in Cycles
    BY <2>1, ObsFirstJob DEF Core, Typed, ObserverTyped, ObserverTypeOK
  <2>3. stage[<<g, 1>>] = "unused"
    BY <2>2 DEF Core, FreshUnused
  <2> HIDE DEF g
  <2> QED BY <2>1, <2>2, <2>3, OpenMaps
<1> QED BY <1>1, <1>2

LEMMA LaunchMaps ==
    ASSUME Core, NEW j \in Jobs, Launch(j)
    PROVE  Maps
<1>1. j[1] \in Cycles /\ j[2] \in Attempts /\ j = <<j[1], j[2]>> /\ Recovery!Attempts = Attempts
  BY ObsJobParts DEF Attempts, Recovery!Attempts
<1>2. stage[j] = "launching" /\ cycle' = cycle
  BY DEF Launch
<1>3. CASE Live(j[1]) /\ thread = None
  <2>1. Moves(j) /\ stage'[j] = "registered"
    BY <1>2, <1>3, OneMove DEF Launch, Goto
  <2>2. AttemptOf(j)' = "running"
    BY <2>1 DEF AttemptOf
  <2>3. Attempted' = [Attempted EXCEPT ![<<j[1], j[2]>>] = "running"] /\ OpenedCycles' = OpenedCycles
    BY <1>1, <2>1, <2>2, AttemptMoves
  <2>4. /\ Attempted[<<j[1], j[2]>>] = "waiting"
        /\ j[2] = 1 \/ Attempted[<<j[1], j[2] - 1>>] = "handed on"
    BY <1>1, <1>2, AwaitedIsNext
  <2>5. Recovery!Idle
    <3>1. Jobs = Cycles \X Recovery!Attempts
      BY DEF Jobs, Attempts, Recovery!Attempts
    <3>2. ASSUME NEW k \in Jobs PROVE Attempted[k] # "running"
      <4>1. CASE InEpisode(k)
        <5>1. k[1] = j[1]
          BY <1>3, <4>1 DEF Core, EpisodeFacts, Live
        <5>2. k # j
          BY <1>2, <4>1 DEF InEpisode
        <5>3. stage[k] \in Early \ {"unused"} /\ stage[j] \in Early \ {"unused"}
          BY <1>2, <4>1 DEF InEpisode, Early, Stages
        <5> QED BY <5>1, <5>2, <5>3, NoRivalInCycle DEF Core
      <4>2. CASE ~InEpisode(k)
        BY <4>2 DEF InEpisode, Attempted, AttemptOf
      <4> QED BY <4>1, <4>2
    <3> QED BY <3>1, <3>2 DEF Recovery!Idle
  <2>6. Recovery!Begin(j[1], j[2])
    BY <1>2, <1>3, <2>3, <2>4, <2>5 DEF Live, Recovery!Begin, Recovery!IsNext
  <2> QED BY <1>1, <2>6 DEF Maps, Recovery!Next
<1>4. CASE ~(Live(j[1]) /\ thread = None)
  <2>1. Moves(j) /\ stage'[j] = "over"
    BY <1>2, <1>4, OneMove DEF Launch, Goto
  <2> QED BY <1>2, <2>1, Withdrawn
<1> QED BY <1>3, <1>4

LEMMA TimerMaps ==
    ASSUME Core, NEW j \in Jobs, CancelToken(j) \/ Fire(j) \/ OnRetryDue(j) \/ StartThread(j)
    PROVE  Maps
<1>1. cycle' = cycle
  BY DEF CancelToken, Fire, OnRetryDue, StartThread
<1>2. CASE stage' = stage
  BY <1>1, <1>2, QuietMaps
<1>3. CASE stage' # stage
  <2>1. PICK s : /\ stage' = [stage EXCEPT ![j] = s]
                 /\ \/ s = "over" /\ stage[j] \in {"armed", "due"}
                    \/ s \in {"due", "launching"} /\ stage[j] \in {"armed", "due"}
                    \/ s = "entering" /\ stage[j] = "registered"
    <3>1. CASE CancelToken(j)
      <4>1. stage[j] = "armed"
        BY <1>3, <3>1 DEF CancelToken, Core, Typed, SupervisorTyped
      <4> QED BY <3>1, <4>1 DEF CancelToken
    <3>2. CASE Fire(j) \/ OnRetryDue(j) \/ StartThread(j)
      BY <3>2 DEF Fire, OnRetryDue, StartThread, Goto
    <3> QED BY <3>1, <3>2
  <2>2. Moves(j) /\ stage'[j] = s
    BY <2>1, OneMove
  <2>3. CASE s = "over"
    BY <1>1, <2>1, <2>2, <2>3, Withdrawn
  <2>4. CASE s # "over"
    <3>1. AttemptOf(j)' = AttemptOf(j)
      BY <2>1, <2>2, <2>4 DEF AttemptOf
    <3> QED BY <1>1, <2>2, <3>1, Unseen
  <2> QED BY <2>3, <2>4
<1> QED BY <1>2, <1>3

LEMMA ReturnMaps ==
    ASSUME Core, NEW j \in Jobs, StartObservation(j) \/ TakeEvidence(j) \/ TimeOut(j)
    PROVE  Maps
<1>1. j[1] \in Cycles /\ j[2] \in Attempts /\ j = <<j[1], j[2]>> /\ Recovery!Attempts = Attempts
  BY ObsJobParts DEF Attempts, Recovery!Attempts
<1>2. PICK s \in {"waiting", "handling"} :
         /\ stage[j] \in {"entering", "waiting"} /\ stage' = [stage EXCEPT ![j] = s]
         /\ cycle' = cycle
  BY DEF StartObservation, TakeEvidence, TimeOut, Goto
<1>3. Moves(j) /\ stage'[j] = s
  BY <1>2, OneMove
<1>4. AttemptOf(j) = "running" /\ AttemptOf(j)' = IF s = "waiting" THEN "running" ELSE "returned"
  BY <1>2, <1>3 DEF AttemptOf
<1>5. CASE s = "waiting"
  BY <1>2, <1>3, <1>4, <1>5, Unseen
<1>6. CASE s = "handling"
  <2>1. /\ Attempted' = [Attempted EXCEPT ![<<j[1], j[2]>>] = "returned"]
        /\ OpenedCycles' = OpenedCycles /\ Attempted[<<j[1], j[2]>>] = "running"
    BY <1>1, <1>3, <1>4, <1>6, AttemptMoves DEF Attempted
  <2>2. Recovery!Return(j[1], j[2])
    BY <1>2, <2>1 DEF Recovery!Return
  <2> QED BY <1>1, <2>2 DEF Maps, Recovery!Next
<1> QED BY <1>5, <1>6

LEMMA ConcludeMaps ==
    ASSUME Core, NEW j \in Jobs, Complete(j) \/ StepDown(j) \/ GiveUp(j) \/ Exhaust(j)
    PROVE  Maps
<1>1. j[1] \in Cycles /\ j[2] \in Attempts /\ j = <<j[1], j[2]>> /\ Recovery!Attempts = Attempts
  BY ObsJobParts DEF Attempts, Recovery!Attempts
<1>2. cycle = j[1] <=> Live(j[1])
  BY <1>1, ObservationAssumption DEF Live, Core, CycleGated
<1>3. PICK s \in {"over", "ending", "retrying"} :
         /\ stage[j] \in {"handling", "ending", "retrying"} /\ stage' = [stage EXCEPT ![j] = s]
         /\ s # "over" => cycle' = cycle
         /\ s = "over" => cycle' = IF cycle = j[1] THEN None ELSE cycle
  <2>1. CASE Complete(j)
    BY <1>2, <2>1 DEF Complete, Goto
  <2>2. CASE StepDown(j)
    BY <1>2, <2>2 DEF StepDown, Goto
  <2>3. CASE GiveUp(j) \/ Exhaust(j)
    BY <2>3 DEF GiveUp, Exhaust, EndCycle, Goto
  <2> QED BY <2>1, <2>2, <2>3
<1>4. Moves(j) /\ stage'[j] = s
  BY <1>3, OneMove
<1>5. AttemptOf(j) = "returned" /\ ~HandedOn(j)'
  BY <1>3, <1>4, NoneAfter, AttemptMoves DEF AttemptOf, Early, Stages
<1>6. CASE s # "over"
  <2>1. AttemptOf(j)' = "returned"
    BY <1>4, <1>6 DEF AttemptOf
  <2> QED BY <1>3, <1>4, <1>5, <1>6, <2>1, Unseen
<1>7. CASE s = "over"
  <2>1. AttemptOf(j)' = "over"
    BY <1>4, <1>5, <1>7 DEF AttemptOf
  <2>2. /\ Attempted' = [Attempted EXCEPT ![<<j[1], j[2]>>] = "over"]
        /\ OpenedCycles' = OpenedCycles /\ Attempted[<<j[1], j[2]>>] = "returned"
    BY <1>1, <1>4, <1>5, <2>1, AttemptMoves DEF Attempted
  <2>3. Recovery!Conclude(j[1], j[2])
    BY <1>3, <1>7, <2>2 DEF Recovery!Conclude, Recovery!Over
  <2> QED BY <1>1, <2>3 DEF Maps, Recovery!Next
<1> QED BY <1>6, <1>7

LEMMA ScheduleMaps ==
    ASSUME Core, NEW j \in Jobs, ScheduleRetry(j)
    PROVE  Maps
<1> DEFINE r == <<j[1], j[2] + 1>>
<1>1. /\ j[1] \in Cycles /\ j[2] \in Attempts /\ j = <<j[1], j[2]>> /\ j[2] < MaxAttempts
      /\ Recovery!Attempts = Attempts
  BY ObsJobParts DEF ScheduleRetry, Attempts, Recovery!Attempts
<1>2. /\ stage[j] = "retrying" /\ stage' = [stage EXCEPT ![j] = "storing", ![r] = "armed"]
      /\ cycle' = cycle
  BY DEF ScheduleRetry
<1>3. r \in Jobs /\ r # j /\ stage[r] = "unused" /\ r[2] # 1
  BY <1>1, <1>2, RetryUnused, ObservationAssumption DEF Core, Early, Stages, Attempts
<1>4. /\ stage'[j] = "storing" /\ stage'[r] = "armed"
      /\ \A k \in Jobs \ {j, r} : stage'[k] = stage[k]
  BY <1>2, <1>3 DEF Core, Typed, SupervisorTyped
<1>5. HandedOn(j)'
  BY <1>1, <1>4 DEF HandedOn
<1>6. ASSUME NEW k \in Jobs, k # j, k[2] < MaxAttempts
      PROVE  <<k[1], k[2] + 1>> \in Jobs /\ <<k[1], k[2] + 1>> # r
  BY <1>1, <1>6, ObsRetryJob, ObsJobParts, ObservationAssumption DEF Attempts
<1> HIDE DEF r
<1>7. ASSUME NEW k \in Jobs, k # j PROVE AttemptOf(k)' = AttemptOf(k)
  <2>1. CASE k = r
    BY <1>3, <1>4, <2>1 DEF AttemptOf
  <2>2. CASE k # r
    <3>1. HandedOn(k)' <=> HandedOn(k)
      <4>1. CASE k[2] < MaxAttempts
        <5>1. <<k[1], k[2] + 1>> \in Jobs /\ <<k[1], k[2] + 1>> # r
          BY <1>6, <1>7, <4>1
        <5>2. stage'[<<k[1], k[2] + 1>>] = "unused" <=> stage[<<k[1], k[2] + 1>>] = "unused"
          BY <1>2, <1>4, <5>1
        <5> QED BY <5>2 DEF HandedOn
      <4>2. CASE ~(k[2] < MaxAttempts)
        BY <4>2 DEF HandedOn
      <4> QED BY <4>1, <4>2
    <3>2. stage'[k] = stage[k]
      BY <1>4, <1>7, <2>2
    <3> QED BY <3>1, <3>2 DEF AttemptOf
  <2> QED BY <2>1, <2>2
<1>8. AttemptOf(j) = "returned" /\ AttemptOf(j)' = "handed on"
  BY <1>2, <1>4, <1>5 DEF AttemptOf
<1>9. /\ Attempted' = [Attempted EXCEPT ![<<j[1], j[2]>>] = "handed on"]
      /\ Attempted[<<j[1], j[2]>>] = "returned"
  BY <1>1, <1>7, <1>8 DEF Attempted
<1>10. OpenedCycles' = OpenedCycles
  <2>1. ASSUME NEW c \in Cycles
        PROVE  stage'[<<c, 1>>] = "unused" <=> stage[<<c, 1>>] = "unused"
    <3>1. <<c, 1>> \in Jobs /\ <<c, 1>> # r
      BY <1>3, ObsJobOf, ObservationAssumption DEF Attempts
    <3> QED BY <1>2, <1>4, <3>1
  <2> QED BY <2>1 DEF OpenedCycles
<1>11. Recovery!HandOn(j[1], j[2])
  BY <1>1, <1>2, <1>9, <1>10 DEF Recovery!HandOn
<1> QED BY <1>1, <1>11 DEF Maps, Recovery!Next

LEMMA StoreMaps ==
    ASSUME Core, NEW j \in Jobs, StoreToken(j)
    PROVE  Maps
<1> DEFINE r == <<j[1], j[2] + 1>>
<1>1. stage[j] = "storing" /\ cycle' = cycle
  BY DEF StoreToken
<1>2. r \in Jobs /\ r # j
  BY <1>1, ObsRetryJob, ObsJobParts, ObservationAssumption
     DEF Attempts, Core, Typed, SupervisorTyped, StoringHasRetry
<1>3. CASE Live(j[1]) \/ stage[r] # "armed"
  <2>1. stage' = [stage EXCEPT ![j] = "over"]
    BY <1>2, <1>3 DEF StoreToken, Goto, Core, Typed, SupervisorTyped
  <2>2. Moves(j) /\ stage'[j] = "over"
    BY <1>1, <2>1, OneMove
  <2>3. AttemptOf(j)' = AttemptOf(j)
    BY <1>1, <2>2, AttemptMoves DEF AttemptOf
  <2> QED BY <1>1, <2>2, <2>3, Unseen
<1>4. CASE ~Live(j[1]) /\ stage[r] = "armed"
  <2>1. stage' = [stage EXCEPT ![j] = "over", ![r] = "over"]
    BY <1>2, <1>4 DEF StoreToken, Core, Typed, SupervisorTyped
  <2> HIDE DEF r
  <2>2. Moves(r) /\ stage'[r] = "over"
    BY <1>1, <1>2, <1>4, <2>1 DEF Moves, Core, Typed, SupervisorTyped
  <2> QED BY <1>1, <1>2, <1>4, <2>2, Withdrawn
<1> QED BY <1>3, <1>4

LEMMA EveryStepMaps ==
    ASSUME Core, [Next]_vars
    PROVE  Maps
<1>1. ASSUME NEW j \in Jobs, Progress(j) PROVE Maps
  BY <1>1, LaunchMaps, TimerMaps, ReturnMaps, ConcludeMaps, ScheduleMaps, StoreMaps DEF Progress
<1>2. ASSUME Close \/ CloseObserver \/ Join \/ UNCHANGED Untouched \/ UNCHANGED vars PROVE Maps
  BY <1>2, QuietMaps DEF Close, CloseObserver, Join, Untouched, vars, localVars
<1> QED BY <1>1, <1>2, StartMaps, DeliverMaps DEF Next, System, Environment

(* Each step of the observation supervisor is a step of RecoveryCycle, or one *)
(* it does not see: establishment attempts are made in order, one at a time   *)
(* whatever cycle they belong to, begun only while their cycle is live, and   *)
(* a cycle ends with the attempt that satisfied or used it up                 *)
(* (devices_observation.py 141-324).                                          *)
THEOREM ImplementsRecoveryCycle == Spec => RunsRecoveryCycles
<1>1. Init => Recovery!Init
  <2> SUFFICES ASSUME Init PROVE Recovery!Init
    OBVIOUS
  <2>1. ASSUME NEW j \in Jobs PROVE AttemptOf(j) = "waiting"
    BY <2>1 DEF Init, AttemptOf
  <2>2. Attempted = [j \in Cycles \X Recovery!Attempts |-> "waiting"]
    BY <2>1 DEF Attempted, Jobs, Attempts, Recovery!Attempts
  <2>3. OpenedCycles = {}
    BY ObsJobOf, ObservationAssumption DEF Init, OpenedCycles, Attempts
  <2> QED BY <2>2, <2>3 DEF Init, Recovery!Init
<1>2. Core /\ [Next]_vars => [Recovery!Next]_(Recovery!cvars)
  BY EveryStepMaps DEF Maps
<1> QED BY <1>1, <1>2, AlwaysCore, PTL DEF Spec, RunsRecoveryCycles, Recovery!Spec
==============================================================================
