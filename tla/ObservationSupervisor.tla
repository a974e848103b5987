------------------------- MODULE ObservationSupervisor -------------------------
(* AdbDevicesObservationSupervisor (adb/supervision/devices_observation.py)   *)
(* with the establishment episodes it runs (establishment.py), over Observer. *)
(* Cycle 0 is the one start() opens, cycle g the one opened by the failure of *)
(* session g. Job <<c, n>> is the n-th attempt of cycle c: the start() call   *)
(* itself for <<0, 1>>, otherwise the life of a launched thread, for n > 1    *)
(* from the timer and the RetryDue event that lead to it; <<c, n>> also names *)
(* the retry's schedule token. Actions are critical sections of _lock and     *)
(* steps between them.                                                        *)
EXTENDS Observer

CONSTANTS MaxAttempts,  \* policy.max_attempts
          Closer,       \* the stopper that is the supervisor's close(), if it is called
          None

Attempts == 1..MaxAttempts
Cycles == 0..MaxSessions
Jobs == Cycles \X Attempts

ASSUME ObservationAssumption ==
    /\ MaxAttempts \in Nat \ {0}
    /\ None \notin Cycles /\ None \notin Jobs

VARIABLES
    current,     \* generation of _current_session_id, or 0
    cycle,       \* _cycle_id
    token,       \* _retry_token
    thread,      \* _attempt_thread
    subscribed,  \* _subscriptions is not empty
    closed,      \* _closed
    stage,       \* stage[j]: see Stages
    got,         \* got[j]: the session j's episode has started, or 0
    evidence,    \* evidence[j]: the first event of got[j] its episode collected
    verdict,     \* verdict[j]: what j's episode came to
    doomed,      \* tokens taken out of _retry_token, about to be cancelled
    closer,      \* close(): "observer" until it has closed that and joins its thread
    joinee,      \* the attempt thread close() has to join
    late,        \* history: the last session whose episode timed out, or 0
    overtaken    \* history: a retry replaced a newer one in _retry_token

localVars == <<stage, got, evidence, verdict>>
historyVars == <<late, overtaken>>
vars == <<observerVars, current, cycle, token, thread, subscribed, closed, localVars,
          doomed, closer, joinee, historyVars>>

(* "armed", "due": the retry timer is set, has fired. "launching": in         *)
(* _launch_establishment_attempt. "registered": the thread is _attempt_thread,*)
(* not started. "entering": in establish(), before observation.start().       *)
(* "waiting": for evidence. "handling", "ending", "retrying", "storing": in   *)
(* the steps of _handle_establishment_result.                                 *)
Stages == {"unused", "armed", "due", "launching", "registered", "entering", "waiting",
           "handling", "ending", "retrying", "storing", "over"}
Verdicts == {"none", "satisfied", "retry", "give_up"}
CloserStages == {"idle", "observer", "returned", "error"}

IsThread(j) == j # <<0, 1>>
Live(c) == ~closed /\ cycle = c
Goto(j, s) == stage' = [stage EXCEPT ![j] = s]

(* Faulty variant: cancels whatever _retry_token holds, None included.        *)
ForgetBlindly == /\ token' = None
                 /\ doomed' = doomed \cup {token}

(* The token is taken out; the caller cancels it after releasing the lock.    *)
Forget == /\ token' = None
          /\ doomed' = doomed \cup ({token} \ {None})

Init ==
    /\ ObserverInit
    /\ current = 0 /\ cycle = None /\ token = None /\ thread = None /\ joinee = None
    /\ subscribed = FALSE /\ closed = FALSE /\ closer = "idle"
    /\ stage = [j \in Jobs |-> "unused"]
    /\ got = [j \in Jobs |-> 0]
    /\ evidence = [j \in Jobs |-> "none"]
    /\ verdict = [j \in Jobs |-> "none"]
    /\ doomed = {}
    /\ late = 0 /\ overtaken = FALSE
------------------------------------------------------------------------------
Start ==
    /\ ~closed /\ ~subscribed
    /\ subscribed' = TRUE
    /\ cycle' = 0
    /\ Goto(<<0, 1>>, "entering")
    /\ UNCHANGED <<observerVars, current, token, thread, closed, got, evidence, verdict,
                   doomed, closer, joinee, historyVars>>

(* establish(): subscribe, then observation.start(), which may raise.         *)
StartObservation(j) ==
    /\ stage[j] = "entering"
    /\ \/ /\ StartSession
          /\ Goto(j, "waiting")
          /\ got' = [got EXCEPT ![j] = generation']
          /\ UNCHANGED verdict
       \/ /\ ~StartAccepted
          /\ Goto(j, "handling")
          /\ verdict' = [verdict EXCEPT ![j] = "retry"]
          /\ UNCHANGED <<observerVars, got>>
    /\ UNCHANGED <<current, cycle, token, thread, subscribed, closed, evidence, doomed,
                   closer, joinee, historyVars>>

(* The first event of its own session decides the episode.                    *)
TakeEvidence(j) ==
    /\ stage[j] = "waiting" /\ evidence[j] # "none"
    /\ Goto(j, "handling")
    /\ verdict' = [verdict EXCEPT ![j] =
                     IF evidence[j] = "started" THEN "satisfied"
                     ELSE IF evidence[j] = "service_or_protocol" THEN "give_up"
                     ELSE "retry"]
    /\ UNCHANGED <<observerVars, current, cycle, token, thread, subscribed, closed, got,
                   evidence, doomed, closer, joinee, historyVars>>

TimeOut(j) ==
    /\ stage[j] = "waiting" /\ evidence[j] = "none"
    /\ Goto(j, "handling")
    /\ verdict' = [verdict EXCEPT ![j] = "retry"]
    /\ late' = got[j]
    /\ UNCHANGED <<observerVars, current, cycle, token, thread, subscribed, closed, got,
                   evidence, doomed, closer, joinee, overtaken>>
------------------------------------------------------------------------------
ReleaseThread(j) == thread' = IF thread = j THEN None ELSE thread

(* The episode's result is used up.                                           *)
Consume(j) ==
    /\ got' = [got EXCEPT ![j] = 0]
    /\ evidence' = [evidence EXCEPT ![j] = "none"]
    /\ verdict' = [verdict EXCEPT ![j] = "none"]

(* Faulty variant: follows the session that is active now.                    *)
CompleteWithActive(j) ==
    /\ stage[j] = "handling" /\ verdict[j] = "satisfied"
    /\ ReleaseThread(j)
    /\ Consume(j)
    /\ Goto(j, "over")
    /\ IF Live(j[1])
       THEN Forget /\ current' = active /\ cycle' = None
       ELSE UNCHANGED <<current, cycle, token, doomed>>
    /\ UNCHANGED <<observerVars, subscribed, closed, closer, joinee, historyVars>>

(* _complete_establishment_cycle                                              *)
Complete(j) ==
    /\ stage[j] = "handling" /\ verdict[j] = "satisfied"
    /\ ReleaseThread(j)
    /\ Consume(j)
    /\ Goto(j, "over")
    /\ IF Live(j[1])
       THEN Forget /\ current' = got[j] /\ cycle' = None
       ELSE UNCHANGED <<current, cycle, token, doomed>>
    /\ UNCHANGED <<observerVars, subscribed, closed, closer, joinee, historyVars>>

(* Faulty variant: the thread that failed stays _attempt_thread.              *)
StepDownHolding(j) ==
    /\ stage[j] = "handling" /\ verdict[j] # "satisfied"
    /\ UNCHANGED thread
    /\ Consume(j)
    /\ Goto(j, IF IsThread(j) /\ ~Live(j[1]) THEN "over"
               ELSE IF verdict[j] = "retry" THEN "retrying" ELSE "ending")
    /\ UNCHANGED <<observerVars, current, cycle, token, subscribed, closed, doomed, closer,
                   joinee, historyVars>>

(* An unsatisfied attempt thread steps down first; start() does not ask.      *)
StepDown(j) ==
    /\ stage[j] = "handling" /\ verdict[j] # "satisfied"
    /\ ReleaseThread(j)
    /\ Consume(j)
    /\ Goto(j, IF IsThread(j) /\ ~Live(j[1]) THEN "over"
               ELSE IF verdict[j] = "retry" THEN "retrying" ELSE "ending")
    /\ UNCHANGED <<observerVars, current, cycle, token, subscribed, closed, doomed, closer,
                   joinee, historyVars>>

(* _end_establishment_cycle                                                   *)
EndCycle(c) ==
    IF cycle = c THEN Forget /\ cycle' = None ELSE UNCHANGED <<cycle, token, doomed>>

GiveUp(j) ==
    /\ stage[j] = "ending"
    /\ EndCycle(j[1])
    /\ Goto(j, "over")
    /\ UNCHANGED <<observerVars, current, thread, subscribed, closed, got, evidence, verdict,
                   closer, joinee, historyVars>>

(* Faulty variant: reports the exhaustion, leaves the cycle live.             *)
ExhaustWithoutEnd(j) ==
    /\ stage[j] = "retrying" /\ j[2] >= MaxAttempts
    /\ Goto(j, "over")
    /\ UNCHANGED <<observerVars, current, cycle, token, thread, subscribed, closed, got,
                   evidence, verdict, doomed, closer, joinee, historyVars>>

(* The budget is spent: end the cycle. The report that follows changes nothing.*)
Exhaust(j) ==
    /\ stage[j] = "retrying" /\ j[2] >= MaxAttempts
    /\ EndCycle(j[1])
    /\ Goto(j, "over")
    /\ UNCHANGED <<observerVars, current, thread, subscribed, closed, got, evidence, verdict,
                   closer, joinee, historyVars>>

(* schedule_after: the timer may fire before its token is stored below.       *)
ScheduleRetry(j) ==
    /\ stage[j] = "retrying" /\ j[2] < MaxAttempts
    /\ stage' = [stage EXCEPT ![j] = "storing", ![<<j[1], j[2] + 1>>] = "armed"]
    /\ UNCHANGED <<observerVars, current, cycle, token, thread, subscribed, closed, got,
                   evidence, verdict, doomed, closer, joinee, historyVars>>

(* Faulty variant: the token is stored without asking for the cycle.          *)
StoreUnchecked(j) ==
    /\ stage[j] = "storing"
    /\ Goto(j, "over")
    /\ token' = <<j[1], j[2] + 1>>
    /\ doomed' = doomed \cup ({token} \ {None})
    /\ overtaken' = (overtaken \/ token # None)
    /\ UNCHANGED <<observerVars, current, cycle, thread, subscribed, closed, got, evidence,
                   verdict, closer, joinee, late>>

StoreToken(j) ==
    LET retry == <<j[1], j[2] + 1>> IN
    /\ stage[j] = "storing"
    /\ IF Live(j[1])
       THEN /\ Goto(j, "over")
            /\ token' = retry
            /\ doomed' = doomed \cup ({token} \ {None})
            /\ overtaken' = (overtaken \/ token # None)
       ELSE /\ stage' = [stage EXCEPT ![j] = "over",
                           ![retry] = IF @ = "armed" THEN "over" ELSE @]
            /\ UNCHANGED <<token, doomed, overtaken>>
    /\ UNCHANGED <<observerVars, current, cycle, thread, subscribed, closed, got, evidence,
                   verdict, closer, joinee, late>>

CancelToken(t) ==
    /\ t \in doomed
    /\ doomed' = doomed \ {t}
    /\ stage' = [stage EXCEPT ![t] = IF @ = "armed" THEN "over" ELSE @]
    /\ UNCHANGED <<observerVars, current, cycle, token, thread, subscribed, closed, got,
                   evidence, verdict, closer, joinee, historyVars>>

Fire(t) ==
    /\ stage[t] = "armed"
    /\ Goto(t, "due")
    /\ UNCHANGED <<observerVars, current, cycle, token, thread, subscribed, closed, got,
                   evidence, verdict, doomed, closer, joinee, historyVars>>

(* _on_retry_due, called by the bus while the subscription is in force.       *)
OnRetryDue(t) ==
    /\ stage[t] = "due"
    /\ IF subscribed /\ Live(t[1])
       THEN token' = None /\ Goto(t, "launching")
       ELSE Goto(t, "over") /\ UNCHANGED token
    /\ UNCHANGED <<observerVars, current, cycle, thread, subscribed, closed, got, evidence,
                   verdict, doomed, closer, joinee, historyVars>>

(* Faulty variants: the cycle is not looked at again; the thread is not       *)
(* recorded.                                                                  *)
LaunchUnchecked(j) ==
    /\ stage[j] = "launching"
    /\ IF thread = None
       THEN thread' = j /\ Goto(j, "registered")
       ELSE Goto(j, "over") /\ UNCHANGED thread
    /\ UNCHANGED <<observerVars, current, cycle, token, subscribed, closed, got, evidence,
                   verdict, doomed, closer, joinee, historyVars>>

LaunchUnrecorded(j) ==
    /\ stage[j] = "launching"
    /\ Goto(j, IF Live(j[1]) THEN "registered" ELSE "over")
    /\ UNCHANGED thread
    /\ UNCHANGED <<observerVars, current, cycle, token, subscribed, closed, got, evidence,
                   verdict, doomed, closer, joinee, historyVars>>

(* _launch_establishment_attempt: register under the lock, start outside it.  *)
Launch(j) ==
    /\ stage[j] = "launching"
    /\ IF Live(j[1]) /\ thread = None
       THEN thread' = j /\ Goto(j, "registered")
       ELSE Goto(j, "over") /\ UNCHANGED thread
    /\ UNCHANGED <<observerVars, current, cycle, token, subscribed, closed, got, evidence,
                   verdict, doomed, closer, joinee, historyVars>>

StartThread(j) ==
    /\ stage[j] = "registered"
    /\ Goto(j, "entering")
    /\ UNCHANGED <<observerVars, current, cycle, token, thread, subscribed, closed, got,
                   evidence, verdict, doomed, closer, joinee, historyVars>>
------------------------------------------------------------------------------
(* Faulty variant: asks whether the observer has the session active.          *)
OnActiveFailed(g) ==
    IF ~closed /\ active = g /\ cycle = None
    THEN cycle' = g /\ Goto(<<g, 1>>, "launching")
    ELSE UNCHANGED <<cycle, stage>>

(* _on_observation_failed                                                     *)
OnObservationFailed(g) ==
    IF ~closed /\ current = g /\ cycle = None
    THEN cycle' = g /\ Goto(<<g, 1>>, "launching")
    ELSE UNCHANGED <<cycle, stage>>

(* Faulty variant: an episode takes any session's event for its own.          *)
ConcernsAny(j, g) == stage[j] = "waiting" /\ evidence[j] = "none"

Concerns(j, g) == stage[j] = "waiting" /\ evidence[j] = "none" /\ got[j] = g

(* One dispatch: _on_observation_failed first, for it subscribed first, then  *)
(* the episode that waits for this session, if there is one. No step of       *)
(* another thread between the two makes a difference: while an episode waits, *)
(* a cycle is live and the handler returns.                                   *)
Deliver ==
    /\ bus # <<>>
    /\ bus' = Tail(bus)
    /\ LET kind == Head(bus)[1]
           g == Head(bus)[2] IN
       /\ IF kind = "server_connection" /\ subscribed
          THEN OnObservationFailed(g)
          ELSE UNCHANGED <<cycle, stage>>
       /\ evidence' = [j \in Jobs |->
            IF Concerns(j, g) THEN kind ELSE evidence[j]]
    /\ UNCHANGED <<generation, active, obsClosed, sess, srcClosed, cut, terminal, stop, target,
                   current, token, thread, subscribed, closed, got, verdict, doomed, closer,
                   joinee, late, overtaken>>
------------------------------------------------------------------------------
Close ==
    /\ ~closed /\ Closer \in Stoppers
    /\ closed' = TRUE /\ subscribed' = FALSE
    /\ Forget
    /\ cycle' = None
    /\ closer' = "observer"
    /\ joinee' = thread
    /\ UNCHANGED <<observerVars, current, thread, localVars, historyVars>>

CloseObserver ==
    /\ closer = "observer"
    /\ CallClose(Closer)
    /\ UNCHANGED <<current, cycle, token, thread, subscribed, closed, localVars, doomed,
                   closer, joinee, historyVars>>

(* Joining a thread that was not started raises out of close(). A thread that *)
(* has stepped down already is not joined, nor is the caller of start().      *)
Join ==
    /\ closer = "observer" /\ stop[Closer] = "done"
    /\ \/ joinee = None /\ closer' = "returned"
       \/ joinee # None /\ stage[joinee] = "over" /\ closer' = "returned"
       \/ joinee # None /\ stage[joinee] = "registered" /\ closer' = "error"
    /\ UNCHANGED <<observerVars, current, cycle, token, thread, subscribed, closed, localVars,
                   doomed, joinee, historyVars>>
------------------------------------------------------------------------------
Progress(j) ==
    \/ StartObservation(j) \/ TakeEvidence(j) \/ TimeOut(j) \/ Complete(j) \/ StepDown(j)
    \/ GiveUp(j) \/ Exhaust(j) \/ ScheduleRetry(j) \/ StoreToken(j)
    \/ CancelToken(j) \/ Fire(j) \/ OnRetryDue(j) \/ Launch(j) \/ StartThread(j)

Untouched == <<current, cycle, token, thread, subscribed, closed, localVars, doomed, closer,
               joinee, historyVars>>

System ==
    \/ \E j \in Jobs : Progress(j)
    \/ Deliver \/ CloseObserver \/ Join
    \/ \E g \in Sessions : SessionStep(g) /\ UNCHANGED Untouched
    \/ \E p \in Stoppers : StopStep(p) /\ UNCHANGED Untouched

(* What others decide. Bound: a session in stream mode breaks or is raised    *)
(* out of only while the generations of one more cycle are left.              *)
Environment ==
    \/ Start \/ Close
    \/ \E p \in Stoppers \ {Closer} : CallStop(p) /\ UNCHANGED Untouched
    \/ \E g \in Sessions :
          /\ generation + MaxAttempts <= MaxSessions
          /\ StreamFails(g) \/ PublishRaises(g)
          /\ UNCHANGED Untouched

Next == System \/ Environment

Fairness == WF_vars(System)

Spec == Init /\ [][Next]_vars /\ Fairness
------------------------------------------------------------------------------
TypeOK ==
    /\ ObserverTypeOK
    /\ current \in 0..MaxSessions
    /\ cycle \in Cycles \cup {None}
    /\ {token, thread, joinee} \subseteq Jobs \cup {None}
    /\ subscribed \in BOOLEAN /\ closed \in BOOLEAN
    /\ stage \in [Jobs -> Stages]
    /\ got \in [Jobs -> 0..MaxSessions]
    /\ evidence \in [Jobs -> Evidence \cup {"none"}]
    /\ verdict \in [Jobs -> Verdicts]
    /\ doomed \subseteq Jobs
    /\ closer \in CloserStages
    /\ late \in 0..MaxSessions
    /\ overtaken \in BOOLEAN

(* At most one establishment episode is under way, start()'s included, and    *)
(* _attempt_thread is the thread that conducts it: so the launch guard        *)
(* (devices_observation.py 184-185) never discards the attempt of a live      *)
(* cycle and close() joins the right thread (138-139).                        *)
InEpisode(j) == stage[j] \in {"registered", "entering", "waiting", "handling"}
OneEpisode ==
    \A j \in Jobs : InEpisode(j) =>
        /\ \A k \in Jobs \ {j} : ~InEpisode(k)
        /\ thread = IF IsThread(j) THEN j ELSE None

(* A cycle is live only in an open, started supervisor; a stored retry token  *)
(* always belongs to it (devices_observation.py 126-132, 287-294, 303-324).   *)
CycleGated ==
    /\ cycle # None => subscribed /\ ~closed
    /\ token # None => cycle = token[1]

(* While a cycle is live some attempt or retry of it is on its way, unless a  *)
(* retry was stored over a newer one (devices_observation.py 283-294). A live *)
(* cycle that nobody drives makes the supervisor ignore every later failure   *)
(* (150-151).                                                                 *)
Driving(j) ==
    \/ stage[j] \in {"due", "launching", "registered", "entering", "waiting", "handling",
                     "ending", "retrying"}
    \/ stage[j] = "armed" /\ j \notin doomed
CycleHasDriverUnless == cycle # None => overtaken \/ \E n \in Attempts : Driving(<<cycle, n>>)

(* At rest the supervisor knows the session that is active: the one exception *)
(* is a session that came up after its episode had timed out (establishment.py*)
(* 229-248).                                                                  *)
RestsOnItsSession == subscribed /\ cycle = None => active \in {0, current, late}

(* The session the supervisor follows never goes back to an older generation  *)
(* (devices_observation.py 303-311).                                          *)
AdoptionMovesForward == [][current' # current => current' > current]_vars

(* When close() has returned no session is active, no attempt is in an        *)
(* episode, and what timers are left will be cancelled                        *)
(* (devices_observation.py 122-139, 287-290).                                 *)
CloseQuiesces ==
    closer = "returned" =>
        /\ active = 0
        /\ \A j \in Jobs : IsThread(j) => ~InEpisode(j)
        /\ \A j \in Jobs : stage[j] = "armed" =>
              j \in doomed \/ stage[<<j[1], j[2] - 1>>] = "storing"

(* A failure that befalls the session the supervisor rests on opens a cycle   *)
(* of its own, and that cycle ends: in a newer session, or given up           *)
(* (devices_observation.py 141-154), closing and the history above apart.     *)
FailurePending(g) ==
    \/ sess[g] \in {"ending", "publishing"} /\ terminal[g] = "server_connection"
    \/ \E i \in 1..Len(bus) : bus[i] = <<"server_connection", g>>
FailureIsAnswered ==
    \A g \in Sessions :
        (subscribed /\ current = g /\ cycle = None /\ FailurePending(g))
        ~> (closed \/ overtaken \/ (stage[<<g, 1>>] # "unused" /\ cycle # g))

(* "Runtime AdbDevicesObservationFailed(SERVER_CONNECTION) starts an          *)
(* observation re-establishment cycle" (event_bus.md 129-130): so it is for a *)
(* session from the moment its establishment is known, not only once the      *)
(* supervisor has stored its identity.                                        *)
Established(g) ==
    current = g \/ \E j \in Jobs : stage[j] = "handling" /\ verdict[j] = "satisfied" /\ got[j] = g
FailureStartsCycle ==
    \A g \in Sessions :
        (subscribed /\ Established(g) /\ FailurePending(g))
        ~> (closed \/ stage[<<g, 1>>] # "unused")

(* No cycle stays alive for ever, outside the same history.                   *)
CycleEnds == []<>(cycle = None \/ overtaken)

(* The attempts of a cycle as RecoveryCycle sees them: one runs from the      *)
(* registration of its thread to the end of its episode, and is handed on     *)
(* when its successor's retry has been scheduled.                             *)
HandedOn(j) == j[2] < MaxAttempts /\ stage[<<j[1], j[2] + 1>>] # "unused"
AttemptOf(j) ==
    CASE stage[j] \in {"registered", "entering", "waiting"} -> "running"
      [] stage[j] \in {"handling", "ending", "retrying"} -> "returned"
      [] stage[j] \in {"storing", "over"} -> IF HandedOn(j) THEN "handed on" ELSE "over"
      [] OTHER -> "waiting"
Attempted == [j \in Jobs |-> AttemptOf(j)]
OpenedCycles == {c \in Cycles : stage[<<c, 1>>] # "unused"}

(* Over sessions that fail, end late or are stopped under it the supervisor   *)
(* runs proper recovery cycles as well (devices_observation.py 141-324); it   *)
(* reports exhaustion by an event only, which no state of it remembers.       *)
Recovery == INSTANCE RecoveryCycle WITH
    live <- cycle,
    opened <- OpenedCycles,
    attempt <- Attempted,
    reported <- {}
RunsRecoveryCycles == Recovery!Spec
==============================================================================
