--------------------------- MODULE ServerSupervisor ---------------------------
(* AdbServerSupervisor (adb/supervision/server.py) around ServerEnsure. An    *)
(* operation i is one call of start, stop, set_recovery_enabled(True) or      *)
(* reconcile; when it opens a recovery cycle, i is also the cycle's identity. *)
(* Job <<i, n>> is the n-th bounded attempt made for i: for n = 1 the call    *)
(* itself, or the thread it launched, for n > 1 the life of one scheduled     *)
(* retry, from its timer through the RetryDue event and the handler to the    *)
(* attempt thread. <<i, n>> therefore also names the retry's schedule token.  *)
(* Actions are critical sections of _lock or steps taken between them;        *)
(* _mutation_lock is the variable mutex.                                      *)
EXTENDS ServerEnsure

CONSTANTS Ops,          \* operation identities, each used once
          MaxAttempts,  \* policy.max_attempts
          None

Attempts == 1..MaxAttempts

ASSUME SupervisorAssumption ==
    /\ MaxAttempts \in Nat \ {0}
    /\ Jobs = Ops \X Attempts
    /\ None \notin Ops /\ None \notin Jobs

VARIABLES
    desired,     \* _desired_running
    enabled,     \* _recovery_enabled
    cycle,       \* _cycle_id
    token,       \* _retry_token
    subscribed,  \* _subscriptions is not empty
    closed,      \* _closed
    mutex,       \* holder of _mutation_lock
    op,          \* op[i]: which operation i is, "none" before it is called
    stage,       \* stage[j]: see Stages
    doomed,      \* tokens taken out of _retry_token, about to be cancelled
    closer,      \* the close() call: "idle", "joining", "returned" or "error"
    joining,     \* attempt threads close() still has to join
    exhausted,   \* history: cycles reported by AdbServerRecoveryExhausted
    raised,      \* history: an ensure of a live cycle ended in an exception
    overtaken    \* history: a retry replaced a newer one in _retry_token

supervisorVars == <<desired, enabled, cycle, token, subscribed, closed, mutex, op,
                    stage, doomed, closer, joining, exhausted, raised, overtaken>>
vars == <<ensureVars, supervisorVars>>

(* "armed": the timer is set. "due": it fired, the RetryDue event is on its   *)
(* way. "launching": in _launch_recovery_attempt. "registered": the thread is *)
(* in _attempt_threads, not started. "waiting": for mutex. "ensuring": holds  *)
(* it. "handling", "retrying", "storing", "reporting": in the steps of        *)
(* _handle_recovery_result and _schedule_retry_or_exhaust. "over": returned.  *)
Stages == {"unused", "armed", "due", "launching", "registered", "waiting",
           "ensuring", "handling", "retrying", "storing", "reporting", "over"}

Kinds == {"none", "start", "start_recovering", "stop", "kick"}

Armed == desired /\ enabled
Current(c) == ~closed /\ Armed /\ cycle = c
IsThread(j) == op[j[1]] = "kick" \/ j[2] > 1
AttemptThreads == {j \in Jobs : IsThread(j) /\ stage[j] \in
    {"registered", "waiting", "ensuring", "handling", "retrying", "storing", "reporting"}}

(* Faulty variant: cancels whatever _retry_token holds, None included.        *)
InvalidateBlindly(newCycle) ==
    /\ cycle' = newCycle
    /\ token' = None
    /\ doomed' = doomed \cup {token}

(* _invalidate_recovery_locked, and the cancel() its callers owe the token.   *)
Invalidate(newCycle) ==
    /\ cycle' = newCycle
    /\ token' = None
    /\ doomed' = doomed \cup ({token} \ {None})

Goto(j, s) == stage' = [stage EXCEPT ![j] = s]

Init ==
    /\ EnsureInit
    /\ desired = FALSE /\ enabled = FALSE /\ subscribed = FALSE /\ closed = FALSE
    /\ cycle = None /\ token = None /\ mutex = None
    /\ op = [i \in Ops |-> "none"]
    /\ stage = [j \in Jobs |-> "unused"]
    /\ doomed = {} /\ joining = {} /\ exhausted = {}
    /\ closer = "idle"
    /\ raised = FALSE /\ overtaken = FALSE
------------------------------------------------------------------------------
(* start(recovery_enabled=...) and stop() queue for the mutation lock.        *)
Call(i, kind) ==
    /\ op[i] = "none"
    /\ op' = [op EXCEPT ![i] = kind]
    /\ Goto(<<i, 1>>, "waiting")
    /\ UNCHANGED <<ensureVars, desired, enabled, cycle, token, subscribed, closed,
                   mutex, doomed, closer, joining, exhausted, raised, overtaken>>

(* ... and, once they hold it, set the intent and begin their episode.        *)
EnterCall(i) ==
    /\ stage[<<i, 1>>] = "waiting" /\ ~IsThread(<<i, 1>>)
    /\ mutex = None
    /\ IF closed
       THEN /\ Goto(<<i, 1>>, "over")
            /\ UNCHANGED <<ensureVars, desired, enabled, cycle, token, subscribed,
                           mutex, doomed>>
       ELSE /\ Goto(<<i, 1>>, "ensuring")
            /\ mutex' = <<i, 1>>
            /\ desired' = (op[i] # "stop")
            /\ enabled' = (op[i] = "start_recovering")
            /\ subscribed' = (subscribed \/ op[i] = "start_recovering")
            /\ Invalidate(IF op[i] = "start_recovering" THEN i ELSE None)
            /\ BeginEnsure(<<i, 1>>, IF op[i] = "stop" THEN "unavailable" ELSE "available")
    /\ UNCHANGED <<closed, op, closer, joining, exhausted, raised, overtaken>>

(* Faulty variants: the attempt does not take the mutation lock; it does not  *)
(* look again whether its cycle is current.                                   *)
EnterUnlocked(j) ==
    /\ stage[j] = "waiting" /\ IsThread(j)
    /\ Current(j[1])
    /\ Goto(j, "ensuring")
    /\ BeginEnsure(j, "available")
    /\ UNCHANGED <<desired, enabled, cycle, token, subscribed, closed, mutex, op, doomed,
                   closer, joining, exhausted, raised, overtaken>>

EnterUnchecked(j) ==
    /\ stage[j] = "waiting" /\ IsThread(j)
    /\ mutex = None
    /\ Goto(j, "ensuring")
    /\ mutex' = j
    /\ BeginEnsure(j, "available")
    /\ UNCHANGED <<desired, enabled, cycle, token, subscribed, closed, op, doomed,
                   closer, joining, exhausted, raised, overtaken>>

(* _run_recovery_attempt up to its currency check under both locks.           *)
EnterAttempt(j) ==
    /\ stage[j] = "waiting" /\ IsThread(j)
    /\ mutex = None
    /\ IF Current(j[1])
       THEN /\ Goto(j, "ensuring")
            /\ mutex' = j
            /\ BeginEnsure(j, "available")
       ELSE /\ Goto(j, "over")
            /\ UNCHANGED <<ensureVars, mutex>>
    /\ UNCHANGED <<desired, enabled, cycle, token, subscribed, closed, op, doomed,
                   closer, joining, exhausted, raised, overtaken>>

RunEnsure(j) ==
    /\ stage[j] = "ensuring"
    /\ EnsureStep(j)
    /\ UNCHANGED supervisorVars

LeaveEnsure(j) ==
    /\ stage[j] = "ensuring" /\ phase[j] = "ended"
    /\ mutex' = None
    /\ Goto(j, IF op[j[1]] \in {"start", "stop"} THEN "over" ELSE "handling")
    /\ EndEnsure(j, verdict[j])
    /\ UNCHANGED <<desired, enabled, cycle, token, subscribed, closed, op,
                   doomed, closer, joining, exhausted, raised, overtaken>>

(* Faulty variant: the exception leaves the mutation lock held.               *)
RaiseHoldingLock(j) ==
    /\ stage[j] = "ensuring"
    /\ Goto(j, "over")
    /\ EndEnsure(j, "none")
    /\ raised' = (raised \/ cycle = j[1])
    /\ UNCHANGED <<desired, enabled, cycle, token, subscribed, closed, mutex, op, doomed,
                   closer, joining, exhausted, overtaken>>

(* A publish() inside ensure raises EventDispatchError when some handler      *)
(* failed; the locks are released and the exception leaves start(), stop() or *)
(* the attempt thread.                                                        *)
RaiseFromEnsure(j) ==
    /\ stage[j] = "ensuring"
    /\ mutex' = None
    /\ Goto(j, "over")
    /\ EndEnsure(j, "none")
    /\ raised' = (raised \/ cycle = j[1])
    /\ UNCHANGED <<desired, enabled, cycle, token, subscribed, closed, op, doomed, closer,
                   joining, exhausted, overtaken>>
------------------------------------------------------------------------------
(* _end_recovery_cycle                                                        *)
EndCycle(c) ==
    IF cycle = c THEN Invalidate(None) ELSE UNCHANGED <<cycle, token, doomed>>

(* Faulty variant: success does not end the cycle.                            *)
SatisfiedForgotten(j) ==
    /\ stage[j] = "handling" /\ verdict[j] \in Satisfied
    /\ Goto(j, "over")
    /\ UNCHANGED <<ensureVars, desired, enabled, cycle, token, subscribed, closed, mutex, op,
                   doomed, closer, joining, exhausted, raised, overtaken>>

HandleSatisfied(j) ==
    /\ stage[j] = "handling" /\ verdict[j] \in Satisfied
    /\ EndCycle(j[1])
    /\ Goto(j, "over")
    /\ UNCHANGED <<ensureVars, desired, enabled, subscribed, closed, mutex, op,
                   closer, joining, exhausted, raised, overtaken>>

HandleUnsatisfied(j) ==
    /\ stage[j] = "handling" /\ verdict[j] \notin Satisfied
    /\ Goto(j, IF Current(j[1]) THEN "retrying" ELSE "over")
    /\ UNCHANGED <<ensureVars, desired, enabled, cycle, token, subscribed, closed,
                   mutex, op, doomed, closer, joining, exhausted, raised, overtaken>>

(* Faulty variant: reports the exhaustion, leaves the cycle live.             *)
ExhaustWithoutEnd(j) ==
    /\ stage[j] = "retrying" /\ j[2] >= MaxAttempts
    /\ Goto(j, "reporting")
    /\ UNCHANGED <<ensureVars, desired, enabled, cycle, token, subscribed, closed, mutex, op,
                   doomed, closer, joining, exhausted, raised, overtaken>>

(* _schedule_retry_or_exhaust, the budget spent: end the cycle, then report.  *)
Exhaust(j) ==
    /\ stage[j] = "retrying" /\ j[2] >= MaxAttempts
    /\ EndCycle(j[1])
    /\ Goto(j, "reporting")
    /\ UNCHANGED <<ensureVars, desired, enabled, subscribed, closed, mutex, op,
                   closer, joining, exhausted, raised, overtaken>>

Report(j) ==
    /\ stage[j] = "reporting"
    /\ exhausted' = exhausted \cup {j[1]}
    /\ Goto(j, "over")
    /\ UNCHANGED <<ensureVars, desired, enabled, cycle, token, subscribed, closed,
                   mutex, op, doomed, closer, joining, raised, overtaken>>

(* schedule_after: the timer may fire before its token is stored below.       *)
ScheduleRetry(j) ==
    /\ stage[j] = "retrying" /\ j[2] < MaxAttempts
    /\ stage' = [stage EXCEPT ![j] = "storing", ![<<j[1], j[2] + 1>>] = "armed"]
    /\ UNCHANGED <<ensureVars, desired, enabled, cycle, token, subscribed, closed,
                   mutex, op, doomed, closer, joining, exhausted, raised, overtaken>>

(* Faulty variant: the token is stored without asking for the cycle.          *)
StoreUnchecked(j) ==
    /\ stage[j] = "storing"
    /\ Goto(j, "over")
    /\ token' = <<j[1], j[2] + 1>>
    /\ doomed' = doomed \cup ({token} \ {None})
    /\ overtaken' = (overtaken \/ token # None)
    /\ UNCHANGED <<ensureVars, desired, enabled, cycle, subscribed, closed, mutex, op,
                   closer, joining, exhausted, raised>>

StoreToken(j) ==
    LET retry == <<j[1], j[2] + 1>> IN
    /\ stage[j] = "storing"
    /\ IF Current(j[1])
       THEN /\ Goto(j, "over")
            /\ token' = retry
            /\ doomed' = doomed \cup ({token} \ {None})
            /\ overtaken' = (overtaken \/ token # None)
       ELSE /\ stage' = [stage EXCEPT ![j] = "over",
                           ![retry] = IF @ = "armed" THEN "over" ELSE @]
            /\ UNCHANGED <<token, doomed, overtaken>>
    /\ UNCHANGED <<ensureVars, desired, enabled, cycle, subscribed, closed, mutex, op,
                   closer, joining, exhausted, raised>>

(* scheduler.cancel() of a token that was taken out of _retry_token.          *)
CancelToken(t) ==
    /\ t \in doomed
    /\ doomed' = doomed \ {t}
    /\ stage' = [stage EXCEPT ![t] = IF @ = "armed" THEN "over" ELSE @]
    /\ UNCHANGED <<ensureVars, desired, enabled, cycle, token, subscribed, closed,
                   mutex, op, closer, joining, exhausted, raised, overtaken>>

Fire(t) ==
    /\ stage[t] = "armed"
    /\ Goto(t, "due")
    /\ UNCHANGED <<ensureVars, desired, enabled, cycle, token, subscribed, closed,
                   mutex, op, doomed, closer, joining, exhausted, raised, overtaken>>

(* Faulty variant: only the retry whose token is stored is accepted.          *)
OnStoredRetryDue(t) ==
    /\ stage[t] = "due"
    /\ IF subscribed /\ Current(t[1]) /\ token = t
       THEN token' = None /\ Goto(t, "launching")
       ELSE Goto(t, "over") /\ UNCHANGED token
    /\ UNCHANGED <<ensureVars, desired, enabled, cycle, subscribed, closed, mutex, op,
                   doomed, closer, joining, exhausted, raised, overtaken>>

(* _on_retry_due, called by the bus while the subscription is in force.       *)
OnRetryDue(t) ==
    /\ stage[t] = "due"
    /\ IF subscribed /\ Current(t[1])
       THEN token' = None /\ Goto(t, "launching")
       ELSE Goto(t, "over") /\ UNCHANGED token
    /\ UNCHANGED <<ensureVars, desired, enabled, cycle, subscribed, closed, mutex, op,
                   doomed, closer, joining, exhausted, raised, overtaken>>

(* Faulty variant: the thread is registered and started in any case.          *)
LaunchUnchecked(j) ==
    /\ stage[j] = "launching"
    /\ Goto(j, "registered")
    /\ UNCHANGED <<ensureVars, desired, enabled, cycle, token, subscribed, closed,
                   mutex, op, doomed, closer, joining, exhausted, raised, overtaken>>

(* _launch_recovery_attempt: register under the lock, start outside it.       *)
Launch(j) ==
    /\ stage[j] = "launching"
    /\ Goto(j, IF Current(j[1]) THEN "registered" ELSE "over")
    /\ UNCHANGED <<ensureVars, desired, enabled, cycle, token, subscribed, closed,
                   mutex, op, doomed, closer, joining, exhausted, raised, overtaken>>

StartThread(j) ==
    /\ stage[j] = "registered"
    /\ Goto(j, "waiting")
    /\ UNCHANGED <<ensureVars, desired, enabled, cycle, token, subscribed, closed,
                   mutex, op, doomed, closer, joining, exhausted, raised, overtaken>>
------------------------------------------------------------------------------
Kick(i) ==
    /\ op[i] = "none" /\ ~closed
    /\ op' = [op EXCEPT ![i] = "kick"]
    /\ subscribed' = TRUE
    /\ Goto(<<i, 1>>, "launching")

EnableRecovery(i) ==
    /\ desired /\ ~enabled
    /\ Kick(i)
    /\ enabled' = TRUE
    /\ Invalidate(i)
    /\ UNCHANGED <<ensureVars, desired, closed, mutex, closer, joining, exhausted,
                   raised, overtaken>>

Reconcile(i) ==
    /\ Armed /\ cycle = None
    /\ Kick(i)
    /\ cycle' = i
    /\ UNCHANGED <<ensureVars, desired, enabled, token, closed, mutex, doomed, closer,
                   joining, exhausted, raised, overtaken>>

DisableRecovery ==
    /\ enabled /\ ~closed
    /\ enabled' = FALSE
    /\ Invalidate(None)
    /\ UNCHANGED <<ensureVars, desired, subscribed, closed, mutex, op, stage, closer,
                   joining, exhausted, raised, overtaken>>

Close ==
    /\ ~closed
    /\ closed' = TRUE
    /\ enabled' = FALSE
    /\ subscribed' = FALSE
    /\ Invalidate(None)
    /\ closer' = "joining"
    /\ joining' = AttemptThreads
    /\ UNCHANGED <<ensureVars, desired, mutex, op, stage, exhausted, raised, overtaken>>

(* thread.join() on one thread; joining a thread that was registered but not  *)
(* started raises RuntimeError out of close().                                *)
Join(j) ==
    /\ closer = "joining" /\ j \in joining
    /\ stage[j] \in {"registered", "over"}
    /\ closer' = IF stage[j] = "registered" THEN "error" ELSE closer
    /\ joining' = joining \ {j}
    /\ UNCHANGED <<ensureVars, desired, enabled, cycle, token, subscribed, closed,
                   mutex, op, stage, doomed, exhausted, raised, overtaken>>

CloseReturns ==
    /\ closer = "joining" /\ joining = {}
    /\ closer' = "returned"
    /\ UNCHANGED <<ensureVars, desired, enabled, cycle, token, subscribed, closed,
                   mutex, op, stage, doomed, joining, exhausted, raised, overtaken>>
------------------------------------------------------------------------------
(* What the threads, the timers and the bus do by themselves.                 *)
Progress(j) ==
    \/ EnterAttempt(j) \/ RunEnsure(j) \/ LeaveEnsure(j)
    \/ HandleSatisfied(j) \/ HandleUnsatisfied(j) \/ Exhaust(j) \/ Report(j)
    \/ ScheduleRetry(j) \/ StoreToken(j) \/ Fire(j) \/ OnRetryDue(j)
    \/ Launch(j) \/ StartThread(j) \/ CancelToken(j) \/ Join(j)

System == \/ \E j \in Jobs : Progress(j)
          \/ \E i \in Ops : EnterCall(i)
          \/ CloseReturns

(* What others decide: calls, failing handlers, changes of the server, and    *)
(* how many rounds a verification loop makes.                                 *)
Environment ==
    \/ Flip /\ UNCHANGED supervisorVars
    \/ \E i \in Ops : \/ EnableRecovery(i) \/ Reconcile(i)
                      \/ \E kind \in {"start", "start_recovering", "stop"} : Call(i, kind)
    \/ DisableRecovery \/ Close
    \/ \E j \in Jobs : \/ RaiseFromEnsure(j)
                       \/ stage[j] = "ensuring" /\ VerifyAgain(j) /\ UNCHANGED supervisorVars

Next == System \/ Environment

(* Some thread that can run does run: with single-use operations and a        *)
(* bounded number of attempts this is implied by the fairness of the          *)
(* operating system to each thread, of the mutation lock to its waiters and   *)
(* of the deadline of an episode, and asks for less.                          *)
Fairness == WF_vars(System)

Spec == Init /\ [][Next]_vars /\ Fairness
------------------------------------------------------------------------------
TypeOK ==
    /\ EnsureTypeOK
    /\ desired \in BOOLEAN /\ enabled \in BOOLEAN
    /\ cycle \in Ops \cup {None}
    /\ token \in Jobs \cup {None}
    /\ subscribed \in BOOLEAN /\ closed \in BOOLEAN
    /\ mutex \in Jobs \cup {None}
    /\ op \in [Ops -> Kinds]
    /\ stage \in [Jobs -> Stages]
    /\ doomed \subseteq Jobs
    /\ closer \in {"idle", "joining", "returned", "error"}
    /\ joining \subseteq Jobs
    /\ exhausted \subseteq Ops
    /\ raised \in BOOLEAN /\ overtaken \in BOOLEAN

(* The server is only ever driven towards the caller's current intent: a      *)
(* start episode runs only while desired_running holds, a stop episode only   *)
(* while it does not, however many recovery threads, retries and calls race   *)
(* (server.py 112-152, 234-247).                                              *)
IntentRespected ==
    \A j \in Jobs : stage[j] = "ensuring" => (desired <=> wanted[j] = "available")

(* A live cycle exists only under the recovery gate of an open supervisor,    *)
(* and a stored retry token always belongs to the live cycle: no retry        *)
(* survives stop(), disabling or close() in _retry_token (server.py 336-350). *)
CycleGated ==
    /\ cycle # None => Armed /\ ~closed /\ subscribed
    /\ token # None => cycle = token[1]

(* While a cycle is live, some attempt or some retry of it is on its way.     *)
(* reconcile() does nothing while a cycle is live (server.py 186-187), so a   *)
(* cycle nobody drives is never taken up again.                               *)
Driving(j) ==
    \/ stage[j] \in {"due", "launching", "registered", "waiting", "ensuring",
                     "handling", "retrying"}
    \/ stage[j] = "armed" /\ j \notin doomed
CycleHasDriver == cycle # None => \E n \in Attempts : Driving(<<cycle, n>>)

(* "unsatisfied -> retry/backoff cycle -> fresh bounded reconciliation"       *)
(* (event_bus.md 70-86): as long as no exception interferes, a live cycle has *)
(* a driver.                                                                  *)
UnsatisfiedIsRetried == CycleHasDriver \/ raised

(* Only two histories leave a live cycle without a driver: an exception out   *)
(* of its ensure, and a retry stored over a newer one (server.py 245-248,     *)
(* 296-303).                                                                  *)
CycleHasDriverUnless == CycleHasDriver \/ raised \/ overtaken

(* AdbServerRecoveryExhausted is the last word on its cycle: once it is       *)
(* published no attempt of that cycle can reach the server (server.py         *)
(* 273-283).                                                                  *)
ExhaustedIsFinal ==
    \A i \in exhausted : cycle # i /\ \A n \in Attempts : stage[<<i, n>>] # "ensuring"

(* Once close() has returned no attempt thread it knew of is running, and     *)
(* none that it did not know of can ever start (server.py 194-232).           *)
CloseQuiesces == closer = "returned" => AttemptThreads = {}

(* start(), stop(), close() and every attempt thread come back: it never      *)
(* happens that one of them waits for the mutation lock or for a join from    *)
(* some moment on (server.py 116, 141, 211-213, 241).                         *)
CallsReturn ==
    []<>(closer # "joining" /\ \A j \in Jobs : stage[j] # "waiting")

(* No recovery cycle stays alive for ever: it is satisfied, exhausted or      *)
(* invalidated, outside those two histories (server.py 253-303).              *)
CycleEnds == []<>(cycle = None \/ raised \/ overtaken)

(* The attempts of a recovering operation, as RecoveryCycle sees them: an     *)
(* attempt is handed on when its successor's retry has been scheduled.        *)
Recovering(i) == op[i] \in {"start_recovering", "kick"}
HandedOn(j) == j[2] < MaxAttempts /\ stage[<<j[1], j[2] + 1>>] # "unused"
AttemptOf(j) ==
    IF ~Recovering(j[1]) THEN "waiting"
    ELSE CASE stage[j] = "ensuring" -> "running"
           [] stage[j] \in {"handling", "retrying"} -> "returned"
           [] stage[j] = "reporting" -> "spent"
           [] stage[j] \in {"storing", "over"} -> IF HandedOn(j) THEN "handed on" ELSE "over"
           [] OTHER -> "waiting"
Attempted == [j \in Jobs |-> AttemptOf(j)]
OpenedCycles == {i \in Ops : \/ op[i] = "kick"
                             \/ op[i] = "start_recovering"
                                /\ stage[<<i, 1>>] \notin {"unused", "waiting"}}

(* Under all its locks, timers and late stores the supervisor runs proper     *)
(* recovery cycles: one live at a time, attempts of it in order, one at a     *)
(* time and within the budget, an attempt made only while its cycle is live,  *)
(* exhaustion reported only after the last one (server.py 154-350).           *)
Recovery == INSTANCE RecoveryCycle WITH
    Cycles <- Ops,
    live <- cycle,
    opened <- OpenedCycles,
    attempt <- Attempted,
    reported <- exhausted
RunsRecoveryCycles == Recovery!Spec
==============================================================================
