------------------------------- MODULE Scheduler -------------------------------
(* ThreadingTemporalScheduler (scheduling/adapters/threading.py): one-shot    *)
(* and recurring registrations, each served by one threading.Timer at a time. *)
(* A registration r is named by its token; registry[r] is what _timers maps   *)
(* the token to, stage[r] is where r's schedule call or its timer callback    *)
(* stands. A recurring callback creates the next timer as its last step, so   *)
(* one stage per registration is enough. Actions are the critical sections of *)
(* _lock and the calls made between them.                                     *)
EXTENDS Naturals, Sequences

CONSTANTS
    Once,        \* tokens of schedule_at / schedule_after registrations
    Recurring,   \* tokens of schedule_recurring registrations
    Occurrences, \* the instants CalendarSchedule.next_after enumerates
    MaxTime,     \* bound: the wall clock stops here
    Skew         \* a timer may wake this much before its wall-clock deadline

Tokens == Once \cup Recurring
Instants == 0..MaxTime
Policies == {"skip", "fire_once", "catch_up_all"}

ASSUME SchedulerAssumption ==
    /\ Once \cap Recurring = {}
    /\ Skew \in Nat /\ MaxTime \in Nat
    /\ Occurrences \subseteq Instants

VARIABLES
    now,         \* the wall clock
    closed,      \* _closed
    registry,    \* _timers: "absent", "placeholder" (None) or "timer"
    stage,       \* see Stages
    policy,      \* misfire_policy of the registration
    deadline,    \* deadline of the current timer
    cursor,      \* where the next occurrence is searched from
    silenced,    \* Timer.cancel() was called on the current timer
    returned,    \* tokens their caller holds, the schedule call having returned
    cancelling,  \* timers removed from the registry whose cancel() is still to come
    cancelled,   \* history: tokens for which cancel() returned True
    since,       \* history: the clock when a recurring registration was armed
    log          \* history: log[r], the deadlines r published, in order

vars == <<now, closed, registry, stage, policy, deadline, cursor, silenced,
          returned, cancelling, cancelled, since, log>>

(* "creating": token known, no timer yet. "stored": in the registry, start()  *)
(* not called. "armed": the timer thread waits. "fired": the callback runs    *)
(* but has not taken the lock. "publishing": the lock let it through.         *)
(* "rearm": the publication is over. "over": no thread acts for r any more.   *)
Stages == {"unused", "creating", "stored", "armed", "fired", "publishing",
           "rearm", "over"}

Init ==
    /\ now = 0
    /\ closed = FALSE
    /\ registry = [r \in Tokens |-> "absent"]
    /\ stage = [r \in Tokens |-> "unused"]
    /\ policy = [r \in Tokens |-> "fire_once"]
    /\ deadline = [r \in Tokens |-> 0]
    /\ cursor = [r \in Tokens |-> 0]
    /\ silenced = [r \in Tokens |-> FALSE]
    /\ returned = {}
    /\ cancelling = {}
    /\ cancelled = {}
    /\ since = [r \in Tokens |-> 0]
    /\ log = [r \in Tokens |-> <<>>]

Tick ==
    /\ now < MaxTime
    /\ now' = now + 1
    /\ UNCHANGED <<closed, registry, stage, policy, deadline, cursor, silenced,
                   returned, cancelling, cancelled, since, log>>

(* schedule_at (a past deadline under SKIP returns a token that was never     *)
(* registered) and schedule_after; RuntimeError once closed.                  *)
ScheduleOnce(r, d, p) ==
    /\ stage[r] = "unused"
    /\ policy' = [policy EXCEPT ![r] = p]
    /\ deadline' = [deadline EXCEPT ![r] = d]
    /\ IF (d <= now /\ p = "skip") \/ closed
       THEN /\ stage' = [stage EXCEPT ![r] = "over"]
            /\ UNCHANGED registry
       ELSE /\ stage' = [stage EXCEPT ![r] = "stored"]
            /\ registry' = [registry EXCEPT ![r] = "timer"]
    /\ UNCHANGED <<now, closed, cursor, silenced, returned, cancelling, cancelled, since, log>>

(* schedule_recurring up to the placeholder it leaves in the registry.        *)
ScheduleRecurring(r, p) ==
    /\ stage[r] = "unused"
    /\ policy' = [policy EXCEPT ![r] = p]
    /\ IF closed
       THEN /\ stage' = [stage EXCEPT ![r] = "over"]
            /\ UNCHANGED registry
       ELSE /\ stage' = [stage EXCEPT ![r] = "creating"]
            /\ registry' = [registry EXCEPT ![r] = "placeholder"]
    /\ UNCHANGED <<now, closed, deadline, cursor, silenced, returned, cancelling,
                   cancelled, since, log>>

(* _schedule_next_recurring: the occurrence after the cursor, which is the    *)
(* clock for the first timer, unless there is none, or the token was          *)
(* cancelled or the scheduler closed in the meantime.                         *)
From(r) == IF stage[r] = "creating" THEN now ELSE cursor[r]

NextAfter(r) == {o \in Occurrences : /\ o > From(r)
                                    /\ \A q \in Occurrences : q > From(r) => o <= q}

Arm(r) ==
    /\ stage[r] \in {"creating", "rearm"}
    /\ IF NextAfter(r) = {}
       THEN /\ registry' = [registry EXCEPT ![r] = "absent"]
            /\ stage' = [stage EXCEPT ![r] = "over"]
            /\ UNCHANGED <<deadline, silenced>>
       ELSE IF registry[r] = "absent" \/ closed
       THEN /\ stage' = [stage EXCEPT ![r] = "over"]
            /\ UNCHANGED <<registry, deadline, silenced>>
       ELSE /\ registry' = [registry EXCEPT ![r] = "timer"]
            /\ stage' = [stage EXCEPT ![r] = "stored"]
            /\ \E o \in NextAfter(r) : deadline' = [deadline EXCEPT ![r] = o]
            /\ silenced' = [silenced EXCEPT ![r] = FALSE]
    /\ since' = [since EXCEPT ![r] = IF stage[r] = "creating" THEN now ELSE @]
    /\ UNCHANGED <<now, closed, policy, cursor, returned, cancelling, cancelled, log>>

(* timer.start(), outside the lock: the timer may be cancelled already.       *)
Start(r) ==
    /\ stage[r] = "stored"
    /\ stage' = [stage EXCEPT ![r] = "armed"]
    /\ returned' = returned \cup {r}
    /\ UNCHANGED <<now, closed, registry, policy, deadline, cursor, silenced,
                   cancelling, cancelled, since, log>>

(* Faulty variant: the deadline itself does not count as reached, at the end  *)
(* of time for instance.                                                      *)
WakeAfter(r) ==
    /\ stage[r] = "armed"
    /\ \/ silenced[r] /\ stage' = [stage EXCEPT ![r] = "over"]
       \/ /\ ~silenced[r] /\ now > deadline[r]
          /\ stage' = [stage EXCEPT ![r] = "fired"]
    /\ UNCHANGED <<now, closed, registry, policy, deadline, cursor, silenced,
                   returned, cancelling, cancelled, since, log>>

(* threading.Timer.run: wait, then call back unless cancelled.                *)
Wake(r) ==
    /\ stage[r] = "armed"
    /\ \/ silenced[r] /\ stage' = [stage EXCEPT ![r] = "over"]
       \/ /\ ~silenced[r] /\ now + Skew >= deadline[r]
          /\ stage' = [stage EXCEPT ![r] = "fired"]
    /\ UNCHANGED <<now, closed, registry, policy, deadline, cursor, silenced,
                   returned, cancelling, cancelled, since, log>>

(* Faulty variant: what pop() returns is ignored.                             *)
DeliverAnyway(r) ==
    /\ r \in Once /\ stage[r] = "fired"
    /\ registry' = [registry EXCEPT ![r] = "absent"]
    /\ stage' = [stage EXCEPT ![r] = "publishing"]
    /\ UNCHANGED <<now, closed, policy, deadline, cursor, silenced,
                   returned, cancelling, cancelled, since, log>>

(* deliver: the token is popped before the publication.                       *)
DeliverOnce(r) ==
    /\ r \in Once /\ stage[r] = "fired"
    /\ registry' = [registry EXCEPT ![r] = "absent"]
    /\ stage' = [stage EXCEPT ![r] =
                   IF registry[r] = "timer" THEN "publishing" ELSE "over"]
    /\ UNCHANGED <<now, closed, policy, deadline, cursor, silenced,
                   returned, cancelling, cancelled, since, log>>

(* Faulty variants: the cursor moves one instant too far; every policy skips  *)
(* what was missed; the token and _closed are not looked at.                  *)
Redeliver(r, dropped, from) ==
    /\ r \in Recurring /\ stage[r] = "fired"
    /\ IF dropped
       THEN /\ stage' = [stage EXCEPT ![r] = "over"]
            /\ UNCHANGED cursor
       ELSE /\ stage' = [stage EXCEPT ![r] =
                  IF deadline[r] <= now \/ policy[r] # "skip" THEN "publishing" ELSE "rearm"]
            /\ cursor' = [cursor EXCEPT ![r] = from]
    /\ UNCHANGED <<now, closed, registry, policy, deadline, silenced, returned,
                   cancelling, cancelled, since, log>>

DeliverPast(r) == Redeliver(r, registry[r] = "absent" \/ closed, deadline[r] + 1)
DeliverSkipping(r) ==
    Redeliver(r, registry[r] = "absent" \/ closed, IF now > deadline[r] THEN now ELSE deadline[r])
DeliverUnguarded(r) ==
    Redeliver(r, FALSE, IF policy[r] = "skip" /\ now > deadline[r] THEN now ELSE deadline[r])

(* deliver_recurring: the token stays registered during the publication; the  *)
(* clock is read here and decides both what SKIP drops and where it resumes.  *)
DeliverRecurring(r) ==
    /\ r \in Recurring /\ stage[r] = "fired"
    /\ IF registry[r] = "absent" \/ closed
       THEN /\ stage' = [stage EXCEPT ![r] = "over"]
            /\ UNCHANGED cursor
       ELSE /\ stage' = [stage EXCEPT ![r] =
                  IF deadline[r] <= now \/ policy[r] # "skip" THEN "publishing" ELSE "rearm"]
            /\ cursor' = [cursor EXCEPT ![r] =
                  IF policy[r] = "skip" /\ now > deadline[r] THEN now ELSE deadline[r]]
    /\ UNCHANGED <<now, closed, registry, policy, deadline, silenced, returned,
                   cancelling, cancelled, since, log>>

(* publisher.publish(event); when it raises, a recurring callback ends before *)
(* it has armed the next timer.                                               *)
Publish(r, raises) ==
    /\ stage[r] = "publishing"
    /\ log' = [log EXCEPT ![r] = Append(@, deadline[r])]
    /\ stage' = [stage EXCEPT ![r] =
                   IF r \in Once \/ raises THEN "over" ELSE "rearm"]
    /\ UNCHANGED <<now, closed, registry, policy, deadline, cursor, silenced,
                   returned, cancelling, cancelled, since>>

(* cancel() by a holder of the token, that is after schedule_* returned: the  *)
(* lock section that decides the answer, and later the Timer.cancel() call.   *)
(* An answer of False changes nothing.                                        *)
Cancel(r) ==
    /\ r \in returned
    /\ registry[r] = "timer"
    /\ registry' = [registry EXCEPT ![r] = "absent"]
    /\ cancelling' = cancelling \cup {r}
    /\ cancelled' = cancelled \cup {r}
    /\ UNCHANGED <<now, closed, stage, policy, deadline, cursor, silenced, returned,
                   since, log>>

(* Faulty variant: the timers are forgotten, not cancelled.                   *)
CloseLeavingTimers ==
    /\ ~closed
    /\ closed' = TRUE
    /\ registry' = [r \in Tokens |-> "absent"]
    /\ UNCHANGED <<now, stage, policy, deadline, cursor, silenced, returned,
                   cancelling, cancelled, since, log>>

Close ==
    /\ ~closed
    /\ closed' = TRUE
    /\ cancelling' = cancelling \cup {r \in Tokens : registry[r] = "timer"}
    /\ registry' = [r \in Tokens |-> "absent"]
    /\ UNCHANGED <<now, stage, policy, deadline, cursor, silenced, returned,
                   cancelled, since, log>>

CancelTimer(r) ==
    /\ r \in cancelling
    /\ cancelling' = cancelling \ {r}
    /\ silenced' = [silenced EXCEPT ![r] = TRUE]
    /\ UNCHANGED <<now, closed, registry, stage, policy, deadline, cursor,
                   returned, cancelled, since, log>>

Callback(r) ==
    \/ Arm(r) \/ Start(r) \/ Wake(r) \/ DeliverOnce(r) \/ DeliverRecurring(r)
    \/ \E raises \in BOOLEAN : Publish(r, raises)

Next ==
    \/ Tick \/ Close
    \/ \E r \in Once, d \in Instants, p \in Policies : ScheduleOnce(r, d, p)
    \/ \E r \in Recurring, p \in Policies : ScheduleRecurring(r, p)
    \/ \E r \in Tokens : Callback(r) \/ Cancel(r) \/ CancelTimer(r)

(* Started threads run and callers finish the calls they made. Nobody is      *)
(* obliged to schedule, cancel or close, and the clock may stop anywhere.     *)
Fairness == \A r \in Tokens : WF_vars(Callback(r)) /\ WF_vars(CancelTimer(r))

Spec == Init /\ [][Next]_vars /\ Fairness
------------------------------------------------------------------------------
TypeOK ==
    /\ now \in Instants
    /\ closed \in BOOLEAN
    /\ registry \in [Tokens -> {"absent", "placeholder", "timer"}]
    /\ stage \in [Tokens -> Stages]
    /\ policy \in [Tokens -> Policies]
    /\ deadline \in [Tokens -> Instants]
    /\ cursor \in [Tokens -> Instants]
    /\ silenced \in [Tokens -> BOOLEAN]
    /\ returned \subseteq Tokens
    /\ cancelling \subseteq Tokens /\ cancelled \subseteq Tokens
    /\ since \in [Tokens -> Instants]
    /\ log \in [Tokens -> Seq(Instants)]

Withdrawn(r) == closed \/ r \in cancelled

(* Once cancel() has returned True, or close() has run, no further delivery   *)
(* begins: only a callback that had already passed the lock may still publish *)
(* (threading.py 142-145, 178-186 against 115-128).                           *)
NoDeliveryAfterWithdrawal ==
    [][\A r \in Tokens : Withdrawn(r) /\ stage'[r] = "publishing"
                         => stage[r] = "publishing"]_vars

(* A one-shot whose cancel() returned True never publishes at all: unlike a   *)
(* recurring callback, deliver pops the token itself (threading.py 142-145).  *)
CancelledOnceIsSilent ==
    \A r \in Once \cap cancelled : log[r] = <<>> /\ stage[r] # "publishing"

(* A registration publishes each occurrence at most once, in calendar order,  *)
(* whatever the clock, the policy and the lateness of its timers; without     *)
(* SKIP it leaves none out (threading.py 164-195).                            *)
OccurrencesInOrder ==
    \A r \in Tokens :
        /\ \A i, j \in 1..Len(log[r]) : i < j => log[r][i] < log[r][j]
        /\ r \in Recurring /\ policy[r] # "skip" =>
              \A i \in 1..Len(log[r]), o \in Occurrences :
                  since[r] < o /\ o < log[r][i] => \E j \in 1..i : log[r][j] = o

(* A withdrawn registration comes to rest: no timer thread is left waiting    *)
(* for a deadline that may never come, not even one started after the         *)
(* withdrawal (start() runs outside the lock, threading.py 148-152, 198-202). *)
WithdrawnWindsDown ==
    \A r \in Tokens : Withdrawn(r) ~> (stage[r] \in {"unused", "over"})

(* A registered one-shot whose deadline has come is published, unless it is   *)
(* withdrawn first (threading.py 141-152).                                    *)
OnceIsDelivered ==
    \A r \in Once : (registry[r] = "timer" /\ now >= deadline[r])
                    ~> (log[r] # <<>> \/ Withdrawn(r))

(* "Cancel a registration, returning whether it was still active"             *)
(* (scheduling/ports.py 59-60): True only for a registration that some thread *)
(* is still going to serve.                                                   *)
CancelReportsActive ==
    [][\A r \in Tokens : r \in cancelled' \ cancelled => stage[r] # "over"]_vars
==============================================================================
