---------------------------- MODULE RecoveryCycle ----------------------------
(* What a recovery cycle of a supervisor is, without the locks, threads,      *)
(* timers and tokens that carry it out. At most one cycle is live. Its        *)
(* attempts are made one at a time and in order, each after the one before    *)
(* came back unsatisfied and was handed on, the first one while the cycle is  *)
(* live, within the budget. The cycle is over when an attempt is satisfied,   *)
(* when the budget is spent, or when its supervisor gives it up; only then,   *)
(* and only after the last attempt, may the exhaustion be reported.           *)
EXTENDS Naturals

CONSTANTS Cycles,       \* identities of cycles, each opened at most once
          MaxAttempts,  \* the budget of a cycle
          None

Attempts == 1..MaxAttempts

VARIABLES live,     \* the cycle that is live, or None
          opened,   \* cycles that were opened or refused
          attempt,  \* attempt[<<c, n>>]: how far the n-th attempt of c has come
          reported  \* cycles whose exhaustion was reported

cvars == <<live, opened, attempt, reported>>

Idle == \A j \in Cycles \X Attempts : attempt[j] # "running"

(* Attempt n of c is the one to be made next.                                 *)
IsNext(c, n) == attempt[<<c, n>>] = "waiting"
               /\ (n = 1 \/ attempt[<<c, n - 1>>] = "handed on")

Over(c) == live' = IF live = c THEN None ELSE live

Init == /\ live = None
        /\ opened = {} /\ reported = {}
        /\ attempt = [j \in Cycles \X Attempts |-> "waiting"]

Open(c) ==
    /\ c \notin opened
    /\ opened' = opened \cup {c}
    /\ live' = c
    /\ attempt' \in {attempt} \cup
         IF Idle THEN {[attempt EXCEPT ![<<c, 1>>] = "running"]} ELSE {}
    /\ UNCHANGED reported

Refuse(c) ==
    /\ c \notin opened
    /\ opened' = opened \cup {c}
    /\ attempt' = [attempt EXCEPT ![<<c, 1>>] = "over"]
    /\ UNCHANGED <<live, reported>>

Begin(c, n) ==
    /\ live = c /\ Idle /\ IsNext(c, n)
    /\ attempt' = [attempt EXCEPT ![<<c, n>>] = "running"]
    /\ UNCHANGED <<live, opened, reported>>

(* An attempt that was to be made next is not made any more.                  *)
Withdraw(c, n) ==
    /\ c \in opened /\ IsNext(c, n)
    /\ attempt' = [attempt EXCEPT ![<<c, n>>] = "over"]
    /\ UNCHANGED <<live, opened, reported>>

Return(c, n) ==
    /\ attempt[<<c, n>>] = "running"
    /\ \E s \in {"returned", "over"} : attempt' = [attempt EXCEPT ![<<c, n>>] = s]
    /\ UNCHANGED <<live, opened, reported>>

HandOn(c, n) ==
    /\ attempt[<<c, n>>] = "returned" /\ n < MaxAttempts
    /\ attempt' = [attempt EXCEPT ![<<c, n>>] = "handed on"]
    /\ UNCHANGED <<live, opened, reported>>

Conclude(c, n) ==
    /\ attempt[<<c, n>>] = "returned"
    /\ \/ attempt' = [attempt EXCEPT ![<<c, n>>] = "over"]
       \/ n = MaxAttempts /\ attempt' = [attempt EXCEPT ![<<c, n>>] = "spent"]
    /\ Over(c)
    /\ UNCHANGED <<opened, reported>>

Report(c) ==
    /\ attempt[<<c, MaxAttempts>>] = "spent"
    /\ reported' = reported \cup {c}
    /\ attempt' = [attempt EXCEPT ![<<c, MaxAttempts>>] = "over"]
    /\ UNCHANGED <<live, opened>>

GiveUp ==
    /\ live' = None
    /\ UNCHANGED <<opened, attempt, reported>>

Next == \/ \E c \in Cycles : Open(c) \/ Refuse(c) \/ Report(c)
        \/ \E c \in Cycles, n \in Attempts :
              Begin(c, n) \/ Withdraw(c, n) \/ Return(c, n) \/ HandOn(c, n) \/ Conclude(c, n)
        \/ GiveUp

Spec == Init /\ [][Next]_cvars
==============================================================================
