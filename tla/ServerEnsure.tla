----------------------------- MODULE ServerEnsure -----------------------------
(* AdbServerEnsureOrchestrator (adb/server/lifecycle/ensure.py): one bounded  *)
(* episode per job j brings the native ADB server to the wanted availability  *)
(* with at most one start or stop command. The server belongs to the machine, *)
(* not to this process: anybody may start or kill it at any moment (Flip).    *)
(* Time is abstracted: whenever a verification probe disagrees, the deadline  *)
(* may or may not have passed.                                                *)
EXTENDS Naturals

CONSTANTS Jobs,     \* callers of ensure()
          MaxFlips  \* bound: changes of the server made by others

VARIABLES
    server,    \* actual availability: "available" or "unavailable"
    flips,     \* changes made by others so far
    phase,     \* phase[j]: what the episode of j does next
    wanted,    \* wanted[j]: the desired availability
    seen,      \* seen[j]: the last probe result
    attempt,   \* attempt[j]: status of the native command, or "none"
    verdict,   \* verdict[j]: terminal status, or "none"
    disturbed  \* history: jobs during whose episode somebody else acted

ensureVars == <<server, flips, phase, wanted, seen, attempt, verdict, disturbed>>

Availability == {"available", "unavailable"}
Probed == Availability \cup {"indeterminate"}
Phases == {"idle", "probe", "command", "verify", "ended"}
Satisfied == {"already_satisfied", "achieved"}
Verdicts == {"none", "failed", "timed_out"} \cup Satisfied

EnsureInit ==
    /\ server \in Availability
    /\ flips = 0
    /\ phase = [j \in Jobs |-> "idle"]
    /\ wanted = [j \in Jobs |-> "available"]
    /\ seen = [j \in Jobs |-> "indeterminate"]
    /\ attempt = [j \in Jobs |-> "none"]
    /\ verdict = [j \in Jobs |-> "none"]
    /\ disturbed = {}

InEpisode(j) == phase[j] \in {"probe", "command", "verify", "ended"}

Flip ==
    /\ flips < MaxFlips
    /\ flips' = flips + 1
    /\ server' \in Availability \ {server}
    /\ disturbed' = disturbed \cup {j \in Jobs : InEpisode(j)}
    /\ UNCHANGED <<phase, wanted, seen, attempt, verdict>>

BeginEnsure(j, w) ==
    /\ phase' = [phase EXCEPT ![j] = "probe"]
    /\ wanted' = [wanted EXCEPT ![j] = w]
    /\ UNCHANGED <<server, flips, seen, attempt, verdict, disturbed>>

(* probe(): a reader error other than a refused connection is indeterminate.  *)
Probe(j) == \E p \in {server, "indeterminate"} : seen' = [seen EXCEPT ![j] = p]

FirstProbe(j) ==
    /\ phase[j] = "probe"
    /\ Probe(j)
    /\ IF seen'[j] = wanted[j]
       THEN /\ phase' = [phase EXCEPT ![j] = "ended"]
            /\ verdict' = [verdict EXCEPT ![j] = "already_satisfied"]
       ELSE /\ phase' = [phase EXCEPT ![j] = "command"]
            /\ UNCHANGED verdict
    /\ UNCHANGED <<server, flips, wanted, attempt, disturbed>>

(* The native command may work whatever status it reports; a status of        *)
(* TIMED_OUT is treated like SUCCEEDED, so "completed" stands for both.       *)
Command(j) ==
    /\ phase[j] = "command"
    /\ server' \in {server, wanted[j]}
    /\ \E status \in {"completed", "failed"} :
          attempt' = [attempt EXCEPT ![j] = status]
    /\ phase' = [phase EXCEPT ![j] = "verify"]
    /\ UNCHANGED <<flips, wanted, seen, verdict, disturbed>>

(* Faulty variant: a failed command decides, whatever the probe says.         *)
VerifyCommandFirst(j) ==
    /\ phase[j] = "verify"
    /\ Probe(j)
    /\ verdict' = [verdict EXCEPT ![j] = IF attempt[j] = "failed" THEN "failed"
                                        ELSE IF seen'[j] = wanted[j] THEN "achieved"
                                        ELSE "timed_out"]
    /\ phase' = [phase EXCEPT ![j] = "ended"]
    /\ UNCHANGED <<server, flips, wanted, attempt, disturbed>>

(* The verification loop: satisfied, out of time, or one more round.          *)
Verify(j) ==
    /\ phase[j] = "verify"
    /\ Probe(j)
    /\ verdict' = [verdict EXCEPT ![j] = IF seen'[j] = wanted[j] THEN "achieved"
                                        ELSE IF attempt[j] = "failed" THEN "failed"
                                        ELSE "timed_out"]
    /\ phase' = [phase EXCEPT ![j] = "ended"]
    /\ UNCHANGED <<server, flips, wanted, attempt, disturbed>>

VerifyAgain(j) ==
    /\ phase[j] = "verify"
    /\ Probe(j)
    /\ seen'[j] # wanted[j]
    /\ UNCHANGED <<server, flips, phase, wanted, attempt, verdict, disturbed>>

(* ensure() returns or raises: its local variables are gone, only the status  *)
(* of a returned result is kept by the caller.                                *)
EndEnsure(j, status) ==
    /\ phase' = [phase EXCEPT ![j] = "idle"]
    /\ wanted' = [wanted EXCEPT ![j] = "available"]
    /\ seen' = [seen EXCEPT ![j] = "indeterminate"]
    /\ attempt' = [attempt EXCEPT ![j] = "none"]
    /\ verdict' = [verdict EXCEPT ![j] = status]
    /\ disturbed' = disturbed \ {j}
    /\ UNCHANGED <<server, flips>>

EnsureStep(j) == FirstProbe(j) \/ Command(j) \/ Verify(j)

EnsureTypeOK ==
    /\ server \in Availability
    /\ flips \in Nat
    /\ phase \in [Jobs -> Phases]
    /\ wanted \in [Jobs -> Availability]
    /\ seen \in [Jobs -> Probed]
    /\ attempt \in [Jobs -> {"none", "completed", "failed"}]
    /\ verdict \in [Jobs -> Verdicts]
    /\ disturbed \subseteq Jobs

(* The conditions AdbServerEnsureResult checks of every result it is built    *)
(* from (ensure.py 194-209) hold of what the episode produces, so that ensure *)
(* never ends in a ValueError.                                                *)
ResultConsistent ==
    \A j \in Jobs : phase[j] = "ended" =>
        /\ verdict[j] \in Satisfied <=> seen[j] = wanted[j]
        /\ verdict[j] = "already_satisfied" => attempt[j] = "none"
        /\ verdict[j] = "failed" => attempt[j] = "failed"

(* A satisfied episode tells the truth about the server, except for changes   *)
(* made by somebody outside the process while it ran: no other episode of     *)
(* this process can have undone it (the mutation lock of server.py 116, 141,  *)
(* 241 around ensure.py 270-333).                                             *)
SatisfiedMeansSo ==
    \A j \in Jobs : phase[j] = "ended" /\ verdict[j] \in Satisfied /\ j \notin disturbed
                    => server = wanted[j]
==============================================================================
