------------------------------ MODULE Preparation ------------------------------
(* AdbTransportPreparationOrchestrator (adb/transport/preparation.py) with    *)
(* its policy and result (orchestration.py). An episode e is one call of      *)
(* prepare(); its local variables are functions on episodes. The dispatcher   *)
(* appends to queue[e] while e is subscribed. The four subscriptions are one  *)
(* step, and so are the evaluation of an event and what it leads to: between  *)
(* them nothing shared is touched. The deadline may pass in any wait.         *)
EXTENDS Inventory

CONSTANTS MaxEpisodes,  \* bound: calls of prepare() at a time
          Serial,       \* binding_configuration.serial
          HasAddress,   \* binding_configuration.connect_address is not None
          Acceptable,   \* policy.acceptable_states
          Blocked       \* policy.blocked_states

ASSUME PreparationAssumption ==
    /\ MaxEpisodes \in Nat
    /\ HasAddress \in BOOLEAN
    /\ Acceptable # {} /\ Acceptable \cap Blocked = {}

Episodes == 1..MaxEpisodes

VARIABLES
    phase,     \* phase[e]: see Phases
    own,       \* own[e]: generation of session_id
    queue,     \* queue[e]: events
    presence,  \* presence[e]: presence_satisfaction
    attempts,  \* attempts[e]: outcomes of the connect attempts
    final,     \* final[e]: <<>> or <<final_snapshot>>
    origin,    \* history: the generation final[e] came from, 0 for the one-shot read
    status     \* status[e] of the result

episodeVars == <<phase, own, queue, presence, attempts, final, origin, status>>

Phases == {"idle", "called", "subscribing", "reading", "connecting", "waiting",
           "done", "raised"}
Presences == {"none", "already_present", "observed"}
Statuses == {"none", "satisfied", "failed", "timed_out", "blocked", "ambiguous",
             "observation_failed", "observation_stopped", "observation_replaced"}

(* Subscribed to the bus.                                                     *)
Hears(e) == phase[e] \in {"reading", "connecting", "waiting"}

PreparationInit ==
    /\ phase = [e \in Episodes |-> "idle"]
    /\ own = [e \in Episodes |-> 0]
    /\ queue = [e \in Episodes |-> <<>>]
    /\ presence = [e \in Episodes |-> "none"]
    /\ attempts = [e \in Episodes |-> <<>>]
    /\ final = [e \in Episodes |-> <<>>]
    /\ origin = [e \in Episodes |-> 0]
    /\ status = [e \in Episodes |-> "none"]
------------------------------------------------------------------------------
(* The locals of an episode are gone, and its name is free for another one.   *)
Forget(e) ==
    /\ phase' = [phase EXCEPT ![e] = "idle"]
    /\ own' = [own EXCEPT ![e] = 0]
    /\ queue' = [queue EXCEPT ![e] = <<>>]
    /\ presence' = [presence EXCEPT ![e] = "none"]
    /\ attempts' = [attempts EXCEPT ![e] = <<>>]
    /\ final' = [final EXCEPT ![e] = <<>>]
    /\ origin' = [origin EXCEPT ![e] = 0]
    /\ status' = [status EXCEPT ![e] = "none"]

ReadSession(e) ==
    /\ phase[e] = "called"
    /\ own' = [own EXCEPT ![e] = Active]
    /\ phase' = [phase EXCEPT ![e] = IF Active = 0 THEN "raised" ELSE "subscribing"]
    /\ UNCHANGED <<queue, presence, attempts, final, origin, status>>

Subscribe(e) ==
    /\ phase[e] = "subscribing"
    /\ phase' = [phase EXCEPT ![e] = "reading"]
    /\ UNCHANGED <<own, queue, presence, attempts, final, origin, status>>

(* _evaluate_snapshot: how the two gates judge a resolution.                  *)
Verdict(resolution) ==
    IF resolution.status = "ambiguous" THEN "ambiguous"
    ELSE IF resolution.status = "absent" THEN "none"
    ELSE IF Row(resolution).state \in Acceptable THEN "satisfied"
    ELSE IF Row(resolution).state \in Blocked THEN "blocked"
    ELSE "none"

PresenceAfter(e, resolution, kind) ==
    IF presence[e] = "none" /\ resolution.status = "resolved" THEN kind ELSE presence[e]

(* _complete: the result is published and the subscriptions withdrawn.        *)
Return(e, outcome) ==
    /\ status' = [status EXCEPT ![e] = outcome]
    /\ phase' = [phase EXCEPT ![e] = "done"]

MayConnect(e) == HasAddress /\ attempts[e] = <<>>

(* A complete snapshot from session g, or from the one-shot read (0).         *)
Judge(e, snapshot, g) ==
    LET resolution == ResolveTransportBinding(Serial, snapshot)
        kind == IF g = 0 THEN "already_present" ELSE "observed"
    IN  /\ final' = [final EXCEPT ![e] = <<snapshot>>]
        /\ origin' = [origin EXCEPT ![e] = g]
        /\ presence' = [presence EXCEPT ![e] = PresenceAfter(e, resolution, kind)]
        /\ IF Verdict(resolution) # "none"
           THEN Return(e, Verdict(resolution))
           ELSE /\ phase' = [phase EXCEPT ![e] =
                      IF presence'[e] = "none" /\ MayConnect(e) THEN "connecting" ELSE "waiting"]
                /\ UNCHANGED status

(* The read may fail: that proves no absence, and the stream decides.         *)
ReadInitial(e) ==
    /\ phase[e] = "reading"
    /\ \/ Judge(e, inventory, 0)
       \/ /\ phase' = [phase EXCEPT ![e] = "waiting"]
          /\ UNCHANGED <<presence, final, origin, status>>
    /\ queue' = [queue EXCEPT ![e] = IF phase'[e] = "done" THEN <<>> ELSE @]
    /\ UNCHANGED <<own, attempts>>

Connect(e) ==
    /\ phase[e] = "connecting"
    /\ \E outcome \in {"failed", "succeeded"} :
          attempts' = [attempts EXCEPT ![e] = Append(@, outcome)]
    /\ phase' = [phase EXCEPT ![e] = "waiting"]
    /\ UNCHANGED <<own, queue, presence, final, origin, status>>

(* Faulty variant: events are not told apart by their session.                *)
TakeAnyEvent(e) ==
    /\ phase[e] = "waiting" /\ queue[e] # <<>>
    /\ queue' = [queue EXCEPT ![e] = Tail(@)]
    /\ LET event == Head(queue[e]) IN
       IF event.kind = "started" THEN UNCHANGED <<phase, presence, final, origin, status>>
       ELSE IF event.kind = "snapshot" THEN Judge(e, event.snapshot, event.session)
       ELSE /\ Return(e, IF event.kind = "failed" THEN "observation_failed"
                                                  ELSE "observation_stopped")
            /\ UNCHANGED <<presence, final, origin>>
    /\ UNCHANGED <<own, attempts>>

(* One round of the loop. Older sessions are ignored, a newer one ends it.    *)
TakeEvent(e) ==
    /\ phase[e] = "waiting" /\ queue[e] # <<>>
    /\ LET event == Head(queue[e]) IN
       IF event.session > own[e]
       THEN Return(e, "observation_replaced") /\ UNCHANGED <<presence, final, origin>>
       ELSE IF event.session < own[e] \/ event.kind = "started"
       THEN UNCHANGED <<phase, presence, final, origin, status>>
       ELSE IF event.kind = "snapshot"
       THEN Judge(e, event.snapshot, event.session)
       ELSE /\ Return(e, IF event.kind = "failed" THEN "observation_failed"
                                                  ELSE "observation_stopped")
            /\ UNCHANGED <<presence, final, origin>>
    /\ queue' = [queue EXCEPT ![e] = IF phase'[e] = "done" THEN <<>> ELSE Tail(@)]
    /\ UNCHANGED <<own, attempts>>

TimeOut(e) ==
    /\ phase[e] = "waiting" /\ queue[e] = <<>>
    /\ Return(e, IF attempts[e] # <<>> /\ attempts[e][Len(attempts[e])] = "failed"
                 THEN "failed" ELSE "timed_out")
    /\ UNCHANGED <<own, queue, presence, attempts, final, origin>>

EpisodeStep(e) ==
    \/ ReadSession(e) \/ Subscribe(e) \/ ReadInitial(e) \/ Connect(e)
    \/ TakeEvent(e) \/ TimeOut(e)
------------------------------------------------------------------------------
PreparationTypeOK ==
    /\ phase \in [Episodes -> Phases]
    /\ own \in [Episodes -> 0..MaxSessions]
    /\ queue \in [Episodes -> Seq(Events)]
    /\ presence \in [Episodes -> Presences]
    /\ attempts \in [Episodes -> Seq({"failed", "succeeded"})]
    /\ final \in [Episodes -> {<<>>} \cup {<<s>> : s \in Snapshots}]
    /\ origin \in [Episodes -> 0..MaxSessions]
    /\ status \in [Episodes -> Statuses]

(* What an episode answers is true of its own observation session and of no   *)
(* other: a terminal or a newer event ended it only if its session was over,  *)
(* satisfaction rests on a row it read itself or that its session reported,   *)
(* and one absence leads to one connect attempt at most                       *)
(* (preparation.py 190-310, orchestration.py 185-192).                        *)
EpisodeSound ==
    \A e \in Episodes :
        /\ Len(attempts[e]) <= 1
        /\ origin[e] \in {0, own[e]}
        /\ status[e] = "observation_replaced" => generation > own[e]
        /\ status[e] \in {"observation_failed", "observation_stopped"} => Active # own[e]
        /\ status[e] = "satisfied" =>
             LET resolution == ResolveTransportBinding(Serial, final[e][1]) IN
             resolution.status = "resolved" /\ Row(resolution).state \in Acceptable
==============================================================================
