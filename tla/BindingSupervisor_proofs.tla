----------------------- MODULE BindingSupervisor_proofs -----------------------
(* What BindingSupervisor guarantees for every inventory, any number of       *)
(* sessions, registrations and recoveries, and every policy.                  *)
EXTENDS BindingSupervisor, FiniteSetTheorems, TLAPS

LEMMA Constants ==
    /\ MaxSessions \in Nat \ {0} /\ MaxChanges \in Nat /\ MaxPending \in Nat \ {0}
    /\ Terminals \subseteq {"failed", "stopped"}
    /\ MaxEpisodes \in Nat /\ MaxRegistrations \in Nat
    /\ Episodes \subseteq Nat \ {0} /\ Episodes \subseteq Appliers
    /\ Dispatcher \in Appliers /\ Registrar \in Appliers
    /\ Dispatcher \notin Episodes /\ Registrar \notin Episodes /\ Dispatcher # Registrar
BY InventoryAssumption, PreparationAssumption, BindingAssumption
   DEF Episodes, Appliers, Dispatcher, Registrar

LEMMA EventKinds ==
    ASSUME NEW event \in Events
    PROVE  /\ event.session \in Sessions
           /\ event.kind \in {"started", "snapshot", "failed", "stopped"}
           /\ event.kind = "snapshot" => event.snapshot \in Snapshots
           /\ event.kind \notin {"started", "snapshot"} => event.kind \in Terminals
BY InventoryAssumption DEF Events

LEMMA Resolutions ==
    ASSUME NEW snapshot
    PROVE  ResolveTransportBinding(Serial, snapshot).status
              \in {"absent", "resolved", "ambiguous"}
BY DEF ResolveTransportBinding, StatusOf

LEMMA Verdicts ==
    ASSUME NEW r, r.status \in {"absent", "resolved", "ambiguous"}
    PROVE  /\ Verdict(r) \in {"none", "ambiguous", "satisfied", "blocked"}
           /\ Verdict(r) = "satisfied" =>
                r.status = "resolved" /\ Row(r).state \in Acceptable
BY DEF Verdict

------------------------------------------------------------------------------
(* The ways in which a step touches the parts: an episode is opened, takes a  *)
(* step, hears an event, or is forgotten when its result is used or passed    *)
(* over; everything else leaves the episodes alone.                           *)
SupervisorAlone ==
    \/ Start \/ Register \/ Unregister \/ Close \/ Join
    \/ CallerReads \/ CallerReadsSnapshot \/ CallerApplies \/ CallerReturns
    \/ \E a \in Appliers : PublishChange(a) \/ PublicationRaises(a) \/ LaunchRecovery(a)
    \/ \E e \in Episodes : StartThread(e) \/ Finish(e)

InventoryStep == Establish \/ Report \/ AnnounceEnd \/ OpenSession \/ BreakOff \/ Change

LEMMA StepCases ==
    ASSUME [Next]_vars
    PROVE  \/ UNCHANGED vars
           \/ SupervisorAlone
           \/ Dispatch \/ Collect
           \/ \E e \in Episodes : BeginRecovery(e) \/ CheckResult(e) \/ ApplyResult(e)
           \/ \E e \in Episodes : EpisodeStep(e) /\ UNCHANGED <<inventoryVars, Untouched>>
           \/ InventoryStep /\ UNCHANGED <<episodeVars, Untouched>>
BY DEF Next, System, Environment, RecoveryStep, SupervisorAlone, InventoryStep

------------------------------------------------------------------------------
(* One episode, whatever the others do.                                       *)
Conduct(e) ==
    /\ phase[e] \in {"idle", "called", "raised"} => own[e] = 0 /\ origin[e] = 0 /\ attempts[e] = <<>>
    /\ phase[e] \notin {"idle", "called", "raised"} => own[e] # 0
    /\ phase[e] = "connecting" => attempts[e] = <<>>
    /\ Len(attempts[e]) <= 1
    /\ phase[e] # "done" => status[e] = "none"
    /\ origin[e] \in {0, own[e]}
    /\ status[e] = "satisfied" =>
         /\ final[e] # <<>>
         /\ ResolveTransportBinding(Serial, final[e][1]).status = "resolved"
         /\ Row(ResolveTransportBinding(Serial, final[e][1])).state \in Acceptable

(* The thread of an episode is outside of prepare(), or applies a result.     *)
Paired(e) ==
    /\ stage[e] \notin {"preparing", "applying"} => phase[e] = "idle"
    /\ stage[e] = "applying" => status[e] = "satisfied"

LEMMA Judged ==
    ASSUME PreparationTypeOK, NEW e \in Episodes, NEW s \in Snapshots, NEW g \in 0..MaxSessions,
           Judge(e, s, g)
    PROVE  /\ final' = [final EXCEPT ![e] = <<s>>]
           /\ origin' = [origin EXCEPT ![e] = g]
           /\ presence' \in [Episodes -> Presences]
           /\ \/ /\ \E v \in {"ambiguous", "blocked", "satisfied"} :
                       /\ status' = [status EXCEPT ![e] = v]
                       /\ v = "satisfied" =>
                            /\ ResolveTransportBinding(Serial, s).status = "resolved"
                            /\ Row(ResolveTransportBinding(Serial, s)).state \in Acceptable
                 /\ phase' = [phase EXCEPT ![e] = "done"]
              \/ /\ status' = status
                 /\ \/ phase' = [phase EXCEPT ![e] = "waiting"]
                    \/ phase' = [phase EXCEPT ![e] = "connecting"] /\ attempts[e] = <<>>
<1> DEFINE r == ResolveTransportBinding(Serial, s)
<1>1. Verdict(r) \in {"none", "ambiguous", "satisfied", "blocked"}
      /\ (Verdict(r) = "satisfied" => r.status = "resolved" /\ Row(r).state \in Acceptable)
  BY Resolutions, Verdicts
<1> HIDE DEF r
<1>2. final' = [final EXCEPT ![e] = <<s>>] /\ origin' = [origin EXCEPT ![e] = g]
  BY DEF Judge
<1>3. presence' \in [Episodes -> Presences]
  BY DEF Judge, PresenceAfter, PreparationTypeOK, Presences
<1>4. \/ Verdict(r) # "none" /\ Return(e, Verdict(r))
      \/ Verdict(r) = "none" /\ status' = status
         /\ phase' = [phase EXCEPT ![e] = IF presence'[e] = "none" /\ MayConnect(e)
                                          THEN "connecting" ELSE "waiting"]
  BY DEF Judge, r
<1>5. CASE Verdict(r) # "none"
  BY <1>1, <1>2, <1>3, <1>4, <1>5 DEF Return, r
<1>6. CASE Verdict(r) = "none"
  BY <1>2, <1>3, <1>4, <1>6 DEF MayConnect
<1>7. QED
  BY <1>5, <1>6

LEMMA JudgedSound ==
    ASSUME InventoryTypeOK, PreparationTypeOK, NEW e \in Episodes, Conduct(e),
           NEW s \in Snapshots, NEW g \in {0, own[e]}, Judge(e, s, g),
           phase[e] \in {"reading", "waiting"},
           own' = own, attempts' = attempts, queue' \in [Episodes -> Seq(Events)]
    PROVE  PreparationTypeOK' /\ Conduct(e)'
<1> USE Constants DEF PreparationTypeOK
<1>1. g \in 0..MaxSessions /\ own[e] # 0
  BY DEF Conduct
<1>2. /\ final' = [final EXCEPT ![e] = <<s>>]
      /\ origin' = [origin EXCEPT ![e] = g]
      /\ presence' \in [Episodes -> Presences]
  BY <1>1, Judged
<1>3. ASSUME NEW v \in {"ambiguous", "blocked", "satisfied"},
             status' = [status EXCEPT ![e] = v],
             v = "satisfied" => /\ ResolveTransportBinding(Serial, s).status = "resolved"
                                /\ Row(ResolveTransportBinding(Serial, s)).state \in Acceptable,
             phase' = [phase EXCEPT ![e] = "done"]
      PROVE  PreparationTypeOK' /\ Conduct(e)'
  BY <1>1, <1>2, <1>3 DEF Conduct, Phases, Statuses
<1>4. ASSUME status' = status,
             \/ phase' = [phase EXCEPT ![e] = "waiting"]
             \/ phase' = [phase EXCEPT ![e] = "connecting"] /\ attempts[e] = <<>>
      PROVE  PreparationTypeOK' /\ Conduct(e)'
  BY <1>1, <1>2, <1>4, ZenonT(30) DEF Conduct, Phases, Statuses
<1>5. QED
  BY <1>1, <1>3, <1>4, Judged

(* A session that is under way, or has its end to announce, has been opened,  *)
(* and only one that is not under way has an end to announce.                 *)
Begun ==
    /\ link # "down" => generation \in Sessions /\ generation \notin ending
    /\ ending \subseteq 1..generation

LEMMA EpisodeStepSound ==
    ASSUME InventoryTypeOK, Begun, PreparationTypeOK, NEW e \in Episodes, Conduct(e),
           EpisodeStep(e)
    PROVE  PreparationTypeOK' /\ Conduct(e)' /\ phase[e] \notin {"idle", "done", "raised"}
<1> USE Constants DEF PreparationTypeOK
<1>1. CASE ReadSession(e)
  BY <1>1 DEF ReadSession, Active, InventoryTypeOK, Phases, Conduct
<1>2. CASE Subscribe(e)
  BY <1>2 DEF Subscribe, Phases, Conduct
<1>3. CASE ReadInitial(e)
  <2>1. inventory \in Snapshots /\ phase[e] = "reading" /\ own' = own /\ attempts' = attempts
        /\ queue' \in [Episodes -> Seq(Events)]
    BY <1>3 DEF ReadInitial, InventoryTypeOK
  <2>2. CASE Judge(e, inventory, 0)
    BY <2>1, <2>2, JudgedSound
  <2>3. CASE phase' = [phase EXCEPT ![e] = "waiting"] /\ UNCHANGED <<presence, final, origin, status>>
    BY <2>1, <2>3 DEF Phases, Conduct
  <2>4. QED
    BY <1>3, <2>1, <2>2, <2>3 DEF ReadInitial
<1>4. CASE Connect(e)
  BY <1>4 DEF Connect, Phases, Conduct
<1>5. CASE TakeEvent(e)
  <2> DEFINE event == Head(queue[e])
  <2>1. phase[e] = "waiting" /\ queue[e] # <<>> /\ own' = own /\ attempts' = attempts
        /\ queue' = [queue EXCEPT ![e] = IF phase'[e] = "done" THEN <<>> ELSE Tail(@)]
    BY <1>5 DEF TakeEvent
  <2>2. event \in Events /\ queue' \in [Episodes -> Seq(Events)]
    BY <2>1
  <2>3. event.session \in Sessions /\ (event.kind = "snapshot" => event.snapshot \in Snapshots)
    BY <2>2, EventKinds
  <2>4. \/ \E v \in {"observation_replaced", "observation_failed", "observation_stopped"} :
             Return(e, v) /\ UNCHANGED <<presence, final, origin>>
        \/ UNCHANGED <<phase, presence, final, origin, status>>
        \/ event.kind = "snapshot" /\ event.session = own[e] /\ Judge(e, event.snapshot, event.session)
    BY <1>5, <2>1, <2>3 DEF TakeEvent, Sessions
  <2>5. CASE \E v \in {"observation_replaced", "observation_failed", "observation_stopped"} :
               Return(e, v) /\ UNCHANGED <<presence, final, origin>>
    BY <2>1, <2>2, <2>5, SMTT(30) DEF Return, Phases, Statuses, Conduct
  <2>6. CASE UNCHANGED <<phase, presence, final, origin, status>>
    BY <2>1, <2>2, <2>6 DEF Conduct
  <2>7. CASE event.kind = "snapshot" /\ event.session = own[e]
             /\ Judge(e, event.snapshot, event.session)
    BY <2>1, <2>2, <2>3, <2>7, JudgedSound
  <2>8. QED
    BY <2>1, <2>4, <2>5, <2>6, <2>7
<1>6. CASE TimeOut(e)
  BY <1>6 DEF TimeOut, Return, Phases, Statuses, Conduct
<1>7. QED
  BY <1>1, <1>2, <1>3, <1>4, <1>5, <1>6 DEF EpisodeStep

LEMMA OthersUntouched ==
    ASSUME PreparationTypeOK, InventoryTypeOK, NEW e \in Episodes, EpisodeStep(e),
           NEW d \in Episodes \ {e}
    PROVE  UNCHANGED <<phase[d], own[d], queue[d], attempts[d], final[d], origin[d], status[d]>>
<1> USE DEF PreparationTypeOK
<1>1. ASSUME NEW s, NEW g, Judge(e, s, g)
      PROVE  UNCHANGED <<phase[d], final[d], origin[d], status[d]>>
  BY <1>1 DEF Judge, Return
<1>2. CASE ReadSession(e) \/ Subscribe(e) \/ Connect(e) \/ TimeOut(e)
  BY <1>2 DEF ReadSession, Subscribe, Connect, TimeOut, Return
<1>3. CASE ReadInitial(e)
  BY <1>1, <1>3 DEF ReadInitial
<1>4. CASE TakeEvent(e)
  BY <1>1, <1>4 DEF TakeEvent, Return
<1>5. QED
  BY <1>2, <1>3, <1>4 DEF EpisodeStep

------------------------------------------------------------------------------
Typed == TypeOK /\ Begun /\ \A e \in Episodes : Conduct(e) /\ Paired(e)

LEMMA InventoryKept ==
    ASSUME InventoryTypeOK, Begun, [Next]_vars
    PROVE  InventoryTypeOK' /\ Begun'
<1> USE Constants DEF InventoryTypeOK, Begun
<1>1. CASE UNCHANGED inventoryVars
  BY <1>1 DEF inventoryVars
<1>2. CASE Dispatch
  BY <1>2 DEF Dispatch
<1>3. CASE Establish
  <2>1. [kind |-> "started", session |-> generation] \in Events
    BY <1>3 DEF Establish, Events
  <2>2. QED
    BY <1>3, <2>1 DEF Establish, Publish, Links
<1>4. CASE Report
  <2>1. [kind |-> "snapshot", session |-> generation, snapshot |-> inventory] \in Events
    BY <1>4 DEF Report, Events
  <2>2. bus' \in Seq(Events) /\ unseen' = FALSE
        /\ UNCHANGED <<generation, link, ending, inventory, changes>>
    BY <1>4, <2>1 DEF Report, Publish
  <2>3. QED
    BY <2>2
<1>5. CASE AnnounceEnd
  <2>1. PICK g \in ending, kind \in Terminals :
           ending' = ending \ {g} /\ Publish([kind |-> kind, session |-> g])
    BY <1>5 DEF AnnounceEnd
  <2>2. [kind |-> kind, session |-> g] \in Events
    BY DEF Events
  <2>3. UNCHANGED <<generation, link, inventory, unseen, changes>>
    BY <1>5 DEF AnnounceEnd
  <2>4. QED
    BY <2>1, <2>2, <2>3 DEF Publish
<1>6. CASE OpenSession \/ BreakOff \/ Change
  <2>1. CASE OpenSession
    BY <2>1 DEF OpenSession, Links, Sessions
  <2>2. CASE BreakOff
    <3>1. generation \in Sessions /\ ending \subseteq Sessions /\ ending \subseteq 1..generation
      BY <2>2 DEF BreakOff, Active
    <3>2. generation' = generation /\ link' = "down" /\ ending' \subseteq ending \cup {generation}
      BY <2>2 DEF BreakOff
    <3>3. unseen' = FALSE /\ UNCHANGED <<inventory, changes, bus>>
      BY <2>2 DEF BreakOff
    <3>4. generation \in 1..generation /\ generation \in 0..MaxSessions
      BY <3>1 DEF Sessions
    <3>5. QED
      BY <3>1, <3>2, <3>3, <3>4 DEF Links
  <2>3. CASE Change
    BY <2>3 DEF Change
  <2>4. QED
    BY <1>6, <2>1, <2>2, <2>3
<1>7. SupervisorAlone => UNCHANGED inventoryVars
  BY DEF SupervisorAlone, Start, Register, Unregister, Close, Join, CallerReads,
         CallerReadsSnapshot, CallerApplies, CallerReturns, PublishChange, PublicationRaises,
         LaunchRecovery, StartThread, Finish
<1>8. (\E e \in Episodes : BeginRecovery(e) \/ CheckResult(e) \/ ApplyResult(e)) \/ Collect
        => UNCHANGED inventoryVars
  BY DEF BeginRecovery, CheckResult, ApplyResult, Collect
<1>9. QED
  BY <1>1, <1>2, <1>3, <1>4, <1>5, <1>6, <1>7, <1>8, StepCases DEF vars, InventoryStep

(* Where recovery threads are after a launch.                                 *)
LEMMA Launched ==
    ASSUME stage \in [Episodes -> RecoveryStages], NEW a, LaunchRecovery(a)
    PROVE  /\ \A d \in Episodes :
                \/ stage'[d] = stage[d]
                \/ stage[d] = "launching" /\ d = a /\ stage'[d] = "unused"
                \/ stage[d] = "unused" /\ stage'[d] = "registered"
           /\ stage' \in [Episodes -> RecoveryStages]
           /\ IF registered /\ ~closed /\ thread = 0
              THEN /\ thread' \in Episodes /\ stage'[thread'] = "registered"
                   /\ stage[thread'] = "unused"
              ELSE thread' = thread
           /\ credit' = credit - 1
<1> DEFINE over == [e \in Episodes |->
                      IF e = a /\ stage[e] = "launching" THEN "unused" ELSE stage[e]]
           Free == {e \in Episodes : stage[e] = "unused"}
<1>1. over \in [Episodes -> RecoveryStages]
      /\ \A d \in Episodes : over[d] = stage[d] \/ (stage[d] = "launching" /\ d = a /\ over[d] = "unused")
  BY DEF RecoveryStages
<1>2. IF registered /\ ~closed /\ thread = 0
      THEN thread' \in Free /\ stage' = [over EXCEPT ![thread'] = "registered"]
      ELSE stage' = over /\ thread' = thread
  BY DEF LaunchRecovery
<1>3. thread' \in Free => thread' \in Episodes /\ stage[thread'] = "unused"
  OBVIOUS
<1>4. credit' = credit - 1
  BY DEF LaunchRecovery
<1> HIDE DEF over, Free
<1>5. CASE registered /\ ~closed /\ thread = 0
  BY <1>1, <1>2, <1>3, <1>4, <1>5 DEF RecoveryStages
<1>6. CASE ~(registered /\ ~closed /\ thread = 0)
  BY <1>1, <1>2, <1>4, <1>6
<1>7. QED
  BY <1>5, <1>6

(* The recovery threads, when no episode takes a step of its own.             *)
LEMMA ThreadsKept ==
    ASSUME Typed, SupervisorAlone
    PROVE  UNCHANGED episodeVars /\ \A e \in Episodes : Paired(e)'
<1>0. stage \in [Episodes -> RecoveryStages] /\ \A e \in Episodes : Paired(e)
  BY DEF Typed, TypeOK
<1>1. UNCHANGED episodeVars
  BY DEF SupervisorAlone, Start, Register, Unregister, Close, Join, CallerReads,
         CallerReadsSnapshot, CallerApplies, CallerReturns, PublishChange, PublicationRaises,
         LaunchRecovery, StartThread, Finish
<1>2. CASE UNCHANGED stage
  BY <1>0, <1>1, <1>2 DEF Paired, episodeVars
<1>3. ASSUME NEW e \in Episodes, StartThread(e) \/ Finish(e)
      PROVE  \A d \in Episodes : Paired(d)'
  BY <1>0, <1>1, <1>3 DEF StartThread, Finish, Goto, Paired, episodeVars
<1>4. ASSUME NEW a \in Appliers, LaunchRecovery(a)
      PROVE  \A d \in Episodes : Paired(d)'
  <2>1. \A d \in Episodes :
           \/ stage'[d] = stage[d]
           \/ stage[d] = "launching" /\ stage'[d] = "unused"
           \/ stage[d] = "unused" /\ stage'[d] = "registered"
    BY <1>0, <1>4, Launched
  <2>2. QED
    BY <1>0, <1>1, <2>1 DEF Paired, episodeVars
<1>5. QED
  BY <1>1, <1>2, <1>3, <1>4 DEF SupervisorAlone, Start, Register, Unregister, Close, Join,
         CallerReads, CallerReadsSnapshot, CallerApplies, CallerReturns, PublishChange,
         PublicationRaises, entry

LEMMA EpisodesKept ==
    ASSUME Typed, [Next]_vars
    PROVE  PreparationTypeOK' /\ \A e \in Episodes : Conduct(e)' /\ Paired(e)'
<1> USE DEF Typed, TypeOK, PreparationTypeOK
<1>1. CASE UNCHANGED <<episodeVars, stage>>
  BY <1>1 DEF episodeVars, Conduct, Paired
<1>2. CASE SupervisorAlone
  BY <1>2, ThreadsKept, SMTT(30) DEF episodeVars, Conduct
<1>3. CASE Collect
  <2>1. handling[1] \in Events
    BY <1>3 DEF Collect
  <2>2. queue' \in [Episodes -> Seq(Events)]
    BY <1>3, <2>1 DEF Collect
  <2>3. QED
    BY <1>3, <2>2 DEF Collect, Conduct, Paired
<1>4. ASSUME NEW e \in Episodes, BeginRecovery(e)
      PROVE  PreparationTypeOK' /\ \A d \in Episodes : Conduct(d)' /\ Paired(d)'
  <2>1. phase[e] = "idle" /\ stage[e] = "starting" /\ status' = status /\ final' = final
        /\ own' = own /\ attempts' = attempts /\ origin' = origin
    BY <1>4 DEF BeginRecovery, Paired
  <2>2. CASE registered /\ ~closed /\ recovers
    <3>1. phase' = [phase EXCEPT ![e] = "called"] /\ stage' = [stage EXCEPT ![e] = "preparing"]
      BY <1>4, <2>2 DEF BeginRecovery, Goto
    <3>2. PreparationTypeOK'
      BY <1>4, <3>1 DEF BeginRecovery, Phases
    <3>3. \A d \in Episodes : Conduct(d)' /\ Paired(d)'
      BY <2>1, <3>1 DEF Conduct, Paired
    <3>4. QED
      BY <3>2, <3>3
  <2>3. CASE ~(registered /\ ~closed /\ recovers)
    BY <1>4, <2>1, <2>3 DEF BeginRecovery, Goto, Conduct, Paired
  <2>4. QED
    BY <2>2, <2>3
<1>5. ASSUME NEW e \in Episodes, CheckResult(e) \/ ApplyResult(e)
      PROVE  PreparationTypeOK' /\ \A d \in Episodes : Conduct(d)' /\ Paired(d)'
  <2>1. \/ /\ status[e] = "satisfied" /\ stage' = [stage EXCEPT ![e] = "applying"]
           /\ UNCHANGED episodeVars
        \/ /\ stage' = [stage EXCEPT ![e] = "finishing"] \/ stage' = [stage EXCEPT ![e] = "publishing"]
           /\ Forget(e)
    BY <1>5 DEF CheckResult, ApplyResult, Goto
  <2>2. CASE /\ status[e] = "satisfied" /\ stage' = [stage EXCEPT ![e] = "applying"]
             /\ UNCHANGED episodeVars
    BY <2>2 DEF episodeVars, Conduct, Paired
  <2>3. CASE /\ stage' = [stage EXCEPT ![e] = "finishing"] \/ stage' = [stage EXCEPT ![e] = "publishing"]
             /\ Forget(e)
    <3>1. PreparationTypeOK'
      BY <2>3, Constants, SMTT(30) DEF Forget, Phases, Presences, Statuses
    <3>2. \A d \in Episodes \ {e} : Conduct(d)' /\ Paired(d)'
      BY <2>3 DEF Forget, Conduct, Paired
    <3>3. Conduct(e)' /\ Paired(e)'
      BY <2>3 DEF Forget, Conduct, Paired
    <3>4. QED
      BY <3>1, <3>2, <3>3
  <2>4. QED
    BY <2>1, <2>2, <2>3
<1>6. ASSUME NEW e \in Episodes, EpisodeStep(e), UNCHANGED Untouched
      PROVE  PreparationTypeOK' /\ \A d \in Episodes : Conduct(d)' /\ Paired(d)'
  <2>1. PreparationTypeOK' /\ Conduct(e)' /\ phase[e] \notin {"idle", "done", "raised"}
    BY <1>6, EpisodeStepSound
  <2>2. \A d \in Episodes \ {e} : UNCHANGED <<phase[d], own[d], attempts[d], final[d], origin[d], status[d]>>
    BY <1>6, OthersUntouched
  <2>3. \A d \in Episodes \ {e} : Conduct(d)'
    BY <2>2 DEF Conduct
  <2>4. stage' = stage
    BY <1>6 DEF Untouched
  <2>5. Paired(e)'
    BY <2>1, <2>4 DEF Paired, Conduct
  <2>6. \A d \in Episodes \ {e} : Paired(d)'
    BY <2>2, <2>4 DEF Paired
  <2>7. QED
    BY <2>1, <2>3, <2>5, <2>6
<1>7. InventoryStep /\ UNCHANGED <<episodeVars, Untouched>> => UNCHANGED <<episodeVars, stage>>
  BY DEF Untouched
<1>8. QED
  BY <1>1, <1>2, <1>3, <1>4, <1>5, <1>6, <1>7, StepCases DEF vars, Dispatch

------------------------------------------------------------------------------
(* The types of what an applied snapshot changes, and of the rest.            *)
Answers == {<<>>} \cup {<<ResolveTransportBinding(Serial, s)>> : s \in Snapshots}
Publications == {<<>>} \cup {<<c>> : c \in Changes}

AppliedTypes ==
    /\ attempted \in BOOLEAN /\ answered \in BOOLEAN
    /\ late \in BOOLEAN /\ forgone \in BOOLEAN
    /\ news \in {"due", "told", "lost"}
    /\ resolution \in Answers
    /\ session \in 0..MaxSessions
    /\ pub \in [Appliers -> Publications]
    /\ launch \in [Appliers -> BOOLEAN]
    /\ credit \in Int

OtherTypes ==
    /\ started \in BOOLEAN /\ closed \in BOOLEAN
    /\ registered \in BOOLEAN /\ recovers \in BOOLEAN
    /\ thread \in 0..MaxEpisodes /\ joinee \in 0..MaxEpisodes
    /\ stage \in [Episodes -> RecoveryStages]
    /\ caller \in CallerStates
    /\ handling = <<>> \/ handling \in Events \X SUBSET Episodes
    /\ closer \in {"idle", "joining", "returned", "error"}
    /\ registrations \in 0..MaxRegistrations

LEMMA TypesSplit ==
    TypeOK <=> InventoryTypeOK /\ PreparationTypeOK /\ AppliedTypes /\ OtherTypes
BY DEF TypeOK, AppliedTypes, OtherTypes, Answers, Publications

LEMMA Nothing == /\ <<>> \in Answers /\ <<>> \in Publications
                 /\ 0 \in 0..MaxSessions /\ 0 \in 0..MaxEpisodes
BY Constants DEF Answers, Publications

LEMMA ApplyTyped ==
    ASSUME AppliedTypes, NEW a \in Appliers, NEW g \in Sessions, NEW s \in Snapshots,
           Apply(a, g, s)
    PROVE  AppliedTypes'
<1> DEFINE r == ResolveTransportBinding(Serial, s)
           now == attempted /\ r.status = "absent"
<1>1. CASE closed \/ ~registered
  BY <1>1 DEF Apply, AppliedTypes
<1>2. CASE ~(closed \/ ~registered)
  <2>1. /\ session' = g /\ resolution' = <<r>>
        /\ attempted' = (now \/ ShouldRecover(r, now))
        /\ launch' = [launch EXCEPT ![a] = ShouldRecover(r, now)]
        /\ answered' = (~ShouldRecover(r, now) /\ (answered \/ ~now))
        /\ late' = (a # Dispatcher /\ (s # inventory \/ g # Active))
        /\ \/ pub' = [pub EXCEPT ![a] = <<[session |-> g, current |-> r]>>]
           \/ pub' = [pub EXCEPT ![a] = <<>>]
        /\ credit' \in {credit + 1, credit, credit - 1}
        /\ news' \in {"due", "lost", news}
        /\ forgone' = (forgone /\ now)
    BY <1>2 DEF Apply, Settle
  <2>2. ShouldRecover(r, now) \in BOOLEAN
    BY DEF ShouldRecover
  <2>3. [session |-> g, current |-> r] \in Changes
    BY DEF Changes
  <2>4. resolution' \in Answers
    BY <2>1 DEF Answers
  <2>5. pub' \in [Appliers -> Publications]
    <3>1. <<[session |-> g, current |-> r]>> \in Publications
      BY <2>3 DEF Publications
    <3>2. QED
      BY <2>1, <3>1, Nothing DEF AppliedTypes
  <2>6. launch' \in [Appliers -> BOOLEAN]
    BY <2>1, <2>2 DEF AppliedTypes
  <2>7. session' \in 0..MaxSessions /\ credit' \in Int
    BY <2>1, Constants DEF AppliedTypes, Sessions
  <2>8. attempted' \in BOOLEAN /\ answered' \in BOOLEAN /\ late' \in BOOLEAN
        /\ forgone' \in BOOLEAN
    BY <2>1, Zenon DEF AppliedTypes
  <2>9. news' \in {"due", "told", "lost"}
    BY <2>1 DEF AppliedTypes
  <2>10. QED
    BY <2>4, <2>5, <2>6, <2>7, <2>8, <2>9 DEF AppliedTypes
<1>3. QED
  BY <1>1, <1>2

(* What the three kinds of thread apply is a snapshot of some session.        *)
LEMMA AppliedInputs ==
    ASSUME Typed
    PROVE  /\ bus # <<>> => Head(bus) \in Events
           /\ caller.at = "applying" => caller.session \in Sessions /\ caller.snapshot \in Snapshots
           /\ \A e \in Episodes : stage[e] = "applying" =>
                own[e] \in Sessions /\ final[e][1] \in Snapshots
<1>1. bus # <<>> => Head(bus) \in Events
  BY DEF Typed, TypeOK, InventoryTypeOK
<1>2. caller.at = "applying" => caller.session \in Sessions /\ caller.snapshot \in Snapshots
  <2>1. caller \in CallerStates
    BY DEF Typed, TypeOK
  <2>2. QED
    BY <2>1 DEF CallerStates, Idle
<1>3. ASSUME NEW e \in Episodes, stage[e] = "applying"
      PROVE  own[e] \in Sessions /\ final[e][1] \in Snapshots
  <2>1. status[e] = "satisfied" /\ Conduct(e)
    BY <1>3 DEF Typed, Paired
  <2>2. final[e] # <<>> /\ own[e] # 0
    BY <2>1 DEF Conduct
  <2>3. own[e] \in 0..MaxSessions /\ final[e] \in {<<>>} \cup {<<s>> : s \in Snapshots}
    BY DEF Typed, TypeOK, PreparationTypeOK
  <2>4. QED
    BY <2>2, <2>3, Constants DEF Sessions
<1>4. QED
  BY <1>1, <1>2, <1>3

LEMMA AppliedKept ==
    ASSUME Typed, [Next]_vars
    PROVE  AppliedTypes'
<1>0. AppliedTypes
  BY TypesSplit DEF Typed
<1>1. CASE UNCHANGED <<resolution, session, attempted, pub, launch, history>>
  BY <1>0, <1>1 DEF AppliedTypes, history
<1>2. CASE Unregister \/ Close
  <2>1. Discard /\ UNCHANGED <<pub, launch>>
    BY <1>2 DEF Unregister, Close
  <2>2. credit' \in Int
    BY <1>0, <2>1 DEF Discard, Settle, AppliedTypes
  <2>3. QED
    BY <1>0, <2>1, <2>2, Nothing DEF Discard, AppliedTypes
<1>3. CASE CallerApplies
  BY <1>0, <1>3, ApplyTyped, AppliedInputs, Constants DEF CallerApplies
<1>4. CASE Dispatch
  <2> DEFINE event == Head(bus)
  <2>1. event \in Events
    BY <1>4, AppliedInputs DEF Dispatch
  <2>2. CASE event.kind = "started"
    <3>1. OnObservationStarted(event.session) /\ UNCHANGED <<pub, launch>>
      BY <1>4, <2>2 DEF Dispatch
    <3>2. event.session \in Sessions
      BY <2>1, EventKinds
    <3>3. QED
      <4>1. event.session \in 0..MaxSessions
        BY <3>2, Constants DEF Sessions
      <4>3. credit' \in Int
        BY <1>0, <3>1 DEF OnObservationStarted, Settle, history, AppliedTypes
      <4>2. QED
        BY <1>0, <3>1, <4>1, <4>3, Nothing DEF OnObservationStarted, history, AppliedTypes
  <2>3. CASE event.kind = "snapshot" /\ started
    BY <1>0, <1>4, <2>1, <2>3, EventKinds, ApplyTyped, Constants DEF Dispatch
  <2>4. CASE event.kind # "started" /\ ~(event.kind = "snapshot" /\ started)
    BY <1>0, <1>4, <2>4 DEF Dispatch, AppliedTypes
  <2>5. QED
    BY <2>2, <2>3, <2>4
<1>5. ASSUME NEW a \in Appliers, PublishChange(a)
      PROVE  AppliedTypes'
  <2>1. news' \in {"due", "told", "lost"}
    BY <1>5 DEF PublishChange, Telling
  <2>2. QED
    BY <1>0, <1>5, <2>1, Nothing DEF PublishChange, AppliedTypes, entry
<1>14. ASSUME NEW a \in Appliers, PublicationRaises(a)
       PROVE  AppliedTypes'
  <2>1. news' \in {"due", "told", "lost"}
    BY <1>0, <1>14 DEF PublicationRaises, Telling, AppliedTypes
  <2>2. forgone' \in BOOLEAN
    BY <1>14 DEF PublicationRaises
  <2>3. /\ pub' = [pub EXCEPT ![a] = <<>>] /\ launch' = [launch EXCEPT ![a] = FALSE]
        /\ credit' \in {credit, credit - 1}
        /\ UNCHANGED <<resolution, session, attempted, answered, late>>
    BY <1>14 DEF PublicationRaises, entry
  <2>4. QED
    BY <1>0, <2>1, <2>2, <2>3, Nothing DEF AppliedTypes
<1>6. ASSUME NEW a \in Appliers, LaunchRecovery(a)
      PROVE  AppliedTypes'
  <2>1. credit' = credit - 1
    BY <1>6 DEF LaunchRecovery
  <2>2. QED
    BY <1>0, <1>6, <2>1 DEF LaunchRecovery, AppliedTypes
<1>7. ASSUME NEW e \in Episodes, BeginRecovery(e)
      PROVE  AppliedTypes'
  BY <1>0, <1>7 DEF BeginRecovery, AppliedTypes, entry
<1>8. ASSUME NEW e \in Episodes, Finish(e)
      PROVE  AppliedTypes'
  <2> DEFINE again == registered /\ thread = e /\ ~closed /\ Absent(resolution) /\ recovers
                      /\ ~attempted
  <2>1. /\ attempted' = (attempted \/ again) /\ answered' = (answered /\ ~again)
        /\ launch' = [launch EXCEPT ![e] = again]
        /\ UNCHANGED <<resolution, session, pub, credit, late, news, forgone>>
    BY <1>8 DEF Finish
  <2>2. attempted' \in BOOLEAN /\ answered' \in BOOLEAN /\ again \in BOOLEAN
    BY <2>1, <1>0 DEF AppliedTypes
  <2> HIDE DEF again
  <2>3. QED
    BY <1>0, <2>1, <2>2 DEF AppliedTypes
<1>9. ASSUME NEW e \in Episodes, ApplyResult(e)
      PROVE  AppliedTypes'
  BY <1>0, <1>9, ApplyTyped, AppliedInputs, Constants DEF ApplyResult
<1>10. Start \/ Register \/ Join \/ CallerReads \/ CallerReadsSnapshot \/ CallerReturns \/ Collect
         => UNCHANGED <<resolution, session, attempted, pub, launch, history>>
  BY DEF Start, Register, Join, CallerReads, CallerReadsSnapshot, CallerReturns, Collect, entry
<1>11. ASSUME NEW e \in Episodes, StartThread(e) \/ CheckResult(e)
       PROVE  UNCHANGED <<resolution, session, attempted, pub, launch, history>>
  BY <1>11 DEF StartThread, CheckResult, entry
<1>12. UNCHANGED Untouched \/ UNCHANGED vars
         => UNCHANGED <<resolution, session, attempted, pub, launch, history>>
  BY DEF Untouched, vars, entry
<1>13. QED
  BY <1>1, <1>2, <1>3, <1>4, <1>5, <1>6, <1>7, <1>8, <1>9, <1>10, <1>11, <1>12, <1>14,
     StepCases DEF SupervisorAlone

LEMMA OthersKept ==
    ASSUME Typed, [Next]_vars
    PROVE  OtherTypes'
<1>0. OtherTypes
  BY TypesSplit DEF Typed
<1> USE Constants DEF OtherTypes
<1>1. CASE UNCHANGED <<started, closed, registered, recovers, thread, stage, caller, handling,
                       closer, joinee, registrations>>
  BY <1>0, <1>1
<1>2. CASE Start \/ Register \/ Unregister \/ Close \/ Join
  <2>1. [at |-> "entered"] \in CallerStates
    BY DEF CallerStates
  <2>2. CASE Register
    BY <1>0, <2>1, <2>2 DEF Register
  <2>3. QED
    <3>1. CASE Start \/ Join
      BY <1>0, <3>1, Nothing DEF Start, Join, entry
    <3>2. CASE Unregister \/ Close
      BY <1>0, <3>2, Nothing DEF Unregister, Close, Discard
    <3>3. QED
      BY <1>2, <2>2, <3>1, <3>2
<1>3. CASE CallerReads \/ CallerReadsSnapshot \/ CallerApplies \/ CallerReturns
  <2>0. Active = 0 \/ Active \in Sessions
    BY DEF Active, Typed, Begun
  <2>1. caller' \in CallerStates
    <3>1. inventory \in Snapshots
      BY DEF Typed, TypeOK, InventoryTypeOK
    <3>2. CASE CallerReads
      BY <1>0, <2>0, <3>2 DEF CallerReads, CallerStates, Idle
    <3>3. CASE CallerReadsSnapshot
      BY <1>0, <3>1, <3>3 DEF CallerReadsSnapshot, CallerStates, Idle
    <3>4. CASE CallerApplies \/ CallerReturns
      BY <3>4 DEF CallerApplies, CallerReturns, CallerStates, Idle
    <3>5. QED
      BY <1>3, <3>2, <3>3, <3>4
  <2>2. UNCHANGED <<started, closed, registered, recovers, thread, stage, handling, closer,
                    joinee, registrations>>
    BY <1>3 DEF CallerReads, CallerReadsSnapshot, CallerApplies, CallerReturns, entry
  <2>3. QED
    BY <1>0, <2>1, <2>2
<1>4. CASE Dispatch
  <2>1. Head(bus) \in Events
    BY <1>4, AppliedInputs DEF Dispatch
  <2>2. handling' \in Events \X SUBSET Episodes
    BY <1>4, <2>1 DEF Dispatch
  <2>3. QED
    BY <1>0, <1>4, <2>2 DEF Dispatch
<1>5. CASE Collect
  BY <1>0, <1>5 DEF Collect, entry
<1>6. ASSUME NEW a \in Appliers, PublishChange(a) \/ PublicationRaises(a) \/ LaunchRecovery(a)
      PROVE  OtherTypes'
  <2>1. CASE PublishChange(a) \/ PublicationRaises(a)
    BY <1>0, <2>1 DEF PublishChange, PublicationRaises, entry
  <2>2. CASE LaunchRecovery(a)
    <3>1. stage' \in [Episodes -> RecoveryStages] /\ thread' \in 0..MaxEpisodes
      BY <1>0, <2>2, Launched DEF Episodes
    <3>2. QED
      BY <1>0, <2>2, <3>1 DEF LaunchRecovery
  <2>3. QED
    BY <1>6, <2>1, <2>2
<1>7. ASSUME NEW e \in Episodes,
             StartThread(e) \/ CheckResult(e) \/ ApplyResult(e) \/ BeginRecovery(e) \/ Finish(e)
      PROVE  OtherTypes'
  <2>1. stage' \in [Episodes -> RecoveryStages]
    BY <1>0, <1>7 DEF StartThread, CheckResult, ApplyResult, BeginRecovery, Finish, Goto,
                      RecoveryStages
  <2>2. thread' \in 0..MaxEpisodes
    BY <1>0, <1>7 DEF StartThread, CheckResult, ApplyResult, BeginRecovery, Finish, entry
  <2>3. UNCHANGED <<started, closed, registered, recovers, caller, handling, closer, joinee,
                    registrations>>
    BY <1>7 DEF StartThread, CheckResult, ApplyResult, BeginRecovery, Finish, entry
  <2>4. QED
    BY <1>0, <2>1, <2>2, <2>3
<1>8. UNCHANGED Untouched \/ UNCHANGED vars
        => UNCHANGED <<started, closed, registered, recovers, thread, stage, caller, handling,
                       closer, joinee, registrations>>
  BY DEF Untouched, vars, entry
<1>9. QED
  BY <1>1, <1>2, <1>3, <1>4, <1>5, <1>6, <1>7, <1>8, StepCases DEF SupervisorAlone

LEMMA TypedHolds == Spec => []Typed
<1>1. Init => Typed
  <2> SUFFICES ASSUME Init PROVE Typed
    OBVIOUS
  <2> USE Constants DEF Init, InventoryInit, PreparationInit
  <2>1. InventoryTypeOK /\ Begun
    <3>1. <<>> \in Seq(Events) /\ 0 \in 0..MaxSessions /\ 0 \in 0..MaxChanges
      OBVIOUS
    <3>2. QED
      BY <3>1 DEF InventoryTypeOK, Links, Begun
  <2>2. PreparationTypeOK
    BY DEF PreparationTypeOK, Phases, Presences, Statuses
  <2>3. AppliedTypes
    <3>1. pub = [a \in Appliers |-> <<>>] /\ launch = [a \in Appliers |-> FALSE]
      OBVIOUS
    <3>2. pub \in [Appliers -> Publications] /\ launch \in [Appliers -> BOOLEAN]
      BY <3>1, Nothing
    <3>3. attempted \in BOOLEAN /\ answered \in BOOLEAN /\ late \in BOOLEAN
          /\ forgone \in BOOLEAN
      BY Zenon
    <3>6. news \in {"due", "told", "lost"}
      OBVIOUS
    <3>4. resolution \in Answers /\ session \in 0..MaxSessions /\ credit \in Int
      BY Nothing
    <3>5. QED
      BY <3>2, <3>3, <3>4, <3>6 DEF AppliedTypes
  <2>4. OtherTypes
    <3>1. Idle \in CallerStates /\ 0 \in 0..MaxRegistrations
      BY DEF CallerStates
    <3>2. [e \in Episodes |-> "unused"] \in [Episodes -> RecoveryStages]
      BY DEF RecoveryStages
    <3>3. QED
      BY <3>1, <3>2, Nothing DEF OtherTypes
  <2>5. \A e \in Episodes : Conduct(e) /\ Paired(e)
    BY DEF Conduct, Paired
  <2>6. QED
    BY <2>1, <2>2, <2>3, <2>4, <2>5, TypesSplit DEF Typed
<1>2. Typed /\ [Next]_vars => Typed'
  <2> SUFFICES ASSUME Typed, [Next]_vars PROVE Typed'
    OBVIOUS
  <2>1. InventoryTypeOK /\ Begun
    BY TypesSplit DEF Typed
  <2>2. InventoryTypeOK' /\ Begun'
    BY <2>1, InventoryKept
  <2>3. TypeOK'
    <3>1. AppliedTypes' /\ OtherTypes' /\ PreparationTypeOK'
      BY EpisodesKept, AppliedKept, OthersKept
    <3>2. QED
      BY <2>2, <3>1, TypesSplit DEF TypeOK, AppliedTypes, OtherTypes, Answers, Publications
  <2>4. QED
    BY <2>2, <2>3, EpisodesKept DEF Typed
<1>3. QED
  BY <1>1, <1>2, PTL DEF Spec

(* Every variable of the binding supervisor, its episodes and the inventory   *)
(* keeps its type (transport_binding.py 93-123, preparation.py 120-190).      *)
THEOREM BindingTypeCorrect == Spec => []TypeOK
<1>1. Typed => TypeOK
  BY DEF Typed
<1>2. QED
  BY <1>1, TypedHolds, PTL

------------------------------------------------------------------------------
(* A thread that is not between a critical section and what follows from it   *)
(* has nothing to publish and nothing to launch.                              *)
Quiet ==
    /\ handling = <<>> => pub[Dispatcher] = <<>> /\ ~launch[Dispatcher]
    /\ caller.at # "publishing" => pub[Registrar] = <<>> /\ ~launch[Registrar]
    /\ \A e \in Episodes :
          stage[e] \notin {"publishing", "launching"} => pub[e] = <<>> /\ ~launch[e]

LEMMA AppliesAlone ==
    ASSUME AppliedTypes, NEW a \in Appliers, NEW g, NEW s, Apply(a, g, s),
           NEW b \in Appliers \ {a}
    PROVE  pub'[b] = pub[b] /\ launch'[b] = launch[b]
<1>1. CASE closed \/ ~registered
  BY <1>1 DEF Apply
<1>2. CASE ~(closed \/ ~registered)
  <2>1. /\ \E x : pub' = [pub EXCEPT ![a] = x]
        /\ \E x : launch' = [launch EXCEPT ![a] = x]
    BY <1>2 DEF Apply
  <2>2. QED
    BY <2>1 DEF AppliedTypes
<1>3. QED
  BY <1>1, <1>2

LEMMA QuietKept ==
    ASSUME Typed, Quiet, [Next]_vars
    PROVE  Quiet'
<1>0. /\ AppliedTypes
      /\ stage \in [Episodes -> RecoveryStages]
      /\ pub \in [Appliers -> Publications] /\ launch \in [Appliers -> BOOLEAN]
  BY TypesSplit DEF Typed, AppliedTypes, OtherTypes
<1> USE Constants DEF Quiet
<1>1. CASE UNCHANGED <<stage, caller, handling, pub, launch>>
  BY <1>1
<1>2. CASE Register \/ CallerReads \/ CallerReadsSnapshot \/ CallerReturns
  <2>1. caller.at = "publishing" => pub[Registrar] = <<>> /\ ~launch[Registrar]
    BY <1>2 DEF Register, CallerReads, CallerReadsSnapshot, CallerReturns, Idle
  <2>2. UNCHANGED <<stage, handling, pub, launch>>
    BY <1>2 DEF Register, CallerReads, CallerReadsSnapshot, CallerReturns
  <2>3. QED
    BY <2>1, <2>2
<1>3. CASE CallerApplies
  <2>1. caller'.at = "publishing" /\ UNCHANGED <<stage, handling>>
    BY <1>3 DEF CallerApplies
  <2>2. \A b \in Appliers \ {Registrar} : pub'[b] = pub[b] /\ launch'[b] = launch[b]
    BY <1>0, <1>3, AppliesAlone DEF CallerApplies
  <2>3. QED
    BY <2>1, <2>2
<1>4. CASE Dispatch
  <2>1. handling' # <<>> /\ UNCHANGED <<stage, caller>>
    BY <1>4 DEF Dispatch
  <2>2. \A b \in Appliers \ {Dispatcher} : pub'[b] = pub[b] /\ launch'[b] = launch[b]
    BY <1>0, <1>4, AppliesAlone DEF Dispatch
  <2>3. QED
    BY <2>1, <2>2
<1>5. CASE Collect
  BY <1>5 DEF Collect
<1>6. ASSUME NEW a \in Appliers, PublishChange(a) \/ PublicationRaises(a)
      PROVE  Quiet'
  <2>1. CASE PublishChange(a)
    BY <1>0, <2>1 DEF PublishChange
  <2>2. CASE PublicationRaises(a)
    BY <1>0, <2>2 DEF PublicationRaises
  <2>3. QED
    BY <1>6, <2>1, <2>2
<1>7. ASSUME NEW a \in Appliers, LaunchRecovery(a)
      PROVE  Quiet'
  <2>1. launch' = [launch EXCEPT ![a] = FALSE] /\ pub[a] = <<>> /\ UNCHANGED <<caller, handling, pub>>
    BY <1>7 DEF LaunchRecovery
  <2>2. \A d \in Episodes :
           \/ stage'[d] = stage[d]
           \/ stage[d] = "launching" /\ d = a /\ stage'[d] = "unused"
           \/ stage[d] = "unused" /\ stage'[d] = "registered"
    BY <1>0, <1>7, Launched
  <2>3. QED
    BY <1>0, <2>1, <2>2
<1>8. ASSUME NEW e \in Episodes, StartThread(e) \/ CheckResult(e) \/ BeginRecovery(e)
      PROVE  Quiet'
  BY <1>0, <1>8 DEF StartThread, CheckResult, BeginRecovery, Goto
<1>9. ASSUME NEW e \in Episodes, ApplyResult(e)
      PROVE  Quiet'
  <2>1. stage' = [stage EXCEPT ![e] = "publishing"] /\ UNCHANGED <<caller, handling>>
    BY <1>9 DEF ApplyResult, Goto
  <2>2. \A b \in Appliers \ {e} : pub'[b] = pub[b] /\ launch'[b] = launch[b]
    BY <1>0, <1>9, AppliesAlone DEF ApplyResult
  <2>3. QED
    BY <1>0, <2>1, <2>2
<1>10. ASSUME NEW e \in Episodes, Finish(e)
       PROVE  Quiet'
  <2>1. pub[e] = <<>> /\ UNCHANGED <<caller, handling, pub>>
    BY <1>10 DEF Finish
  <2>2. \/ stage' = [stage EXCEPT ![e] = "launching"] /\ launch' = [launch EXCEPT ![e] = TRUE]
        \/ stage' = [stage EXCEPT ![e] = "unused"] /\ launch' = [launch EXCEPT ![e] = FALSE]
    BY <1>10 DEF Finish, Goto
  <2>3. QED
    BY <1>0, <2>1, <2>2
<1>11. Start \/ Unregister \/ Close \/ Join \/ UNCHANGED Untouched \/ UNCHANGED vars
         => UNCHANGED <<stage, caller, handling, pub, launch>>
  BY DEF Start, Unregister, Close, Join, Untouched, vars
<1>12. QED
  BY <1>1, <1>2, <1>3, <1>4, <1>5, <1>6, <1>7, <1>8, <1>9, <1>10, <1>11, StepCases
     DEF SupervisorAlone

------------------------------------------------------------------------------
(* What a step does to the absence of the binding and to those who see to it. *)
Care == <<closed, registered, recovers, resolution, attempted, thread, stage, launch, credit,
          answered, forgone>>

Registers ==
    /\ ~registered /\ ~closed /\ registered' = TRUE /\ recovers' \in BOOLEAN
    /\ UNCHANGED <<closed, resolution, attempted, thread, stage, launch, credit, answered, forgone>>

Discards ==
    /\ registered' = FALSE /\ recovers' = FALSE /\ resolution' = <<>> /\ attempted' = FALSE
    /\ thread' = 0 /\ answered' = TRUE /\ closed' \in {closed, TRUE}
    /\ credit' = Settle
    /\ UNCHANGED <<stage, launch>>

Renews ==
    /\ registered /\ resolution' = <<>> /\ attempted' = FALSE
    /\ credit' = Settle
    /\ UNCHANGED <<closed, registered, recovers, thread, stage, launch>>

(* Applier a gives up what it had to publish and to launch.                   *)
GivesUp(a) ==
    /\ launch' = [launch EXCEPT ![a] = FALSE]
    /\ credit' = IF launch[a] THEN credit - 1 ELSE credit
    /\ (forgone \/ (launch[a] /\ attempted)) => forgone'
    /\ UNCHANGED <<closed, registered, recovers, resolution, attempted, thread, stage, answered>>

(* Applier a applies a snapshot of which r is the resolution.                 *)
Goes(r) == r.status = "absent" /\ recovers /\ ~attempted /\ thread = 0
Applies(a, r) ==
    /\ registered /\ ~closed /\ ~launch[a]
    /\ resolution' = <<r>>
    /\ attempted' = (r.status = "absent" /\ (attempted \/ Goes(r)))
    /\ launch' = [launch EXCEPT ![a] = Goes(r)]
    /\ attempted /\ r.status = "absent" /\ answered => answered'
    /\ attempted /\ r.status = "absent" /\ forgone => forgone'
    /\ credit' = IF recovers /\ r.status = "absent" /\ ~Absent(resolution) THEN credit + 1
                 ELSE IF r.status = "absent" THEN credit ELSE Settle
    /\ \/ stage' = stage
       \/ a \in Episodes /\ stage[a] = "applying" /\ stage' = [stage EXCEPT ![a] = "publishing"]
    /\ UNCHANGED <<closed, registered, recovers, thread>>

(* A recovery thread goes from one stage to another.                          *)
Moves(e) ==
    /\ \/ stage[e] = "registered" /\ stage' = [stage EXCEPT ![e] = "starting"]
          /\ answered' = answered
       \/ stage[e] = "starting" /\ registered /\ ~closed /\ recovers /\ answered' = TRUE
          /\ stage' = [stage EXCEPT ![e] = "preparing"]
       \/ stage[e] = "starting" /\ ~(registered /\ ~closed /\ recovers) /\ answered' = answered
          /\ stage' = [stage EXCEPT ![e] = "finishing"]
       \/ stage[e] \in {"preparing", "applying"} /\ answered' = answered
          /\ \E s \in {"applying", "publishing", "finishing"} : stage' = [stage EXCEPT ![e] = s]
    /\ UNCHANGED <<closed, registered, recovers, resolution, attempted, thread, launch, credit,
                   forgone>>

Takes(a) ==
    /\ launch[a] /\ launch' = [launch EXCEPT ![a] = FALSE]
    /\ \A d \in Episodes :
          \/ stage'[d] = stage[d]
          \/ stage[d] = "launching" /\ stage'[d] = "unused"
          \/ stage[d] = "unused" /\ stage'[d] = "registered"
    /\ IF registered /\ ~closed /\ thread = 0
       THEN thread' \in Episodes /\ stage'[thread'] = "registered"
       ELSE thread' = thread
    /\ credit' = credit - 1
    /\ UNCHANGED <<closed, registered, recovers, resolution, attempted, answered, forgone>>

Ends(e) ==
    LET again == registered /\ thread = e /\ ~closed /\ Absent(resolution) /\ recovers
                 /\ ~attempted
    IN  /\ stage[e] \in {"finishing", "publishing"} /\ ~launch[e]
        /\ thread' = IF registered /\ thread = e THEN 0 ELSE thread
        /\ attempted' = (attempted \/ again) /\ answered' = (answered /\ ~again)
        /\ launch' = [launch EXCEPT ![e] = again]
        /\ stage' = [stage EXCEPT ![e] = IF again THEN "launching" ELSE "unused"]
        /\ UNCHANGED <<closed, registered, recovers, resolution, credit, forgone>>

LEMMA ApplyEffect ==
    ASSUME NEW a, ~launch[a], NEW g, NEW s, Apply(a, g, s),
           UNCHANGED <<closed, registered, recovers, thread>>,
           \/ stage' = stage
           \/ a \in Episodes /\ stage[a] = "applying" /\ stage' = [stage EXCEPT ![a] = "publishing"]
    PROVE  \/ UNCHANGED <<resolution, attempted, launch, credit, answered, forgone>>
           \/ Applies(a, ResolveTransportBinding(Serial, s))
<1> DEFINE r == ResolveTransportBinding(Serial, s)
           now == attempted /\ r.status = "absent"
<1>1. CASE closed \/ ~registered
  BY <1>1 DEF Apply
<1>2. CASE ~(closed \/ ~registered)
  <2>1. /\ resolution' = <<r>>
        /\ attempted' = (now \/ ShouldRecover(r, now))
        /\ launch' = [launch EXCEPT ![a] = ShouldRecover(r, now)]
        /\ answered' = (~ShouldRecover(r, now) /\ (answered \/ ~now))
        /\ forgone' = (forgone /\ now)
        /\ credit' = IF recovers /\ r.status = "absent" /\ ~Absent(resolution) THEN credit + 1
                     ELSE IF r.status = "absent" THEN credit ELSE Settle
    BY <1>2 DEF Apply
  <2>2. ShouldRecover(r, now) = Goes(r)
    BY DEF ShouldRecover, Goes
  <2>4. attempted' = (r.status = "absent" /\ (attempted \/ Goes(r)))
    BY <2>1, <2>2 DEF Goes
  <2>5. /\ now /\ answered => answered'
        /\ now /\ forgone => forgone'
    <3>1. now => ~ShouldRecover(r, now)
      BY DEF ShouldRecover
    <3>2. QED
      BY <2>1, <3>1
  <2>6. launch' = [launch EXCEPT ![a] = Goes(r)] /\ resolution' = <<r>>
    BY <2>1, <2>2
  <2> HIDE DEF r
  <2>7. QED
    BY <1>2, <2>1, <2>4, <2>5, <2>6 DEF Applies, r
<1>3. QED
  BY <1>1, <1>2

LEMMA Effects ==
    ASSUME Typed, Quiet, [Next]_vars
    PROVE  \/ UNCHANGED Care
           \/ Registers \/ Discards \/ Renews
           \/ \E a \in Appliers : Takes(a) \/ GivesUp(a) \/ \E r : Applies(a, r)
           \/ \E e \in Episodes : Moves(e) \/ Ends(e)
<1> USE DEF Care
<1>1. CASE Register
  BY <1>1 DEF Register, Registers, history
<1>2. CASE Unregister \/ Close
  BY <1>2 DEF Unregister, Close, Discard, Discards
<1>3. CASE CallerApplies
  <2>1. ~launch[Registrar] /\ stage' = stage /\ UNCHANGED <<closed, registered, recovers, thread>>
    BY <1>3 DEF CallerApplies, Quiet
  <2>2. \/ UNCHANGED <<resolution, attempted, launch, credit, answered, forgone>>
        \/ \E r : Applies(Registrar, r)
    BY <1>3, <2>1, ApplyEffect DEF CallerApplies
  <2>3. QED
    BY <2>1, <2>2, Constants
<1>4. CASE Dispatch
  <2>1. ~launch[Dispatcher] /\ stage' = stage /\ UNCHANGED <<closed, registered, recovers, thread>>
    BY <1>4 DEF Dispatch, Quiet
  <2>2. CASE OnObservationStarted(Head(bus).session) /\ UNCHANGED launch
    BY <2>1, <2>2 DEF OnObservationStarted, Renews, history
  <2>3. CASE Apply(Dispatcher, Head(bus).session, Head(bus).snapshot)
    <3>1. \/ UNCHANGED <<resolution, attempted, launch, credit, answered, forgone>>
          \/ \E r : Applies(Dispatcher, r)
      BY <2>1, <2>3, ApplyEffect
    <3>2. QED
      BY <2>1, <3>1, Constants
  <2>4. CASE UNCHANGED <<resolution, attempted, launch, credit, answered, forgone>>
    BY <2>1, <2>4
  <2>5. QED
    BY <1>4, <2>2, <2>3, <2>4 DEF Dispatch
<1>5. ASSUME NEW a \in Appliers, LaunchRecovery(a)
      PROVE  Takes(a)
  <2>1. stage \in [Episodes -> RecoveryStages]
    BY TypesSplit DEF Typed, OtherTypes
  <2>2. /\ launch[a] /\ launch' = [launch EXCEPT ![a] = FALSE]
        /\ UNCHANGED <<closed, registered, recovers, resolution, attempted, answered, forgone>>
    BY <1>5 DEF LaunchRecovery
  <2>3. \A d \in Episodes :
           \/ stage'[d] = stage[d]
           \/ stage[d] = "launching" /\ stage'[d] = "unused"
           \/ stage[d] = "unused" /\ stage'[d] = "registered"
    BY <1>5, <2>1, Launched
  <2>4. IF registered /\ ~closed /\ thread = 0
        THEN thread' \in Episodes /\ stage'[thread'] = "registered"
        ELSE thread' = thread
    BY <1>5, <2>1, Launched
  <2>6. credit' = credit - 1
    BY <1>5, <2>1, Launched
  <2>5. QED
    BY <2>2, <2>3, <2>4, <2>6 DEF Takes
<1>6. ASSUME NEW e \in Episodes, StartThread(e) \/ CheckResult(e) \/ BeginRecovery(e)
      PROVE  Moves(e)
  BY <1>6 DEF StartThread, CheckResult, BeginRecovery, Goto, Moves, entry, history
<1>7. ASSUME NEW e \in Episodes, ApplyResult(e)
      PROVE  Moves(e) \/ \E r : Applies(e, r)
  <2>1. ~launch[e] /\ stage[e] = "applying" /\ stage' = [stage EXCEPT ![e] = "publishing"]
        /\ UNCHANGED <<closed, registered, recovers, thread>>
    BY <1>7 DEF ApplyResult, Quiet, Goto
  <2>2. \/ UNCHANGED <<resolution, attempted, launch, credit, answered, forgone>>
        \/ \E r : Applies(e, r)
    BY <1>7, <2>1, ApplyEffect DEF ApplyResult
  <2>3. QED
    BY <2>1, <2>2 DEF Moves
<1>8. ASSUME NEW e \in Episodes, Finish(e)
      PROVE  Ends(e)
  BY <1>8 DEF Finish, Goto, Ends, Quiet
<1>9. CASE Start \/ Join \/ CallerReads \/ CallerReadsSnapshot \/ CallerReturns \/ Collect
  BY <1>9 DEF Start, Join, CallerReads, CallerReadsSnapshot, CallerReturns, Collect, entry, history
<1>10. ASSUME NEW a \in Appliers, PublishChange(a)
       PROVE  UNCHANGED Care
  BY <1>10 DEF PublishChange, entry
<1>13. ASSUME NEW a \in Appliers, PublicationRaises(a)
       PROVE  GivesUp(a)
  BY <1>13 DEF PublicationRaises, GivesUp, entry
<1>11. UNCHANGED Untouched \/ UNCHANGED vars => UNCHANGED Care
  BY DEF Untouched, vars, entry, history
<1>12. QED
  BY <1>1, <1>2, <1>3, <1>4, <1>5, <1>6, <1>7, <1>8, <1>9, <1>10, <1>11, <1>13,
     StepCases, Constants DEF SupervisorAlone

------------------------------------------------------------------------------
(* What AbsenceHasDriver and OneRecoveryPerAbsence rest on.                   *)
Settings ==
    /\ ~registered => resolution = <<>> /\ ~attempted /\ thread = 0 /\ ~recovers
    /\ closed => ~registered
    /\ attempted => recovers /\ Absent(resolution)

ThreadRuns ==
    /\ thread # 0 => stage[thread] \notin {"unused", "launching"}
    /\ attempted /\ ~answered /\ thread # 0 => stage[thread] \in {"registered", "starting"}

Launchers == {a \in Appliers : launch[a]}
Funded == credit >= Cardinality(Launchers) + (IF Untried THEN 1 ELSE 0)

Cared == Settings /\ ThreadRuns /\ Funded /\ AbsenceHasDriver

LEMMA LaunchersCounted ==
    ASSUME launch \in [Appliers -> BOOLEAN]
    PROVE  /\ Cardinality(Launchers) \in Nat
           /\ \A a \in Appliers : ~launch[a] /\ launch' = [launch EXCEPT ![a] = TRUE] =>
                Cardinality(Launchers') = Cardinality(Launchers) + 1
           /\ \A a \in Appliers : ~launch[a] /\ launch' = [launch EXCEPT ![a] = FALSE] =>
                Cardinality(Launchers') = Cardinality(Launchers)
           /\ \A a \in Appliers : launch[a] /\ launch' = [launch EXCEPT ![a] = FALSE] =>
                /\ Cardinality(Launchers) = Cardinality(Launchers') + 1
                /\ Cardinality(Launchers') \in Nat
<1>1. IsFiniteSet(Appliers)
  BY Constants, FS_Interval DEF Appliers, Registrar
<1>2. IsFiniteSet(Launchers) /\ Cardinality(Launchers) \in Nat
  BY <1>1, FS_Subset, FS_CardinalityType DEF Launchers
<1>3. ASSUME NEW a \in Appliers, ~launch[a], launch' = [launch EXCEPT ![a] = TRUE]
      PROVE  Cardinality(Launchers') = Cardinality(Launchers) + 1
  <2>1. Launchers' = Launchers \cup {a} /\ a \notin Launchers
    BY <1>3 DEF Launchers
  <2>2. QED
    BY <1>2, <2>1, FS_AddElement
<1>4. ASSUME NEW a \in Appliers, ~launch[a], launch' = [launch EXCEPT ![a] = FALSE]
      PROVE  Cardinality(Launchers') = Cardinality(Launchers)
  <2>1. Launchers' = Launchers
    BY <1>4 DEF Launchers
  <2>2. QED
    BY <2>1
<1>5. ASSUME NEW a \in Appliers, launch[a], launch' = [launch EXCEPT ![a] = FALSE]
      PROVE  /\ Cardinality(Launchers) = Cardinality(Launchers') + 1
             /\ Cardinality(Launchers') \in Nat
  <2>1. Launchers' = Launchers \ {a} /\ a \in Launchers
    BY <1>5 DEF Launchers
  <2>2. Cardinality(Launchers') = Cardinality(Launchers) - 1 /\ IsFiniteSet(Launchers')
    BY <1>2, <2>1, FS_RemoveElement
  <2>3. Cardinality(Launchers') \in Nat
    BY <2>2, FS_CardinalityType
  <2>4. QED
    BY <1>2, <2>2, <2>3
<1>6. QED
  BY <1>2, <1>3, <1>4, <1>5

LEMMA SettingsKept ==
    ASSUME Typed, Quiet, Settings, [Next]_vars
    PROVE  Settings'
<1> USE DEF Settings, Absent
<1>1. CASE UNCHANGED Care
  BY <1>1 DEF Care
<1>2. CASE Registers \/ Discards \/ Renews
  <2>1. CASE Registers
    BY <2>1 DEF Registers
  <2>2. CASE Discards
    BY <2>2 DEF Discards
  <2>3. CASE Renews
    BY <2>3 DEF Renews
  <2>4. QED
    BY <1>2, <2>1, <2>2, <2>3
<1>3. ASSUME NEW a \in Appliers, Takes(a) \/ GivesUp(a)
      PROVE  Settings'
  BY <1>3 DEF Takes, GivesUp
<1>4. ASSUME NEW a \in Appliers, NEW r, Applies(a, r)
      PROVE  Settings'
  BY <1>4 DEF Applies, Goes
<1>5. ASSUME NEW e \in Episodes, Moves(e)
      PROVE  Settings'
  BY <1>5 DEF Moves
<1>6. ASSUME NEW e \in Episodes, Ends(e)
      PROVE  Settings'
  BY <1>6 DEF Ends
<1>7. QED
  BY <1>1, <1>2, <1>3, <1>4, <1>5, <1>6, Effects

LEMMA ThreadRunsKept ==
    ASSUME Typed, Quiet, Settings, ThreadRuns, [Next]_vars
    PROVE  ThreadRuns'
<1>0. stage \in [Episodes -> RecoveryStages] /\ thread \in Episodes \cup {0} /\ 0 \notin Episodes
  BY TypesSplit DEF Typed, OtherTypes, Episodes
<1> USE <1>0 DEF ThreadRuns
<1>1. CASE UNCHANGED Care
  BY <1>1 DEF Care
<1>2. CASE Registers \/ Discards \/ Renews
  <2>1. CASE Registers
    BY <2>1 DEF Registers, Settings
  <2>2. CASE Discards
    BY <2>2 DEF Discards
  <2>3. CASE Renews
    BY <2>3 DEF Renews
  <2>4. QED
    BY <1>2, <2>1, <2>2, <2>3
<1>3. ASSUME NEW a \in Appliers, Takes(a) \/ GivesUp(a)
      PROVE  ThreadRuns'
  <2>1. CASE Takes(a)
    BY <2>1 DEF Takes
  <2>2. CASE GivesUp(a)
    BY <2>2 DEF GivesUp
  <2>3. QED
    BY <1>3, <2>1, <2>2
<1>4. ASSUME NEW a \in Appliers, NEW r, Applies(a, r)
      PROVE  ThreadRuns'
  <2>1. thread' = thread /\ (attempted' /\ ~answered' /\ thread # 0 => attempted /\ ~answered)
    BY <1>4 DEF Applies, Goes
  <2>2. \A d \in Episodes : \/ stage'[d] = stage[d]
                            \/ stage[d] = "applying" /\ stage'[d] = "publishing"
    BY <1>4 DEF Applies
  <2>3. QED
    BY <2>1, <2>2
<1>5. ASSUME NEW e \in Episodes, Moves(e)
      PROVE  ThreadRuns'
  <2>1. CASE e # thread
    BY <1>5, <2>1 DEF Moves
  <2>2. CASE e = thread
    BY <1>5, <2>2 DEF Moves, Settings
  <2>3. QED
    BY <2>1, <2>2
<1>6. ASSUME NEW e \in Episodes, Ends(e)
      PROVE  ThreadRuns'
  <2>1. CASE registered /\ thread = e
    BY <1>6, <2>1 DEF Ends
  <2>2. CASE ~(registered /\ thread = e)
    BY <1>6, <2>2 DEF Ends, Settings
  <2>3. QED
    BY <2>1, <2>2
<1>7. QED
  BY <1>1, <1>2, <1>3, <1>4, <1>5, <1>6, Effects

LEMMA FundedKept ==
    ASSUME Typed, Quiet, Settings, Funded, [Next]_vars
    PROVE  Funded'
<1>0. launch \in [Appliers -> BOOLEAN] /\ credit \in Int /\ Cardinality(Launchers) \in Nat
  BY LaunchersCounted, TypesSplit DEF Typed, AppliedTypes
<1> USE <1>0 DEF Funded
<1>1. CASE UNCHANGED Care
  <2>1. Untried' = Untried /\ Launchers' = Launchers
    BY <1>1 DEF Care, Untried, Launchers, Absent
  <2>2. QED
    BY <1>1, <2>1 DEF Care
<1>2. CASE Registers \/ Discards \/ Renews
  <2>1. ~Untried'
    BY <1>2 DEF Registers, Discards, Renews, Untried, Settings, Absent
  <2>2. Launchers' = Launchers /\ credit' \in {credit, Settle}
    BY <1>2 DEF Registers, Discards, Renews, Launchers
  <2>3. CASE credit' = Settle
    BY <2>1, <2>2, <2>3 DEF Settle
  <2>4. QED
    BY <2>1, <2>2, <2>3
<1>3. ASSUME NEW a \in Appliers, Takes(a)
      PROVE  Funded'
  <2>1. credit' = credit - 1 /\ Untried' = Untried
    BY <1>3 DEF Takes, Untried, Absent
  <2>2. Cardinality(Launchers) = Cardinality(Launchers') + 1 /\ Cardinality(Launchers') \in Nat
    BY <1>3, LaunchersCounted DEF Takes
  <2>3. QED
    BY <2>1, <2>2
<1>8. ASSUME NEW a \in Appliers, GivesUp(a)
      PROVE  Funded'
  <2>1. Untried' = Untried /\ launch' = [launch EXCEPT ![a] = FALSE]
        /\ credit' = IF launch[a] THEN credit - 1 ELSE credit
    BY <1>8 DEF GivesUp, Untried, Absent
  <2>2. CASE launch[a]
    <3>1. Cardinality(Launchers) = Cardinality(Launchers') + 1 /\ Cardinality(Launchers') \in Nat
      BY <1>0, <2>1, <2>2, LaunchersCounted
    <3>2. QED
      BY <2>1, <2>2, <3>1
  <2>3. CASE ~launch[a]
    <3>1. Cardinality(Launchers') = Cardinality(Launchers)
      BY <1>0, <2>1, <2>3, LaunchersCounted
    <3>2. QED
      BY <2>1, <2>3, <3>1
  <2>4. QED
    BY <2>2, <2>3
<1>4. ASSUME NEW a \in Appliers, NEW r, Applies(a, r)
      PROVE  Funded'
  <2>1. CASE Goes(r)
    <3>1. ~Untried'
      BY <1>4, <2>1 DEF Applies, Untried, Goes
    <3>2. Cardinality(Launchers') = Cardinality(Launchers) + 1
      BY <1>0, <1>4, <2>1, LaunchersCounted DEF Applies
    <3>3. credit' = credit + 1 \/ (credit' = credit /\ Untried)
      BY <1>4, <2>1 DEF Applies, Goes, Untried, Absent
    <3>4. QED
      BY <3>1, <3>2, <3>3
  <2>2. CASE ~Goes(r)
    <3>1. Cardinality(Launchers') = Cardinality(Launchers)
      <4>1. launch' = [launch EXCEPT ![a] = FALSE] /\ ~launch[a]
        BY <1>4, <2>2 DEF Applies, Goes
      <4>2. QED
        BY <1>0, <4>1, LaunchersCounted
    <3>2. CASE r.status # "absent"
      <4>1. ~Untried' /\ credit' = Settle
        BY <1>4, <3>2 DEF Applies, Untried, Absent
      <4>2. QED
        BY <3>1, <4>1 DEF Settle
    <3>3. CASE r.status = "absent"
      <4>1. credit' = credit + 1 \/ (credit' = credit /\ (Untried' => Untried))
        BY <1>4, <2>2, <3>3 DEF Applies, Goes, Untried, Absent
      <4>2. QED
        BY <3>1, <4>1
    <3>4. QED
      BY <3>2, <3>3
  <2>3. QED
    BY <2>1, <2>2
<1>5. ASSUME NEW e \in Episodes, Moves(e)
      PROVE  Funded'
  <2>1. Untried' = Untried /\ Launchers' = Launchers /\ credit' = credit
    BY <1>5 DEF Moves, Untried, Launchers, Absent
  <2>2. QED
    BY <2>1
<1>6. ASSUME NEW e \in Episodes, Ends(e)
      PROVE  Funded'
  <2> DEFINE again == registered /\ thread = e /\ ~closed /\ Absent(resolution) /\ recovers
                      /\ ~attempted
  <2>1. e \in Appliers /\ ~launch[e] /\ launch' = [launch EXCEPT ![e] = again] /\ credit' = credit
        /\ attempted' = (attempted \/ again)
        /\ UNCHANGED <<registered, recovers, resolution>>
    BY <1>6, Constants DEF Ends
  <2>2. CASE again
    <3>1. Untried /\ ~Untried'
      BY <2>1, <2>2 DEF Untried
    <3>2. Cardinality(Launchers') = Cardinality(Launchers) + 1
      BY <2>1, <2>2, LaunchersCounted
    <3>3. QED
      BY <2>1, <3>1, <3>2
  <2>3. CASE ~again
    <3>1. Untried' => Untried
      BY <2>1 DEF Untried, Absent
    <3>2. Cardinality(Launchers') = Cardinality(Launchers)
      BY <2>1, <2>3, LaunchersCounted
    <3>3. QED
      BY <2>1, <3>1, <3>2
  <2>4. QED
    BY <2>2, <2>3
<1>7. QED
  BY <1>1, <1>2, <1>3, <1>4, <1>5, <1>6, <1>8, Effects

LEMMA DriverKept ==
    ASSUME Typed, Quiet, Settings, ThreadRuns, AbsenceHasDriver, [Next]_vars
    PROVE  AbsenceHasDriver'
<1>0. /\ stage \in [Episodes -> RecoveryStages] /\ launch \in [Appliers -> BOOLEAN]
      /\ thread \in Episodes \cup {0} /\ 0 \notin Episodes /\ Episodes \subseteq Appliers
  BY TypesSplit, Constants DEF Typed, OtherTypes, AppliedTypes, Episodes
<1> USE <1>0 DEF AbsenceHasDriver, Absent
<1>1. CASE UNCHANGED Care
  BY <1>1 DEF Care
<1>2. CASE Registers \/ Discards \/ Renews
  BY <1>2 DEF Registers, Discards, Renews, Settings
<1>3. ASSUME NEW a \in Appliers, Takes(a)
      PROVE  AbsenceHasDriver'
  <2>0. UNCHANGED <<registered, recovers, resolution, attempted, answered, closed, forgone>>
    BY <1>3 DEF Takes
  <2>1. CASE registered /\ ~closed /\ thread = 0
    BY <1>3, <2>0, <2>1 DEF Takes
  <2>2. CASE ~(registered /\ ~closed /\ thread = 0)
    <3>1. thread' = thread /\ (registered => thread # 0)
      BY <1>3, <2>2 DEF Takes, Settings
    <3>2. \A d \in Episodes : stage[d] \in {"registered", "starting"} => stage'[d] = stage[d]
      BY <1>3 DEF Takes
    <3>3. QED
      BY <2>0, <3>1, <3>2 DEF ThreadRuns
  <2>3. QED
    BY <2>1, <2>2
<1>8. ASSUME NEW a \in Appliers, GivesUp(a)
      PROVE  AbsenceHasDriver'
  <2>1. /\ \A b \in Appliers \ {a} : launch'[b] = launch[b]
        /\ (launch[a] /\ attempted) \/ forgone => forgone'
        /\ UNCHANGED <<registered, recovers, resolution, attempted, thread, stage, answered>>
    BY <1>8 DEF GivesUp
  <2>2. QED
    BY <2>1
<1>4. ASSUME NEW a \in Appliers, NEW r, Applies(a, r)
      PROVE  AbsenceHasDriver'
  <2>1. CASE Goes(r)
    BY <1>4, <2>1 DEF Applies
  <2>2. CASE ~Goes(r)
    <3>1. /\ \A b \in Appliers : launch[b] => launch'[b]
          /\ attempted /\ r.status = "absent" =>
                (answered => answered') /\ (forgone => forgone')
          /\ thread' = thread /\ UNCHANGED <<registered, recovers>>
      <4>1. launch' = [launch EXCEPT ![a] = FALSE] /\ ~launch[a]
        BY <1>4, <2>2 DEF Applies, Goes
      <4>2. QED
        BY <1>4, <4>1 DEF Applies
    <3>2. \A d \in Episodes : stage[d] \in {"registered", "starting"} => stage'[d] = stage[d]
      BY <1>4 DEF Applies
    <3>3. attempted' => attempted
      BY <1>4, <2>2 DEF Applies
    <3>4. resolution' = <<r>> /\ (r.status = "absent" /\ ~attempted' => ~attempted)
      BY <1>4 DEF Applies
    <3>5. CASE attempted' /\ r.status = "absent" /\ registered /\ recovers
      BY <3>1, <3>2, <3>3, <3>5 DEF Settings
    <3>6. CASE ~attempted' /\ r.status = "absent" /\ registered /\ recovers
      BY <2>2, <3>1, <3>4, <3>6 DEF Goes
    <3>7. QED
      BY <3>1, <3>4, <3>5, <3>6
  <2>3. QED
    BY <2>1, <2>2
<1>5. ASSUME NEW e \in Episodes, Moves(e)
      PROVE  AbsenceHasDriver'
  <2>1. CASE e # thread
    BY <1>5, <2>1 DEF Moves
  <2>2. CASE e = thread
    BY <1>5, <2>2 DEF Moves, Settings, ThreadRuns
  <2>3. QED
    BY <2>1, <2>2
<1>6. ASSUME NEW e \in Episodes, Ends(e)
      PROVE  AbsenceHasDriver'
  <2> DEFINE again == registered /\ thread = e /\ ~closed /\ Absent(resolution) /\ recovers
                      /\ ~attempted
  <2>1. /\ stage[e] \in {"finishing", "publishing"} /\ ~launch[e]
        /\ thread' = IF registered /\ thread = e THEN 0 ELSE thread
        /\ attempted' = (attempted \/ again) /\ answered' = (answered /\ ~again)
        /\ launch' = [launch EXCEPT ![e] = again]
        /\ stage' = [stage EXCEPT ![e] = IF again THEN "launching" ELSE "unused"]
        /\ UNCHANGED <<closed, registered, recovers, resolution, forgone>>
    BY <1>6 DEF Ends
  <2>2. CASE again
    BY <2>1, <2>2
  <2>3. CASE ~again
    <3>1. UNCHANGED <<attempted, answered, launch>>
      <4>1. attempted' = attempted /\ answered' = answered
        BY <2>1, <2>3, TypesSplit, Zenon DEF Typed, AppliedTypes
      <4>2. launch' = launch
        BY <2>1, <2>3
      <4>3. QED
        BY <4>1, <4>2
    <3>2. CASE registered /\ thread = e
      BY <2>1, <2>3, <3>1, <3>2 DEF Settings, ThreadRuns
    <3>3. CASE ~(registered /\ thread = e)
      BY <2>1, <3>1, <3>3
    <3>4. QED
      BY <3>2, <3>3
  <2>4. QED
    BY <2>2, <2>3
<1>7. QED
  BY <1>1, <1>2, <1>3, <1>4, <1>5, <1>6, <1>8, Effects

LEMMA CaredHolds == Spec => [](Quiet /\ Cared)
<1>1. Init => Quiet /\ Cared
  <2> SUFFICES ASSUME Init PROVE Quiet /\ Cared
    OBVIOUS
  <2>1. /\ handling = <<>> /\ caller = Idle
        /\ stage = [e \in Episodes |-> "unused"]
        /\ pub = [a \in Appliers |-> <<>>] /\ launch = [a \in Appliers |-> FALSE]
        /\ ~registered /\ ~recovers /\ resolution = <<>> /\ ~attempted /\ thread = 0
        /\ ~closed /\ credit = 0
    BY DEF Init
  <2>2. Quiet
    BY <2>1, Constants DEF Quiet
  <2>3. Launchers = {}
    BY <2>1 DEF Launchers
  <2>4. Funded
    BY <2>1, <2>3, FS_EmptySet DEF Funded, Untried
  <2>5. QED
    BY <2>1, <2>2, <2>4 DEF Cared, Settings, ThreadRuns, AbsenceHasDriver
<1>2. Typed /\ Quiet /\ Cared /\ [Next]_vars => (Quiet /\ Cared)'
  BY QuietKept, SettingsKept, ThreadRunsKept, FundedKept, DriverKept DEF Cared
<1>3. QED
  BY <1>1, <1>2, TypedHolds, PTL DEF Spec

(* One preparation for each absence observed, however sessions restart,       *)
(* bindings are registered anew and threads race for the launch; and the      *)
(* thread on record is one that runs (transport_binding.py 256-287, 331-346). *)
THEOREM OneRecoveryForEachAbsence == Spec => []OneRecoveryPerAbsence
<1>1. Typed /\ Cared => OneRecoveryPerAbsence
  <2> SUFFICES ASSUME Typed, Cared PROVE OneRecoveryPerAbsence
    OBVIOUS
  <2>1. credit \in Int /\ Cardinality(Launchers) \in Nat
    BY LaunchersCounted, TypesSplit DEF Typed, AppliedTypes
  <2>2. QED
    BY <2>1 DEF Cared, Funded, ThreadRuns, OneRecoveryPerAbsence
<1>2. QED
  BY <1>1, TypedHolds, CaredHolds, PTL

(* An absence of a binding to be recovered is left to nobody only where the   *)
(* code gives its launch up to an exception, a publication that raised after  *)
(* the flag was set: whatever thread is on record, a launch it stands in the  *)
(* way of is not missed (transport_binding.py 256-269, 271-284, 331-346).     *)
THEOREM EveryAbsenceHasDriver == Spec => []AbsenceHasDriver
<1>1. Cared => AbsenceHasDriver
  BY DEF Cared
<1>2. QED
  BY <1>1, CaredHolds, PTL

------------------------------------------------------------------------------
(* No event is ahead of the sessions, and one that announces the end of a     *)
(* session is not seen while that session is active.                          *)
Known(event) ==
    /\ event.session <= generation
    /\ event.kind \notin {"started", "snapshot"} => event.session # Active

(* What the outcome of an episode says of its session.                        *)
Closing(e) ==
    /\ own[e] <= generation
    /\ status[e] = "observation_replaced" => own[e] < generation
    /\ status[e] \in {"observation_failed", "observation_stopped"} => own[e] # 0 /\ own[e] # Active

Heard ==
    /\ \A i \in 1..Len(bus) : Known(bus[i])
    /\ handling # <<>> => Known(handling[1])
    /\ \A e \in Episodes : Closing(e) /\ \A i \in 1..Len(queue[e]) : Known(queue[e][i])

(* Known after the step.                                                      *)
Later(event) ==
    /\ event.session <= generation'
    /\ event.kind \notin {"started", "snapshot"} => event.session # Active'

(* The inventory goes on: what was known stays so.                            *)
LEMMA InventoryAdvances ==
    ASSUME InventoryTypeOK, Begun, InventoryStep
    PROVE  /\ generation' \in Nat /\ generation' >= generation
           /\ Active' \in {0, generation'}
           /\ Active' # Active => Active' = 0 \/ generation' > generation
           /\ \/ bus' = bus
              \/ \E event \in Events : bus' = Append(bus, event) /\ Later(event)
<1> USE Constants DEF InventoryTypeOK, Active
<1>1. CASE OpenSession
  BY <1>1 DEF OpenSession
<1>2. CASE BreakOff
  BY <1>2 DEF BreakOff
<1>3. CASE Change
  BY <1>3 DEF Change
<1>4. CASE Establish
  <2>1. [kind |-> "started", session |-> generation] \in Events
    BY <1>4 DEF Establish, Events, Begun
  <2>2. QED
    BY <1>4, <2>1 DEF Establish, Publish, Later
<1>5. CASE Report
  <2>1. [kind |-> "snapshot", session |-> generation, snapshot |-> inventory] \in Events
    BY <1>5 DEF Report, Events, Begun
  <2>2. QED
    BY <1>5, <2>1 DEF Report, Publish, Later
<1>6. CASE AnnounceEnd
  <2>1. PICK g \in ending, kind \in Terminals : Publish([kind |-> kind, session |-> g])
    BY <1>6 DEF AnnounceEnd
  <2>2. /\ [kind |-> kind, session |-> g] \in Events
        /\ g \in 1..generation /\ (link # "down" => g # generation)
    BY DEF Events, Begun
  <2>3. UNCHANGED <<generation, link>>
    BY <1>6 DEF AnnounceEnd
  <2>4. QED
    BY <2>1, <2>2, <2>3 DEF Publish, Later
<1>7. QED
  BY <1>1, <1>2, <1>3, <1>4, <1>5, <1>6 DEF InventoryStep

LEMMA KnownStays ==
    ASSUME InventoryTypeOK, Begun, InventoryStep, NEW event \in Events, Known(event)
    PROVE  Later(event)
<1>1. event.session \in Nat \ {0} /\ generation \in Nat
  BY EventKinds, Constants DEF Sessions, InventoryTypeOK
<1>2. generation' \in Nat /\ generation' >= generation
      /\ (Active' = Active \/ Active' = 0 \/ (generation' > generation /\ Active' = generation'))
  BY InventoryAdvances
<1>3. QED
  BY <1>1, <1>2 DEF Known, Later

LEMMA ClosingStays ==
    ASSUME InventoryTypeOK, PreparationTypeOK, Begun, InventoryStep, NEW e \in Episodes,
           Closing(e), UNCHANGED <<own, status>>
    PROVE  Closing(e)'
<1>1. own[e] \in Nat /\ generation \in Nat
  BY Constants DEF PreparationTypeOK, InventoryTypeOK
<1>2. generation' \in Nat /\ generation' >= generation
      /\ (Active' = Active \/ Active' = 0 \/ (generation' > generation /\ Active' = generation'))
  BY InventoryAdvances
<1>3. QED
  BY <1>1, <1>2 DEF Closing

LEMMA EpisodeCloses ==
    ASSUME InventoryTypeOK, Begun, PreparationTypeOK, NEW e \in Episodes, Conduct(e), Heard,
           EpisodeStep(e), UNCHANGED inventoryVars
    PROVE  Closing(e)' /\ \A i \in 1..Len(queue'[e]) : Known(queue'[e][i])
<1>0. /\ generation \in Nat /\ own[e] \in Nat /\ Active \in {0, generation}
      /\ generation' = generation /\ Active' = Active
      /\ own \in [Episodes -> 0..MaxSessions] /\ status \in [Episodes -> Statuses]
      /\ queue[e] \in Seq(Events) /\ queue \in [Episodes -> Seq(Events)]
  BY Constants DEF PreparationTypeOK, InventoryTypeOK, Active, inventoryVars
<1>a. Closing(e) /\ \A i \in 1..Len(queue[e]) : Known(queue[e][i])
  BY DEF Heard
<1>b. ASSUME NEW s, NEW g, Judge(e, s, g)
      PROVE  \/ status' = status
             \/ \E v \in {"ambiguous", "blocked", "satisfied"} : status' = [status EXCEPT ![e] = v]
  <2>1. Verdict(ResolveTransportBinding(Serial, s)) \in {"none", "ambiguous", "satisfied", "blocked"}
    BY Resolutions, Verdicts
  <2>2. QED
    BY <1>b, <2>1 DEF Judge, Return
<1>1. CASE ReadSession(e)
  <2>1. status[e] = "none"
    BY <1>1 DEF ReadSession, Conduct
  <2>2. own' = [own EXCEPT ![e] = Active] /\ queue' = queue /\ status' = status
    BY <1>1 DEF ReadSession
  <2>3. QED
    BY <1>0, <1>a, <2>1, <2>2 DEF Closing
<1>2. CASE Subscribe(e) \/ Connect(e)
  BY <1>0, <1>a, <1>2 DEF Subscribe, Connect, Closing
<1>3. CASE ReadInitial(e)
  <2>1. own' = own /\ queue'[e] \in {queue[e], <<>>}
    BY <1>0, <1>3 DEF ReadInitial
  <2>2. status' = status \/ \E v \in {"ambiguous", "blocked", "satisfied"} : status' = [status EXCEPT ![e] = v]
    BY <1>3, <1>b DEF ReadInitial
  <2>3. QED
    BY <1>0, <1>a, <2>1, <2>2 DEF Closing
<1>4. CASE TimeOut(e)
  <2>1. own' = own /\ queue' = queue
        /\ \E v \in {"failed", "timed_out"} : status' = [status EXCEPT ![e] = v]
    BY <1>4 DEF TimeOut, Return
  <2>2. QED
    BY <1>0, <1>a, <2>1 DEF Closing
<1>5. CASE TakeEvent(e)
  <2> DEFINE event == Head(queue[e])
  <2>1. /\ own' = own
        /\ queue' = [queue EXCEPT ![e] = IF phase'[e] = "done" THEN <<>> ELSE Tail(@)]
        /\ queue[e] # <<>> /\ phase[e] = "waiting"
    BY <1>5 DEF TakeEvent
  <2>2. Known(event) /\ event \in Events
    BY <1>0, <1>a, <2>1
  <2>3. event.session \in Nat
        /\ event.kind \in {"started", "snapshot", "failed", "stopped"}
    BY <2>2, EventKinds, Constants DEF Sessions
  <2>4. \A i \in 1..Len(queue'[e]) : Known(queue'[e][i])
    <3>1. queue'[e] \in {Tail(queue[e]), <<>>}
      BY <1>0, <2>1
    <3>2. QED
      BY <1>0, <1>a, <2>1, <3>1
  <2>5. own[e] # 0 /\ status[e] = "none"
    BY <2>1 DEF Conduct
  <2>6. \/ event.session > own[e] /\ status' = [status EXCEPT ![e] = "observation_replaced"]
        \/ status' = status
        \/ \E v \in {"ambiguous", "blocked", "satisfied"} : status' = [status EXCEPT ![e] = v]
        \/ /\ event.session = own[e] /\ event.kind \notin {"started", "snapshot"}
           /\ \E v \in {"observation_failed", "observation_stopped"} : status' = [status EXCEPT ![e] = v]
    BY <1>0, <1>5, <1>b, <2>3 DEF TakeEvent, Return
  <2>7. Closing(e)'
    <3>1. CASE event.session > own[e] /\ status' = [status EXCEPT ![e] = "observation_replaced"]
      BY <1>0, <1>a, <2>1, <2>2, <2>3, <3>1 DEF Closing, Known
    <3>2. CASE status' = status \/ \E v \in {"ambiguous", "blocked", "satisfied"} : status' = [status EXCEPT ![e] = v]
      BY <1>0, <1>a, <2>1, <2>5, <3>2 DEF Closing
    <3>3. CASE /\ event.session = own[e] /\ event.kind \notin {"started", "snapshot"}
               /\ \E v \in {"observation_failed", "observation_stopped"} : status' = [status EXCEPT ![e] = v]
      BY <1>0, <1>a, <2>1, <2>2, <2>5, <3>3 DEF Closing, Known
    <3>4. QED
      BY <2>6, <3>1, <3>2, <3>3
  <2>8. QED
    BY <2>4, <2>7
<1>6. QED
  BY <1>1, <1>2, <1>3, <1>4, <1>5 DEF EpisodeStep

LEMMA HeardKept ==
    ASSUME Typed, Heard, [Next]_vars
    PROVE  Heard'
<1>0. /\ InventoryTypeOK /\ Begun /\ PreparationTypeOK /\ bus \in Seq(Events)
      /\ queue \in [Episodes -> Seq(Events)] /\ own \in [Episodes -> 0..MaxSessions]
      /\ status \in [Episodes -> Statuses] /\ generation \in Nat
      /\ handling = <<>> \/ handling \in Events \X SUBSET Episodes
  <2>1. InventoryTypeOK /\ Begun /\ PreparationTypeOK /\ OtherTypes
    BY TypesSplit DEF Typed
  <2>2. bus \in Seq(Events) /\ generation \in Nat
    BY <2>1, Constants DEF InventoryTypeOK
  <2>3. /\ queue \in [Episodes -> Seq(Events)] /\ own \in [Episodes -> 0..MaxSessions]
        /\ status \in [Episodes -> Statuses]
    BY <2>1 DEF PreparationTypeOK
  <2>4. handling = <<>> \/ handling \in Events \X SUBSET Episodes
    BY <2>1 DEF OtherTypes
  <2>5. QED
    BY <2>1, <2>2, <2>3, <2>4
<1>1. CASE InventoryStep /\ UNCHANGED <<episodeVars, Untouched>>
  <2>1. UNCHANGED <<queue, own, status>> /\ handling' = handling
    BY <1>1 DEF episodeVars, Untouched
  <2>2. \A e \in Episodes : Closing(e)'
    BY <1>0, <1>1, <2>1, ClosingStays DEF Heard
  <2>3. \A e \in Episodes : \A i \in 1..Len(queue'[e]) : Later(queue'[e][i])
    <3>1. ASSUME NEW e \in Episodes, NEW i \in 1..Len(queue[e])
          PROVE  Later(queue[e][i])
      BY <1>0, <1>1, KnownStays DEF Heard
    <3>2. QED
      BY <2>1, <3>1
  <2>4. handling # <<>> => Later(handling[1])
    BY <1>0, <1>1, KnownStays DEF Heard
  <2>5. \A i \in 1..Len(bus') : Later(bus'[i])
    <3>1. \A i \in 1..Len(bus) : Later(bus[i])
      BY <1>0, <1>1, KnownStays DEF Heard
    <3>2. CASE bus' = bus
      BY <3>1, <3>2
    <3>3. ASSUME NEW event \in Events, bus' = Append(bus, event), Later(event)
          PROVE  \A i \in 1..Len(bus') : Later(bus'[i])
      BY <1>0, <3>1, <3>3
    <3>4. QED
      BY <1>0, <1>1, <3>2, <3>3, InventoryAdvances
  <2>6. QED
    BY <2>1, <2>2, <2>3, <2>4, <2>5 DEF Heard, Known, Later
<1>2. CASE UNCHANGED <<inventoryVars, queue, own, status, handling>>
  BY <1>2 DEF Heard, Known, Closing, Active, inventoryVars
<1>3. CASE Dispatch
  <2>1. /\ bus # <<>> /\ bus' = Tail(bus) /\ handling'[1] = Head(bus)
        /\ UNCHANGED <<generation, link, queue, own, status>>
    BY <1>3 DEF Dispatch, episodeVars
  <2>2. generation' = generation /\ Active' = Active
    BY <2>1 DEF Active
  <2>3. Known(Head(bus)) /\ \A i \in 1..Len(bus') : Known(bus'[i])
    BY <1>0, <2>1 DEF Heard
  <2>4. QED
    BY <2>1, <2>2, <2>3 DEF Heard, Closing, Known
<1>4. CASE Collect
  <2>1. /\ handling # <<>> /\ handling' = <<>> /\ UNCHANGED <<inventoryVars, own, status>>
        /\ \A e \in Episodes : queue'[e] = queue[e] \/ queue'[e] = Append(queue[e], handling[1])
    BY <1>4 DEF Collect
  <2>2. Known(handling[1]) /\ handling[1] \in Events
    BY <1>0, <2>1 DEF Heard
  <2>3. \A e \in Episodes : \A i \in 1..Len(queue'[e]) : Known(queue'[e][i])
    <3>1. ASSUME NEW e \in Episodes, NEW i \in 1..Len(queue'[e])
          PROVE  Known(queue'[e][i])
      <4>1. queue[e] \in Seq(Events) /\ \A j \in 1..Len(queue[e]) : Known(queue[e][j])
        BY <1>0 DEF Heard
      <4>2. queue'[e] = queue[e] \/ queue'[e] = Append(queue[e], handling[1])
        BY <2>1
      <4>3. QED
        BY <2>2, <3>1, <4>1, <4>2
    <3>2. QED
      BY <3>1
  <2>4. QED
    BY <2>1, <2>3 DEF Heard, Known, Closing, Active, inventoryVars
<1>5. ASSUME NEW e \in Episodes, CheckResult(e) \/ ApplyResult(e), Forget(e)
      PROVE  Heard'
  <2>1. /\ UNCHANGED <<inventoryVars, handling>>
        /\ own' = [own EXCEPT ![e] = 0] /\ status' = [status EXCEPT ![e] = "none"]
        /\ queue' = [queue EXCEPT ![e] = <<>>]
    BY <1>5 DEF CheckResult, ApplyResult, Forget
  <2>2. \A d \in Episodes : Closing(d)'
    BY <1>0, <2>1 DEF Heard, Closing, Active, inventoryVars
  <2>3. \A d \in Episodes : \A i \in 1..Len(queue'[d]) : Known(queue'[d][i])
    BY <1>0, <2>1 DEF Heard
  <2>4. QED
    BY <2>1, <2>2, <2>3 DEF Heard, Known, Active, inventoryVars
<1>6. ASSUME NEW e \in Episodes, EpisodeStep(e), UNCHANGED <<inventoryVars, Untouched>>
      PROVE  Heard'
  <2>1. UNCHANGED inventoryVars /\ handling' = handling
    BY <1>6 DEF Untouched
  <2>2. Closing(e)' /\ \A i \in 1..Len(queue'[e]) : Known(queue'[e][i])
    BY <1>0, <1>6, <2>1, EpisodeCloses DEF Typed
  <2>3. \A d \in Episodes \ {e} : UNCHANGED <<own[d], queue[d], status[d]>>
    BY <1>0, <1>6, OthersUntouched
  <2>4. \A d \in Episodes : Closing(d)'
    BY <2>1, <2>2, <2>3 DEF Heard, Closing, Active, inventoryVars
  <2>5. \A d \in Episodes : \A i \in 1..Len(queue'[d]) : Known(queue'[d][i])
    BY <2>2, <2>3 DEF Heard
  <2>6. QED
    BY <2>1, <2>4, <2>5 DEF Heard, Known, Active, inventoryVars
<1>7. SupervisorAlone \/ UNCHANGED vars => UNCHANGED <<inventoryVars, queue, own, status, handling>>
  BY DEF SupervisorAlone, Start, Register, Unregister, Close, Join, CallerReads,
         CallerReadsSnapshot, CallerApplies, CallerReturns, PublishChange, PublicationRaises,
         LaunchRecovery, StartThread, Finish, episodeVars, vars
<1>8. ASSUME NEW e \in Episodes, BeginRecovery(e) \/ CheckResult(e) \/ ApplyResult(e)
      PROVE  Heard'
  <2>1. \/ UNCHANGED <<inventoryVars, queue, own, status, handling>>
        \/ (CheckResult(e) \/ ApplyResult(e)) /\ Forget(e)
    BY <1>8 DEF BeginRecovery, CheckResult, ApplyResult, episodeVars
  <2>2. QED
    BY <1>2, <1>5, <2>1
<1>9. QED
  BY <1>1, <1>2, <1>3, <1>4, <1>5, <1>6, <1>7, <1>8, StepCases

LEMMA HeardHolds == Spec => []Heard
<1>1. Init => Heard
  BY Constants DEF Init, InventoryInit, PreparationInit, Heard, Closing
<1>2. Typed /\ Heard /\ [Next]_vars => Heard'
  BY HeardKept
<1>3. QED
  BY <1>1, <1>2, TypedHolds, PTL DEF Spec

(* What a preparation answers is true of its own session and of no other,     *)
(* whatever is still on the bus when it subscribes and whichever session      *)
(* begins meanwhile (preparation.py 190-310).                                 *)
THEOREM EpisodesAreSound == Spec => []EpisodeSound
<1>1. Typed /\ Heard => EpisodeSound
  <2> SUFFICES ASSUME Typed, Heard PROVE EpisodeSound
    OBVIOUS
  <2>1. generation \in Nat /\ \A e \in Episodes : own[e] \in Nat
    BY TypesSplit, Constants DEF Typed, InventoryTypeOK, PreparationTypeOK
  <2>2. QED
    BY <2>1 DEF Typed, Heard, Closing, Conduct, EpisodeSound
<1>2. QED
  BY <1>1, TypedHolds, HeardHolds, PTL

------------------------------------------------------------------------------
(* What SettledProjection rests on.                                           *)
Standing == registered => started

(* Ends of older sessions, which the supervisor does not listen to, may have  *)
(* been published after the last report.                                      *)
OnlyEnds(events, i) == \A j \in i..Len(events) : events[j].kind \notin {"started", "snapshot"}
LastReport(events, i) ==
    /\ events[i] = [kind |-> "snapshot", session |-> generation, snapshot |-> inventory]
    /\ OnlyEnds(events, i + 1)

UpToDate ==
    registered /\ resolution # <<>> /\ ~late =>
        session = generation /\ resolution[1] = ResolveTransportBinding(Serial, inventory)

Current ==
    link = "streaming" /\ ~unseen =>
        \/ \E i \in 1..Len(bus) : LastReport(bus, i)
        \/ OnlyEnds(bus, 1) /\ UpToDate

(* The projection in force is published, or a is alone in publishing.         *)
Sole(a) ==
    /\ \A b \in Appliers \ {a} : pub[b] = <<>>
    /\ \/ pub[a] = <<>> /\ news = "told"
       \/ pub[a] = <<[session |-> session, current |-> resolution[1]]>>
Announced ==
    registered /\ resolution # <<>> /\ news # "lost" =>
        \E a \in Appliers : Sole(a)

LEMMA StandingKept ==
    ASSUME Standing, [Next]_vars
    PROVE  Standing'
<1> USE DEF Standing
<1>1. CASE Start \/ Register \/ Unregister \/ Close \/ Join
  BY <1>1 DEF Start, Register, Unregister, Close, Join, Discard, entry
<1>2. CASE CallerReads \/ CallerReadsSnapshot \/ CallerApplies \/ CallerReturns
  BY <1>2 DEF CallerReads, CallerReadsSnapshot, CallerApplies, CallerReturns, entry
<1>3. CASE Dispatch \/ Collect
  BY <1>3 DEF Dispatch, Collect, entry
<1>4. ASSUME NEW a \in Appliers, PublishChange(a) \/ PublicationRaises(a) \/ LaunchRecovery(a)
      PROVE  Standing'
  BY <1>4 DEF PublishChange, PublicationRaises, LaunchRecovery, entry
<1>5. ASSUME NEW e \in Episodes,
             StartThread(e) \/ CheckResult(e) \/ ApplyResult(e) \/ BeginRecovery(e) \/ Finish(e)
      PROVE  Standing'
  BY <1>5 DEF StartThread, CheckResult, ApplyResult, BeginRecovery, Finish, entry
<1>6. CASE UNCHANGED vars \/ UNCHANGED Untouched
  BY <1>6 DEF vars, Untouched, entry
<1>7. QED
  BY <1>1, <1>2, <1>3, <1>4, <1>5, <1>6, StepCases DEF SupervisorAlone

(* What an applied snapshot does to the projection.                           *)
LEMMA Projected ==
    ASSUME NEW a \in Appliers, NEW g, NEW s, Apply(a, g, s), AppliedTypes, registered, ~closed
    PROVE  /\ session' = g /\ resolution' = <<ResolveTransportBinding(Serial, s)>>
           /\ a # Dispatcher /\ ~late' => s = inventory /\ g = Active
           /\ \A b \in Appliers \ {a} : pub'[b] = pub[b]
           /\ \/ /\ pub'[a] = <<[session |-> g,
                                current |-> ResolveTransportBinding(Serial, s)]>>
                 /\ news' # "lost" => \A b \in Appliers \ {a} : pub[b] = <<>>
              \/ /\ session = g /\ resolution = <<ResolveTransportBinding(Serial, s)>>
                 /\ pub'[a] = <<>> /\ news' = news
<1> DEFINE r == ResolveTransportBinding(Serial, s)
           changed == session # g \/ resolution # <<r>>
<1>1. /\ session' = g /\ resolution' = <<r>>
      /\ late' = (a # Dispatcher /\ (s # inventory \/ g # Active))
      /\ pub' = [pub EXCEPT ![a] =
                   IF changed THEN <<[session |-> g, current |-> r]>> ELSE <<>>]
      /\ news' = IF ~changed THEN news
                 ELSE IF \E b \in Appliers \ {a} : pub[b] # <<>> THEN "lost" ELSE "due"
  BY DEF Apply
<1>2. \A b \in Appliers \ {a} : pub'[b] = pub[b]
  BY <1>1 DEF AppliedTypes
<1>3. CASE changed
  BY <1>1, <1>2, <1>3 DEF AppliedTypes
<1>4. CASE ~changed
  BY <1>1, <1>2, <1>4 DEF AppliedTypes
<1>5. QED
  BY <1>3, <1>4

LEMMA EmptyHasNoLength == Len(<<>>) = 0
OBVIOUS

LEMMA ApplyCurrent ==
    ASSUME Typed, Current, Settings, NEW a \in Appliers \ {Dispatcher}, NEW g, NEW s,
           Apply(a, g, s), UNCHANGED <<inventoryVars, registered, closed>>
    PROVE  Current'
<1>0. AppliedTypes
  BY TypesSplit DEF Typed
<1>1. link = "streaming" => UpToDate'
  <2>1. CASE registered
    <3>1. /\ session' = g /\ resolution' = <<ResolveTransportBinding(Serial, s)>>
          /\ (~late' => s = inventory /\ g = Active)
      <4>1. ~closed
        BY <2>1 DEF Settings
      <4>2. QED
        BY <1>0, <2>1, <4>1, Projected
    <3>2. link = "streaming" => Active = generation
      BY DEF Active
    <3>3. QED
      BY <3>1, <3>2 DEF UpToDate, inventoryVars
  <2>2. CASE ~registered
    BY <2>2 DEF UpToDate
  <2>3. QED
    BY <2>1, <2>2
<1>2. QED
  BY <1>1 DEF Current, LastReport, OnlyEnds, inventoryVars

LEMMA CurrentKept ==
    ASSUME Typed, Settings, Standing, Current, [Next]_vars
    PROVE  Current'
<1>0. InventoryTypeOK /\ bus \in Seq(Events)
  BY TypesSplit DEF Typed, InventoryTypeOK
<1>1. CASE UNCHANGED <<inventoryVars, registered, resolution, session, late>>
  BY <1>1 DEF Current, LastReport, OnlyEnds, UpToDate, inventoryVars
<1>2. CASE Register \/ Unregister \/ Close
  <2>1. UNCHANGED inventoryVars /\ (registered' => resolution' = <<>>)
    BY <1>2 DEF Register, Unregister, Close, Discard, Settings
  <2>2. QED
    BY <2>1 DEF Current, LastReport, OnlyEnds, UpToDate, inventoryVars
<1>3. CASE CallerApplies
  BY <1>3, ApplyCurrent, Constants DEF CallerApplies
<1>4. ASSUME NEW e \in Episodes, ApplyResult(e)
      PROVE  Current'
  BY <1>4, ApplyCurrent, Constants DEF ApplyResult
<1>5. CASE Dispatch
  <2>1. /\ bus # <<>> /\ bus' = Tail(bus)
        /\ UNCHANGED <<generation, link, inventory, unseen, registered, closed>>
    BY <1>5 DEF Dispatch
  <2>2. SUFFICES ASSUME link = "streaming", ~unseen
        PROVE  (\E i \in 1..Len(bus') : LastReport(bus, i)') \/ (OnlyEnds(bus', 1) /\ UpToDate')
    BY <2>1 DEF Current, OnlyEnds
  <2>3. /\ Len(bus) \in Nat \ {0} /\ Len(bus') = Len(bus) - 1 /\ Head(bus) = bus[1]
        /\ \A j \in 1..Len(bus') : bus'[j] = bus[j + 1]
    BY <1>0, <2>1
  <2>4. \A i \in 1..Len(bus) : OnlyEnds(bus, i + 1) => OnlyEnds(bus', i)
    BY <2>3 DEF OnlyEnds
  <2>5. ASSUME NEW i \in 2..Len(bus), LastReport(bus, i)
        PROVE  i - 1 \in 1..Len(bus') /\ LastReport(bus, i - 1)'
    <3>1. i - 1 \in 1..Len(bus') /\ bus'[i - 1] = bus[i] /\ (i - 1) + 1 = i
      BY <2>3
    <3>2. OnlyEnds(bus', i)
      BY <2>3, <2>4, <2>5 DEF LastReport
    <3>3. QED
      BY <2>1, <2>5, <3>1, <3>2 DEF LastReport, OnlyEnds
  <2>6. CASE LastReport(bus, 1)
    <3>1. /\ Head(bus).kind = "snapshot" /\ Head(bus).session = generation
          /\ Head(bus).snapshot = inventory
      BY <2>3, <2>6 DEF LastReport
    <3>2. OnlyEnds(bus', 1)
      BY <2>3, <2>4, <2>6 DEF LastReport
    <3>3. CASE registered
      <4>1. Apply(Dispatcher, generation, inventory)
        BY <1>5, <3>1, <3>3 DEF Dispatch, Standing
      <4>2. /\ session' = generation
            /\ resolution' = <<ResolveTransportBinding(Serial, inventory)>>
        BY <3>3, <4>1, Projected, TypesSplit, Constants DEF Settings, Typed
      <4>3. QED
        BY <2>1, <3>2, <4>2 DEF UpToDate
    <3>4. CASE ~registered
      BY <2>1, <3>2, <3>4 DEF UpToDate
    <3>5. QED
      BY <3>3, <3>4
  <2>7. CASE OnlyEnds(bus, 1) /\ UpToDate
    <3>1. Head(bus).kind \notin {"started", "snapshot"}
      BY <2>3, <2>7 DEF OnlyEnds
    <3>2. UNCHANGED <<registered, resolution, session, late>>
      BY <1>5, <2>1, <3>1 DEF Dispatch
    <3>3. OnlyEnds(bus', 1)
      BY <2>3, <2>7 DEF OnlyEnds
    <3>4. QED
      BY <2>1, <2>7, <3>2, <3>3 DEF UpToDate
  <2>8. QED
    <3>1. \/ \E i \in 1..Len(bus) : LastReport(bus, i)
          \/ OnlyEnds(bus, 1) /\ UpToDate
      BY <2>2 DEF Current
    <3>2. \A i \in 1..Len(bus) : i = 1 \/ i \in 2..Len(bus)
      BY <2>3
    <3>3. QED
      BY <2>5, <2>6, <2>7, <3>1, <3>2
<1>6. CASE InventoryStep /\ UNCHANGED <<episodeVars, Untouched>>
  <2>1. UNCHANGED <<registered, resolution, session, late>>
    BY <1>6 DEF Untouched, entry, history
  <2>2. CASE Report
    <3>1. bus' = Append(bus, [kind |-> "snapshot", session |-> generation, snapshot |-> inventory])
          /\ UNCHANGED <<generation, inventory>>
      BY <2>2 DEF Report, Publish
    <3>2. Len(bus') \in 1..Len(bus') /\ LastReport(bus, Len(bus))'
      BY <1>0, <3>1 DEF LastReport, OnlyEnds
    <3>3. QED
      BY <3>2 DEF Current
  <2>3. CASE AnnounceEnd
    <3>1. PICK g \in ending, kind \in Terminals : bus' = Append(bus, [kind |-> kind, session |-> g])
      BY <2>3 DEF AnnounceEnd, Publish
    <3>2. UNCHANGED <<generation, link, inventory, unseen>>
      BY <2>3 DEF AnnounceEnd
    <3>3. kind \notin {"started", "snapshot"}
      BY Constants
    <3>4. /\ Len(bus) \in Nat /\ Len(bus') = Len(bus) + 1
          /\ \A j \in 1..Len(bus) : bus'[j] = bus[j]
          /\ bus'[Len(bus')].kind = kind
      BY <1>0, <3>1
    <3>5. \A i \in 1..(Len(bus) + 1) : OnlyEnds(bus, i) => OnlyEnds(bus', i)
      BY <3>3, <3>4 DEF OnlyEnds
    <3>6. ASSUME NEW i \in 1..Len(bus), LastReport(bus, i)
          PROVE  i \in 1..Len(bus') /\ LastReport(bus, i)'
      <4>1. i + 1 \in 1..(Len(bus) + 1) /\ i \in 1..Len(bus')
        BY <3>4
      <4>2. QED
        BY <3>2, <3>4, <3>5, <3>6, <4>1 DEF LastReport, OnlyEnds
    <3>7. OnlyEnds(bus, 1) /\ UpToDate => OnlyEnds(bus', 1) /\ UpToDate'
      BY <2>1, <3>2, <3>4, <3>5 DEF UpToDate
    <3>8. QED
      BY <3>2, <3>6, <3>7 DEF Current, OnlyEnds
  <2>4. CASE OpenSession \/ Establish \/ BreakOff
    BY <2>4 DEF OpenSession, Establish, BreakOff, Current
  <2>5. CASE Change
    BY <2>5 DEF Change, Current
  <2>6. QED
    BY <1>6, <2>2, <2>3, <2>4, <2>5 DEF InventoryStep
<1>7. Start \/ Join \/ CallerReads \/ CallerReadsSnapshot \/ CallerReturns \/ Collect
        => UNCHANGED <<inventoryVars, registered, resolution, session, late>>
  BY DEF Start, Join, CallerReads, CallerReadsSnapshot, CallerReturns, Collect, entry, history
<1>8. ASSUME NEW a \in Appliers, PublishChange(a) \/ PublicationRaises(a) \/ LaunchRecovery(a)
      PROVE  UNCHANGED <<inventoryVars, registered, resolution, session, late>>
  BY <1>8 DEF PublishChange, PublicationRaises, LaunchRecovery, entry
<1>9. ASSUME NEW e \in Episodes, StartThread(e) \/ CheckResult(e) \/ BeginRecovery(e) \/ Finish(e)
      PROVE  UNCHANGED <<inventoryVars, registered, resolution, session, late>>
  BY <1>9 DEF StartThread, CheckResult, BeginRecovery, Finish, entry, history
<1>10. UNCHANGED vars \/ UNCHANGED <<inventoryVars, Untouched>>
         => UNCHANGED <<inventoryVars, registered, resolution, session, late>>
  BY DEF vars, Untouched, entry, history
<1>11. QED
  BY <1>1, <1>2, <1>3, <1>4, <1>5, <1>6, <1>7, <1>8, <1>9, <1>10, StepCases DEF SupervisorAlone

LEMMA ApplyAnnounced ==
    ASSUME Typed, Announced, Settings, NEW a \in Appliers, pub[a] = <<>>, NEW g, NEW s,
           Apply(a, g, s), UNCHANGED <<registered, closed>>
    PROVE  Announced'
<1>0. AppliedTypes
  BY TypesSplit DEF Typed
<1> DEFINE r == ResolveTransportBinding(Serial, s)
<1>1. CASE registered
  <2>1. /\ session' = g /\ resolution' = <<r>>
        /\ \A b \in Appliers \ {a} : pub'[b] = pub[b]
        /\ \/ /\ pub'[a] = <<[session |-> g, current |-> r]>>
              /\ (news' # "lost" => \A b \in Appliers \ {a} : pub[b] = <<>>)
           \/ /\ session = g /\ resolution = <<r>> /\ pub'[a] = <<>>
              /\ news' = news
    <3>1. ~closed
      BY <1>1 DEF Settings
    <3>2. QED
      BY <1>0, <1>1, <3>1, Projected
  <2> HIDE DEF r
  <2>2. CASE /\ pub'[a] = <<[session |-> g, current |-> r]>>
             /\ (news' # "lost" => \A b \in Appliers \ {a} : pub[b] = <<>>)
    <3>1. news' # "lost" => Sole(a)'
      BY <2>1, <2>2 DEF Sole
    <3>2. QED
      BY <3>1 DEF Announced
  <2>3. CASE /\ session = g /\ resolution = <<r>> /\ pub'[a] = <<>>
             /\ news' = news
    <3>1. SUFFICES ASSUME news' # "lost"
          PROVE  \E b \in Appliers : Sole(b)'
      BY DEF Announced
    <3>2. PICK b \in Appliers : Sole(b)
      BY <1>1, <2>3, <3>1 DEF Announced
    <3>3. \A d \in Appliers : pub'[d] = pub[d]
      BY <2>1, <2>3
    <3>4. Sole(b)'
      BY <2>1, <2>3, <3>2, <3>3 DEF Sole
    <3>5. QED
      BY <3>4
  <2>4. QED
    BY <2>1, <2>2, <2>3
<1>2. CASE ~registered
  BY <1>2 DEF Announced
<1>3. QED
  BY <1>1, <1>2

LEMMA AnnouncedKept ==
    ASSUME Typed, Quiet, Settings, Announced, [Next]_vars
    PROVE  Announced'
<1>1. CASE UNCHANGED <<registered, resolution, session, news, pub>>
  BY <1>1 DEF Announced, Sole
<1>2. CASE Register \/ Unregister \/ Close
  <2>1. registered' => resolution' = <<>>
    BY <1>2 DEF Register, Unregister, Close, Discard, Settings
  <2>2. QED
    BY <2>1 DEF Announced
<1>3. CASE CallerApplies
  <2>1. pub[Registrar] = <<>> /\ Apply(Registrar, caller.session, caller.snapshot)
        /\ UNCHANGED <<registered, closed>>
    BY <1>3 DEF CallerApplies, Quiet
  <2>2. QED
    BY <2>1, ApplyAnnounced, Constants
<1>4. ASSUME NEW e \in Episodes, ApplyResult(e)
      PROVE  Announced'
  <2>1. pub[e] = <<>> /\ Apply(e, own[e], final[e][1]) /\ UNCHANGED <<registered, closed>>
    BY <1>4 DEF ApplyResult, Quiet
  <2>2. QED
    BY <2>1, ApplyAnnounced, Constants
<1>5. CASE Dispatch
  <2>1. pub[Dispatcher] = <<>> /\ UNCHANGED <<registered, closed>>
    BY <1>5 DEF Dispatch, Quiet
  <2>2. CASE Apply(Dispatcher, Head(bus).session, Head(bus).snapshot)
    BY <2>1, <2>2, ApplyAnnounced, Constants
  <2>3. CASE resolution' = <<>>
    BY <2>3 DEF Announced
  <2>4. CASE UNCHANGED <<resolution, session, pub, news>>
    BY <2>1, <2>4 DEF Announced, Sole
  <2>5. \/ Apply(Dispatcher, Head(bus).session, Head(bus).snapshot)
        \/ resolution' = <<>>
        \/ UNCHANGED <<resolution, session, pub, news>>
    BY <1>5 DEF Dispatch, OnObservationStarted, history
  <2>6. QED
    BY <2>2, <2>3, <2>4, <2>5
<1>6. ASSUME NEW a \in Appliers, PublishChange(a) \/ PublicationRaises(a)
      PROVE  Announced'
  <2>1. /\ pub' = [pub EXCEPT ![a] = <<>>]
        /\ \/ /\ pub[a] # <<>>
              /\ news' = IF news = "lost" THEN "lost"
                         ELSE IF InForce(pub[a][1]) THEN "told" ELSE "due"
           \/ news' = IF pub[a] # <<>> /\ InForce(pub[a][1]) THEN "lost" ELSE news
        /\ UNCHANGED <<registered, resolution, session>>
    <3>1. CASE PublishChange(a)
      BY <3>1 DEF PublishChange, Telling, entry
    <3>2. CASE PublicationRaises(a)
      BY <3>2 DEF PublicationRaises, Telling, entry
    <3>3. QED
      BY <1>6, <3>1, <3>2
  <2>2. SUFFICES ASSUME registered, resolution # <<>>, news' # "lost"
        PROVE  \E b \in Appliers : Sole(b)'
    BY <2>1 DEF Announced
  <2>9. news # "lost"
    BY <2>1, <2>2
  <2>3. PICK b \in Appliers : Sole(b)
    BY <2>2, <2>9 DEF Announced
  <2>4. resolution = <<resolution[1]>>
    BY <2>2, TypesSplit DEF Typed, AppliedTypes, Answers
  <2>5. pub \in [Appliers -> Publications]
    BY TypesSplit DEF Typed, AppliedTypes
  <2>6. CASE pub[a] = <<>>
    <3>1. news' = news /\ pub' = pub
      BY <2>1, <2>5, <2>6
    <3>2. QED
      BY <2>1, <2>3, <3>1 DEF Sole
  <2>7. CASE pub[a] # <<>>
    <3>1. b = a /\ pub[a] = <<[session |-> session, current |-> resolution[1]]>>
      BY <2>3, <2>7 DEF Sole
    <3>2. InForce(pub[a][1])
      BY <2>2, <2>4, <3>1 DEF InForce
    <3>3. news' = "told"
      BY <2>1, <2>2, <2>7, <2>9, <3>2
    <3>4. \A c \in Appliers : pub'[c] = <<>>
      BY <2>1, <2>3, <2>5, <3>1 DEF Sole
    <3>5. QED
      BY <3>3, <3>4 DEF Sole
  <2>8. QED
    BY <2>6, <2>7
<1>7. Start \/ Join \/ CallerReads \/ CallerReadsSnapshot \/ CallerReturns \/ Collect
        => UNCHANGED <<registered, resolution, session, news, pub>>
  BY DEF Start, Join, CallerReads, CallerReadsSnapshot, CallerReturns, Collect, entry, history
<1>8. ASSUME NEW a \in Appliers, LaunchRecovery(a)
      PROVE  UNCHANGED <<registered, resolution, session, news, pub>>
  BY <1>8 DEF LaunchRecovery
<1>9. ASSUME NEW e \in Episodes, StartThread(e) \/ CheckResult(e) \/ BeginRecovery(e) \/ Finish(e)
      PROVE  UNCHANGED <<registered, resolution, session, news, pub>>
  BY <1>9 DEF StartThread, CheckResult, BeginRecovery, Finish, entry, history
<1>10. UNCHANGED vars \/ UNCHANGED Untouched
         => UNCHANGED <<registered, resolution, session, news, pub>>
  BY DEF vars, Untouched, entry, history
<1>11. QED
  BY <1>1, <1>2, <1>3, <1>4, <1>5, <1>6, <1>7, <1>8, <1>9, <1>10, StepCases DEF SupervisorAlone

LEMMA ProjectionHolds == Spec => [](Standing /\ Current /\ Announced)
<1>1. Init => Standing /\ Current /\ Announced
  BY DEF Init, InventoryInit, Standing, Current, Announced
<1>2. Typed /\ Quiet /\ Cared /\ Standing /\ Current /\ Announced /\ [Next]_vars
        => (Standing /\ Current /\ Announced)'
  BY StandingKept, CurrentKept, AnnouncedKept DEF Cared
<1>3. QED
  BY <1>1, <1>2, TypedHolds, CaredHolds, PTL DEF Spec

(* When every event is dispatched and every change is published, resolution() *)
(* and the last change agree with the session's last report, unless a         *)
(* snapshot was stale when applied, two threads published at once, or the     *)
(* change was given up to an exception                                        *)
(* (transport_binding.py 190-200, 240-267, 322-330).                          *)
THEOREM ProjectionSettles == Spec => []SettledProjection
<1>1. Typed /\ Standing /\ Current /\ Announced => SettledProjection
  <2> SUFFICES ASSUME Typed, Current, Announced PROVE SettledProjection
    OBVIOUS
  <2>1. bus = <<>> => ~\E i \in 1..Len(bus) : LastReport(bus, i)
    BY EmptyHasNoLength
  <2>2. QED
    BY <2>1 DEF Current, UpToDate, Announced, Sole, Settled, SettledProjection
<1>2. QED
  BY <1>1, TypedHolds, ProjectionHolds, PTL
==============================================================================
