--------------------------- MODULE BindingSupervisor ---------------------------
(* AdbTransportBindingSupervisor (adb/supervision/transport_binding.py) for   *)
(* one serial, over Preparation and Inventory. Episode e is also the recovery *)
(* thread that conducts it; both names are used again. Three kinds of thread  *)
(* apply snapshots: the dispatcher of the bus, the caller of register(), and  *)
(* recovery threads. Each decides under _lock what to publish and whether to  *)
(* recover, and does both after the lock is released (pub, launch). Actions   *)
(* are critical sections of _lock and the steps between them.                 *)
EXTENDS Preparation, Integers

CONSTANT MaxRegistrations  \* bound: calls of register()

ASSUME BindingAssumption == MaxRegistrations \in Nat

Dispatcher == 0
Registrar == MaxEpisodes + 1
Appliers == 0..Registrar

VARIABLES
    started,     \* _subscriptions is not empty
    closed,      \* _closed
    registered,  \* the serial is in _registrations; the next five are its entry
    recovers,    \* policy.preparation_policy is not None
    resolution,  \* <<>> or <<resolution>>
    session,     \* generation of session_id, 0 for None
    attempted,   \* recovery_attempted_for_absence
    thread,      \* recovery_thread, 0 for None
    stage,       \* stage[e]: where recovery thread e is
    caller,      \* where register() is, what it has read
    handling,    \* <<>> or <<event, hearers>>: what the dispatcher is at
    pub,         \* pub[a]: <<>> or <<the change a has to publish>>
    launch,      \* launch[a]: a is about to launch a recovery
    closer,      \* close(): "joining" after its critical section
    joinee,      \* the thread it has to join, 0 for none
    registrations,
    \* history
    credit,      \* absences observed of a binding to be recovered, less those that ended
                 \* before a recovery was decided and the recoveries launched or given up
    answered,    \* attempted is not set, or a preparation began since it was
    late,        \* the last snapshot applied was out of date by then
    news,        \* of the last change: "due"; "told", the last one published is the projection
                 \* in force; "lost", decided while another was not published, or given up
    forgone      \* a raising publication took the launch of the absence under way with it

entry == <<registered, recovers, resolution, session, attempted, thread>>
history == <<credit, answered, late, news, forgone>>
vars == <<inventoryVars, episodeVars, started, closed, entry, stage, caller, handling, pub,
          launch, closer, joinee, registrations, history>>

(* "preparing": in prepare(). "applying", "publishing": its final snapshot.   *)
(* "finishing": the finally block. "launching": having relaunched in it.      *)
RecoveryStages == {"unused", "registered", "starting", "preparing", "applying", "publishing",
                   "finishing", "launching"}
Idle == [at |-> "idle"]
CallerStates == {Idle} \cup [at : {"entered", "publishing"}]
                \cup [at : {"reading"}, session : Sessions]
                \cup [at : {"rechecking", "applying"}, session : Sessions, snapshot : Snapshots]
Changes == [session : Sessions, current : {ResolveTransportBinding(Serial, s) : s \in Snapshots}]
Absent(r) == r # <<>> /\ r[1].status = "absent"
Untried == registered /\ recovers /\ Absent(resolution) /\ ~attempted

Init ==
    /\ InventoryInit /\ PreparationInit
    /\ started = FALSE /\ closed = FALSE
    /\ registered = FALSE /\ recovers = FALSE /\ resolution = <<>> /\ session = 0
    /\ attempted = FALSE /\ thread = 0
    /\ stage = [e \in Episodes |-> "unused"]
    /\ caller = Idle /\ handling = <<>>
    /\ pub = [a \in Appliers |-> <<>>]
    /\ launch = [a \in Appliers |-> FALSE]
    /\ closer = "idle" /\ joinee = 0 /\ registrations = 0
    /\ credit = 0 /\ answered = TRUE
    /\ late = FALSE /\ news = "due" /\ forgone = FALSE
------------------------------------------------------------------------------
(* Faulty variant: an absence is tried again with every snapshot.             *)
ShouldRecoverAgain(current, attemptedNow) ==
    current.status = "absent" /\ recovers /\ thread = 0

ShouldRecover(current, attemptedNow) ==
    current.status = "absent" /\ recovers /\ ~attemptedNow /\ thread = 0

(* An absence that ends is no longer owed a recovery.                         *)
Settle == IF Untried THEN credit - 1 ELSE credit

(* _apply_snapshot, under the lock: applier a applies a snapshot of session g.*)
Apply(a, g, snapshot) ==
    IF closed \/ ~registered
    THEN UNCHANGED <<resolution, session, attempted, pub, launch, credit, answered, late, news,
                     forgone>>
    ELSE LET current == ResolveTransportBinding(Serial, snapshot)
             changed == session # g \/ resolution # <<current>>
             attemptedNow == attempted /\ current.status = "absent"
             recover == ShouldRecover(current, attemptedNow)
             absence == recovers /\ current.status = "absent" /\ ~Absent(resolution)
         IN  /\ session' = g
             /\ resolution' = <<current>>
             /\ attempted' = (attemptedNow \/ recover)
             /\ pub' = [pub EXCEPT ![a] =
                          IF changed THEN <<[session |-> g, current |-> current]>> ELSE <<>>]
             /\ launch' = [launch EXCEPT ![a] = recover]
             /\ credit' = IF absence THEN credit + 1
                          ELSE IF current.status = "absent" THEN credit ELSE Settle
             /\ answered' = (~recover /\ (answered \/ ~attemptedNow))
             /\ late' = (a # Dispatcher /\ (snapshot # inventory \/ g # Active))
             /\ news' = IF ~changed THEN news
                        ELSE IF \E b \in Appliers \ {a} : pub[b] # <<>> THEN "lost" ELSE "due"
             /\ forgone' = (forgone /\ attemptedNow)

Start ==
    /\ ~closed /\ ~started
    /\ started' = TRUE
    /\ UNCHANGED <<inventoryVars, episodeVars, closed, entry, stage, caller, handling, pub,
                   launch, closer, joinee, registrations, history>>

(* The entry is taken out of _registrations, and the history starts anew.     *)
Discard ==
    /\ registered' = FALSE /\ recovers' = FALSE /\ resolution' = <<>> /\ session' = 0
    /\ attempted' = FALSE /\ thread' = 0
    /\ answered' = TRUE /\ late' = FALSE
    /\ news' = "due" /\ forgone' = FALSE /\ credit' = Settle

Register ==
    /\ started /\ ~closed /\ ~registered
    /\ caller = Idle /\ registrations < MaxRegistrations
    /\ registrations' = registrations + 1
    /\ registered' = TRUE
    /\ recovers' \in BOOLEAN
    /\ caller' = [at |-> "entered"]
    /\ UNCHANGED <<inventoryVars, episodeVars, started, closed, resolution, session, attempted,
                   thread, stage, handling, pub, launch, closer, joinee, history>>

Unregister ==
    /\ registered
    /\ Discard
    /\ UNCHANGED <<inventoryVars, episodeVars, started, closed, stage, caller, handling, pub,
                   launch, closer, joinee, registrations>>

(* _project_fresh_snapshot: the session, the snapshot, the session again.     *)
CallerReads ==
    /\ \/ /\ caller.at = "entered"
          /\ caller' = IF Active = 0 THEN Idle ELSE [at |-> "reading", session |-> Active]
       \/ /\ caller.at = "rechecking"
          /\ caller' = IF Active # caller.session THEN Idle
                       ELSE [at |-> "applying", session |-> caller.session,
                             snapshot |-> caller.snapshot]
    /\ UNCHANGED <<inventoryVars, episodeVars, started, closed, entry, stage, handling, pub,
                   launch, closer, joinee, registrations, history>>

CallerReadsSnapshot ==
    /\ caller.at = "reading"
    /\ \/ caller' = [at |-> "rechecking", session |-> caller.session, snapshot |-> inventory]
       \/ caller' = Idle
    /\ UNCHANGED <<inventoryVars, episodeVars, started, closed, entry, stage, handling, pub,
                   launch, closer, joinee, registrations, history>>

CallerApplies ==
    /\ caller.at = "applying"
    /\ Apply(Registrar, caller.session, caller.snapshot)
    /\ caller' = [at |-> "publishing"]
    /\ UNCHANGED <<inventoryVars, episodeVars, started, closed, registered, recovers, thread,
                   stage, handling, closer, joinee, registrations>>

CallerReturns ==
    /\ caller.at = "publishing"
    /\ pub[Registrar] = <<>> /\ ~launch[Registrar]
    /\ caller' = Idle
    /\ UNCHANGED <<inventoryVars, episodeVars, started, closed, entry, stage, handling, pub,
                   launch, closer, joinee, registrations, history>>
------------------------------------------------------------------------------
(* Faulty variant: a new session leaves the projection of the old one.        *)
KeepBaseline(g) ==
    IF started /\ ~closed /\ registered
    THEN session' = g /\ news' = "due"
         /\ UNCHANGED <<resolution, attempted, credit, answered, late, forgone>>
    ELSE UNCHANGED <<resolution, session, attempted, history>>

(* _on_observation_started: a new baseline.                                   *)
OnObservationStarted(g) ==
    IF started /\ ~closed /\ registered
    THEN resolution' = <<>> /\ session' = g /\ attempted' = FALSE /\ answered' = TRUE
         /\ late' = FALSE /\ news' = "due" /\ forgone' = FALSE /\ credit' = Settle
    ELSE UNCHANGED <<resolution, session, attempted, history>>

(* The supervisor's handler comes first, it subscribed first.                 *)
Dispatch ==
    /\ handling = <<>> /\ bus # <<>>
    /\ bus' = Tail(bus)
    /\ LET event == Head(bus) IN
       /\ handling' = <<event, {e \in Episodes : Hears(e)}>>
       /\ IF event.kind = "started"
          THEN /\ OnObservationStarted(event.session)
               /\ UNCHANGED <<pub, launch>>
          ELSE IF event.kind = "snapshot" /\ started
          THEN Apply(Dispatcher, event.session, event.snapshot)
          ELSE UNCHANGED <<resolution, session, attempted, pub, launch, credit, answered, late,
                           news, forgone>>
    /\ UNCHANGED <<generation, link, ending, inventory, unseen, changes, episodeVars, started, closed,
                   registered, recovers, thread, stage, caller, closer, joinee, registrations>>

(* Then the episodes that were subscribed when the dispatch began.            *)
Collect ==
    /\ handling # <<>> /\ pub[Dispatcher] = <<>> /\ ~launch[Dispatcher]
    /\ queue' = [e \in Episodes |-> IF e \in handling[2] /\ Hears(e)
                                    THEN Append(queue[e], handling[1]) ELSE queue[e]]
    /\ handling' = <<>>
    /\ UNCHANGED <<inventoryVars, phase, own, presence, attempts, final, origin, status, started,
                   closed, entry, stage, caller, pub, launch, closer, joinee, registrations,
                   history>>

InForce(change) ==
    registered /\ resolution = <<change.current>> /\ session = change.session

(* A change that was lost may be told in the wrong order, or not at all.      *)
Telling(change) ==
    IF news = "lost" THEN "lost" ELSE IF InForce(change) THEN "told" ELSE "due"

PublishChange(a) ==
    /\ pub[a] # <<>>
    /\ news' = Telling(pub[a][1])
    /\ pub' = [pub EXCEPT ![a] = <<>>]
    /\ UNCHANGED <<inventoryVars, episodeVars, started, closed, entry, stage, caller, handling,
                   launch, closer, joinee, registrations, credit, answered, late, forgone>>

(* A publication raises what handlers raised, and _apply_snapshot gives up    *)
(* the publications after it and all its launches. That publication is the    *)
(* change of this serial, heard all the same, or that of another serial of    *)
(* the snapshot, before or after it. The dispatcher's own publications raise  *)
(* only if the flag of the bus was cleared under it (EventBus).               *)
PublicationRaises(a) ==
    /\ \/ pub[a] # <<>>
       \/ launch[a] /\ (a \in Episodes => stage[a] # "launching")
    /\ pub' = [pub EXCEPT ![a] = <<>>]
    /\ launch' = [launch EXCEPT ![a] = FALSE]
    /\ \/ pub[a] # <<>> /\ news' = Telling(pub[a][1])
       \/ news' = IF pub[a] # <<>> /\ InForce(pub[a][1]) THEN "lost" ELSE news
    /\ forgone' = (forgone \/ (launch[a] /\ attempted))
    /\ credit' = IF launch[a] THEN credit - 1 ELSE credit
    /\ UNCHANGED <<inventoryVars, episodeVars, started, closed, entry, stage, caller, handling,
                   closer, joinee, registrations, answered, late>>

(* _launch_recovery: by then the binding may be gone, or have a thread. Bound:*)
(* some episode is free. A recovery thread that has relaunched is over.       *)
LaunchRecovery(a) ==
    /\ launch[a] /\ pub[a] = <<>>
    /\ launch' = [launch EXCEPT ![a] = FALSE]
    /\ credit' = credit - 1
    /\ LET over == [e \in Episodes |->
                      IF e = a /\ stage[e] = "launching" THEN "unused" ELSE stage[e]]
           free == {e \in Episodes : stage[e] = "unused"}
       IN  IF registered /\ ~closed /\ thread = 0
           THEN /\ thread' \in free /\ \A e \in free : thread' <= e
                /\ stage' = [over EXCEPT ![thread'] = "registered"]
           ELSE stage' = over /\ UNCHANGED thread
    /\ UNCHANGED <<inventoryVars, episodeVars, started, closed, registered, recovers, resolution,
                   session, attempted, caller, handling, pub, closer, joinee, registrations,
                   answered, late, news, forgone>>
------------------------------------------------------------------------------
Goto(e, s) == stage' = [stage EXCEPT ![e] = s]

StartThread(e) ==
    /\ stage[e] = "registered"
    /\ Goto(e, "starting")
    /\ UNCHANGED <<inventoryVars, episodeVars, started, closed, entry, caller, handling, pub,
                   launch, closer, joinee, registrations, history>>

(* _run_recovery up to prepare().                                             *)
BeginRecovery(e) ==
    /\ stage[e] = "starting"
    /\ IF registered /\ ~closed /\ recovers
       THEN /\ Goto(e, "preparing")
            /\ phase' = [phase EXCEPT ![e] = "called"]
            /\ answered' = TRUE
       ELSE Goto(e, "finishing") /\ UNCHANGED <<phase, answered>>
    /\ UNCHANGED <<inventoryVars, own, queue, presence, attempts, final, origin, status, started,
                   closed, entry, caller, handling, pub, launch, closer, joinee, registrations,
                   credit, late, news, forgone>>

(* prepare() has raised, or returned: is its result current? An unsatisfied   *)
(* one is published, which changes nothing here. A result that is used up or  *)
(* passed over is forgotten.                                                  *)
CheckResult(e) ==
    /\ stage[e] = "preparing" /\ phase[e] \in {"done", "raised"}
    /\ IF registered /\ ~closed /\ session = own[e] /\ status[e] = "satisfied"
       THEN Goto(e, "applying") /\ UNCHANGED episodeVars
       ELSE Goto(e, "finishing") /\ Forget(e)
    /\ UNCHANGED <<inventoryVars, started, closed, entry, caller, handling, pub,
                   launch, closer, joinee, registrations, history>>

ApplyResult(e) ==
    /\ stage[e] = "applying"
    /\ Apply(e, own[e], final[e][1])
    /\ Goto(e, "publishing")
    /\ Forget(e)
    /\ UNCHANGED <<inventoryVars, started, closed, registered, recovers, thread,
                   caller, handling, closer, joinee, registrations>>

(* Faulty variant: the absence seen meanwhile is left to the next snapshot.   *)
FinishWithoutRelaunch(e) ==
    /\ \/ stage[e] = "finishing"
       \/ stage[e] = "publishing" /\ pub[e] = <<>> /\ ~launch[e]
    /\ thread' = IF registered /\ thread = e THEN 0 ELSE thread
    /\ Goto(e, "unused")
    /\ UNCHANGED <<inventoryVars, episodeVars, started, closed, registered, recovers,
                   resolution, session, attempted, launch, caller, handling, pub, closer, joinee,
                   registrations, history>>

(* The finally block: step down, and take over an absence seen meanwhile.     *)
Finish(e) ==
    /\ \/ stage[e] = "finishing"
       \/ stage[e] = "publishing" /\ pub[e] = <<>> /\ ~launch[e]
    /\ LET mine == registered /\ thread = e
           relaunch == mine /\ ~closed /\ Absent(resolution) /\ recovers /\ ~attempted
       IN  /\ thread' = IF mine THEN 0 ELSE thread
           /\ attempted' = (attempted \/ relaunch)
           /\ answered' = (answered /\ ~relaunch)
           /\ launch' = [launch EXCEPT ![e] = relaunch]
           /\ Goto(e, IF relaunch THEN "launching" ELSE "unused")
    /\ UNCHANGED <<inventoryVars, episodeVars, started, closed, registered, recovers,
                   resolution, session, caller, handling, pub, closer, joinee, registrations,
                   credit, late, news, forgone>>
------------------------------------------------------------------------------
Close ==
    /\ ~closed
    /\ closed' = TRUE /\ started' = FALSE
    /\ Discard
    /\ joinee' = thread
    /\ closer' = "joining"
    /\ UNCHANGED <<inventoryVars, episodeVars, stage, caller, handling, pub, launch,
                   registrations>>

(* Joining a thread that was not started raises.                              *)
Join ==
    /\ closer = "joining"
    /\ joinee' = 0
    /\ \/ joinee = 0 /\ closer' = "returned"
       \/ joinee # 0 /\ stage[joinee] = "unused" /\ closer' = "returned"
       \/ joinee # 0 /\ stage[joinee] = "registered" /\ closer' = "error"
    /\ UNCHANGED <<inventoryVars, episodeVars, started, closed, entry, stage, caller, handling,
                   pub, launch, registrations, history>>
------------------------------------------------------------------------------
Untouched == <<started, closed, entry, stage, caller, handling, pub, launch, closer, joinee,
               registrations, history>>

RecoveryStep(e) ==
    \/ StartThread(e) \/ BeginRecovery(e) \/ CheckResult(e)
    \/ ApplyResult(e) \/ Finish(e)
    \/ EpisodeStep(e) /\ UNCHANGED <<inventoryVars, Untouched>>

System ==
    \/ CallerReads \/ CallerReadsSnapshot \/ CallerApplies \/ CallerReturns
    \/ Dispatch \/ Collect \/ Join
    \/ \E a \in Appliers : PublishChange(a) \/ PublicationRaises(a) \/ LaunchRecovery(a)
    \/ \E e \in Episodes : RecoveryStep(e)
    \/ (Establish \/ Report \/ AnnounceEnd) /\ UNCHANGED <<episodeVars, Untouched>>

Environment ==
    \/ Start \/ Register \/ Unregister \/ Close
    \/ (OpenSession \/ BreakOff \/ Change) /\ UNCHANGED <<episodeVars, Untouched>>

Next == System \/ Environment

Fairness == WF_vars(System)

Spec == Init /\ [][Next]_vars /\ Fairness
------------------------------------------------------------------------------
TypeOK ==
    /\ InventoryTypeOK /\ PreparationTypeOK
    /\ started \in BOOLEAN /\ closed \in BOOLEAN
    /\ registered \in BOOLEAN /\ recovers \in BOOLEAN /\ attempted \in BOOLEAN
    /\ answered \in BOOLEAN /\ late \in BOOLEAN /\ forgone \in BOOLEAN
    /\ news \in {"due", "told", "lost"}
    /\ resolution \in {<<>>} \cup {<<ResolveTransportBinding(Serial, s)>> : s \in Snapshots}
    /\ session \in 0..MaxSessions
    /\ thread \in 0..MaxEpisodes /\ joinee \in 0..MaxEpisodes
    /\ stage \in [Episodes -> RecoveryStages]
    /\ caller \in CallerStates
    /\ handling = <<>> \/ handling \in Events \X SUBSET Episodes
    /\ pub \in [Appliers -> {<<>>} \cup {<<c>> : c \in Changes}]
    /\ launch \in [Appliers -> BOOLEAN]
    /\ closer \in {"idle", "joining", "returned", "error"}
    /\ registrations \in 0..MaxRegistrations
    /\ credit \in Int

(* "one bounded preparation episode for each observed absence episode"        *)
(* (transport_binding.py 63-71): however the session restarts, the binding is *)
(* registered anew and threads race for the launch, there are no more         *)
(* preparations than absences observed, and the thread of the registration is *)
(* one that is still running.                                                 *)
OneRecoveryPerAbsence ==
    /\ credit >= 0
    /\ registered /\ thread # 0 => stage[thread] \notin {"unused", "launching"}

(* The flag that is set before the launch is left behind by no launch that    *)
(* was given up to a thread on record, and an absence noticed while a         *)
(* recovery runs is not forgotten: a binding to be recovered that is absent   *)
(* has a preparation that began since the flag was set, or a thread about to  *)
(* launch or to start one, or else a recovery under way that looks again when *)
(* it is over. The exception, which the code makes: a publication that raised *)
(* between the flag and the launch left the absence to nobody                 *)
(* (transport_binding.py 256-269, 271-284, 331-346).                          *)
AbsenceHasDriver ==
    registered /\ recovers /\ Absent(resolution) =>
        IF attempted
        THEN \/ answered
             \/ \E a \in Appliers : launch[a]
             \/ thread # 0 /\ stage[thread] \in {"registered", "starting"}
             \/ forgone
        ELSE thread # 0

(* Once every event is dispatched and every change published, what            *)
(* resolution() answers is the current session's last report, and so is the   *)
(* last change published: apart from a snapshot that was read, and out of     *)
(* date when it was applied (transport_binding.py 190-200, 322-330), from two *)
(* threads publishing at the same time (263-266), and from a change that was  *)
(* given up because a publication before it raised (266-267).                 *)
Settled == bus = <<>> /\ (\A a \in Appliers : pub[a] = <<>>) /\ link = "streaming" /\ ~unseen
SettledProjection ==
    Settled /\ registered /\ ~closed /\ resolution # <<>> /\ ~late =>
        /\ session = generation
        /\ resolution[1] = ResolveTransportBinding(Serial, inventory)
        /\ news # "due"
==============================================================================
