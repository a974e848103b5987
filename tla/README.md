# Verification of the interaction capability kernel

TLA+ models of the kernel's concurrent core and of what it makes of the bytes,
texts and pictures it is given, the TLC runs that check them on small instances,
and TLAPS proofs of what matters most for every instance. Every definition is
translated from the code; `PROJECT.json` maps each to its lines.

## The system

The behaviour that is hardest to get right is in the cooperating parts that keep
state, all in one process, all multi-threaded:

| Part | State | Operations | Interacts with |
|---|---|---|---|
| Event bus `eventing/adapters/in_memory.py` | subscription list, FIFO queue, dispatching flag, one lock | subscribe, unsubscribe, publish | handlers of every part run inside publish(), outside the lock |
| Temporal scheduler `scheduling/adapters/threading.py` | token -> timer registry, closed flag, one lock, one timer thread per registration | schedule_at, schedule_after, schedule_recurring, cancel, close | timers publish events on the bus |
| Server ensure `adb/server/lifecycle/ensure.py` | none between calls; a deadline, a probe and a command result within one | probe, ensure | native ADB server, publishes each step on the bus |
| Server supervisor `adb/supervision/server.py` | desired_running, recovery_enabled, cycle id, retry token, attempt threads, closed; `_lock` and `_mutation_lock` | start, stop, set_recovery_enabled, reconcile, close; retry handler, attempt thread | ensure, scheduler (retries), bus (RetryDue, Exhausted) |
| Transport-inventory observation `adb/transport/observation/*`, `adb/supervision/devices_observation.py` | generation, active session, source, thread; cycle id, retry token, attempt thread, current session | start, stop, close of the observer; establish; supervisor start, close and handlers | track-devices stream, bus, scheduler |
| Binding supervision `adb/supervision/transport_binding.py` | registrations with resolution, session, recovery flag and thread; closed; one lock | register, unregister, start, close, snapshot and session handlers, recovery threads | bus, observer (active session, snapshots), preparation |
| Preparation `adb/transport/preparation.py` | none between calls; session, queue of events, presence, connect attempts and deadline within one | prepare | bus, inventory, connect command |
| Capture `capture/adapters/android_adb.py`, `capture/acquisition.py` | the next frame id, under a lock | acquire | wire client; callers share one backend |

The rest turns what it is given into values and keeps nothing. It is modelled
where it can go wrong: the wire client (`adb/_internal/client.py`) over a socket
that may break off at any byte, the protobuf reader (`proto.py`), the parsers of
what a device prints (`android/adb/adapters`), the geometry, imaging,
presentation and raster code that leads from a picture to a region of an
application. What is left out is listed under "Not modelled".

What is hard, and at which line, is the list `hazards` in `PROJECT.json`. In
short: publications nest and race, and one thread delivers for all; decisions
are taken under a lock and acted upon after it; timers race with the code that
stores their tokens; exceptions from unrelated handlers surface inside
publish(); the ADB server belongs to the machine and may change at any time.

What makes each part correct:

- bus: nothing published is lost, duplicated or reordered; handlers run one at a
  time; nobody waits for ever.
- scheduler: nothing begins to be delivered after a cancel() that said True or a
  close(); every occurrence at most once and in order; no leftover timers; due
  one-shots arrive.
- ensure: at most one command, and a result that agrees with its last probe.
- server supervisor: the server is driven only towards the current intent; no
  retry survives its cycle; a live cycle always goes on and always ends; close()
  leaves no thread behind; every call returns.
- observation: failures of the current session, and only of it, lead to
  re-establishment; the adopted session never goes back to an older one.
- binding: one preparation for each absence, never two and never none; what
  resolution() answers, and what was published last, is in the end what the
  current session reported last.
- preparation: one connect at most; a result that its evidence supports.
- wire client, reports and dumps: an answer is complete and exact, or an error, but
  for what the code leaves out on purpose (two kinds of rows, see below); a reply
  that was cut off is never taken for one.
- capture and rasters: a frame number is never shared, and frames whose
  acquisitions can be told apart are numbered in that order; a pixel stays where
  it was on the screen; a mapped region covers its image.

## Modules

| Module | Models | Actions are |
|---|---|---|
| `EventDelivery` | what a bus promises: FIFO, at most once, eventually, earliest registration first | the observable events: subscribe, publish, take, deliver |
| `RecoveryCycle` | what a recovery cycle is, without locks, threads, timers and tokens: one live at a time, its attempts in order, one at a time, within the budget | a cycle opened, refused or given up, an attempt begun, withdrawn, returned, handed on or concluding, exhaustion reported |
| `EventBus` | `InMemoryEventBus` | critical sections of `_lock`, handler invocations between them |
| `Scheduler` | `ThreadingTemporalScheduler` | critical sections, timer start, wake-up, publication, `Timer.cancel()` |
| `ServerEnsure` | `AdbServerEnsureOrchestrator`, and the server itself | first probe, command, verification probes |
| `ServerSupervisor` | `AdbServerSupervisor`, extends `ServerEnsure` | critical sections of `_lock`, steps between them, `_mutation_lock` as a variable |
| `Observer` | `AdbDevicesObserver`, its session threads and the `AdbTrackDevicesSource` of each | critical sections of the observer's and the source's lock, socket operations, publications |
| `ObservationSupervisor` | `AdbDevicesObservationSupervisor` and its establishment episodes, extends `Observer` | critical sections of `_lock`, steps between them, deliveries of the bus |
| `TransportBinding` | the resolution of a serial in a snapshot (`binding.py`) | pure operators |
| `Inventory` | the device inventory and the one session that reports it: what `Observer` shows of the observer (`OneSession`), reduced to its events | session opens, streams, ends with or without its announcement; the inventory changes; publications |
| `Preparation` | `AdbTransportPreparationOrchestrator`, extends `Inventory` | the steps of an episode between two waits |
| `BindingSupervisor` | `AdbTransportBindingSupervisor`, extends `Preparation` | critical sections of `_lock`, publications and launches after them, publications that raise, the steps of recovery threads, deliveries |
| `AdbClient` | `AdbServiceClient` (host query, exec, shell v2), and the queries and attempts made through it | bytes that arrive, the end of the stream, silence, a reset |
| `AdbProto` | the protobuf reader and the decoding of inventory and server status | a message is sent, arrives up to some byte, is read |
| `AndroidDumps` | every parser of device output and the inspector in front of it | a command prints what is so on the device, the inspector reads it |
| `Numerals` | numbers written in a base: powers, values, digits | pure operators, as recursive functions |
| `Floats`, `Geometry`, `Rasters` | rounding floats; rectangles, transforms, placements; images with backing and slice | pure operators |
| `Frames` | screencap backend, frame sources, location, extraction, mapping, extends `Rasters` | the steps of concurrent callers, the clock, a wall clock set back |
| `MCKernel` | `AdbClient`, `AdbProto`, `AndroidDumps` and `Frames` side by side, and their instance | |
| `MCEventBus`, `MCScheduler`, `MCServer`, `MCObservation`, `MCBinding` | instances for TLC | |
| `EventBus_proofs`, `Scheduler_proofs`, `ServerSupervisor_proofs`, `ObservationSupervisor_proofs`, `BindingSupervisor_proofs`, `Numerals_proofs`, `Answers_proofs`, `Frames_proofs` | theorems | |

Definitions called "Faulty variant" are plausible mistakes in the code. None is
used by a specification; each stands for a change under which one property
fails, and shows that the property depends on the code being as it is.

**EventBus.** A publish() call is named by the event it publishes, so its local
variables are functions on events. A handler that publishes makes its event a
call with `caller[d] = c`, and cannot return before that call has. `stolen`,
`delivered`, `caller` and `order` record history and guard only what the Python
call stack and list order enforce. An asynchronous exception (KeyboardInterrupt)
between two bytecodes of publish() is not modelled: only then would the finally
block find a flag of its own.

**Scheduler.** Registrations are named by their tokens. The clock is wall time;
`threading.Timer` waits monotonic time, so a stepped clock may make a timer wake
up to `Skew` early, and never bounds how late. After a False answer cancel()
changes nothing but a `None` placeholder, which no caller can reach as the token
is returned after it is replaced. The branch of `_register_timer` that raises
after a close() leaves nothing behind, as in the code. Duplicate close() calls
return at once and are left out.

**ServerSupervisor.** An operation `i` is one call; when it opens a recovery
cycle, `i` is the cycle identity. Job `<<i, n>>` is the n-th attempt of that
cycle: the call itself or the thread it launched for n = 1, and for n > 1 the
life of a scheduled retry from its timer through the bus event and the handler
to the thread, so that it also names the schedule token. Abstractions:

- `recovery_epoch` is only read by its property and is left out;
- the backoff delay is any delay: `Fire` may happen as soon as the timer exists,
  and the scheduler and bus appear as the stages "armed" and "due", which is
  what `Scheduler` (`CancelledOnceIsSilent`, `NoDeliveryAfterWithdrawal`) and
  `EventBus` (`DeliversAsPromised`) establish of them;
- a cancel() of an old token happens at any time after the critical section
  that took it out (`doomed`), a superset of where the code may do it;
- `max_attempts = None`, a close() called from an attempt thread, a scheduler
  closed under the supervisor and thread creation failures are not modelled;
- native command status TIMED_OUT is treated by the code like SUCCEEDED, and
  "completed" stands for both.

**Observer** and **ObservationSupervisor.** A session is named by its generation
and `sess[g]` follows its thread; a stopper `p` is one call of stop() or close().
Cycle 0 is the one start() opens, cycle `g` the one the failure of session `g`
opens (a session fails once), and job `<<c, n>>` is the n-th attempt of cycle c,
as in `ServerSupervisor`. Abstractions:

- the bus is the FIFO `bus` of lifecycle events: publish() may return before its
  event is delivered, since another thread may be the dispatcher. Snapshots
  change neither part and are not put on it;
- one address candidate stands for the list of getaddrinfo, and "an outcome of
  open()" for everything that connect and handshake may raise;
- a deadline that has passed before observation.start() has the outcome of a
  refused start and is not a step of its own;
- the supervisor is built on an idle observer (its constructor would take over a
  session that is active); only the supervisor closes the observer, and other
  owners may stop() it;
- `max_attempts = None`, close() from a handler or an attempt thread, thread
  creation failures and a scheduler closed underneath are not modelled;
- `late` (the last session whose episode timed out) and `overtaken` (a retry
  token replaced a newer one) record history and guard nothing.

**Inventory**, **Preparation** and **BindingSupervisor.** Episode `e` is one
prepare() and the recovery thread that conducts it; `handling` is the event the
dispatcher is at, `pub[a]` and `launch[a]` what thread `a` has decided under the
lock and does after it. The dispatcher, the caller of register() and recovery
threads apply snapshots. Abstractions:

- one serial: the registry is a dictionary, and nothing that is done for one
  serial reads the entry of another. A registration may be removed and made again;
- the four subscriptions of an episode are one step, and so are the evaluation of
  an event and what follows from it: between them nothing shared is touched;
- an event reaches the supervisor in `Dispatch` and, once what that decided is
  published and launched, the episodes in `Collect`; at most `MaxPending` events
  of a session wait. An episode that is over has unsubscribed, and its queue is
  gone. prepare() is called by recoveries only;
- a publication may raise what handlers raised, before or after the consumer heard
  of the change (`PublicationRaises`): the changes and launches decided with it are
  then given up (266-269), and a recovery thread ends through its finally block.
  The flag set at 263 stays set, so that an absence whose launch was given up is
  recovered by nobody until it resolves or another session begins. A raising
  publication of another serial, decided in the same critical section, has the
  same effect and is the same step;
- a session may end without announcing it (`observer.py` 145, a publication that
  raises), and one that has ended may be followed by another before its terminal
  event is published (179-193);
- a preparation that ended "blocked" or "ambiguous" is treated by the supervisor
  like any other that is not satisfied;
- close() from a handler or a recovery thread and thread creation failures are
  not modelled;
- `credit`, `answered`, `late`, `news` and `forgone` record history and guard
  nothing. `credit` counts the absences of a binding to be recovered, less those
  that ended before a recovery was decided and the recoveries launched or given up.
  `late` says that the last snapshot applied was out of date by then
  (`transport_binding.py` 197-200 and 322-330 read the session, a snapshot and
  the session again, and apply without the lock). `news` is about the last change:
  "lost" when it was decided while another was not published (266-267 publish
  after the lock) or was given up because a publication raised. `forgone` says that
  a raising publication took the launch for the current absence with it (266-269).
  They can leave an old projection in force, or told, until the next event, and an
  absence without a recovery; no document promises more, so `SettledProjection`
  excuses exactly what is `late` or "lost", and `AbsenceHasDriver` what is `forgone`;
- a terminal event between `active_session_id` and the subscription is missed
  (`preparation.py` 157); the episode then ends by its deadline.

**AdbClient, AdbProto, AndroidDumps.** They have no state between calls: a
behaviour is one call, and a history variable (`reply`, `sent`, `printed`) keeps
what the other side meant, so that the invariants compare an answer with it. A text
is a sequence of lines, a line the patterns found in it with what they capture;
phrases and names are single symbols. Lengths have 2 digits of a radix 2 for the
4 hexadecimal ones, a packet size 2 bytes of 2 values for 4 of 256, a varint at
most 3 groups of 3 bits for 10 of 7: the boundaries (the last group's single
bit, the longest length) occur all the same. A field of another
version has a number that no table of any message has. Writers of these formats
(the ADB server, the device) are external. A row in a form the parser does not know
is an error, with two exceptions that the code makes and `InspectionExact` names: a
row of a physical display is skipped, and the answer is the other ones
(`_display_parsers.py` 126-128; only none at all is an error, 146), and a section
whose header is unknown is read as part of the one before it, of which nothing is
claimed.

**Floats, Geometry, Rasters, Frames.** A float is an integer multiple of
2^-FractionBits, and an operation rounds its exact result to `Precision`
significant bits, ties to even: 10 bits stand for 53, and a rounding error that
crosses an integer occurs with both. A pixel is named by its picture and its
place, so that its value tells where it came from. `captured_at` is read from a wall
clock that runs `back` behind the model's time and may be set back at any moment. A
PNG with 16 bits a channel decodes to an array that `RasterImage` refuses with a
TypeError (`imaging/models.py:57`) after the call has taken its number
(`android_adb.py` 146-150): the number goes to `lost`, and the stream has a gap.
`began`, `shot`, `earlier`, `returned`, `lost` and `corner` are history.

## Runs

| Run | Question | Instance |
|---|---|---|
| `event_bus` | Is anything lost, stuck or out of order, and does the bus implement `EventDelivery`, liveness included? | 3 events, 2 subscriptions of overlapping types |
| `event_bus_overlap` | Do handlers always run one at a time? **No** | same |
| `scheduler` | Do withdrawal, order and delivery hold under late and early wake-ups and failing publications? | 1 one-shot, 1 recurring, 4 instants, skew 1 |
| `scheduler_cancel` | Does cancel() only answer True for a registration that is served? **No** | same |
| `server_races` | Is intent respected, does nothing of a dead cycle survive, and does the supervisor implement `RecoveryCycle`, whatever races? | 2 operations of any kind, 2 attempts |
| `server_retries` | Does one cycle keep going and end? | 1 operation, 4 attempts, 2 outside changes of the server |
| `server_stall` | Is a live cycle always continued? **No** | 1 operation, 3 attempts |
| `observation_races` | Does one session, one episode and a monotone adoption survive failures, time-outs, stop() and close() at any point? | 3 sessions, 2 attempts, one stop() and the supervisor's close() |
| `observation_retries` | Does a failure at rest open a cycle, and does every cycle go on and end? | 4 sessions, 3 attempts |
| `observation_missed` | Is every failure of an established session answered? **No** | 2 sessions, 1 attempt |
| `binding` | Is every absence answered once, by sound episodes, and does the projection settle? | 1 registration, 2 sessions, 1 change between 2 inventories, 2 recovery threads |
| `kernel` | Are answers exact, frames in order, pixels in place, whatever arrives and whoever calls? | see below |

Bounds and why they are enough. Three publish() calls are the least for a stolen
flag (one ends, one takes over, one is let in), and include every nesting up to
depth three. Three occurrences let a callback miss one and still resume, on each
side of a cancel(). Two operations give every pair of start, stop, enable,
reconcile with disable and close, each with a retry in flight; three attempts are
the least for a late token to cancel a newer one, four leave one more after it.
Three sessions give a first, a re-established and a later one, so that a late
event, adoption or stop() meets a session younger than its own; four sessions
and three attempts let a cycle of a failed session overtake itself. A stream
breaks, or a publication raises, only while the generations of one more cycle
are left (`Environment`), so the bound `MaxSessions` never refuses a start() the
code would make.
In `binding`, two sessions give every event of an older session after the start of
a newer one; one change with two sessions gives a present binding that is lost
and one that comes back; two recovery threads are one that ends and one launched
meanwhile. `MaxPending` 1 keeps each handler behind by one event, and readers of
the current state by any number of steps. All sessions end "failed", which the
handlers treat like "stopped", and of the inventories the instance has the serial
present and absent: "offline" and "ambiguous" ones would only add episodes that end
unsatisfied. The proofs cover them all. It has 5.4 million distinct states.
`kernel` explores the four parts of `MCKernel` one by one, as they share nothing:
the client's four services with replies cut off after any byte; the inventory
and status reports with unknown fields, cut off at any byte; every command's
texts for two users, packages, displays and windows; two callers, two frames and
two pictures of 3 by 2 pixels, one of which may have 16 bits a channel, with a wall
clock set back once at any moment, cropped and mapped to a larger and to a taller
presentation.
`MaxTime`, `Skew`, `MaxFlips` and `MaxAttempts` bound the clock, its steps, the
outside changes and `policy.max_attempts`; operations, events and tokens are
single-use, which the code's fresh uuids justify. The systems may stop (nobody is
obliged to call anything), so deadlock is not checked; the liveness properties
say what may not be left undone.

### Findings

1. **Two dispatchers** (`event_bus_overlap`). A publish() that has drained the
   queue clears `_dispatching` at line 89, releases the lock, and its finally
   block (109-112) clears the flag again. A publish() that became dispatcher in
   between loses it, and a third starts to dispatch beside it.
   `docs/architecture/event_bus.md:23` promises serial handlers.
   `SerialUntilStolen` shows that this is the only way: without such a theft
   handlers are serial. `DeliversAsPromised` shows what is left after one: events
   are still taken in order and reach each subscriber once, but the handler calls
   of two events may interleave.
2. **cancel() of a dead registration** (`scheduler_cancel`). A recurring callback
   whose publication raises never arms the next timer, but its token stays in
   `_timers`; cancel() answers True (`scheduling/ports.py:59`: "returning whether
   it was still active").
3. **A stalled recovery cycle** (`server_stall`). The retry timer starts before
   its token is stored. If the retry runs and schedules its successor first, the
   late store cancels the successor. The cycle stays live with nobody to continue
   it, and reconcile() ignores a live cycle. `CycleHasDriverUnless` and
   `CycleEnds` show that apart from this, and from an exception out of ensure(),
   every cycle is driven to its end.

4. **A missed failure** (`observation_missed`). A session that fails after its
   Started has satisfied the episode, and before the supervisor has stored its
   identity, is not the current one when its failure is delivered, and a cycle is
   live; the event is dropped (`devices_observation.py` 148-151). The dead session
   is then adopted and observation stays down, although
   `docs/architecture/event_bus.md:129` says that such a failure starts a
   re-establishment cycle. `FailureIsAnswered` shows that every failure of the
   session the supervisor already rests on is answered.

The retry token of the observation supervisor has the race of finding 3
(`devices_observation.py` 283-294); `overtaken` excuses it in its properties, and
no run is spent on it again.

Two behaviours that contradict no document, which properties name as exceptions: a
publication that raises in `_apply_snapshot` leaves an absence marked as attempted
with no recovery (`transport_binding.py` 263-269); and an unreadable row of a physical
display is left out silently (`_display_parsers.py` 126-128), where every other parser
of rows raises.

A divergence of wording that no run is about: `from_rects` maps one rectangle
"exactly to" another (`geometry/transform.py:75`), and `map_rect_enclosing`
gives "the smallest integer rectangle" (150). With floats both are off by a
rounding now and then: source x = 1, width 720 onto target x = 0, width 1600
encloses to width 1601, which sticks out of the target, so that a crop by it
raises `ValueError`. `RegionEnclosed` states what holds: the region encloses its
exact image, and exceeds the smallest one by a pixel at most on each side.

## Fairness

- bus: weak fairness of each publish() call's steps: its thread runs and
  handlers return. Nobody has to publish or subscribe.
- scheduler: weak fairness of each registration's callback steps and of pending
  `Timer.cancel()` calls. The clock need not advance, nobody has to cancel.
- server: weak fairness of `System` as a whole, that is, some runnable thread,
  timer or delivery takes a step. With single-use operations and finitely many
  attempts this is weaker than what the operating system and the lock give to
  each thread. Verification loops may repeat for ever as far as the model is
  concerned; the fairness of `System` includes the last round that the deadline
  of an episode enforces.
- observation: weak fairness of `System` as a whole, as for the server; a failing
  stream, a stop() and a close() are never obliged to happen, and the steps of
  the system never return to an earlier state, so it always comes to rest.
- binding: the specification states weak fairness of `System` in the same sense,
  but the run checks safety only: that a pending change is dealt with is stated
  as `AbsenceHasDriver` (who will do it) instead of "eventually".
- kernel: none; a reply may stop arriving for ever, and a call then times out.

## Proofs

For every value of the constants that satisfies the module's assumption
(`BusAssumption`, `SchedulerAssumption`, `SupervisorAssumption`,
`ObserverAssumption`, `ObservationAssumption`, `InventoryAssumption`,
`PreparationAssumption`, `BindingAssumption`, `ClientAssumption`,
`RepliesAssumption`, `ProtoAssumption`, `UnknownAssumption`, `DumpsAssumption`,
`FloatsAssumption`, `GeometryAssumption`, `FramesAssumption`, `PrecisionAssumption`):

- **EventBus_proofs.** Type correctness; `NoOrphanedEvent`, with the set flag
  tied to an active call; `SerialUntilStolen`; and `ImplementsDelivery`: each
  step of the bus is a step of `EventDelivery` or leaves its variables alone. The
  strengthening ranks a call's current event: an event is in one place only
  (queue, or current of one call), which is what makes delivery at most once.
- **Scheduler_proofs.** Type correctness; `WithdrawnIsAbsent` (nothing registers
  a token a second time, and a closed registry stays empty), from which no
  delivery begins after a withdrawal and a cancelled one-shot is silent. For
  `OccurrencesInOrder`, `Advancing`: what was published lies before the deadline
  the callback waits for (`Forward`), and under the policies that skip nothing
  everything before it was (`Gapless`).
- **ServerSupervisor_proofs.** Everything rests on four invariants. `Typed` adds
  that only an attempt with a successor in the budget stores a token.
  `Sequenced`: of the attempts for one operation the next is armed only when the
  previous one is done with, so at most one is under way (`StageMoves` lists the
  ways a job enters a stage, and is the lemma all later arguments use instead of
  the actions). `MutexGuards`: the job in ensure() is exactly the holder of
  `_mutation_lock`, locals of an episode exist only as long, and its direction is
  the current intent; the intent itself cannot be proved alone, as nothing but
  the mutex stops another call from changing `desired_running` under an episode.
  `EpisodeFacts`, `CycleGated`, `FinishedForGood` (a finished cycle is not live,
  and its first attempt is over, so no call can revive it) and `JoinsAll` (after
  close() every attempt thread is in the list to join) then give the six
  invariants that `server_races` checks and `ExhaustedIsFinal` (after the exhaustion
  of a cycle no attempt of it reaches the server), which is proved only.
  `ImplementsRecoveryCycle` shows each step to be one of `RecoveryCycle` or to
  leave it alone: an attempt is running while it is in ensure(), handed on once its
  successor's retry is scheduled, spent between the decision that the budget is used
  up and the publication of the exhaustion. That no two run at once is
  `MutexGuards`, their order `Sequenced`. `CycleHasDriverUnless` needs two more: a token that
  is stored, being stored or doomed belongs to a timer armed before (`TokensSeen`),
  and only a call that asked for recovery opens a cycle (`CycleAsked`); then whatever ends the driver of a live cycle arms the next
  (`DriverMoves`), unless the race of finding 3 or an exception came before.
- **ObservationSupervisor_proofs.** `SessionFacts` (an unstarted generation is
  unused, so `OneSession` is kept), `TerminalOnce` and `FreshUnused` (a session
  announces its end once, after its thread has ended, so its cycle is opened
  once), `Sequenced` and `StageMoves` as for the server, `EpisodeFacts` (the
  episode under way belongs to the live cycle, and `_attempt_thread` is set only
  while its thread is in one, without which the launch guard could not be shown to
  let the retry of a live cycle through). On this core rest `RestFacts` (while an
  episode waits no other session can be active, and its generation is above the
  adopted one; from it adoption moves forward and the supervisor rests on the
  active session), `TimersAccounted` and `CloseFacts` (from the moment close()
  has read the active session no other can become active, and the one thread
  that may still be in an episode is the one it joins). All
  properties of `observation_races` but the liveness property `StopReturns` follow,
  and `CycleHasDriverUnless` by the argument used for the server. So does
  `ImplementsRecoveryCycle`, here with no mutex to rely on: an attempt is running from
  the registration of its thread to the end of its episode, and the launch guard on
  `_attempt_thread` keeps the next one from beginning. No state of this supervisor
  remembers that its exhaustion was reported, so the mapping leaves that part out.
- **BindingSupervisor_proofs.** `Typed` (types, `Begun`: a session under way was
  opened, `Conduct`: what an episode holds in each of its phases,
  `Paired`: where its thread may be meanwhile) carries the rest. `Quiet`: a thread
  that is not between a critical section and what follows from it has nothing to
  publish and nothing to launch. `Cared`: whoever is
  about to launch, and each absence not yet attempted, is funded by an absence
  observed (`Funded`), the entry's thread runs (`ThreadRuns`), so `credit` is never
  negative and `AbsenceHasDriver` is kept; neither holds alone, as a launch pays
  with the credit of the absence that set the flag. `Heard`: an event an episode
  has queued happened (`Known`), and a terminal one ended its session (`Closing`),
  from which a result agrees with the inventory. `Standing`, `Current` and
  `Announced`: the entry holds the last report of the newest session unless an
  event is still under way that will bring it, or `late`; and a change not told is
  in the hands of a publisher, or "lost".
- **Numerals_proofs.** A number that fits a field is read as what was written in
  it (`ValueOfDigits`), for every base and width. The library's induction theorems
  take an operator as parameter, which no prover here can instantiate; so the module
  first obtains induction for a set of numbers from the well-foundedness of "less
  than" (`InductionOverNat`), and from it that a function defined by recursion on
  the natural numbers satisfies its equation (`RecursionOverNat`). All later
  inductions, on digits, packets and exponents, are these two.
- **Answers_proofs.** `AnswersAreExact`, the invariant `AnswersExact` of `kernel` for
  every value of the constants, from three theorems.
  - `RepliesAreComplete`, for any field width, bases, texts and
    scripts. `ParserInv` ties the parser to the reply: what it has received of a
    field, followed by what will still arrive, begins the bytes the server
    sent from there on (`Ahead`; begins, since the reply may break off anywhere). It
    is stated per field (`AtStatus` to `AtData`), as each fixes what the field must
    turn out to be. For a command, `InScript` counts the packets taken: the streams are
    those of the first k packets, and the bytes ahead those of the rest; an
    end between two packets is then an end after all of them, unless no exit code
    was read. `Positions` says where nothing is begun yet.
  - `ReportsAreExact`, for any width of the varints, number of devices and values of
    their fields. `EncodedIsVarint` with `VarintRead` and `VarintCut`: a number is read
    back from what is written of it, and is unreadable if it is cut. From there three
    notions carry the argument from bytes to messages. `Token`: the bytes of one field
    and what they are read as, whatever stands before and after them. `Leads`: bytes that
    put some fields before whatever is read of the bytes that follow, which
    makes it closed under concatenation, so that the encoder can be followed part by
    part. `Yields`: of any beginning of the bytes those fields are read that are
    whole, and then at most one broken one (`ReadOf`). `DecodedFields` says what a table of fields
    makes of them in any order and among unknown ones; `MessageRead` and
    `InventoryRead` put the two together. That a row of an inventory is itself a
    message is no recursion here: it is the same lemma used twice.
  - `InspectionsAreExact`, for any users, packages, displays, windows and texts made of
    them. Every report a device prints is `Faithful` (a lemma per command, such as `PackagesExact`), and
    `DumpsInv` keeps that from the printing to the inspection. A search
    needs the first or the last line that holds a pattern (`SearchFirst`,
    `SearchLastOnly`). The parsers that read line by line need what was
    found after each line: `LinesRead` is a recursive function, `LinesReadIs` says that any
    function with the right steps is its course, and `SectionedRead` lifts that
    from lines to the sections of a text, of any number. What is
    found after k sections is then written down for each parser: the activities of
    the first k displays (`ResumedSections`), the displays up to the k-th with base and
    override in either order (`InfoUpTo`, `DisplaySections`), the
    one display that was asked about (`OcclusionSections`), the blocks of the first k
    windows (`BlockList`, `WindowSections`); in a block the first line of a kind
    wins, although the line of the focus may trail the last one (`BlockSearched`,
    `WindowText`).
- **Frames_proofs.** `Numbers`: the numbers of frames returned, of callers holding one
  and of calls that raised partition those below the counter (`Numbering`), and
  every caller's times lie between the call and the clock, and a frame's
  `captured_at` is that clock less what the wall clock was set back by then
  (`Timing`); a caller that begins after a frame was returned takes a larger number. `InPlace`: the backing
  of every image is a rectangle of one picture, and its slice lies in it
  (`ShowsFrom`); slices of rectangles are rectangles where the offsets add up to
  (`SlicedPart`), so crops of crops of copies stay in place for any depth.
  For `RegionEnclosed`, an error analysis of the transform: the nearest float
  is off by half of its last bit (`RoundedClose`, by the least step that
  leaves no more bits than a float has), and the errors of the scale, of the
  product in the offset, of the offset, of the product and of the sum add up
  to the tolerance at most (`ChainWithin`, `AxisWithin`). As two tolerances
  are less than a pixel of the other side divided into as many parts as this
  side has pixels, floor and ceiling cannot pass an integer but the one they
  round to, and an edge is within the tolerance of an integer if and only if
  its exact image is one (`RoundWithin`). `Reached` is the invariant that
  keeps the presentations within the bounds of the analysis. These are
  `PrecisionAssumption`: with 53 bits and 1e-9 they admit a `Reach` of a
  million, that is, every presentation whose edges, and whose edges magnified
  to the screen, stay below a million pixels. A presentation so thin and so
  far out that it lies beyond (one pixel wide at 2000, magnified to 2000) is
  outside the theorem.

Only model-checked: liveness (`PublishReturns`, `WithdrawnWindsDown`,
`OnceIsDelivered`, `CallsReturn`, `CycleEnds`, `StopReturns`,
`FailureIsAnswered`, the fairness part of `DeliversAsPromised`), which is out of
the prover's reach. Every invariant and every action property of a passing run is a
theorem. The assumptions about what a server and a device may send are as wide as the
formats are: numbers of 64 bits (of `MaxBytes` groups), texts and messages whose length can be
written, fields of another version with a number that no table has
(`ProtoAssumption`, `UnknownAssumption`), an inventory of any number of devices
(`MaxDevices`, 2 in the run); finitely many users, packages, displays
and windows, and no package or window called "none", the value that stands for
no focus and no odd row (`DumpsAssumption`). The forms a text may take are those
`AndroidDumps` lists for each command; a form it does not list is not covered.

## Not modelled

- ADB server provisioning: one critical section that takes the first port not in a
  set and adds it to the set. What could be said of it holds by construction.
- server status, commands and signals, pairing, connect and disconnect as commands,
  native attempts: value types around one blocking call; what a call may come to is
  an outcome in `ServerEnsure`, `Preparation` and `AdbClient`. Attempts carry wall
  clock times that are left out: a clock stepping back makes the result raise
  although the command ran (`native_attempt/domain.py:91`).
- the subprocess runner of the command-line client: one blocking call.
- managed runtime: every method raises `NotImplementedError`.
- clocks: variables of `Scheduler` and `Frames`. Interaction targets: identities.
- execution and the Windows domain and capture backends: contracts and field
  checks, no behaviour.
- intersections, areas and IoU of rectangles, `contains_point`, relative points and
  rectangles, sizes, point arithmetic, interaction points, layouts and the mapping of
  packages to applications: single expressions on their arguments.
- the list of getaddrinfo candidates and the framing of the track-devices stream.

Hazards outside these models or without a property, for the reader of the code:
the dispatcher of the moment receives the failures of handlers run for other
publishers' events (`in_memory.py:114`); under SKIP a timer that wakes slightly
early drops its occurrence (`threading.py:185`); `RecoveryExhausted` may be
published after stop() (`server.py:263`); an observer whose thread cannot be
created stays active (`observer.py:111`); a query has a timeout for each receive
and none overall (`client.py:243`), and an exec stream has no end marker, so that
a broken connection that looks like an end of file is a short answer
(`client.py:251`); an attempt that timed out may have run (`_attempt.py:31`).

## Plan

Done: the bus, the scheduler, both supervisors with what they drive, the binding
supervisor with preparation, the stateless kernel, the abstract `RecoveryCycle` that
both supervisors implement, and the proofs. Left:

1. Liveness of the binding supervisor: an absent binding is in the end prepared
   or found again.
