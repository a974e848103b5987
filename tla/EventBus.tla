------------------------------- MODULE EventBus -------------------------------
(* InMemoryEventBus (eventing/adapters/in_memory.py): a lock-protected FIFO   *)
(* drained by whichever publish() call found no dispatcher active.            *)
(*                                                                            *)
(* A publish() call is identified with the event occurrence it publishes, so  *)
(* the per-call local variables (snapshot, current event, failures) are       *)
(* functions on Events. A call made by a handler runs inside its caller's     *)
(* frame: the handler cannot return before the nested call does. Each action  *)
(* is one critical section of _lock, or one handler invocation made outside   *)
(* the lock.                                                                  *)
EXTENDS Naturals, Sequences

CONSTANTS Events,   \* event occurrences (and the publish() calls made for them)
          Subs,     \* subscription tokens
          Matches,  \* Matches[s]: the events that are instances of s's event type
          External  \* the caller of a publish() made outside every handler

ASSUME BusAssumption ==
    /\ External \notin Events
    /\ Matches \in [Subs -> SUBSET Events]

VARIABLES
    queue,         \* _queue
    dispatching,   \* _dispatching
    subscriptions, \* the tokens in _subscriptions
    appended,      \* how many tokens were ever appended to _subscriptions
    order,         \* order[s]: s was the order[s]-th token appended, 0 before
    pc,            \* pc[c]: where the publish() call c stands
    caller,        \* caller[c]: the call whose handler made c, or External
    current,       \* current[c]: the event c last took from the queue
    snapshot,      \* snapshot[c]: matching subscriptions c has yet to invoke
    failed,        \* failed[c]: some handler run by c raised
    delivered,     \* history: delivered[e], the subscriptions that got e
    stolen         \* history: a finally block cleared another call's flag

registry == <<subscriptions, appended, order>>

locals == <<caller, current, snapshot, failed>>

vars == <<queue, dispatching, registry, pc, locals, delivered, stolen>>

(* "loop" is the drain loop, "handler" a handler invocation, "finally" the    *)
(* window between the end of the loop and the finally block's lock.           *)
PC == {"idle", "loop", "handler", "finally", "returned", "raised"}

Live(c) == pc[c] \in {"loop", "handler", "finally"}

(* A call that can still take events from the queue.                          *)
Active(c) == pc[c] \in {"loop", "handler"}

(* Faulty variant: a handler waits until what it published is dispatched.     *)
NestedCallWaits(c) == \E d \in Events : caller[d] = c /\ \E i \in 1..Len(queue) : queue[i] = d

NestedCallLive(c) == \E d \in Events : caller[d] = c /\ Live(d)

(* Faulty variant: handlers are invoked in any order.                         *)
Whichever(S) == S

Earliest(S) == {s \in S : \A t \in S : order[s] <= order[t]}

Init ==
    /\ queue = <<>>
    /\ dispatching = FALSE
    /\ subscriptions = {}
    /\ appended = 0
    /\ order = [s \in Subs |-> 0]
    /\ pc = [c \in Events |-> "idle"]
    /\ caller = [c \in Events |-> External]
    /\ current = [c \in Events |-> c]
    /\ snapshot = [c \in Events |-> {}]
    /\ failed = [c \in Events |-> FALSE]
    /\ delivered = [e \in Events |-> {}]
    /\ stolen = FALSE

Subscribe(s) ==
    /\ order[s] = 0
    /\ subscriptions' = subscriptions \cup {s}
    /\ appended' = appended + 1
    /\ order' = [order EXCEPT ![s] = appended + 1]
    /\ UNCHANGED <<queue, dispatching, pc, locals, delivered, stolen>>

Unsubscribe(s) ==
    /\ s \in subscriptions
    /\ subscriptions' = subscriptions \ {s}
    /\ UNCHANGED <<queue, dispatching, appended, order, pc, locals, delivered, stolen>>

(* Faulty variant: a call enqueues what its caller published.                 *)
PublishParent(c, p) ==
    /\ pc[c] = "idle"
    /\ p # External => (pc[p] = "handler" /\ ~NestedCallLive(p))
    /\ queue' = Append(queue, p)
    /\ dispatching' = TRUE
    /\ pc' = [pc EXCEPT ![c] = IF dispatching THEN "returned" ELSE "loop"]
    /\ caller' = [caller EXCEPT ![c] = p]
    /\ UNCHANGED <<registry, current, snapshot, failed, delivered, stolen>>

(* Faulty variant: the flag is not consulted before the loop.                 *)
PublishAlwaysDrains(c, p) ==
    /\ pc[c] = "idle"
    /\ p # External => (pc[p] = "handler" /\ ~NestedCallLive(p))
    /\ queue' = Append(queue, c)
    /\ dispatching' = TRUE
    /\ pc' = [pc EXCEPT ![c] = "loop"]
    /\ caller' = [caller EXCEPT ![c] = p]
    /\ UNCHANGED <<registry, current, snapshot, failed, delivered, stolen>>

(* The first critical section of publish(): enqueue, then either return to    *)
(* the active dispatcher's mercy or become the dispatcher.                    *)
Publish(c, p) ==
    /\ pc[c] = "idle"
    /\ p # External => (pc[p] = "handler" /\ ~NestedCallLive(p))
    /\ queue' = Append(queue, c)
    /\ dispatching' = TRUE
    /\ pc' = [pc EXCEPT ![c] = IF dispatching THEN "returned" ELSE "loop"]
    /\ caller' = [caller EXCEPT ![c] = p]
    /\ UNCHANGED <<registry, current, snapshot, failed, delivered, stolen>>

Take(c) ==
    /\ pc[c] = "loop" /\ snapshot[c] = {}
    /\ queue # <<>>
    /\ queue' = Tail(queue)
    /\ current' = [current EXCEPT ![c] = Head(queue)]
    /\ snapshot' = [snapshot EXCEPT ![c] =
                      {s \in subscriptions : Head(queue) \in Matches[s]}]
    /\ UNCHANGED <<dispatching, registry, pc, caller, failed, delivered, stolen>>

(* Faulty variant: only the finally block clears the flag.                    *)
DrainedFlagLeft(c) ==
    /\ pc[c] = "loop" /\ snapshot[c] = {}
    /\ queue = <<>>
    /\ pc' = [pc EXCEPT ![c] = "finally"]
    /\ UNCHANGED <<queue, dispatching, registry, locals, delivered, stolen>>

Drained(c) ==
    /\ pc[c] = "loop" /\ snapshot[c] = {}
    /\ queue = <<>>
    /\ dispatching' = FALSE
    /\ pc' = [pc EXCEPT ![c] = "finally"]
    /\ UNCHANGED <<queue, registry, locals, delivered, stolen>>

Invoke(c) ==
    /\ pc[c] = "loop"
    /\ \E s \in Earliest(snapshot[c]) :
          /\ snapshot' = [snapshot EXCEPT ![c] = @ \ {s}]
          /\ delivered' = [delivered EXCEPT ![current[c]] = @ \cup {s}]
    /\ pc' = [pc EXCEPT ![c] = "handler"]
    /\ UNCHANGED <<queue, dispatching, registry, caller, current, failed, stolen>>

(* The handler returns or raises; BaseException is collected, not propagated. *)
HandlerEnds(c, raises) ==
    /\ pc[c] = "handler"
    /\ ~NestedCallLive(c)
    /\ pc' = [pc EXCEPT ![c] = "loop"]
    /\ failed' = [failed EXCEPT ![c] = @ \/ raises]
    /\ UNCHANGED <<queue, dispatching, registry, caller, current,
                   snapshot, delivered, stolen>>

(* The finally block: it clears _dispatching whenever it is set, and by then  *)
(* only another call can have set it.                                         *)
Finally(c) ==
    /\ pc[c] = "finally"
    /\ dispatching' = FALSE
    /\ stolen' = (stolen \/ dispatching)
    /\ pc' = [pc EXCEPT ![c] = IF failed[c] THEN "raised" ELSE "returned"]
    /\ UNCHANGED <<queue, registry, locals, delivered>>

Step(c) == \/ Take(c) \/ Drained(c) \/ Invoke(c) \/ Finally(c)
           \/ \E raises \in BOOLEAN : HandlerEnds(c, raises)

Next == \/ \E s \in Subs : Subscribe(s) \/ Unsubscribe(s)
        \/ \E c \in Events, p \in Events \cup {External} : Publish(c, p)
        \/ \E c \in Events : Step(c)

(* Every thread inside publish() keeps running and every handler returns.     *)
Fairness == \A c \in Events : WF_vars(Step(c))

Spec == Init /\ [][Next]_vars /\ Fairness
------------------------------------------------------------------------------
TypeOK ==
    /\ queue \in Seq(Events)
    /\ dispatching \in BOOLEAN
    /\ subscriptions \subseteq Subs
    /\ appended \in Nat
    /\ order \in [Subs -> Nat]
    /\ pc \in [Events -> PC]
    /\ caller \in [Events -> Events \cup {External}]
    /\ current \in [Events -> Events]
    /\ snapshot \in [Events -> SUBSET Subs]
    /\ failed \in [Events -> BOOLEAN]
    /\ delivered \in [Events -> SUBSET Subs]
    /\ stolen \in BOOLEAN

(* An event never sits in the queue with nobody to drain it, and the flag     *)
(* that makes later publishers return early is never left set by nobody: the  *)
(* early return in publish() relies on it (in_memory.py 78-82).               *)
NoOrphanedEvent ==
    (queue # <<>> \/ dispatching) => \E c \in Events : Active(c)

(* Handlers run serially as long as no finally block has cleared the flag of  *)
(* a dispatcher that started after its own loop ended (in_memory.py 109-112). *)
SerialUntilStolen ==
    ~stolen => \A c, d \in Events : Active(c) /\ Active(d) => c = d

(* "InMemoryEventBus serializes handler execution" (event_bus.md 23, the       *)
(* docstring at in_memory.py 28-33): no two calls run handlers at once.       *)
SerialHandlers ==
    \A c, d \in Events : pc[c] = "handler" /\ pc[d] = "handler" => c = d

(* Every publish() call comes back: re-entrant and concurrent publications    *)
(* never wait for each other (in_memory.py 77-115).                           *)
PublishReturns ==
    \A c \in Events : (pc[c] # "idle") ~> (pc[c] \in {"returned", "raised"})

(* The bus implements EventDelivery: FIFO, at most once and eventually per    *)
(* matching registered subscription, earliest registration first.             *)
Delivery == INSTANCE EventDelivery WITH
    registered <- subscriptions,
    published  <- {c \in Events : pc[c] # "idle"},
    pending    <- queue,
    due        <- [e \in Events |->
                     UNION {snapshot[c] : c \in {d \in Events : current[d] = e}}]

DeliversAsPromised == Delivery!Spec
==============================================================================
