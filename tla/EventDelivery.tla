---------------------------- MODULE EventDelivery ----------------------------
(* What the event bus promises a publisher, without the mechanism that does   *)
(* it: one FIFO of published events; each event is taken from it once and is  *)
(* then owed to the subscriptions that match it and are registered at that    *)
(* instant; every owed delivery is made once, earliest registration first.    *)
(* How many threads dispatch, and how their deliveries interleave, is left    *)
(* open on purpose: see EventBus.                                             *)
EXTENDS Naturals, Sequences

CONSTANTS Events,   \* event occurrences, each published at most once
          Subs,     \* subscription tokens, each issued by one subscribe() call
          Matches   \* Matches[s]: the events that are instances of s's event type

VARIABLES registered, \* subscriptions in force
          order,      \* order[s]: rank of s in registration order, 0 before subscribe()
          published,  \* events accepted by publish()
          pending,    \* accepted events that no dispatcher has taken, oldest first
          due,        \* due[e]: deliveries of e still owed
          delivered   \* delivered[e]: the subscriptions whose handler got e

dvars == <<registered, order, published, pending, due, delivered>>

Init == /\ registered = {}
        /\ order = [s \in Subs |-> 0]
        /\ published = {}
        /\ pending = <<>>
        /\ due = [e \in Events |-> {}]
        /\ delivered = [e \in Events |-> {}]

Subscribe(s) ==
    /\ order[s] = 0
    /\ order' = [order EXCEPT ![s] = order'[s]]
    /\ \A t \in Subs : order[t] < order'[s]
    /\ registered' = registered \cup {s}
    /\ UNCHANGED <<published, pending, due, delivered>>

Unsubscribe(s) ==
    /\ s \in registered
    /\ registered' = registered \ {s}
    /\ UNCHANGED <<order, published, pending, due, delivered>>

Publish(e) ==
    /\ e \notin published
    /\ published' = published \cup {e}
    /\ pending' = Append(pending, e)
    /\ UNCHANGED <<registered, order, due, delivered>>

Take ==
    /\ pending # <<>>
    /\ pending' = Tail(pending)
    /\ due' = [due EXCEPT ![Head(pending)] =
                  {s \in registered : Head(pending) \in Matches[s]}]
    /\ UNCHANGED <<registered, order, published, delivered>>

Deliver(e) ==
    /\ \E s \in due[e] :
          /\ \A t \in due[e] : order[s] <= order[t]
          /\ due' = [due EXCEPT ![e] = @ \ {s}]
          /\ delivered' = [delivered EXCEPT ![e] = @ \cup {s}]
    /\ UNCHANGED <<registered, order, published, pending>>

Next == \/ \E s \in Subs : Subscribe(s) \/ Unsubscribe(s)
        \/ \E e \in Events : Publish(e) \/ Deliver(e)
        \/ Take

Safety == Init /\ [][Next]_dvars

Spec == Safety /\ WF_dvars(Take) /\ \A e \in Events : WF_dvars(Deliver(e))
==============================================================================
