------------------------------- MODULE Inventory -------------------------------
(* The transport inventory of an ADB server and the one observation session   *)
(* that reports it, as far as its consumers can tell: what Observer shows of  *)
(* AdbDevicesObserver (OneSession) reduced to its events. A session is active *)
(* from start() on, announces Started, then the complete inventory whenever   *)
(* it changed, becomes inactive, and then announces its end: by that time the *)
(* next session may be active. The bus is the FIFO of what was published and  *)
(* not yet dispatched.                                                        *)
EXTENDS Naturals, Sequences, TransportBinding

CONSTANTS Snapshots,    \* the inventories that occur
          Terminals,    \* the ends of a session that occur
          MaxSessions,  \* bound: generations allocated
          MaxChanges,   \* bound: changes of the inventory
          MaxPending    \* bound: events of a session that wait for dispatch

ASSUME InventoryAssumption == Terminals \subseteq {"failed", "stopped"}
                          /\ MaxSessions \in Nat \ {0} /\ MaxChanges \in Nat
                          /\ MaxPending \in Nat \ {0}

Sessions == 1..MaxSessions

VARIABLES
    generation,  \* the last session's
    link,        \* "down": no session is active, "opening", "streaming"
    ending,      \* sessions that are inactive and have their end to announce
    inventory,   \* what the server would report now
    unseen,      \* the session has not published it yet
    changes,     \* how often it changed
    bus          \* events: kind, session, snapshot

inventoryVars == <<generation, link, ending, inventory, unseen, changes, bus>>

Links == {"down", "opening", "streaming"}
Events == [kind : Terminals \cup {"started"}, session : Sessions]
          \cup [kind : {"snapshot"}, session : Sessions, snapshot : Snapshots]

(* active_session_id, 0 for None                                              *)
Active == IF link # "down" THEN generation ELSE 0

Publish(event) == Len(bus) < MaxPending /\ bus' = Append(bus, event)

InventoryInit ==
    /\ generation = 0 /\ link = "down" /\ ending = {} /\ changes = 0 /\ bus = <<>>
    /\ inventory \in Snapshots /\ unseen = FALSE

OpenSession ==
    /\ link = "down" /\ generation < MaxSessions
    /\ generation' = generation + 1
    /\ link' = "opening"
    /\ UNCHANGED <<ending, inventory, unseen, changes, bus>>

Establish ==
    /\ link = "opening"
    /\ link' = "streaming"
    /\ unseen' = TRUE
    /\ Publish([kind |-> "started", session |-> generation])
    /\ UNCHANGED <<generation, ending, inventory, changes>>

Report ==
    /\ link = "streaming" /\ unseen
    /\ unseen' = FALSE
    /\ Publish([kind |-> "snapshot", session |-> generation, snapshot |-> inventory])
    /\ UNCHANGED <<generation, link, ending, inventory, changes>>

(* Faulty variant: an end is announced of a session that never was.           *)
BreakOffAnything ==
    /\ link' = "down"
    /\ ending' = ending \cup {generation}
    /\ UNCHANGED <<generation, inventory, unseen, changes, bus>>

(* A session whose own publication raised has no end to announce.             *)
BreakOff ==
    /\ Active # 0
    /\ link' = "down"
    /\ \/ ending' = ending \cup {generation}
       \/ link = "streaming" /\ ending' = ending
    /\ unseen' = FALSE
    /\ UNCHANGED <<generation, inventory, changes, bus>>

AnnounceEnd ==
    /\ \E g \in ending, kind \in Terminals :
          /\ ending' = ending \ {g}
          /\ Publish([kind |-> kind, session |-> g])
    /\ UNCHANGED <<generation, link, inventory, unseen, changes>>

Change ==
    /\ changes < MaxChanges
    /\ changes' = changes + 1
    /\ inventory' \in Snapshots \ {inventory}
    /\ unseen' = (link = "streaming")
    /\ UNCHANGED <<generation, link, ending, bus>>

InventoryTypeOK ==
    /\ generation \in 0..MaxSessions
    /\ link \in Links
    /\ ending \subseteq Sessions
    /\ inventory \in Snapshots
    /\ unseen \in BOOLEAN
    /\ changes \in 0..MaxChanges
    /\ bus \in Seq(Events)
==============================================================================
