------------------------------- MODULE Observer -------------------------------
(* AdbDevicesObserver (adb/transport/observation/observer.py) and the source  *)
(* each of its sessions reads (source.py). A session is named by its          *)
(* generation; sess[g] follows the thread that runs _run_session for it. A    *)
(* stopper p is one call of stop() or close(). Actions are critical sections  *)
(* of the observer's or the source's lock, socket operations and              *)
(* publications. The bus is the FIFO of what was published and not delivered: *)
(* another thread may be its dispatcher, so publish() can return first.       *)
(* Snapshots change nothing here and are not put on the bus; one address      *)
(* candidate stands for the list getaddrinfo returns.                         *)
EXTENDS Naturals, Sequences

CONSTANTS MaxSessions,  \* bound: generations allocated
          Stoppers      \* calls of stop() and close()

ASSUME ObserverAssumption == MaxSessions \in Nat \ {0}

Sessions == 1..MaxSessions

VARIABLES
    generation,  \* _generation
    active,      \* generation of _active_session_id, _source and _thread, or 0
    obsClosed,   \* the observer's _closed
    sess,        \* sess[g]: see SessionStages
    srcClosed,   \* srcClosed[g]: _closed of the source of g
    cut,         \* cut[g]: source.close() has shut the socket of g down
    terminal,    \* terminal[g]: the event the thread of g is to end with, or "none"
    stop,        \* stop[p]: see StopStages
    target,      \* target[p]: the session p found active, or 0
    bus          \* lifecycle events on their way, <<kind, generation>>

observerVars == <<generation, active, obsClosed, sess, srcClosed, cut, terminal,
                  stop, target, bus>>

Failures == {"server_connection", "service_or_protocol"}
Outcomes == Failures \cup {"stopped"}
Evidence == Outcomes \cup {"started"}

(* "resolving": no socket yet. "connecting": socket registered, connect and   *)
(* handshake. "opened": in stream mode, Started not published. "ending": in   *)
(* the finally block. "publishing": inactive, terminal event not published.   *)
SessionStages == {"unused", "resolving", "connecting", "opened", "streaming",
                  "ending", "publishing", "ended"}

(* "reading": of the active source and thread. "closing": in source.close().  *)
(* "cutting": about to shut the socket down. "joining": thread.join().        *)
StopStages == {"idle", "reading", "closing", "cutting", "joining", "done"}

Running(g) == sess[g] \in {"resolving", "connecting", "opened", "streaming", "ending"}
HasSocket(g) == sess[g] \in {"connecting", "opened", "streaming"}

ObserverInit ==
    /\ generation = 0 /\ active = 0 /\ obsClosed = FALSE
    /\ sess = [g \in Sessions |-> "unused"]
    /\ srcClosed = [g \in Sessions |-> FALSE]
    /\ cut = [g \in Sessions |-> FALSE]
    /\ terminal = [g \in Sessions |-> "none"]
    /\ stop = [p \in Stoppers |-> "idle"]
    /\ target = [p \in Stoppers |-> 0]
    /\ bus = <<>>
------------------------------------------------------------------------------
(* start(), except that it raises when StartAccepted does not hold.           *)
StartAccepted == ~obsClosed /\ active = 0

StartSession ==
    /\ StartAccepted
    /\ generation < MaxSessions
    /\ generation' = generation + 1
    /\ active' = generation + 1
    /\ sess' = [sess EXCEPT ![generation + 1] = "resolving"]
    /\ UNCHANGED <<obsClosed, srcClosed, cut, terminal, stop, target, bus>>

(* The session leaves open() or its stream with an outcome.                   *)
EndWith(g, outcome) ==
    /\ sess' = [sess EXCEPT ![g] = "ending"]
    /\ terminal' = [terminal EXCEPT ![g] = outcome]
    /\ UNCHANGED <<generation, active, obsClosed, srcClosed, cut, stop, target, bus>>

Advance(g, from, to) ==
    /\ sess[g] = from
    /\ sess' = [sess EXCEPT ![g] = to]
    /\ UNCHANGED <<generation, active, obsClosed, srcClosed, cut, terminal, stop, target, bus>>

(* Faulty variant: a socket is registered whether or not the source is closed.*)
RegisterUnchecked(g) == Advance(g, "resolving", "connecting")

(* _register_socket: refused once the source is closed.                       *)
Register(g) == ~srcClosed[g] /\ Advance(g, "resolving", "connecting")

Connected(g) == ~cut[g] /\ Advance(g, "connecting", "opened")

(* open() raises, its sockets and the server permitting. The startup deadline *)
(* of the handshake passes without a look at whether the source is closed.    *)
OpenFails(g) ==
    \/ sess[g] = "resolving" /\ ~srcClosed[g] /\ EndWith(g, "server_connection")
    \/ sess[g] = "connecting" /\ EndWith(g, "server_connection")
    \/ sess[g] = "connecting" /\ ~cut[g] /\ EndWith(g, "service_or_protocol")

(* Whatever else open() fails with after source.close() is _SourceClosed.     *)
OpenAbandoned(g) ==
    /\ sess[g] \in {"resolving", "connecting"} /\ srcClosed[g]
    /\ EndWith(g, "stopped")

PublishStarted(g) ==
    /\ sess[g] = "opened"
    /\ sess' = [sess EXCEPT ![g] = "streaming"]
    /\ bus' = Append(bus, <<"started", g>>)
    /\ UNCHANGED <<generation, active, obsClosed, srcClosed, cut, terminal, stop, target>>

(* The stream breaks by itself, or the server sends what cannot be parsed.    *)
StreamFails(g) ==
    /\ sess[g] = "streaming" /\ ~cut[g]
    /\ \E outcome \in {IF srcClosed[g] THEN "stopped" ELSE "server_connection",
                       "service_or_protocol"} : EndWith(g, outcome)

StreamCut(g) == sess[g] = "streaming" /\ cut[g] /\ EndWith(g, "stopped")

(* publish() raises because some handler failed: the thread dies without a    *)
(* terminal event.                                                            *)
PublishRaises(g) == sess[g] = "streaming" /\ EndWith(g, "none")

(* The finally block, _mark_inactive included.                                *)
MarkInactive(g) ==
    /\ sess[g] = "ending"
    /\ active' = IF active = g THEN 0 ELSE active
    /\ sess' = [sess EXCEPT ![g] = IF terminal[g] = "none" THEN "ended" ELSE "publishing"]
    /\ UNCHANGED <<generation, obsClosed, srcClosed, cut, terminal, stop, target, bus>>

PublishTerminal(g) ==
    /\ sess[g] = "publishing"
    /\ sess' = [sess EXCEPT ![g] = "ended"]
    /\ bus' = Append(bus, <<terminal[g], g>>)
    /\ terminal' = [terminal EXCEPT ![g] = "none"]
    /\ UNCHANGED <<generation, active, obsClosed, srcClosed, cut, stop, target>>

SessionStep(g) ==
    \/ Register(g) \/ Connected(g) \/ OpenFails(g) \/ OpenAbandoned(g)
    \/ PublishStarted(g) \/ StreamCut(g) \/ MarkInactive(g) \/ PublishTerminal(g)
------------------------------------------------------------------------------
CallStop(p) ==
    /\ stop[p] = "idle"
    /\ stop' = [stop EXCEPT ![p] = "reading"]
    /\ UNCHANGED <<generation, active, obsClosed, sess, srcClosed, cut, terminal, target, bus>>

(* close() goes on as stop(). Later calls return at once and are left out.    *)
CallClose(p) ==
    /\ stop[p] = "idle" /\ ~obsClosed
    /\ stop' = [stop EXCEPT ![p] = "reading"]
    /\ obsClosed' = TRUE
    /\ UNCHANGED <<generation, active, sess, srcClosed, cut, terminal, target, bus>>

(* Faulty variant: stop() gives the session up before its thread has ended.   *)
StopReadForgetting(p) ==
    /\ stop[p] = "reading"
    /\ target' = [target EXCEPT ![p] = active]
    /\ stop' = [stop EXCEPT ![p] = IF active = 0 THEN "done" ELSE "closing"]
    /\ active' = 0
    /\ UNCHANGED <<generation, obsClosed, sess, srcClosed, cut, terminal, bus>>

StopRead(p) ==
    /\ stop[p] = "reading"
    /\ target' = [target EXCEPT ![p] = active]
    /\ stop' = [stop EXCEPT ![p] = IF active = 0 THEN "done" ELSE "closing"]
    /\ UNCHANGED <<generation, active, obsClosed, sess, srcClosed, cut, terminal, bus>>

(* source.close() up to its lock: the socket registered now is the one to cut.*)
SourceClose(p) ==
    LET g == target[p] IN
    /\ stop[p] = "closing"
    /\ srcClosed' = [srcClosed EXCEPT ![g] = TRUE]
    /\ stop' = [stop EXCEPT ![p] = IF ~srcClosed[g] /\ HasSocket(g) THEN "cutting"
                                   ELSE "joining"]
    /\ UNCHANGED <<generation, active, obsClosed, sess, cut, terminal, target, bus>>

CutSocket(p) ==
    /\ stop[p] = "cutting"
    /\ cut' = [cut EXCEPT ![target[p]] = TRUE]
    /\ stop' = [stop EXCEPT ![p] = "joining"]
    /\ UNCHANGED <<generation, active, obsClosed, sess, srcClosed, terminal, target, bus>>

Joined(p) ==
    /\ stop[p] = "joining" /\ sess[target[p]] = "ended"
    /\ stop' = [stop EXCEPT ![p] = "done"]
    /\ UNCHANGED <<generation, active, obsClosed, sess, srcClosed, cut, terminal, target, bus>>

StopStep(p) == StopRead(p) \/ SourceClose(p) \/ CutSocket(p) \/ Joined(p)
------------------------------------------------------------------------------
ObserverTypeOK ==
    /\ generation \in 0..MaxSessions
    /\ active \in 0..MaxSessions
    /\ obsClosed \in BOOLEAN
    /\ sess \in [Sessions -> SessionStages]
    /\ srcClosed \in [Sessions -> BOOLEAN]
    /\ cut \in [Sessions -> BOOLEAN]
    /\ terminal \in [Sessions -> Outcomes \cup {"none"}]
    /\ stop \in [Stoppers -> StopStages]
    /\ target \in [Stoppers -> 0..MaxSessions]
    /\ bus \in Seq(Evidence \X Sessions)

(* The active generation is exactly the one whose thread still owns a source: *)
(* at most one session reads at any moment and it is the newest, whatever     *)
(* start(), stop() and dying threads do in between (observer.py 87-112,       *)
(* 184-193).                                                                  *)
OneSession ==
    /\ \A g \in Sessions : Running(g) <=> active = g
    /\ active # 0 => active = generation

(* Every stop() and close() returns: the socket it has to shut down is always *)
(* the one the session thread will block on (source.py 96-114, 159-163).      *)
StopReturns == \A p \in Stoppers : (stop[p] # "idle") ~> (stop[p] = "done")
==============================================================================
