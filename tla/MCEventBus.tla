------------------------------ MODULE MCEventBus ------------------------------
(* Three publish() calls and two subscriptions, the second for a base class   *)
(* of all the events and the first for one subclass: the smallest instance in *)
(* which one call ends, a second becomes dispatcher, and a third arrives      *)
(* before the first has left its finally block.                               *)
EXTENDS EventBus

CONSTANTS e1, e2, e3, narrow, wide

MCEvents == {e1, e2, e3}
MCSubs == {narrow, wide}
MCMatches == [s \in MCSubs |-> IF s = narrow THEN {e1, e3} ELSE MCEvents]
==============================================================================
