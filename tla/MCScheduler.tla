------------------------------ MODULE MCScheduler ------------------------------
(* One one-shot and one recurring registration over a clock of four instants  *)
(* with occurrences at 1, 2 and 3: a callback delayed past the next           *)
(* occurrence, a timer that wakes one instant early, and a cancel() or        *)
(* close() at every point of both callbacks are all reachable.                *)
EXTENDS Scheduler

CONSTANTS shot, cron

MCOnce == {shot}
MCRecurring == {cron}
MCOccurrences == 1..MaxTime
==============================================================================
