------------------------------- MODULE MCServer -------------------------------
(* Two instances of the supervisor. Two operations, each any of start, stop,  *)
(* set_recovery_enabled(True) and reconcile, race each other, disabling,      *)
(* close() and one retry; one operation races three attempts of its own cycle,*)
(* the least for a retry's token to be stored late over a newer one.          *)
EXTENDS ServerSupervisor

CONSTANTS a, b

TwoOps == {a, b}
TwoOpsJobs == TwoOps \X (1..MaxAttempts)
OneOp == {a}
OneOpJobs == OneOp \X (1..MaxAttempts)
==============================================================================
