---------------------------- MODULE MCObservation ----------------------------
(* Instances of the observation supervisor over its observer.                 *)
EXTENDS ObservationSupervisor

CONSTANTS closing, owner

TwoStoppers == {closing, owner}
NoStopper == {}
==============================================================================
