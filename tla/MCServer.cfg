SPECIFICATION Spec
CONSTANTS
    a = a
    b = b
    None = None
    Ops <- TwoOps
    Jobs <- TwoOpsJobs
    MaxAttempts = 2
    MaxFlips = 0
\* Operations are single-use, so the system comes to rest.
CHECK_DEADLOCK FALSE
INVARIANTS
    TypeOK
    ResultConsistent
    SatisfiedMeansSo
    IntentRespected
    CycleGated
    CloseQuiesces
PROPERTIES
    CallsReturn
    RunsRecoveryCycles
