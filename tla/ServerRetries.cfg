SPECIFICATION Spec
CONSTANTS
    a = a
    b = b
    None = None
    Ops <- OneOp
    Jobs <- OneOpJobs
    MaxAttempts = 4
    MaxFlips = 2
\* Operations are single-use, so the system comes to rest.
CHECK_DEADLOCK FALSE
INVARIANTS
    CycleHasDriverUnless
PROPERTIES
    CycleEnds
