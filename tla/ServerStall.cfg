SPECIFICATION Spec
CONSTANTS
    a = a
    b = b
    None = None
    Ops <- OneOp
    Jobs <- OneOpJobs
    MaxAttempts = 3
    MaxFlips = 0
\* Operations are single-use, so the system comes to rest.
CHECK_DEADLOCK FALSE
INVARIANTS
    UnsatisfiedIsRetried
