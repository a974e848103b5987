SPECIFICATION Spec
CONSTANTS
    MaxSessions = 4
    MaxAttempts = 3
    closing = closing
    owner = owner
    Stoppers <- NoStopper
    Closer = closing
    None = None
\* start() and close() are called at most once, so the system comes to rest.
CHECK_DEADLOCK FALSE
INVARIANTS
    CycleHasDriverUnless
PROPERTIES
    FailureIsAnswered
    CycleEnds
