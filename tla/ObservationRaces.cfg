SPECIFICATION Spec
CONSTANTS
    MaxSessions = 3
    MaxAttempts = 2
    closing = closing
    owner = owner
    Stoppers <- TwoStoppers
    Closer = closing
    None = None
\* start() and close() are called at most once, so the system comes to rest.
CHECK_DEADLOCK FALSE
INVARIANTS
    TypeOK
    OneSession
    OneEpisode
    CycleGated
    RestsOnItsSession
    CloseQuiesces
PROPERTIES
    AdoptionMovesForward
    StopReturns
