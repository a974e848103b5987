SPECIFICATION Spec
CONSTANTS
    e1 = e1
    e2 = e2
    e3 = e3
    narrow = narrow
    wide = wide
    External = External
    Events <- MCEvents
    Subs <- MCSubs
    Matches <- MCMatches
\* Once every event is published and handled the bus is idle for good.
CHECK_DEADLOCK FALSE
INVARIANTS
    SerialHandlers


