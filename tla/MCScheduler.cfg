SPECIFICATION Spec
CONSTANTS
    shot = shot
    cron = cron
    Once <- MCOnce
    Recurring <- MCRecurring
    Occurrences <- MCOccurrences
    MaxTime = 3
    Skew = 1
\* The clock is bounded and registrations are single-use, so the system ends.
CHECK_DEADLOCK FALSE
INVARIANTS
    TypeOK
    CancelledOnceIsSilent
    OccurrencesInOrder
PROPERTIES
    NoDeliveryAfterWithdrawal
    WithdrawnWindsDown
    OnceIsDelivered
