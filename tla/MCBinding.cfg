\* Users may stop calling, and then the system rests.
CHECK_DEADLOCK FALSE
SPECIFICATION Spec
CONSTANTS
    Snapshots <- MCSnapshots
    Terminals = {"failed"}
    MaxSessions = 2
    MaxChanges = 1
    MaxPending = 1
    MaxEpisodes = 2
    Serial = "mine"
    HasAddress = TRUE
    Acceptable = {"device"}
    Blocked = {"unauthorized"}
    MaxRegistrations = 1
INVARIANTS
    TypeOK
    EpisodeSound
    OneRecoveryPerAbsence
    AbsenceHasDriver
    SettledProjection
