SPECIFICATION VoiceCallSpec
CONSTANTS
    Turns = {t1, t2}
    Durable = TRUE
    LeaseOwners = {w1}
    CloseOwners = {k1, r1}
    CloseOps = {k1, r1}
    Operations = {}
    Transitions = {}
    NONE = NONE
    Worker = w1
    JobClose = k1
    LeaseDuration = 3
    Interval = 2
    MaxRequest = 2
    Retention = 5
    CloseDuration = 1
    Tombstone = 1
    Skew = 0
    MaxFence = 5
    MaxPrincipal = 0
    MaxRevision = 0
    MaxFaults = 3
INVARIANTS
    ClosesCleanly
    RecoveryRunsAlone
    SleeperHoldsLease
    ReportsAreTrue
PROPERTIES
    CloseReturns
    EverythingReleased
CHECK_DEADLOCK FALSE
