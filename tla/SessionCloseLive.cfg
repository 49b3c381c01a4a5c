SPECIFICATION FairCloseSpec
CONSTANTS
    w1 = w1
    w2 = w2
    l1 = l1
    l2 = l2
    LeaseOwners = {w1, w2}
    CloseOwners = {l1, r1}
    CloseOps = {l1, w1, w2}
    LiveCloser <- OneCloser
    Operations = {}
    Transitions = {}
    NONE = NONE
    LeaseDuration = 1
    Retention = 2
    CloseDuration = 3
    Tombstone = 1
    Skew = 0
    MaxFence = 6
    MaxPrincipal = 0
    MaxRevision = 0
    MaxFaults = 1
INVARIANTS
    ClosesOwnSession
PROPERTIES
    EventuallyGone
