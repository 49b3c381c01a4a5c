SPECIFICATION CloseSpec
CONSTANTS
    w1 = w1
    w2 = w2
    l1 = l1
    l2 = l2
    LeaseOwners = {w1}
    CloseOwners = {l1, r1}
    CloseOps = {l1, w1}
    LiveCloser <- OneCloser
    Operations = {o1}
    Transitions = {t1}
    NONE = NONE
    LeaseDuration = 1
    Retention = 2
    CloseDuration = 1
    Tombstone = 1
    Skew = 0
    MaxFence = 3
    MaxPrincipal = 1
    MaxRevision = 1
    MaxFaults = 1
VIEW WithoutClaims
INVARIANTS
    CleanupSuffices
PROPERTIES
    ImplementsDurableSession
