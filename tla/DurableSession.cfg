SPECIFICATION Spec
CONSTANTS
    LeaseOwners = {w1, w2}
    CloseOwners = {r1}
    CloseOps = {c1}
    Operations = {o1, o2}
    Transitions = {t1}
    NONE = NONE
    LeaseDuration = 2
    Retention = 3
    CloseDuration = 1
    Tombstone = 1
    Skew = 1
    MaxFence = 3
    MaxPrincipal = 1
    MaxRevision = 2
SYMMETRY Symmetry
INVARIANTS
    SessionCoherent
PROPERTIES
    LapsedLeaseIsFinal
    NoWriteAfterClose
    FencedSuccession
