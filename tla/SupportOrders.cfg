SPECIFICATION FairSpec
CHECK_DEADLOCK FALSE
CONSTANTS
    s1 = s1
    s2 = s2
    p1 = p1
    p2 = p2
    d = d
    NoOrder = NoOrder
    Sessions = {s1, s2}
    Orders = {p1, p2, d}
    Shipped = {d}
    Delivered = {d}
    Captured <- Price
    Mine <- Shared
    Amounts = {1, 2, 3}
    HumanAbove = 2
    Returnless = 1
    BatchMax = 2
    MaxRequests = 2
    MaxFaults = 1
PROPERTIES
    ConfirmedSettles
INVARIANTS
    LedgersCoherent
    ConsentNamed
    TruthTold
