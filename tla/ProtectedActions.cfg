SPECIFICATION FairSpec
CONSTANTS
    Customers = {c1, c2, c3}
    NoCustomer = nobody
    Held = {c1, c2}
    Families = {"identity", "address", "contact", "refund", "original"}
    MaxIntents = 3
    MaxAttempts = 2
    ChallengeTtl = 2
    ProofTtl = 2
    PendingTtl = 1
    MaxFaults = 2
CHECK_DEADLOCK FALSE
INVARIANTS
    AuthorityEarned
    TruthTold
PROPERTIES
    AbandonedTurnSettles
    ExchangeIsAllOrNothing
