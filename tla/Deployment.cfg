SPECIFICATION DeploymentSpec
CONSTANTS
    r1 = r1
    r2 = r2
    m1 = m1
    m2 = m2
    m3 = m3
    t1 = t1
    s1 = s1
    s2 = s2
    FREE = FREE
    Runners = {r1, r2}
    Builds <- MCBuilds
    Expected <- MCExpected
    Earlier <- MCEarlier
    VendorVersion = 2
    Tenants = {t1}
    Sessions = {s1, s2}
    TenantOf <- MCTenantOf
    Order <- MCOrder
    Defect <- MCDefect
    Batch = 1
    MaxInventory = 5
INVARIANTS
    HistoryTellsSchema
    OnlyStraddlersAreLeftBehind
PROPERTY
    SweepReachesEveryRow
CHECK_DEADLOCK FALSE
