SPECIFICATION FairSpec
CONSTANTS
    Skus = {s1}
    MaxQuantity = 2
    MaxOrderUnits = 1
    MaxKeys = 3
    MaxFaults = 2
    MaxCrashes = 2
INVARIANTS
    RecordsAgree
PROPERTIES
    CartChangesAreConsented
    YesIsAnswered
CHECK_DEADLOCK FALSE
