CONSTANTS
    i1 = i1
    o1 = o1
    o2 = o2
    s1 = s1
    s2 = s2
    Ids <- OneId
    Owners <- OneOwner
    Sweepers <- TwoSweepers
    Mortal <- Nobody
    Dedup = FALSE
    Window = 1
    Skew = 0
    DriftOf <- InStep
    Rewrites = TRUE
    Period = 4
    MaxHolds = 1
    Horizon = 2
SPECIFICATION FairSpec
PROPERTY EveryHoldResolves
PROPERTY EveryExpiryRecorded
