CONSTANTS
    i1 = i1
    o1 = o1
    o2 = o2
    s1 = s1
    s2 = s2
    Ids <- OneId
    Owners <- OneOwner
    Sweepers <- OneSweeper
    Mortal <- Nobody
    Dedup = FALSE
    Window = 2
    Skew = 1
    DriftOf <- InStep
    Rewrites = FALSE
    Period = 3
    MaxHolds = 1
    Horizon = 2
SPECIFICATION Spec
PROPERTY ExpiredNeverRuns
