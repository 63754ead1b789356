CONSTANTS
    i1 = i1
    o1 = o1
    o2 = o2
    s1 = s1
    s2 = s2
    Ids <- OneId
    Owners <- TwoOwners
    Sweepers <- OneSweeper
    Mortal <- Nobody
    Dedup = TRUE
    Window = 1
    Skew = 0
    DriftOf <- InStep
    Rewrites = FALSE
    Period = 3
    MaxHolds = 2
    Horizon = 2
SPECIFICATION Spec
INVARIANT OneReleasePerHold
