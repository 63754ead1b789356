CONSTANTS
    i1 = i1
    o1 = o1
    o2 = o2
    s1 = s1
    s2 = s2
    Ids <- OneId
    Owners <- TwoOwners
    Sweepers <- OneSweeper
    Mortal <- OwnersAndSweeper
    Dedup = FALSE
    Window = 2
    Skew = 1
    DriftOf <- Apart
    Rewrites = TRUE
    Period = 3
    MaxHolds = 1
    Horizon = 2
SPECIFICATION Spec
INVARIANT OneReleasePerHold
INVARIANT OneVerdictPerHold
INVARIANT TapeAgreesWithRow
INVARIANT NoLateApproval
INVARIANT ObservationsAccounted
INVARIANT FlagsWithinExecutions
PROPERTY ExpiresOnlyWhenDue
