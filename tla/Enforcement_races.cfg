\* Three concurrent invocations of a parent and its child over one key, a crash
\* anywhere, one clear: under caps of three and under caps of one.
SPECIFICATION Spec
CONSTANTS
    a1 = a1
    a2 = a2
    a3 = a3
    k1 = k1
    k2 = k2
    parent = parent
    child = child
    NoKey = NoKey
    Nobody = Nobody
    Attempts <- ThreeCallers
    Keys <- OneKey
    Principals <- Tree
    PrincipalOf <- ActsFor
    Reversible <- Recoverable
    LegacyKeys <- None
    Verbs <- ThreeVerbs
    Caps <- RoomyOrTight
    MaxClears = 1
INVARIANTS
    ExecutionsWithinBudget
    RefusedCallSparesPool
    AtMostOncePerKey
    ClaimAccounting
    ReplayBackedByLedger
    BurnedKeyJournalled
PROPERTIES
    SettledRowIsFinal
