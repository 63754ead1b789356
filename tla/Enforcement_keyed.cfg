\* Callers without operator clears implement the abstract key; every verb.
SPECIFICATION FairSpec
CONSTANTS
    a1 = a1
    a2 = a2
    a3 = a3
    k1 = k1
    k2 = k2
    parent = parent
    child = child
    NoKey = NoKey
    Nobody = Nobody
    Attempts <- TwoCallers
    Keys <- TwoKeys
    Principals <- Tree
    PrincipalOf <- ActsFor
    Reversible <- Recoverable
    LegacyKeys <- SecondKey
    Verbs <- Kinds
    Caps <- OneCallEach
    MaxClears = 0
PROPERTIES
    ImplementsKeyedEffect
    LiveClaimSettles
