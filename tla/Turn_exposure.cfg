\* Two principals, one of which causes the other; turns roll and processes die.
SPECIFICATION Spec
CONSTANTS
    parent = parent
    child = child
    Nobody = Nobody
    NoKey = NoKey
    Principals <- MCPrincipals
    Ops <- MCOps
    Manifest <- MCManifest
    k = k
    Keys = {k}
    supplied <- MCsupplied
    optable <- MCoptable
    Grants <- MCGrants
    Offset <- MCOffset
    Skew = 1
    Rolls = TRUE
    MaxClock = 1
    MaxRecords = 1
    MaxHeld = 1
INVARIANTS
    TypeOK
    SeenIsTainted
    AutonomousWriteUnexposed
    EveryCauseRecorded
    FrozenTaintCovers
