\* A gateway with two threads and a ceremony command share a tape, which may
\* be missing at the start; or a broker writes a bucket.  Any may die anywhere.
SPECIFICATION SinksSpec
CONSTANTS
    gateway = gateway
    ceremony = ceremony
    t1 = t1
    t2 = t2
    t3 = t3
    NoOne = NoOne
    ProcOf <- Home
    Procs <- Both
    Threads <- ThreeThreads
    MaxEmits = 3
    MaxPuts = 4
INVARIANTS
    TypeOK
    ChainIntact
    EmittedOnTape
    CorruptionStops
    BucketTypeOK
    BucketChainIntact
    VersionsChained
    EmittedVisible
PROPERTIES
    LocksReleased
