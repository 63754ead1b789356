\* Every call on every combination of facts, decided twice.
SPECIFICATION Spec
INVARIANTS
    TaintNeverLoosens
    DemotionNeverRuns
    SpentBoundNeverRuns
    TaintedExternalWriteHeld
    StalePremiseNeverRuns
CHECK_DEADLOCK FALSE
