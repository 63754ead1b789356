\* A held write that is released, its calls one at a time.
SPECIFICATION Spec
CHECK_DEADLOCK FALSE
CONSTANTS
    r1 = r1
    r2 = r2
    r3 = r3
    w1 = w1
    w2 = w2
    w3 = w3
    Cost <- MCUnit
    Reads = {r1}
    Writes = {w1, w2}
    Held = {w1}
    Width = 1
    Faulty = {}
    EgressBudget = 1
    Tolerance = 1
    LastPeriod = 1
INVARIANTS
    EveryWriteDraws
