\* Two calls in flight at a time, one of them a release, over two periods.
SPECIFICATION Spec
CHECK_DEADLOCK FALSE
CONSTANTS
    r1 = r1
    r2 = r2
    r3 = r3
    w1 = w1
    w2 = w2
    w3 = w3
    Cost <- MCUnit
    Reads = {r1, r2, r3}
    Writes = {w1, w2, w3}
    Held = {w1}
    Width = 2
    Faulty = {r1, r2, r3, w2}
    EgressBudget = 1
    Tolerance = 1
    LastPeriod = 1
SYMMETRY Alike
INVARIANTS
    OverrunBounded
    CrossingSignalledOnce
    InlineRunsMetered
