\* Expected violation: approval and rejection of one decision overlap.
CONSTANTS
    c1 = c1
    d1 = d1
    d2 = d2
    w1 = w1
    w2 = w2
    Case = {c1}
    Decision = {d1, d2}
    DecisionType = {t1}
    Request = {r1, r2}
    MaxActions = 3
    Worker = {w1, w2}
    PlannedOf <- PlannedWorkers
    ActualOf <- ActualWorkers
    ActionLimit = 2
SPECIFICATION Spec
SYMMETRY Symmetry
INVARIANT NoContradiction
CHECK_DEADLOCK FALSE
