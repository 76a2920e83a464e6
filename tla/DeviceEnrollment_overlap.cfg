\* Two requests of one worker with three enrollments overlap in every way.
CONSTANTS
    Worker = {w1}
    Key = {k1, k2}
    NoKey = NoKey
    Request = {r1, r2}
    RowNumber = {1, 2, 3}
SPECIFICATION Spec
SYMMETRY Symmetry
INVARIANT TypeOK OneActiveDevice
PROPERTY SupersededStaysUnbound ImplementsWorkerDevice
CHECK_DEADLOCK FALSE
