\* Two batches that are confirmed, and confirmed again, at once.
CONSTANTS
    project = project
    worker = worker
    worker2 = worker2
    assignment = assignment
    schedule = schedule
    supervisor = supervisor
    Key <- Keys
    Tab <- Tabs
    Flushed <- Coded
    Value = {1, 2}
    NoRow = NoRow
    Sheet <- Sheets
    Batch = {b1, b2}
    Request = {r1, r2}
SPECIFICATION Spec
SYMMETRY Symmetry
INVARIANT RetryIsIdempotent
CHECK_DEADLOCK FALSE
