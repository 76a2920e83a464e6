\* The app, one request at a time, a tenant whose workers do not move.
CONSTANTS
    p1 = p1
    p2 = p2
    Project = {p1, p2}
    NoProject = NoProject
    NoChallenge = NoChallenge
    Radius = 100
    Assigned <- FirstDayOnly
    LastDay = 1
    Challenge = {c1, c2, c3}
    Request = {r1}
    Channel = {"mobile"}
    Multi = FALSE
    UniqueChallenge = TRUE
    Fix <- CountedFixes
    MaxEvents = 4
SPECIFICATION Spec
SYMMETRY Symmetry
INVARIANT NoDuplicateCheckIn
CHECK_DEADLOCK FALSE
