\* Both ways in on three days; workers may move; submissions of one challenge
\* overlap, and two closers overlap each other and attendance.
CONSTANTS
    p1 = p1
    p2 = p2
    Project = {p1, p2}
    NoProject = NoProject
    NoChallenge = NoChallenge
    Radius = 100
    Assigned <- AllButSecond
    LastDay = 2
    Challenge = {c1, c2, c3}
    Request = {r1, r2}
    Closer = {k1, k2}
    Channel = {"mobile", "web"}
    Multi = TRUE
    UniqueChallenge = TRUE
    Fix <- CountedFixes
    MaxEvents = 4
SPECIFICATION TimesheetSpec
SYMMETRY Symmetry
CONSTRAINT OneChallengeAtATime OnePeriod Bounded
INVARIANT TimesheetTypeOK ChallengeSingleUse OneOpenSite
PROPERTY SnapshotStands
CHECK_DEADLOCK FALSE
