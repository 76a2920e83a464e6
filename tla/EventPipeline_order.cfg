\* Three checkpoints of a night in any order, two policies listed at one place, one switched off.
CONSTANTS
    None = None
    DAY = DAY
    NIGHT = NIGHT
    mine = mine
    tono = tono
    v1 = v1
    DayLength = 12
    Shifts = {DAY, NIGHT}
    Template <- Templates
    Sites = {mine}
    SiteZone <- SiteZones
    TenantZone = 3
    Workers = {tono}
    Dates = {0, 1}
    Rosters <- RosterChoices
    Versions = {v1}
    Messages = {m1, m2, m3}
    Occurrences <- OutOfOrder
    Fingerprinted = {m1, m2, m3}
    LegacyEvents = {}
    Mapping <- Types
    Policies <- ListedTogether
    Radius <- Radii
    RestConfigured = FALSE
    Callers = {c1}
    Instants = {11}
    MaxEvents = 3
SPECIFICATION Spec
SYMMETRY Interchangeable
INVARIANT OrderIsJudged
CHECK_DEADLOCK FALSE
