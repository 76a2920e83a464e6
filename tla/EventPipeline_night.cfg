\* A night, two deliveries that overlap, repeat and die, an adapted event, every job at any time.
CONSTANTS
    None = None
    DAY = DAY
    NIGHT = NIGHT
    mine = mine
    tono = tono
    v1 = v1
    DayLength = 12
    Shifts = {DAY, NIGHT}
    Template <- Templates
    Sites = {mine}
    SiteZone <- SiteZones
    TenantZone = 3
    Workers = {tono}
    Dates = {0, 1}
    Rosters <- RosterChoices
    Versions = {v1}
    Messages = {m1, m2}
    Occurrences <- DuringTheNight
    Fingerprinted = {m1, m2}
    LegacyEvents <- LegacyCheckOut
    Mapping <- Types
    Policies <- NightPolicies
    Radius <- Radii
    RestConfigured = FALSE
    Callers = {c1, c2}
    Instants = {6, 11}
    MaxEvents = 2
SPECIFICATION Spec
SYMMETRY Interchangeable
CONSTRAINT NoTwinDeliveries
INVARIANT TypeOK OneEventPerOccurrence VerdictsAreReal  NotYetMissing OneVerdictPerEvidence
PROPERTY AbsenceIsReal StateNeverFallsBack
CHECK_DEADLOCK FALSE
