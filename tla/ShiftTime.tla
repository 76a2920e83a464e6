------------------------------ MODULE ShiftTime ------------------------------
(***************************************************************************)
(* Local time, shift templates and the operating date: the arithmetic that *)
(* canonical_event_service.py, checkpoint_engine.py and                    *)
(* operational_rule_engine.py share.  An instant is a number of slots      *)
(* since a fixed midnight UTC; a day has DayLength slots.                   *)
(***************************************************************************)
EXTENDS Integers

CONSTANTS
    DayLength,   \* slots of a day
    Shifts,      \* ids of the shift templates
    Template,    \* the template of each shift: times of day, and crosses
    Sites,       \* ids of the sites
    SiteZone,    \* the offset from UTC of each site's zone, or None
    TenantZone,  \* the offset of the tenant's zone
    None         \* an absent value

ASSUME DayLengthAssumption == DayLength \in Nat \ {0}
ASSUME ZonesAssumption == TenantZone \in Int /\ SiteZone \in [Sites -> Int \cup {None}]

TimesOfDay == 0..(DayLength - 1)

ShiftTemplate ==
    [start : TimesOfDay, end : TimesOfDay, breakStart : TimesOfDay, breakEnd : TimesOfDay,
     handoverStart : TimesOfDay, handoverEnd : TimesOfDay, crosses : BOOLEAN]

ASSUME TemplateAssumption == Template \in [Shifts -> ShiftTemplate]

\* The zone of a site if it has one, else the tenant's.
Zone(site) ==
    IF site \in Sites /\ SiteZone[site] # None THEN SiteZone[site] ELSE TenantZone

\* The local date and time of day of an instant.
LocalDate(i, z) == (i + z) \div DayLength
LocalTime(i, z) == (i + z) % DayLength

\* The instant at which date d shows time t in zone z.
At(d, t, z) == d * DayLength + t - z

\* Before the end of a shift that crosses midnight it is still yesterday's shift.
OperatingDate(i, z, s) ==
    IF Template[s].crosses /\ LocalTime(i, z) < Template[s].end
    THEN LocalDate(i, z) - 1
    ELSE LocalDate(i, z)

\* The boundaries of shift s on date d: what starts before the shift does is
\* on the next day, if the shift crosses midnight.
NextDayIf(cond, d) == IF cond THEN d + 1 ELSE d

ShiftStart(s, d, z) == At(d, Template[s].start, z)
ShiftEnd(s, d, z)   == At(NextDayIf(Template[s].crosses, d), Template[s].end, z)

\* (Mutant BreakEndOfDay: always on the date itself.)
BreakEndOfDay(s, d, z) == At(d, Template[s].breakEnd, z)
BreakEnd(s, d, z) ==
    LET t == Template[s]
    IN  At(NextDayIf(t.crosses /\ t.breakStart < t.start, d), t.breakEnd, z)

HandoverDate(s, d) ==
    LET t == Template[s] IN NextDayIf(t.crosses /\ t.handoverStart < t.start, d)

HandoverStart(s, d, z) == At(HandoverDate(s, d), Template[s].handoverStart, z)
HandoverEnd(s, d, z)   == At(HandoverDate(s, d), Template[s].handoverEnd, z)
=============================================================================
