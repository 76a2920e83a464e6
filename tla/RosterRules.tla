------------------------------ MODULE RosterRules ------------------------------
(***************************************************************************)
(* The rotation of a mine's crews: the plan that roster_generator.py       *)
(* computes for any day from the limits in force, and the objections that  *)
(* roster_validator.py has to the rows of a roster.  Both are functions of *)
(* what they read; the rows and the limits are RosterSeeding's.            *)
(***************************************************************************)
EXTENDS Integers, FiniteSets

CONSTANTS
    Workers,
    Dates,         \* the calendar, as integers: the anchor of the cycle is 0
    Machines,
    Serviceable,   \* the machines that are ACTIVE and effective on each date
    Certified,     \* worker, machine and date of every certificate in force
    None           \* an absent value

ASSUME DatesAssumption == Dates \subseteq Int
ASSUME ServiceableAssumption == Serviceable \in [Dates -> SUBSET Machines]
ASSUME CertifiedAssumption == Certified \subseteq Workers \X Machines \X Dates

\* The integers of the roster policy that plan and validation use.
Key == {"onsite_weeks", "offsite_weeks", "max_consecutive_workdays",
        "mandatory_rest_days", "max_same_shift_streak"}
Limits == [Key -> Nat \ {0}]

----------------------------------------------------------------------------
(* The plan.                                                               *)

OnsiteDays(p) == p["onsite_weeks"] * 7
CycleLength(p) == (p["onsite_weeks"] + p["offsite_weeks"]) * 7
BlockLength(p) == p["max_consecutive_workdays"] + p["mandatory_rest_days"]

\* compute_cycle_pos, for a date counted from the anchor.
CyclePos(p, offset, d) == (d + offset) % CycleLength(p)

\* The shift alternates by calendar days of the cycle, rest days or not.
ShiftAt(p, cp) ==
    IF cp % (2 * p["max_same_shift_streak"]) >= p["max_same_shift_streak"] THEN "NIGHT" ELSE "DAY"

\* A day of the on-site weeks is the block's work or its trailing rest.
\* (Mutant WorkAtLate: the rest begins a day late.)
WorkAtLate(p, cp) == cp % BlockLength(p) <= p["max_consecutive_workdays"]
WorkAt(p, cp) == cp % BlockLength(p) < p["max_consecutive_workdays"]

\* The day of the cycle that is shown, from 1.
\* (Mutant CycleDayFromZero: from 0.)
CycleDayFromZero(p, offset, d) == CyclePos(p, offset, d)
CycleDay(p, offset, d) == CyclePos(p, offset, d) + 1

\* generate_assignments, one day of it.
PlanOf(p, offset, d) ==
    LET cp == CyclePos(p, offset, d)
        day == CycleDay(p, offset, d)
    IN  IF cp >= OnsiteDays(p)
        THEN [site |-> "OFFSITE", work |-> "OFFSITE", shift |-> None, day |-> day]
        ELSE IF WorkAt(p, cp)
        THEN [site |-> "ONSITE", work |-> "WORK", shift |-> ShiftAt(p, cp), day |-> day]
        ELSE [site |-> "ONSITE", work |-> "REST", shift |-> None, day |-> day]

----------------------------------------------------------------------------
(* The validators.  rows is a roster: a function of worker and date.        *)

\* A day counts as worked if it has a row that says so.
Worked(rows, w, d) == <<w, d>> \in DOMAIN rows /\ rows[w, d].work = "WORK"

\* V1 and V2: the loops count back from the day before, at most to the limit.
Exhausted(rows, p, w, d) ==
    \A k \in 1..p["max_consecutive_workdays"] : Worked(rows, w, d - k)

\* V3.
SameShift(rows, p, w, d) ==
    \A k \in 1..p["max_same_shift_streak"] :
        Worked(rows, w, d - k) /\ rows[w, d - k].shift = rows[w, d].shift

\* V1 to V4: what the rotation forbids of a row.
Duties(rows, p, w, d) ==
    IF rows[w, d].work # "WORK" THEN {}
    ELSE (IF Exhausted(rows, p, w, d) THEN {"MAX_CONSECUTIVE_WORK", "MANDATORY_REST_DAY"} ELSE {})
         \cup (IF rows[w, d].shift # None /\ SameShift(rows, p, w, d)
               THEN {"MAX_SAME_SHIFT_WORK"} ELSE {})
         \cup (IF rows[w, d].site = "OFFSITE" THEN {"OFFSITE_WORK_REJECTED"} ELSE {})

\* V6: another row of the date, of whatever shift, has the machine.
DoubleBooked(rows, w, d) ==
    \E v \in Workers \ {w} :
        <<v, d>> \in DOMAIN rows /\ rows[v, d].machine = rows[w, d].machine

\* V6 to V8: what the planned machine forbids, each rule for itself.
\* (Mutant FirstOf: the first rule that objects hides the others.)
FirstOf(rows, w, d, m) ==
    IF DoubleBooked(rows, w, d) THEN {"EQUIPMENT_DOUBLE_BOOK"}
    ELSE IF <<w, m, d>> \notin Certified THEN {"UNQUALIFIED_ASSIGNMENT"}
    ELSE IF m \notin Serviceable[d] THEN {"EQUIPMENT_UNFIT"} ELSE {}
AllOf(rows, w, d, m) ==
    (IF DoubleBooked(rows, w, d) THEN {"EQUIPMENT_DOUBLE_BOOK"} ELSE {})
    \cup (IF <<w, m, d>> \in Certified THEN {} ELSE {"UNQUALIFIED_ASSIGNMENT"})
    \cup (IF m \in Serviceable[d] THEN {} ELSE {"EQUIPMENT_UNFIT"})

MachineRules(rows, w, d) ==
    IF rows[w, d].machine = None THEN {} ELSE AllOf(rows, w, d, rows[w, d].machine)

\* validate_roster_assignment of a row that is there (V5 is skipped).
Objections(rows, p, w, d) == Duties(rows, p, w, d) \cup MachineRules(rows, w, d)

Rule == {"MAX_CONSECUTIVE_WORK", "MANDATORY_REST_DAY", "MAX_SAME_SHIFT_WORK",
         "OFFSITE_WORK_REJECTED", "EQUIPMENT_DOUBLE_BOOK", "UNQUALIFIED_ASSIGNMENT",
         "EQUIPMENT_UNFIT"}
MachineRule == {"EQUIPMENT_DOUBLE_BOOK", "UNQUALIFIED_ASSIGNMENT", "EQUIPMENT_UNFIT"}
=============================================================================
