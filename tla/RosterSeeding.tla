----------------------------- MODULE RosterSeeding -----------------------------
(***************************************************************************)
(* How a roster comes about and is validated: the demo seed                *)
(* (backend/scripts/seed_metro_standalone.py) sets the roster policy,      *)
(* takes a rule version and generates the rows; the workbook import        *)
(* (backend/app/seed_metro.py) brings rows of its own; a full validation   *)
(* (roster_validator.py) records exceptions.  Taking the rule version      *)
(* commits (rule_versioning.py), so a seed that fails later leaves its     *)
(* rules behind.  The scripts are run by hand, one at a time.               *)
(***************************************************************************)
EXTENDS RosterRules, FiniteSetsExt

CONSTANTS
    Default,     \* DEFAULT_POLICY
    Decisions,   \* the limits that a release of the seed may carry
    Earlier,     \* what earlier releases may have left: policy and roster rows
    Offset,      \* the workers of the seed, and their offset in the cycle
    MachineOf,   \* the machine the seed plans for each of them, or None
    Ids,         \* the ids of the workbook's roster rows
    Sheets,      \* the rosters the workbook may hold: functions of worker and date
    Unknown,     \* the employee that V8 names
    SheetPolicy, \* the workbook's policy rows
    StartOf,     \* the hour of its date at which each shift starts
    EndOf,       \* and at which it ends: beyond 24 if on the next day
    MinimumRest, \* minimum_rest_hours
    MaxValidations \* bound: so many validations that find something

\* A policy row: whose id it has, its integer value, and whether it is confirmed.
PolicyRow == [of : {"seed", "workbook"}, value : Nat \ {0}, status : {"CONFIRMED", "TBC"}]
IsPolicy(p) == DOMAIN p \subseteq Key /\ \A k \in DOMAIN p : p[k] \in PolicyRow

\* A row of the workbook's roster; site_cycle_day is nullable.
Day == [id : Ids, site : {"ONSITE", "OFFSITE"}, work : {"WORK", "REST", "OFFSITE"},
        shift : {"DAY", "NIGHT", None}, day : Int \cup {None}, machine : Machines \cup {None}]

Label == "METRO-RULE-v0.1"

\* A roster row; the id of a row of the seed is made of its worker and date.
\* The version is absent from rows that are older than rule versions.
Row == [id : Ids \cup (Workers \X Dates),
        site : {"ONSITE", "OFFSITE"}, work : {"WORK", "REST", "OFFSITE"},
        shift : {"DAY", "NIGHT", None}, day : Int \cup {None},
        machine : Machines \cup {None}, version : {Label, None}]
IsRoster(r) == DOMAIN r \subseteq Workers \X Dates /\ \A x \in DOMAIN r : r[x] \in Row

ASSUME DefaultAssumption == Default \in Limits /\ Decisions \subseteq Limits
ASSUME OffsetAssumption == DOMAIN Offset \subseteq Workers /\ \A w \in DOMAIN Offset : Offset[w] \in Nat
\* The workbook has employees and keys of its own.
ASSUME SheetsAssumption ==
    /\ \A sheet \in Sheets : \A x \in DOMAIN sheet :
          x \in Workers \X Dates /\ x[1] \notin DOMAIN Offset /\ sheet[x] \in Day
    /\ IsPolicy(SheetPolicy)
ASSUME EarlierAssumption == \A e \in Earlier : IsPolicy(e.policy) /\ IsRoster(e.roster)
ASSUME LabelAssumption == Label # None
ASSUME BoundAssumption == MaxValidations \in Nat
ASSUME MachineOfAssumption == MachineOf \in [DOMAIN Offset -> Machines \cup {None}]

VARIABLES
    decided,     \* the limits of the seed's release
    earlier,     \* the roster rows, by worker and date, of earlier releases
    policy,      \* RosterPolicy rows by key
    versions,    \* RuleVersion rows by label: the policy rows at the time
    roster,      \* RosterAssignment rows; one for a worker and date (uq_roster_emp_date)
    exceptions,  \* ExceptionEvent rows of full validations
    run          \* the script under way, past its first commit

vars == <<decided, earlier, policy, versions, roster, exceptions, run>>

Seeded == {x \in DOMAIN roster : x[1] \in DOMAIN Offset}

\* The rows that this release of the seed has made.
Fresh == Seeded \ earlier

\* What a validator has recorded, and of whom.
Finding == [validation : 1..MaxValidations, worker : Workers \cup {Unknown},
            date : Dates, machine : Machines \cup {None}, rule : Rule]

TypeOK ==
    /\ decided \in Decisions /\ earlier \subseteq DOMAIN roster
    /\ IsPolicy(policy)
    /\ DOMAIN versions \subseteq {Label}
    /\ IsRoster(roster)
    /\ \A x \in Fresh : roster[x].day \in 1..CycleLength(decided)
    /\ exceptions \subseteq Finding
    /\ run \in {"none", "seed", "workbook"}

\* Earlier releases left their policy rows, the version that was taken of
\* them, and the roster rows of a seed or an import that was completed.
Init ==
    /\ decided \in Decisions
    /\ \E e \in Earlier : policy = e.policy /\ roster = e.roster /\ earlier = DOMAIN e.roster
    /\ versions = IF DOMAIN policy = {} THEN <<>> ELSE [l \in {Label} |-> policy]
    /\ exceptions = {} /\ run = "none"

----------------------------------------------------------------------------
\* read_roster_policy: only confirmed rows count.
Limit(k) ==
    IF k \in DOMAIN policy /\ policy[k].status = "CONFIRMED" THEN policy[k].value ELSE Default[k]
InForce == [k \in Key |-> Limit(k)]

\* ensure_roster_policy: rows of an earlier release are corrected.
\* (Mutant Left: a row that is there stays as it is.)
Decision(k) == [of |-> "seed", value |-> decided[k], status |-> "CONFIRMED"]
Left(p) == [k \in Key |-> IF k \in DOMAIN p THEN p[k] ELSE Decision(k)]
Converged(p) == [k \in Key |-> Decision(k)]

\* snapshot_rules: a label is taken once.
Snapshot(p) == IF Label \in DOMAIN versions THEN versions ELSE [l \in {Label} |-> p]

\* Rows that are there, and new ones beside them.
Beside(old, new) ==
    [x \in DOMAIN old \cup DOMAIN new |-> IF x \in DOMAIN old THEN old[x] ELSE new[x]]

\* Rows are added beside those that are there.
\* (Mutant Replaced: they take their place.)
Replaced(new) == Beside(new, roster)
Added(new) == Beside(roster, new)

Stamped(plan, id, m) ==
    [id |-> id, site |-> plan.site, work |-> plan.work, shift |-> plan.shift, day |-> plan.day,
     machine |-> m, version |-> Label]

\* The seed's row under limits p: the plan of the day and, on duty, the
\* worker's machine.
SeedRow(p, w, d) ==
    LET plan == PlanOf(p, Offset[w], d)
    IN  Stamped(plan, <<w, d>>, IF plan.work = "WORK" THEN MachineOf[w] ELSE None)

SeedDates == (DOMAIN Offset) \X Dates

----------------------------------------------------------------------------
Idle == run = "none"

\* The standalone seed up to the commit that snapshot_rules makes.  It finds
\* policy rows by id: beside the workbook's, uq_roster_policy_key refuses its own.
SeedRules ==
    /\ Idle
    /\ \A k \in DOMAIN policy : policy[k].of = "seed"
    /\ policy' = Converged(policy)
    /\ versions' = Snapshot(policy')
    /\ run' = "seed"
    /\ UNCHANGED <<decided, earlier, roster, exceptions>>

\* Its rows, and the second commit.  Rows that an earlier seed has made are
\* found by their ids and returned as they are.
SeedRoster ==
    /\ run = "seed"
    /\ roster' = Added([x \in SeedDates |-> SeedRow(InForce, x[1], x[2])])
    /\ run' = "none"
    /\ UNCHANGED <<decided, earlier, policy, versions, exceptions>>

\* The workbook import up to the same commit: it adds the keys that are absent.
WorkbookRules ==
    /\ Idle
    /\ policy' = Beside(policy, SheetPolicy)
    /\ versions' = Snapshot(policy')
    /\ run' = "workbook"
    /\ UNCHANGED <<decided, earlier, roster, exceptions>>

\* Its rows, the version of every row that has none, and the second commit.
\* A row whose id is taken is passed over, whatever it says; one with a new id
\* for a worker and date that are taken is refused (uq_roster_emp_date).
NewOf(sheet) ==
    LET taken == {roster[y].id : y \in DOMAIN roster}
    IN  {x \in DOMAIN sheet : sheet[x].id \notin taken}

Backfilled(rows) ==
    [x \in DOMAIN rows |->
        IF rows[x].version = None THEN [rows[x] EXCEPT !.version = Label] ELSE rows[x]]

WorkbookRoster ==
    /\ run = "workbook"
    /\ \E sheet \in Sheets :
          /\ NewOf(sheet) \cap DOMAIN roster = {}
          /\ roster' = Backfilled(Added([x \in NewOf(sheet) |->
                          Stamped(sheet[x], sheet[x].id, sheet[x].machine)]))
    /\ run' = "none"
    /\ UNCHANGED <<decided, earlier, policy, versions, exceptions>>

\* A script dies, or an error rolls back what came after its first commit.
Fail ==
    /\ ~ Idle
    /\ run' = "none"
    /\ UNCHANGED <<decided, earlier, policy, versions, roster, exceptions>>

\* What _exc records of an objection to row x: V8 has no employee to name and
\* writes 'UNKNOWN'; only V6 to V8 name the machine.
Noted(n, x, rule) ==
    [validation |-> n, date |-> x[2], rule |-> rule,
     worker |-> IF rule = "EQUIPMENT_UNFIT" THEN Unknown ELSE x[1],
     machine |-> IF rule \in MachineRule THEN roster[x].machine ELSE None]

\* validate_full_roster: an exception for every objection, also for those
\* that an earlier validation recorded.
LastValidation == Max({0} \cup {x.validation : x \in exceptions})
Found(n) ==
    UNION {{Noted(n, x, r) : r \in Objections(roster, InForce, x[1], x[2])} : x \in DOMAIN roster}

ValidateFull ==
    /\ Idle
    /\ LastValidation < MaxValidations
    /\ exceptions' = exceptions \cup Found(LastValidation + 1)
    /\ UNCHANGED <<decided, earlier, policy, versions, roster, run>>

Next ==
    \/ SeedRules \/ SeedRoster
    \/ WorkbookRules \/ WorkbookRoster
    \/ Fail
    \/ ValidateFull

Spec == Init /\ [][Next]_vars

----------------------------------------------------------------------------
(* Properties.                                                             *)

\* Whatever a stale policy, an import or a run that died left behind, the
\* rows that the seed makes are those that the decided limits plan for their
\* dates.  Rows of an earlier release are not among them: SeedRoster
\* returns them unchanged, of whatever limits they are.
SeedReproduces == \A x \in Fresh : roster[x] = SeedRow(decided, x[1], x[2])

\* Generator and validator agree: what the seed makes for a worker, across
\* rest days, rotations and the turn of the cycle, has no objection of the
\* rotation, unless rows of an earlier release are counted with it.
Mixed(w) == \E d \in Dates : <<w, d>> \in earlier
GeneratedIsClean ==
    \A x \in Fresh : ~ Mixed(x[1]) => Duties(roster, InForce, x[1], x[2]) = {}

\* What a validation found stays true under the same limits: rows that are
\* imported later, for earlier dates too, never take it back.
StillObjected(x) ==
    \E w \in Workers :
        /\ <<w, x.date>> \in DOMAIN roster
        /\ x = Noted(x.validation, <<w, x.date>>, x.rule)
        /\ x.rule \in Objections(roster, InForce, w, x.date)
FoundStaysTrue ==
    [][InForce' = InForce => \A x \in exceptions : StillObjected(x) => StillObjected(x)']_vars

\* A rule version keeps the policy it was taken of, and a row all that it
\* says, whatever is seeded or imported again, by this release or an earlier
\* one.  Its version alone is filled in where there was none.
Stands(old, new) ==
    new = old \/ (old.version = None /\ new = [old EXCEPT !.version = Label])
HistoryStands ==
    [][/\ \A l \in DOMAIN versions : l \in DOMAIN versions' /\ versions'[l] = versions[l]
       /\ \A x \in DOMAIN roster : x \in DOMAIN roster' /\ Stands(roster[x], roster'[x])]_vars

\* "1 jam (60 menit) antar rotasi shift": between two shifts of a worker's
\* plan, where the rotation turns, lies the minimum rest.
PlanKeepsRest ==
    \A x \in Fresh :
        LET next == <<x[1], x[2] + 1>>
        IN  /\ next \in Fresh
            /\ roster[x].work = "WORK" /\ roster[next].work = "WORK"
            /\ roster[x].shift # roster[next].shift
            => EndOf[roster[x].shift] + MinimumRest <= 24 + StartOf[roster[next].shift]
=============================================================================
