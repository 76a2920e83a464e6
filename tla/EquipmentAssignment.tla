------------------------- MODULE EquipmentAssignment -------------------------
(***************************************************************************)
(* Planned and actual equipment (backend/app/equipment_engine.py), the     *)
(* equipment rule of operational_rule_engine.py and the exception cases    *)
(* that exception_engine.py makes of both.  An assignment says that a      *)
(* worker runs a machine from one instant to another, or still does; it is *)
(* validated against the machine, the certificates and the other ACTIVE    *)
(* assignments of its operating date, and compared with the roster.  No    *)
(* endpoint calls the engine: each operation is a transaction, and they    *)
(* come one after another.                                                  *)
(***************************************************************************)
EXTENDS Integers

CONSTANTS
    Workers, Equipments, Dates,
    Instants,      \* the instants of starts and ends
    During,        \* the instants of each operating date's shift
    Plan,          \* roster rows on duty: the machine planned for a worker and date
    Available,     \* the machines in service on each date
    TypeOf,        \* the type of a machine
    Competencies,  \* certificates: worker, type of machine, first and last date, status
    CompetencyOn,  \* the capability competency_validation_enabled
    None           \* an absent value: no end yet, no machine planned

ASSUME EquipmentsAssumption == None \notin Equipments
ASSUME InstantsAssumption == Instants \subseteq Int /\ None \notin Instants
ASSUME DuringAssumption == During \in [Dates -> SUBSET Instants]
ASSUME PlanAssumption == \A x \in DOMAIN Plan : x \in Workers \X Dates

VARIABLES
    actual,        \* EquipmentAssignmentActual rows
    comparisons,   \* EquipmentComparisonResult rows
    discrepancies, \* EquipmentDiscrepancy rows, all OPEN: nothing here closes one
    evaluations,   \* RuleEvaluation rows of EQUIPMENT_MISMATCH
    cases          \* ExceptionCase rows that come of these

vars == <<actual, comparisons, discrepancies, evaluations, cases>>

\* The identity of an assignment: uq_actual_assignment_identity.
Key == [worker : Workers, equipment : Equipments, start : Instants]
KeyOf(a) == [worker |-> a.worker, equipment |-> a.equipment, start |-> a.start]

Assignment ==
    [worker : Workers, equipment : Equipments, start : Instants, date : Dates,
     end : Instants \cup {None}, status : {"ACTIVE", "CLOSED"}]

Outcome == {"MATCH", "MISMATCH", "NO_PLANNED_EQUIPMENT"}
Kind == {"EQUIPMENT_MISMATCH", "OPERATOR_SUBSTITUTION"}

TypeOK ==
    /\ actual \subseteq Assignment
    /\ \A a \in actual : a.status = "CLOSED" => a.end # None
    /\ comparisons \subseteq [of : Key, date : Dates, result : Outcome]
    /\ discrepancies \subseteq [of : Key, date : Dates, kind : Kind, planned : Workers]
    /\ evaluations \subseteq [of : Key, status : {"PASS", "FAIL", "NOT_APPLICABLE"}]
    /\ cases \subseteq [source : {"EQUIPMENT_DISCREPANCY", "RULE_EVALUATION"},
                        of : Key, kind : Kind]

Init ==
    /\ actual = {} /\ comparisons = {} /\ discrepancies = {}
    /\ evaluations = {} /\ cases = {}

----------------------------------------------------------------------------
(* Validation.                                                             *)

\* validate_competency.  A certificate marked EXPIRED or SUSPENDED never
\* counts, not even for the dates on which it was valid.
Competent(w, e, d) ==
    \/ ~ CompetencyOn
    \/ \E c \in Competencies :
          /\ c.worker = w /\ c.type = TypeOf[e] /\ c.status = "VALID"
          /\ c.from <= d /\ (c.to # None => d <= c.to)

\* Instant i lies before an end; no end lies after every instant.
Before(i, end) == end = None \/ i < end

\* Two intervals overlap if each begins before the other ends.
Overlap(a, start, end) == Before(a.start, end) /\ Before(start, a.end)

\* check_worker_overlap and check_equipment_overlap look at the ACTIVE
\* assignments of the same operating date.
\* (Mutant SameWorker: the machine is not asked about.)
SameWorker(a, w, e) == a.worker = w
Shares(a, w, e) == a.worker = w \/ a.equipment = e
Overlaps(w, e, d, start, end) ==
    {a \in actual : /\ a.date = d /\ a.status = "ACTIVE"
                    /\ Shares(a, w, e) /\ Overlap(a, start, end)}

----------------------------------------------------------------------------
(* What each operation writes.                                             *)

NewAssignment(w, e, d, start, end) ==
    [worker |-> w, equipment |-> e, start |-> start, date |-> d, end |-> end, status |-> "ACTIVE"]

\* The guards of create_actual_assignment, in its order.
Creatable(w, e, d, start, end) ==
    /\ \A a \in actual : KeyOf(a) # [worker |-> w, equipment |-> e, start |-> start]
    /\ e \in Available[d]
    /\ Competent(w, e, d)
    /\ Overlaps(w, e, d, start, end) = {}

Planned(w, d) == IF <<w, d>> \in DOMAIN Plan THEN Plan[w, d] ELSE None

\* compare_planned_vs_actual, once per assignment.
OutcomeOf(a) ==
    IF Planned(a.worker, a.date) = None THEN "NO_PLANNED_EQUIPMENT"
    ELSE IF Planned(a.worker, a.date) = a.equipment THEN "MATCH"
    ELSE "MISMATCH"

Compared(a) ==
    IF \E c \in comparisons : c.of = KeyOf(a) THEN {}
    ELSE {[of |-> KeyOf(a), date |-> a.date, result |-> OutcomeOf(a)]}

Reported(key, kind) == \E x \in discrepancies : x.of = key /\ x.kind = kind

\* create_mismatch_discrepancy.
Mismatched(c) ==
    IF c.result # "MISMATCH" \/ Reported(c.of, "EQUIPMENT_MISMATCH") THEN {}
    ELSE {[of |-> c.of, date |-> c.date, kind |-> "EQUIPMENT_MISMATCH", planned |-> c.of.worker]}

\* The roster rows that plan a machine for a date; nothing orders them.
Planners(e, d) == {w \in Workers : Planned(w, d) = e}

\* detect_substitution with the row of worker p, whichever the query gave.
Substituted(a, p) ==
    IF p = a.worker \/ Reported(KeyOf(a), "OPERATOR_SUBSTITUTION") THEN {}
    ELSE {[of |-> KeyOf(a), date |-> a.date, kind |-> "OPERATOR_SUBSTITUTION", planned |-> p]}

\* The discrepancy rows detect_substitution may add.
Substitutions(a) ==
    IF Planners(a.equipment, a.date) = {} THEN {{}}
    ELSE {Substituted(a, p) : p \in Planners(a.equipment, a.date)}

----------------------------------------------------------------------------
(* The operations.                                                         *)

\* create_actual_assignment, by hand or with an end that is known already.
\* Callers give ends that lie after the start (Next); nothing verifies it.
Create(w, e, d, start, end) ==
    /\ Creatable(w, e, d, start, end)
    /\ actual' = actual \cup {NewAssignment(w, e, d, start, end)}
    /\ UNCHANGED <<comparisons, discrepancies, evaluations, cases>>

\* process_equipment_checkin: the assignment, its comparison and its
\* discrepancies in one transaction.  A repeated check-in finds what is there.
CheckIn(w, e, d, start) ==
    /\ Creatable(w, e, d, start, None)
    /\ LET a == NewAssignment(w, e, d, start, None)
       IN  /\ actual' = actual \cup {a}
           /\ comparisons' = comparisons \cup Compared(a)
           /\ \E rows \in Substitutions(a) :
                 discrepancies' = discrepancies \cup rows
                                    \cup UNION {Mismatched(c) : c \in Compared(a)}
    /\ UNCHANGED <<evaluations, cases>>

\* close_actual_assignment: no overlap is looked for.
\* (Mutant ClosedOnly: the end is not written.)
ClosedOnly(a, end) == [a EXCEPT !.status = "CLOSED"]
Closed(a, end) == [a EXCEPT !.end = end, !.status = "CLOSED"]

Close(a, end) ==
    /\ a.status = "ACTIVE"
    /\ actual' = (actual \ {a}) \cup {Closed(a, end)}
    /\ UNCHANGED <<comparisons, discrepancies, evaluations, cases>>

\* The steps of the check-in, called one by one for an assignment by hand.
Compare(a) ==
    /\ comparisons' = comparisons \cup Compared(a)
    /\ UNCHANGED <<actual, discrepancies, evaluations, cases>>

ReportMismatch(c) ==
    /\ discrepancies' = discrepancies \cup Mismatched(c)
    /\ UNCHANGED <<actual, comparisons, evaluations, cases>>

DetectSubstitution(a) ==
    /\ \E rows \in Substitutions(a) : discrepancies' = discrepancies \cup rows
    /\ UNCHANGED <<actual, comparisons, evaluations, cases>>

\* evaluate_equipment_mismatch: the comparison as a verdict, once.
Evaluate(c) ==
    LET status == CASE c.result = "MATCH" -> "PASS"
                    [] c.result = "MISMATCH" -> "FAIL"
                    [] OTHER -> "NOT_APPLICABLE"
    IN  /\ \A r \in evaluations : r.of # c.of
        /\ evaluations' = evaluations \cup {[of |-> c.of, status |-> status]}
        /\ UNCHANGED <<actual, comparisons, discrepancies, cases>>

\* create_exception_from_discrepancy, once per discrepancy (of and kind); the
\* case itself is named EQUIPMENT_MISMATCH for both kinds.  And
\* create_exception_from_rule_evaluation, once per evaluation, of failures only.
RaiseDiscrepancy(x) ==
    /\ cases' = cases \cup {[source |-> "EQUIPMENT_DISCREPANCY", of |-> x.of, kind |-> x.kind]}
    /\ UNCHANGED <<actual, comparisons, discrepancies, evaluations>>

\* (Mutant NotPassed: whatever did not pass is raised.)
NotPassed(r) == r.status # "PASS"
Failed(r) == r.status = "FAIL"

RaiseEvaluation(r) ==
    /\ Failed(r)
    /\ cases' = cases \cup {[source |-> "RULE_EVALUATION", of |-> r.of, kind |-> "EQUIPMENT_MISMATCH"]}
    /\ UNCHANGED <<actual, comparisons, discrepancies, evaluations>>

Next ==
    \/ \E w \in Workers, e \in Equipments, d \in Dates : \E start \in During[d] :
          \/ CheckIn(w, e, d, start)
          \/ \E end \in {i \in Instants : start < i} \cup {None} : Create(w, e, d, start, end)
    \/ \E a \in actual :
          \/ \E end \in {i \in Instants : a.start < i} : Close(a, end)
          \/ Compare(a) \/ DetectSubstitution(a)
    \/ \E c \in comparisons : ReportMismatch(c) \/ Evaluate(c)
    \/ \E x \in discrepancies : RaiseDiscrepancy(x)
    \/ \E r \in evaluations : RaiseEvaluation(r)

Spec == Init /\ [][Next]_vars

----------------------------------------------------------------------------
(* Properties.                                                             *)

\* However assignments are created, closed and followed by others, two that
\* are active on one operating date and share their worker or their machine
\* never overlap.
ActiveDisjoint ==
    \A a, b \in actual :
        /\ a # b /\ a.date = b.date
        /\ a.status = "ACTIVE" /\ b.status = "ACTIVE"
        /\ a.worker = b.worker \/ a.equipment = b.equipment
        => ~ Overlap(a, b.start, b.end)

\* Every case goes back to the row it was made of, a failed verdict or a
\* discrepancy of its kind, and that row to an assignment which is against the
\* roster in just this way: the worker is planned on another machine, or the
\* machine for another worker.
OnAnotherMachine(a) == Planned(a.worker, a.date) \notin {None, a.equipment}
PlannedForAnother(a) == Planners(a.equipment, a.date) \ {a.worker} # {}
AgainstRoster(kind, a) ==
    IF kind = "EQUIPMENT_MISMATCH" THEN OnAnotherMachine(a) ELSE PlannedForAnother(a)
HasCause(key, kind) == \E a \in actual : KeyOf(a) = key /\ AgainstRoster(kind, a)
HasRow(x) ==
    IF x.source = "RULE_EVALUATION" THEN [of |-> x.of, status |-> "FAIL"] \in evaluations
    ELSE Reported(x.of, x.kind)
CaseHasCause == \A x \in cases : HasRow(x) /\ HasCause(x.of, x.kind)
=============================================================================
