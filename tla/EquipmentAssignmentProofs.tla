---------------------- MODULE EquipmentAssignmentProofs ----------------------
(***************************************************************************)
(* EquipmentAssignment for every roster, fleet, set of certificates and    *)
(* set of instants.                                                        *)
(*                                                                         *)
(* The argument: a new assignment was compared with every ACTIVE one of    *)
(* its date that shares its worker or its machine; no step makes an        *)
(* assignment ACTIVE again, and a closed one no longer counts.  Whatever   *)
(* is reported goes back to an assignment that is there for good: closing  *)
(* keeps its key and date, and no second one takes its key.                *)
(***************************************************************************)
EXTENDS EquipmentViews, TLAPS

IInv == TypeOK /\ ActiveDisjoint

\* Overlapping is symmetric.
LEMMA OverlapSymmetric ==
    ASSUME NEW a, NEW b, Overlap(a, b.start, b.end) PROVE Overlap(b, a.start, a.end)
    BY DEF Overlap, Before

LEMMA NewIsAssignment ==
    ASSUME NEW w \in Workers, NEW e \in Equipments, NEW d \in Dates, NEW start \in During[d],
           NEW end \in Instants \cup {None}
    PROVE  NewAssignment(w, e, d, start, end) \in Assignment
    BY DuringAssumption DEF NewAssignment, Assignment

\* What a check-in and a comparison add has its type.
LEMMA ComparedType ==
    ASSUME NEW a \in Assignment
    PROVE  Compared(a) \subseteq [of : Key, date : Dates, result : Outcome]
    BY DEF Compared, KeyOf, Key, Outcome, OutcomeOf, Assignment

LEMMA MismatchedType ==
    ASSUME NEW c \in [of : Key, date : Dates, result : Outcome]
    PROVE  Mismatched(c) \subseteq [of : Key, date : Dates, kind : Kind, planned : Workers]
    BY DEF Mismatched, Key, Kind

LEMMA SubstitutionsType ==
    ASSUME NEW a \in Assignment, NEW rows \in Substitutions(a)
    PROVE  rows \subseteq [of : Key, date : Dates, kind : Kind, planned : Workers]
<1>1. CASE Planners(a.equipment, a.date) = {}
    BY <1>1 DEF Substitutions
<1>2. CASE Planners(a.equipment, a.date) # {}
    <2>1. PICK p \in Planners(a.equipment, a.date) : rows = Substituted(a, p)
        BY <1>2 DEF Substitutions
    <2>2. p \in Workers
        BY DEF Planners
    <2> QED
        BY <2>1, <2>2 DEF Substituted, KeyOf, Key, Kind, Assignment
<1> QED
    BY <1>1, <1>2

\* Types are preserved by every step.
LEMMA TypeStep == TypeOK /\ [Next]_vars => TypeOK'
<1> SUFFICES ASSUME TypeOK, [Next]_vars PROVE TypeOK'
    OBVIOUS
<1> USE DEF TypeOK
<1>1. ASSUME NEW w \in Workers, NEW e \in Equipments, NEW d \in Dates, NEW start \in During[d],
             CheckIn(w, e, d, start)
      PROVE  TypeOK'
    <2> DEFINE a == NewAssignment(w, e, d, start, None)
    <2>1. a \in Assignment /\ a.status # "CLOSED"
        BY NewIsAssignment DEF NewAssignment
    <2>2. PICK rows \in Substitutions(a) :
             discrepancies' = discrepancies \cup rows \cup UNION {Mismatched(c) : c \in Compared(a)}
        BY <1>1 DEF CheckIn
    <2>3. discrepancies' \subseteq [of : Key, date : Dates, kind : Kind, planned : Workers]
        BY <2>1, <2>2, ComparedType, MismatchedType, SubstitutionsType
    <2>4. comparisons' \subseteq [of : Key, date : Dates, result : Outcome]
        BY <1>1, <2>1, ComparedType DEF CheckIn
    <2> QED
        BY <1>1, <2>1, <2>3, <2>4 DEF CheckIn
<1>2. ASSUME NEW w \in Workers, NEW e \in Equipments, NEW d \in Dates, NEW start \in During[d],
             NEW end \in Instants \cup {None}, Create(w, e, d, start, end)
      PROVE  TypeOK'
    <2>1. NewAssignment(w, e, d, start, end) \in Assignment
        BY NewIsAssignment
    <2>2. NewAssignment(w, e, d, start, end).status # "CLOSED"
        BY DEF NewAssignment
    <2> QED
        BY <1>2, <2>1, <2>2 DEF Create
<1>3. ASSUME NEW a \in actual, NEW end \in Instants, Close(a, end) PROVE TypeOK'
    <2>1. Closed(a, end) \in Assignment /\ Closed(a, end).end = end
        BY DEF Closed, Assignment
    <2>2. end # None
        BY InstantsAssumption
    <2> QED
        BY <1>3, <2>1, <2>2 DEF Close
<1>4. ASSUME NEW a \in actual, Compare(a) PROVE TypeOK'
    BY <1>4, ComparedType DEF Compare
<1>5. ASSUME NEW a \in actual, DetectSubstitution(a) PROVE TypeOK'
    BY <1>5, SubstitutionsType DEF DetectSubstitution
<1>6. ASSUME NEW c \in comparisons, ReportMismatch(c) PROVE TypeOK'
    BY <1>6, MismatchedType DEF ReportMismatch
<1>7. ASSUME NEW c \in comparisons, Evaluate(c) PROVE TypeOK'
    BY <1>7 DEF Evaluate
<1>8. ASSUME NEW x \in discrepancies, RaiseDiscrepancy(x) PROVE TypeOK'
    BY <1>8 DEF RaiseDiscrepancy
<1>9. ASSUME NEW r \in evaluations, RaiseEvaluation(r) PROVE TypeOK'
    BY <1>9 DEF RaiseEvaluation, Kind
<1>10. CASE UNCHANGED vars
    BY <1>10 DEF vars
<1> QED
    BY <1>1, <1>2, <1>3, <1>4, <1>5, <1>6, <1>7, <1>8, <1>9, <1>10 DEF Next

\* A new assignment against which no ACTIVE one was found keeps them disjoint.
LEMMA AddDisjoint ==
    ASSUME ActiveDisjoint, NEW w, NEW e, NEW d, NEW start, NEW end,
           Overlaps(w, e, d, start, end) = {},
           actual' = actual \cup {NewAssignment(w, e, d, start, end)}
    PROVE  ActiveDisjoint'
<1> DEFINE n == NewAssignment(w, e, d, start, end)
<1>1. n.worker = w /\ n.equipment = e /\ n.date = d /\ n.start = start /\ n.end = end
    BY DEF NewAssignment
<1>2. ASSUME NEW a \in actual, a.date = d, a.status = "ACTIVE", a.worker = w \/ a.equipment = e
      PROVE  ~ Overlap(a, n.start, n.end) /\ ~ Overlap(n, a.start, a.end)
    <2>1. ~ Overlap(a, start, end)
        BY <1>2 DEF Overlaps, Shares
    <2> HIDE DEF n
    <2> QED
        BY <1>1, <2>1, OverlapSymmetric
<1> HIDE DEF n
<1>3. ASSUME NEW a \in actual', NEW b \in actual', a # b, a.date = b.date,
             a.status = "ACTIVE", b.status = "ACTIVE",
             a.worker = b.worker \/ a.equipment = b.equipment
      PROVE  ~ Overlap(a, b.start, b.end)
    <2>1. CASE a \in actual /\ b \in actual
        BY <1>3, <2>1 DEF ActiveDisjoint
    <2>2. CASE a = n /\ b \in actual
        BY <1>1, <1>2, <1>3, <2>2
    <2>3. CASE a \in actual /\ b = n
        BY <1>1, <1>2, <1>3, <2>3
    <2> QED
        BY <1>3, <2>1, <2>2, <2>3 DEF n
<1> QED
    BY <1>3 DEF ActiveDisjoint, Overlap, Before

LEMMA DisjointStep == IInv /\ [Next]_vars => ActiveDisjoint'
<1> SUFFICES ASSUME IInv, [Next]_vars PROVE ActiveDisjoint'
    OBVIOUS
<1> USE DEF IInv
<1>1. ASSUME NEW w \in Workers, NEW e \in Equipments, NEW d \in Dates, NEW start \in During[d],
             CheckIn(w, e, d, start)
      PROVE  ActiveDisjoint'
    BY <1>1, AddDisjoint DEF CheckIn, Creatable
<1>2. ASSUME NEW w \in Workers, NEW e \in Equipments, NEW d \in Dates, NEW start \in During[d],
             NEW end \in Instants \cup {None}, Create(w, e, d, start, end)
      PROVE  ActiveDisjoint'
    BY <1>2, AddDisjoint DEF Create, Creatable
<1>3. ASSUME NEW a \in actual, NEW end \in Instants, Close(a, end) PROVE ActiveDisjoint'
    <2>1. Closed(a, end).status = "CLOSED"
        BY DEF Closed, TypeOK, Assignment
    <2>2. \A b \in actual' : b.status = "ACTIVE" => b \in actual
        BY <1>3, <2>1 DEF Close
    <2> QED
        BY <2>2 DEF ActiveDisjoint, Overlap, Before
<1>4. ASSUME UNCHANGED actual PROVE ActiveDisjoint'
    BY <1>4 DEF ActiveDisjoint, Overlap, Before
<1> QED
    BY <1>1, <1>2, <1>3, <1>4
    DEF Next, vars, Compare, DetectSubstitution, ReportMismatch, Evaluate,
        RaiseDiscrepancy, RaiseEvaluation

\* Rows keep their types, for every roster, fleet and set of certificates.
THEOREM Typed == Spec => []TypeOK
<1>1. Init => TypeOK
    BY DEF Init, TypeOK
<1> QED
    BY <1>1, TypeStep, PTL DEF Spec

\* Active assignments of one operating date that share a worker or a machine
\* never overlap: what check_worker_overlap and check_equipment_overlap are
\* for.
THEOREM Disjoint == Spec => []ActiveDisjoint
<1>1. Init => IInv
    BY DEF Init, IInv, TypeOK, ActiveDisjoint
<1>2. IInv /\ [Next]_vars => IInv'
    BY TypeStep, DisjointStep DEF IInv
<1>3. IInv => ActiveDisjoint
    BY DEF IInv
<1> QED
    BY <1>1, <1>2, <1>3, PTL DEF Spec

----------------------------------------------------------------------------
(* Where reports come from.                                                *)

UniqueKeys == \A a, b \in actual : KeyOf(a) = KeyOf(b) => a = b
EndsAfterStart == \A a \in actual : a.end # None => a.start < a.end
ComparisonsTrue ==
    \A c \in comparisons : \E a \in actual :
        KeyOf(a) = c.of /\ a.date = c.date /\ c.result = OutcomeOf(a)
DiscrepanciesTrue ==
    \A x \in discrepancies :
        HasCause(x.of, x.kind)
EvaluationsTrue ==
    \A r \in evaluations : r.status = "FAIL" => HasCause(r.of, "EQUIPMENT_MISMATCH")

Provenance ==
    /\ UniqueKeys /\ EndsAfterStart
    /\ ComparisonsTrue /\ DiscrepanciesTrue /\ EvaluationsTrue /\ CaseHasCause

\* Assignments with one key have the same worker, machine and start.
LEMMA KeyParts ==
    ASSUME NEW a, NEW b, KeyOf(a) = KeyOf(b)
    PROVE  a.worker = b.worker /\ a.equipment = b.equipment /\ a.start = b.start
<1>1. \A x : KeyOf(x).worker = x.worker /\ KeyOf(x).equipment = x.equipment /\ KeyOf(x).start = x.start
    BY DEF KeyOf
<1> QED
    BY <1>1

\* Every assignment is still there, perhaps closed.
Kept == \A a \in actual : \E b \in actual' : KeyOf(b) = KeyOf(a) /\ b.date = a.date

LEMMA SameOutcome ==
    ASSUME NEW a, NEW b, KeyOf(a) = KeyOf(b), a.date = b.date
    PROVE  /\ OutcomeOf(a) = OutcomeOf(b)
           /\ \A kind : AgainstRoster(kind, a) <=> AgainstRoster(kind, b)
    BY KeyParts DEF OutcomeOf, AgainstRoster, OnAnotherMachine, PlannedForAnother

LEMMA KeptCauses ==
    ASSUME Kept
    PROVE  /\ \A key, kind : HasCause(key, kind) => HasCause(key, kind)'
           /\ \A key, d, outcome :
                 (\E a \in actual : KeyOf(a) = key /\ a.date = d /\ outcome = OutcomeOf(a))
                 => \E b \in actual' : KeyOf(b) = key /\ b.date = d /\ outcome = OutcomeOf(b)
<1>1. ASSUME NEW key, NEW kind, HasCause(key, kind) PROVE HasCause(key, kind)'
    <2>1. PICK a \in actual : KeyOf(a) = key /\ AgainstRoster(kind, a)
        BY <1>1 DEF HasCause
    <2>2. PICK b \in actual' : KeyOf(b) = KeyOf(a) /\ b.date = a.date
        BY DEF Kept
    <2>3. AgainstRoster(kind, b)
        BY <2>1, <2>2, SameOutcome
    <2> QED
        BY <2>1, <2>2, <2>3 DEF HasCause, AgainstRoster, OnAnotherMachine, PlannedForAnother
<1>2. ASSUME NEW key, NEW d, NEW outcome,
             NEW a \in actual, KeyOf(a) = key /\ a.date = d /\ outcome = OutcomeOf(a)
      PROVE  \E b \in actual' : KeyOf(b) = key /\ b.date = d /\ outcome = OutcomeOf(b)
    <2>1. PICK b \in actual' : KeyOf(b) = KeyOf(a) /\ b.date = a.date
        BY DEF Kept
    <2>2. OutcomeOf(b) = OutcomeOf(a)
        BY <2>1, SameOutcome
    <2> QED
        BY <1>2, <2>1, <2>2
<1> QED
    BY <1>1, <1>2

\* A new assignment: its key is new, and its end lies after its start.
LEMMA AddProvenance ==
    ASSUME TypeOK, UniqueKeys, EndsAfterStart, NEW w, NEW e, NEW d, NEW start, NEW end,
           Creatable(w, e, d, start, end), end = None \/ start < end,
           actual' = actual \cup {NewAssignment(w, e, d, start, end)}
    PROVE  UniqueKeys' /\ EndsAfterStart' /\ Kept
<1> DEFINE n == NewAssignment(w, e, d, start, end)
<1>1. KeyOf(n) = [worker |-> w, equipment |-> e, start |-> start] /\ n.start = start /\ n.end = end
    BY DEF NewAssignment, KeyOf
<1>2. \A a \in actual : KeyOf(a) # KeyOf(n)
    BY <1>1 DEF Creatable
<1>3. actual' = actual \cup {n}
    OBVIOUS
<1> HIDE DEF n
<1>4. UniqueKeys'
    BY <1>2, <1>3 DEF UniqueKeys, KeyOf
<1>5. EndsAfterStart'
    BY <1>1, <1>3 DEF EndsAfterStart
<1> QED
    BY <1>3, <1>4, <1>5 DEF Kept

LEMMA CloseProvenance ==
    ASSUME TypeOK, UniqueKeys, EndsAfterStart, NEW a \in actual, NEW end \in Instants,
           a.start < end, Close(a, end)
    PROVE  UniqueKeys' /\ EndsAfterStart' /\ Kept
<1> DEFINE n == Closed(a, end)
<1>1. a \in Assignment
    BY DEF TypeOK
<1>2. n.worker = a.worker /\ n.equipment = a.equipment /\ n.start = a.start /\ n.date = a.date /\ n.end = end
    BY <1>1 DEF Closed, Assignment
<1>3. KeyOf(n) = KeyOf(a)
    BY <1>2 DEF KeyOf
<1>4. actual' = (actual \ {a}) \cup {n}
    BY DEF Close
<1> HIDE DEF n
<1>5. UniqueKeys'
    BY <1>3, <1>4 DEF UniqueKeys, KeyOf
<1>6. EndsAfterStart'
    BY <1>2, <1>4 DEF EndsAfterStart
<1>7. Kept
    BY <1>2, <1>3, <1>4 DEF Kept
<1> QED
    BY <1>5, <1>6, <1>7

\* A discrepancy that is true of an assignment has its cause.
TrueOf(x, a) == x.of = KeyOf(a) /\ AgainstRoster(x.kind, a)

\* What a comparison and the two detections add is true.
LEMMA ComparedTrue ==
    ASSUME NEW a, NEW c \in Compared(a)
    PROVE  c.of = KeyOf(a) /\ c.date = a.date /\ c.result = OutcomeOf(a)
    BY DEF Compared

LEMMA MismatchedTrue ==
    ASSUME NEW c, NEW x \in Mismatched(c), NEW a, KeyOf(a) = c.of, c.result = OutcomeOf(a)
    PROVE  TrueOf(x, a)
<1>1. c.result = "MISMATCH" /\ x.of = c.of /\ x.kind = "EQUIPMENT_MISMATCH"
    BY DEF Mismatched
<1>2. OnAnotherMachine(a)
    BY <1>1 DEF OutcomeOf, OnAnotherMachine
<1> QED
    BY <1>1, <1>2 DEF TrueOf, AgainstRoster

LEMMA SubstitutedTrue ==
    ASSUME NEW a, NEW rows \in Substitutions(a), NEW x \in rows
    PROVE  TrueOf(x, a)
<1>1. PICK p \in Planners(a.equipment, a.date) : rows = Substituted(a, p)
    BY DEF Substitutions
<1>2. p # a.worker /\ x.of = KeyOf(a) /\ x.kind = "OPERATOR_SUBSTITUTION"
    BY <1>1 DEF Substituted
<1>3. PlannedForAnother(a)
    BY <1>1, <1>2 DEF PlannedForAnother
<1> QED
    BY <1>2, <1>3 DEF TrueOf, AgainstRoster

LEMMA InitProvenance == Init => Provenance
    BY DEF Init, Provenance, UniqueKeys, EndsAfterStart, ComparisonsTrue, DiscrepanciesTrue,
           EvaluationsTrue, CaseHasCause

LEMMA NextProvenance == TypeOK /\ Provenance /\ [Next]_vars => Provenance'
<1> SUFFICES ASSUME TypeOK, Provenance, [Next]_vars PROVE Provenance'
    OBVIOUS
<1> USE DEF Provenance
<1>0. UNCHANGED actual => UniqueKeys' /\ EndsAfterStart' /\ Kept
    BY DEF UniqueKeys, EndsAfterStart, Kept
<1>1. ASSUME Kept,
             \A c \in comparisons' : c \in comparisons \/ \E a \in actual' : c \in Compared(a)
      PROVE  ComparisonsTrue'
    <2> SUFFICES ASSUME NEW c \in comparisons'
                 PROVE  \E a \in actual' : KeyOf(a) = c.of /\ a.date = c.date /\ c.result = OutcomeOf(a)
        BY DEF ComparisonsTrue
    <2>1. CASE c \in comparisons
        <3>1. \E a \in actual : KeyOf(a) = c.of /\ a.date = c.date /\ c.result = OutcomeOf(a)
            BY <2>1 DEF ComparisonsTrue
        <3> QED
            BY <1>1, <3>1, KeptCauses
    <2>2. CASE \E a \in actual' : c \in Compared(a)
        BY <2>2, ComparedTrue
    <2> QED
        BY <1>1, <2>1, <2>2
<1>2. ASSUME Kept,
             \A x \in discrepancies' : x \in discrepancies \/ \E a \in actual' : TrueOf(x, a)
      PROVE  DiscrepanciesTrue'
    BY <1>2, KeptCauses DEF DiscrepanciesTrue, TrueOf, HasCause, AgainstRoster, OnAnotherMachine, PlannedForAnother
<1>3. ASSUME Kept, \A r \in evaluations' : r \in evaluations \/ r.status # "FAIL" \/ HasCause(r.of, "EQUIPMENT_MISMATCH")
      PROVE  EvaluationsTrue'
    BY <1>3, KeptCauses DEF EvaluationsTrue
<1>4. ASSUME Kept, discrepancies \subseteq discrepancies', evaluations \subseteq evaluations',
             \A x \in cases' : x \in cases \/ (HasRow(x) /\ HasCause(x.of, x.kind))
      PROVE  CaseHasCause'
    BY <1>4, KeptCauses DEF CaseHasCause, HasRow, Reported
<1>5. ASSUME NEW w \in Workers, NEW e \in Equipments, NEW d \in Dates, NEW start \in During[d],
             CheckIn(w, e, d, start)
      PROVE  Provenance'
    <2> DEFINE a == NewAssignment(w, e, d, start, None)
    <2>1. UniqueKeys' /\ EndsAfterStart' /\ Kept
        BY <1>5, AddProvenance DEF CheckIn
    <2>2. a \in actual' /\ comparisons' = comparisons \cup Compared(a)
          /\ UNCHANGED <<evaluations, cases>>
        BY <1>5 DEF CheckIn
    <2>3. PICK rows \in Substitutions(a) :
             discrepancies' = discrepancies \cup rows \cup UNION {Mismatched(c) : c \in Compared(a)}
        BY <1>5 DEF CheckIn
    <2> HIDE DEF a
    <2>4. \A x \in rows : TrueOf(x, a)
        BY SubstitutedTrue
    <2>5. \A c \in Compared(a) : \A x \in Mismatched(c) : TrueOf(x, a)
        BY ComparedTrue, MismatchedTrue
    <2>6. DiscrepanciesTrue'
        BY <1>2, <2>1, <2>2, <2>3, <2>4, <2>5
    <2> QED
        BY <1>1, <1>3, <1>4, <2>1, <2>2, <2>3, <2>6
<1>6. ASSUME NEW w \in Workers, NEW e \in Equipments, NEW d \in Dates, NEW start \in During[d],
             NEW end \in {i \in Instants : start < i} \cup {None}, Create(w, e, d, start, end)
      PROVE  Provenance'
    <2>1. UniqueKeys' /\ EndsAfterStart' /\ Kept
        BY <1>6, AddProvenance DEF Create
    <2> QED
        BY <1>1, <1>2, <1>3, <1>4, <1>6, <2>1 DEF Create
<1>7. ASSUME NEW a \in actual, NEW end \in {i \in Instants : a.start < i}, Close(a, end)
      PROVE  Provenance'
    <2>1. UniqueKeys' /\ EndsAfterStart' /\ Kept
        BY <1>7, CloseProvenance
    <2> QED
        BY <1>1, <1>2, <1>3, <1>4, <1>7, <2>1 DEF Close
<1>8. ASSUME NEW a \in actual, Compare(a) PROVE Provenance'
    BY <1>0, <1>1, <1>2, <1>3, <1>4, <1>8 DEF Compare
<1>9. ASSUME NEW a \in actual, DetectSubstitution(a) PROVE Provenance'
    <2>1. PICK rows \in Substitutions(a) : discrepancies' = discrepancies \cup rows
        BY <1>9 DEF DetectSubstitution
    <2>2. \A x \in rows : TrueOf(x, a)
        BY SubstitutedTrue
    <2>3. DiscrepanciesTrue'
        BY <1>0, <1>2, <1>9, <2>1, <2>2 DEF DetectSubstitution
    <2> QED
        BY <1>0, <1>1, <1>3, <1>4, <1>9, <2>3 DEF DetectSubstitution
<1>10. ASSUME NEW c \in comparisons, ReportMismatch(c) PROVE Provenance'
    <2>1. PICK a \in actual : KeyOf(a) = c.of /\ c.result = OutcomeOf(a)
        BY DEF ComparisonsTrue
    <2>2. \A x \in Mismatched(c) : TrueOf(x, a)
        BY <2>1, MismatchedTrue
    <2>3. DiscrepanciesTrue'
        BY <1>0, <1>2, <1>10, <2>2 DEF ReportMismatch
    <2> QED
        BY <1>0, <1>1, <1>3, <1>4, <1>10, <2>3 DEF ReportMismatch
<1>11. ASSUME NEW c \in comparisons, Evaluate(c) PROVE Provenance'
    <2>1. PICK a \in actual : KeyOf(a) = c.of /\ c.result = OutcomeOf(a)
        BY DEF ComparisonsTrue
    <2>2. c.result = "MISMATCH" => HasCause(c.of, "EQUIPMENT_MISMATCH")
        BY <2>1 DEF OutcomeOf, AgainstRoster, OnAnotherMachine, HasCause
    <2>3. EvaluationsTrue'
        BY <1>0, <1>3, <1>11, <2>2 DEF Evaluate
    <2> QED
        BY <1>0, <1>1, <1>2, <1>4, <1>11, <2>3 DEF Evaluate
<1>12. ASSUME NEW x \in discrepancies, RaiseDiscrepancy(x) PROVE Provenance'
    <2>1. CaseHasCause'
        BY <1>0, <1>4, <1>12 DEF RaiseDiscrepancy, DiscrepanciesTrue, HasRow, Reported
    <2> QED
        BY <1>0, <1>1, <1>2, <1>3, <1>12, <2>1 DEF RaiseDiscrepancy
<1>13. ASSUME NEW r \in evaluations, RaiseEvaluation(r) PROVE Provenance'
    <2>1. CaseHasCause'
        BY <1>0, <1>4, <1>13, r = [of |-> r.of, status |-> "FAIL"]
        DEF RaiseEvaluation, EvaluationsTrue, Failed, HasRow, TypeOK
    <2> QED
        BY <1>0, <1>1, <1>2, <1>3, <1>13, <2>1 DEF RaiseEvaluation
<1>14. CASE UNCHANGED vars
    BY <1>0, <1>1, <1>2, <1>3, <1>4, <1>14 DEF vars
<1> QED
    BY <1>5, <1>6, <1>7, <1>8, <1>9, <1>10, <1>11, <1>12, <1>13, <1>14 DEF Next

LEMMA AlwaysProvenance == Spec => [](IInv /\ Provenance)
<1>1. Init => IInv
    BY DEF Init, IInv, TypeOK, ActiveDisjoint
<1>2. IInv /\ Provenance /\ [Next]_vars => IInv' /\ Provenance'
    BY TypeStep, DisjointStep, NextProvenance DEF IInv
<1> QED
    BY <1>1, <1>2, InitProvenance, PTL DEF Spec

\* Every exception case goes back to a failed verdict or a discrepancy of its
\* kind, and that to an assignment which is against the roster in this way,
\* however comparison, detection, verdict and closing follow one another.
THEOREM CasesHaveCauses == Spec => []CaseHasCause
<1>1. Provenance => CaseHasCause
    BY DEF Provenance
<1> QED
    BY <1>1, AlwaysProvenance, PTL

----------------------------------------------------------------------------
(* The views.                                                              *)

\* A machine that is being run, with no end, was started last.
LEMMA CurrentIsLast ==
    ASSUME IInv, Provenance, NEW w, NEW d, NEW a \in Current(w, d), NEW b \in Active(w, d), b # a
    PROVE  b.start < a.start /\ b.end # None
<1>1. /\ a \in Active(w, d) /\ a \in actual /\ b \in actual /\ a.end = None
      /\ a.worker = b.worker /\ a.date = b.date /\ a.status = "ACTIVE" /\ b.status = "ACTIVE"
    BY DEF Current, History, Active
<1>2. ~ Overlap(a, b.start, b.end)
    BY <1>1 DEF IInv, ActiveDisjoint
<1>3. b.end # None /\ ~ (a.start < b.end)
    BY <1>1, <1>2 DEF Overlap, Before
<1>4. b.start < b.end
    BY <1>1, <1>3 DEF Provenance, EndsAfterStart
<1>5. a.start \in Int /\ b.start \in Int /\ b.end \in Int
    BY <1>1, <1>3, InstantsAssumption DEF IInv, TypeOK, Assignment
<1> QED
    BY <1>3, <1>4, <1>5

LEMMA BoardShowsCurrent ==
    ASSUME IInv, Provenance, NEW x \in OnDuty, NEW a \in Current(x[1], x[2])
    PROVE  BoardMachine(x[1], x[2]) = {a.equipment} /\ Current(x[1], x[2]) = {a}
<1> DEFINE rows == Active(x[1], x[2])
<1>1. a \in rows /\ a.start \in Int /\ \A b \in rows : b.start \in Int
    BY InstantsAssumption DEF Current, History, Active, IInv, TypeOK, Assignment
<1>2. \A b \in rows : b # a => b.start < a.start
    BY CurrentIsLast
<1> HIDE DEF rows
<1>3. LastStarted(rows) = {a}
    BY <1>1, <1>2 DEF LastStarted
<1>4. <<x[1], x[2]>> \in OnDuty
    <2>1. x \in Workers \X Dates
        BY OnDutyAssumption
    <2> QED
        BY <2>1
<1>5. Current(x[1], x[2]) = {a}
    <2>1. ASSUME NEW b \in Current(x[1], x[2]), b # a PROVE FALSE
        <3>1. b \in Active(x[1], x[2]) /\ b.end = None
            BY DEF Current, History, Active
        <3> QED
            BY <2>1, <3>1, CurrentIsLast
    <2> QED
        BY <2>1
<1> QED
    BY <1>3, <1>4, <1>5 DEF BoardMachine, rows

\* What the dashboard shows of an assignment is its outcome.
LEMMA ShownIsTrue ==
    ASSUME Provenance, NEW a \in actual, ShownOutcome(a) = "MISMATCH"
    PROVE  /\ Planned(a.worker, a.date) \notin {None, a.equipment}
           /\ (\E c \in comparisons : c.of = KeyOf(a)) =>
                 \E c \in comparisons : c.of = KeyOf(a) /\ c.result = "MISMATCH"
<1>1. CASE \E c \in comparisons : c.of = KeyOf(a)
    <2> DEFINE shown == CHOOSE c \in comparisons : c.of = KeyOf(a)
    <2>1. shown \in comparisons /\ shown.of = KeyOf(a)
        BY <1>1
    <2>2. shown.result = "MISMATCH"
        BY <1>1 DEF ShownOutcome
    <2> HIDE DEF shown
    <2>3. PICK b \in actual : KeyOf(b) = KeyOf(a) /\ shown.result = OutcomeOf(b)
        BY <2>1 DEF Provenance, ComparisonsTrue
    <2>4. b = a
        BY <2>3 DEF Provenance, UniqueKeys
    <2>5. OutcomeOf(a) = "MISMATCH"
        BY <2>2, <2>3, <2>4
    <2> QED
        BY <2>1, <2>2, <2>5 DEF OutcomeOf
<1>2. CASE ~ \E c \in comparisons : c.of = KeyOf(a)
    BY <1>2 DEF ShownOutcome
<1> QED
    BY <1>1, <1>2

\* A worker's one active assignment is what board and dashboard show.
LEMMA OneMachine ==
    ASSUME IInv, NEW x \in OnDuty, NEW row \in DashboardRows(x[1], x[2])
    PROVE  SameMachine(x[1], x[2], row)
<1>1. ASSUME row.machine = None PROVE BoardMachine(x[1], x[2]) = {}
    <2>1. \A a \in Active(x[1], x[2]) : a.equipment # None
        BY EquipmentsAssumption DEF Active, IInv, TypeOK, Assignment
    <2>2. Active(x[1], x[2]) = {}
        BY <1>1, <2>1 DEF DashboardRows
    <2> QED
        BY <2>2 DEF BoardMachine, LastStarted
<1>2. ASSUME NEW a \in actual, Active(x[1], x[2]) = {a}
      PROVE  BoardMachine(x[1], x[2]) = {row.machine}
    <2>1. row.machine = a.equipment
        BY <1>2 DEF DashboardRows
    <2>2. a.start \in Int
        BY InstantsAssumption DEF IInv, TypeOK, Assignment
    <2>3. LastStarted({a}) = {a}
        BY <2>2 DEF LastStarted
    <2>4. <<x[1], x[2]>> \in OnDuty
        <3>1. x \in Workers \X Dates
            BY OnDutyAssumption
        <3> QED
            BY <3>1
    <2> QED
        BY <1>2, <2>1, <2>3, <2>4 DEF BoardMachine
<1> QED
    BY <1>1, <1>2 DEF SameMachine

LEMMA MismatchIsTrue ==
    ASSUME Provenance, NEW x \in OnDuty, NEW row \in DashboardRows(x[1], x[2]),
           row.outcome = "MISMATCH"
    PROVE  TrueMismatch(x[1], x[2], row)
<1>1. PICK a \in Active(x[1], x[2]) : row.machine = a.equipment /\ ShownOutcome(a) = "MISMATCH"
    BY DEF DashboardRows
<1>2. a \in actual /\ a.worker = x[1] /\ a.date = x[2] /\ a \in History(x[1], x[2])
    BY DEF Active, History
<1>3. Planned(x[1], x[2]) \notin {None, row.machine}
    BY <1>1, <1>2, ShownIsTrue
<1>4. (\E c \in comparisons : c.of = KeyOf(a)) => HasMismatch(x[1], x[2])
    BY <1>1, <1>2, ShownIsTrue DEF HasMismatch
<1> QED
    BY <1>3, <1>4 DEF TrueMismatch

\* The board and the worker detail agree on the machine a worker is at, a page
\* of the dashboard shows it too where no other assignment of his is active,
\* and each calls a machine a mismatch only if another one is planned.
THEOREM ViewsAreConsistent == Spec => []ViewsAgree
<1>1. IInv /\ Provenance => ViewsAgree
    BY BoardShowsCurrent, OneMachine, MismatchIsTrue DEF ViewsAgree
<1> QED
    BY <1>1, AlwaysProvenance, PTL
=============================================================================
