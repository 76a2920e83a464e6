-------------------------- MODULE EventPipelineProofs --------------------------
(***************************************************************************)
(* Proofs about the event pipeline: that deliveries, engines and jobs keep *)
(* the types of their rows, that an occurrence becomes one canonical event *)
(* as long as no two deliveries of it pass their look-up together, that    *)
(* there is one verdict per piece of evidence, that no worker falls back   *)
(* to an earlier stage of his shift, that a disorder of checkpoints is     *)
(* found, and that verdicts and absences agree with the clock on the wall. *)
(***************************************************************************)
EXTENDS ShiftViews, OrderLemmas, FiniteSetTheorems, TLAPS

----------------------------------------------------------------------------
(* Types.                                                                  *)

Status == {"VALID", "AMBIGUOUS_SHIFT", "MISSING_SHIFT"}

LEMMA ZoneType == ASSUME NEW site PROVE Zone(site) \in Int
    BY ZonesAssumption DEF Zone

LEMMA DateType ==
    ASSUME NEW i \in Int, NEW z \in Int
    PROVE  LocalDate(i, z) \in Int /\ LocalTime(i, z) \in Int
    BY DayLengthAssumption DEF LocalDate, LocalTime

LEMMA OperatingDateType ==
    ASSUME NEW i \in Int, NEW z \in Int, NEW s
    PROVE  OperatingDate(i, z, s) \in Int
<1>1. LocalDate(i, z) \in Int
    BY DateType
<1> QED
    BY <1>1 DEF OperatingDate

LEMMA RosterType ==
    ASSUME EventsTypeOK, NEW w \in Workers, NEW d, Roster(w, d) # None
    PROVE  Roster(w, d) \in RosterRow /\ d \in Dates
    BY DEF EventsTypeOK, Roster

LEMMA ResolveType ==
    ASSUME EventsTypeOK, NEW o \in Occurrence
    PROVE  /\ Resolve(o).date \in Int /\ Resolve(o).status \in Status
           /\ Resolve(o).shift \in Shifts \cup {None}
<1> DEFINE z == Zone(o.site)
           claims == Claims(o.worker, o.at, z)
<1>1. o.worker \in Workers /\ o.at \in Int /\ o.shift \in Shifts \cup {None} /\ z \in Int
    BY ZoneType DEF Occurrence
<1>2. OperatingDate(o.at, z, o.shift) \in Int /\ LocalDate(o.at, z) \in Int
    BY <1>1, DateType, OperatingDateType
<1>3. \A d \in claims : d \in Int /\ Roster(o.worker, d) # None
    BY <1>1, <1>2 DEF Claims
<1>4. \A d \in claims : Roster(o.worker, d).shift \in Shifts \cup {None}
    BY <1>1, <1>3, RosterType DEF RosterRow
<1>5. Cardinality(claims) = 1 => (CHOOSE d \in claims : TRUE) \in claims
    BY FS_EmptySet
<1>6. Resolve(o) = IF o.shift # None
        THEN [date |-> OperatingDate(o.at, z, o.shift), shift |-> o.shift, status |-> "VALID"]
        ELSE IF Cardinality(claims) = 1
        THEN [date |-> CHOOSE d \in claims : TRUE,
              shift |-> Roster(o.worker, CHOOSE d \in claims : TRUE).shift, status |-> "VALID"]
        ELSE [date |-> LocalDate(o.at, z), shift |-> None,
              status |-> IF claims = {} THEN "MISSING_SHIFT" ELSE "AMBIGUOUS_SHIFT"]
    BY DEF Resolve
<1> HIDE DEF z, claims
<1>7. CASE o.shift # None
    BY <1>1, <1>2, <1>6, <1>7 DEF Status
<1>8. CASE o.shift = None /\ Cardinality(claims) = 1
    BY <1>3, <1>4, <1>5, <1>6, <1>8 DEF Status
<1>9. CASE o.shift = None /\ Cardinality(claims) # 1
    BY <1>2, <1>6, <1>9 DEF Status
<1> QED
    BY <1>7, <1>8, <1>9

LEMMA CanonicalOfType ==
    ASSUME EventsTypeOK, NEW m \in Messages
    PROVE  CanonicalOf(m) \in CanonicalRow
<1> DEFINE o == occurrence[m]
           r == Resolve(o)
           ok == r.shift # None /\ Roster(o.worker, r.date) # None
<1>1. o \in Occurrence
    BY OccurrencesAssumption DEF EventsTypeOK
<1>2. r.date \in Int /\ r.status \in Status /\ r.shift \in Shifts \cup {None}
    BY <1>1, ResolveType
<1>3. ok \in BOOLEAN
    OBVIOUS
<1>4. CanonicalOf(m) =
        [worker |-> o.worker, type |-> o.type, at |-> o.at, site |-> o.site,
         shift |-> r.shift, date |-> r.date, status |-> r.status, rostered |-> ok, source |-> m,
         distance |-> o.distance, mismatch |-> o.mismatch]
    BY DEF CanonicalOf
<1> HIDE DEF o, r, ok
<1> QED
    BY <1>1, <1>2, <1>3, <1>4 DEF CanonicalRow, Occurrence, Status

LEMMA CanonicalOfLegacyType ==
    ASSUME EventsTypeOK, NEW a \in LegacyEvents
    PROVE  CanonicalOfLegacy(a) \in CanonicalRow
<1> DEFINE row == Roster(a.worker, a.workDate)
           ok == row # None
           s == IF row # None THEN row.shift ELSE None
<1>1. a \in LegacyEvent
    BY LegacyAssumption
<1>2. s \in Shifts \cup {None}
    BY <1>1, RosterType DEF LegacyEvent, RosterRow
<1>3. ok \in BOOLEAN
    OBVIOUS
<1>4. CanonicalOfLegacy(a) =
        [worker |-> a.worker, type |-> a.type, at |-> a.at, site |-> None, shift |-> s,
         date |-> a.workDate, status |-> "VALID", rostered |-> ok, source |-> a,
         distance |-> None, mismatch |-> FALSE]
    BY DEF CanonicalOfLegacy
<1> HIDE DEF row, ok, s
<1> QED
    BY <1>1, <1>2, <1>3, <1>4 DEF CanonicalRow, LegacyEvent

LEMMA FingerprintType ==
    ASSUME EventsTypeOK, NEW m \in Messages
    PROVE  Fingerprint(m) \in Imprint \cup {None}
    BY OccurrencesAssumption DEF EventsTypeOK, Fingerprint, Occurrence, Imprint

\* What the engine makes of an event that it has.
LEMMA ResultOfType ==
    ASSUME EventsTypeOK, NEW n \in 1..Len(canonical), Mapping[canonical[n].type] # None
    PROVE  ResultOf(n, Mapping[canonical[n].type]) \in ResultRow
<1> DEFINE e == canonical[n]
           t == Mapping[e.type]
           st == IF SwitchedOff(e, t) THEN "NOT_APPLICABLE" ELSE Validated(e, t)
<1>1. e \in CanonicalRow
    BY DEF EventsTypeOK
<1>2. t \in CheckpointTypes
    BY <1>1 DEF CheckpointTypes, CanonicalRow
<1>3. Validated(e, t) \in Verdict
    BY DEF Validated, Verdict
<1>4. st \in Verdict
    BY <1>3 DEF Verdict
<1>5. ResultOf(n, t) = [event |-> n, type |-> t, worker |-> e.worker, date |-> e.date,
                        at |-> e.at, status |-> st]
    BY DEF ResultOf
<1> HIDE DEF e, t, st
<1>6. n \in Nat \ {0}
    OBVIOUS
<1>7. ResultOf(n, t) \in ResultRow
    BY <1>1, <1>2, <1>4, <1>5, <1>6 DEF ResultRow, CanonicalRow
<1> QED
    BY <1>7 DEF t, e

LEMMA MissingOfType ==
    ASSUME NEW d \in Dates
    PROVE  MissingOf(d) \subseteq MissingRow
<1> SUFFICES ASSUME NEW x \in MissingOf(d) PROVE x \in MissingRow
    OBVIOUS
<1>1. PICK w \in Workers : \E p \in Policies : x = [worker |-> w, date |-> d, type |-> p.type]
    BY DEF MissingOf, Expected
<1>2. \A p \in Policies : p.type \in CheckpointTypes
    BY DEF CheckpointTypes
<1> QED
    BY <1>1, <1>2 DEF MissingRow

----------------------------------------------------------------------------
(* The rows of an evaluation, rule by rule.                                *)

LEMMA EventVerdictType ==
    ASSUME NEW rule \in EventRules, NEW e, NEW d, NEW s
    PROVE  EventVerdict(rule, e, d, s) \in Verdict
    BY DEF EventVerdict, EventRules, BreakReturn, LateBriefing, EarlyHandover, LateHandover, Handover,
           Geofence, DeviceRisk, OnTime, Verdict

LEMMA ShiftVerdictType ==
    ASSUME NEW rule, NEW w, NEW d, NEW s, NEW i
    PROVE  ShiftVerdict(rule, w, d, s, i) \in Verdict
    BY DEF ShiftVerdict, MissingBriefing, MissingShiftOut, ShiftOutVerdict, Verdict

LEMMA DateVerdictType ==
    ASSUME NEW rule, NEW w, NEW d
    PROVE  DateVerdict(rule, w, d) \in Verdict /\ Offsite(w, d) \in Verdict
    BY DEF DateVerdict, Offsite, InsufficientRest, OnTime, Verdict

\* A row about a worker and date: its evidence, version and status, by rule.
RowOf(w, d, rule, event, sh, ver, status) ==
    [worker |-> w, date |-> d, rule |-> rule, version |-> ver,
     event |-> event, shift |-> sh, status |-> status]
ShiftAsked(w, d, shift) == IF shift # None THEN shift ELSE Roster(w, d).shift
VersionAsked(w, d, version) == IF version # None THEN version ELSE Roster(w, d).version

LEMMA VerdictsCases ==
    ASSUME NEW w, NEW d, NEW shift, NEW n, NEW version, NEW i,
           NEW r \in Verdicts(w, d, shift, n, version, i)
    PROVE  /\ Roster(w, d) # None
           /\ LET s == ShiftAsked(w, d, shift)
                  v == VersionAsked(w, d, version)
              IN  \/ /\ Roster(w, d).work # "WORK"
                     /\ r = RowOf(w, d, "OFFSITE_ASSIGNMENT", 0, None, version, Offsite(w, d))
                  \/ /\ Roster(w, d).work = "WORK"
                     /\ \/ \E x \in DateRules :
                              r = RowOf(w, d, x, 0, None, v, DateVerdict(x, w, d))
                        \/ s # None /\ \E x \in ShiftRules :
                              r = RowOf(w, d, x, 0, s, v, ShiftVerdict(x, w, d, s, i))
                        \/ s # None /\ n # 0 /\ \E x \in EventRules :
                              /\ x \in DOMAIN Judges => Judges[x] = canonical[n].type
                              /\ r = RowOf(w, d, x, n, None, v, EventVerdict(x, canonical[n], d, s))
<1> USE DEF RowOf, ShiftAsked, VersionAsked
<1>1. Roster(w, d) # None
    BY DEF Verdicts
<1>2. CASE Roster(w, d).work # "WORK"
    BY <1>1, <1>2 DEF Verdicts
<1>3. CASE Roster(w, d).work = "WORK"
    BY <1>1, <1>3 DEF Verdicts
<1> QED
    BY <1>1, <1>2, <1>3

LEMMA VerdictsType ==
    ASSUME EventsTypeOK, NEW w \in Workers, NEW d \in Int, NEW shift \in Shifts \cup {None},
           NEW n \in Nat, NEW version \in Versions \cup {None}, NEW i
    PROVE  Verdicts(w, d, shift, n, version, i) \subseteq EvaluationRow
<1> SUFFICES ASSUME NEW r \in Verdicts(w, d, shift, n, version, i) PROVE r \in EvaluationRow
    OBVIOUS
<1> DEFINE s == ShiftAsked(w, d, shift)
           v == VersionAsked(w, d, version)
<1>1. Roster(w, d) \in RosterRow
    BY VerdictsCases, RosterType
<1>2. s \in Shifts \cup {None} /\ v \in Versions \cup {None}
    BY <1>1 DEF RosterRow, ShiftAsked, VersionAsked
<1>3. \A x \in Rules, k \in {0, n}, sh \in Shifts \cup {None}, ver \in Versions \cup {None},
         st \in Verdict : RowOf(w, d, x, k, sh, ver, st) \in EvaluationRow
    BY DEF RowOf, EvaluationRow
<1>4. \/ r = RowOf(w, d, "OFFSITE_ASSIGNMENT", 0, None, version, Offsite(w, d))
      \/ \E x \in DateRules : r = RowOf(w, d, x, 0, None, v, DateVerdict(x, w, d))
      \/ \E x \in ShiftRules : r = RowOf(w, d, x, 0, s, v, ShiftVerdict(x, w, d, s, i))
      \/ \E x \in EventRules : r = RowOf(w, d, x, n, None, v, EventVerdict(x, canonical[n], d, s))
    BY VerdictsCases
<1> HIDE DEF s, v
<1>5. "OFFSITE_ASSIGNMENT" \in Rules /\ DateRules \subseteq Rules /\ ShiftRules \subseteq Rules
      /\ EventRules \subseteq Rules
    BY DEF Rules, DateRules
<1>6. /\ Offsite(w, d) \in Verdict
      /\ \A x : DateVerdict(x, w, d) \in Verdict /\ ShiftVerdict(x, w, d, s, i) \in Verdict
      /\ \A x \in EventRules : EventVerdict(x, canonical[n], d, s) \in Verdict
    BY DateVerdictType, ShiftVerdictType, EventVerdictType
<1>7. 0 \in {0, n} /\ n \in {0, n} /\ None \in Shifts \cup {None}
    OBVIOUS
<1>8. CASE r = RowOf(w, d, "OFFSITE_ASSIGNMENT", 0, None, version, Offsite(w, d))
    BY <1>3, <1>5, <1>6, <1>7, <1>8
<1>9. CASE \E x \in DateRules : r = RowOf(w, d, x, 0, None, v, DateVerdict(x, w, d))
    BY <1>2, <1>3, <1>5, <1>6, <1>7, <1>9
<1>10. CASE \E x \in ShiftRules : r = RowOf(w, d, x, 0, s, v, ShiftVerdict(x, w, d, s, i))
    BY <1>2, <1>3, <1>5, <1>6, <1>7, <1>10
<1>11. CASE \E x \in EventRules : r = RowOf(w, d, x, n, None, v, EventVerdict(x, canonical[n], d, s))
    BY <1>2, <1>3, <1>5, <1>6, <1>7, <1>11
<1> QED
    BY <1>4, <1>8, <1>9, <1>10, <1>11

\* One evaluation gives one verdict by rule.
LEMMA OneRowByRule ==
    ASSUME NEW w, NEW d, NEW shift, NEW n, NEW version, NEW i,
           NEW q \in Verdicts(w, d, shift, n, version, i),
           NEW r \in Verdicts(w, d, shift, n, version, i), q.rule = r.rule
    PROVE  q = r
<1> DEFINE s == ShiftAsked(w, d, shift)
           v == VersionAsked(w, d, version)
           Of(x) == \/ /\ Roster(w, d).work # "WORK"
                       /\ x = RowOf(w, d, "OFFSITE_ASSIGNMENT", 0, None, version, Offsite(w, d))
                    \/ /\ Roster(w, d).work = "WORK"
                       /\ \/ /\ x.rule \in DateRules
                             /\ x = RowOf(w, d, x.rule, 0, None, v, DateVerdict(x.rule, w, d))
                          \/ /\ x.rule \in ShiftRules
                             /\ x = RowOf(w, d, x.rule, 0, s, v, ShiftVerdict(x.rule, w, d, s, i))
                          \/ /\ x.rule \in EventRules
                             /\ x = RowOf(w, d, x.rule, n, None, v,
                                          EventVerdict(x.rule, canonical[n], d, s))
<1>1. \A rule, event, sh, ver, st : RowOf(w, d, rule, event, sh, ver, st).rule = rule
    BY DEF RowOf
<1>2. Of(q)
    BY <1>1, VerdictsCases
<1>3. Of(r)
    BY <1>1, VerdictsCases
<1>4. DateRules \cap ShiftRules = {} /\ DateRules \cap EventRules = {} /\ ShiftRules \cap EventRules = {}
    BY DEF DateRules, ShiftRules, EventRules
<1> HIDE DEF s, v
<1> QED
    BY <1>2, <1>3, <1>4

----------------------------------------------------------------------------
(* Type correctness.                                                       *)

\* A caller that has an event has one that exists.
CallsExist == \A c \in Callers :
    call[c].step \in {"checkpoint", "rules"} => call[c].event \in 1..Len(canonical)
ResultsExist == \A r \in results : r.event \in 1..Len(canonical)

Typed == TypeOK /\ CallsExist /\ ResultsExist

\* What a caller may have done of its delivery.
CallRecord ==
    {Idle} \cup [step : {"insert", "canonical"}, message : Messages]
           \cup [step : {"checkpoint", "rules"}, event : 1..MaxEvents]

LEMMA CallCases ==
    ASSUME NEW x \in CallRecord
    PROVE  \/ x = Idle
           \/ x.step \in {"insert", "canonical"} /\ x.message \in Messages
           \/ x.step \in {"checkpoint", "rules"} /\ x.event \in 1..MaxEvents
    BY DEF CallRecord, Idle

LEMMA IdleStep == Idle.step = "idle"
    BY DEF Idle

LEMMA InitTyped == Init => Typed
<1> SUFFICES ASSUME Init PROVE Typed
    OBVIOUS
<1> USE DEF Init, EventsInit, CheckpointInit, RulesInit
<1>1. EventsTypeOK
    <2>1. roster \in [Workers \X Dates -> RosterRow \cup {None}]
        BY RostersAssumption
    <2>2. occurrence \in [Messages -> Occurrences] /\ raw \subseteq RawRow
        OBVIOUS
    <2>3. canonical \in Seq(CanonicalRow)
        OBVIOUS
    <2> QED
        BY <2>1, <2>2, <2>3 DEF EventsTypeOK
<1>2. CheckpointTypeOK /\ RulesTypeOK
    BY DEF CheckpointTypeOK, RulesTypeOK
<1>3. now \in Instants
    BY InstantsAssumption
<1>4. CallsExist /\ ResultsExist
    BY IdleStep DEF CallsExist, ResultsExist
<1> QED
    BY <1>1, <1>2, <1>3, <1>4 DEF Typed, TypeOK

\* What each step of the engines adds is typed.
LEMMA InsertRawType ==
    ASSUME EventsTypeOK, NEW m \in Messages, InsertRaw(m)
    PROVE  EventsTypeOK'
<1>1. Fingerprint(m) \in Imprint \cup {None}
    BY FingerprintType
<1>2. [message |-> m, print |-> Fingerprint(m), status |-> "PENDING", event |-> 0] \in RawRow
    BY <1>1 DEF RawRow
<1> QED
    BY <1>2 DEF EventsTypeOK, InsertRaw

LEMMA CreateCanonicalType ==
    ASSUME EventsTypeOK, NEW m \in Messages, CreateCanonical(m)
    PROVE  EventsTypeOK'
<1>0. CanonicalOf(m) \in CanonicalRow /\ canonical \in Seq(CanonicalRow)
    BY CanonicalOfType DEF EventsTypeOK
<1>1. canonical' \in Seq(CanonicalRow)
    <2>1. canonical' = Append(canonical, CanonicalOf(m))
        BY DEF CreateCanonical
    <2> QED
        BY <1>0, <2>1
<1>2. \A r \in RawRow : [r EXCEPT !.status = "PROCESSED", !.event = Len(canonical) + 1] \in RawRow
    <2>1. Len(canonical) + 1 \in Nat
        BY DEF EventsTypeOK
    <2> QED
        BY <2>1 DEF RawRow
<1>3. raw' \subseteq RawRow
    BY <1>2 DEF EventsTypeOK, CreateCanonical
<1> QED
    BY <1>1, <1>3 DEF EventsTypeOK, CreateCanonical

LEMMA AdaptLegacyType ==
    ASSUME EventsTypeOK, NEW a \in LegacyEvents, AdaptLegacy(a)
    PROVE  EventsTypeOK'
<1>1. canonical' \in Seq(CanonicalRow)
    BY CanonicalOfLegacyType DEF EventsTypeOK, AdaptLegacy
<1> QED
    BY <1>1 DEF EventsTypeOK, AdaptLegacy

LEMMA ProcessEventType ==
    ASSUME EventsTypeOK, CheckpointTypeOK, ResultsExist, NEW n \in 1..Len(canonical),
           ProcessEvent(n), UNCHANGED canonical
    PROVE  CheckpointTypeOK' /\ ResultsExist'
<1> DEFINE t == Mapping[canonical[n].type]
<1>1. results' = results \/ (t # None /\ results' = results \cup {ResultOf(n, t)})
    BY DEF ProcessEvent
<1>2. t # None => ResultOf(n, t) \in ResultRow
    BY ResultOfType
<1>3. ResultOf(n, t).event = n
    BY DEF ResultOf
<1>4. missing' = missing
    BY DEF ProcessEvent
<1> HIDE DEF t
<1> QED
    BY <1>1, <1>2, <1>3, <1>4 DEF CheckpointTypeOK, ResultsExist

LEMMA EvaluateType ==
    ASSUME EventsTypeOK, RulesTypeOK, NEW w \in Workers, NEW d \in Int,
           NEW shift \in Shifts \cup {None}, NEW n \in Nat, Evaluate(w, d, shift, n, None, now)
    PROVE  RulesTypeOK'
<1>1. Verdicts(w, d, shift, n, None, now) \subseteq EvaluationRow
    BY VerdictsType
<1>2. evaluations' = evaluations \cup Stored(Verdicts(w, d, shift, n, None, now))
    BY DEF Evaluate
<1> QED
    BY <1>1, <1>2 DEF RulesTypeOK, Stored

CallsOK == call \in [Callers -> CallRecord]

\* A caller moves on, and no canonical event is lost.
LEMMA GoType ==
    ASSUME CallsOK, CallsExist, NEW c \in Callers, NEW x \in CallRecord, Go(c, x),
           canonical \in Seq(CanonicalRow), canonical' \in Seq(CanonicalRow),
           Len(canonical) <= Len(canonical'),
           x.step \in {"checkpoint", "rules"} => x.event \in 1..Len(canonical')
    PROVE  CallsOK' /\ CallsExist'
<1>1. CallsOK'
    BY DEF CallsOK, Go
<1>2. \A b \in Callers : call'[b] = IF b = c THEN x ELSE call[b]
    BY DEF CallsOK, Go
<1>3. Len(canonical) \in Nat /\ Len(canonical') \in Nat
    OBVIOUS
<1>4. CallsExist'
    BY <1>2, <1>3 DEF CallsExist
<1> QED
    BY <1>1, <1>4

LEMMA NextTyped == Typed /\ [Next]_vars => Typed'
<1> SUFFICES ASSUME Typed, [Next]_vars PROVE Typed'
    OBVIOUS
<1>0. EventsTypeOK /\ CheckpointTypeOK /\ RulesTypeOK /\ CallsOK /\ now \in Instants
      /\ CallsExist /\ ResultsExist
    BY DEF Typed, TypeOK, CallsOK, CallRecord
<1>q. ASSUME EventsTypeOK', CheckpointTypeOK', RulesTypeOK', CallsOK', now' \in Instants,
             CallsExist', ResultsExist'
      PROVE  Typed'
    BY <1>q DEF Typed, TypeOK, CallsOK, CallRecord
<1>n. Len(canonical) \in Nat /\ canonical \in Seq(CanonicalRow)
    BY <1>0 DEF EventsTypeOK
<1>e. UNCHANGED eventVars => EventsTypeOK'
    BY <1>0 DEF EventsTypeOK, eventVars, RawRow, CanonicalRow
<1>k. UNCHANGED checkpointVars => CheckpointTypeOK'
    BY <1>0 DEF CheckpointTypeOK, checkpointVars
<1>r. UNCHANGED evaluations => RulesTypeOK'
    BY <1>0 DEF RulesTypeOK
<1>x. UNCHANGED checkpointVars /\ Len(canonical) <= Len(canonical') /\ EventsTypeOK' => ResultsExist'
    <2> SUFFICES ASSUME UNCHANGED checkpointVars, Len(canonical) <= Len(canonical'), EventsTypeOK'
                 PROVE  ResultsExist'
        OBVIOUS
    <2>1. Len(canonical') \in Nat
        BY DEF EventsTypeOK
    <2> QED
        BY <1>0, <1>n, <2>1 DEF ResultsExist, checkpointVars
<1>c. ASSUME UNCHANGED call, Len(canonical) <= Len(canonical'), EventsTypeOK'
      PROVE  CallsOK' /\ CallsExist'
    <2>1. Len(canonical') \in Nat
        BY <1>c DEF EventsTypeOK
    <2> QED
        BY <1>0, <1>n, <1>c, <2>1 DEF CallsExist, CallsOK
<1>i. Idle \in CallRecord /\ Idle.step = "idle"
    BY DEF CallRecord, Idle
<1>1. ASSUME NEW c \in Callers, NEW m \in Messages, Lookup(c, m) PROVE Typed'
    <2>1. [step |-> "insert", message |-> m] \in CallRecord
        BY DEF CallRecord
    <2>2. UNCHANGED canonical
        BY <1>1 DEF Lookup, eventVars
    <2>3. EventsTypeOK' /\ CheckpointTypeOK' /\ RulesTypeOK' /\ now' \in Instants
        BY <1>0, <1>1, <1>e, <1>k, <1>r DEF Lookup
    <2>4. CallsOK' /\ CallsExist'
        BY <1>0, <1>1, <1>n, <2>1, <2>2, GoType DEF Lookup
    <2> QED
        BY <1>1, <1>q, <1>x, <1>n, <2>2, <2>3, <2>4 DEF Lookup
<1>2. ASSUME NEW c \in Callers, Ingest(c) PROVE Typed'
    <2> DEFINE m == call[c].message
    <2>1. m \in Messages
        BY <1>0, <1>2, CallCases, IdleStep DEF Ingest, CallsOK
    <2>2. canonical' = canonical
        BY <1>2 DEF Ingest, InsertRaw, eventVars
    <2>3. EventsTypeOK'
        BY <1>0, <1>2, <1>e, <2>1, InsertRawType DEF Ingest
    <2>4. [step |-> "canonical", message |-> m] \in CallRecord
        BY <2>1 DEF CallRecord
    <2>5. Go(c, Idle) \/ Go(c, [step |-> "canonical", message |-> m])
        BY <1>2 DEF Ingest
    <2>6. CallsOK' /\ CallsExist'
        BY <1>0, <1>n, <1>i, <2>2, <2>4, <2>5, GoType
    <2> QED
        BY <1>2, <1>0, <1>q, <1>x, <1>k, <1>r, <1>n, <2>2, <2>3, <2>6 DEF Ingest
<1>3. ASSUME NEW c \in Callers, Canonicalise(c) PROVE Typed'
    <2> DEFINE m == call[c].message
               next == [step |-> "checkpoint", event |-> Len(canonical) + 1]
    <2>1. m \in Messages
        BY <1>0, <1>3, CallCases, IdleStep DEF Canonicalise, CallsOK
    <2>2. EventsTypeOK'
        BY <1>0, <1>3, <2>1, CreateCanonicalType DEF Canonicalise
    <2>3. canonical' \in Seq(CanonicalRow) /\ Len(canonical') = Len(canonical) + 1
        <3>1. canonical' = Append(canonical, CanonicalOf(m))
            BY <1>3 DEF Canonicalise, CreateCanonical
        <3>2. canonical' \in Seq(CanonicalRow)
            BY <2>2 DEF EventsTypeOK
        <3> HIDE DEF m
        <3> QED
            BY <1>n, <3>1, <3>2
    <2>4. next \in CallRecord
        BY <1>3, <1>n, MaxEventsAssumption DEF CallRecord, Canonicalise
    <2>5. next.step \in {"checkpoint", "rules"} => next.event \in 1..Len(canonical')
        BY <1>n, <2>3
    <2>6. CallsOK' /\ CallsExist'
        BY <1>3, <1>0, <1>n, <2>3, <2>4, <2>5, GoType DEF Canonicalise
    <2> QED
        BY <1>3, <1>0, <1>q, <1>x, <1>k, <1>r, <1>n, <2>2, <2>3, <2>6 DEF Canonicalise
<1>4. ASSUME NEW c \in Callers, Check(c) PROVE Typed'
    <2> DEFINE n == call[c].event
    <2>1. n \in 1..MaxEvents /\ n \in 1..Len(canonical)
        BY <1>0, <1>4, CallCases, IdleStep DEF Check, CallsOK, CallsExist
    <2>2. canonical' = canonical
        BY <1>4 DEF Check, eventVars
    <2>5. CASE ProcessRefused(n) /\ Go(c, Idle) /\ UNCHANGED checkpointVars
        <3>1. CallsOK' /\ CallsExist'
            BY <1>0, <1>i, <1>n, <2>2, <2>5, GoType
        <3> QED
            BY <1>4, <1>0, <1>n, <1>q, <1>e, <1>k, <1>r, <1>x, <2>2, <2>5, <3>1 DEF Check
    <2>6. CASE ProcessEvent(n) /\ Go(c, [step |-> "rules", event |-> n])
        <3>1. CheckpointTypeOK' /\ ResultsExist'
            BY <1>0, <2>1, <2>2, <2>6, ProcessEventType
        <3>2. [step |-> "rules", event |-> n] \in CallRecord
            BY <2>1 DEF CallRecord
        <3>3. CallsOK' /\ CallsExist'
            BY <1>0, <1>n, <2>1, <2>2, <2>6, <3>2, GoType
        <3> QED
            BY <1>4, <1>0, <1>q, <1>e, <1>r, <3>1, <3>3 DEF Check
    <2> QED
        BY <1>4, <2>5, <2>6 DEF Check
<1>5. ASSUME NEW c \in Callers, Judge(c) PROVE Typed'
    <2> DEFINE n == call[c].event
               e == canonical[n]
    <2>1. n \in 1..Len(canonical)
        BY <1>0, <1>5, CallCases, IdleStep DEF Judge, CallsOK, CallsExist
    <2>2. e.worker \in Workers /\ e.date \in Int /\ e.shift \in Shifts \cup {None}
        <3>1. e \in CanonicalRow
            BY <1>n, <2>1
        <3> HIDE DEF e
        <3> QED
            BY <3>1 DEF CanonicalRow
    <2>3. Evaluate(e.worker, e.date, e.shift, n, None, now)
        BY <1>5 DEF Judge
    <2>4. RulesTypeOK'
        <3>1. n \in Nat
            BY <1>n, <2>1
        <3> HIDE DEF n, e
        <3> QED
            BY <1>0, <2>2, <2>3, <3>1, EvaluateType
    <2>5. canonical' = canonical
        BY <1>5 DEF Judge, eventVars
    <2>6. CallsOK' /\ CallsExist'
        BY <1>5, <1>0, <1>n, <1>i, <2>5, GoType DEF Judge
    <2> QED
        BY <1>5, <1>0, <1>q, <1>e, <1>k, <1>x, <1>n, <2>4, <2>5, <2>6 DEF Judge
<1>6. ASSUME NEW c \in Callers, Crash(c) PROVE Typed'
    <2>1. canonical' = canonical
        BY <1>6 DEF Crash, eventVars
    <2>2. CallsOK' /\ CallsExist'
        BY <1>6, <1>0, <1>n, <1>i, <2>1, GoType DEF Crash
    <2> QED
        BY <1>6, <1>0, <1>q, <1>e, <1>k, <1>r, <1>x, <1>n, <2>1, <2>2 DEF Crash
<1>7. ASSUME NEW a \in LegacyEvents, Adapt(a) PROVE Typed'
    <2>1. EventsTypeOK'
        BY <1>0, <1>7, AdaptLegacyType DEF Adapt
    <2>2. Len(canonical) <= Len(canonical')
        BY <1>7, <1>n DEF Adapt, AdaptLegacy
    <2> QED
        BY <1>7, <1>0, <1>q, <1>k, <1>r, <1>x, <1>c, <2>1, <2>2 DEF Adapt
<1>8. ASSUME NEW n \in 1..Len(canonical), Recheck(n) PROVE Typed'
    <2>1. canonical' = canonical
        BY <1>8 DEF Recheck, eventVars
    <2>2. CheckpointTypeOK' /\ ResultsExist'
        BY <1>8, <1>0, <2>1, ProcessEventType DEF Recheck
    <2> QED
        BY <1>8, <1>0, <1>n, <1>q, <1>e, <1>r, <1>c, <2>1, <2>2 DEF Recheck
<1>9. ASSUME NEW d \in Dates, Detect(d) PROVE Typed'
    <2>1. canonical' = canonical /\ results' = results /\ missing' = missing \cup MissingOf(d)
        BY <1>9 DEF Detect, DetectMissing, eventVars
    <2>2. CheckpointTypeOK'
        BY <1>0, <2>1, MissingOfType DEF CheckpointTypeOK
    <2>3. ResultsExist'
        BY <1>0, <2>1 DEF ResultsExist
    <2> QED
        BY <1>9, <1>0, <1>n, <1>q, <1>e, <1>r, <1>c, <2>1, <2>2, <2>3 DEF Detect
<1>10. ASSUME NEW w \in Workers, NEW d \in Dates, JudgeDay(w, d) PROVE Typed'
    <2>1. RulesTypeOK'
        BY <1>10, <1>0, DatesAssumption, EvaluateType DEF JudgeDay
    <2>2. canonical' = canonical
        BY <1>10 DEF JudgeDay, eventVars
    <2> QED
        BY <1>10, <1>0, <1>n, <1>q, <1>e, <1>k, <1>x, <1>c, <2>1, <2>2 DEF JudgeDay
<1>11. ASSUME Tick PROVE Typed'
    <2>1. canonical' = canonical /\ now' \in Instants
        BY <1>11 DEF Tick, eventVars
    <2> QED
        BY <1>11, <1>0, <1>n, <1>q, <1>e, <1>k, <1>r, <1>x, <1>c, <2>1 DEF Tick
<1>12. CASE UNCHANGED vars
    <2>1. canonical' = canonical /\ now' \in Instants
        BY <1>12, <1>0 DEF vars, eventVars
    <2> QED
        BY <1>12, <1>0, <1>n, <1>q, <1>e, <1>k, <1>r, <1>x, <1>c, <2>1 DEF vars
<1> QED
    BY <1>1, <1>2, <1>3, <1>4, <1>5, <1>6, <1>7, <1>8, <1>9, <1>10, <1>11, <1>12 DEF Next

\* The types, and that whoever works on an event works on one that exists: what
\* every theorem below rests on.
THEOREM Types == Spec => []Typed
<1> QED
    BY InitTyped, NextTyped, PTL DEF Spec

\* Every row of the event tables, the engines' results, the verdicts and what
\* callers have done keep their types, for every set of workers, messages and
\* policies (canonical_event_service.py, checkpoint_engine.py,
\* operational_rule_engine.py).
THEOREM TypeCorrect == Spec => []TypeOK
<1>1. Typed => TypeOK
    BY DEF Typed
<1> QED
    BY <1>1, Types, PTL

----------------------------------------------------------------------------
(* One verdict per evidence.                                               *)

LEMMA EvaluateKeepsOne ==
    ASSUME OneVerdictPerEvidence, NEW w, NEW d, NEW shift, NEW n,
           Evaluate(w, d, shift, n, None, now)
    PROVE  OneVerdictPerEvidence'
<1> DEFINE rows == Verdicts(w, d, shift, n, None, now)
<1>1. evaluations' = evaluations \cup Stored(rows)
    BY DEF Evaluate
<1>2. \A q, r \in rows : q.rule = r.rule => q = r
    BY OneRowByRule
<1> HIDE DEF rows
<1>3. \A q, r : Identity(q) = Identity(r) => q.rule = r.rule
    BY DEF Identity
<1>4. \A r \in Stored(rows) : r \in rows /\ \A q \in evaluations : Identity(q) # Identity(r)
    BY DEF Stored
<1>5. \A q, r \in evaluations' : Identity(q) = Identity(r) => q = r
    BY <1>1, <1>2, <1>3, <1>4 DEF OneVerdictPerEvidence
<1> QED
    BY <1>5 DEF OneVerdictPerEvidence, Identity

LEMMA NextKeepsOne == OneVerdictPerEvidence /\ [Next]_vars => OneVerdictPerEvidence'
<1> SUFFICES ASSUME OneVerdictPerEvidence, [Next]_vars PROVE OneVerdictPerEvidence'
    OBVIOUS
<1>1. evaluations' = evaluations => OneVerdictPerEvidence'
    BY DEF OneVerdictPerEvidence
<1>2. ASSUME NEW c \in Callers, Judge(c) PROVE OneVerdictPerEvidence'
    BY <1>2, EvaluateKeepsOne DEF Judge
<1>3. ASSUME NEW w \in Workers, NEW d \in Dates, JudgeDay(w, d) PROVE OneVerdictPerEvidence'
    BY <1>3, EvaluateKeepsOne DEF JudgeDay
<1> QED
    BY <1>1, <1>2, <1>3 DEF Next, Lookup, Ingest, Canonicalise, Check, Crash, Adapt, Recheck, Detect,
                            Tick, vars

\* However often and whenever the rules are evaluated, by deliveries and by the
\* day's jobs, one worker, date, rule, version and piece of evidence has one
\* verdict (_check_existing and uq_rule_eval_identity).
THEOREM OneVerdict == Spec => []OneVerdictPerEvidence
<1>1. Init => OneVerdictPerEvidence
    BY DEF Init, RulesInit, OneVerdictPerEvidence
<1> QED
    BY <1>1, NextKeepsOne, PTL DEF Spec

----------------------------------------------------------------------------
(* One event per occurrence.                                               *)

\* Messages with one fingerprint.
Twins(m, n) == m # n /\ Fingerprint(m) # None /\ Fingerprint(m) = Fingerprint(n)

\* Every raw row shows the fingerprint of its message, and no other row has
\* it.  A delivery past its look-up has no twin among the rows; one past its
\* insert has its row, and is alone with it until the canonical event exists.
RowsArePrints == \A r \in raw : r.print = Fingerprint(r.message)
NoTwinRows == \A q, r \in raw : ~ Twins(q.message, r.message)
LookedUp ==
    \A c \in Callers : call[c].step = "insert" =>
        \A r \in raw : ~ Twins(call[c].message, r.message)
Inserted ==
    \A c \in Callers : call[c].step = "canonical" =>
        /\ \E r \in raw : r.message = call[c].message
        /\ \A n \in 1..Len(canonical) : canonical[n].source # call[c].message
        /\ \A d \in Callers :
              call[d].step = "canonical" /\ call[d].message = call[c].message => d = c
SourcesInserted ==
    \A n \in 1..Len(canonical) : canonical[n].source \in Messages =>
        \E r \in raw : r.message = canonical[n].source
SourcesDiffer ==
    \A i, j \in 1..Len(canonical) :
        canonical[i].source \in Messages /\ canonical[i].source = canonical[j].source => i = j

OnceInv == RowsArePrints /\ NoTwinRows /\ LookedUp /\ Inserted /\ SourcesInserted /\ SourcesDiffer

LEMMA OnceImplies ==
    ASSUME Typed, OnceInv
    PROVE  OneEventPerOccurrence
<1> SUFFICES ASSUME NEW i \in 1..Len(canonical), NEW j \in 1..Len(canonical),
                    {canonical[i].source, canonical[j].source} \subseteq Fingerprinted,
                    occurrence[canonical[i].source] = occurrence[canonical[j].source]
             PROVE  i = j
    BY DEF OneEventPerOccurrence
<1> DEFINE m == canonical[i].source
           n == canonical[j].source
<1>1. m \in Messages /\ n \in Messages
    BY FingerprintedAssumption
<1>2. occurrence[m] \in Occurrence
    BY <1>1, OccurrencesAssumption DEF Typed, TypeOK, EventsTypeOK
<1>3. Fingerprint(m) # None /\ Fingerprint(m) = Fingerprint(n)
    <2>1. m \in Fingerprinted => Fingerprint(m) \in Imprint
        BY <1>2 DEF Fingerprint, Occurrence, Imprint
    <2> QED
        BY <2>1, OccurrencesAssumption DEF Fingerprint
<1>4. (\E q \in raw : q.message = m) /\ \E r \in raw : r.message = n
    BY <1>1 DEF OnceInv, SourcesInserted
<1>5. m = n
    BY <1>3, <1>4 DEF OnceInv, NoTwinRows, Twins
<1> QED
    BY <1>1, <1>5 DEF OnceInv, SourcesDiffer

LEMMA InitOnce == Init => OnceInv
    BY IdleStep DEF Init, EventsInit, OnceInv, RowsArePrints, NoTwinRows, LookedUp, Inserted,
                    SourcesInserted, SourcesDiffer

\* A step of the engines or of the clock leaves all of it alone.
LEMMA OnceElsewhere ==
    ASSUME OnceInv, UNCHANGED <<occurrence, raw, canonical>>,
           \A c \in Callers : call'[c] = call[c] \/ call'[c].step \notin {"insert", "canonical"}
    PROVE  OnceInv'
<1>1. \A m, n : Twins(m, n)' <=> Twins(m, n)
    BY DEF Twins, Fingerprint
<1>2. RowsArePrints' /\ NoTwinRows'
    BY <1>1 DEF OnceInv, RowsArePrints, NoTwinRows, Fingerprint
<1>3. LookedUp'
    BY <1>1 DEF OnceInv, LookedUp
<1>4. Inserted'
    BY DEF OnceInv, Inserted
<1>5. SourcesInserted' /\ SourcesDiffer'
    BY DEF OnceInv, SourcesInserted, SourcesDiffer
<1> QED
    BY <1>2, <1>3, <1>4, <1>5 DEF OnceInv

LEMMA GoElsewhere ==
    ASSUME CallsOK, NEW c \in Callers, NEW x, Go(c, x)
    PROVE  /\ \A b \in Callers : call'[b] = IF b = c THEN x ELSE call[b]
    BY DEF CallsOK, Go

LEMMA LookupOnce ==
    ASSUME Typed, CallsOK, OnceInv, NEW c \in Callers, NEW m \in Messages, Lookup(c, m)
    PROVE  OnceInv'
<1>1. \A b \in Callers : call'[b] = IF b = c THEN [step |-> "insert", message |-> m] ELSE call[b]
    BY GoElsewhere DEF Lookup
<1>2. UNCHANGED <<occurrence, raw, canonical>>
    BY DEF Lookup, eventVars
<1>3. \A q, r : Twins(q, r)' <=> Twins(q, r)
    BY <1>2 DEF Twins, Fingerprint
<1>4. \A r \in raw : ~ Twins(m, r.message)
    BY DEF Lookup, Duplicates, Twins, OnceInv, RowsArePrints
<1>5. RowsArePrints' /\ NoTwinRows'
    BY <1>2, <1>3 DEF OnceInv, RowsArePrints, NoTwinRows, Fingerprint
<1>6. LookedUp'
    BY <1>1, <1>2, <1>3, <1>4 DEF OnceInv, LookedUp
<1>7. Inserted'
    BY <1>1, <1>2 DEF OnceInv, Inserted
<1>8. SourcesInserted' /\ SourcesDiffer'
    BY <1>2 DEF OnceInv, SourcesInserted, SourcesDiffer
<1> QED
    BY <1>5, <1>6, <1>7, <1>8 DEF OnceInv

LEMMA IngestOnce ==
    ASSUME Typed, CallsOK, OnceInv, NoTwinDeliveries, NEW c \in Callers, Ingest(c)
    PROVE  OnceInv'
<1> DEFINE m == call[c].message
<1>1. CASE RawRefused(m)
    <2>1. Go(c, Idle) /\ UNCHANGED eventVars
        BY <1>1 DEF Ingest
    <2> QED
        BY <2>1, GoElsewhere, IdleStep, OnceElsewhere DEF eventVars
<1>2. CASE ~ RawRefused(m)
    <2> DEFINE row == [message |-> m, print |-> Fingerprint(m), status |-> "PENDING", event |-> 0]
               next == [step |-> "canonical", message |-> m]
    <2>1. Go(c, next) /\ InsertRaw(m) /\ call[c].step = "insert"
        BY <1>2 DEF Ingest
    <2>2. raw' = raw \cup {row} /\ UNCHANGED <<occurrence, canonical>>
        BY <2>1 DEF InsertRaw
    <2>3. row.message = m /\ row.print = Fingerprint(m) /\ next.step = "canonical" /\ next.message = m
        OBVIOUS
    <2>4. \A b \in Callers : call'[b] = IF b = c THEN next ELSE call[b]
        BY <2>1, GoElsewhere
    <2>5. \A r \in raw : r.message # m /\ ~ Twins(m, r.message) /\ ~ Twins(r.message, m)
        BY <1>2, <2>1 DEF RawRefused, OnceInv, LookedUp, Twins
    <2>6. \A b \in Callers : call[b].step = "insert" => ~ Twins(call[b].message, m)
        BY <2>1 DEF NoTwinDeliveries, Twins
    <2>7. m \in Messages
        BY <2>1, CallCases, IdleStep DEF CallsOK
    <2>8. \A n \in 1..Len(canonical) : canonical[n].source # m
        BY <2>5, <2>7 DEF OnceInv, SourcesInserted
    <2>9. \A b \in Callers : call[b].step = "canonical" => call[b].message # m
        BY <2>5 DEF OnceInv, Inserted
    <2>10. \A q, r : Twins(q, r)' <=> Twins(q, r)
        BY <2>2 DEF Twins, Fingerprint
    <2>11. ~ Twins(m, m)
        BY DEF Twins
    <2> HIDE DEF m, row, next
    <2>12. RowsArePrints'
        BY <2>2, <2>3 DEF OnceInv, RowsArePrints, Fingerprint
    <2>13. NoTwinRows'
        BY <2>2, <2>3, <2>5, <2>10, <2>11 DEF OnceInv, NoTwinRows
    <2>14. LookedUp'
        BY <2>2, <2>3, <2>4, <2>6, <2>10 DEF OnceInv, LookedUp
    <2>15. Inserted'
        BY <2>2, <2>3, <2>4, <2>8, <2>9 DEF OnceInv, Inserted
    <2>16. SourcesInserted' /\ SourcesDiffer'
        BY <2>2 DEF OnceInv, SourcesInserted, SourcesDiffer
    <2> QED
        BY <2>12, <2>13, <2>14, <2>15, <2>16 DEF OnceInv
<1> QED
    BY <1>1, <1>2

LEMMA CanonicaliseOnce ==
    ASSUME Typed, CallsOK, OnceInv, NEW c \in Callers, Canonicalise(c)
    PROVE  OnceInv'
<1> DEFINE m == call[c].message
           e == CanonicalOf(m)
           next == [step |-> "checkpoint", event |-> Len(canonical) + 1]
           Handled(r) == IF r.message = m
                         THEN [r EXCEPT !.status = "PROCESSED", !.event = Len(canonical) + 1]
                         ELSE r
<1>1. call[c].step = "canonical" /\ canonical' = Append(canonical, e) /\ UNCHANGED occurrence
    BY DEF Canonicalise, CreateCanonical
<1>2. raw' = {Handled(r) : r \in raw}
    BY DEF Canonicalise, CreateCanonical
<1>3. \A r \in RawRow : Handled(r).message = r.message /\ Handled(r).print = r.print
    BY DEF RawRow
<1>4. raw \subseteq RawRow /\ canonical \in Seq(CanonicalRow)
    BY DEF Typed, TypeOK, EventsTypeOK
<1>5. e.source = m
    BY DEF CanonicalOf
<1>6. \A b \in Callers : call'[b] = IF b = c THEN next ELSE call[b]
    BY GoElsewhere DEF Canonicalise
<1>7. next.step = "checkpoint"
    OBVIOUS
<1>8. (\E r \in raw : r.message = m) /\ \A n \in 1..Len(canonical) : canonical[n].source # m
    BY <1>1 DEF OnceInv, Inserted
<1>9. \A b \in Callers : call[b].step = "canonical" /\ b # c => call[b].message # m
    BY <1>1 DEF OnceInv, Inserted
<1>10. \A q, r : Twins(q, r)' <=> Twins(q, r)
    BY <1>1 DEF Twins, Fingerprint
<1> HIDE DEF m, e, next, Handled
<1>11. \A r \in raw' : \E q \in raw : r.message = q.message /\ r.print = q.print
    BY <1>2, <1>3, <1>4
<1>12. \A q \in raw : \E r \in raw' : r.message = q.message
    BY <1>2, <1>3, <1>4
<1>13. /\ Len(canonical') = Len(canonical) + 1 /\ Len(canonical) \in Nat
       /\ \A n \in 1..Len(canonical) : canonical'[n] = canonical[n]
       /\ canonical'[Len(canonical) + 1] = e
    BY <1>1, <1>4
<1>14. RowsArePrints'
    BY <1>1, <1>11 DEF OnceInv, RowsArePrints, Fingerprint
<1>15. NoTwinRows'
    BY <1>10, <1>11 DEF OnceInv, NoTwinRows
<1>16. LookedUp'
    BY <1>6, <1>7, <1>10, <1>11 DEF OnceInv, LookedUp
<1>17. Inserted'
    <2> SUFFICES ASSUME NEW b \in Callers, call'[b].step = "canonical" PROVE
            /\ \E r \in raw' : r.message = call'[b].message
            /\ \A n \in 1..Len(canonical') : canonical'[n].source # call'[b].message
            /\ \A d \in Callers :
                  call'[d].step = "canonical" /\ call'[d].message = call'[b].message => d = b
        BY DEF Inserted
    <2>1. b # c /\ call'[b] = call[b]
        BY <1>6, <1>7
    <2>2. \E r \in raw' : r.message = call'[b].message
        BY <1>12, <2>1 DEF OnceInv, Inserted
    <2>3. \A n \in 1..Len(canonical') : canonical'[n].source # call'[b].message
        <3> TAKE n \in 1..Len(canonical')
        <3>1. CASE n \in 1..Len(canonical)
            BY <1>13, <2>1, <3>1 DEF OnceInv, Inserted
        <3>2. CASE n = Len(canonical) + 1
            BY <1>5, <1>9, <1>13, <2>1, <3>2
        <3> QED
            BY <1>13, <3>1, <3>2
    <2>4. \A d \in Callers : call'[d].step = "canonical" => call'[d] = call[d]
        BY <1>6, <1>7
    <2>5. \A d \in Callers :
              call'[d].step = "canonical" /\ call'[d].message = call'[b].message => d = b
        BY <2>1, <2>4 DEF OnceInv, Inserted
    <2> QED
        BY <2>2, <2>3, <2>5
<1>18. SourcesInserted'
    <2> SUFFICES ASSUME NEW n \in 1..Len(canonical'), canonical'[n].source \in Messages
                 PROVE  \E r \in raw' : r.message = canonical'[n].source
        BY DEF SourcesInserted
    <2>1. CASE n \in 1..Len(canonical)
        BY <1>12, <1>13, <2>1 DEF OnceInv, SourcesInserted
    <2>2. CASE n = Len(canonical) + 1
        BY <1>5, <1>8, <1>12, <1>13, <2>2
    <2> QED
        BY <1>13, <2>1, <2>2
<1>19. SourcesDiffer'
    BY <1>5, <1>8, <1>13 DEF OnceInv, SourcesDiffer
<1> QED
    BY <1>14, <1>15, <1>16, <1>17, <1>18, <1>19 DEF OnceInv

LEMMA AdaptOnce ==
    ASSUME Typed, CallsOK, OnceInv, NEW a \in LegacyEvents, Adapt(a)
    PROVE  OnceInv'
<1> DEFINE e == CanonicalOfLegacy(a)
<1>1. canonical' = Append(canonical, e) /\ UNCHANGED <<raw, occurrence, call>>
    BY DEF Adapt, AdaptLegacy
<1>2. e.source = a /\ a \notin Messages
    BY LegacyAssumption DEF CanonicalOfLegacy
<1>3. canonical \in Seq(CanonicalRow)
    BY DEF Typed, TypeOK, EventsTypeOK
<1> HIDE DEF e
<1>4. /\ Len(canonical') = Len(canonical) + 1 /\ Len(canonical) \in Nat
      /\ \A n \in 1..Len(canonical) : canonical'[n] = canonical[n]
      /\ canonical'[Len(canonical) + 1] = e
    BY <1>1, <1>3
<1>5. \A q, r : Twins(q, r)' <=> Twins(q, r)
    BY <1>1 DEF Twins, Fingerprint
<1>6. RowsArePrints' /\ NoTwinRows'
    BY <1>1, <1>5 DEF OnceInv, RowsArePrints, NoTwinRows, Fingerprint
<1>7. LookedUp'
    BY <1>1, <1>5 DEF OnceInv, LookedUp
<1>8. \A c \in Callers : call[c].step = "canonical" => call[c].message \in Messages
    BY CallCases, IdleStep DEF CallsOK
<1>9. Inserted'
    <2> SUFFICES ASSUME NEW b \in Callers, call[b].step = "canonical"
                 PROVE  \A n \in 1..Len(canonical') : canonical'[n].source # call[b].message
        BY <1>1 DEF OnceInv, Inserted
    <2> TAKE n \in 1..Len(canonical')
    <2>1. CASE n \in 1..Len(canonical)
        BY <1>4, <2>1 DEF OnceInv, Inserted
    <2>2. CASE n = Len(canonical) + 1
        BY <1>2, <1>4, <1>8, <2>2
    <2> QED
        BY <1>4, <2>1, <2>2
<1>10. SourcesInserted'
    <2> SUFFICES ASSUME NEW n \in 1..Len(canonical'), canonical'[n].source \in Messages
                 PROVE  \E r \in raw' : r.message = canonical'[n].source
        BY DEF SourcesInserted
    <2>1. n # Len(canonical) + 1
        BY <1>2, <1>4
    <2> QED
        BY <1>1, <1>4, <2>1 DEF OnceInv, SourcesInserted
<1>11. SourcesDiffer'
    BY <1>2, <1>4 DEF OnceInv, SourcesDiffer
<1> QED
    BY <1>6, <1>7, <1>9, <1>10, <1>11 DEF OnceInv

LEMMA NextOnce == Typed /\ OnceInv /\ NoTwinDeliveries /\ [Next]_vars => OnceInv'
<1> SUFFICES ASSUME Typed, OnceInv, NoTwinDeliveries, [Next]_vars PROVE OnceInv'
    OBVIOUS
<1>0. CallsOK
    BY DEF Typed, TypeOK, CallsOK, CallRecord
<1>1. ASSUME NEW c \in Callers, NEW x, Go(c, x), x.step \notin {"insert", "canonical"},
             UNCHANGED eventVars
      PROVE  OnceInv'
    BY <1>0, <1>1, GoElsewhere, OnceElsewhere DEF eventVars
<1>2. ASSUME NEW c \in Callers, Check(c) \/ Judge(c) \/ Crash(c) PROVE OnceInv'
    BY <1>1, <1>2, IdleStep DEF Check, Judge, Crash
<1>3. UNCHANGED <<eventVars, call>> => OnceInv'
    BY OnceElsewhere DEF eventVars
<1> QED
    BY <1>0, <1>2, <1>3, LookupOnce, IngestOnce, CanonicaliseOnce, AdaptOnce
       DEF Next, Recheck, Detect, JudgeDay, Tick, vars

\* As long as no two deliveries of one occurrence under two ids are past their
\* look-up together, an occurrence becomes one canonical event at most, however
\* deliveries are repeated, overlap under one id and die (ingest_raw_event,
\* create_canonical_event and uq_raw_event_source).
THEOREM OneEvent == Spec /\ []NoTwinDeliveries => []OneEventPerOccurrence
<1>1. Typed /\ OnceInv => OneEventPerOccurrence
    BY OnceImplies
<1> QED
    BY <1>1, Types, InitOnce, NextOnce, PTL DEF Spec

----------------------------------------------------------------------------
(* Stages of a shift.                                                      *)

LEMMA StageOrder ==
    /\ Stage["NOT_STARTED"] = 0 /\ Stage["BRIEFING_COMPLETE"] = 1 /\ Stage["AT_EQUIPMENT"] = 2
    /\ Stage["WORKING"] = 3 /\ Stage["ON_BREAK"] = 4 /\ Stage["RETURNED_FROM_BREAK"] = 5
    /\ Stage["HANDOVER"] = 6 /\ Stage["SHIFT_COMPLETE"] = 7 /\ Stage["ATTENTION_REQUIRED"] = 8
    BY DEF Stage

\* More events and more results never lead back.
LEMMA DerivedGrows ==
    ASSUME NEW types, NEW more, types \subseteq more, NEW rows, NEW moreRows, rows \subseteq moreRows
    PROVE  Stage[Derived(types, rows)] <= Stage[Derived(more, moreRows)]
<1> DEFINE Passed(R) == {r.type : r \in {q \in R : q.status = "PASS"}}
           Rank(T, R, p) == IF T = {} THEN 0
              ELSE IF \E r \in R : r.status = "FAIL" THEN 8
              ELSE IF "CHECK_OUT" \in T THEN 7
              ELSE IF T \cap {"HANDOVER_START", "HANDOVER_END"} # {} THEN 6
              ELSE IF "BREAK_OUT" \in T THEN 5
              ELSE IF "BREAK_IN" \in T THEN 4
              ELSE IF "CHECK_IN" \in T \/ "WORK_START" \in p THEN 3
              ELSE IF "EQUIPMENT_CHECK_IN" \in T \/ "EQUIPMENT_IN" \in p THEN 2
              ELSE IF "BRIEFING_IN" \in T \/ "BRIEFING_IN" \in p THEN 1
              ELSE 0
<1>1. \A T, R : Stage[Derived(T, R)] = Rank(T, R, Passed(R))
    BY StageOrder DEF Derived
<1>2. Passed(rows) \subseteq Passed(moreRows)
    OBVIOUS
<1> HIDE DEF Passed
<1>3. ASSUME NEW p, NEW q, p \subseteq q PROVE Rank(types, rows, p) <= Rank(more, moreRows, q)
    <2>1. types # {} => more # {}
        OBVIOUS
    <2>2. (\E r \in rows : r.status = "FAIL") => \E r \in moreRows : r.status = "FAIL"
        OBVIOUS
    <2>3. /\ "CHECK_OUT" \in types => "CHECK_OUT" \in more
          /\ types \cap {"HANDOVER_START", "HANDOVER_END"} # {} =>
                more \cap {"HANDOVER_START", "HANDOVER_END"} # {}
          /\ "BREAK_OUT" \in types => "BREAK_OUT" \in more
          /\ "BREAK_IN" \in types => "BREAK_IN" \in more
          /\ "CHECK_IN" \in types \/ "WORK_START" \in p => "CHECK_IN" \in more \/ "WORK_START" \in q
          /\ "EQUIPMENT_CHECK_IN" \in types \/ "EQUIPMENT_IN" \in p =>
                "EQUIPMENT_CHECK_IN" \in more \/ "EQUIPMENT_IN" \in q
          /\ "BRIEFING_IN" \in types \/ "BRIEFING_IN" \in p =>
                "BRIEFING_IN" \in more \/ "BRIEFING_IN" \in q
        BY <1>3
    <2> QED
        BY <2>1, <2>2, <2>3
<1> QED
    BY <1>1, <1>2, <1>3

\* What no step takes back: the roster, the events and the results.
LEMMA TablesGrow ==
    ASSUME Typed, [Next]_vars
    PROVE  /\ roster' = roster /\ results \subseteq results'
           /\ Len(canonical) <= Len(canonical')
           /\ \A n \in 1..Len(canonical) : canonical'[n] = canonical[n]
<1>1. canonical \in Seq(CanonicalRow) /\ Len(canonical) \in Nat
    BY DEF Typed, TypeOK, EventsTypeOK
<1>2. ASSUME NEW e, canonical' = Append(canonical, e)
      PROVE  /\ Len(canonical) <= Len(canonical')
             /\ \A n \in 1..Len(canonical) : canonical'[n] = canonical[n]
    BY <1>1, <1>2
<1>3. UNCHANGED canonical =>
             /\ Len(canonical) <= Len(canonical')
             /\ \A n \in 1..Len(canonical) : canonical'[n] = canonical[n]
    BY <1>1
<1>4. ASSUME UNCHANGED eventVars PROVE roster' = roster /\ canonical' = canonical
    BY <1>4 DEF eventVars
<1>5. UNCHANGED checkpointVars => results \subseteq results'
    BY DEF checkpointVars
<1>6. ASSUME NEW c \in Callers, Ingest(c)
      PROVE  roster' = roster /\ canonical' = canonical /\ results \subseteq results'
    BY <1>4, <1>5, <1>6 DEF Ingest, InsertRaw
<1>7. ASSUME NEW c \in Callers, Canonicalise(c)
      PROVE  roster' = roster /\ results \subseteq results'
             /\ \E e : canonical' = Append(canonical, e)
    BY <1>5, <1>7 DEF Canonicalise, CreateCanonical
<1>8. ASSUME NEW a, Adapt(a)
      PROVE  roster' = roster /\ results \subseteq results'
             /\ \E e : canonical' = Append(canonical, e)
    BY <1>5, <1>8 DEF Adapt, AdaptLegacy
<1>9. ASSUME NEW n, ProcessEvent(n) PROVE results \subseteq results'
    BY <1>9 DEF ProcessEvent
<1>10. ASSUME NEW d, Detect(d) PROVE results \subseteq results' /\ UNCHANGED eventVars
    BY <1>10 DEF Detect, DetectMissing
<1>11. CASE \E c \in Callers : Ingest(c)
    BY <1>3, <1>6, <1>11
<1>12. CASE \E c \in Callers : Canonicalise(c)
    BY <1>2, <1>7, <1>12
<1>13. CASE \E a \in LegacyEvents : Adapt(a)
    BY <1>2, <1>8, <1>13
<1>14. CASE \/ \E c \in Callers : Check(c)
            \/ \E n \in 1..Len(canonical) : Recheck(n)
            \/ \E d \in Dates : Detect(d)
    BY <1>3, <1>4, <1>5, <1>9, <1>10, <1>14 DEF Check, Recheck
<1>15. CASE UNCHANGED <<eventVars, checkpointVars>>
    BY <1>3, <1>4, <1>5, <1>15
<1> QED
    BY <1>11, <1>12, <1>13, <1>14, <1>15 DEF Next, Lookup, Judge, Crash, JudgeDay, Tick, vars

LEMMA StageNeverFalls ==
    ASSUME Typed, [Next]_vars, NEW ids, NEW later, ids \subseteq later, ids \subseteq 1..Len(canonical)
    PROVE  Stage[StateOf(ids)] <=
           Stage[Derived({canonical'[n].type : n \in later}, {r \in results' : r.event \in later})]
<1>1. {canonical[n].type : n \in ids} \subseteq {canonical'[n].type : n \in later}
    BY TablesGrow
<1>2. {r \in results : r.event \in ids} \subseteq {r \in results' : r.event \in later}
    BY TablesGrow
<1>3. StateOf(ids) = Derived({canonical[n].type : n \in ids}, {r \in results : r.event \in ids})
    BY DEF StateOf, Seen
<1> QED
    BY <1>1, <1>2, <1>3, DerivedGrows

\* Whatever arrives late, again or out of order, and however often it is
\* judged, neither the dashboard nor the roster board ever shows a worker at an
\* earlier stage of his shift than before (_derive_operational_state).
THEOREM NoStageLost == Spec => StateNeverFallsBack
<1>1. ASSUME Typed, [Next]_vars
      PROVE  <<canonical, results>>' # <<canonical, results>> =>
               \A w \in Workers, d \in Dates : Roster(w, d) # None /\ Roster(w, d).work = "WORK" =>
                  /\ Stage[DashboardState(w, d)] <= Stage[DashboardState(w, d)']
                  /\ Stage[BoardState(w, d)] <= Stage[BoardState(w, d)']
    <2> SUFFICES ASSUME NEW w \in Workers, NEW d \in Dates, Roster(w, d).work = "WORK"
                 PROVE  /\ Stage[DashboardState(w, d)] <= Stage[DashboardState(w, d)']
                        /\ Stage[BoardState(w, d)] <= Stage[BoardState(w, d)']
        OBVIOUS
    <2> DEFINE all == EventsOf(w, d)
               all2 == {n \in 1..Len(canonical') : canonical'[n].worker = w /\ canonical'[n].date = d}
               s == Roster(w, d).shift
               of == {n \in all : s # None => canonical[n].shift = s}
               of2 == {n \in all2 : s # None => canonical'[n].shift = s}
               D2(ids) == Derived({canonical'[n].type : n \in ids}, {r \in results' : r.event \in ids})
    <2>1. Len(canonical) \in Nat /\ Len(canonical') \in Nat
        <3>1. Typed'
            BY <1>1, NextTyped
        <3> QED
            BY <1>1, <3>1 DEF Typed, TypeOK, EventsTypeOK
    <2>2. all \subseteq all2 /\ all \subseteq 1..Len(canonical)
        BY <1>1, <2>1, TablesGrow DEF EventsOf
    <2>3. of \subseteq of2 /\ of \subseteq 1..Len(canonical)
        BY <1>1, <2>2, TablesGrow
    <2>4. Roster(w, d)' = Roster(w, d)
        BY <1>1, TablesGrow DEF Roster
    <2>5. DashboardState(w, d) = StateOf(all) /\ DashboardState(w, d)' = D2(all2)
        BY DEF DashboardState, StateOf, Seen, EventsOf
    <2>6. BoardState(w, d) = StateOf(of)
        BY DEF BoardState
    <2>7. BoardState(w, d)' = D2(of2)
        BY <2>4 DEF BoardState, StateOf, Seen, EventsOf
    <2> HIDE DEF all, all2, of, of2, s
    <2>8. Stage[StateOf(all)] <= Stage[D2(all2)]
        BY <1>1, <2>2, StageNeverFalls
    <2>9. Stage[StateOf(of)] <= Stage[D2(of2)]
        BY <1>1, <2>3, StageNeverFalls
    <2> QED
        BY <2>5, <2>6, <2>7, <2>8, <2>9
<1> QED
    BY <1>1, Types, PTL DEF Spec, StateNeverFallsBack

----------------------------------------------------------------------------
(* Order of checkpoints.                                                   *)

\* A source that names a shift names the rostered one of the date on which the
\* event falls, as the end-to-end tests do; or it names none.
NamesRostered ==
    \A m \in Messages : occurrence[m].shift # None =>
        LET o == occurrence[m]
            row == Roster(o.worker, OperatingDate(o.at, Zone(o.site), o.shift))
        IN  row # None /\ row.shift = o.shift

\* The shift of an event is the rostered one of its date, so that a checkpoint
\* which is judged is one that the roster's shift expects.
RosteredShift(e) ==
    e.shift # None => Roster(e.worker, e.date) # None /\ Roster(e.worker, e.date).shift = e.shift
ExpectedResult(r) ==
    r.status \in {"PASS", "FAIL"} =>
        \E p \in Expected(Roster(r.worker, r.date).shift, r.date) : p.type = r.type
AsRostered ==
    /\ \A n \in 1..Len(canonical) : RosteredShift(canonical[n])
    /\ \A r \in results : ExpectedResult(r)

LEMMA CanonicalOfRostered ==
    ASSUME NamesRostered, NEW m \in Messages
    PROVE  RosteredShift(CanonicalOf(m))
<1> DEFINE o == occurrence[m]
           r == Resolve(o)
           claims == Claims(o.worker, o.at, Zone(o.site))
           d == CHOOSE d \in claims : TRUE
           named == OperatingDate(o.at, Zone(o.site), o.shift)
<1>1. o.shift # None => Roster(o.worker, named) # None /\ Roster(o.worker, named).shift = o.shift
    BY DEF NamesRostered
<1>2. Cardinality(claims) = 1 => d \in claims
    BY FS_EmptySet
<1>3. \A x \in claims : Roster(o.worker, x) # None
    BY DEF Claims
<1>4. r = IF o.shift # None
          THEN [date |-> named, shift |-> o.shift, status |-> "VALID"]
          ELSE IF Cardinality(claims) = 1
          THEN [date |-> d, shift |-> Roster(o.worker, d).shift, status |-> "VALID"]
          ELSE [date |-> LocalDate(o.at, Zone(o.site)), shift |-> None,
                status |-> IF claims = {} THEN "MISSING_SHIFT" ELSE "AMBIGUOUS_SHIFT"]
    BY DEF Resolve
<1>5. /\ CanonicalOf(m).shift = r.shift /\ CanonicalOf(m).date = r.date
      /\ CanonicalOf(m).worker = o.worker
    BY DEF CanonicalOf
<1> HIDE DEF o, r, claims, d, named
<1>6. r.shift # None => Roster(o.worker, r.date) # None /\ Roster(o.worker, r.date).shift = r.shift
    BY <1>1, <1>2, <1>3, <1>4
<1> QED
    BY <1>5, <1>6 DEF RosteredShift

LEMMA CanonicalOfLegacyRostered == \A a : RosteredShift(CanonicalOfLegacy(a))
    BY DEF RosteredShift, CanonicalOfLegacy

LEMMA ResultOfExpected ==
    ASSUME NEW n, RosteredShift(canonical[n]), NEW t
    PROVE  ExpectedResult(ResultOf(n, t))
<1> DEFINE e == canonical[n]
           r == ResultOf(n, t)
<1> SUFFICES ASSUME r.status \in {"PASS", "FAIL"}
             PROVE  \E p \in Expected(Roster(r.worker, r.date).shift, r.date) : p.type = r.type
    BY DEF ExpectedResult
<1>1. /\ r.worker = e.worker /\ r.date = e.date /\ r.type = t
      /\ Validated(e, t) \in {"PASS", "FAIL"}
    BY DEF ResultOf
<1>2. e.shift # None /\ ActivePolicy(t, e.shift, e.date) # {}
    BY <1>1 DEF Validated
<1>3. \E p \in Expected(e.shift, e.date) : p.type = t
    BY <1>2 DEF ActivePolicy, PolicyOf, Expected
<1> QED
    BY <1>1, <1>2, <1>3 DEF RosteredShift

LEMMA InitRostered == Init => AsRostered
    BY DEF Init, EventsInit, CheckpointInit, AsRostered

LEMMA NextRostered == NamesRostered /\ Typed /\ AsRostered /\ [Next]_vars => AsRostered'
<1> SUFFICES ASSUME NamesRostered, Typed, AsRostered, [Next]_vars PROVE AsRostered'
    OBVIOUS
<1>1. roster' = roster
    BY TablesGrow
<1>2. \A w, d : Roster(w, d)' = Roster(w, d)
    BY <1>1 DEF Roster
<1>3. canonical \in Seq(CanonicalRow) /\ Len(canonical) \in Nat
    BY DEF Typed, TypeOK, EventsTypeOK
<1>4. (\E m \in Messages : canonical' = Append(canonical, CanonicalOf(m)))
      \/ (\E a \in LegacyEvents : canonical' = Append(canonical, CanonicalOfLegacy(a)))
      \/ canonical' = canonical
    <2>1. \A c \in Callers : call[c].step = "canonical" => call[c].message \in Messages
        BY CallCases, IdleStep DEF Typed, TypeOK, CallRecord
    <2> QED
        BY <2>1 DEF Next, Lookup, Ingest, InsertRaw, Canonicalise, CreateCanonical, Check, Judge, Crash,
                    Adapt, AdaptLegacy, Recheck, Detect, JudgeDay, Tick, vars, eventVars
<1>5. ASSUME NEW e, canonical' = Append(canonical, e), RosteredShift(e)
      PROVE  \A n \in 1..Len(canonical') : RosteredShift(canonical'[n])
    <2>1. /\ Len(canonical') = Len(canonical) + 1
          /\ \A n \in 1..Len(canonical) : canonical'[n] = canonical[n]
          /\ canonical'[Len(canonical) + 1] = e
        BY <1>3, <1>5
    <2> QED
        BY <1>3, <1>5, <2>1 DEF AsRostered
<1>6. \A n \in 1..Len(canonical') : RosteredShift(canonical'[n])
    BY <1>4, <1>5, CanonicalOfRostered, CanonicalOfLegacyRostered DEF AsRostered, Typed, TypeOK
<1>7. \A r \in results' :
         r \in results \/ \E n \in 1..Len(canonical) : \E t : r = ResultOf(n, t)
    <2>1. ASSUME NEW n \in 1..Len(canonical), ProcessEvent(n)
          PROVE  \A r \in results' : r \in results \/ \E t : r = ResultOf(n, t)
        BY <2>1 DEF ProcessEvent
    <2>2. \A c \in Callers : call[c].step = "checkpoint" => call[c].event \in 1..Len(canonical)
        BY DEF Typed, CallsExist
    <2>3. CASE \E c \in Callers : Check(c)
        BY <2>1, <2>2, <2>3 DEF Check, checkpointVars
    <2>4. CASE \E n \in 1..Len(canonical) : Recheck(n)
        BY <2>1, <2>4 DEF Recheck
    <2>5. CASE UNCHANGED results
        BY <2>5
    <2> QED
        BY <2>3, <2>4, <2>5 DEF Next, Lookup, Ingest, Canonicalise, Judge, Crash,
             Adapt, Detect, DetectMissing, JudgeDay, Tick, vars, checkpointVars
<1>8. \A r \in results' : ExpectedResult(r)
    BY <1>7, ResultOfExpected DEF AsRostered
<1>9. (\A n \in 1..Len(canonical) : RosteredShift(canonical[n]))'
    BY <1>2, <1>6 DEF RosteredShift
<1>10. (\A r \in results : ExpectedResult(r))'
    BY <1>2, <1>8 DEF ExpectedResult
<1> QED
    BY <1>9, <1>10 DEF AsRostered

\* Of pairs that are out of order, one that is nearest in time are neighbours.
LEMMA NeighboursSuffice ==
    ASSUME NEW J, NEW order \in [J -> Int], \A r \in J : r.at \in Int,
           \A q, r \in J : q.at = r.at => q = r,
           NEW b \in J, NEW c \in J, b.at < c.at, order[c] < order[b]
    PROVE  \E q, r \in J : /\ q.at < r.at /\ order[r] < order[q]
                           /\ \A x \in J : q.at <= x.at /\ x.at <= r.at => x \in {q, r}
<1> DEFINE Inverted(q, r) == q.at < r.at /\ order[r] < order[q]
           T == {k \in Nat : \E q, r \in J : Inverted(q, r) /\ k = r.at - q.at}
<1>1. c.at - b.at \in T
    OBVIOUS
<1>2. T \in SUBSET Nat
    OBVIOUS
<1>3. PICK k \in T : \A j \in T : k <= j
    BY <1>1, <1>2, LeastElement
<1>4. PICK q \in J, r \in J : Inverted(q, r) /\ k = r.at - q.at
    BY <1>3
<1>5. ASSUME NEW x \in J, q.at <= x.at, x.at <= r.at, x # q, x # r PROVE FALSE
    <2>1. q.at < x.at /\ x.at < r.at
        BY <1>5
    <2>2. Inverted(q, x) \/ Inverted(x, r)
        BY <1>4, <2>1
    <2>3. x.at - q.at \in Nat /\ r.at - x.at \in Nat /\ x.at - q.at < k /\ r.at - x.at < k
        BY <1>4, <2>1
    <2>4. x.at - q.at \in T \/ r.at - x.at \in T
        BY <2>2, <2>3
    <2> QED
        BY <1>3, <2>3, <2>4
<1> QED
    BY <1>4, <1>5

\* Whatever the places of the policies.
LEMMA DisorderOfPlaces ==
    ASSUME Typed, AsRostered, NEW w \in Workers, NEW d \in Dates, OnDuty(w, d),
           NEW rank \in [Expected(Roster(w, d).shift, d) -> Int],
           \A q, r \in InSequence(w, d) : q.at = r.at => q = r
    PROVE  LET s == Roster(w, d).shift
           IN  SequenceViolations(w, d, s, rank) # {} <=>
                 \E q, r \in InSequence(w, d) :
                    q.at < r.at /\ PlaceOf(r.type, s, d, rank) < PlaceOf(q.type, s, d, rank)
<1> DEFINE s == Roster(w, d).shift
           E == Expected(s, d)
           place(t) == PlaceOf(t, s, d, rank)
           J == Judged(w, d)
           places(r) == {rank[p] : p \in {q \in E : q.type = r.type}}
           O == [r \in J |-> place(r.type)]
<1>1. J = InSequence(w, d)
    BY DEF Judged, AsRostered, ExpectedResult, InSequence
<1>2. \A p \in E : p \in Policies /\ p.shift = s
    BY DEF Expected
<1>12. rank \in [E -> Int]
    OBVIOUS
<1>13. IsFiniteSet(E) /\ Cardinality(E) \in Nat
    BY <1>2, PolicyAssumption, FS_Subset, FS_CardinalityType
<1>3. ASSUME NEW r \in J PROVE places(r) = {place(r.type)} /\ place(r.type) \in Int
    <2>1. PICK p \in E : p.type = r.type
        BY <1>1 DEF InSequence
    <2>2. \A q \in E : q.type = r.type => q = p
        BY <1>2, <2>1, PolicyAssumption
    <2>3. (CHOOSE q \in E : q.type = r.type) = p
        BY <2>1, <2>2
    <2>4. place(r.type) = rank[p]
        BY <2>3 DEF PlaceOf
    <2> HIDE DEF E, place
    <2>5. rank[p] \in Int
        BY <1>12, <2>1
    <2> QED
        BY <2>1, <2>2, <2>4, <2>5
<1>4. \A r \in J : r.at \in Int
    BY DEF Judged, Typed, TypeOK, CheckpointTypeOK, ResultRow
<1>5. SequenceViolations(w, d, s, rank) =
        IF Cardinality(E) < 2 THEN {}
        ELSE {rq \in Neighbours(w, d) :
                \E a \in places(rq[1]), b \in places(rq[2]) : WrongOrder(a, b)}
    BY DEF SequenceViolations
<1>6. \A rq \in Neighbours(w, d) : rq[1] \in J /\ rq[2] \in J /\ rq[1].at < rq[2].at
    BY DEF Neighbours
<1>7. ASSUME NEW q \in J, NEW r \in J, q.at < r.at,
             \A x \in J : q.at <= x.at /\ x.at <= r.at => x \in {q, r}
      PROVE  <<q, r>> \in Neighbours(w, d)
    BY <1>7 DEF Neighbours
<1>8. ASSUME NEW q \in J, NEW r \in J, place(q.type) # place(r.type) PROVE ~ (Cardinality(E) < 2)
    <2>1. PICK p1 \in E : p1.type = q.type
        BY <1>1 DEF InSequence
    <2>2. PICK p2 \in E : p2.type = r.type
        BY <1>1 DEF InSequence
    <2>3. p1 # p2
        BY <1>8, <2>1, <2>2
    <2>5. Cardinality(E) # 0 /\ Cardinality(E) # 1
        <3> HIDE DEF E
        <3> QED
            BY <2>1, <2>2, <2>3, <1>13, FS_EmptySet, FS_Singleton
    <2> QED
        BY <1>13, <2>5
<1>14. \A q, r \in J : q.at = r.at => q = r
    BY <1>1
<1> HIDE DEF E, J, places, place, s
<1>9. ASSUME NEW rq \in SequenceViolations(w, d, s, rank)
      PROVE  \E q, r \in J : q.at < r.at /\ place(r.type) < place(q.type)
    <2>1. rq \in Neighbours(w, d) /\ \E a \in places(rq[1]), b \in places(rq[2]) : WrongOrder(a, b)
        BY <1>5, <1>9
    <2> QED
        BY <1>3, <1>6, <2>1 DEF WrongOrder
<1>10. ASSUME NEW b \in J, NEW c \in J, b.at < c.at, place(c.type) < place(b.type)
       PROVE  SequenceViolations(w, d, s, rank) # {}
    <2>1. O \in [J -> Int] /\ \A r \in J : O[r] = place(r.type)
        BY <1>3
    <2> HIDE DEF O
    <2>2. PICK q \in J, r \in J : /\ q.at < r.at /\ O[r] < O[q]
                                  /\ \A x \in J : q.at <= x.at /\ x.at <= r.at => x \in {q, r}
        BY <1>4, <1>14, <1>10, <2>1, NeighboursSuffice
    <2>3. <<q, r>> \in Neighbours(w, d)
        BY <1>7, <2>2
    <2>4. place(r.type) \in Int /\ place(q.type) \in Int /\ place(r.type) < place(q.type)
        BY <1>3, <2>1, <2>2
    <2>5. ~ (Cardinality(E) < 2)
        BY <1>8, <2>4
    <2>6. place(q.type) \in places(q) /\ place(r.type) \in places(r)
        BY <1>3
    <2> QED
        BY <1>5, <2>3, <2>4, <2>5, <2>6 DEF WrongOrder
<1>11. SequenceViolations(w, d, s, rank) # {} <=>
            \E q, r \in J : q.at < r.at /\ place(r.type) < place(q.type)
    BY <1>9, <1>10
<1> QED
    BY <1>1, <1>11 DEF place, s

LEMMA PlacesAreNumbers ==
    ASSUME NEW n \in Nat, NEW E, NEW rank \in [E -> 1..n]
    PROVE  rank \in [E -> Int]
    OBVIOUS

LEMMA OrderSound ==
    ASSUME Typed, AsRostered
    PROVE  OrderIsJudged
<1> SUFFICES ASSUME NEW w \in Workers, NEW d \in Dates, OnDuty(w, d),
                    NEW rank, rank \in Rankings[Roster(w, d).shift, d],
                    \A q, r \in InSequence(w, d) : q.at = r.at => q = r
             PROVE  LET s == Roster(w, d).shift
                    IN  SequenceViolations(w, d, s, rank) # {} <=>
                          \E q, r \in InSequence(w, d) :
                             q.at < r.at /\ PlaceOf(r.type, s, d, rank) < PlaceOf(q.type, s, d, rank)
    BY DEF OrderIsJudged
<1> DEFINE s == Roster(w, d).shift
           E == Expected(s, d)
<1>1. s \in Shifts
    BY RosterType DEF OnDuty, RosterRow, Typed, TypeOK
<1>2. rank \in [E -> 1..Cardinality(E)]
    BY <1>1 DEF Rankings
<1>3. Cardinality(E) \in Nat
    BY PolicyAssumption, FS_Subset, FS_CardinalityType DEF Expected
<1>4. rank \in [E -> Int]
    <2> HIDE DEF E
    <2> QED
        BY <1>2, <1>3, PlacesAreNumbers
<1> QED
    BY <1>4, DisorderOfPlaces

\* As long as a source names no shift but the rostered one, the sequence check,
\* which looks at neighbours in time only, reports a disorder exactly when some
\* two judged checkpoints of the shift, however far apart, came against the
\* order in which the policies are listed (detect_sequence_violations).
THEOREM DisorderIsFound == Spec /\ []NamesRostered => []OrderIsJudged
<1>1. Typed /\ AsRostered => OrderIsJudged
    BY OrderSound
<1>2. NamesRostered /\ Typed /\ AsRostered /\ [Next]_vars => AsRostered'
    BY NextRostered
<1> QED
    BY <1>1, <1>2, Types, InitRostered, PTL DEF Spec

----------------------------------------------------------------------------
(* The clock on the wall.                                                  *)

\* Date and time of day of a number of slots.
LEMMA Division ==
    ASSUME NEW n \in Nat \ {0}, NEW q \in Int, NEW r \in 0..(n - 1)
    PROVE  (q * n + r) \div n = q /\ (q * n + r) % n = r
    BY Z3

\* What lies less than a day ahead or behind.
LEMMA Turn ==
    ASSUME NEW n \in Nat \ {0}, NEW x \in 0..(n - 1)
    PROVE  x % n = x /\ (x - n) % n = x
    BY Z3

\* A template whose break and handover each lie on one side of midnight, and
\* that crosses midnight exactly when it ends at an earlier time than it starts.
Whole(s) ==
    LET t == Template[s]
    IN  /\ t.crosses <=> t.end < t.start
        /\ IF t.crosses
           THEN /\ t.breakStart < t.start <=> t.breakEnd < t.start
                /\ t.handoverStart < t.start <=> t.handoverEnd < t.start
           ELSE t.start <= t.breakEnd /\ t.start <= t.handoverEnd
WholeShifts == \A s \in Shifts : Whole(s)

LEMMA TemplateType ==
    ASSUME NEW s \in Shifts
    PROVE  /\ Template[s].start \in TimesOfDay /\ Template[s].end \in TimesOfDay
           /\ Template[s].breakStart \in TimesOfDay /\ Template[s].breakEnd \in TimesOfDay
           /\ Template[s].handoverStart \in TimesOfDay /\ Template[s].handoverEnd \in TimesOfDay
           /\ Template[s].crosses \in BOOLEAN
    BY TemplateAssumption DEF ShiftTemplate

\* The end of the shift by the code's arithmetic is the one of the clock.
LEMMA EndOfShift ==
    ASSUME WholeShifts, NEW s \in Shifts, NEW d \in Int, NEW z \in Int
    PROVE  ShiftEnd(s, d, z) = ShiftStart(s, d, z) + Lasts(s)
<1> DEFINE a == Template[s].start
           b == Template[s].end
<1>1. a \in 0..(DayLength - 1) /\ b \in 0..(DayLength - 1) /\ Template[s].crosses = (b < a)
    BY TemplateType DEF TimesOfDay, WholeShifts, Whole
<1>2. Lasts(s) = (b - a) % DayLength
    BY DEF Lasts
<1>3. ShiftStart(s, d, z) = d * DayLength + a - z
    BY DEF ShiftStart, At
<1>4. ShiftEnd(s, d, z) = (IF b < a THEN d + 1 ELSE d) * DayLength + b - z
    BY <1>1 DEF ShiftEnd, At, NextDayIf
<1> HIDE DEF a, b
<1>5. CASE b < a
    <2>1. b - a + DayLength \in 0..(DayLength - 1) /\ b - a = (b - a + DayLength) - DayLength
        BY <1>1, <1>5, DayLengthAssumption
    <2>2. Lasts(s) = b - a + DayLength
        BY <1>2, <2>1, Turn, DayLengthAssumption
    <2>3. (d + 1) * DayLength = d * DayLength + DayLength
        BY DayLengthAssumption
    <2> QED
        BY <1>1, <1>3, <1>4, <1>5, <2>2, <2>3, DayLengthAssumption
<1>6. CASE ~ (b < a)
    <2>1. b - a \in 0..(DayLength - 1)
        BY <1>1, <1>6, DayLengthAssumption
    <2>2. Lasts(s) = b - a
        BY <1>2, <2>1, Turn, DayLengthAssumption
    <2> QED
        BY <1>1, <1>3, <1>4, <1>6, <2>2, DayLengthAssumption
<1> QED
    BY <1>5, <1>6

\* The end of the break, and of the handover, are those of the clock.
LEMMA LimitOfShift ==
    ASSUME NEW n \in Nat \ {0}, NEW a \in 0..(n - 1), NEW t \in 0..(n - 1), NEW d \in Int, NEW z \in Int
    PROVE  (d * n + a - z) + ((t - a) % n) = (IF t < a THEN d + 1 ELSE d) * n + t - z
<1>1. CASE t < a
    <2>1. t - a + n \in 0..(n - 1) /\ t - a = (t - a + n) - n
        BY <1>1
    <2>2. (t - a) % n = t - a + n
        BY <2>1, Turn
    <2>3. (d + 1) * n = d * n + n
        OBVIOUS
    <2> QED
        BY <1>1, <2>2, <2>3
<1>2. CASE ~ (t < a)
    <2>1. t - a \in 0..(n - 1)
        BY <1>2
    <2>2. (t - a) % n = t - a
        BY <2>1, Turn
    <2> QED
        BY <1>2, <2>2
<1> QED
    BY <1>1, <1>2

LEMMA LimitsAreReal ==
    ASSUME WholeShifts, NEW w, NEW d \in Int, Roster(w, d).shift \in Shifts
    PROVE  LET s == Roster(w, d).shift
               z == Zone(Roster(w, d).site)
           IN  /\ BreakEnd(s, d, z) = During(w, d, Template[s].breakEnd)
               /\ HandoverEnd(s, d, z) = During(w, d, Template[s].handoverEnd)
<1> DEFINE s == Roster(w, d).shift
           z == Zone(Roster(w, d).site)
           a == Template[s].start
           b == Template[s].breakEnd
           h == Template[s].handoverEnd
<1>1. a \in 0..(DayLength - 1) /\ b \in 0..(DayLength - 1) /\ h \in 0..(DayLength - 1) /\ z \in Int
    BY TemplateType, ZoneType DEF TimesOfDay
<1>2. /\ (Template[s].crosses /\ Template[s].breakStart < a) = (b < a)
      /\ (Template[s].crosses /\ Template[s].handoverStart < a) = (h < a)
    <2>1. Whole(s) /\ Template[s].crosses \in BOOLEAN
        BY TemplateType DEF WholeShifts
    <2>2. CASE Template[s].crosses
        BY <2>1, <2>2 DEF Whole
    <2>3. CASE ~ Template[s].crosses
        BY <1>1, <2>1, <2>3 DEF Whole
    <2> QED
        BY <2>1, <2>2, <2>3
<1>3. /\ BreakEnd(s, d, z) = (IF b < a THEN d + 1 ELSE d) * DayLength + b - z
      /\ HandoverEnd(s, d, z) = (IF h < a THEN d + 1 ELSE d) * DayLength + h - z
    BY <1>2 DEF BreakEnd, HandoverEnd, HandoverDate, NextDayIf, At
<1>4. /\ During(w, d, b) = (d * DayLength + a - z) + ((b - a) % DayLength)
      /\ During(w, d, h) = (d * DayLength + a - z) + ((h - a) % DayLength)
    BY DEF During, ShiftStart, At
<1> HIDE DEF s, z, a, b, h
<1>5. BreakEnd(s, d, z) = During(w, d, b)
    <2>1. (d * DayLength + a - z) + ((b - a) % DayLength)
            = (IF b < a THEN d + 1 ELSE d) * DayLength + b - z
        BY <1>1, LimitOfShift, DayLengthAssumption
    <2> QED
        BY <1>3, <1>4, <2>1
<1>6. HandoverEnd(s, d, z) = During(w, d, h)
    <2>1. (d * DayLength + a - z) + ((h - a) % DayLength)
            = (IF h < a THEN d + 1 ELSE d) * DayLength + h - z
        BY <1>1, LimitOfShift, DayLengthAssumption
    <2> QED
        BY <1>3, <1>4, <2>1
<1> QED
    BY <1>5, <1>6 DEF s, z, a, b, h

----------------------------------------------------------------------------
(* Operating dates.                                                        *)

\* No instant belongs to shifts of two consecutive dates: a shift that crosses
\* midnight is followed by one that begins later, and ends no earlier, than it
\* ends, or by none.
Follows(s, t) ==
    Template[s].crosses =>
        Template[t].crosses /\ Template[s].end <= Template[t].end /\ Template[s].end <= Template[t].start
ShiftsApart ==
    \A w \in Workers, d \in Dates :
        LET row == Roster(w, d)
            next == Roster(w, d + 1)
        IN  row # None /\ next # None /\ row.shift # None /\ next.shift # None
              => Follows(row.shift, next.shift)

\* What happens on a shift is seen in the zone of its site.
InZone(e) ==
    \A d \in Dates : OnShift(e.worker, d, e.at) => Zone(e.site) = Zone(Roster(e.worker, d).site)
SitesMatch == \A m \in Messages : InZone(occurrence[m])

\* The old flow books what it saw on a shift on the date of the shift.
LegacyDated ==
    \A a \in LegacyEvents, d \in Dates : OnShift(a.worker, d, a.at) => a.workDate = d

ClearDuties == ShiftsApart /\ SitesMatch /\ LegacyDated /\ NamesRostered

\* An event of a shift is booked on the date of the shift.
Booked(e) == \A d \in Dates : OnShift(e.worker, d, e.at) => e.date = d

\* An instant of the shift of date d is claimed by d.
LEMMA ShiftClaims ==
    ASSUME WholeShifts, NEW s \in Shifts, NEW d \in Int, NEW z \in Int, NEW i \in Int,
           ShiftStart(s, d, z) <= i, i < ShiftStart(s, d, z) + Lasts(s)
    PROVE  /\ OperatingDate(i, z, s) = d
           /\ \/ LocalDate(i, z) = d /\ Template[s].start <= LocalTime(i, z)
              \/ /\ Template[s].crosses
                 /\ LocalDate(i, z) = d + 1 /\ LocalTime(i, z) < Template[s].end
<1> DEFINE a == Template[s].start
           b == Template[s].end
           x == i + z
<1>1. a \in 0..(DayLength - 1) /\ b \in 0..(DayLength - 1) /\ Template[s].crosses = (b < a)
    BY TemplateType DEF TimesOfDay, WholeShifts, Whole
<1>2. x \in Int /\ LocalDate(i, z) = x \div DayLength /\ LocalTime(i, z) = x % DayLength
    BY DEF LocalDate, LocalTime
<1>3. d * DayLength + a <= x /\ x < (IF b < a THEN d + 1 ELSE d) * DayLength + b
    <2>1. d * DayLength \in Int /\ (d + 1) * DayLength \in Int
        BY DayLengthAssumption
    <2>2. ShiftStart(s, d, z) = d * DayLength + a - z
        BY DEF ShiftStart, At
    <2>3. ShiftEnd(s, d, z) = (IF b < a THEN d + 1 ELSE d) * DayLength + b - z
        BY <1>1 DEF ShiftEnd, At, NextDayIf
    <2>4. ShiftStart(s, d, z) <= i /\ i < ShiftEnd(s, d, z)
        BY EndOfShift
    <2> HIDE DEF a, b
    <2> QED
        BY <1>1, <2>1, <2>2, <2>3, <2>4
<1>4. OperatingDate(i, z, s) =
        IF b < a /\ x % DayLength < b THEN (x \div DayLength) - 1 ELSE x \div DayLength
    BY <1>1, <1>2 DEF OperatingDate
<1> HIDE DEF a, b, x
<1>5. DayLength \in Nat \ {0} /\ d * DayLength \in Int /\ (d + 1) * DayLength = d * DayLength + DayLength
    BY DayLengthAssumption
<1>6. CASE x < (d + 1) * DayLength
    <2>1. x - d * DayLength \in 0..(DayLength - 1) /\ x = d * DayLength + (x - d * DayLength)
        BY <1>1, <1>2, <1>3, <1>5, <1>6
    <2>2. x \div DayLength = d /\ x % DayLength = x - d * DayLength
        BY <1>5, <2>1, Division
    <2>3. a <= x % DayLength
        BY <1>1, <1>2, <1>3, <1>5, <2>2
    <2>4. ~ (b < a /\ x % DayLength < b)
        BY <1>1, <2>1, <2>2, <2>3
    <2> QED
        BY <1>2, <1>4, <2>2, <2>3, <2>4 DEF a
<1>7. CASE (d + 1) * DayLength <= x
    <2>1. b < a
        BY <1>1, <1>2, <1>3, <1>5, <1>7
    <2> DEFINE y == x - (d + 1) * DayLength
    <2>2. y \in 0..(DayLength - 1) /\ y < b /\ x = (d + 1) * DayLength + y
        BY <1>1, <1>2, <1>3, <1>5, <1>7, <2>1
    <2> HIDE DEF y
    <2>3. x \div DayLength = d + 1 /\ x % DayLength = y
        BY <1>5, <2>2, Division
    <2>4. OperatingDate(i, z, s) = d
        BY <1>4, <2>1, <2>2, <2>3
    <2> QED
        BY <1>1, <1>2, <2>1, <2>2, <2>3, <2>4 DEF b
<1> QED
    BY <1>2, <1>5, <1>6, <1>7

LEMMA OneClaim ==
    ASSUME WholeShifts, ShiftsApart, EventsTypeOK, NEW w \in Workers, NEW d \in Dates, NEW i \in Int,
           OnShift(w, d, i)
    PROVE  Claims(w, i, Zone(Roster(w, d).site)) = {d}
<1> DEFINE s == Roster(w, d).shift
           z == Zone(Roster(w, d).site)
           l == LocalDate(i, z)
           time == LocalTime(i, z)
<1>1. Roster(w, d) # None /\ s \in Shifts /\ s # None /\ d \in Int /\ z \in Int
    BY RosterType, ZoneType, DatesAssumption DEF OnShift, OnDuty, RosterRow
<1>2. ShiftStart(s, d, z) <= i /\ i < ShiftStart(s, d, z) + Lasts(s)
    BY DEF OnShift
<1>3. l \in Int /\ time \in Int
    BY <1>1, DateType
<1>4. /\ OperatingDate(i, z, s) = d
      /\ \/ l = d /\ Template[s].start <= time
         \/ Template[s].crosses /\ l = d + 1 /\ time < Template[s].end
    BY <1>1, <1>2, ShiftClaims
<1>5. d \in Claims(w, i, z)
    BY <1>1, <1>4 DEF Claims
<1>6. ASSUME NEW c \in Claims(w, i, z), c # d PROVE FALSE
    <2> DEFINE t == Roster(w, c).shift
    <2>1. c \in {l, l - 1} /\ Roster(w, c) # None /\ t # None /\ OperatingDate(i, z, t) = c
        BY <1>6 DEF Claims
    <2>2. c \in Dates /\ c \in Int /\ t \in Shifts
        BY <2>1, RosterType, DatesAssumption DEF RosterRow
    <2>3. OperatingDate(i, z, t) = IF Template[t].crosses /\ time < Template[t].end THEN l - 1 ELSE l
        BY DEF OperatingDate
    <2>4. /\ Template[s].start \in Int /\ Template[s].end \in Int
          /\ Template[t].start \in Int /\ Template[t].end \in Int
        BY <1>1, <2>2, TemplateType DEF TimesOfDay
    <2> HIDE DEF l, time, t
    <2>5. CASE l = d /\ Template[s].start <= time
        <3>1. c = d - 1 /\ c + 1 = d
            BY <1>1, <1>6, <2>1, <2>5
        <3>2. Follows(t, s)
            BY <1>1, <2>1, <2>2, <3>1 DEF ShiftsApart, t
        <3>3. Template[t].crosses /\ time < Template[t].end
            BY <1>3, <2>1, <2>3, <2>5, <3>1
        <3> QED
            BY <1>3, <2>4, <2>5, <3>2, <3>3 DEF Follows
    <2>6. CASE Template[s].crosses /\ l = d + 1 /\ time < Template[s].end
        <3>1. c = d + 1
            BY <1>1, <1>6, <2>1, <2>6
        <3>2. Follows(s, t)
            BY <1>1, <2>1, <2>2, <3>1 DEF ShiftsApart, t
        <3>3. ~ (Template[t].crosses /\ time < Template[t].end)
            <4>1. Template[t].crosses /\ time < Template[t].end => OperatingDate(i, z, t) = l - 1
                BY <2>3
            <4> QED
                BY <1>1, <2>1, <2>6, <3>1, <4>1
        <3> QED
            BY <1>3, <2>4, <2>6, <3>2, <3>3 DEF Follows
    <2> QED
        BY <1>4, <2>5, <2>6
<1> QED
    BY <1>5, <1>6

LEMMA CanonicalOfBooked ==
    ASSUME WholeShifts, ClearDuties, EventsTypeOK, NEW m \in Messages
    PROVE  Booked(CanonicalOf(m)) /\ InZone(CanonicalOf(m))
<1> DEFINE o == occurrence[m]
           r == Resolve(o)
           named == OperatingDate(o.at, Zone(o.site), o.shift)
<1>1. o \in Occurrence
    BY OccurrencesAssumption DEF EventsTypeOK
<1>2. /\ CanonicalOf(m).worker = o.worker /\ CanonicalOf(m).at = o.at
      /\ CanonicalOf(m).site = o.site /\ CanonicalOf(m).date = r.date
    BY DEF CanonicalOf
<1>3. o.worker \in Workers /\ o.at \in Int
    BY <1>1 DEF Occurrence
<1>4. InZone(o)
    BY DEF ClearDuties, SitesMatch
<1>5. ASSUME NEW d \in Dates, OnShift(o.worker, d, o.at) PROVE r.date = d
    <2> DEFINE claims == Claims(o.worker, o.at, Zone(o.site))
    <2>1. claims = {d}
        BY <1>3, <1>4, <1>5, OneClaim DEF InZone, ClearDuties
    <2>2. Cardinality(claims) = 1 /\ (CHOOSE x \in claims : TRUE) = d
        BY <2>1, FS_Singleton
    <2>3. o.shift # None => named \in claims
        <3>1. named \in {LocalDate(o.at, Zone(o.site)), LocalDate(o.at, Zone(o.site)) - 1}
            BY DEF OperatingDate
        <3> QED
            BY <3>1 DEF ClearDuties, NamesRostered, Claims
    <2>4. r = IF o.shift # None
              THEN [date |-> named, shift |-> o.shift, status |-> "VALID"]
              ELSE IF Cardinality(claims) = 1
              THEN [date |-> CHOOSE x \in claims : TRUE,
                    shift |-> Roster(o.worker, CHOOSE x \in claims : TRUE).shift, status |-> "VALID"]
              ELSE [date |-> LocalDate(o.at, Zone(o.site)), shift |-> None,
                    status |-> IF claims = {} THEN "MISSING_SHIFT" ELSE "AMBIGUOUS_SHIFT"]
        BY DEF Resolve
    <2> HIDE DEF claims, r, o, named
    <2> QED
        BY <2>1, <2>2, <2>3, <2>4
<1> HIDE DEF o, r
<1> QED
    BY <1>2, <1>4, <1>5 DEF Booked, InZone

LEMMA CanonicalOfLegacyBooked ==
    ASSUME LegacyDated, NEW a \in LegacyEvents
    PROVE  Booked(CanonicalOfLegacy(a))
    BY DEF Booked, CanonicalOfLegacy, LegacyDated

\* Events are booked on the dates of their shifts, only deliveries are judged,
\* and a result is about its event.
RowBooked(e) == Booked(e) /\ (e.source \in Messages => InZone(e))
Delivered(x, events) ==
    x.step \in {"checkpoint", "rules"} => events[x.event].source \in Messages
ResultOfEvent(r, events) ==
    LET e == events[r.event] IN r.worker = e.worker /\ r.at = e.at /\ r.date = e.date
BooksInv ==
    /\ \A n \in 1..Len(canonical) : RowBooked(canonical[n])
    /\ \A c \in Callers : Delivered(call[c], canonical)
    /\ \A r \in results : ResultOfEvent(r, canonical)

\* The wall clock follows from roster and templates alone.
LEMMA ClockStays ==
    ASSUME roster' = roster
    PROVE  /\ \A w, d : Roster(w, d)' = Roster(w, d)
           /\ \A w, d, i : OnShift(w, d, i)' = OnShift(w, d, i)
           /\ \A w, d, i : During(w, d, i)' = During(w, d, i)
    BY DEF OnShift, OnDuty, During, Roster

LEMMA InitBooks == Init => BooksInv
    BY IdleStep DEF Init, EventsInit, CheckpointInit, BooksInv, Delivered

LEMMA NextBooks ==
    WholeShifts /\ ClearDuties /\ Typed /\ BooksInv /\ [Next]_vars => BooksInv'
<1> SUFFICES ASSUME WholeShifts, ClearDuties, Typed, BooksInv, [Next]_vars
             PROVE  BooksInv'
    OBVIOUS
<1>1. /\ roster' = roster /\ Len(canonical) <= Len(canonical')
      /\ \A n \in 1..Len(canonical) : canonical'[n] = canonical[n]
    BY TablesGrow
<1>2. canonical \in Seq(CanonicalRow) /\ Len(canonical) \in Nat /\ EventsTypeOK /\ CallsOK /\ CallsExist
    BY DEF Typed, TypeOK, EventsTypeOK, CallsOK, CallRecord
<1>3. (\A n \in 1..Len(canonical) : RowBooked(canonical[n]))'
    <2>1. ASSUME NEW e, canonical' = Append(canonical, e), RowBooked(e)
          PROVE  \A n \in 1..Len(canonical') : RowBooked(canonical'[n])
        <3>1. /\ Len(canonical') = Len(canonical) + 1
              /\ canonical'[Len(canonical) + 1] = e
            BY <1>2, <2>1
        <3> QED
            BY <1>1, <1>2, <2>1, <3>1 DEF BooksInv
    <2>2. ASSUME NEW c \in Callers, Canonicalise(c)
          PROVE  \A n \in 1..Len(canonical') : RowBooked(canonical'[n])
        <3> DEFINE m == call[c].message
        <3>1. m \in Messages
            BY <1>2, <2>2, CallCases, IdleStep DEF Canonicalise, CallsOK
        <3>2. canonical' = Append(canonical, CanonicalOf(m))
            BY <2>2 DEF Canonicalise, CreateCanonical
        <3>3. RowBooked(CanonicalOf(m))
            BY <1>2, <3>1, CanonicalOfBooked DEF RowBooked
        <3> QED
            BY <2>1, <3>2, <3>3
    <2>3. ASSUME NEW a \in LegacyEvents, Adapt(a)
          PROVE  \A n \in 1..Len(canonical') : RowBooked(canonical'[n])
        <3>1. canonical' = Append(canonical, CanonicalOfLegacy(a))
            BY <2>3 DEF Adapt, AdaptLegacy
        <3>2. CanonicalOfLegacy(a).source \notin Messages
            BY LegacyAssumption DEF CanonicalOfLegacy
        <3>3. RowBooked(CanonicalOfLegacy(a))
            BY <3>2, CanonicalOfLegacyBooked DEF RowBooked, ClearDuties
        <3> QED
            BY <2>1, <3>1, <3>3
    <2>4. ASSUME UNCHANGED canonical PROVE \A n \in 1..Len(canonical') : RowBooked(canonical'[n])
        BY <2>4 DEF BooksInv
    <2>5. \A n \in 1..Len(canonical') : RowBooked(canonical'[n])
        BY <2>2, <2>3, <2>4
           DEF Next, Lookup, Ingest, InsertRaw, Check, Judge, Crash, Recheck, Detect, JudgeDay, Tick,
               vars, eventVars
    <2> QED
        BY <1>1, <2>5, ClockStays DEF RowBooked, Booked, InZone
<1>4. \A c \in Callers : Delivered(call'[c], canonical')
    <2>1. ASSUME NEW c \in Callers PROVE Delivered(call[c], canonical')
        BY <1>1, <1>2 DEF BooksInv, Delivered, CallsExist
    <2>2. ASSUME NEW c \in Callers, NEW x, Go(c, x), Delivered(x, canonical')
          PROVE  \A b \in Callers : Delivered(call'[b], canonical')
        <3>1. \A b \in Callers : call'[b] = IF b = c THEN x ELSE call[b]
            BY <1>2, <2>2 DEF Go, CallsOK
        <3> QED
            BY <2>1, <2>2, <3>1
    <2>3. ASSUME NEW x, x.step \notin {"checkpoint", "rules"} PROVE Delivered(x, canonical')
        BY <2>3 DEF Delivered
    <2>4. ASSUME NEW c \in Callers, \E m \in Messages : Lookup(c, m)
          PROVE  \A b \in Callers : Delivered(call'[b], canonical')
        BY <2>2, <2>3, <2>4 DEF Lookup
    <2>5. ASSUME NEW c \in Callers, Ingest(c)
          PROVE  \A b \in Callers : Delivered(call'[b], canonical')
        BY <2>2, <2>3, <2>5, IdleStep DEF Ingest
    <2>6. ASSUME NEW c \in Callers, Canonicalise(c)
          PROVE  \A b \in Callers : Delivered(call'[b], canonical')
        <3> DEFINE m == call[c].message
                   x == [step |-> "checkpoint", event |-> Len(canonical) + 1]
        <3>1. m \in Messages
            BY <1>2, <2>6, CallCases, IdleStep DEF Canonicalise, CallsOK
        <3>2. canonical'[Len(canonical) + 1] = CanonicalOf(m)
            <4>1. canonical' = Append(canonical, CanonicalOf(m))
                BY <2>6 DEF Canonicalise, CreateCanonical
            <4> HIDE DEF m
            <4> QED
                BY <1>2, <4>1
        <3>3. CanonicalOf(m).source = m
            BY DEF CanonicalOf
        <3>4. Delivered(x, canonical')
            BY <3>1, <3>2, <3>3 DEF Delivered
        <3>5. Go(c, x)
            BY <2>6 DEF Canonicalise
        <3> HIDE DEF m, x
        <3> QED
            BY <2>2, <3>4, <3>5
    <2>7. ASSUME NEW c \in Callers, Check(c)
          PROVE  \A b \in Callers : Delivered(call'[b], canonical')
        <3>1. Delivered(call[c], canonical') /\ call[c].step = "checkpoint"
            BY <2>1, <2>7 DEF Check
        <3>2. Delivered([step |-> "rules", event |-> call[c].event], canonical')
            BY <3>1 DEF Delivered
        <3>3. Delivered(Idle, canonical')
            BY <2>3, IdleStep
        <3> QED
            BY <2>2, <2>7, <3>2, <3>3 DEF Check
    <2>8. ASSUME NEW c \in Callers, Judge(c) \/ Crash(c)
          PROVE  \A b \in Callers : Delivered(call'[b], canonical')
        BY <2>2, <2>3, <2>8, IdleStep DEF Judge, Crash
    <2>9. ASSUME UNCHANGED call PROVE \A b \in Callers : Delivered(call'[b], canonical')
        BY <2>1, <2>9
    <2> QED
        BY <2>4, <2>5, <2>6, <2>7, <2>8, <2>9 DEF Next, Adapt, Recheck, Detect, JudgeDay, Tick, vars
<1>5. \A r \in results' : ResultOfEvent(r, canonical')
    <2>1. \A r \in results : ResultOfEvent(r, canonical')
        BY <1>1, <1>2 DEF BooksInv, ResultOfEvent, Typed, ResultsExist
    <2>2. ASSUME NEW n \in 1..Len(canonical), ProcessEvent(n), UNCHANGED canonical
          PROVE  \A r \in results' : ResultOfEvent(r, canonical')
        <3>1. \A t : ResultOfEvent(ResultOf(n, t), canonical')
            BY <2>2 DEF ResultOfEvent, ResultOf
        <3> QED
            BY <2>1, <2>2, <3>1 DEF ProcessEvent
    <2>3. \A c \in Callers : call[c].step = "checkpoint" => call[c].event \in 1..Len(canonical)
        BY <1>2 DEF CallsExist
    <2>4. CASE \E c \in Callers : Check(c)
        BY <2>1, <2>2, <2>3, <2>4 DEF Check, eventVars, checkpointVars
    <2>5. CASE \E n \in 1..Len(canonical) : Recheck(n)
        BY <2>2, <2>5 DEF Recheck, eventVars
    <2>6. CASE UNCHANGED results
        BY <2>1, <2>6
    <2> QED
        BY <2>4, <2>5, <2>6 DEF Next, Lookup, Ingest, Canonicalise, Judge, Crash,
             Adapt, Detect, DetectMissing, JudgeDay, Tick, vars, checkpointVars
<1> QED
    BY <1>3, <1>4, <1>5 DEF BooksInv

\* Where templates are whole and duties clear, every event of a worker on shift,
\* delivered or of the old flow, late or in time, is booked on the date on which
\* that shift began (resolve_operating_date).
THEOREM EventsAreBooked == WholeShifts => (Spec /\ []ClearDuties => []BookedOnItsShift)
<1> SUFFICES ASSUME WholeShifts PROVE Spec /\ []ClearDuties => []BookedOnItsShift
    OBVIOUS
<1>1. ClearDuties /\ Typed /\ BooksInv /\ [Next]_vars => BooksInv'
    BY NextBooks
<1>2. BooksInv => BookedOnItsShift
    BY DEF BooksInv, RowBooked, Booked, BookedOnItsShift
<1> QED
    BY <1>1, <1>2, Types, InitBooks, PTL DEF Spec

----------------------------------------------------------------------------
(* Verdicts, absences and the clock.                                       *)

\* A verdict about an event that is right by the clock.
RightVerdict(r, e) ==
    \A d \in Dates : OnShift(e.worker, d, e.at) =>
        LET t == Template[Roster(e.worker, d).shift]
            limit == IF r.rule = "LATE_BREAK_RETURN" THEN t.breakEnd ELSE t.handoverEnd
        IN  /\ r.date = d
            /\ r.status = "FAIL" => e.at > During(e.worker, d, limit)
            /\ r.status = "PASS" => e.at <= During(e.worker, d, limit)

LEMMA JudgedRight ==
    ASSUME WholeShifts, Typed, AsRostered, BooksInv,
           NEW n \in 1..Len(canonical), canonical[n].source \in Messages,
           NEW i, NEW r \in Verdicts(canonical[n].worker, canonical[n].date, canonical[n].shift, n, None, i),
           r.rule \in {"LATE_BREAK_RETURN", "LATE_HANDOVER"}
    PROVE  r.event = n /\ RightVerdict(r, canonical[n])
<1> DEFINE e == canonical[n]
           s == ShiftAsked(e.worker, e.date, e.shift)
           v == VersionAsked(e.worker, e.date, None)
<1>1. e \in CanonicalRow
    BY DEF Typed, TypeOK, EventsTypeOK
<1>2. e.worker \in Workers /\ e.at \in Int /\ e.shift \in Shifts \cup {None}
    BY <1>1 DEF CanonicalRow
<1>3. RosteredShift(e) /\ Booked(e) /\ InZone(e)
    BY DEF AsRostered, BooksInv, RowBooked
<1>4. r = RowOf(e.worker, e.date, r.rule, n, None, v, EventVerdict(r.rule, e, e.date, s))
    <2>1. \A rule, event, sh, ver, st :
             RowOf(e.worker, e.date, rule, event, sh, ver, st).rule = rule
        BY DEF RowOf
    <2>2. r.rule \notin DateRules /\ r.rule \notin ShiftRules /\ r.rule # "OFFSITE_ASSIGNMENT"
        BY DEF DateRules, ShiftRules
    <2> HIDE DEF s, v, e
    <2>3. \/ r = RowOf(e.worker, e.date, "OFFSITE_ASSIGNMENT", 0, None, None, Offsite(e.worker, e.date))
          \/ \E x \in DateRules :
                r = RowOf(e.worker, e.date, x, 0, None, v, DateVerdict(x, e.worker, e.date))
          \/ \E x \in ShiftRules :
                r = RowOf(e.worker, e.date, x, 0, s, v, ShiftVerdict(x, e.worker, e.date, s, i))
          \/ \E x \in EventRules :
                r = RowOf(e.worker, e.date, x, n, None, v, EventVerdict(x, e, e.date, s))
        BY VerdictsCases DEF s, v, e
    <2> QED
        BY <2>1, <2>2, <2>3
<1>5. r.event = n /\ r.date = e.date /\ r.status = EventVerdict(r.rule, e, e.date, s)
    BY <1>4 DEF RowOf
<1>6. ASSUME NEW d \in Dates, OnShift(e.worker, d, e.at)
      PROVE  LET t == Template[Roster(e.worker, d).shift]
                 limit == IF r.rule = "LATE_BREAK_RETURN" THEN t.breakEnd ELSE t.handoverEnd
             IN  /\ r.date = d
                 /\ r.status = "FAIL" => e.at > During(e.worker, d, limit)
                 /\ r.status = "PASS" => e.at <= During(e.worker, d, limit)
    <2> DEFINE q == Roster(e.worker, d).shift
               z == Zone(Roster(e.worker, d).site)
               b == During(e.worker, d, Template[q].breakEnd)
               h == During(e.worker, d, Template[q].handoverEnd)
    <2>1. e.date = d /\ Zone(e.site) = z
        BY <1>3, <1>6 DEF Booked, InZone
    <2>2. d \in Int /\ q \in Shifts
        BY <1>2, <1>6, RosterType, DatesAssumption DEF OnShift, OnDuty, RosterRow, Typed, TypeOK
    <2>3. s = q
        BY <1>3, <2>1 DEF RosteredShift, ShiftAsked
    <2>4. BreakEnd(q, d, z) = b /\ HandoverEnd(q, d, z) = h
        BY <2>2, LimitsAreReal
    <2>5. b \in Int /\ h \in Int
        <3>1. z \in Int /\ d * DayLength \in Int
            BY <2>2, ZoneType, DayLengthAssumption
        <3> HIDE DEF z
        <3>2. BreakEnd(q, d, z) \in Int /\ HandoverEnd(q, d, z) \in Int
            <4>1. \A x \in {d, d + 1}, t \in TimesOfDay : At(x, t, z) \in Int
                <5>1. (d + 1) * DayLength \in Int
                    BY <2>2, DayLengthAssumption
                <5> QED
                    BY <3>1, <5>1 DEF At, TimesOfDay
            <4> QED
                BY <2>2, <4>1, TemplateType DEF BreakEnd, HandoverEnd, HandoverDate, NextDayIf
        <3> QED
            BY <2>4, <3>2
    <2>6. CASE r.rule = "LATE_BREAK_RETURN"
        <3>1. r.status = OnTime(e.at <= b)
            <4>1. EventVerdict(r.rule, e, d, q) = BreakReturn(e, d, q)
                BY <2>6 DEF EventVerdict
            <4>2. BreakReturn(e, d, q) = OnTime(e.at <= BreakEnd(q, d, z))
                BY <2>1 DEF BreakReturn
            <4> HIDE DEF e, q, z, b, s
            <4> QED
                BY <1>5, <2>1, <2>3, <2>4, <4>1, <4>2
        <3> HIDE DEF e, b, h
        <3>2. /\ r.status = "FAIL" => e.at > b
              /\ r.status = "PASS" => e.at <= b
            BY <1>2, <2>5, <3>1 DEF OnTime
        <3> QED
            BY <1>5, <2>1, <2>6, <3>2 DEF b, e
    <2>7. CASE r.rule = "LATE_HANDOVER"
        <3>1. r.status \in {"PASS", "FAIL"} => r.status = OnTime(e.at <= h)
            <4>1. EventVerdict(r.rule, e, d, q) = LateHandover(e, d, q)
                BY <2>7 DEF EventVerdict
            <4>2. LateHandover(e, d, q) \in {"PASS", "FAIL"} =>
                      LateHandover(e, d, q) = OnTime(e.at <= HandoverEnd(q, d, z))
                BY <2>1 DEF LateHandover, Handover
            <4> HIDE DEF e, q, z, h, s
            <4> QED
                BY <1>5, <2>1, <2>3, <2>4, <4>1, <4>2
        <3> HIDE DEF e, b, h
        <3>2. /\ r.status = "FAIL" => e.at > h
              /\ r.status = "PASS" => e.at <= h
            BY <1>2, <2>5, <3>1 DEF OnTime
        <3> QED
            BY <1>5, <2>1, <2>7, <3>2 DEF h, e
    <2> QED
        BY <2>6, <2>7
<1> QED
    BY <1>5, <1>6 DEF RightVerdict

\* The shift of a verdict is over at instant i.
Limit(r) ==
    LET row == Roster(r.worker, r.date)
    IN  ShiftStart(row.shift, r.date, Zone(row.site)) + Lasts(row.shift)
Over(r, i) == Limit(r) \in Int /\ Limit(r) <= i

LEMMA FailedLate ==
    ASSUME WholeShifts, EventsTypeOK, NEW w \in Workers, NEW d \in Int, NEW shift, NEW n,
           ShiftAsked(w, d, shift) # None => ShiftAsked(w, d, shift) = Roster(w, d).shift,
           NEW i \in Int, NEW r \in Verdicts(w, d, shift, n, None, i),
           r.status = "FAIL", r.rule = "MISSING_SHIFT_OUT"
    PROVE  Over(r, i)
<1> DEFINE s == ShiftAsked(w, d, shift)
           v == VersionAsked(w, d, None)
           row == Roster(w, d)
           z == Zone(row.site)
<1>1. row # None /\ s # None /\ r = RowOf(w, d, r.rule, 0, s, v, ShiftVerdict(r.rule, w, d, s, i))
    <2>1. \A rule, event, sh, ver, st : RowOf(w, d, rule, event, sh, ver, st).rule = rule
        BY DEF RowOf
    <2>2. r.rule \notin DateRules /\ r.rule \notin EventRules /\ r.rule # "OFFSITE_ASSIGNMENT"
        BY DEF DateRules, ShiftRules, EventRules
    <2> HIDE DEF s, v, row
    <2>3. row # None
        BY VerdictsCases DEF row
    <2>4. \/ r = RowOf(w, d, "OFFSITE_ASSIGNMENT", 0, None, None, Offsite(w, d))
          \/ \E x \in DateRules : r = RowOf(w, d, x, 0, None, v, DateVerdict(x, w, d))
          \/ s # None /\ \E x \in ShiftRules :
                r = RowOf(w, d, x, 0, s, v, ShiftVerdict(x, w, d, s, i))
          \/ \E x \in EventRules :
                r = RowOf(w, d, x, n, None, v, EventVerdict(x, canonical[n], d, s))
        BY VerdictsCases DEF s, v
    <2> QED
        BY <2>1, <2>2, <2>3, <2>4
<1>2. r.worker = w /\ r.date = d /\ ShiftVerdict(r.rule, w, d, s, i) = "FAIL"
    BY <1>1 DEF RowOf
<1>3. s = row.shift /\ s \in Shifts /\ row.site \in Sites \cup {None}
    <2>1. s = row.shift
        BY <1>1
    <2>2. row \in RosterRow
        BY <1>1, RosterType
    <2> HIDE DEF s, row
    <2> QED
        BY <1>1, <2>1, <2>2 DEF RosterRow
<1>4. z \in Int
    BY ZoneType
<1>5. MissingShiftOut(w, d, s, i) = "FAIL"
    BY <1>2 DEF ShiftVerdict
<1>6. i >= ShiftEnd(s, d, z)
    BY <1>5 DEF MissingShiftOut, ShiftOutVerdict
<1>7. ShiftEnd(s, d, z) = ShiftStart(s, d, z) + Lasts(s)
    BY <1>3, <1>4, EndOfShift
<1>8. Limit(r) = ShiftStart(s, d, z) + Lasts(s)
    BY <1>2, <1>3 DEF Limit
<1>9. ShiftStart(s, d, z) \in Int /\ Lasts(s) \in Int
    <2>1. /\ Lasts(s) = (Template[s].end - Template[s].start) % DayLength
          /\ ShiftStart(s, d, z) = d * DayLength + Template[s].start - z
        BY DEF ShiftStart, At, Lasts
    <2>2. d * DayLength \in Int /\ Template[s].start \in Int /\ Template[s].end \in Int
        BY <1>3, TemplateType, DayLengthAssumption DEF TimesOfDay
    <2> HIDE DEF s, z
    <2> QED
        BY <1>4, <2>1, <2>2, DayLengthAssumption
<1> HIDE DEF s, z
<1> QED
    BY <1>6, <1>7, <1>8, <1>9 DEF Over

AllOver ==
    \A r \in evaluations : r.status = "FAIL" /\ r.rule = "MISSING_SHIFT_OUT" => Over(r, now)

LEMMA NextOver ==
    WholeShifts /\ Typed /\ AsRostered /\ AllOver /\ [Next]_vars => AllOver'
<1> SUFFICES ASSUME WholeShifts, Typed, AsRostered, AllOver, [Next]_vars PROVE AllOver'
    OBVIOUS
<1>1. EventsTypeOK /\ now \in Int /\ canonical \in Seq(CanonicalRow) /\ RulesTypeOK
    BY InstantsAssumption DEF Typed, TypeOK, EventsTypeOK
<1>2. roster' = roster
    BY TablesGrow
<1>3. \A r : Limit(r)' = Limit(r)
    BY <1>2 DEF Limit, Roster
<1>4. ASSUME now' \in Int, now <= now', \A r \in evaluations' :
                 r \in evaluations \/ (r.status = "FAIL" /\ r.rule = "MISSING_SHIFT_OUT" => Over(r, now))
      PROVE  AllOver'
    <2>1. \A r : Over(r, now) => Over(r, now)'
        BY <1>1, <1>3, <1>4 DEF Over
    <2> QED
        BY <1>4, <2>1 DEF AllOver
<1>5. ASSUME NEW c \in Callers, Judge(c) PROVE AllOver'
    <2> DEFINE n == call[c].event
               e == canonical[n]
    <2>1. n \in 1..Len(canonical)
        BY <1>5 DEF Judge, Typed, CallsExist
    <2>2. e.worker \in Workers /\ e.date \in Int /\ RosteredShift(e)
        <3>1. e \in CanonicalRow /\ RosteredShift(e)
            BY <1>1, <2>1 DEF AsRostered
        <3> HIDE DEF e
        <3> QED
            BY <3>1 DEF CanonicalRow
    <2>3. Evaluate(e.worker, e.date, e.shift, n, None, now) /\ now' = now
        BY <1>5 DEF Judge
    <2> HIDE DEF n, e
    <2>4. ShiftAsked(e.worker, e.date, e.shift) # None =>
              ShiftAsked(e.worker, e.date, e.shift) = Roster(e.worker, e.date).shift
        BY <2>2 DEF ShiftAsked, RosteredShift
    <2>5. \A r \in Verdicts(e.worker, e.date, e.shift, n, None, now) :
              r.status = "FAIL" /\ r.rule = "MISSING_SHIFT_OUT" => Over(r, now)
        BY <1>1, <2>2, <2>4, FailedLate
    <2> QED
        BY <1>1, <1>4, <2>3, <2>5 DEF Evaluate, Stored
<1>6. ASSUME NEW w \in Workers, NEW d \in Dates, JudgeDay(w, d) PROVE AllOver'
    <2>1. d \in Int /\ ShiftAsked(w, d, None) = Roster(w, d).shift
        BY DatesAssumption DEF ShiftAsked
    <2>2. \A r \in Verdicts(w, d, None, 0, None, now) :
              r.status = "FAIL" /\ r.rule = "MISSING_SHIFT_OUT" => Over(r, now)
        BY <1>1, <2>1, FailedLate
    <2> QED
        BY <1>1, <1>4, <1>6, <2>2 DEF JudgeDay, Evaluate, Stored
<1>7. ASSUME Tick PROVE AllOver'
    <2>1. now' \in Int /\ now' > now /\ evaluations' = evaluations
        BY <1>7, InstantsAssumption DEF Tick
    <2> QED
        BY <1>1, <1>4, <2>1
<1>8. UNCHANGED <<evaluations, now>> => AllOver'
    BY <1>1, <1>4
<1> QED
    BY <1>5, <1>6, <1>7, <1>8
       DEF Next, Lookup, Ingest, Canonicalise, Check, Crash, Adapt, Recheck, Detect, vars

\* Where templates are whole and a source names no shift but the rostered one,
\* the shift-out rule fails nobody before the shift is over on the wall clock
\* where the worker is (evaluate_missing_shift_out).
THEOREM NobodyMissedEarly == WholeShifts => (Spec /\ []NamesRostered => []NotYetMissing)
<1> SUFFICES ASSUME WholeShifts PROVE Spec /\ []NamesRostered => []NotYetMissing
    OBVIOUS
<1>1. Init => AllOver
    BY DEF Init, RulesInit, AllOver
<1>2. NamesRostered /\ Typed /\ AsRostered /\ [Next]_vars => AsRostered'
    BY NextRostered
<1>3. Typed /\ AsRostered /\ AllOver /\ [Next]_vars => AllOver'
    BY NextOver
<1>4. AllOver => NotYetMissing
    BY DEF AllOver, Over, Limit, NotYetMissing
<1> QED
    BY <1>1, <1>2, <1>3, <1>4, Types, InitRostered, PTL DEF Spec

ClockRules == {"LATE_BREAK_RETURN", "LATE_HANDOVER"}
AllRight ==
    \A r \in evaluations : r.rule \in ClockRules =>
        r.event \in 1..Len(canonical) /\ RightVerdict(r, canonical[r.event])

LEMMA DayHasNoEvent ==
    ASSUME NEW w, NEW d, NEW i, NEW r \in Verdicts(w, d, None, 0, None, i)
    PROVE  r.rule \notin ClockRules
<1> DEFINE s == ShiftAsked(w, d, None)
           v == VersionAsked(w, d, None)
<1>1. \/ r = RowOf(w, d, "OFFSITE_ASSIGNMENT", 0, None, None, Offsite(w, d))
      \/ \E x \in DateRules : r = RowOf(w, d, x, 0, None, v, DateVerdict(x, w, d))
      \/ \E x \in ShiftRules : r = RowOf(w, d, x, 0, s, v, ShiftVerdict(x, w, d, s, i))
    BY VerdictsCases
<1>2. \A rule, event, sh, ver, st : RowOf(w, d, rule, event, sh, ver, st).rule = rule
    BY DEF RowOf
<1> HIDE DEF s, v
<1> QED
    BY <1>1, <1>2 DEF DateRules, ShiftRules, ClockRules

LEMMA NextRight ==
    WholeShifts /\ Typed /\ AsRostered /\ BooksInv /\ AllRight /\ [Next]_vars => AllRight'
<1> SUFFICES ASSUME WholeShifts, Typed, AsRostered, BooksInv, AllRight, [Next]_vars PROVE AllRight'
    OBVIOUS
<1>1. /\ roster' = roster /\ Len(canonical) <= Len(canonical')
      /\ \A n \in 1..Len(canonical) : canonical'[n] = canonical[n]
    BY TablesGrow
<1>2. Len(canonical) \in Nat /\ Len(canonical') \in Nat
    <2>1. Typed'
        BY NextTyped
    <2> QED
        BY <2>1 DEF Typed, TypeOK, EventsTypeOK
<1>3. \A r, e : RightVerdict(r, e)' = RightVerdict(r, e)
    BY <1>1 DEF RightVerdict, OnShift, OnDuty, During, Roster
<1>4. ASSUME \A r \in evaluations' : r \in evaluations \/
                (r.rule \in ClockRules =>
                   r.event \in 1..Len(canonical) /\ RightVerdict(r, canonical[r.event]))
      PROVE  AllRight'
    <2>1. ASSUME NEW r \in evaluations', r.rule \in ClockRules
          PROVE  r.event \in 1..Len(canonical') /\ RightVerdict(r, canonical'[r.event])
        <3>1. r.event \in 1..Len(canonical) /\ RightVerdict(r, canonical[r.event])
            BY <1>4, <2>1 DEF AllRight
        <3> QED
            BY <1>1, <1>2, <3>1
    <2>2. ASSUME NEW r \in evaluations', r.rule \in ClockRules
          PROVE  RightVerdict(r, canonical[r.event])'
        <3>1. RightVerdict(r, canonical'[r.event])
            BY <2>1, <2>2
        <3> QED
            BY <1>1, <3>1 DEF RightVerdict, OnShift, OnDuty, During, Roster
    <2> QED
        BY <2>1, <2>2 DEF AllRight
<1>5. ASSUME NEW c \in Callers, Judge(c) PROVE AllRight'
    <2> DEFINE n == call[c].event
               e == canonical[n]
    <2>1. n \in 1..Len(canonical) /\ e.source \in Messages
        <3>1. call[c].step = "rules"
            BY <1>5 DEF Judge
        <3> QED
            BY <3>1 DEF Typed, CallsExist, BooksInv, Delivered
    <2>2. Evaluate(e.worker, e.date, e.shift, n, None, now)
        BY <1>5 DEF Judge
    <2> HIDE DEF n
    <2>3. \A r \in Verdicts(e.worker, e.date, e.shift, n, None, now) :
              r.rule \in ClockRules => r.event = n /\ RightVerdict(r, e)
        BY <2>1, JudgedRight DEF ClockRules
    <2> QED
        BY <1>4, <2>1, <2>2, <2>3 DEF Evaluate, Stored
<1>6. ASSUME NEW w \in Workers, NEW d \in Dates, JudgeDay(w, d) PROVE AllRight'
    BY <1>4, <1>6, DayHasNoEvent DEF JudgeDay, Evaluate, Stored
<1>7. UNCHANGED evaluations => AllRight'
    BY <1>4
<1> QED
    BY <1>5, <1>6, <1>7
       DEF Next, Lookup, Ingest, Canonicalise, Check, Crash, Adapt, Recheck, Detect, Tick, vars

\* Where templates are whole and duties clear, the verdict on a return from the break, or on the end of the handover, of a
\* worker on shift is the one of the wall clock and is booked on the date on
\* which the shift began, for every zone and every night
\* (evaluate_late_break_return, evaluate_late_handover, resolve_operating_date).
THEOREM VerdictsReal ==
    WholeShifts => (Spec /\ []ClearDuties => []VerdictsAreReal)
<1> SUFFICES ASSUME WholeShifts PROVE Spec /\ []ClearDuties => []VerdictsAreReal
    OBVIOUS
<1>1. Init => AllRight
    BY DEF Init, RulesInit, AllRight
<1>2. ClearDuties /\ Typed /\ AsRostered /\ [Next]_vars => AsRostered'
    BY NextRostered DEF ClearDuties
<1>3. ClearDuties /\ Typed /\ BooksInv /\ [Next]_vars => BooksInv'
    BY NextBooks
<1>4. Typed /\ AsRostered /\ BooksInv /\ AllRight /\ [Next]_vars => AllRight'
    BY NextRight
<1>5. AllRight => VerdictsAreReal
    BY DEF AllRight, RightVerdict, VerdictsAreReal, ClockRules
<1> QED
    BY <1>1, <1>2, <1>3, <1>4, <1>5, Types, InitRostered, InitBooks, PTL DEF Spec

LEMMA FailedShiftOut ==
    ASSUME NEW w, NEW d, NEW shift, NEW n, NEW i, NEW q \in Verdicts(w, d, shift, n, None, i),
           q.rule = "MISSING_SHIFT_OUT", q.status = "FAIL"
    PROVE  q.worker = w /\ q.date = d /\ \A r \in Judged(w, d) : r.type # "CHECK_OUT"
<1> DEFINE s == ShiftAsked(w, d, shift)
           v == VersionAsked(w, d, None)
<1>1. \A rule, event, sh, ver, st : RowOf(w, d, rule, event, sh, ver, st).rule = rule
    BY DEF RowOf
<1>2. "MISSING_SHIFT_OUT" \notin DateRules \cup EventRules
    BY DEF DateRules, EventRules
<1>3. \/ q = RowOf(w, d, "OFFSITE_ASSIGNMENT", 0, None, None, Offsite(w, d))
      \/ \E x \in DateRules : q = RowOf(w, d, x, 0, None, v, DateVerdict(x, w, d))
      \/ \E x \in ShiftRules : q = RowOf(w, d, x, 0, s, v, ShiftVerdict(x, w, d, s, i))
      \/ \E x \in EventRules : q = RowOf(w, d, x, n, None, v, EventVerdict(x, canonical[n], d, s))
    BY VerdictsCases
<1> HIDE DEF s, v
<1>4. q = RowOf(w, d, q.rule, 0, s, v, ShiftVerdict(q.rule, w, d, s, i))
    BY <1>1, <1>2, <1>3
<1>5. q.worker = w /\ q.date = d /\ MissingShiftOut(w, d, s, i) = "FAIL"
    BY <1>4 DEF RowOf, ShiftVerdict
<1>6. ~ \E r \in Judged(w, d) : r.type = "CHECK_OUT"
    BY <1>5 DEF MissingShiftOut, ShiftOutVerdict
<1> QED
    BY <1>5, <1>6

\* Where templates are whole and duties clear, nobody is declared to have left out a checkpoint that an event of that very shift
\* has brought (detect_missing_checkpoints, evaluate_missing_shift_out).
THEOREM AbsencesReal ==
    WholeShifts => (Spec /\ []ClearDuties => AbsenceIsReal)
<1> SUFFICES ASSUME WholeShifts PROVE Spec /\ []ClearDuties => AbsenceIsReal
    OBVIOUS
<1>1. ClearDuties /\ Typed /\ BooksInv /\ [Next]_vars => BooksInv'
    BY NextBooks
<1>2. ASSUME Typed, BooksInv, [Next]_vars, NEW w \in Workers, NEW d \in Dates, NEW r \in results,
             r.worker = w, OnShift(w, d, r.at)
      PROVE  /\ [worker |-> w, date |-> d, type |-> r.type] \notin missing' \ missing
             /\ r.type = "CHECK_OUT" /\ r.status \in {"PASS", "FAIL"} =>
                  ~ \E q \in evaluations' \ evaluations :
                      q.worker = w /\ q.date = d /\ q.rule = "MISSING_SHIFT_OUT" /\ q.status = "FAIL"
    <2>1. r.date = d
        <3>1. r.event \in 1..Len(canonical) /\ ResultOfEvent(r, canonical)
            BY <1>2 DEF Typed, ResultsExist, BooksInv
        <3>2. Booked(canonical[r.event])
            BY <1>2, <3>1 DEF BooksInv, RowBooked
        <3> QED
            BY <1>2, <3>1, <3>2 DEF ResultOfEvent, Booked
    <2>2. r.type \in Received(w, d)
        BY <1>2, <2>1 DEF Received
    <2>3. [worker |-> w, date |-> d, type |-> r.type] \notin missing' \ missing
        <3>1. \A c \in Dates : [worker |-> w, date |-> d, type |-> r.type] \notin MissingOf(c)
            <4> SUFFICES ASSUME NEW c \in Dates, [worker |-> w, date |-> d, type |-> r.type] \in MissingOf(c)
                         PROVE  FALSE
                OBVIOUS
            <4>1. PICK b \in Workers, p \in Policies :
                     /\ p.type \notin Received(b, c)
                     /\ [worker |-> w, date |-> d, type |-> r.type]
                          = [worker |-> b, date |-> c, type |-> p.type]
                BY DEF MissingOf, Expected
            <4>2. b = w /\ c = d /\ p.type = r.type
                BY <4>1
            <4> QED
                BY <2>2, <4>1, <4>2
        <3>2. missing' = missing \/ \E c \in Dates : missing' = missing \cup MissingOf(c)
            BY <1>2 DEF Next, Lookup, Ingest, Canonicalise, Check, Judge, Crash, Adapt, Recheck, Detect,
                        DetectMissing, ProcessEvent, JudgeDay, Tick, vars, checkpointVars
        <3> QED
            BY <3>1, <3>2
    <2>4. ASSUME r.type = "CHECK_OUT", r.status \in {"PASS", "FAIL"},
                 NEW q \in evaluations' \ evaluations, q.worker = w, q.date = d,
                 q.rule = "MISSING_SHIFT_OUT", q.status = "FAIL"
          PROVE  FALSE
        <3>1. PICK b, c, shift, n : q \in Verdicts(b, c, shift, n, None, now)
            <4>1. \/ \E x \in Callers : Judge(x)
                  \/ \E b \in Workers, c \in Dates : JudgeDay(b, c)
                BY <1>2, <2>4 DEF Next, Lookup, Ingest, Canonicalise, Check, Crash, Adapt, Recheck,
                                  Detect, Tick, vars
            <4> QED
                BY <2>4, <4>1 DEF Judge, JudgeDay, Evaluate, Stored
        <3>2. \A x \in Judged(w, d) : x.type # "CHECK_OUT"
            BY <2>4, <3>1, FailedShiftOut
        <3>3. r \in Judged(w, d)
            BY <1>2, <2>1, <2>4 DEF Judged
        <3> QED
            BY <2>4, <3>2, <3>3
    <2> QED
        BY <2>3, <2>4
<1>3. Typed /\ BooksInv /\ [Next]_vars =>
        [\A w \in Workers, d \in Dates, r \in results :
         r.worker = w /\ OnShift(w, d, r.at) =>
           /\ [worker |-> w, date |-> d, type |-> r.type] \notin missing' \ missing
           /\ r.type = "CHECK_OUT" /\ r.status \in {"PASS", "FAIL"} =>
                ~ \E q \in evaluations' \ evaluations :
                    q.worker = w /\ q.date = d /\ q.rule = "MISSING_SHIFT_OUT" /\ q.status = "FAIL"
      ]_vars
    BY <1>2
<1> QED
    BY <1>1, <1>3, Types, InitBooks, PTL DEF Spec, AbsenceIsReal
=============================================================================
