--------------------------- MODULE CanonicalEvents ---------------------------
(***************************************************************************)
(* From raw to canonical events (backend/app/canonical_event_service.py).  *)
(* A source delivers an occurrence under an id of its own, perhaps with a  *)
(* fingerprint, and delivers it again when it hears no answer.  ingest     *)
(* looks for an earlier delivery and then inserts; only the uniqueness of  *)
(* the id stands behind that look.  A canonical event is the occurrence    *)
(* with its operating date and shift, found by the roster of the day or of *)
(* the day before.  Sites, zones and shifts are those of ShiftTime.         *)
(***************************************************************************)
EXTENDS ShiftTime, Sequences, FiniteSets

CONSTANTS
    Workers,
    Dates,         \* the operating dates of the instance
    Rosters,       \* the rosters there may be: a row for worker and date, or None
    Versions,      \* rule versions
    Messages,      \* source event ids
    Occurrences,   \* what can happen: worker, type, instant, site, distance from it, the
                   \* shift the source names, and whether its device is not the enrolled one
    Fingerprinted, \* the messages that carry a fingerprint
    LegacyEvents   \* rows of attendance_events: worker, type, instant, work_date, status

VARIABLES
    roster,        \* RosterAssignment rows by worker and date, or None
    occurrence,    \* the occurrence behind each message (what the source saw)
    raw,           \* RawEvent rows
    canonical      \* CanonicalAttendanceEvent rows; an id is a position

eventVars == <<roster, occurrence, raw, canonical>>

\* What a source can see, and a row of the old flow.
EventTypes == {"CHECK_IN", "CHECK_OUT", "BREAK_IN", "BREAK_OUT", "BRIEFING_IN", "BRIEFING_OUT",
               "EQUIPMENT_CHECK_IN", "EQUIPMENT_CHECK_OUT", "HANDOVER_START", "HANDOVER_END",
               "SUPERVISOR_OVERRIDE"}

Occurrence == [worker : Workers, type : EventTypes, at : Int, site : Sites \cup {None},
               distance : Nat \cup {None}, shift : Shifts \cup {None}, mismatch : BOOLEAN]
LegacyEvent == [worker : Workers, type : EventTypes, at : Int, workDate : Int,
                status : {"VALID", "REVIEW", "REJECTED"}]

\* What a fingerprint is computed from, in one tenant and for one source.
Imprint == [worker : Workers, type : EventTypes, at : Int, site : Sites \cup {None}]

ASSUME OccurrencesAssumption == Occurrences \subseteq Occurrence /\ None \notin Imprint
ASSUME LegacyAssumption == LegacyEvents \subseteq LegacyEvent /\ LegacyEvents \cap Messages = {}
ASSUME FingerprintedAssumption == Fingerprinted \subseteq Messages
ASSUME DatesAssumption == Dates \subseteq Int

RosterRow == [shift : Shifts \cup {None},
              work : {"WORK", "REST", "OFFSITE", "LEAVE", "SICK", "TRAINING", "STANDBY"},
              onsite : BOOLEAN, site : Sites \cup {None}, version : Versions \cup {None}]

ASSUME RostersAssumption == Rosters \subseteq [Workers \X Dates -> RosterRow \cup {None}]

RawRow == [message : Messages, print : Imprint \cup {None},
           status : {"PENDING", "PROCESSED"}, event : Nat]

CanonicalRow ==
    [worker : Workers, type : EventTypes, at : Int, site : Sites \cup {None},
     shift : Shifts \cup {None}, date : Int, status : {"VALID", "AMBIGUOUS_SHIFT", "MISSING_SHIFT"},
     rostered : BOOLEAN, source : Messages \cup LegacyEvents,
     distance : Nat \cup {None}, mismatch : BOOLEAN]

EventsTypeOK ==
    /\ roster \in [Workers \X Dates -> RosterRow \cup {None}]
    /\ occurrence \in [Messages -> Occurrences]
    /\ raw \subseteq RawRow
    /\ canonical \in Seq(CanonicalRow)

----------------------------------------------------------------------------
Roster(w, d) == IF d \in Dates THEN roster[w, d] ELSE None

\* compute_fingerprint: a digest of who, what, when and where, and not of the
\* message's id.  (Mutant FingerprintOfId: of the id.)
FingerprintOfId(m) == IF m \in Fingerprinted THEN m ELSE None
Fingerprint(m) ==
    LET o == occurrence[m]
    IN  IF m \in Fingerprinted
        THEN [worker |-> o.worker, type |-> o.type, at |-> o.at, site |-> o.site] ELSE None

\* The earlier deliveries that ingest_raw_event finds.
\* (Mutant SameMessage: by id alone.)
SameMessage(m) == {r \in raw : r.message = m}
Duplicates(m) ==
    {r \in raw : \/ r.message = m
                 \/ Fingerprint(m) # None /\ r.print = Fingerprint(m)}

\* uq_raw_event_source.
RawRefused(m) == \E r \in raw : r.message = m

----------------------------------------------------------------------------
\* The roster rows that could claim an event: of its date or of the day
\* before, with a shift that puts the event on that very date.
\* (Mutant ClaimsToday: the row of the day before is not looked at.)
ClaimsToday(w, i, z) ==
    {d \in {LocalDate(i, z)} :
        /\ Roster(w, d) # None
        /\ Roster(w, d).shift # None
        /\ OperatingDate(i, z, Roster(w, d).shift) = d}
Claims(w, i, z) ==
    {d \in {LocalDate(i, z), LocalDate(i, z) - 1} :
        /\ Roster(w, d) # None
        /\ Roster(w, d).shift # None
        /\ OperatingDate(i, z, Roster(w, d).shift) = d}

\* resolve_operating_date: the shift the source named, else the one claim.
Resolve(o) ==
    LET z == Zone(o.site)
        claims == Claims(o.worker, o.at, z)
    IN  IF o.shift # None
        THEN [date |-> OperatingDate(o.at, z, o.shift), shift |-> o.shift, status |-> "VALID"]
        ELSE IF Cardinality(claims) = 1
        THEN LET d == CHOOSE d \in claims : TRUE
             IN  [date |-> d, shift |-> Roster(o.worker, d).shift, status |-> "VALID"]
        ELSE [date |-> LocalDate(o.at, z), shift |-> None,
              status |-> IF claims = {} THEN "MISSING_SHIFT" ELSE "AMBIGUOUS_SHIFT"]

\* The row create_canonical_event inserts for message m.
CanonicalOf(m) ==
    LET o == occurrence[m]
        r == Resolve(o)
    IN  [worker |-> o.worker, type |-> o.type, at |-> o.at, site |-> o.site,
         shift |-> r.shift, date |-> r.date, status |-> r.status,
         rostered |-> r.shift # None /\ Roster(o.worker, r.date) # None, source |-> m,
         distance |-> o.distance, mismatch |-> o.mismatch]

\* The row adapt_legacy_attendance inserts: the date the old flow computed.
CanonicalOfLegacy(a) ==
    LET row == Roster(a.worker, a.workDate)
    IN  [worker |-> a.worker, type |-> a.type, at |-> a.at, site |-> None,
         shift |-> IF row # None THEN row.shift ELSE None, date |-> a.workDate,
         status |-> "VALID", rostered |-> row # None, source |-> a,
         distance |-> None, mismatch |-> FALSE]

----------------------------------------------------------------------------
EventsInit ==
    /\ roster \in Rosters
    /\ occurrence \in [Messages -> Occurrences]
    /\ raw = {}
    /\ canonical = <<>>

\* The insert of ingest_raw_event, once its look-up found nothing.
InsertRaw(m) ==
    /\ raw' = raw \cup {[message |-> m, print |-> Fingerprint(m),
                         status |-> "PENDING", event |-> 0]}
    /\ UNCHANGED <<roster, occurrence, canonical>>

\* create_canonical_event for a raw row: nothing asks whether it has one.
CreateCanonical(m) ==
    /\ canonical' = Append(canonical, CanonicalOf(m))
    /\ raw' = {IF r.message = m
               THEN [r EXCEPT !.status = "PROCESSED", !.event = Len(canonical) + 1]
               ELSE r : r \in raw}
    /\ UNCHANGED <<roster, occurrence>>

\* adapt_legacy_attendance: only VALID rows, and each time anew.
AdaptLegacy(a) ==
    /\ a.status = "VALID"
    /\ canonical' = Append(canonical, CanonicalOfLegacy(a))
    /\ UNCHANGED <<roster, occurrence, raw>>
=============================================================================
