---------------------------- MODULE EventPipeline ----------------------------
(***************************************************************************)
(* The event engines composed, the way the end-to-end tests compose them   *)
(* (backend/tests/test_acceptance_m2e.py): a delivery is ingested, becomes *)
(* a canonical event, goes through the checkpoint engine and the rules,    *)
(* each call a transaction of its own.                                     *)
(* Deliveries overlap, are repeated, arrive in any order and late, and die *)
(* between two calls; the jobs of a day run whenever.                       *)
(***************************************************************************)
EXTENDS OperationalRules

CONSTANTS
    Callers,     \* threads that handle deliveries
    Instants,    \* the instants at which something is done
    MaxEvents    \* bound on the canonical events

ASSUME InstantsAssumption ==
    Instants \subseteq Int /\ \E i \in Instants : \A j \in Instants : i <= j
ASSUME MaxEventsAssumption == MaxEvents \in Nat

VARIABLES
    call,        \* what each caller has done of its delivery
    now          \* the instant

vars == <<eventVars, checkpointVars, evaluations, call, now>>

Idle == [step |-> "idle"]

TypeOK ==
    /\ EventsTypeOK /\ CheckpointTypeOK /\ RulesTypeOK
    /\ call \in [Callers -> {Idle}
                   \cup [step : {"insert", "canonical"}, message : Messages]
                   \cup [step : {"checkpoint", "rules"}, event : 1..MaxEvents]]
    /\ now \in Instants

----------------------------------------------------------------------------
Init ==
    /\ EventsInit /\ CheckpointInit /\ RulesInit
    /\ call = [c \in Callers |-> Idle]
    /\ now = CHOOSE i \in Instants : \A j \in Instants : i <= j

Go(c, next) == call' = [call EXCEPT ![c] = next]

\* A source delivers what has happened: the look-up of ingest_raw_event.  A
\* delivery that is known is answered and left.
Lookup(c, m) ==
    /\ call[c] = Idle
    /\ occurrence[m].at <= now
    /\ Duplicates(m) = {}
    /\ Go(c, [step |-> "insert", message |-> m])
    /\ UNCHANGED <<eventVars, checkpointVars, evaluations, now>>

\* The insert of ingest_raw_event, or its refusal by the constraint.
Ingest(c) ==
    /\ call[c].step = "insert"
    /\ LET m == call[c].message
       IN  IF RawRefused(m)
           THEN Go(c, Idle) /\ UNCHANGED eventVars
           ELSE Go(c, [step |-> "canonical", message |-> m]) /\ InsertRaw(m)
    /\ UNCHANGED <<checkpointVars, evaluations, now>>

Canonicalise(c) ==
    /\ call[c].step = "canonical"
    /\ Len(canonical) < MaxEvents
    /\ CreateCanonical(call[c].message)
    /\ Go(c, [step |-> "checkpoint", event |-> Len(canonical) + 1])
    /\ UNCHANGED <<checkpointVars, evaluations, now>>

\* A call of the checkpoint engine that the constraint refuses ends the delivery.
Check(c) ==
    /\ call[c].step = "checkpoint"
    /\ \/ /\ ProcessRefused(call[c].event)
          /\ Go(c, Idle)
          /\ UNCHANGED checkpointVars
       \/ /\ ProcessEvent(call[c].event)
          /\ Go(c, [step |-> "rules", event |-> call[c].event])
    /\ UNCHANGED <<eventVars, evaluations, now>>

Judge(c) ==
    /\ call[c].step = "rules"
    /\ LET e == canonical[call[c].event]
       IN  Evaluate(e.worker, e.date, e.shift, call[c].event, None, now)
    /\ Go(c, Idle)
    /\ UNCHANGED <<eventVars, checkpointVars, now>>

\* A caller dies between two calls: what it committed stays.
Crash(c) ==
    /\ call[c] # Idle
    /\ Go(c, Idle)
    /\ UNCHANGED <<eventVars, checkpointVars, evaluations, now>>

\* An attendance event of the old flow is adapted, by a caller that keeps no
\* record of it but does so once.
Adapt(a) ==
    /\ a.at <= now
    /\ Len(canonical) < MaxEvents
    /\ \A n \in 1..Len(canonical) : canonical[n].source # a
    /\ AdaptLegacy(a)
    /\ UNCHANGED <<checkpointVars, evaluations, call, now>>

\* The engines are run again on an event, or for the first time on one that
\* was adapted or whose caller died.
Recheck(n) ==
    /\ ProcessEvent(n)
    /\ UNCHANGED <<eventVars, evaluations, call, now>>

\* The jobs of a day.
Detect(d) ==
    /\ DetectMissing(d)
    /\ UNCHANGED <<eventVars, evaluations, call, now>>

JudgeDay(w, d) ==
    /\ Evaluate(w, d, None, 0, None, now)
    /\ UNCHANGED <<eventVars, checkpointVars, call, now>>

Tick ==
    /\ \E i \in Instants : i > now /\ now' = i
    /\ UNCHANGED <<eventVars, checkpointVars, evaluations, call>>

Next ==
    \/ \E c \in Callers :
          \/ \E m \in Messages : Lookup(c, m)
          \/ Ingest(c) \/ Canonicalise(c) \/ Check(c) \/ Judge(c) \/ Crash(c)
    \/ \E a \in LegacyEvents : Adapt(a)
    \/ \E n \in 1..Len(canonical) : Recheck(n)
    \/ \E d \in Dates : Detect(d) \/ \E w \in Workers : JudgeDay(w, d)
    \/ Tick

Spec == Init /\ [][Next]_vars

\* Two deliveries of one occurrence under two ids, both past their look-up,
\* become two events: no constraint stands behind it.
NoTwinDeliveries ==
    \A c, d \in Callers : call[c].step = "insert" /\ call[d].step = "insert" =>
        LET m == call[c].message
            n == call[d].message
        IN  m = n \/ Fingerprint(m) = None \/ Fingerprint(m) # Fingerprint(n)

----------------------------------------------------------------------------
\* What the clock on the wall says: shift s of date d lasts from its start for
\* as long as its times of day are apart.
Lasts(s) == (Template[s].end - Template[s].start) % DayLength

OnShift(w, d, i) ==
    /\ OnDuty(w, d)
    /\ LET row == Roster(w, d)
           start == ShiftStart(row.shift, d, Zone(row.site))
       IN  start <= i /\ i < start + Lasts(row.shift)

\* The instant, within the shift of date d, that shows time of day t.
During(w, d, t) ==
    LET row == Roster(w, d)
    IN  ShiftStart(row.shift, d, Zone(row.site)) + ((t - Template[row.shift].start) % DayLength)

\* However an occurrence is delivered - twice under one id, again under
\* another, overlapping, after a crash - it becomes one canonical event at most.
OneEventPerOccurrence ==
    \A i, j \in 1..Len(canonical) :
        /\ {canonical[i].source, canonical[j].source} \subseteq Fingerprinted
        /\ occurrence[canonical[i].source] = occurrence[canonical[j].source]
        => i = j

\* A verdict on a return from the break, or on the end of the handover, of a
\* worker who is on shift is the one the wall clock gives, across midnight and
\* in the site's zone, and is booked on the date on which the shift began.
VerdictsAreReal ==
    \A r \in evaluations : r.rule \in {"LATE_BREAK_RETURN", "LATE_HANDOVER"} =>
        LET e == canonical[r.event]
        IN  \A d \in Dates : OnShift(e.worker, d, e.at) =>
              LET t == Template[Roster(e.worker, d).shift]
                  limit == IF r.rule = "LATE_BREAK_RETURN" THEN t.breakEnd ELSE t.handoverEnd
              IN  /\ r.date = d
                  /\ r.status = "FAIL" => e.at > During(e.worker, d, limit)
                  /\ r.status = "PASS" => e.at <= During(e.worker, d, limit)

\* Nobody is declared to have left out a checkpoint - by the missing-checkpoint
\* job or by the shift-out rule - that an event of that very shift has already
\* brought, whichever of event and job came first in time.
AbsenceIsReal ==
    [][\A w \in Workers, d \in Dates, r \in results :
         r.worker = w /\ OnShift(w, d, r.at) =>
           /\ [worker |-> w, date |-> d, type |-> r.type] \notin missing' \ missing
           /\ r.type = "CHECK_OUT" /\ r.status \in {"PASS", "FAIL"} =>
                ~ \E q \in evaluations' \ evaluations :
                    q.worker = w /\ q.date = d /\ q.rule = "MISSING_SHIFT_OUT" /\ q.status = "FAIL"
      ]_vars

\* The shift-out rule fails nobody for a missing check-out before the shift is
\* over on the wall clock where the worker is.  (A row of the missing-checkpoint
\* job says nothing of the kind: the job asks no clock.)
NotYetMissing ==
    \A r \in evaluations : r.status = "FAIL" /\ r.rule = "MISSING_SHIFT_OUT" =>
        LET row == Roster(r.worker, r.date)
        IN  now >= ShiftStart(row.shift, r.date, Zone(row.site)) + Lasts(row.shift)

\* "same evidence + same rule + same rule version -> same result": however
\* often and whenever the rules run, there is one verdict.
OneVerdictPerEvidence ==
    \A q, r \in evaluations : Identity(q) = Identity(r) => q = r

\* The place in the list of the policy of type t.
PlaceOf(t, s, d, rank) == rank[CHOOSE p \in Expected(s, d) : p.type = t]

\* The judged checkpoints of a worker on duty that the shift expects.
InSequence(w, d) ==
    {r \in Judged(w, d) : \E p \in Expected(Roster(w, d).shift, d) : p.type = r.type}

\* In whatever order the policies are listed, the sequence check, which compares
\* neighbours in time, reports a disorder exactly when some two judged
\* checkpoints of the shift, however far apart, came in the wrong order.
OrderIsJudged ==
    \A w \in Workers, d \in Dates : OnDuty(w, d) =>
        LET s == Roster(w, d).shift
            came == InSequence(w, d)
            apart == \A q, r \in came : q.at = r.at => q = r
        IN  apart => \A rank \in Rankings[s, d] :
                SequenceViolations(w, d, s, rank) # {} <=>
                    \E q, r \in came :
                        q.at < r.at /\ PlaceOf(r.type, s, d, rank) < PlaceOf(q.type, s, d, rank)

\* An event of a worker who is on shift is booked on the date on which that
\* shift began, whether a source delivered it or the old flow did, across
\* midnight and in the site's zone.
BookedOnItsShift ==
    \A n \in 1..Len(canonical) : \A d \in Dates :
        OnShift(canonical[n].worker, d, canonical[n].at) => canonical[n].date = d
=============================================================================
