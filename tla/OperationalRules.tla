-------------------------- MODULE OperationalRules --------------------------
(***************************************************************************)
(* The operational rules (backend/app/operational_rule_engine.py).  Each   *)
(* rule reads a worker's roster row, shift, policies and checkpoint        *)
(* results, perhaps one event and the clock, and gives one verdict.        *)
(* evaluate_all_rules stores the verdicts it has no row for: a row is      *)
(* found by worker, date, rule, rule version and evidence key, never by    *)
(* when it was evaluated, and is returned as it is for ever after.          *)
(***************************************************************************)
EXTENDS CheckpointEngine

CONSTANTS
    Radius,          \* the geofence of each site, or None
    RestConfigured   \* minimum_rest_hours has a value

VARIABLE evaluations   \* RuleEvaluation rows

EventRules == {"LATE_BREAK_RETURN", "LATE_BRIEFING", "EARLY_HANDOVER", "LATE_HANDOVER",
               "LOCATION_OUTSIDE_GEOFENCE", "DEVICE_OR_IDENTITY_RISK"}
ShiftRules == {"MISSING_BRIEFING", "MISSING_SHIFT_OUT"}
DateRules  == {"INSUFFICIENT_REST", "OFFSITE_ASSIGNMENT"}
Rules == EventRules \cup ShiftRules \cup DateRules

\* A row: its evidence key is an event, a shift, or the date alone.
EvaluationRow == [worker : Workers, date : Int, rule : Rules, version : Versions \cup {None},
                  event : Nat, shift : Shifts \cup {None}, status : Verdict]

RulesTypeOK == evaluations \subseteq EvaluationRow

----------------------------------------------------------------------------
OnTime(ok) == IF ok THEN "PASS" ELSE "FAIL"

\* evaluate_late_break_return.
BreakReturn(e, d, s) == OnTime(e.at <= BreakEnd(s, d, Zone(e.site)))

\* evaluate_missing_briefing.  It closes the window in the tenant's zone.
MissingBriefing(w, d, s, now) ==
    LET policy == ActivePolicy("BRIEFING_IN", s, d)
    IN  IF policy = {} THEN "NOT_APPLICABLE"
        ELSE LET p == CHOOSE p \in policy : TRUE
             IN  IF ~ WindowConfigured(p) THEN "CONFIG_INCOMPLETE"
                 ELSE IF \E r \in Judged(w, d) : r.type = "BRIEFING_IN" THEN "PASS"
                 ELSE IF now < ShiftStart(s, d, TenantZone) + p.close THEN "NOT_APPLICABLE"
                 ELSE "FAIL"

\* evaluate_late_briefing.
LateBriefing(e, d, s) ==
    LET policy == ActivePolicy("BRIEFING_IN", s, d)
    IN  IF policy = {} THEN "NOT_APPLICABLE"
        ELSE LET p == CHOOSE p \in policy : TRUE
             IN  IF p.tolerance = None THEN "BLOCKED_POLICY_DECISION"
                 ELSE OnTime(e.at <= ShiftStart(s, d, Zone(e.site)) + p.tolerance)

\* evaluate_missing_shift_out.
\* (Mutant MissingShiftOutEarly: the end of the shift is not waited for.)
ShiftOutVerdict(w, d, s, over) ==
    LET row == Roster(w, d)
    IN  IF row = None THEN "NOT_APPLICABLE"
        ELSE IF row.work # "WORK" \/ ~ row.onsite THEN "NOT_APPLICABLE"
        ELSE IF ActivePolicy("CHECK_OUT", s, d) = {} THEN "NOT_APPLICABLE"
        ELSE IF \E r \in Judged(w, d) : r.type = "CHECK_OUT" THEN "PASS"
        ELSE IF ~ over THEN "NOT_APPLICABLE" ELSE "FAIL"
MissingShiftOutEarly(w, d, s, now) == ShiftOutVerdict(w, d, s, TRUE)
MissingShiftOut(w, d, s, now) ==
    ShiftOutVerdict(w, d, s, Roster(w, d) # None /\ now >= ShiftEnd(s, d, Zone(Roster(w, d).site)))

\* evaluate_early_handover and evaluate_late_handover, but for the instant.
Handover(type, d, s, ok) ==
    LET policy == ActivePolicy(type, s, d)
    IN  IF policy = {} THEN "NOT_APPLICABLE"
        ELSE IF (CHOOSE p \in policy : TRUE).behavior = "BLOCKED_POLICY_DECISION"
        THEN "BLOCKED_POLICY_DECISION"
        ELSE OnTime(ok)

EarlyHandover(e, d, s) ==
    Handover("HANDOVER_START", d, s, e.at >= HandoverStart(s, d, Zone(e.site)))
LateHandover(e, d, s) ==
    Handover("HANDOVER_END", d, s, e.at <= HandoverEnd(s, d, Zone(e.site)))

\* evaluate_geofence: only at a site with a radius, for an event with a fix.
Geofence(e) ==
    IF e.site = None THEN "CONFIG_INCOMPLETE"
    ELSE IF Radius[e.site] = None \/ e.distance = None THEN "CONFIG_INCOMPLETE"
    ELSE OnTime(e.distance <= Radius[e.site])

\* evaluate_device_risk.
DeviceRisk(e) == OnTime(~ e.mismatch)

\* evaluate_insufficient_rest: the evaluation itself is not implemented.
InsufficientRest == IF RestConfigured THEN "CONFIG_INCOMPLETE" ELSE "BLOCKED_POLICY_DECISION"

\* evaluate_offsite_assignment.
Offsite(w, d) ==
    IF Roster(w, d) = None THEN "NOT_APPLICABLE" ELSE OnTime(Roster(w, d).onsite)

----------------------------------------------------------------------------
\* The event type that each of these rules judges; the others judge all.
Judges == [LATE_BREAK_RETURN |-> "BREAK_IN", LATE_BRIEFING |-> "BRIEFING_IN",
           EARLY_HANDOVER |-> "HANDOVER_START", LATE_HANDOVER |-> "HANDOVER_END"]

EventVerdict(rule, e, d, s) ==
    CASE rule = "LATE_BREAK_RETURN" -> BreakReturn(e, d, s)
      [] rule = "LATE_BRIEFING" -> LateBriefing(e, d, s)
      [] rule = "EARLY_HANDOVER" -> EarlyHandover(e, d, s)
      [] rule = "LATE_HANDOVER" -> LateHandover(e, d, s)
      [] rule = "LOCATION_OUTSIDE_GEOFENCE" -> Geofence(e)
      [] rule = "DEVICE_OR_IDENTITY_RISK" -> DeviceRisk(e)

ShiftVerdict(rule, w, d, s, now) ==
    IF rule = "MISSING_BRIEFING" THEN MissingBriefing(w, d, s, now)
    ELSE MissingShiftOut(w, d, s, now)

DateVerdict(rule, w, d) ==
    IF rule = "OFFSITE_ASSIGNMENT" THEN Offsite(w, d) ELSE InsufficientRest

\* The verdicts of evaluate_all_rules for a worker on date d, with event n if
\* it is not 0.  What is asked for goes before the roster's shift and version;
\* of a worker off duty only the assignment is judged, under the version asked.
Verdicts(w, d, shift, n, version, now) ==
    LET row == Roster(w, d)
        s == IF shift # None THEN shift ELSE row.shift
        v == IF version # None THEN version ELSE row.version
        new(rule, event, sh, ver, status) ==
            [worker |-> w, date |-> d, rule |-> rule, version |-> ver,
             event |-> event, shift |-> sh, status |-> status]
        ofEvent == {r \in EventRules : r \in DOMAIN Judges => Judges[r] = canonical[n].type}
    IN  IF row = None THEN {}
        ELSE IF row.work # "WORK"
        THEN {new("OFFSITE_ASSIGNMENT", 0, None, version, Offsite(w, d))}
        ELSE {new(r, 0, None, v, DateVerdict(r, w, d)) : r \in DateRules}
             \cup (IF s = None THEN {} ELSE
                     {new(r, 0, s, v, ShiftVerdict(r, w, d, s, now)) : r \in ShiftRules}
                     \cup (IF n = 0 THEN {} ELSE
                             {new(r, n, None, v, EventVerdict(r, canonical[n], d, s)) : r \in ofEvent}))

\* uq_rule_eval_identity, and what _check_existing looks for.
Identity(r) == <<r.worker, r.date, r.rule, r.version, r.event, r.shift>>

\* The rows that are stored: those without an earlier one.
\* (Mutant StoredAnew: the earlier one is not looked for.)
StoredAnew(rows) == rows
Stored(rows) == {r \in rows : \A q \in evaluations : Identity(q) # Identity(r)}

\* A briefing policy without a window: the evaluation names the policy where
\* the schema wants a checkpoint result, and the foreign key refuses it.
Refused(rows) == \E r \in Stored(rows) : r.rule = "MISSING_BRIEFING" /\ r.status = "CONFIG_INCOMPLETE"

RulesInit == evaluations = {}

\* evaluate_all_rules, in one transaction.
Evaluate(w, d, shift, n, version, now) ==
    LET rows == Verdicts(w, d, shift, n, version, now)
    IN  /\ ~ Refused(rows)
        /\ evaluations' = evaluations \cup Stored(rows)
=============================================================================
