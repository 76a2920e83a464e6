--------------------------- MODULE CheckpointEngine ---------------------------
(***************************************************************************)
(* Checkpoints (backend/app/checkpoint_engine.py): a canonical event is    *)
(* mapped to a checkpoint type and judged by the policy of its shift, once *)
(* per event and type; a job declares missing what the policies of a       *)
(* rostered worker expect and no event brought.  Nothing takes such a      *)
(* declaration back when the event arrives late.                           *)
(***************************************************************************)
EXTENDS CanonicalEvents

CONSTANTS
    Mapping,     \* the checkpoint type of each event type, or None (unmapped or disabled)
    Policies     \* CheckpointPolicy rows, at most one per type and shift

VARIABLES
    results,     \* CheckpointValidationResult rows
    missing      \* MissingCheckpointResult rows

checkpointVars == <<results, missing>>

Verdict == {"PASS", "FAIL", "CONFIG_INCOMPLETE", "BLOCKED_POLICY_DECISION", "NOT_APPLICABLE"}

ASSUME PolicyAssumption ==
    /\ IsFiniteSet(Policies) /\ \A p \in Policies : p.order \in Int /\ p.close \in Int
    /\ \A p, q \in Policies : p.type = q.type /\ p.shift = q.shift => p = q

CheckpointTypes == {p.type : p \in Policies} \cup ({Mapping[t] : t \in EventTypes} \ {None})

ResultRow == [event : Nat \ {0}, type : CheckpointTypes, worker : Workers, date : Int,
              at : Int, status : Verdict]
MissingRow == [worker : Workers, date : Dates, type : CheckpointTypes]

CheckpointTypeOK == results \subseteq ResultRow /\ missing \subseteq MissingRow

----------------------------------------------------------------------------
\* get_policy: the policy of a type for a shift, in effect on the date.
PolicyOf(type, s, d) ==
    {p \in Policies : p.type = type /\ p.shift = s /\ p.from <= d /\ d <= p.to}

\* get_active_policy.
ActivePolicy(type, s, d) == {p \in PolicyOf(type, s, d) : p.enabled}

\* get_expected_sequence, as the set of its policies (each has its order).
Expected(s, d) == {p \in Policies : p.shift = s /\ p.enabled /\ p.from <= d /\ d <= p.to}

\* No offset and no tolerance: the window was never configured.
WindowConfigured(p) == p.open # 0 \/ p.close # 0 \/ p.tolerance # None

Tolerance(p) == IF p.tolerance = None THEN 0 ELSE p.tolerance

\* Both ends of the window belong to it.
InWindow(p, e) ==
    LET start == ShiftStart(e.shift, e.date, Zone(e.site))
    IN  /\ e.at >= start + p.open - Tolerance(p)
        /\ e.at <= start + p.close + Tolerance(p)

\* validate_checkpoint: the status of event e at a checkpoint of type t.
Validated(e, t) ==
    LET policy == IF e.shift = None THEN {} ELSE ActivePolicy(t, e.shift, e.date)
    IN  IF policy = {} THEN "CONFIG_INCOMPLETE"
        ELSE LET p == CHOOSE p \in policy : TRUE
             IN  IF p.behavior = "BLOCKED_POLICY_DECISION" THEN "BLOCKED_POLICY_DECISION"
                 ELSE IF WindowConfigured(p) /\ ~ InWindow(p, e) THEN "FAIL" ELSE "PASS"

\* The policy of the event's checkpoint exists and is switched off.
SwitchedOff(e, t) ==
    e.shift # None /\ \E p \in PolicyOf(t, e.shift, e.date) : ~ p.enabled

ResultOf(n, t) ==
    LET e == canonical[n]
    IN  [event |-> n, type |-> t, worker |-> e.worker, date |-> e.date, at |-> e.at,
         status |-> IF SwitchedOff(e, t) THEN "NOT_APPLICABLE" ELSE Validated(e, t)]

\* What was received for a worker and date: any status counts.
Received(w, d) == {r.type : r \in {q \in results : q.worker = w /\ q.date = d}}

\* What was received and judged.
Judged(w, d) == {r \in results : r.worker = w /\ r.date = d /\ r.status \in {"PASS", "FAIL"}}

\* Workers whose absence counts.
OnDuty(w, d) ==
    /\ Roster(w, d) # None
    /\ Roster(w, d).work = "WORK" /\ Roster(w, d).onsite /\ Roster(w, d).shift # None

\* The rows detect_missing_checkpoints reports for a date.
\* (Mutant MissingOfAll: of everyone, whatever was received.)
MissingOfAll(d) ==
    UNION {{[worker |-> w, date |-> d, type |-> p.type] : p \in Expected(Roster(w, d).shift, d)} :
           w \in {v \in Workers : OnDuty(v, d)}}
MissingOf(d) ==
    UNION {{[worker |-> w, date |-> d, type |-> p.type] :
              p \in {q \in Expected(Roster(w, d).shift, d) : q.type \notin Received(w, d)}} :
           w \in {v \in Workers : OnDuty(v, d)}}

\* The lists get_expected_sequence may return, as the place of each policy:
\* by sequence_order, policies of one order in whatever order the rows come.
Rankings ==
    [x \in Shifts \X Dates |->
        LET E == Expected(x[1], x[2])
        IN  {rank \in [E -> 1..Cardinality(E)] :
                \A p, q \in E : p # q =>
                    rank[p] # rank[q] /\ (p.order < q.order => rank[p] < rank[q])}]

\* detect_sequence_violations: neighbours in time whose policies stand in the
\* list the other way round.  Results of one instant may be read in any
\* order, so only strictly later ones are certain neighbours.
\* (Mutant ForwardOrder: the comparison turned round.)
ForwardOrder(a, b) == a < b
WrongOrder(a, b) == b < a

Neighbours(w, d) ==
    {rq \in Judged(w, d) \X Judged(w, d) :
        /\ rq[1].at < rq[2].at
        /\ \A x \in Judged(w, d) : rq[1].at <= x.at /\ x.at <= rq[2].at => x \in {rq[1], rq[2]}}

SequenceViolations(w, d, s, rank) ==
    LET places(r) == {rank[p] : p \in {q \in Expected(s, d) : q.type = r.type}}
    IN  IF Cardinality(Expected(s, d)) < 2 THEN {}
        ELSE {rq \in Neighbours(w, d) :
                \E a \in places(rq[1]), b \in places(rq[2]) : WrongOrder(a, b)}

----------------------------------------------------------------------------
CheckpointInit == results = {} /\ missing = {}

\* The result of a policy that is switched off is inserted without looking for
\* an earlier one, so the constraint refuses the second call, which fails.
ProcessRefused(n) ==
    LET t == Mapping[canonical[n].type]
    IN  t # None /\ SwitchedOff(canonical[n], t) /\ \E r \in results : r.event = n /\ r.type = t

\* process_canonical_event, when it does not fail.  An unmapped event leaves
\* nothing; validate_checkpoint returns the result there is.
ProcessEvent(n) ==
    LET t == Mapping[canonical[n].type]
    IN  /\ ~ ProcessRefused(n)
        /\ IF t = None \/ \E r \in results : r.event = n /\ r.type = t
           THEN UNCHANGED results
           ELSE results' = results \cup {ResultOf(n, t)}
        /\ UNCHANGED missing

\* detect_missing_checkpoints(date).
DetectMissing(d) ==
    /\ missing' = missing \cup MissingOf(d)
    /\ UNCHANGED results
=============================================================================
