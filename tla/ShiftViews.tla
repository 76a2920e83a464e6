------------------------------ MODULE ShiftViews ------------------------------
(***************************************************************************)
(* What the dashboard (backend/app/dashboard_service.py) and the roster    *)
(* board (roster_service.py) show of a shift under way: the operational    *)
(* state of each worker, derived anew at every look from the canonical     *)
(* events and checkpoint results that have arrived by then.                 *)
(***************************************************************************)
EXTENDS EventPipeline

\* The stages of a shift, in the order in which it goes through them; a
\* failed checkpoint goes before all.
Stage == [NOT_STARTED |-> 0, BRIEFING_COMPLETE |-> 1, AT_EQUIPMENT |-> 2, WORKING |-> 3,
          ON_BREAK |-> 4, RETURNED_FROM_BREAK |-> 5, HANDOVER |-> 6, SHIFT_COMPLETE |-> 7,
          ATTENTION_REQUIRED |-> 8]

\* _derive_operational_state, from the types of a worker's events and the
\* results about them: the first of these that applies.
Derived(types, rows) ==
    LET passed == {r.type : r \in {q \in rows : q.status = "PASS"}}
    IN  IF types = {} THEN "NOT_STARTED"
        ELSE IF \E r \in rows : r.status = "FAIL" THEN "ATTENTION_REQUIRED"
        ELSE IF "CHECK_OUT" \in types THEN "SHIFT_COMPLETE"
        ELSE IF types \cap {"HANDOVER_START", "HANDOVER_END"} # {} THEN "HANDOVER"
        ELSE IF "BREAK_OUT" \in types THEN "RETURNED_FROM_BREAK"
        ELSE IF "BREAK_IN" \in types THEN "ON_BREAK"
        ELSE IF "CHECK_IN" \in types \/ "WORK_START" \in passed THEN "WORKING"
        ELSE IF "EQUIPMENT_CHECK_IN" \in types \/ "EQUIPMENT_IN" \in passed THEN "AT_EQUIPMENT"
        ELSE IF "BRIEFING_IN" \in types \/ "BRIEFING_IN" \in passed THEN "BRIEFING_COMPLETE"
        ELSE "NOT_STARTED"

\* The events of a worker and date that a view looks at.
\* (Mutant LatestOnly: only the one that arrived last.)
EventsOf(w, d) == {n \in 1..Len(canonical) : canonical[n].worker = w /\ canonical[n].date = d}
LatestOnly(ids) == {n \in ids : \A k \in ids : k <= n}
Seen(ids) == ids

StateOf(ids) ==
    Derived({canonical[n].type : n \in Seen(ids)}, {r \in results : r.event \in Seen(ids)})

\* The dashboard of a date, of all shifts; and the board, of the shift that
\* the worker's row plans, or the row's status off duty.
DashboardState(w, d) == StateOf(EventsOf(w, d))
BoardState(w, d) ==
    IF Roster(w, d).work # "WORK" THEN Roster(w, d).work
    ELSE StateOf({n \in EventsOf(w, d) :
                    Roster(w, d).shift # None => canonical[n].shift = Roster(w, d).shift})

----------------------------------------------------------------------------
\* Whatever arrives late, again or out of order, and however often it is
\* judged, nobody who was shown at one stage of his shift is later shown at
\* an earlier one, neither by the dashboard nor by the board.
StateNeverFallsBack ==
    [][<<canonical, results>>' # <<canonical, results>> =>
          \A w \in Workers, d \in Dates : Roster(w, d) # None /\ Roster(w, d).work = "WORK" =>
              /\ Stage[DashboardState(w, d)] <= Stage[DashboardState(w, d)']
              /\ Stage[BoardState(w, d)] <= Stage[BoardState(w, d)']]_vars
=============================================================================
