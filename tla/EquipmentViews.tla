---------------------------- MODULE EquipmentViews ----------------------------
(***************************************************************************)
(* What supervisors see of the assignments: the dashboard's equipment      *)
(* status (backend/app/dashboard_service.py), the roster board and the     *)
(* worker detail (roster_service.py).  All are queries; they read the      *)
(* tables and keep nothing.                                                 *)
(***************************************************************************)
EXTENDS EquipmentAssignment

CONSTANT OnDuty   \* the roster rows with work_status WORK: worker and date

ASSUME OnDutyAssumption == OnDuty \subseteq Workers \X Dates

Active(w, d) == {a \in actual : a.worker = w /\ a.date = d /\ a.status = "ACTIVE"}

\* _build_equipment_status: of several active assignments, the last one that
\* the query gave; the machine, and the stored outcome or one made up anew.
ShownOutcome(a) ==
    IF \E c \in comparisons : c.of = KeyOf(a)
    THEN (CHOOSE c \in comparisons : c.of = KeyOf(a)).result
    ELSE IF Planned(a.worker, a.date) = None THEN "NO_ACTUAL"
    ELSE IF Planned(a.worker, a.date) = a.equipment THEN "MATCH"
    ELSE "MISMATCH"

\* The machines whose codes were loaded: those planned for workers on duty.
Loaded(d) == {Planned(x[1], d) : x \in {y \in OnDuty : y[2] = d}} \ {None}

\* The rows that the page may show of a worker on duty.  The code of a machine
\* that was not loaded is asked of nothing and the page is not answered: such
\* an assignment gives no row.
DashboardRows(w, d) ==
    IF <<w, d>> \notin OnDuty THEN {}
    ELSE IF Active(w, d) = {} THEN {[machine |-> None, outcome |-> "NO_ACTUAL"]}
    ELSE {[machine |-> a.equipment, outcome |-> ShownOutcome(a)] :
             a \in {b \in Active(w, d) : b.equipment \in Loaded(d)}}

\* _current_actual_equipment: of several, one that started last.
\* (Mutant FirstStarted: the first row stays.)
FirstStarted(rows) == {a \in rows : \A b \in rows : a.start <= b.start}
LastStarted(rows) == {a \in rows : \A b \in rows : b.start <= a.start}
BoardMachine(w, d) ==
    IF <<w, d>> \notin OnDuty THEN {} ELSE {a.equipment : a \in LastStarted(Active(w, d))}

\* _build_equipment_history: every interval, and whether any outcome is bad.
History(w, d) == {a \in actual : a.worker = w /\ a.date = d}
Current(w, d) == {a \in History(w, d) : a.status = "ACTIVE" /\ a.end = None}
HasMismatch(w, d) ==
    \E c \in comparisons : c.result = "MISMATCH" /\ \E a \in History(w, d) : c.of = KeyOf(a)

----------------------------------------------------------------------------
\* A worker who is at a machine, with no end, is shown at that machine by
\* the roster board, whatever else he ran that day, and the worker detail
\* has no other that is current.  A page of the dashboard that is answered
\* shows the board's machine wherever one assignment is active (of several it
\* shows any) and none only where the board has none; it calls a machine a mismatch
\* only if another one is planned, and what it takes from a comparison the
\* worker detail flags too.
SameMachine(w, d, row) ==
    /\ row.machine = None => BoardMachine(w, d) = {}
    /\ \A a \in actual : Active(w, d) = {a} => BoardMachine(w, d) = {row.machine}
TrueMismatch(w, d, row) ==
    /\ Planned(w, d) \notin {None, row.machine}
    /\ (\A a \in Active(w, d) : \E c \in comparisons : c.of = KeyOf(a)) => HasMismatch(w, d)
ViewsAgree ==
    \A x \in OnDuty :
        /\ \A a \in Current(x[1], x[2]) :
              BoardMachine(x[1], x[2]) = {a.equipment} /\ Current(x[1], x[2]) = {a}
        /\ \A row \in DashboardRows(x[1], x[2]) :
              /\ SameMachine(x[1], x[2], row)
              /\ row.outcome = "MISMATCH" => TrueMismatch(x[1], x[2], row)
=============================================================================
