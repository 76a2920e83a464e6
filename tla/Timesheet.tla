----------------------------- MODULE Timesheet -----------------------------
(***************************************************************************)
(* Closing timesheet periods (backend/app/timesheets.py) over the          *)
(* attendance of one worker: derive turns the events of every scheduled    *)
(* day into one state, close_period freezes the states of a finished       *)
(* period.  Attendance goes on while periods are closed: challenges that   *)
(* live across midnight, reviews and overlapping requests reach days that  *)
(* a period may already cover.                                             *)
(***************************************************************************)
EXTENDS Attendance

CONSTANTS
    Closer      \* threads that serve close requests

VARIABLES
    period,     \* TimesheetPeriod rows: the snapshot of each closed period
    closing     \* what each closer has derived and is about to commit

allVars == <<vars, period, closing>>

DayState == {"PRESENT", "ABSENT", "INCOMPLETE", "EXCEPTION", "PENDING"}

\* A period: its first and last day, and its scope: one project, or all of
\* them (NoProject).  (tenant, from, to, scope) is UNIQUE.
Period == {p \in [from : Day, to : Day, scope : Project \cup {NoProject}] : p.from <= p.to}

\* The days a period has a row for: scheduled, at a project in its scope.
RowsOf(p) ==
    {d \in p.from..p.to : /\ Assigned[d] # NoProject
                          /\ p.scope \in {NoProject, Assigned[d]}}

NotClosed == [d \in {} |-> "PENDING"]
Snapshot(p) == [RowsOf(p) -> DayState]

TimesheetTypeOK ==
    /\ TypeOK
    /\ \A p \in Period : period[p] = NotClosed \/ period[p] \in Snapshot(p)
    /\ \A k \in Closer : closing[k] = Idle \/ closing[k].snapshot \in Snapshot(closing[k].period)

----------------------------------------------------------------------------
Has(d, type, status) ==
    \E i \in 1..Len(log) : log[i].day = d /\ log[i].type = type /\ log[i].status = status

\* derive: the state of the worker's day d.  A check-out counts wherever and
\* whenever on the day it was recorded.
StateOf(d) ==
    IF \E type \in Type : Has(d, type, "REVIEW") THEN "EXCEPTION"
    ELSE IF Has(d, "CHECK_IN", "VALID")
         THEN IF Has(d, "CHECK_OUT", "VALID") THEN "PRESENT" ELSE "INCOMPLETE"
    ELSE IF d < today THEN "ABSENT"
    ELSE "PENDING"

\* The rows of a period.
\* (Mutant DeriveEveryDay: days off are not skipped.)
DeriveEveryDay(p) == [d \in p.from..p.to |-> StateOf(d)]
Derive(p) == [d \in RowsOf(p) |-> StateOf(d)]

\* What keeps a period from being closed.
Blocked(p) == \E d \in RowsOf(p) : StateOf(d) \in {"INCOMPLETE", "EXCEPTION", "PENDING"}

Finished(p) == p.to < today

\* The uniqueness of (tenant, from, to, scope) refuses a second row.
\* (Mutant NeverTaken: the table has no such constraint.)
NeverTaken(p) == FALSE
Taken(p) == period[p] # NotClosed

----------------------------------------------------------------------------
TimesheetInit ==
    /\ Init
    /\ period = [p \in Period |-> NotClosed]
    /\ closing = [k \in Closer |-> Idle]

\* POST /timesheet-periods/close, up to its last read.  A period that is
\* already closed answers without writing, but only after these guards: when
\* late attendance has blocked it, the answer is that it has open exceptions.
BeginClose(k, p) ==
    /\ closing[k] = Idle
    /\ Finished(p)
    /\ RowsOf(p) # {}
    /\ ~ Blocked(p)
    /\ ~ Taken(p)
    /\ closing' = [closing EXCEPT ![k] =
           [op |-> "close", period |-> p, snapshot |-> Derive(p)]]
    /\ UNCHANGED <<vars, period>>

CommitClose(k) ==
    /\ closing[k] # Idle
    /\ IF Taken(closing[k].period)
       THEN UNCHANGED period
       ELSE period' = [period EXCEPT ![closing[k].period] = closing[k].snapshot]
    /\ closing' = [closing EXCEPT ![k] = Idle]
    /\ UNCHANGED vars

AbortClose(k) ==
    /\ closing[k] # Idle
    /\ closing' = [closing EXCEPT ![k] = Idle]
    /\ UNCHANGED <<vars, period>>

TimesheetNext ==
    \/ AttendanceStep /\ UNCHANGED <<period, closing>>
    \/ \E k \in Closer :
          \/ \E p \in Period : BeginClose(k, p)
          \/ CommitClose(k)
          \/ AbortClose(k)

TimesheetSpec == TimesheetInit /\ [][TimesheetNext]_allVars

----------------------------------------------------------------------------
(* Properties.                                                             *)

\* What was frozen stands, whatever attendance commits during a close or
\* reaches a closed day after it, and however many close the period at once:
\* a close that derived other states from later events does not replace it.
SnapshotStands ==
    [][\A p \in Period : period[p] # NotClosed => period'[p] = period[p]]_allVars
============================================================================
