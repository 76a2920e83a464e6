---------------------------- MODULE ExceptionDesk ----------------------------
(***************************************************************************)
(* What supervisors see of ExceptionReview: the workbench and its offers   *)
(* (backend/app/exception_workbench_service.py), the review queue          *)
(* (review_service.py), the dashboard's list of what needs action          *)
(* (dashboard_service.py), the board's decision badge (roster_service.py)  *)
(* and the report of exceptions (report_service.py).  All are queries.     *)
(* The page, the sorting and the search by name, date, shift, crew or      *)
(* owner only choose among what is modelled here.                          *)
(***************************************************************************)
EXTENDS ExceptionReview, FiniteSets

CONSTANTS
    Worker,         \* workers of the roster
    PlannedOf,      \* planned_worker_id of each decision, or nobody of Worker
    ActualOf,       \* actual_worker_id of each decision, or nobody of Worker
    ActionLimit     \* ACTION_REQUIRED_LIMIT

----------------------------------------------------------------------------
(* Cases.                                                                  *)

\* ACTIVE_STATUSES, which each service has for itself: the default queue of
\* the workbench, the review queue and the dashboard's active exceptions.
Queue == {c \in Case : case[c].status \in {"OPEN", "ACKNOWLEDGED"}}

\* _determine_available_actions, what it offers of a case.
\* (Mutant OfferedWhenOpen: an acknowledged case can only be resolved.)
OfferedWhenOpen(status) ==
    CASE status = "OPEN" -> {"ACKNOWLEDGE", "RESOLVE", "WAIVE", "ASSIGN", "ADD_NOTE", "REQUEST_DECISION"}
      [] status = "ACKNOWLEDGED" -> {"RESOLVE", "ASSIGN", "ADD_NOTE", "REQUEST_DECISION"}
      [] OTHER -> {}
Offered(status) ==
    CASE status = "OPEN" -> {"ACKNOWLEDGE", "RESOLVE", "WAIVE", "ASSIGN", "ADD_NOTE", "REQUEST_DECISION"}
      [] status = "ACKNOWLEDGED" -> {"RESOLVE", "WAIVE", "ASSIGN", "ADD_NOTE", "REQUEST_DECISION"}
      [] OTHER -> {}

----------------------------------------------------------------------------
(* Decisions.                                                              *)

Pending == {d \in Decision : decision[d].status = "PENDING"}

\* authorization_blocked, and what is offered of a decision.  No row has the
\* mark (see Approve), so an approval that was answered 403 is offered again.
AuthorizationBlocked(d) == decision[d].policy = "BLOCKED_POLICY_DECISION"
DecisionOffers(d) ==
    IF d \notin Pending THEN {}
    ELSE {"CANCEL"} \cup IF AuthorizationBlocked(d) THEN {} ELSE {"APPROVE", "REJECT"}

\* has_pending_decision of a case in the queue.
HasPending(c) == \E d \in Pending : decision[d].case = c

\* The badge of a worker who has the decisions in `mine`: a pending one wins
\* over an approved one, in whatever order they are read.
Badge(mine) ==
    IF mine \cap Pending # {} THEN "PENDING"
    ELSE IF \E d \in mine : decision[d].status = "APPROVED" THEN "APPROVED"
    ELSE "none"

\* The board counts the decisions about a worker's plan and about his actual
\* work; the dashboard's equipment list only those about his plan.
BoardStatus(w) == Badge({d \in Decision : w \in {PlannedOf[d], ActualOf[d]}})
DashboardStatus(w) == Badge({d \in Decision : w = PlannedOf[d]})

\* _build_action_required, but for the missing checkpoints: the lists that the
\* dashboard may show.  Active exceptions and the list itself are cut, by a
\* severity that the model leaves open.
ActionRequired ==
    {list \in SUBSET
        ({<<IF case[c].status = "OPEN" THEN "REVIEW_REQUIRED" ELSE "ACKNOWLEDGEMENT_RECEIVED", c>> :
             c \in Queue}
         \cup {<<"PENDING_DECISION", d>> : d \in Pending}) :
     Cardinality(list) <= ActionLimit}

----------------------------------------------------------------------------
(* The report.                                                             *)

\* query_exception_decisions reads the times of a case off its audit rows:
\* the earliest row that names the status as the new one, remarks included.
\* (Mutant NamesPrevious: as the previous one.)
NamesPrevious(row, status) == row.from = status
Names(row, status) == row.to = status
ReportedRow(c, status) ==
    LET rows == {i \in 1..Len(history[c]) : Names(history[c][i], status)}
    IN  {i \in rows : \A j \in rows : i <= j}

----------------------------------------------------------------------------
(* Properties.                                                             *)

Target == [ACKNOWLEDGE |-> "ACKNOWLEDGED", RESOLVE |-> "RESOLVED", WAIVE |-> "WAIVED"]

\* What supervisors are offered can be done.  The workbench offers exactly the
\* transitions that the table of exception_engine.py has, and of a decision or
\* a request for one only what decision_engine.py still takes (the engine takes
\* more: a request about a case that is closed is not offered and accepted).
\* Whatever the dashboard asks for, after its lists were cut, is of that kind.
\* A decision that the queue shows as pending is pending on the board for
\* every worker it is about, and only for those, and the dashboard's badge
\* says nothing that the board does not.
OffersAgree ==
    /\ \A c \in Case : \A a \in DOMAIN Target :
          a \in Offered(case[c].status) <=> Target[a] \in Allowed(case[c].status)
    /\ \A c \in Case : "REQUEST_DECISION" \in Offered(case[c].status) => case[c] # Unopened
    /\ \A d \in Decision : DecisionOffers(d) # {} => Decidable(d)
    /\ \A list \in ActionRequired : \A item \in list :
          \/ item[2] \in Case /\ Offered(case[item[2]].status) # {}
          \/ item[2] \in Decision /\ "CANCEL" \in DecisionOffers(item[2])
    /\ \A w \in Worker :
          /\ BoardStatus(w) = "PENDING" <=>
                \E c \in Case : \E d \in Pending :
                    HasPending(c) /\ decision[d].case = c /\ w \in {PlannedOf[d], ActualOf[d]}
          /\ DashboardStatus(w) = "PENDING" => BoardStatus(w) = "PENDING"
          /\ DashboardStatus(w) = "APPROVED" => BoardStatus(w) # "none"

\* The report has a time for exactly the lifecycle times that the case has,
\* and takes it from a transition, never from a remark that repeats the status.
\* (Of two resolutions that overlap it takes the first's time; the case keeps
\* the last's.)
ReportedTimesAgree ==
    \A c \in Case : \A status \in {"ACKNOWLEDGED", "RESOLVED", "WAIVED"} :
        /\ ReportedRow(c, status) # {} <=> status \in case[c].stamps
        /\ \A i \in ReportedRow(c, status) : history[c][i].type = "LIFECYCLE"
=============================================================================
