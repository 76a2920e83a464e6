-------------------------- MODULE ExceptionReview --------------------------
(***************************************************************************)
(* Exception cases and the decisions about them: exception_engine.py,      *)
(* decision_engine.py and review_service.py behind the endpoints of        *)
(* exceptions.py (backend/app).  Like every handler that writes, these are *)
(* a Begin step that reads and checks and a Commit step that writes: an    *)
(* UPDATE names its row by the id alone, and no row is locked.             *)
(***************************************************************************)
EXTENDS Integers, Sequences

CONSTANTS
    Case,           \* detections: (source, exception type) is UNIQUE in a case
    Decision,       \* bound: the ids of decisions
    DecisionType,   \* the kinds of decision that are asked for
    Request,        \* threads that serve requests
    MaxActions      \* bound: a request about a row with so many actions waits

ASSUME ReviewAssumption == Case \cap Decision = {} /\ MaxActions \in Nat

CaseStatus == {"OPEN", "ACKNOWLEDGED", "RESOLVED", "WAIVED"}
DecisionStatus == {"PENDING", "APPROVED", "REJECTED", "CANCELLED"}
Remark == {"REVIEW_NOTE", "ASSIGN_REVIEWER"}

\* An audit row: what was done, the status that was read, the one written.
Action ==
    [type : {"LIFECYCLE", "REQUEST", "DECIDE"} \cup Remark,
     from : CaseStatus \cup DecisionStatus, to : CaseStatus \cup DecisionStatus]

Unopened == [status |-> "NONE", stamps |-> {}]
CaseRow == [status : CaseStatus, stamps : SUBSET CaseStatus]
Unasked == [status |-> "NONE"]
DecisionRow ==
    [status : DecisionStatus, case : Case, type : DecisionType,
     policy : {"NULL", "SIM_APPROVER", "BLOCKED_POLICY_DECISION"}]

Idle == [op |-> "idle"]
LifecycleRequest == [op : {"lifecycle"}, case : Case, from : CaseStatus, to : CaseStatus]
RemarkRequest == [op : {"remark"}, case : Case, from : CaseStatus, type : Remark]
AskRequest == [op : {"ask"}, case : Case, type : DecisionType]
DecideRequest == [op : {"decide"}, decision : Decision, to : DecisionStatus]

VARIABLES
    case,       \* ExceptionCase rows: status, and the lifecycle times that are set
    decision,   \* ExceptionDecision rows
    history,    \* the ExceptionAction or ExceptionDecisionAction rows of each
    request     \* what each thread has read and is about to commit

vars == <<case, decision, history, request>>

TypeOK ==
    /\ case \in [Case -> {Unopened} \cup CaseRow]
    /\ decision \in [Decision -> {Unasked} \cup DecisionRow]
    /\ history \in [Case \cup Decision -> Seq(Action)]
    /\ request \in [Request ->
          {Idle} \cup LifecycleRequest \cup RemarkRequest \cup AskRequest \cup DecideRequest]

----------------------------------------------------------------------------
(* What a handler checks.                                                  *)

\* EXCEPTION_TRANSITIONS.
Allowed(from) ==
    CASE from = "OPEN" -> {"ACKNOWLEDGED", "RESOLVED", "WAIVED"}
      [] from = "ACKNOWLEDGED" -> {"RESOLVED", "WAIVED"}
      [] OTHER -> {}

\* The pending decisions of the same type about the same case: asking again
\* answers with one of them and writes nothing.
Twins(c, t) ==
    {d \in Decision :
        decision[d].status = "PENDING" /\ decision[d].case = c /\ decision[d].type = t}

\* The audit rows after a new one: they are only ever added.
\* (Mutant RecordedOver: one row per case, overwritten.)
RecordedOver(rows, type, from, to) == <<[type |-> type, from |-> from, to |-> to]>>
Recorded(rows, type, from, to) == Append(rows, [type |-> type, from |-> from, to |-> to])

----------------------------------------------------------------------------
(* The life of a case.                                                     *)

Init ==
    /\ case = [c \in Case |-> Unopened]
    /\ decision = [d \in Decision |-> Unasked]
    /\ history = [x \in Case \cup Decision |-> <<>>]
    /\ request = [r \in Request |-> Idle]

\* A detection that failed becomes a case, once.
OpenCase(c) ==
    /\ case[c] = Unopened
    /\ case' = [case EXCEPT ![c] = [status |-> "OPEN", stamps |-> {}]]
    /\ UNCHANGED <<decision, history, request>>

\* Thread r has read all it needs and goes on to commit what `next` says.
Begin(r, next) ==
    /\ request[r] = Idle
    /\ request' = [request EXCEPT ![r] = next]
    /\ UNCHANGED <<case, decision, history>>

BeginLifecycle(r, c, to) ==
    /\ Len(history[c]) < MaxActions
    /\ to \in Allowed(case[c].status)
    /\ Begin(r, [op |-> "lifecycle", case |-> c, from |-> case[c].status, to |-> to])

\* POST /exceptions/{id}/acknowledge, /resolve and /waive.
Acknowledge(r, c) == BeginLifecycle(r, c, "ACKNOWLEDGED")
Resolve(r, c) == BeginLifecycle(r, c, "RESOLVED")
Waive(r, c) == BeginLifecycle(r, c, "WAIVED")

CommitLifecycle(r) ==
    /\ request[r].op = "lifecycle"
    /\ LET c == request[r].case
           to == request[r].to
       IN /\ case' = [case EXCEPT ![c] = [status |-> to, stamps |-> @.stamps \cup {to}]]
          /\ history' = [history EXCEPT ![c] = Recorded(@, "LIFECYCLE", request[r].from, to)]
    /\ request' = [request EXCEPT ![r] = Idle]
    /\ UNCHANGED decision

\* POST /exceptions/{id}/notes and /assign, on a case of any status.
BeginRemark(r, c, type) ==
    /\ Len(history[c]) < MaxActions
    /\ case[c] # Unopened
    /\ Begin(r, [op |-> "remark", case |-> c, from |-> case[c].status, type |-> type])

CommitRemark(r) ==
    /\ request[r].op = "remark"
    /\ history' = [history EXCEPT ![request[r].case] =
           Recorded(@, request[r].type, request[r].from, request[r].from)]
    /\ request' = [request EXCEPT ![r] = Idle]
    /\ UNCHANGED <<case, decision>>

----------------------------------------------------------------------------
(* The life of a decision.                                                 *)

\* POST /exceptions/{id}/decisions, when no twin is pending.  The status of
\* the case is not looked at.
BeginAsk(r, c, t) ==
    /\ case[c] # Unopened
    /\ Twins(c, t) = {}
    /\ Begin(r, [op |-> "ask", case |-> c, type |-> t])

CommitAsk(r) ==
    /\ request[r].op = "ask"
    /\ \E d \in Decision :
          /\ decision[d] = Unasked
          /\ decision' = [decision EXCEPT ![d] =
                [status |-> "PENDING", case |-> request[r].case, type |-> request[r].type,
                 policy |-> "NULL"]]
          /\ history' = [history EXCEPT ![d] = Recorded(@, "REQUEST", "PENDING", "PENDING")]
    /\ request' = [request EXCEPT ![r] = Idle]
    /\ UNCHANGED case

\* The decision is pending still.
Decidable(d) == decision[d].status = "PENDING"

BeginDecide(r, d, to) ==
    /\ Decidable(d)
    /\ Begin(r, [op |-> "decide", decision |-> d, to |-> to])

\* POST /exceptions/decisions/{id}/approve by an actor whom the policy
\* authorizes, when the substitute passes validation; /reject; /cancel.  Where no
\* policy authorizes the approval, the engine marks the decision and raises, the
\* endpoint answers 403 and does not commit, and closing the session takes the
\* mark back: nothing changes.
Approve(r, d) == BeginDecide(r, d, "APPROVED")
Reject(r, d) == BeginDecide(r, d, "REJECTED")
Cancel(r, d) == BeginDecide(r, d, "CANCELLED")

\* The columns of decision d that a decision sets.
\* (Mutant DecidedResult: the result of the authorization is left there.)
DecidedResult(d, to) ==
    IF to = "APPROVED"
    THEN [decision[d] EXCEPT !.status = to, !.policy = "APPROVED_VIA_SIM_APPROVER"]
    ELSE [decision[d] EXCEPT !.status = to]
DecidedRow(d, to) ==
    IF to = "APPROVED"
    THEN [decision[d] EXCEPT !.status = to, !.policy = "SIM_APPROVER"]
    ELSE [decision[d] EXCEPT !.status = to]

CommitDecide(r) ==
    /\ request[r].op = "decide"
    /\ LET d == request[r].decision
           to == request[r].to
       IN /\ decision' = [decision EXCEPT ![d] = DecidedRow(d, to)]
          /\ history' = [history EXCEPT ![d] = Recorded(@, "DECIDE", "PENDING", to)]
    /\ request' = [request EXCEPT ![r] = Idle]
    /\ UNCHANGED case

\* The request fails before it commits: its session is closed, nothing stays.
Abort(r) ==
    /\ request[r] # Idle
    /\ request' = [request EXCEPT ![r] = Idle]
    /\ UNCHANGED <<case, decision, history>>

Next ==
    \/ \E c \in Case : OpenCase(c)
    \/ \E r \in Request :
          \/ \E c \in Case :
                \/ Acknowledge(r, c) \/ Resolve(r, c) \/ Waive(r, c)
                \/ \E type \in Remark : BeginRemark(r, c, type)
                \/ \E t \in DecisionType : BeginAsk(r, c, t)
          \/ \E d \in Decision : Approve(r, d) \/ Reject(r, d) \/ Cancel(r, d)
          \/ CommitLifecycle(r) \/ CommitRemark(r) \/ CommitAsk(r) \/ CommitDecide(r)
          \/ Abort(r)

Spec == Init /\ [][Next]_vars

----------------------------------------------------------------------------
(* Properties.                                                             *)

\* The statuses that audit rows say were reached.
Reached(rows) ==
    {rows[i].to : i \in {j \in 1..Len(rows) : rows[j].type \notin Remark}}

\* However requests overlap, the audit rows account for every row: a case
\* has exactly the lifecycle times, and a case or a decision one of the
\* statuses, that its actions say it reached.
HistoryAccounts ==
    /\ \A c \in Case :
          /\ case[c].stamps = Reached(history[c])
          /\ case[c].status \in IF Reached(history[c]) = {} THEN {"NONE", "OPEN"}
                                ELSE Reached(history[c])
    /\ \A d \in Decision :
          decision[d].status \in IF Reached(history[d]) = {} THEN {"NONE"}
                                 ELSE Reached(history[d])

\* Two requests that write to one case, or that decide one decision.
OneRow(r, s) ==
    \/ /\ {request[r].op, request[s].op} \subseteq {"lifecycle", "remark"}
       /\ request[r].case = request[s].case
    \/ /\ request[r].op = "decide" /\ request[s].op = "decide"
       /\ request[r].decision = request[s].decision

\* Requests overlap, but no two on one row.
RowsApart == \A r, s \in Request : r # s => ~ OneRow(r, s)

\* Audit rows that tell one story: each starts where the one before it ended.
Connected(rows, first, last) ==
    /\ rows # <<>> => rows[1].from = first /\ rows[Len(rows)].to = last
    /\ \A i \in 1..(Len(rows) - 1) : rows[i].to = rows[i + 1].from

\* As long as RowsApart, the audit rows of a case and of a decision tell one
\* story, which starts at its creation and ends at its present status.
HistoryIsPath ==
    /\ \A c \in Case : Connected(history[c], "OPEN", case[c].status)
    /\ \A d \in Decision : Connected(history[d], "PENDING", decision[d].status)

\* A decision is decided one way, as
\* docs/METRO_MM_M3D_ACCEPTANCE_REPORT.md:174 has it: its actions never say
\* both APPROVED and REJECTED.  The code does not keep it, for two decisions
\* that overlap.
NoContradiction ==
    \A d \in Decision : \A i, j \in 1..Len(history[d]) :
        ~ (history[d][i].to = "APPROVED" /\ history[d][j].to = "REJECTED")
============================================================================
