---------------------- MODULE ExceptionReviewProofs ----------------------
(***************************************************************************)
(* ExceptionReview for every set of cases, decisions and requests, however *)
(* they overlap.                                                           *)
(*                                                                         *)
(* The argument: no commit rereads its row, so a status may be overwritten *)
(* that was already another; but the commit that writes it also adds the   *)
(* audit row that says so, and no audit row ever goes.                     *)
(*                                                                         *)
(* As long as no two requests overlap on one row more is true: what a      *)
(* request has read of its row is still there when it commits              *)
(* (FreshReads), so that audit rows tell one story.                        *)
(***************************************************************************)
EXTENDS ExceptionDesk, OrderLemmas, TLAPS

\* The decision that a request is about to decide was asked for.
DecideSafe == \A r \in Request : request[r].op = "decide" => decision[request[r].decision] # Unasked

IInv == TypeOK /\ DecideSafe /\ HistoryAccounts

Requests == {Idle} \cup LifecycleRequest \cup RemarkRequest \cup AskRequest \cup DecideRequest

----------------------------------------------------------------------------
\* The kinds of request are told apart by their op.
LEMMA RequestKind ==
    ASSUME NEW x \in Requests
    PROVE  /\ x.op = "lifecycle" => x \in LifecycleRequest
           /\ x.op = "remark" => x \in RemarkRequest
           /\ x.op = "ask" => x \in AskRequest
           /\ x.op = "decide" => x \in DecideRequest
    BY DEF Requests, Idle, LifecycleRequest, RemarkRequest, AskRequest, DecideRequest

\* A new audit row is reached in addition to the others, unless it is a remark.
LEMMA ReachedRecorded ==
    ASSUME NEW rows \in Seq(Action), NEW type, NEW from, NEW to,
           [type |-> type, from |-> from, to |-> to] \in Action
    PROVE  /\ Recorded(rows, type, from, to) \in Seq(Action)
           /\ type \in Remark => Reached(Recorded(rows, type, from, to)) = Reached(rows)
           /\ type \notin Remark => Reached(Recorded(rows, type, from, to)) = Reached(rows) \cup {to}
<1> DEFINE a == [type |-> type, from |-> from, to |-> to]
           new == Append(rows, a)
<1>1. /\ new \in Seq(Action)
      /\ Len(rows) \in Nat /\ Len(new) = Len(rows) + 1
      /\ new[Len(rows) + 1] = a
      /\ \A i \in 1..Len(rows) : new[i] = rows[i]
    OBVIOUS
<1>2. 1..Len(new) = 1..Len(rows) \cup {Len(rows) + 1}
    BY <1>1
<1>3. a.type = type /\ a.to = to
    OBVIOUS
<1> HIDE DEF new, a
<1>4. type \in Remark => Reached(new) = Reached(rows)
    BY <1>1, <1>2, <1>3 DEF Reached
<1>5. type \notin Remark => Reached(new) = Reached(rows) \cup {to}
    BY <1>1, <1>2, <1>3 DEF Reached
<1> QED
    BY <1>1, <1>4, <1>5 DEF Recorded, new, a

\* Only statuses are reached.
LEMMA ReachedStatus ==
    ASSUME NEW rows \in Seq(Action)
    PROVE  Reached(rows) \subseteq CaseStatus \cup DecisionStatus
<1>1. ASSUME NEW i \in 1..Len(rows) PROVE rows[i].to \in CaseStatus \cup DecisionStatus
    <2>1. rows[i] \in Action
        OBVIOUS
    <2> QED
        BY <2>1 DEF Action
<1> QED
    BY <1>1 DEF Reached

----------------------------------------------------------------------------
LEMMA InitIInv == Init => IInv
<1> SUFFICES ASSUME Init PROVE IInv
    OBVIOUS
<1>1. TypeOK
    BY DEF Init, TypeOK
<1>2. DecideSafe
    BY DEF Init, DecideSafe, Idle
<1>3. Reached(<<>>) = {}
    BY DEF Reached
<1>4. HistoryAccounts
    BY <1>3 DEF Init, HistoryAccounts, Unopened, Unasked
<1> QED
    BY <1>1, <1>2, <1>4 DEF IInv

\* A step that leaves the rows and their audit rows alone.
LEMMA UnwrittenStep ==
    ASSUME IInv, UNCHANGED <<case, decision, history>>,
           request' \in [Request -> Requests],
           \A r \in Request : request'[r].op = "decide" =>
               request'[r] = request[r] \/ decision[request'[r].decision] # Unasked
    PROVE  IInv'
    BY DEF IInv, TypeOK, DecideSafe, HistoryAccounts, Requests

\* A request that begins has read rows that exist.
LEMMA BeginStep ==
    ASSUME IInv, NEW r \in Request, NEW next \in Requests, Begin(r, next),
           next.op = "decide" => decision[next.decision] # Unasked
    PROVE  IInv'
<1>1. request' \in [Request -> Requests]
    BY DEF IInv, TypeOK, Begin, Requests
<1>2. \A s \in Request : request'[s] = request[s] \/ request'[s] = next
    BY DEF IInv, TypeOK, Begin
<1> QED
    BY <1>1, <1>2, UnwrittenStep DEF Begin

\* A request that ends writes only rows of its own kind.
LEMMA IdleStep ==
    ASSUME TypeOK, DecideSafe, NEW r \in Request, request' = [request EXCEPT ![r] = Idle],
           \A d \in Decision : decision'[d] = decision[d] \/ decision'[d] # Unasked
    PROVE  request' \in [Request -> Requests] /\ DecideSafe'
<1>1. request' \in [Request -> Requests]
    BY DEF TypeOK, Requests
<1>2. ASSUME NEW s \in Request, request'[s].op = "decide"
      PROVE  decision'[request'[s].decision] # Unasked
    <2>1. request'[s] = request[s]
        BY <1>2 DEF TypeOK, Idle
    <2>2. request[s] \in DecideRequest
        BY <1>2, <2>1, RequestKind DEF TypeOK, Requests
    <2> QED
        BY <1>2, <2>1, <2>2 DEF DecideSafe, DecideRequest
<1> QED
    BY <1>1, <1>2 DEF DecideSafe

\* The commits.
LEMMA CommitLifecycleStep ==
    ASSUME IInv, NEW r \in Request, CommitLifecycle(r) PROVE IInv'
<1> DEFINE c == request[r].case
           to == request[r].to
<1>1. request[r] \in LifecycleRequest
    BY RequestKind DEF IInv, TypeOK, Requests, CommitLifecycle
<1>2. c \in Case /\ to \in CaseStatus /\ request[r].from \in CaseStatus /\ c \notin Decision
    BY <1>1, ReviewAssumption DEF LifecycleRequest
<1>3. /\ case' = [case EXCEPT ![c] = [status |-> to, stamps |-> @.stamps \cup {to}]]
      /\ history' = [history EXCEPT ![c] = Recorded(@, "LIFECYCLE", request[r].from, to)]
      /\ request' = [request EXCEPT ![r] = Idle]
      /\ decision' = decision
    BY DEF CommitLifecycle
<1> HIDE DEF c, to
<1>4. /\ Recorded(history[c], "LIFECYCLE", request[r].from, to) \in Seq(Action)
      /\ Reached(Recorded(history[c], "LIFECYCLE", request[r].from, to)) = Reached(history[c]) \cup {to}
    <2>1. history[c] \in Seq(Action)
        BY <1>2 DEF IInv, TypeOK
    <2>2. [type |-> "LIFECYCLE", from |-> request[r].from, to |-> to] \in Action /\ "LIFECYCLE" \notin Remark
        BY <1>2 DEF Action, Remark, DecisionStatus
    <2> QED
        BY <2>1, <2>2, ReachedRecorded
<1>5. case[c].stamps \subseteq CaseStatus
    BY <1>2 DEF IInv, TypeOK, Unopened, CaseRow
<1>6. request' \in [Request -> Requests] /\ DecideSafe'
    BY <1>3, IdleStep DEF IInv
<1>7. case' \in [Case -> {Unopened} \cup CaseRow]
    BY <1>2, <1>3, <1>5 DEF IInv, TypeOK, CaseRow
<1>8. TypeOK'
    BY <1>3, <1>4, <1>6, <1>7 DEF IInv, TypeOK, Requests
<1>9. HistoryAccounts'
    BY <1>2, <1>3, <1>4 DEF IInv, TypeOK, HistoryAccounts
<1> QED
    BY <1>6, <1>8, <1>9 DEF IInv

LEMMA CommitRemarkStep ==
    ASSUME IInv, NEW r \in Request, CommitRemark(r) PROVE IInv'
<1> DEFINE c == request[r].case
           row == Recorded(history[c], request[r].type, request[r].from, request[r].from)
<1>1. request[r] \in RemarkRequest
    BY RequestKind DEF IInv, TypeOK, Requests, CommitRemark
<1>2. c \in Case /\ request[r].type \in Remark /\ request[r].from \in CaseStatus
    BY <1>1 DEF RemarkRequest
<1>3. /\ history' = [history EXCEPT ![c] = row]
      /\ request' = [request EXCEPT ![r] = Idle]
      /\ case' = case /\ decision' = decision
    BY DEF CommitRemark
<1>4. row \in Seq(Action) /\ Reached(row) = Reached(history[c])
    <2>1. history[c] \in Seq(Action)
        BY <1>2 DEF IInv, TypeOK
    <2>2. [type |-> request[r].type, from |-> request[r].from, to |-> request[r].from] \in Action /\ request[r].type \in Remark
        BY <1>2 DEF Action, Remark, DecisionStatus
    <2> QED
        BY <2>1, <2>2, ReachedRecorded
<1> HIDE DEF c, row
<1>5. request' \in [Request -> Requests] /\ DecideSafe'
    BY <1>3, IdleStep DEF IInv
<1>6. TypeOK'
    BY <1>3, <1>4, <1>5 DEF IInv, TypeOK, Requests
<1>7. HistoryAccounts'
    BY <1>2, <1>3, <1>4 DEF IInv, TypeOK, HistoryAccounts
<1> QED
    BY <1>5, <1>6, <1>7 DEF IInv

LEMMA CommitAskStep ==
    ASSUME IInv, NEW r \in Request, CommitAsk(r) PROVE IInv'
<1>1. request[r] \in AskRequest
    BY RequestKind DEF IInv, TypeOK, Requests, CommitAsk
<1>2. PICK d \in Decision :
          /\ decision[d] = Unasked
          /\ decision' = [decision EXCEPT ![d] =
                [status |-> "PENDING", case |-> request[r].case, type |-> request[r].type,
                 policy |-> "NULL"]]
          /\ history' = [history EXCEPT ![d] = Recorded(@, "REQUEST", "PENDING", "PENDING")]
    BY DEF CommitAsk
<1>3. d \notin Case
    BY ReviewAssumption
<1>4. /\ Recorded(history[d], "REQUEST", "PENDING", "PENDING") \in Seq(Action)
      /\ Reached(Recorded(history[d], "REQUEST", "PENDING", "PENDING"))
             = Reached(history[d]) \cup {"PENDING"}
    <2>1. history[d] \in Seq(Action)
        BY <1>2 DEF IInv, TypeOK
    <2>2. [type |-> "REQUEST", from |-> "PENDING", to |-> "PENDING"] \in Action /\ "REQUEST" \notin Remark
        BY <1>2 DEF Action, Remark, DecisionStatus
    <2> QED
        BY <2>1, <2>2, ReachedRecorded
<1>5. request' = [request EXCEPT ![r] = Idle] /\ case' = case
    BY DEF CommitAsk
<1>6. [status |-> "PENDING", case |-> request[r].case, type |-> request[r].type,
       policy |-> "NULL"] \in DecisionRow
    BY <1>1 DEF AskRequest, DecisionRow, DecisionStatus
<1>7. decision' \in [Decision -> {Unasked} \cup DecisionRow]
    BY <1>2, <1>6 DEF IInv, TypeOK
<1>8. \A e \in Decision : decision'[e] = decision[e] \/ decision'[e] # Unasked
    BY <1>2 DEF IInv, TypeOK, Unasked
<1>9. request' \in [Request -> Requests] /\ DecideSafe'
    BY <1>5, <1>8, IdleStep DEF IInv
<1>10. TypeOK'
    BY <1>2, <1>4, <1>5, <1>7, <1>9 DEF IInv, TypeOK, Requests
<1>11. HistoryAccounts'
    BY <1>2, <1>3, <1>4, <1>5 DEF IInv, TypeOK, HistoryAccounts
<1> QED
    BY <1>9, <1>10, <1>11 DEF IInv

LEMMA CommitDecideStep ==
    ASSUME IInv, NEW r \in Request, CommitDecide(r) PROVE IInv'
<1> DEFINE d == request[r].decision
           to == request[r].to
<1>1. request[r] \in DecideRequest
    BY RequestKind DEF IInv, TypeOK, Requests, CommitDecide
<1>2. d \in Decision /\ to \in DecisionStatus /\ d \notin Case
    BY <1>1, ReviewAssumption DEF DecideRequest
<1>3. /\ decision' = [decision EXCEPT ![d] = DecidedRow(d, to)]
      /\ history' = [history EXCEPT ![d] = Recorded(@, "DECIDE", "PENDING", to)]
      /\ request' = [request EXCEPT ![r] = Idle] /\ case' = case
    BY DEF CommitDecide
<1>4. decision[d] \in DecisionRow
    BY <1>2 DEF IInv, TypeOK, DecideSafe, CommitDecide
<1> HIDE DEF d, to
<1>5. DecidedRow(d, to) \in DecisionRow /\ DecidedRow(d, to).status = to
    BY <1>2, <1>4 DEF DecidedRow, DecisionRow
<1>6. /\ Recorded(history[d], "DECIDE", "PENDING", to) \in Seq(Action)
      /\ Reached(Recorded(history[d], "DECIDE", "PENDING", to)) = Reached(history[d]) \cup {to}
    <2>1. history[d] \in Seq(Action)
        BY <1>2 DEF IInv, TypeOK
    <2>2. [type |-> "DECIDE", from |-> "PENDING", to |-> to] \in Action /\ "DECIDE" \notin Remark
        BY <1>2 DEF Action, Remark, DecisionStatus
    <2> QED
        BY <2>1, <2>2, ReachedRecorded
<1>7. decision' \in [Decision -> {Unasked} \cup DecisionRow]
    BY <1>3, <1>5 DEF IInv, TypeOK
<1>8. \A e \in Decision : decision'[e] = decision[e] \/ decision'[e] # Unasked
    BY <1>3, <1>5 DEF IInv, TypeOK, Unasked, DecisionRow, DecisionStatus
<1>9. request' \in [Request -> Requests] /\ DecideSafe'
    BY <1>3, <1>8, IdleStep DEF IInv
<1>10. TypeOK'
    BY <1>3, <1>6, <1>7, <1>9 DEF IInv, TypeOK, Requests
<1>11. HistoryAccounts'
    BY <1>2, <1>3, <1>5, <1>6 DEF IInv, TypeOK, HistoryAccounts
<1> QED
    BY <1>9, <1>10, <1>11 DEF IInv

\* A new case has no audit rows: it has no status but NONE before.
LEMMA OpenCaseStep ==
    ASSUME IInv, NEW c \in Case, OpenCase(c) PROVE IInv'
<1>1. case' \in [Case -> {Unopened} \cup CaseRow]
    BY DEF IInv, TypeOK, OpenCase, CaseRow, CaseStatus
<1>2. TypeOK'
    BY <1>1 DEF IInv, TypeOK, OpenCase
<1>3. Reached(history[c]) = {}
    BY DEF IInv, HistoryAccounts, OpenCase, Unopened
<1>4. HistoryAccounts'
    BY <1>3 DEF IInv, TypeOK, HistoryAccounts, OpenCase
<1>5. DecideSafe'
    BY DEF IInv, DecideSafe, OpenCase
<1> QED
    BY <1>2, <1>4, <1>5 DEF IInv

----------------------------------------------------------------------------
LEMMA NextIInv == IInv /\ [Next]_vars => IInv'
<1> SUFFICES ASSUME IInv, [Next]_vars PROVE IInv'
    OBVIOUS
<1>1. ASSUME NEW c \in Case, OpenCase(c) PROVE IInv'
    BY <1>1, OpenCaseStep
<1>2. ASSUME NEW r \in Request, NEW c \in Case, NEW to \in CaseStatus, BeginLifecycle(r, c, to)
      PROVE  IInv'
    <2> DEFINE next == [op |-> "lifecycle", case |-> c, from |-> case[c].status, to |-> to]
    <2>1. case[c].status \in CaseStatus
        BY <1>2 DEF BeginLifecycle, Allowed, CaseStatus, IInv, TypeOK, Unopened, CaseRow
    <2>2. next \in Requests /\ next.op # "decide"
        BY <2>1 DEF Requests, LifecycleRequest
    <2> QED
        BY <1>2, <2>2, BeginStep DEF BeginLifecycle
<1>3. ASSUME NEW r \in Request, NEW c \in Case, NEW type \in Remark, BeginRemark(r, c, type)
      PROVE  IInv'
    <2> DEFINE next == [op |-> "remark", case |-> c, from |-> case[c].status, type |-> type]
    <2>1. case[c].status \in CaseStatus
        BY <1>3 DEF BeginRemark, IInv, TypeOK, CaseRow
    <2>2. next \in Requests /\ next.op # "decide"
        BY <2>1 DEF Requests, RemarkRequest
    <2> QED
        BY <1>3, <2>2, BeginStep DEF BeginRemark
<1>4. ASSUME NEW r \in Request, NEW c \in Case, NEW t \in DecisionType, BeginAsk(r, c, t)
      PROVE  IInv'
    <2> DEFINE next == [op |-> "ask", case |-> c, type |-> t]
    <2>1. next \in Requests /\ next.op # "decide"
        BY DEF Requests, AskRequest
    <2> QED
        BY <1>4, <2>1, BeginStep DEF BeginAsk
<1>5. ASSUME NEW r \in Request, NEW d \in Decision, NEW to \in DecisionStatus, BeginDecide(r, d, to)
      PROVE  IInv'
    <2> DEFINE next == [op |-> "decide", decision |-> d, to |-> to]
    <2>1. next \in Requests /\ next.decision = d
        BY DEF Requests, DecideRequest
    <2>2. decision[d] # Unasked
        BY <1>5 DEF BeginDecide, Decidable, Unasked
    <2> QED
        BY <1>5, <2>1, <2>2, BeginStep DEF BeginDecide
<1>6. ASSUME NEW r \in Request, Abort(r) PROVE IInv'
    <2>1. request' \in [Request -> Requests]
        BY <1>6 DEF Abort, IInv, TypeOK, Requests
    <2>2. \A s \in Request : request'[s] = request[s] \/ request'[s] = Idle
        BY <1>6 DEF Abort, IInv, TypeOK
    <2> QED
        BY <1>6, <2>1, <2>2, UnwrittenStep DEF Abort, Idle
<1>7. CASE UNCHANGED vars
    BY <1>7 DEF vars, IInv, TypeOK, DecideSafe, HistoryAccounts
<1>8. /\ {"ACKNOWLEDGED", "RESOLVED", "WAIVED"} \subseteq CaseStatus
      /\ {"APPROVED", "REJECTED", "CANCELLED"} \subseteq DecisionStatus
    BY DEF CaseStatus, DecisionStatus
<1> QED
    BY <1>1, <1>2, <1>3, <1>4, <1>5, <1>6, <1>7, <1>8, CommitLifecycleStep,
       CommitRemarkStep, CommitAskStep, CommitDecideStep
    DEF Next, Acknowledge, Resolve, Waive, Approve, Reject, Cancel

\* Every row keeps its type, whoever writes it last.
THEOREM TypeCorrect == Spec => []TypeOK
<1>1. IInv => TypeOK
    BY DEF IInv
<1> QED
    BY <1>1, InitIInv, NextIInv, PTL DEF Spec

\* However many transitions, decisions and remarks overlap on one row, its
\* audit rows account for its status and its lifecycle times
\* (exception_engine._create_action, decision_engine's actions).
THEOREM AuditAccounts == Spec => []HistoryAccounts
<1>1. IInv => HistoryAccounts
    BY DEF IInv
<1> QED
    BY <1>1, InitIInv, NextIInv, PTL DEF Spec

----------------------------------------------------------------------------
(* As long as no two requests overlap on one row.                          *)

\* What a request has read is what its row still is.
FreshReads ==
    \A r \in Request :
        /\ request[r].op = "lifecycle" =>
              /\ case[request[r].case].status = request[r].from
              /\ request[r].to \in Allowed(request[r].from)
        /\ request[r].op = "remark" => case[request[r].case].status = request[r].from
        /\ request[r].op = "decide" =>
              /\ decision[request[r].decision].status = "PENDING"
              /\ request[r].to \in {"APPROVED", "REJECTED", "CANCELLED"}

RaceFree == FreshReads /\ HistoryIsPath

\* A row added where the story ends goes on with it.
LEMMA ConnectedRecorded ==
    ASSUME NEW rows \in Seq(Action), NEW type, NEW from, NEW to, NEW first,
           [type |-> type, from |-> from, to |-> to] \in Action,
           Connected(rows, first, from), rows = <<>> => from = first
    PROVE  Connected(Recorded(rows, type, from, to), first, to)
<1> DEFINE a == [type |-> type, from |-> from, to |-> to]
           new == Append(rows, a)
<1>1. /\ Len(rows) \in Nat /\ Len(new) = Len(rows) + 1
      /\ new # <<>>
      /\ new[Len(rows) + 1] = a
      /\ \A i \in 1..Len(rows) : new[i] = rows[i]
      /\ rows # <<>> => Len(rows) > 0
    OBVIOUS
<1>2. a.from = from /\ a.to = to
    OBVIOUS
<1> HIDE DEF new, a
<1>3. new[1].from = first
    BY <1>1, <1>2 DEF Connected
<1>4. ASSUME NEW i \in 1..(Len(new) - 1) PROVE new[i].to = new[i + 1].from
    <2>1. CASE i = Len(rows)
        BY <1>1, <1>2, <2>1 DEF Connected
    <2>2. CASE i # Len(rows)
        BY <1>1, <2>2 DEF Connected
    <2> QED
        BY <2>1, <2>2
<1>5. Connected(new, first, to)
    BY <1>1, <1>2, <1>3, <1>4 DEF Connected
<1> QED
    BY <1>5 DEF Recorded, new, a

\* A row whose status moved was one that existed.
LEMMA NoRowsYet ==
    ASSUME IInv, HistoryIsPath
    PROVE  /\ \A c \in Case : case[c] = Unopened => history[c] = <<>>
           /\ \A c \in Case : history[c] = <<>> => case[c].status \in {"NONE", "OPEN"}
           /\ \A d \in Decision : decision[d] = Unasked <=> history[d] = <<>>
<1>1. Reached(<<>>) = {}
    BY DEF Reached
<1>2. ASSUME NEW x \in Case \cup Decision, history[x] # <<>>
      PROVE  history[x][Len(history[x])].to # "NONE"
    <2>1. history[x] \in Seq(Action)
        BY DEF IInv, TypeOK
    <2>2. history[x][Len(history[x])] \in Action
        BY <1>2, <2>1
    <2> QED
        BY <2>2 DEF Action, CaseStatus, DecisionStatus
<1>3. ASSUME NEW d \in Decision PROVE decision[d] = Unasked <=> decision[d].status = "NONE"
    <2>1. decision[d] \in {Unasked} \cup DecisionRow
        BY DEF IInv, TypeOK
    <2>2. Unasked.status = "NONE"
        BY DEF Unasked
    <2>3. decision[d] \in DecisionRow => decision[d].status # "NONE"
        BY DEF DecisionRow, DecisionStatus
    <2> QED
        BY <2>1, <2>2, <2>3
<1> QED
    BY <1>1, <1>2, <1>3 DEF IInv, HistoryAccounts, HistoryIsPath, Connected, Unopened, Unasked

LEMMA InitRaceFree == Init => RaceFree
<1> SUFFICES ASSUME Init PROVE RaceFree
    OBVIOUS
<1>1. FreshReads
    BY DEF Init, FreshReads, Idle
<1>2. HistoryIsPath
    BY DEF Init, HistoryIsPath, Connected
<1> QED
    BY <1>1, <1>2 DEF RaceFree

\* What one request has read.
FreshRead(q) ==
    /\ q.op = "lifecycle" =>
          /\ case[q.case].status = q.from
          /\ q.to \in Allowed(q.from)
    /\ q.op = "remark" => case[q.case].status = q.from
    /\ q.op = "decide" =>
          /\ decision[q.decision].status = "PENDING"
          /\ q.to \in {"APPROVED", "REJECTED", "CANCELLED"}

LEMMA EachFresh == FreshReads <=> \A r \in Request : FreshRead(request[r])
    BY DEF FreshReads, FreshRead

\* A step that writes no row.
LEMMA UnwrittenRaceFree ==
    ASSUME RaceFree, UNCHANGED <<case, decision, history>>,
           \A r \in Request : request'[r] = request[r] \/ FreshRead(request'[r])
    PROVE  RaceFree'
<1>1. \A r \in Request : FreshRead(request'[r])
    BY EachFresh DEF RaceFree
<1>2. FreshReads'
    BY <1>1 DEF FreshReads, FreshRead
<1> QED
    BY <1>2 DEF RaceFree, HistoryIsPath

LEMMA BeginRaceFree ==
    ASSUME IInv, RaceFree, NEW r \in Request, NEW next, Begin(r, next), FreshRead(next)
    PROVE  RaceFree'
<1>1. \A s \in Request : request'[s] = request[s] \/ request'[s] = next
    BY DEF IInv, TypeOK, Begin
<1> QED
    BY <1>1, UnwrittenRaceFree DEF Begin

\* A case that opens: nothing in flight had read it.
LEMMA OpenCaseRaceFree ==
    ASSUME IInv, RaceFree, NEW c \in Case, OpenCase(c) PROVE RaceFree'
<1>1. history[c] = <<>>
    BY NoRowsYet DEF RaceFree, OpenCase
<1>2. HistoryIsPath'
    BY <1>1 DEF IInv, TypeOK, RaceFree, HistoryIsPath, OpenCase, Connected
<1>3. ASSUME NEW s \in Request, request[s].op \in {"lifecycle", "remark"}
      PROVE  request[s].case # c
    <2>1. request[s].from \in CaseStatus
        BY <1>3, RequestKind DEF IInv, TypeOK, Requests, LifecycleRequest, RemarkRequest
    <2>2. case[request[s].case].status = request[s].from
        BY <1>3 DEF RaceFree, FreshReads
    <2> QED
        BY <2>1, <2>2 DEF OpenCase, Unopened, CaseStatus
<1>4. FreshReads'
    BY <1>3 DEF IInv, TypeOK, RaceFree, FreshReads, OpenCase
<1> QED
    BY <1>2, <1>4 DEF RaceFree

\* The commits: no other request in flight has read what they write.
LEMMA CommitLifecycleRaceFree ==
    ASSUME IInv, RowsApart, RaceFree, NEW r \in Request, CommitLifecycle(r) PROVE RaceFree'
<1> DEFINE c == request[r].case
           to == request[r].to
           from == request[r].from
<1>1. request[r] \in LifecycleRequest
    BY RequestKind DEF IInv, TypeOK, Requests, CommitLifecycle
<1>2. c \in Case /\ to \in CaseStatus /\ from \in CaseStatus /\ c \notin Decision
    BY <1>1, ReviewAssumption DEF LifecycleRequest
<1>3. /\ case' = [case EXCEPT ![c] = [status |-> to, stamps |-> @.stamps \cup {to}]]
      /\ history' = [history EXCEPT ![c] = Recorded(@, "LIFECYCLE", from, to)]
      /\ request' = [request EXCEPT ![r] = Idle]
      /\ decision' = decision /\ request[r].op = "lifecycle"
    BY DEF CommitLifecycle
<1>4. ASSUME NEW s \in Request, s # r, request[s].op \in {"lifecycle", "remark"}
      PROVE  request[s].case # c
    BY <1>3, <1>4 DEF RowsApart, OneRow
<1>5. case[c].status = from
    BY <1>3 DEF RaceFree, FreshReads
<1> HIDE DEF c, to, from
<1>6. Connected(Recorded(history[c], "LIFECYCLE", from, to), "OPEN", to)
    <2>1. history[c] \in Seq(Action)
        BY <1>2 DEF IInv, TypeOK
    <2>2. [type |-> "LIFECYCLE", from |-> from, to |-> to] \in Action
        BY <1>2 DEF Action
    <2>3. history[c] = <<>> => from = "OPEN"
        BY <1>2, <1>5, NoRowsYet DEF RaceFree, CaseStatus
    <2>4. Connected(history[c], "OPEN", from)
        BY <1>2, <1>5 DEF RaceFree, HistoryIsPath
    <2> QED
        BY <2>1, <2>2, <2>3, <2>4, ConnectedRecorded
<1>7. HistoryIsPath'
    BY <1>2, <1>3, <1>6 DEF IInv, TypeOK, RaceFree, HistoryIsPath
<1>8. FreshReads'
    BY <1>2, <1>3, <1>4 DEF IInv, TypeOK, RaceFree, FreshReads, Idle
<1> QED
    BY <1>7, <1>8 DEF RaceFree

LEMMA CommitRemarkRaceFree ==
    ASSUME IInv, RowsApart, RaceFree, NEW r \in Request, CommitRemark(r) PROVE RaceFree'
<1> DEFINE c == request[r].case
           from == request[r].from
           type == request[r].type
<1>1. request[r] \in RemarkRequest
    BY RequestKind DEF IInv, TypeOK, Requests, CommitRemark
<1>2. c \in Case /\ type \in Remark /\ from \in CaseStatus /\ c \notin Decision
    BY <1>1, ReviewAssumption DEF RemarkRequest
<1>3. /\ history' = [history EXCEPT ![c] = Recorded(@, type, from, from)]
      /\ request' = [request EXCEPT ![r] = Idle]
      /\ case' = case /\ decision' = decision /\ request[r].op = "remark"
    BY DEF CommitRemark
<1>4. case[c].status = from
    BY <1>3 DEF RaceFree, FreshReads
<1> HIDE DEF c, from, type
<1>5. Connected(Recorded(history[c], type, from, from), "OPEN", from)
    <2>1. history[c] \in Seq(Action)
        BY <1>2 DEF IInv, TypeOK
    <2>2. [type |-> type, from |-> from, to |-> from] \in Action
        BY <1>2 DEF Action
    <2>3. history[c] = <<>> => from = "OPEN"
        BY <1>2, <1>4, NoRowsYet DEF RaceFree, CaseStatus
    <2>4. Connected(history[c], "OPEN", from)
        BY <1>2, <1>4 DEF RaceFree, HistoryIsPath
    <2> QED
        BY <2>1, <2>2, <2>3, <2>4, ConnectedRecorded
<1>6. HistoryIsPath'
    BY <1>2, <1>3, <1>4, <1>5 DEF IInv, TypeOK, RaceFree, HistoryIsPath
<1>7. FreshReads'
    BY <1>3 DEF IInv, TypeOK, RaceFree, FreshReads, Idle
<1> QED
    BY <1>6, <1>7 DEF RaceFree

LEMMA CommitAskRaceFree ==
    ASSUME IInv, RowsApart, RaceFree, NEW r \in Request, CommitAsk(r) PROVE RaceFree'
<1> DEFINE c == request[r].case
           t == request[r].type
<1>1. request[r] \in AskRequest
    BY RequestKind DEF IInv, TypeOK, Requests, CommitAsk
<1>2. PICK d \in Decision :
          /\ decision[d] = Unasked
          /\ decision' = [decision EXCEPT ![d] =
                [status |-> "PENDING", case |-> c, type |-> t, policy |-> "NULL"]]
          /\ history' = [history EXCEPT ![d] = Recorded(@, "REQUEST", "PENDING", "PENDING")]
    BY DEF CommitAsk
<1>3. d \notin Case
    BY ReviewAssumption
<1>4. request' = [request EXCEPT ![r] = Idle] /\ case' = case /\ request[r].op = "ask"
    BY DEF CommitAsk
<1> HIDE DEF c, t
<1>7. /\ decision'[d].status = "PENDING" /\ decision'[d].case = c /\ decision'[d].type = t
      /\ \A e \in Decision : e # d => decision'[e] = decision[e]
    BY <1>2 DEF IInv, TypeOK
<1>8. HistoryIsPath'
    <2>1. history[d] = <<>> /\ history[d] \in Seq(Action)
        BY <1>2, NoRowsYet DEF RaceFree, IInv, TypeOK
    <2>2. [type |-> "REQUEST", from |-> "PENDING", to |-> "PENDING"] \in Action
        BY DEF Action, DecisionStatus
    <2>3. Connected(history[d], "PENDING", "PENDING")
        BY <2>1 DEF Connected
    <2>4. Connected(Recorded(history[d], "REQUEST", "PENDING", "PENDING"), "PENDING", "PENDING")
        BY <2>1, <2>2, <2>3, ConnectedRecorded
    <2> QED
        BY <1>2, <1>3, <1>4, <1>7, <2>4 DEF IInv, TypeOK, RaceFree, HistoryIsPath
<1>9. FreshReads'
    <2>1. \A s \in Request : request'[s] = Idle \/ (s # r /\ request'[s] = request[s])
        BY <1>4 DEF IInv, TypeOK
    <2>2. ASSUME NEW s \in Request, request[s].op = "decide"
          PROVE  request[s].decision # d
        BY <1>2, <2>2 DEF RaceFree, FreshReads, Unasked
    <2>3. ASSUME NEW s \in Request, request[s].op = "decide"
          PROVE  request[s].decision \in Decision
        BY <2>3, RequestKind DEF IInv, TypeOK, Requests, DecideRequest
    <2> QED
        BY <1>4, <1>7, <2>1, <2>2, <2>3 DEF RaceFree, FreshReads, Idle
<1> QED
    BY <1>8, <1>9 DEF RaceFree

LEMMA CommitDecideRaceFree ==
    ASSUME IInv, RowsApart, RaceFree, NEW r \in Request, CommitDecide(r) PROVE RaceFree'
<1> DEFINE d == request[r].decision
           to == request[r].to
<1>1. request[r] \in DecideRequest /\ request[r].op = "decide"
    BY RequestKind DEF IInv, TypeOK, Requests, CommitDecide
<1>2. d \in Decision /\ to \in DecisionStatus /\ d \notin Case
    BY <1>1, ReviewAssumption DEF DecideRequest
<1>3. /\ decision' = [decision EXCEPT ![d] = DecidedRow(d, to)]
      /\ history' = [history EXCEPT ![d] = Recorded(@, "DECIDE", "PENDING", to)]
      /\ request' = [request EXCEPT ![r] = Idle] /\ case' = case
    BY DEF CommitDecide
<1>4. decision[d].status = "PENDING" /\ to # "PENDING"
    BY <1>1 DEF RaceFree, FreshReads
<1>5. ASSUME NEW s \in Request, s # r, request[s].op = "decide" PROVE request[s].decision # d
    BY <1>1, <1>5 DEF RowsApart, OneRow
<1> HIDE DEF d, to
<1>6. decision[d] \in DecisionRow
    BY <1>2, <1>4 DEF IInv, TypeOK, Unasked
<1>7. /\ decision'[d].status = to
      /\ \A e \in Decision : e # d => decision'[e] = decision[e]
    <2>1. DecidedRow(d, to).status = to
        BY <1>6 DEF DecidedRow, DecisionRow
    <2> QED
        BY <1>2, <1>3, <2>1 DEF IInv, TypeOK
<1>8. HistoryIsPath'
    <2>1. history[d] \in Seq(Action) /\ history[d] # <<>>
        BY <1>2, <1>4, NoRowsYet DEF IInv, TypeOK, RaceFree, Unasked
    <2>2. [type |-> "DECIDE", from |-> "PENDING", to |-> to] \in Action
        BY <1>2 DEF Action, DecisionStatus
    <2>3. Connected(history[d], "PENDING", "PENDING")
        BY <1>2, <1>4 DEF RaceFree, HistoryIsPath
    <2>4. Connected(Recorded(history[d], "DECIDE", "PENDING", to), "PENDING", to)
        BY <2>1, <2>2, <2>3, ConnectedRecorded
    <2> QED
        BY <1>2, <1>3, <1>7, <2>4 DEF IInv, TypeOK, RaceFree, HistoryIsPath
<1>9. FreshReads'
    <2>1. \A s \in Request : request'[s] = Idle \/ (s # r /\ request'[s] = request[s])
        BY <1>3 DEF IInv, TypeOK
    <2>2. ASSUME NEW s \in Request, request[s].op = "decide"
          PROVE  request[s].decision \in Decision
        BY <2>2, RequestKind DEF IInv, TypeOK, Requests, DecideRequest
    <2>3. ASSUME NEW s \in Request, s # r, request[s].op = "decide"
          PROVE  decision'[request[s].decision].status = "PENDING"
        BY <1>5, <1>7, <2>2, <2>3 DEF RaceFree, FreshReads
    <2>4. ASSUME NEW s \in Request, request'[s].op = "decide"
          PROVE  /\ decision'[request'[s].decision].status = "PENDING"
                 /\ request'[s].to \in {"APPROVED", "REJECTED", "CANCELLED"}
        <3>1. s # r /\ request'[s] = request[s]
            BY <2>1, <2>4 DEF Idle
        <3> QED
            BY <2>3, <2>4, <3>1 DEF RaceFree, FreshReads
    <2>5. ASSUME NEW s \in Request, request'[s].op \in {"lifecycle", "remark"}
          PROVE  request'[s] = request[s]
        BY <2>1, <2>5 DEF Idle
    <2> QED
        BY <1>3, <2>4, <2>5 DEF RaceFree, FreshReads
<1> QED
    BY <1>8, <1>9 DEF RaceFree

LEMMA NextRaceFree == IInv /\ RowsApart /\ RaceFree /\ [Next]_vars => RaceFree'
<1> SUFFICES ASSUME IInv, RowsApart, RaceFree, [Next]_vars PROVE RaceFree'
    OBVIOUS
<1>1. ASSUME NEW c \in Case, OpenCase(c) PROVE RaceFree'
    BY <1>1, OpenCaseRaceFree
<1>2. ASSUME NEW r \in Request, NEW c \in Case, NEW to \in CaseStatus, BeginLifecycle(r, c, to)
      PROVE  RaceFree'
    <2> DEFINE next == [op |-> "lifecycle", case |-> c, from |-> case[c].status, to |-> to]
    <2>1. FreshRead(next)
        BY <1>2 DEF BeginLifecycle, FreshRead
    <2> QED
        BY <1>2, <2>1, BeginRaceFree DEF BeginLifecycle
<1>3. ASSUME NEW r \in Request, NEW c \in Case, NEW type \in Remark, BeginRemark(r, c, type)
      PROVE  RaceFree'
    <2> DEFINE next == [op |-> "remark", case |-> c, from |-> case[c].status, type |-> type]
    <2>1. FreshRead(next)
        BY DEF FreshRead
    <2> QED
        BY <1>3, <2>1, BeginRaceFree DEF BeginRemark
<1>4. ASSUME NEW r \in Request, NEW c \in Case, NEW t \in DecisionType, BeginAsk(r, c, t)
      PROVE  RaceFree'
    <2> DEFINE next == [op |-> "ask", case |-> c, type |-> t]
    <2>1. FreshRead(next)
        BY <1>4 DEF BeginAsk, FreshRead
    <2> QED
        BY <1>4, <2>1, BeginRaceFree DEF BeginAsk
<1>5. ASSUME NEW r \in Request, NEW d \in Decision,
             NEW to \in {"APPROVED", "REJECTED", "CANCELLED"}, BeginDecide(r, d, to)
      PROVE  RaceFree'
    <2> DEFINE next == [op |-> "decide", decision |-> d, to |-> to]
    <2>1. FreshRead(next)
        BY <1>5 DEF BeginDecide, Decidable, FreshRead
    <2> QED
        BY <1>5, <2>1, BeginRaceFree DEF BeginDecide
<1>6. ASSUME NEW r \in Request, Abort(r) PROVE RaceFree'
    <2>1. \A s \in Request : request'[s] = request[s] \/ request'[s] = Idle
        BY <1>6 DEF Abort, IInv, TypeOK
    <2>2. FreshRead(Idle)
        BY DEF FreshRead, Idle
    <2> QED
        BY <1>6, <2>1, <2>2, UnwrittenRaceFree DEF Abort
<1>7. CASE UNCHANGED vars
    BY <1>7, UnwrittenRaceFree DEF vars
<1>8. {"ACKNOWLEDGED", "RESOLVED", "WAIVED"} \subseteq CaseStatus
    BY DEF CaseStatus
<1> QED
    BY <1>1, <1>2, <1>3, <1>4, <1>5, <1>6, <1>7, <1>8, CommitLifecycleRaceFree,
       CommitRemarkRaceFree, CommitAskRaceFree, CommitDecideRaceFree
    DEF Next, Acknowledge, Resolve, Waive, Approve, Reject, Cancel

LEMMA AlwaysRaceFree == Spec /\ []RowsApart => [](IInv /\ RaceFree)
    BY InitIInv, NextIInv, InitRaceFree, NextRaceFree, PTL DEF Spec

\* As long as no two requests write one row at once, the audit rows of every
\* case and decision tell one story: each starts where the one before ended.
THEOREM AuditTellsOneStory == Spec /\ []RowsApart => []HistoryIsPath
<1>1. RaceFree => HistoryIsPath
    BY DEF RaceFree
<1> QED
    BY <1>1, AlwaysRaceFree, PTL

----------------------------------------------------------------------------
(* What the desk shows, however requests overlap.                          *)

\* What the workbench offers the engines accept, what the dashboard asks for
\* can be done, and no view knows of a pending decision that the others do not.
THEOREM OffersAreHonoured == Spec => []OffersAgree
<1>1. IInv => OffersAgree
    <2> SUFFICES ASSUME IInv PROVE OffersAgree
        OBVIOUS
    <2>1. ASSUME NEW c \in Case PROVE case[c].status \in {"NONE"} \cup CaseStatus
        BY DEF IInv, TypeOK, Unopened, CaseRow
    <2>2. ASSUME NEW c \in Case, NEW a \in DOMAIN Target
          PROVE  a \in Offered(case[c].status) <=> Target[a] \in Allowed(case[c].status)
        BY <2>1 DEF Target, Offered, Allowed, CaseStatus
    <2>3. ASSUME NEW c \in Case, "REQUEST_DECISION" \in Offered(case[c].status)
          PROVE  case[c] # Unopened
        BY <2>3 DEF Offered, Unopened
    <2>4. ASSUME NEW d \in Decision
          PROVE  /\ DecisionOffers(d) # {} => Decidable(d)
                 /\ d \in Pending => "CANCEL" \in DecisionOffers(d)
        BY DEF DecisionOffers, Decidable, Pending
    <2>5. ASSUME NEW list \in ActionRequired, NEW item \in list
          PROVE  \/ item[2] \in Case /\ Offered(case[item[2]].status) # {}
                 \/ item[2] \in Decision /\ "CANCEL" \in DecisionOffers(item[2])
        <3>1. CASE \E c \in Queue : item[2] = c
            BY <3>1 DEF Queue, Offered
        <3>2. CASE \E d \in Pending : item[2] = d
            BY <2>4, <3>2 DEF Pending
        <3> QED
            BY <3>1, <3>2 DEF ActionRequired
    <2>6. \A d \in Pending : d \in Decision /\ decision[d].case \in Case
        BY DEF Pending, IInv, TypeOK, Unasked, DecisionRow
    <2>7. ASSUME NEW w \in Worker
          PROVE  /\ BoardStatus(w) = "PENDING" <=>
                        \E c \in Case : \E d \in Pending :
                            HasPending(c) /\ decision[d].case = c /\ w \in {PlannedOf[d], ActualOf[d]}
                 /\ DashboardStatus(w) = "PENDING" => BoardStatus(w) = "PENDING"
                 /\ DashboardStatus(w) = "APPROVED" => BoardStatus(w) # "none"
        BY <2>6 DEF BoardStatus, DashboardStatus, Badge, HasPending
    <2> QED
        BY <2>2, <2>3, <2>4, <2>5, <2>7 DEF OffersAgree
<1> QED
    BY <1>1, InitIInv, NextIInv, PTL DEF Spec

\* A status that a remark repeats was reached before, by the transition whose
\* time is the case's.
TransitionBefore(rows, i, status) ==
    \E j \in 1..Len(rows) : j < i /\ rows[j].type = "LIFECYCLE" /\ rows[j].to = status
Attested(rows) ==
    \A i \in 1..Len(rows) :
        \/ rows[i].type = "LIFECYCLE"
        \/ rows[i].type \in Remark /\ rows[i].to = "OPEN"
        \/ rows[i].type \in Remark /\ TransitionBefore(rows, i, rows[i].to)
RemarksAttested ==
    /\ \A c \in Case : Attested(history[c])
    /\ \A r \in Request : request[r].op = "remark" =>
          \/ request[r].from = "OPEN"
          \/ \E j \in 1..Len(history[request[r].case]) :
                /\ history[request[r].case][j].type = "LIFECYCLE"
                /\ history[request[r].case][j].to = request[r].from

\* A row that is added keeps the others attested, and what they attest.
LEMMA AttestedRecorded ==
    ASSUME NEW rows \in Seq(Action), NEW type, NEW from, NEW to,
           [type |-> type, from |-> from, to |-> to] \in Action, Attested(rows),
           \/ type = "LIFECYCLE"
           \/ type \in Remark /\ to = "OPEN"
           \/ type \in Remark /\ TransitionBefore(rows, Len(rows) + 1, to)
    PROVE  /\ Attested(Recorded(rows, type, from, to))
           /\ \A status : TransitionBefore(rows, Len(rows) + 1, status) =>
                 LET new == Recorded(rows, type, from, to)
                 IN  TransitionBefore(new, Len(new) + 1, status)
<1> DEFINE a == [type |-> type, from |-> from, to |-> to]
           new == Append(rows, a)
<1>1. /\ Len(rows) \in Nat /\ Len(new) = Len(rows) + 1
      /\ new[Len(rows) + 1] = a
      /\ \A i \in 1..Len(rows) : new[i] = rows[i]
    OBVIOUS
<1>2. a.type = type /\ a.to = to
    OBVIOUS
<1> HIDE DEF new, a
<1>3. \A status : \A i \in 1..(Len(rows) + 1) :
          TransitionBefore(rows, i, status) => TransitionBefore(new, i, status)
    BY <1>1 DEF TransitionBefore
<1>4. Attested(new)
    <2> SUFFICES ASSUME NEW i \in 1..Len(new)
                 PROVE  \/ new[i].type = "LIFECYCLE"
                        \/ new[i].type \in Remark /\ new[i].to = "OPEN"
                        \/ new[i].type \in Remark /\ TransitionBefore(new, i, new[i].to)
        BY DEF Attested
    <2>1. CASE i = Len(rows) + 1
        BY <1>1, <1>2, <1>3, <2>1
    <2>2. CASE i \in 1..Len(rows)
        BY <1>1, <1>3, <2>2 DEF Attested
    <2> QED
        BY <1>1, <2>1, <2>2
<1>5. \A status : TransitionBefore(rows, Len(rows) + 1, status) =>
          TransitionBefore(new, Len(new) + 1, status)
    BY <1>1 DEF TransitionBefore
<1> QED
    BY <1>4, <1>5 DEF Recorded, new, a

LEMMA InitAttested == Init => RemarksAttested
    BY DEF Init, RemarksAttested, Attested, Idle

\* A commit that adds an attested row to the history of case c.
LEMMA RecordAttested ==
    ASSUME IInv, RemarksAttested, NEW r \in Request, NEW c \in Case, NEW type, NEW from, NEW to,
           [type |-> type, from |-> from, to |-> to] \in Action,
           \/ type = "LIFECYCLE"
           \/ type \in Remark /\ to = "OPEN"
           \/ type \in Remark /\ TransitionBefore(history[c], Len(history[c]) + 1, to),
           history' = [history EXCEPT ![c] = Recorded(@, type, from, to)],
           request' = [request EXCEPT ![r] = Idle]
    PROVE  RemarksAttested'
<1>1. history[c] \in Seq(Action) /\ Attested(history[c])
    BY DEF IInv, TypeOK, RemarksAttested
<1>2. /\ history'[c] = Recorded(history[c], type, from, to)
      /\ \A k \in Case : k # c => history'[k] = history[k]
    BY DEF IInv, TypeOK
<1>3. /\ Attested(history'[c])
      /\ \A status : TransitionBefore(history[c], Len(history[c]) + 1, status) =>
            TransitionBefore(history'[c], Len(history'[c]) + 1, status)
    BY <1>1, <1>2, AttestedRecorded
<1>4. \A k \in Case : Attested(history'[k])
    BY <1>2, <1>3 DEF RemarksAttested
<1>5. ASSUME NEW s \in Request, request'[s].op = "remark", request'[s].from # "OPEN"
      PROVE  \E j \in 1..Len(history'[request'[s].case]) :
                 /\ history'[request'[s].case][j].type = "LIFECYCLE"
                 /\ history'[request'[s].case][j].to = request'[s].from
    <2>1. request'[s] = request[s]
        BY <1>5 DEF IInv, TypeOK, Idle
    <2>2. request[s].case \in Case
        BY <1>5, <2>1, RequestKind DEF IInv, TypeOK, Requests, RemarkRequest
    <2>3. CASE request[s].case # c
        BY <1>2, <1>5, <2>1, <2>2, <2>3 DEF RemarksAttested
    <2>4. CASE request[s].case = c
        <3>1. Len(history[c]) \in Nat
            BY <1>1
        <3>2. TransitionBefore(history[c], Len(history[c]) + 1, request[s].from)
            BY <1>5, <2>1, <2>4, <3>1 DEF RemarksAttested, TransitionBefore
        <3>3. PICK j \in 1..Len(history'[c]) :
                 history'[c][j].type = "LIFECYCLE" /\ history'[c][j].to = request[s].from
            BY <1>3, <3>2 DEF TransitionBefore
        <3> QED
            BY <2>1, <2>4, <3>3
    <2> QED
        BY <2>3, <2>4
<1> QED
    BY <1>4, <1>5 DEF RemarksAttested

LEMMA NextAttested == IInv /\ RemarksAttested /\ [Next]_vars => RemarksAttested'
<1> SUFFICES ASSUME IInv, RemarksAttested, [Next]_vars PROVE RemarksAttested'
    OBVIOUS
<1>1. ASSUME NEW r \in Request, CommitLifecycle(r) PROVE RemarksAttested'
    <2>1. request[r] \in LifecycleRequest
        BY <1>1, RequestKind DEF IInv, TypeOK, Requests, CommitLifecycle
    <2>2. [type |-> "LIFECYCLE", from |-> request[r].from, to |-> request[r].to] \in Action
        BY <2>1 DEF LifecycleRequest, Action
    <2> QED
        BY <1>1, <2>1, <2>2, RecordAttested DEF CommitLifecycle, LifecycleRequest
<1>2. ASSUME NEW r \in Request, CommitRemark(r) PROVE RemarksAttested'
    <2> DEFINE c == request[r].case
               from == request[r].from
    <2>1. request[r] \in RemarkRequest
        BY <1>2, RequestKind DEF IInv, TypeOK, Requests, CommitRemark
    <2>2. [type |-> request[r].type, from |-> from, to |-> from] \in Action
        BY <2>1 DEF RemarkRequest, Action
    <2>3. from = "OPEN" \/ TransitionBefore(history[c], Len(history[c]) + 1, from)
        <3>1. Len(history[c]) \in Nat
            BY <2>1 DEF RemarkRequest, IInv, TypeOK
        <3> QED
            BY <1>2, <3>1 DEF CommitRemark, RemarksAttested, TransitionBefore
    <2> QED
        BY <1>2, <2>1, <2>2, <2>3, RecordAttested DEF CommitRemark, RemarkRequest
<1>3. ASSUME NEW r \in Request, NEW c \in Case, NEW type \in Remark, BeginRemark(r, c, type)
      PROVE  RemarksAttested'
    <2>1. case[c].status \in CaseStatus
        BY <1>3 DEF BeginRemark, IInv, TypeOK, CaseRow
    <2>2. case[c].status = "OPEN" \/ case[c].status \in Reached(history[c])
        BY <2>1 DEF IInv, HistoryAccounts, CaseStatus
    <2>3. case[c].status = "OPEN" \/
              \E j \in 1..Len(history[c]) :
                  history[c][j].type = "LIFECYCLE" /\ history[c][j].to = case[c].status
        BY <2>2 DEF Reached, RemarksAttested, Attested
    <2>4. /\ history' = history
          /\ request' = [request EXCEPT ![r] =
                 [op |-> "remark", case |-> c, from |-> case[c].status, type |-> type]]
        BY <1>3 DEF BeginRemark, Begin
    <2> QED
        BY <2>3, <2>4 DEF IInv, TypeOK, RemarksAttested
<1>4. ASSUME \A c \in Case : history'[c] = history[c],
             \A r \in Request : request'[r] = request[r] \/ request'[r].op # "remark"
      PROVE  RemarksAttested'
    <2>1. ASSUME NEW r \in Request, request[r].op = "remark" PROVE request[r].case \in Case
        BY <2>1, RequestKind DEF IInv, TypeOK, Requests, RemarkRequest
    <2> QED
        BY <1>4, <2>1 DEF RemarksAttested
<1>5. ASSUME NEW r \in Request, CommitAsk(r) \/ CommitDecide(r) PROVE RemarksAttested'
    <2>1. CommitDecide(r) => request[r].decision \in Decision
        BY RequestKind DEF IInv, TypeOK, Requests, CommitDecide, DecideRequest
    <2>2. \A c \in Case : history'[c] = history[c]
        BY <1>5, <2>1, ReviewAssumption DEF CommitAsk, CommitDecide, IInv, TypeOK
    <2>3. \A s \in Request : request'[s] = request[s] \/ request'[s].op # "remark"
        BY <1>5 DEF CommitAsk, CommitDecide, IInv, TypeOK, Idle
    <2> QED
        BY <1>4, <2>2, <2>3
<1>6. ASSUME NEW r \in Request, NEW next, Begin(r, next), next.op # "remark" PROVE RemarksAttested'
    BY <1>4, <1>6 DEF Begin, IInv, TypeOK
<1>7. ASSUME NEW r \in Request, Abort(r) PROVE RemarksAttested'
    BY <1>4, <1>7 DEF Abort, IInv, TypeOK, Idle
<1>8. ASSUME UNCHANGED <<history, request>> PROVE RemarksAttested'
    BY <1>4, <1>8
<1> QED
    BY <1>1, <1>2, <1>3, <1>5, <1>6, <1>7, <1>8
    DEF Next, vars, OpenCase, Acknowledge, Resolve, Waive, BeginLifecycle,
        BeginAsk, Approve, Reject, Cancel, BeginDecide

\* The report has a time for exactly the lifecycle times of the case, and takes
\* it from a transition, for every order of transitions and remarks.
THEOREM ReportIsTrue == Spec => []ReportedTimesAgree
<1>1. IInv /\ RemarksAttested => ReportedTimesAgree
    <2> SUFFICES ASSUME IInv, RemarksAttested, NEW c \in Case,
                        NEW status \in {"ACKNOWLEDGED", "RESOLVED", "WAIVED"}
                 PROVE  /\ ReportedRow(c, status) # {} <=> status \in case[c].stamps
                        /\ \A i \in ReportedRow(c, status) : history[c][i].type = "LIFECYCLE"
        BY DEF ReportedTimesAgree
    <2> DEFINE rows == {i \in 1..Len(history[c]) : Names(history[c][i], status)}
    <2>1. Len(history[c]) \in Nat /\ Attested(history[c])
        BY DEF IInv, TypeOK, RemarksAttested
    <2>2. ReportedRow(c, status) = {i \in rows : \A j \in rows : i <= j}
        BY DEF ReportedRow
    <2>3. rows \in SUBSET Nat
        BY <2>1
    <2>4. rows # {} => ReportedRow(c, status) # {}
        BY <2>2, <2>3, LeastElement
    <2>5. ASSUME NEW i \in rows
          PROVE  \E j \in rows : j <= i /\ history[c][j].type = "LIFECYCLE"
        BY <2>1 DEF Attested, TransitionBefore, Names
    <2>6. ASSUME NEW i \in ReportedRow(c, status) PROVE history[c][i].type = "LIFECYCLE"
        <3>1. PICK j \in rows : j <= i /\ history[c][j].type = "LIFECYCLE"
            BY <2>2, <2>5
        <3>2. i <= j /\ i \in Nat /\ j \in Nat
            BY <2>2, <2>3
        <3>3. i = j
            BY <3>1, <3>2
        <3> QED
            BY <3>1, <3>3
    <2>7. case[c].stamps = Reached(history[c])
        BY DEF IInv, HistoryAccounts
    <2>8. rows # {} <=> status \in Reached(history[c])
        BY <2>5 DEF Reached, Names, Remark
    <2> QED
        BY <2>2, <2>4, <2>6, <2>7, <2>8
<1> QED
    BY <1>1, InitIInv, NextIInv, InitAttested, NextAttested, PTL DEF Spec
==========================================================================
