---------------------- MODULE DeviceEnrollmentProofs ----------------------
(***************************************************************************)
(* DeviceEnrollment for every set of workers, keys, requests and rows.     *)
(*                                                                         *)
(* The argument: an approval in flight may have read a set of active       *)
(* bindings that is out of date.  It is harmless as long as every change   *)
(* that could matter to it (its enrollment superseded, or an enrollment it *)
(* would supersede bound) came with a new ACTIVE binding that it did not   *)
(* see: then the unique index refuses it.  ApprovalSafe says so.           *)
(***************************************************************************)
EXTENDS DeviceEnrollment, TLAPS

\* An enrollment that nobody approved has no binding.
PendingUnbound ==
    \A e \in Row : enrollment[e].status \in {"NONE", "PENDING"} => binding[e] = "NONE"

SupersededUnbound ==
    \A e \in Row : enrollment[e].status = "SUPERSEDED" => binding[e] = "NONE"

\* A device that the approval in flight at r did not see became active.
Overtaken(r) ==
    \E b \in Active(WorkerOf(request[r].enrollment)) : b \notin request[r].active

\* What an approval in flight saw was there, and what changed since is such
\* that the index will refuse it.
ApprovalSafe(r) ==
    request[r].op = "approve" =>
        /\ \A b \in request[r].active :
              binding[b] # "NONE" /\ WorkerOf(b) = WorkerOf(request[r].enrollment)
        /\ \A e \in request[r].others :
              /\ WorkerOf(e) = WorkerOf(request[r].enrollment)
              /\ e # request[r].enrollment
        /\ enrollment[request[r].enrollment].status # "NONE"
        /\ \A e \in request[r].others \cup {request[r].enrollment} :
              binding[e] # "NONE" \/ enrollment[e].status = "SUPERSEDED" => Overtaken(r)

\* The enrollment of a rejection in flight exists.
RejectionSafe(r) ==
    request[r].op = "reject" => enrollment[request[r].enrollment].status # "NONE"

IInv ==
    /\ TypeOK
    /\ OneActiveDevice
    /\ PendingUnbound
    /\ SupersededUnbound
    /\ \A r \in Request : ApprovalSafe(r) /\ RejectionSafe(r)

----------------------------------------------------------------------------
\* The kinds of request are told apart by their op.
LEMMA RequestKind ==
    ASSUME NEW x \in {Idle} \cup EnrollRequest \cup ApproveRequest \cup RejectRequest
    PROVE  /\ x.op = "enroll" => x \in EnrollRequest
           /\ x.op = "approve" => x \in ApproveRequest
           /\ x.op = "reject" => x \in RejectRequest
           /\ x # Idle => x.op # "idle"
    BY DEF Idle, EnrollRequest, ApproveRequest, RejectRequest

\* Types are preserved by every step.
LEMMA TypeInit == Init => TypeOK
    BY DEF Init, TypeOK, ChallengeStatus, EnrollmentStatus, BindingStatus

LEMMA TypeStep == TypeOK /\ [Next]_vars => TypeOK'
<1> SUFFICES ASSUME TypeOK, [Next]_vars PROVE TypeOK'
    OBVIOUS
<1> USE DEF TypeOK
<1>1. ASSUME NEW c \in Row, IssueChallenge(c) PROVE TypeOK'
    BY <1>1 DEF IssueChallenge, ChallengeStatus
<1>2. ASSUME NEW c \in Row, ExpireChallenge(c) PROVE TypeOK'
    BY <1>2 DEF ExpireChallenge, ChallengeStatus
<1>3. ASSUME NEW r \in Request, NEW c \in Row, NEW k \in Key, BeginEnroll(r, c, k)
      PROVE  TypeOK'
    <2>1. PICK existing \in Existing(WorkerOf(c), k) :
             request' = [request EXCEPT ![r] =
                [op |-> "enroll", challenge |-> c, key |-> k, existing |-> existing]]
        BY <1>3 DEF BeginEnroll
    <2>2. existing \in SUBSET Row
        BY DEF Existing, Pending
    <2>3. [op |-> "enroll", challenge |-> c, key |-> k, existing |-> existing] \in EnrollRequest
        BY <2>2 DEF EnrollRequest
    <2> QED
        BY <1>3, <2>1, <2>3 DEF BeginEnroll
<1>4. ASSUME NEW r \in Request, CommitEnroll(r) PROVE TypeOK'
    <2>1. request[r] \in EnrollRequest
        BY <1>4, RequestKind DEF CommitEnroll
    <2>2. request' \in [Request -> {Idle} \cup EnrollRequest \cup ApproveRequest \cup RejectRequest]
        BY <1>4 DEF CommitEnroll
    <2>3. challenge' \in [Row -> ChallengeStatus]
        BY <1>4, <2>1 DEF CommitEnroll, EnrollRequest, ChallengeStatus
    <2>4. enrollment' \in [Row -> [status : EnrollmentStatus, key : Key \cup {NoKey}]]
        BY <1>4, <2>1 DEF CommitEnroll, EnrollRequest, EnrollmentStatus
    <2> QED
        BY <1>4, <2>2, <2>3, <2>4 DEF CommitEnroll
<1>5. ASSUME NEW r \in Request, NEW e \in Row, BeginApprove(r, e) PROVE TypeOK'
    <2> DEFINE new == [op |-> "approve", enrollment |-> e, active |-> Active(WorkerOf(e)),
                       others |-> Pending(WorkerOf(e)) \ {e}, shared |-> SharedWith(e) # {}]
    <2>1. new \in ApproveRequest
        BY DEF ApproveRequest, Active, Pending
    <2>2. request' = [request EXCEPT ![r] = new]
        BY <1>5 DEF BeginApprove
    <2> QED
        BY <1>5, <2>1, <2>2 DEF BeginApprove
<1>6. ASSUME NEW r \in Request, CommitApprove(r) PROVE TypeOK'
    <2>1. request[r] \in ApproveRequest
        BY <1>6, RequestKind DEF CommitApprove
    <2>2. request' \in [Request -> {Idle} \cup EnrollRequest \cup ApproveRequest \cup RejectRequest]
        BY <1>6 DEF CommitApprove
    <2>3. Decided(request[r].enrollment, request[r].others)
             \in [Row -> [status : EnrollmentStatus, key : Key \cup {NoKey}]]
        BY DEF Decided, EnrollmentStatus
    <2>4. Rebound(request[r].enrollment, request[r].active) \in [Row -> BindingStatus]
        BY DEF Rebound, BindingStatus
    <2>5. enrollment' \in [Row -> [status : EnrollmentStatus, key : Key \cup {NoKey}]]
          /\ binding' \in [Row -> BindingStatus]
        BY <1>6, <2>3, <2>4 DEF CommitApprove
    <2>6. shared' \subseteq Row
        BY <1>6, <2>1 DEF CommitApprove, ApproveRequest
    <2> QED
        BY <1>6, <2>2, <2>5, <2>6 DEF CommitApprove
<1>7. ASSUME NEW r \in Request, NEW e \in Row, BeginReject(r, e) PROVE TypeOK'
    BY <1>7 DEF BeginReject, RejectRequest
<1>8. ASSUME NEW r \in Request, CommitReject(r) PROVE TypeOK'
    <2>1. request[r] \in RejectRequest
        BY <1>8, RequestKind DEF CommitReject
    <2> QED
        BY <1>8, <2>1 DEF CommitReject, RejectRequest, EnrollmentStatus
<1>9. ASSUME NEW r \in Request, Abort(r) PROVE TypeOK'
    BY <1>9 DEF Abort
<1>10. CASE UNCHANGED vars
    BY <1>10 DEF vars
<1> QED
    BY <1>1, <1>2, <1>3, <1>4, <1>5, <1>6, <1>7, <1>8, <1>9, <1>10 DEF Next

\* Every variable keeps its type.
THEOREM TypeCorrect == Spec => []TypeOK
    BY TypeInit, TypeStep, PTL DEF Spec

----------------------------------------------------------------------------
\* Nothing is enrolled, bound or under way at first.
LEMMA InvInit == Init => IInv
<1> SUFFICES ASSUME Init PROVE IInv
    OBVIOUS
<1>1. TypeOK
    BY TypeInit
<1>2. OneActiveDevice
    BY DEF Init, OneActiveDevice, Active
<1>3. PendingUnbound /\ SupersededUnbound
    BY DEF Init, PendingUnbound, SupersededUnbound
<1>4. \A r \in Request : ApprovalSafe(r) /\ RejectionSafe(r)
    BY DEF Init, ApprovalSafe, RejectionSafe, Idle
<1> QED
    BY <1>1, <1>2, <1>3, <1>4 DEF IInv

\* Steps that change no enrollment and no binding and start no decision.
LEMMA QuietStep ==
    ASSUME IInv, TypeOK', UNCHANGED <<enrollment, binding>>,
           \A r \in Request : request'[r].op \in {"approve", "reject"} => request'[r] = request[r]
    PROVE  IInv'
<1>1. OneActiveDevice' /\ PendingUnbound' /\ SupersededUnbound'
    BY DEF IInv, OneActiveDevice, PendingUnbound, SupersededUnbound, Active
<1>2. ASSUME NEW r \in Request PROVE ApprovalSafe(r)' /\ RejectionSafe(r)'
    <2>1. ApprovalSafe(r) /\ RejectionSafe(r)
        BY DEF IInv
    <2> QED
        BY <2>1 DEF ApprovalSafe, RejectionSafe, Overtaken, Active
<1> QED
    BY <1>1, <1>2 DEF IInv

\* A new pending enrollment disturbs nothing: its row did not exist.
LEMMA EnrollStep ==
    ASSUME IInv, TypeOK', NEW r \in Request, CommitEnroll(r)
    PROVE  IInv'
<1> USE DEF IInv
<1>1. UNCHANGED binding /\ request' = [request EXCEPT ![r] = Idle]
    BY DEF CommitEnroll
<1>2. \A e \in Row : enrollment'[e] # enrollment[e] =>
         enrollment[e].status = "NONE" /\ enrollment'[e].status = "PENDING"
    BY DEF CommitEnroll, TypeOK
<1>3. OneActiveDevice'
    BY <1>1 DEF OneActiveDevice, Active
<1>4. PendingUnbound' /\ SupersededUnbound'
    BY <1>1, <1>2 DEF PendingUnbound, SupersededUnbound
<1>5. ASSUME NEW q \in Request PROVE ApprovalSafe(q)' /\ RejectionSafe(q)'
    <2>1. CASE q = r
        BY <2>1, <1>1 DEF ApprovalSafe, RejectionSafe, Idle, TypeOK
    <2>2. CASE q # r
        <3>1. request'[q] = request[q]
            BY <2>2, <1>1 DEF TypeOK
        <3>2. RejectionSafe(q)'
            <4>1. ASSUME request[q].op = "reject"
                  PROVE  request[q].enrollment \in Row
                BY <4>1, RequestKind DEF TypeOK, RejectRequest
            <4> QED
                BY <3>1, <4>1, <1>2 DEF RejectionSafe
        <3>3. ApprovalSafe(q)'
            <4> SUFFICES ASSUME request[q].op = "approve" PROVE ApprovalSafe(q)'
                BY <3>1 DEF ApprovalSafe
            <4>1. request[q] \in ApproveRequest
                BY RequestKind DEF TypeOK
            <4>2. request[q].enrollment \in Row /\ request[q].others \in SUBSET Row
                BY <4>1 DEF ApproveRequest
            <4>3. Overtaken(q)' <=> Overtaken(q)
                BY <3>1, <1>1 DEF Overtaken, Active
            <4>4. ApprovalSafe(q)
                OBVIOUS
            <4>5. \A e \in Row : enrollment'[e].status = "SUPERSEDED"
                                 => enrollment[e].status = "SUPERSEDED"
                BY <1>2
            <4> QED
                BY <1>1, <1>2, <3>1, <4>2, <4>3, <4>4, <4>5 DEF ApprovalSafe
        <3> QED
            BY <3>2, <3>3
    <2> QED
        BY <2>1, <2>2
<1> QED
    BY <1>3, <1>4, <1>5

\* What an approval reads when it begins is safe: the enrollments it reads are
\* pending, hence not bound.
LEMMA BeginApproveStep ==
    ASSUME IInv, TypeOK', NEW r \in Request, NEW d \in Row, BeginApprove(r, d)
    PROVE  IInv'
<1> USE DEF IInv
<1> DEFINE new == [op |-> "approve", enrollment |-> d, active |-> Active(WorkerOf(d)),
                   others |-> Pending(WorkerOf(d)) \ {d}, shared |-> SharedWith(d) # {}]
<1>1. UNCHANGED <<enrollment, binding>> /\ request' = [request EXCEPT ![r] = new]
    BY DEF BeginApprove
<1>2. OneActiveDevice' /\ PendingUnbound' /\ SupersededUnbound'
    BY <1>1 DEF OneActiveDevice, PendingUnbound, SupersededUnbound, Active
<1>3. ASSUME NEW q \in Request PROVE ApprovalSafe(q)' /\ RejectionSafe(q)'
    <2>1. CASE q = r
        <3>1. request'[q] = new
            BY <2>1, <1>1 DEF TypeOK
        <3>2. \A e \in new.others \cup {d} :
                 enrollment[e].status = "PENDING" /\ e \in Row /\ WorkerOf(e) = WorkerOf(d)
            BY DEF BeginApprove, Decidable, Pending
        <3>3. \A e \in new.others \cup {d} :
                 ~ (binding[e] # "NONE" \/ enrollment[e].status = "SUPERSEDED")
            BY <3>2 DEF PendingUnbound
        <3>4. \A b \in new.active : binding[b] # "NONE" /\ WorkerOf(b) = WorkerOf(d)
            BY DEF Active
        <3> QED
            BY <1>1, <3>1, <3>2, <3>3, <3>4 DEF ApprovalSafe, RejectionSafe
    <2>2. CASE q # r
        <3>1. request'[q] = request[q]
            BY <2>2, <1>1 DEF TypeOK
        <3>2. ApprovalSafe(q) /\ RejectionSafe(q)
            OBVIOUS
        <3> QED
            BY <1>1, <3>1, <3>2 DEF ApprovalSafe, RejectionSafe, Overtaken, Active
    <2> QED
        BY <2>1, <2>2
<1> QED
    BY <1>2, <1>3

\* A rejection begins: nothing is written.
LEMMA BeginRejectStep ==
    ASSUME IInv, TypeOK', NEW r \in Request, NEW d \in Row, BeginReject(r, d)
    PROVE  IInv'
<1> USE DEF IInv
<1>1. UNCHANGED <<enrollment, binding>>
      /\ request' = [request EXCEPT ![r] = [op |-> "reject", enrollment |-> d]]
    BY DEF BeginReject
<1>2. OneActiveDevice' /\ PendingUnbound' /\ SupersededUnbound'
    BY <1>1 DEF OneActiveDevice, PendingUnbound, SupersededUnbound, Active
<1>3. ASSUME NEW q \in Request PROVE ApprovalSafe(q)' /\ RejectionSafe(q)'
    <2>1. CASE q = r
        BY <2>1, <1>1 DEF ApprovalSafe, RejectionSafe, TypeOK, BeginReject, Decidable
    <2>2. CASE q # r
        <3>1. request'[q] = request[q] /\ ApprovalSafe(q) /\ RejectionSafe(q)
            BY <2>2, <1>1 DEF TypeOK
        <3> QED
            BY <1>1, <3>1 DEF ApprovalSafe, RejectionSafe, Overtaken, Active
    <2> QED
        BY <2>1, <2>2
<1> QED
    BY <1>2, <1>3

\* A rejection is written over whatever the enrollment has become.
LEMMA RejectStep ==
    ASSUME IInv, TypeOK', NEW r \in Request, CommitReject(r)
    PROVE  IInv'
<1> USE DEF IInv
<1> DEFINE d == request[r].enrollment
<1>1. d \in Row
    BY RequestKind DEF CommitReject, TypeOK, RejectRequest
<1>2. UNCHANGED binding /\ request' = [request EXCEPT ![r] = Idle]
    BY DEF CommitReject
<1>3. /\ enrollment'[d].status = "REJECTED"
      /\ \A e \in Row : e # d => enrollment'[e] = enrollment[e]
    BY <1>1 DEF CommitReject, TypeOK
<1>4. OneActiveDevice'
    BY <1>2 DEF OneActiveDevice, Active
<1>5. PendingUnbound' /\ SupersededUnbound'
    BY <1>2, <1>3 DEF PendingUnbound, SupersededUnbound
<1>6. ASSUME NEW q \in Request PROVE ApprovalSafe(q)' /\ RejectionSafe(q)'
    <2>1. CASE q = r
        BY <2>1, <1>2 DEF ApprovalSafe, RejectionSafe, Idle, TypeOK
    <2>2. CASE q # r
        <3>1. request'[q] = request[q] /\ ApprovalSafe(q) /\ RejectionSafe(q)
            BY <2>2, <1>2 DEF TypeOK
        <3>2. Overtaken(q)' <=> Overtaken(q)
            BY <1>2, <3>1 DEF Overtaken, Active
        <3>3. request[q].op = "approve" =>
                 request[q].enrollment \in Row /\ request[q].others \in SUBSET Row
            BY RequestKind DEF TypeOK, ApproveRequest
        <3>4. request[q].op = "reject" => request[q].enrollment \in Row
            BY RequestKind DEF TypeOK, RejectRequest
        <3>5. \A e \in Row :
                 /\ enrollment[e].status # "NONE" => enrollment'[e].status # "NONE"
                 /\ enrollment'[e].status = "SUPERSEDED" => enrollment[e].status = "SUPERSEDED"
            BY <1>3
        <3> QED
            BY <1>2, <3>1, <3>2, <3>3, <3>4, <3>5 DEF ApprovalSafe, RejectionSafe
    <2> QED
        BY <2>1, <2>2
<1> QED
    BY <1>4, <1>5, <1>6

\* What a step of an approval writes, when the schema lets it through.
LEMMA ApproveWrites ==
    ASSUME IInv, NEW r \in Request, CommitApprove(r),
           ~ UNCHANGED <<enrollment, binding>>
    PROVE  LET d == request[r].enrollment IN
           /\ d \in Row /\ request[r].active \in SUBSET Row /\ request[r].others \in SUBSET Row
           /\ enrollment' = Decided(d, request[r].others)
           /\ binding' = Rebound(d, request[r].active)
           /\ ~ Overtaken(r)
           /\ \A e \in request[r].others \cup {d} :
                 binding[e] = "NONE" /\ enrollment[e].status # "SUPERSEDED"
<1> DEFINE d == request[r].enrollment
<1>1. request[r] \in ApproveRequest
    BY RequestKind DEF CommitApprove, IInv, TypeOK
<1>2. d \in Row /\ request[r].active \in SUBSET Row /\ request[r].others \in SUBSET Row
    BY <1>1 DEF ApproveRequest
<1>3. /\ enrollment' = Decided(d, request[r].others)
      /\ binding' = Rebound(d, request[r].active)
      /\ ~ ActiveConflict(d, request[r].active)
    BY DEF CommitApprove
<1>4. ~ Overtaken(r)
    BY <1>3 DEF ActiveConflict, Overtaken
<1> QED
    BY <1>2, <1>3, <1>4 DEF IInv, ApprovalSafe, CommitApprove

\* An approval is refused by the index, or it was not overtaken, so that what
\* it read still holds and the new device is the only active one.
LEMMA ApproveStep ==
    ASSUME IInv, TypeOK', NEW r \in Request, CommitApprove(r)
    PROVE  IInv'
<1> DEFINE d == request[r].enrollment
<1>1. request' = [request EXCEPT ![r] = Idle]
    BY DEF CommitApprove
<1>2. CASE UNCHANGED <<enrollment, binding>>
    <2>1. \A q \in Request : request'[q].op \in {"approve", "reject"} => request'[q] = request[q]
        BY <1>1 DEF Idle, IInv, TypeOK
    <2> QED
        BY <1>2, <2>1, QuietStep
<1>3. CASE ~ UNCHANGED <<enrollment, binding>>
    <2>1. /\ d \in Row /\ request[r].active \in SUBSET Row /\ request[r].others \in SUBSET Row
          /\ ~ Overtaken(r)
          /\ \A e \in request[r].others \cup {d} :
                binding[e] = "NONE" /\ enrollment[e].status # "SUPERSEDED"
        BY <1>3, ApproveWrites
    <2>2. /\ enrollment' = Decided(d, request[r].others)
          /\ binding' = Rebound(d, request[r].active)
        BY <1>3, ApproveWrites
    <2>3. /\ \A b \in request[r].active : binding[b] # "NONE" /\ WorkerOf(b) = WorkerOf(d)
          /\ \A e \in request[r].others : WorkerOf(e) = WorkerOf(d) /\ e # d
        BY DEF IInv, ApprovalSafe, CommitApprove
    <2>4. /\ binding'[d] = "ACTIVE"
          /\ \A e \in Row : e # d /\ e \in request[r].active => binding'[e] = "REVOKED"
          /\ \A e \in Row : e # d /\ e \notin request[r].active => binding'[e] = binding[e]
        BY <2>1, <2>2 DEF Rebound
    <2>5. /\ enrollment'[d].status = "APPROVED"
          /\ \A e \in request[r].others : enrollment'[e].status = "SUPERSEDED"
          /\ \A e \in Row : e # d /\ e \notin request[r].others => enrollment'[e] = enrollment[e]
        BY <2>1, <2>2, <2>3 DEF Decided, IInv, TypeOK
    <2>6. OneActiveDevice'
        <3> SUFFICES ASSUME NEW w \in Worker, NEW a \in Active(w)', NEW b \in Active(w)'
                     PROVE  a = b
            BY DEF OneActiveDevice
        <3>1. a \in Row /\ b \in Row /\ WorkerOf(a) = w /\ WorkerOf(b) = w
              /\ binding'[a] = "ACTIVE" /\ binding'[b] = "ACTIVE"
            BY DEF Active
        <3>2. CASE w = WorkerOf(d)
            <4>1. ASSUME NEW x \in Row, WorkerOf(x) = w, binding'[x] = "ACTIVE" PROVE x = d
                <5> SUFFICES ASSUME x # d PROVE FALSE
                    OBVIOUS
                <5>1. x \notin request[r].active /\ binding[x] = "ACTIVE"
                    BY <4>1, <2>4
                <5> QED
                    BY <5>1, <4>1, <3>2, <2>1 DEF Overtaken, Active
            <4> QED
                BY <4>1, <3>1
        <3>3. CASE w # WorkerOf(d)
            <4>1. a \in Active(w) /\ b \in Active(w)
                BY <3>1, <3>3, <2>3, <2>4 DEF Active
            <4> QED
                BY <4>1 DEF IInv, OneActiveDevice
        <3> QED
            BY <3>2, <3>3
    <2>7. PendingUnbound'
        <3> SUFFICES ASSUME NEW e \in Row, enrollment'[e].status \in {"NONE", "PENDING"}
                     PROVE  binding'[e] = "NONE"
            BY DEF PendingUnbound
        <3>1. e # d /\ enrollment'[e] = enrollment[e]
            BY <2>5
        <3>2. binding[e] = "NONE"
            BY <3>1 DEF IInv, PendingUnbound
        <3> QED
            BY <3>1, <3>2, <2>3, <2>4
    <2>8. SupersededUnbound'
        <3> SUFFICES ASSUME NEW e \in Row, enrollment'[e].status = "SUPERSEDED"
                     PROVE  binding'[e] = "NONE"
            BY DEF SupersededUnbound
        <3>1. e # d /\ binding[e] = "NONE"
            BY <2>1, <2>5 DEF IInv, SupersededUnbound
        <3> QED
            BY <3>1, <2>3, <2>4
    <2>9. ASSUME NEW q \in Request PROVE ApprovalSafe(q)' /\ RejectionSafe(q)'
        <3>1. CASE q = r
            BY <3>1, <1>1 DEF ApprovalSafe, RejectionSafe, Idle, IInv, TypeOK
        <3>2. CASE q # r
            <4>1. request'[q] = request[q] /\ ApprovalSafe(q) /\ RejectionSafe(q)
                BY <3>2, <1>1 DEF IInv, TypeOK
            <4>2. \A e \in Row : enrollment[e].status # "NONE" => enrollment'[e].status # "NONE"
                BY <2>5
            <4>3. RejectionSafe(q)'
                <5>1. request[q].op = "reject" => request[q].enrollment \in Row
                    BY RequestKind DEF IInv, TypeOK, RejectRequest
                <5> QED
                    BY <4>1, <4>2, <5>1 DEF RejectionSafe
            <4>4. ApprovalSafe(q)'
                <5> SUFFICES ASSUME request[q].op = "approve" PROVE ApprovalSafe(q)'
                    BY <4>1 DEF ApprovalSafe
                <5>1. /\ request[q].enrollment \in Row
                      /\ request[q].others \in SUBSET Row
                      /\ request[q].active \in SUBSET Row
                    BY RequestKind DEF IInv, TypeOK, ApproveRequest
                <5>2. \A b \in request[q].active :
                         binding'[b] # "NONE" /\ WorkerOf(b) = WorkerOf(request[q].enrollment)
                    BY <4>1, <5>1, <2>4 DEF ApprovalSafe
                <5>3. ASSUME NEW e \in request[q].others \cup {request[q].enrollment},
                             binding'[e] # "NONE" \/ enrollment'[e].status = "SUPERSEDED"
                      PROVE  Overtaken(q)'
                    <6>1. e \in Row /\ WorkerOf(e) = WorkerOf(request[q].enrollment)
                        BY <4>1, <5>1 DEF ApprovalSafe
                    <6>2. CASE WorkerOf(e) = WorkerOf(d)
                        <7>1. d \notin request[q].active
                            BY <2>1, <4>1 DEF ApprovalSafe
                        <7>2. d \in Active(WorkerOf(request[q].enrollment))'
                            BY <4>1, <6>1, <6>2, <2>1, <2>4 DEF Active
                        <7> QED
                            BY <7>1, <7>2, <4>1 DEF Overtaken
                    <6>3. CASE WorkerOf(e) # WorkerOf(d)
                        <7>1. e # d /\ e \notin request[r].others /\ e \notin request[r].active
                            BY <6>3, <2>3
                        <7>2. Overtaken(q)
                            BY <7>1, <6>1, <5>3, <4>1, <2>4, <2>5 DEF ApprovalSafe
                        <7>3. PICK b \in Active(WorkerOf(e)) : b \notin request[q].active
                            BY <7>2, <6>1 DEF Overtaken
                        <7>4. b \in Active(WorkerOf(request[q].enrollment))'
                            BY <4>1, <7>3, <6>1, <6>3, <2>3, <2>4 DEF Active
                        <7> QED
                            BY <7>3, <7>4, <4>1 DEF Overtaken
                    <6> QED
                        BY <6>2, <6>3
                <5> QED
                    BY <4>1, <4>2, <5>1, <5>2, <5>3 DEF ApprovalSafe
            <4> QED
                BY <4>3, <4>4
        <3> QED
            BY <3>1, <3>2
    <2> QED
        BY <2>6, <2>7, <2>8, <2>9 DEF IInv
<1> QED
    BY <1>2, <1>3

\* Every step preserves the invariant, one case for each kind of request.
LEMMA InvStep == IInv /\ [Next]_vars => IInv'
<1> SUFFICES ASSUME IInv, [Next]_vars PROVE IInv'
    OBVIOUS
<1>0. TypeOK'
    BY TypeStep DEF IInv
<1>1. ASSUME NEW c \in Row, IssueChallenge(c) \/ ExpireChallenge(c) PROVE IInv'
    BY <1>0, <1>1, QuietStep DEF IssueChallenge, ExpireChallenge
<1>2. ASSUME NEW r \in Request, NEW c \in Row, NEW k \in Key, BeginEnroll(r, c, k)
      PROVE  IInv'
    <2>1. UNCHANGED <<enrollment, binding>>
        BY <1>2 DEF BeginEnroll
    <2>2. \A q \in Request : request'[q].op \in {"approve", "reject"} => request'[q] = request[q]
        BY <1>2 DEF BeginEnroll, IInv, TypeOK
    <2> QED
        BY <1>0, <2>1, <2>2, QuietStep
<1>3. ASSUME NEW r \in Request, NEW e \in Row, BeginApprove(r, e) \/ BeginReject(r, e)
      PROVE  IInv'
    BY <1>0, <1>3, BeginApproveStep, BeginRejectStep
<1>4. ASSUME NEW r \in Request, CommitEnroll(r) \/ CommitApprove(r) \/ CommitReject(r)
      PROVE  IInv'
    BY <1>0, <1>4, EnrollStep, ApproveStep, RejectStep
<1>5. ASSUME NEW r \in Request, Abort(r) PROVE IInv'
    <2>1. UNCHANGED <<enrollment, binding>>
        BY <1>5 DEF Abort
    <2>2. \A q \in Request : request'[q].op \in {"approve", "reject"} => request'[q] = request[q]
        BY <1>5 DEF Abort, Idle, IInv, TypeOK
    <2> QED
        BY <1>0, <2>1, <2>2, QuietStep
<1>6. CASE UNCHANGED vars
    <2>1. UNCHANGED <<enrollment, binding>> /\ UNCHANGED request
        BY <1>6 DEF vars
    <2> QED
        BY <1>0, <2>1, QuietStep
<1> QED
    BY <1>1, <1>2, <1>3, <1>4, <1>5, <1>6 DEF Next

\* The inductive invariant: it relates what an approval under way has read to
\* what the registry has become, and is what every theorem below rests on.
THEOREM Invariant == Spec => []IInv
    BY InvInit, InvStep, PTL DEF Spec

\* However many approvals overlap, a worker has at most one ACTIVE binding.
THEOREM AtMostOneDevice == Spec => []OneActiveDevice
<1>1. IInv => OneActiveDevice
    BY DEF IInv
<1> QED
    BY <1>1, Invariant, PTL

\* An enrollment once superseded never becomes a device, and no approval
\* supersedes an enrollment that is bound.
THEOREM SupersededIsFinal == Spec => SupersededStaysUnbound
<1>1. IInv /\ IInv' /\ [Next]_vars =>
         [\A e \in Row :
             enrollment[e].status = "SUPERSEDED" \/ enrollment'[e].status = "SUPERSEDED"
             => binding'[e] = "NONE"]_vars
    <2> SUFFICES ASSUME IInv, IInv', Next, NEW e \in Row,
                        enrollment[e].status = "SUPERSEDED"
                           \/ enrollment'[e].status = "SUPERSEDED"
                 PROVE  binding'[e] = "NONE"
        BY DEF vars
    <2>1. CASE enrollment'[e].status = "SUPERSEDED"
        BY <2>1 DEF IInv, SupersededUnbound
    <2>2. CASE enrollment[e].status = "SUPERSEDED"
        <3>1. binding[e] = "NONE"
            BY <2>2 DEF IInv, SupersededUnbound
        <3>2. CASE UNCHANGED binding
            BY <3>1, <3>2
        <3>3. CASE \E r \in Request : CommitApprove(r) /\ ~ UNCHANGED binding
            <4>1. PICK r \in Request : CommitApprove(r) /\ ~ UNCHANGED binding
                BY <3>3
            <4> DEFINE d == request[r].enrollment
            <4>2. /\ binding' = Rebound(d, request[r].active)
                  /\ enrollment[d].status # "SUPERSEDED"
                BY <4>1, ApproveWrites
            <4>3. \A b \in request[r].active : binding[b] # "NONE"
                BY <4>1 DEF IInv, ApprovalSafe, CommitApprove
            <4> QED
                BY <2>2, <3>1, <4>2, <4>3 DEF Rebound
        <3> QED
            BY <3>2, <3>3 DEF Next, IssueChallenge, ExpireChallenge, BeginEnroll, CommitEnroll,
                              BeginApprove, BeginReject, CommitReject, Abort
    <2> QED
        BY <2>1, <2>2
<1> QED
    BY <1>1, Invariant, PTL DEF Spec, SupersededStaysUnbound

\* The registry implements WorkerDevice: every step is a stutter, or swaps one
\* worker's device for one that was never bound before.
THEOREM Refinement == Spec => ImplementsWorkerDevice
<1>1. Init => Abstract!Init
    BY DEF Init, Abstract!Init, Active
<1>2. IInv /\ [Next]_vars => [Abstract!Next]_(Abstract!vars)
    <2> SUFFICES ASSUME IInv, [Next]_vars
                 PROVE  Abstract!Next \/ UNCHANGED Abstract!vars
        OBVIOUS
    <2>1. CASE UNCHANGED binding
        BY <2>1 DEF Abstract!vars, Active
    <2>2. CASE \E r \in Request : CommitApprove(r) /\ ~ UNCHANGED binding
        <3>1. PICK r \in Request : CommitApprove(r) /\ ~ UNCHANGED binding
            BY <2>2
        <3> DEFINE d == request[r].enrollment
        <3>2. /\ d \in Row /\ binding' = Rebound(d, request[r].active)
              /\ ~ Overtaken(r)
              /\ binding[d] = "NONE"
            BY <3>1, ApproveWrites
        <3>3. \A b \in request[r].active : binding[b] # "NONE" /\ WorkerOf(b) = WorkerOf(d)
            BY <3>1 DEF IInv, ApprovalSafe, CommitApprove
        <3>4. WorkerOf(d) \in Worker
            BY <3>2 DEF Row, WorkerOf
        <3>5. ASSUME NEW w \in Worker
              PROVE  Active(w)' = IF w = WorkerOf(d) THEN {d} ELSE Active(w)
            <4>1. CASE w = WorkerOf(d)
                BY <3>2, <3>3, <4>1 DEF Active, Rebound, Overtaken
            <4>2. CASE w # WorkerOf(d)
                BY <3>2, <3>3, <4>2 DEF Active, Rebound
            <4> QED
                BY <4>1, <4>2
        <3>6. {e \in Row : binding'[e] # "NONE"} = {e \in Row : binding[e] # "NONE"} \cup {d}
            BY <3>2, <3>3 DEF Rebound
        <3>7. Abstract!Next
            BY <3>2, <3>4, <3>5, <3>6 DEF Abstract!Next, Abstract!Bind
        <3> QED
            BY <3>7
    <2> QED
        BY <2>1, <2>2 DEF Next, IssueChallenge, ExpireChallenge, BeginEnroll, CommitEnroll,
                          BeginApprove, BeginReject, CommitReject, Abort, vars
<1> QED
    BY <1>1, <1>2, Invariant, PTL DEF Spec, ImplementsWorkerDevice, Abstract!Spec

----------------------------------------------------------------------------
(* Without an approval and a rejection of one enrollment at once.          *)

\* The enrollment of a rejection in flight is not bound.
RejectionUnbound ==
    /\ ActiveDeviceApproved
    /\ \A r \in Request : request[r].op = "reject" => binding[request[r].enrollment] = "NONE"

\* As long as no approval and rejection of one enrollment overlap, a device
\* that may sign is one whose enrollment stands approved (devices.py, reject).
THEOREM ActiveIsApproved == Spec /\ []NoBothDecide => []ActiveDeviceApproved
<1>1. Init => RejectionUnbound
    BY DEF Init, RejectionUnbound, ActiveDeviceApproved, Idle
<1>2. IInv /\ NoBothDecide /\ RejectionUnbound /\ [Next]_vars => RejectionUnbound'
    <2> SUFFICES ASSUME IInv, NoBothDecide, RejectionUnbound, [Next]_vars
                 PROVE  RejectionUnbound'
        OBVIOUS
    <2>0. TypeOK
        BY DEF IInv
    <2>1. ASSUME NEW r \in Request, CommitApprove(r), ~ UNCHANGED <<enrollment, binding>>
          PROVE  RejectionUnbound'
        <3> DEFINE d == request[r].enrollment
        <3>1. /\ d \in Row /\ request[r].others \in SUBSET Row
              /\ enrollment' = Decided(d, request[r].others)
              /\ binding' = Rebound(d, request[r].active)
              /\ \A e \in request[r].others \cup {d} : binding[e] = "NONE"
            BY <2>1, ApproveWrites
        <3>2. \A b \in request[r].active : binding[b] # "NONE"
            BY <2>1 DEF IInv, ApprovalSafe, CommitApprove
        <3>3. request' = [request EXCEPT ![r] = Idle] /\ request[r].op = "approve"
            BY <2>1 DEF CommitApprove
        <3>4. \A s \in Request : request[s].op = "reject" =>
                  request[s].enrollment \in Row /\ request[s].enrollment # d
            BY <3>3, RequestKind DEF NoBothDecide, BothDecide, TypeOK, IInv, RejectRequest
        <3> HIDE DEF d
        <3>5. \A s \in Request : request'[s].op = "reject" =>
                  binding'[request'[s].enrollment] = "NONE"
            BY <3>1, <3>2, <3>3, <3>4, <2>0 DEF TypeOK, Idle, Rebound, RejectionUnbound
        <3>6. ASSUME NEW e \in Row, binding'[e] = "ACTIVE"
              PROVE  enrollment'[e].status = "APPROVED"
            <4>1. CASE e = d
                BY <3>1, <4>1, <2>0 DEF Decided, TypeOK
            <4>2. CASE e # d
                <5>1. binding[e] = "ACTIVE" /\ e \notin request[r].others
                    BY <3>1, <3>6, <4>2 DEF Rebound
                <5> QED
                    BY <3>1, <4>2, <5>1 DEF Decided, RejectionUnbound, ActiveDeviceApproved
            <4> QED
                BY <4>1, <4>2
        <3> QED
            BY <3>5, <3>6 DEF RejectionUnbound, ActiveDeviceApproved
    <2>2. ASSUME NEW r \in Request, CommitReject(r) PROVE RejectionUnbound'
        <3>1. request[r].enrollment \in Row /\ binding[request[r].enrollment] = "NONE"
            BY <2>0, <2>2, RequestKind DEF CommitReject, TypeOK, RejectRequest, RejectionUnbound
        <3> QED
            BY <2>0, <2>2, <3>1 DEF CommitReject, TypeOK, Idle, RejectionUnbound, ActiveDeviceApproved
    <2>3. ASSUME NEW r \in Request, CommitEnroll(r) PROVE RejectionUnbound'
        <3>1. \A e \in Row : enrollment'[e] = enrollment[e] \/ enrollment[e].status = "NONE"
            BY <2>0, <2>3 DEF CommitEnroll, TypeOK
        <3>2. \A e \in Row : binding[e] = "ACTIVE" => enrollment'[e] = enrollment[e]
            BY <3>1 DEF IInv, PendingUnbound
        <3> QED
            BY <2>0, <2>3, <3>2 DEF CommitEnroll, TypeOK, Idle, RejectionUnbound, ActiveDeviceApproved
    <2>4. ASSUME NEW r \in Request, NEW e \in Row, BeginReject(r, e) PROVE RejectionUnbound'
        <3>1. binding[e] = "NONE"
            BY <2>4 DEF BeginReject, Decidable, IInv, PendingUnbound
        <3> QED
            BY <2>0, <2>4, <3>1 DEF BeginReject, TypeOK, RejectionUnbound, ActiveDeviceApproved
    <2>5. ASSUME UNCHANGED <<enrollment, binding>>,
                 \A r \in Request : request'[r] = request[r] \/ request'[r].op # "reject"
          PROVE  RejectionUnbound'
        BY <2>5 DEF RejectionUnbound, ActiveDeviceApproved
    <2>6. ASSUME NEW r \in Request, CommitApprove(r), UNCHANGED <<enrollment, binding>>
          PROVE  RejectionUnbound'
        BY <2>0, <2>5, <2>6 DEF CommitApprove, TypeOK, Idle
    <2>7. ASSUME NEW c \in Row, IssueChallenge(c) \/ ExpireChallenge(c) PROVE RejectionUnbound'
        BY <2>5, <2>7 DEF IssueChallenge, ExpireChallenge
    <2>8. ASSUME NEW r \in Request, NEW c \in Row, NEW k \in Key, BeginEnroll(r, c, k)
          PROVE  RejectionUnbound'
        BY <2>0, <2>5, <2>8 DEF BeginEnroll, TypeOK
    <2>9. ASSUME NEW r \in Request, NEW e \in Row, BeginApprove(r, e) PROVE RejectionUnbound'
        BY <2>0, <2>5, <2>9 DEF BeginApprove, TypeOK
    <2>10. ASSUME NEW r \in Request, Abort(r) PROVE RejectionUnbound'
        BY <2>0, <2>5, <2>10 DEF Abort, TypeOK, Idle
    <2>11. CASE UNCHANGED vars
        BY <2>5, <2>11 DEF vars
    <2> QED
        BY <2>1, <2>2, <2>3, <2>4, <2>6, <2>7, <2>8, <2>9, <2>10, <2>11 DEF Next
<1>3. RejectionUnbound => ActiveDeviceApproved
    BY DEF RejectionUnbound
<1> QED
    BY <1>1, <1>2, <1>3, Invariant, PTL DEF Spec

============================================================================
