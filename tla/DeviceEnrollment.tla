------------------------- MODULE DeviceEnrollment -------------------------
(***************************************************************************)
(* Enrollment of worker devices: backend/app/devices.py.                   *)
(*                                                                         *)
(* Handlers run in a thread pool, one database session each, under the     *)
(* READ COMMITTED isolation of PostgreSQL and without row locks.  So a     *)
(* handler that writes is two steps: Begin takes its reads and checks its  *)
(* guards, Commit writes what the code computed from those reads.  Between *)
(* the two any other handler may commit.  The only protection at Commit is *)
(* the constraints of the schema, which roll the whole request back.       *)
(***************************************************************************)
EXTENDS Integers, FiniteSets

CONSTANTS
    Worker,     \* the workers of one tenant
    Key,        \* public keys, by their thumbprint
    NoKey,      \* the key of a row that does not exist yet
    Request,    \* threads that serve requests
    RowNumber   \* bound: how many challenges and enrollments each worker has

ASSUME RowNumberAssumption == RowNumber \subseteq Nat

\* The ids of challenges and of enrollments: a row belongs to one worker.
Row == Worker \X RowNumber
WorkerOf(row) == row[1]

Idle == [op |-> "idle"]

VARIABLES
    challenge,  \* DeviceChallenge rows: status of each
    enrollment, \* DeviceEnrollment rows: status and key of each
    binding,    \* DeviceBinding rows: enrollment_id is UNIQUE, so it names the row
    shared,     \* audit rows DEVICE_SHARED_ACROSS_WORKERS, by enrollment
    request     \* what each thread has read and is about to commit

vars == <<challenge, enrollment, binding, shared, request>>

ChallengeStatus == {"NONE", "ISSUED", "USED", "EXPIRED"}
EnrollmentStatus == {"NONE", "PENDING", "APPROVED", "REJECTED", "SUPERSEDED"}
BindingStatus == {"NONE", "ACTIVE", "REVOKED"}

EnrollRequest == [op : {"enroll"}, challenge : Row, key : Key, existing : SUBSET Row]
ApproveRequest ==
    [op : {"approve"}, enrollment : Row, active : SUBSET Row,
     others : SUBSET Row, shared : BOOLEAN]
RejectRequest == [op : {"reject"}, enrollment : Row]

TypeOK ==
    /\ challenge \in [Row -> ChallengeStatus]
    /\ enrollment \in [Row -> [status : EnrollmentStatus, key : Key \cup {NoKey}]]
    /\ binding \in [Row -> BindingStatus]
    /\ shared \subseteq Row
    /\ request \in [Request -> {Idle} \cup EnrollRequest \cup ApproveRequest \cup RejectRequest]

----------------------------------------------------------------------------
(* What a handler reads.                                                   *)

Pending(w) == {e \in Row : WorkerOf(e) = w /\ enrollment[e].status = "PENDING"}
Active(w) == {e \in Row : WorkerOf(e) = w /\ binding[e] = "ACTIVE"}

\* A challenge is usable until it is used or expires.
Usable(c) == challenge[c] = "ISSUED"

\* The pending enrollment that a repeated request with the same key reuses:
\* the set of it, one of them if there are several, or {} if there is none.
Existing(w, k) ==
    LET same == {e \in Pending(w) : enrollment[e].key = k}
    IN IF same = {} THEN {{}} ELSE {{e} : e \in same}

\* The same key is active for another worker: one phone, two people.  Of two
\* approvals that overlap, neither finds the device of the other.
SharedWith(e) ==
    {b \in Row : /\ binding[b] = "ACTIVE"
                 /\ WorkerOf(b) # WorkerOf(e)
                 /\ enrollment[b].key = enrollment[e].key}

\* An approver can decide a pending enrollment only.
\* (Mutant DecidableAgain: the status is not part of the query.)
DecidableAgain(e) == enrollment[e].status # "NONE"
Decidable(e) == enrollment[e].status = "PENDING"

----------------------------------------------------------------------------
(* What the schema refuses.                                                *)

\* uq_active_device_per_worker: after the rows in `revoked` are revoked, an
\* ACTIVE binding of the worker of e is left besides the new one.
\* (Mutant NoActiveConflict: the index is not unique.)
NoActiveConflict(e, revoked) == FALSE
ActiveConflict(e, revoked) == Active(WorkerOf(e)) \ revoked # {}

\* device_bindings.enrollment_id is UNIQUE.
BindingConflict(e) == binding[e] # "NONE"

----------------------------------------------------------------------------
(* The handlers.                                                           *)

Init ==
    /\ challenge = [c \in Row |-> "NONE"]
    /\ enrollment = [e \in Row |-> [status |-> "NONE", key |-> NoKey]]
    /\ binding = [e \in Row |-> "NONE"]
    /\ shared = {}
    /\ request = [r \in Request |-> Idle]

\* POST /worker/device-enrollment/challenge
IssueChallenge(c) ==
    /\ challenge[c] = "NONE"
    /\ challenge' = [challenge EXCEPT ![c] = "ISSUED"]
    /\ UNCHANGED <<enrollment, binding, shared, request>>

\* Five minutes pass.
ExpireChallenge(c) ==
    /\ challenge[c] = "ISSUED"
    /\ challenge' = [challenge EXCEPT ![c] = "EXPIRED"]
    /\ UNCHANGED <<enrollment, binding, shared, request>>

\* POST /worker/device-enrollment/requests, up to its last read: the proof of
\* possession of key k over challenge c holds.  Nothing refuses the second of
\* two requests that find one challenge unused.
BeginEnroll(r, c, k) ==
    /\ request[r] = Idle
    /\ Usable(c)
    /\ \E existing \in Existing(WorkerOf(c), k) :
          request' = [request EXCEPT ![r] =
              [op |-> "enroll", challenge |-> c, key |-> k, existing |-> existing]]
    /\ UNCHANGED <<challenge, enrollment, binding, shared>>

CommitEnroll(r) ==
    /\ request[r].op = "enroll"
    /\ LET c == request[r].challenge IN
          /\ challenge' = [challenge EXCEPT ![c] = "USED"]
          /\ IF request[r].existing # {}
             THEN UNCHANGED enrollment
             ELSE \E e \in Row :
                    /\ WorkerOf(e) = WorkerOf(c)
                    /\ enrollment[e].status = "NONE"
                    /\ enrollment' = [enrollment EXCEPT ![e] =
                           [status |-> "PENDING", key |-> request[r].key]]
    /\ request' = [request EXCEPT ![r] = Idle]
    /\ UNCHANGED <<binding, shared>>

\* POST /device-enrollments/{id}/approve, up to its last read.
BeginApprove(r, e) ==
    /\ request[r] = Idle
    /\ Decidable(e)
    /\ request' = [request EXCEPT ![r] =
           [op |-> "approve", enrollment |-> e,
            active |-> Active(WorkerOf(e)),
            others |-> Pending(WorkerOf(e)) \ {e},
            shared |-> SharedWith(e) # {}]]
    /\ UNCHANGED <<challenge, enrollment, binding, shared>>

\* The enrollments after e is approved and the others it saw are superseded.
\* (Mutant DecidedActive: a device status is written to the enrollment.)
DecidedActive(e, others) ==
    [x \in Row |->
        IF x = e THEN [enrollment[x] EXCEPT !.status = "ACTIVE"] ELSE enrollment[x]]
Decided(e, others) ==
    [x \in Row |->
        IF x = e THEN [enrollment[x] EXCEPT !.status = "APPROVED"]
        ELSE IF x \in others THEN [enrollment[x] EXCEPT !.status = "SUPERSEDED"]
        ELSE enrollment[x]]

\* The bindings after e is bound in the place of those in revoked.
Rebound(e, revoked) ==
    [x \in Row |->
        IF x = e THEN "ACTIVE"
        ELSE IF x \in revoked THEN "REVOKED"
        ELSE binding[x]]

CommitApprove(r) ==
    /\ request[r].op = "approve"
    /\ LET e == request[r].enrollment
           revoked == request[r].active
       IN IF ActiveConflict(e, revoked) \/ BindingConflict(e)
          THEN UNCHANGED <<enrollment, binding, shared>>
          ELSE /\ enrollment' = Decided(e, request[r].others)
               /\ binding' = Rebound(e, revoked)
               /\ shared' = IF request[r].shared THEN shared \cup {e} ELSE shared
    /\ request' = [request EXCEPT ![r] = Idle]
    /\ UNCHANGED challenge

\* POST /device-enrollments/{id}/reject, up to its last read.
BeginReject(r, e) ==
    /\ request[r] = Idle
    /\ Decidable(e)
    /\ request' = [request EXCEPT ![r] = [op |-> "reject", enrollment |-> e]]
    /\ UNCHANGED <<challenge, enrollment, binding, shared>>

\* The UPDATE names the row by its id only: whatever its status has become,
\* it is overwritten.
CommitReject(r) ==
    /\ request[r].op = "reject"
    /\ enrollment' = [enrollment EXCEPT ![request[r].enrollment].status = "REJECTED"]
    /\ request' = [request EXCEPT ![r] = Idle]
    /\ UNCHANGED <<challenge, binding, shared>>

\* The process dies, the connection drops or the database picks the request as
\* a deadlock victim: get_db closes the session and nothing it wrote remains.
\* (Mutant AbortAfterRevoke: the revocation is committed on its own, before
\* the new binding is inserted.)
AbortAfterRevoke(r) ==
    /\ request[r] # Idle
    /\ binding' = [e \in Row |->
           IF request[r].op = "approve" /\ e \in request[r].active
           THEN "REVOKED" ELSE binding[e]]
    /\ request' = [request EXCEPT ![r] = Idle]
    /\ UNCHANGED <<challenge, enrollment, shared>>
Abort(r) ==
    /\ request[r] # Idle
    /\ request' = [request EXCEPT ![r] = Idle]
    /\ UNCHANGED <<challenge, enrollment, binding, shared>>

Next ==
    \/ \E c \in Row : IssueChallenge(c) \/ ExpireChallenge(c)
    \/ \E r \in Request :
          \/ \E c \in Row, k \in Key : BeginEnroll(r, c, k)
          \/ \E e \in Row : BeginApprove(r, e) \/ BeginReject(r, e)
          \/ CommitEnroll(r)
          \/ CommitApprove(r)
          \/ CommitReject(r)
          \/ Abort(r)

Spec == Init /\ [][Next]_vars

----------------------------------------------------------------------------
(* Properties.                                                             *)

\* However approvals overlap, a worker never has two ACTIVE bindings: the
\* revocation in approve sees a stale set, and the partial unique index
\* must refuse every approval that would leave two.
OneActiveDevice ==
    \A w \in Worker : \A a, b \in Active(w) : a = b

\* An enrollment that an approval superseded is never bound to a device, not
\* even by an approval of it that was already under way, and an enrollment
\* that is bound is never superseded.
SupersededStaysUnbound ==
    [][\A e \in Row :
          enrollment[e].status = "SUPERSEDED" \/ enrollment'[e].status = "SUPERSEDED"
          => binding'[e] = "NONE"]_vars

\* The registry implements the promise of WorkerDevice: at most one device,
\* swapped in one step, never brought back.
Abstract == INSTANCE WorkerDevice WITH
    Device <- Row,
    current <- [w \in Worker |-> Active(w)],
    bound <- {e \in Row : binding[e] # "NONE"}
ImplementsWorkerDevice == Abstract!Spec

\* One overlap leaves a device that no decision stands behind: that of an
\* approval and a rejection of one enrollment.
BothDecide(r, s) ==
    /\ request[r].op = "approve" /\ request[s].op = "reject"
    /\ request[r].enrollment = request[s].enrollment
NoBothDecide == \A r, s \in Request : r # s => ~ BothDecide(r, s)

\* The device that may sign is one whose enrollment stands approved: no later
\* decision leaves a rejected or superseded enrollment with a working device.
\* (As long as NoBothDecide.)
ActiveDeviceApproved ==
    \A e \in Row : binding[e] = "ACTIVE" => enrollment[e].status = "APPROVED"
============================================================================
