---------------------------- MODULE Attendance ----------------------------
(***************************************************************************)
(* Check-in and check-out of one worker, through the mobile PWA            *)
(* (backend/app/attendance.py) and through the light web page              *)
(* (backend/app/worker_web.py), and the supervisor's review.  Every query  *)
(* of these handlers is filtered by tenant and worker, so one worker's     *)
(* rows are a closed world.                                                *)
(*                                                                         *)
(* A handler that writes is two steps, Begin (reads and guards) and Commit *)
(* (writes, subject to the schema's constraints): sessions run under READ  *)
(* COMMITTED and lock nothing.  Issuing a challenge is one step: the new   *)
(* row depends on what was read and on nothing that can change meanwhile.  *)
(***************************************************************************)
EXTENDS Integers, Sequences, FiniteSets, SequencesExt

CONSTANTS
    Project,        \* projects of the tenant
    NoProject,      \* "no project": none asked for, or none assigned
    Assigned,       \* Assigned[d]: the project of the worker's assignment on a
                    \* scheduled working day d, NoProject if there is none
    LastDay,        \* bound: the days are 0..LastDay
    Challenge,      \* bound: the challenges that are ever issued
    NoChallenge,    \* challenge_id NULL
    Request,        \* threads that serve requests
    Channel,        \* the ways in that the tenant uses: "mobile", "web"
    Multi,          \* tenants.allow_multi_checkin
    UniqueChallenge,\* attendance_events.challenge_id is UNIQUE: so in Alembic
                    \* 0004, not so in the tables created from models.py
    Fix,            \* GPS fixes the worker can send
    Radius,         \* geofence_radius_m, in metres
    MaxEvents       \* bound: attendance events

ASSUME AttendanceAssumption ==
    /\ LastDay \in Nat /\ MaxEvents \in Nat /\ Radius \in Nat
    /\ NoProject \notin Project /\ NoChallenge \notin Challenge
    /\ Assigned \in [0..LastDay -> Project \cup {NoProject}]
    /\ Channel \subseteq {"mobile", "web"}
    /\ Multi \in BOOLEAN
    /\ UniqueChallenge \in BOOLEAN
    /\ Fix \subseteq [distance : Nat, accuracy : Nat]

Day == 0..LastDay
Type == {"CHECK_IN", "CHECK_OUT"}
Status == {"VALID", "REVIEW", "REJECTED"}

Event ==
    [type : Type, project : Project, day : Day, status : Status,
     auto : BOOLEAN, device : BOOLEAN, challenge : Challenge \cup {NoChallenge}]

ChallengeRow ==
    [state : {"ISSUED", "USED", "EXPIRED"}, type : Type, project : Project, day : Day]
Unissued == [state |-> "NONE"]

SubmitRequest == [op : {"submit"}, challenge : Challenge, rows : Seq(Event)]
ReviewRequest == [op : {"review"}, event : Nat \ {0}, verdict : {"VALID", "REJECTED"}]
Idle == [op |-> "idle"]

VARIABLES
    today,      \* the tenant's local date
    enrolled,   \* the worker has an ACTIVE device binding
    challenge,  \* AttendanceChallenge rows
    log,        \* AttendanceEvent rows in the order of server_time
    request     \* what each thread has read and is about to commit

vars == <<today, enrolled, challenge, log, request>>

TypeOK ==
    /\ today \in Day
    /\ enrolled \in BOOLEAN
    /\ challenge \in [Challenge -> {Unissued} \cup ChallengeRow]
    /\ log \in Seq(Event)
    /\ request \in [Request -> {Idle} \cup SubmitRequest \cup ReviewRequest]

----------------------------------------------------------------------------
(* Reading the log.                                                        *)

Counted(e) == e.status \in {"VALID", "REVIEW"}

\* The counted check-ins of day d: their positions.
CountedIns(d) ==
    {i \in 1..Len(log) : log[i].day = d /\ log[i].type = "CHECK_IN" /\ Counted(log[i])}

\* The project of the latest counted check-in of day d.
LatestIn(d) == IF CountedIns(d) = {} THEN NoProject ELSE log[Max(CountedIns(d))].project

\* How many check-ins at p are open after the events of day d: a counted
\* check-in opens one, a valid check-out closes one if there is one.
OpenCount(p, d) ==
    LET open[i \in 0..Len(log)] ==
            IF i = 0 THEN 0
            ELSE IF log[i].day # d \/ log[i].project # p \/ ~ Counted(log[i]) THEN open[i - 1]
            ELSE IF log[i].type = "CHECK_IN" THEN open[i - 1] + 1
            ELSE IF log[i].status = "VALID" /\ open[i - 1] > 0 THEN open[i - 1] - 1
            ELSE open[i - 1]
    IN open[Len(log)]

OpenProjects(d) == {p \in Project : OpenCount(p, d) > 0}

\* attendance_status: what the distance and accuracy of a fix are worth.
AttendanceStatus(fix) ==
    IF fix.accuracy > 150 THEN "REJECTED"
    ELSE IF fix.distance <= Radius /\ fix.accuracy <= 50 THEN "VALID"
    ELSE IF fix.distance <= Radius + fix.accuracy THEN "REVIEW"
    ELSE "REJECTED"

\* assignment_for_today: where a worker who asks for `asked` may sign today,
\* {} if the request is refused.
AssignedToday(asked) ==
    IF Assigned[today] = NoProject THEN {}
    ELSE IF asked # NoProject /\ Multi THEN {asked}
    ELSE IF asked \in {NoProject, Assigned[today]} THEN {Assigned[today]}
    ELSE {}

----------------------------------------------------------------------------
(* Challenges.                                                             *)

Init ==
    /\ today = 0
    /\ enrolled \in BOOLEAN
    /\ challenge = [c \in Challenge |-> Unissued]
    /\ log = <<>>
    /\ request = [r \in Request |-> Idle]

Issue(c, type, p) ==
    /\ challenge[c] = Unissued
    /\ challenge' = [challenge EXCEPT ![c] =
           [state |-> "ISSUED", type |-> type, project |-> p, day |-> today]]
    /\ UNCHANGED <<today, enrolled, log, request>>

\* POST /worker/attendance/challenge for a check-in.
MobileChallengeIn(c, asked) ==
    /\ "mobile" \in Channel
    /\ enrolled
    /\ LatestIn(today) # NoProject => Multi /\ asked # LatestIn(today)
    /\ \E p \in AssignedToday(asked) : Issue(c, "CHECK_IN", p)

\* POST /worker/attendance/challenge for a check-out.
MobileChallengeOut(c, asked) ==
    /\ "mobile" \in Channel
    /\ enrolled
    /\ LatestIn(today) # NoProject
    /\ LET target == IF asked = NoProject THEN LatestIn(today) ELSE asked IN
          /\ target = LatestIn(today) \/ Multi
          /\ \E p \in AssignedToday(target) : Issue(c, "CHECK_OUT", p)

\* Both web challenges fall back on the project of the latest check-in.
WebTarget(asked) == (IF asked = NoProject THEN {LatestIn(today)} ELSE {asked}) \ {NoProject}

\* POST /worker-web/challenge for a check-in.
WebMayCheckIn(asked) ==
    /\ asked \notin OpenProjects(today)
    /\ ~ (asked # NoProject /\ asked = LatestIn(today) /\ ~ Multi)

WebChallengeIn(c, asked) ==
    /\ "web" \in Channel
    /\ WebMayCheckIn(asked)
    /\ \E p \in WebTarget(asked) : Issue(c, "CHECK_IN", p)

\* POST /worker-web/challenge for a check-out.
WebChallengeOut(c, asked) ==
    /\ "web" \in Channel
    /\ OpenProjects(today) # {}
    /\ \E p \in WebTarget(asked) : Issue(c, "CHECK_OUT", p)

\* Two minutes pass.
ExpireChallenge(c) ==
    /\ challenge[c].state = "ISSUED"
    /\ challenge' = [challenge EXCEPT ![c].state = "EXPIRED"]
    /\ UNCHANGED <<today, enrolled, log, request>>

----------------------------------------------------------------------------
(* Submitting an event.                                                    *)

\* A challenge is good for one event: unused and not expired.
Usable(c) == challenge[c].state = "ISSUED"

\* The check-out that moving away from the site of check-in e records.
AutoCheckOut(e, c) ==
    [type |-> "CHECK_OUT", project |-> e.project, day |-> e.day, status |-> "VALID",
     auto |-> TRUE, device |-> enrolled, challenge |-> c]

\* The rows of a submission with challenge c on day d: the automatic
\* check-outs of the check-ins `left`, in whatever order the query gave them,
\* then the event itself.
Rows(c, d, left, fix, autoChallenge) ==
    [i \in 1..Cardinality(left) |-> AutoCheckOut(log[SetToSeq(left)[i]], autoChallenge)]
        \o << [type |-> challenge[c].type, project |-> challenge[c].project, day |-> d,
               status |-> AttendanceStatus(fix), auto |-> FALSE, device |-> enrolled,
               challenge |-> c] >>

\* The app leaves every other site the worker was counted in on the
\* challenge's day, whether or not that check-in is still open.
MobileLeft(c) ==
    IF challenge[c].type = "CHECK_IN" /\ Multi
    THEN {i \in CountedIns(challenge[c].day) : log[i].project # challenge[c].project}
    ELSE {}

\* The web page leaves every other site that is open today.
\* (Mutant WebLeftValid: a check-in under review is not left.)
WebLeftValid(c) ==
    IF challenge[c].type = "CHECK_IN" /\ Multi
    THEN {i \in CountedIns(today) :
             /\ log[i].project # challenge[c].project
             /\ log[i].project \in OpenProjects(today)
             /\ log[i].status = "VALID"}
    ELSE {}
WebLeft(c) ==
    IF challenge[c].type = "CHECK_IN" /\ Multi
    THEN {i \in CountedIns(today) :
             /\ log[i].project # challenge[c].project
             /\ log[i].project \in OpenProjects(today)}
    ELSE {}

Begin(r, c, rows) ==
    /\ request[r] = Idle
    /\ Len(log) + Len(rows) <= MaxEvents
    /\ request' = [request EXCEPT ![r] = [op |-> "submit", challenge |-> c, rows |-> rows]]
    /\ UNCHANGED <<today, enrolled, challenge, log>>

\* POST /worker/attendance/events: the event belongs to the day of the
\* challenge, and automatic check-outs repeat the challenge's id.
BeginMobileSubmit(r, c, fix) ==
    /\ "mobile" \in Channel
    /\ enrolled
    /\ Usable(c)
    /\ Begin(r, c, Rows(c, challenge[c].day, MobileLeft(c), fix, c))

\* POST /worker-web/events: the event belongs to the day it is submitted, and
\* automatic check-outs have no challenge.
BeginWebSubmit(r, c, fix) ==
    /\ "web" \in Channel
    /\ Usable(c)
    /\ Begin(r, c, Rows(c, today, WebLeft(c), fix, NoChallenge))

\* The schema refuses the rows: one of them repeats a challenge.
\* (Mutant NeverRefused: the tables have no such constraint.)
NeverRefused(rows) == FALSE
Refused(rows) ==
    /\ UniqueChallenge
    /\ \E i, j \in 1..Len(log \o rows) :
          /\ i # j
          /\ (log \o rows)[i].challenge = (log \o rows)[j].challenge
          /\ (log \o rows)[i].challenge # NoChallenge

\* The commit of a submission: all rows and the use of the challenge, or
\* nothing (the server answers 500).
CommitSubmit(r) ==
    /\ request[r].op = "submit"
    /\ IF Refused(request[r].rows)
       THEN UNCHANGED <<challenge, log>>
       ELSE /\ log' = log \o request[r].rows
            /\ challenge' = [challenge EXCEPT ![request[r].challenge].state = "USED"]
    /\ request' = [request EXCEPT ![r] = Idle]
    /\ UNCHANGED <<today, enrolled>>

----------------------------------------------------------------------------
(* Review, and the world around.                                           *)

\* POST /attendance/{event_id}/review, up to its last read.
Reviewable(i) == log[i].status = "REVIEW"

BeginReview(r, i, verdict) ==
    /\ request[r] = Idle
    /\ Reviewable(i)
    /\ request' = [request EXCEPT ![r] = [op |-> "review", event |-> i, verdict |-> verdict]]
    /\ UNCHANGED <<today, enrolled, challenge, log>>

CommitReview(r) ==
    /\ request[r].op = "review"
    /\ log' = [log EXCEPT ![request[r].event].status = request[r].verdict]
    /\ request' = [request EXCEPT ![r] = Idle]
    /\ UNCHANGED <<today, enrolled, challenge>>

\* The worker's first device is approved.  From then on there always is one:
\* DeviceEnrollment implements WorkerDevice.
ApproveDevice ==
    /\ ~ enrolled
    /\ enrolled' = TRUE
    /\ UNCHANGED <<today, challenge, log, request>>

\* Midnight.  A challenge lives two minutes, so none survives a whole day.
NextDay ==
    /\ today < LastDay
    /\ \A c \in Challenge : challenge[c].state = "ISSUED" => challenge[c].day = today
    /\ today' = today + 1
    /\ UNCHANGED <<enrolled, challenge, log, request>>

\* The request fails before it commits: its session is closed, nothing stays.
Abort(r) ==
    /\ request[r] # Idle
    /\ request' = [request EXCEPT ![r] = Idle]
    /\ UNCHANGED <<today, enrolled, challenge, log>>

AttendanceStep ==
    \/ \E c \in Challenge, asked \in Project \cup {NoProject} :
          \/ MobileChallengeIn(c, asked) \/ MobileChallengeOut(c, asked)
          \/ WebChallengeIn(c, asked) \/ WebChallengeOut(c, asked)
    \/ \E c \in Challenge : ExpireChallenge(c)
    \/ \E r \in Request :
          \/ \E c \in Challenge, fix \in Fix :
                BeginMobileSubmit(r, c, fix) \/ BeginWebSubmit(r, c, fix)
          \/ \E i \in 1..Len(log), verdict \in {"VALID", "REJECTED"} : BeginReview(r, i, verdict)
          \/ CommitSubmit(r)
          \/ CommitReview(r)
          \/ Abort(r)
    \/ ApproveDevice
    \/ NextDay

Spec == Init /\ [][AttendanceStep]_vars

\* The requests that overlap are submissions of one challenge.
OneChallengeAtATime ==
    \A r, s \in Request :
        r # s /\ request[r] # Idle /\ request[s] # Idle =>
            /\ request[r].op = "submit" /\ request[s].op = "submit"
            /\ request[r].challenge = request[s].challenge

----------------------------------------------------------------------------
(* Properties.                                                             *)

\* A challenge is the proof of one event, however many submissions carry it:
\* the code checks used_at before it commits, so it is the UNIQUE constraint
\* on attendance_events.challenge_id that must keep this.
ChallengeSingleUse ==
    \A i, j \in 1..Len(log) :
        ~ log[i].auto /\ ~ log[j].auto /\ log[i].challenge = log[j].challenge => i = j

\* A tenant that lets its workers move between sites: whatever was checked,
\* reviewed or rejected before, a worker is at one open site at most.
OneOpenSite == \A d \in Day : \A p, q \in OpenProjects(d) : p = q

\* "Duplicate accepted check-in/check-out events are blocked": at most one
\* counted check-in a day for a tenant that does not let workers move.
NoDuplicateCheckIn == ~ Multi => \A d \in Day : Cardinality(CountedIns(d)) <= 1
============================================================================
