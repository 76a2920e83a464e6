# Faztrack Attendance: TLA+ models and proofs

Faztrack Attendance is a multi-tenant FastAPI service (`backend/app`) in which workers
sign their attendance from enrolled phones, supervisors review it, administrators close
timesheets, and a second generation of engines turns rosters and field events into
operational exceptions. This directory holds TLA+ models of it, the TLC configurations
that check them and TLAPS proofs about them. Paths below are relative to the repository.

## 1. What runs, and what makes it hard

Every endpoint is a synchronous function that FastAPI runs in a thread pool, with one
SQLAlchemy session per request (`database.py`: no autoflush; closing the session rolls
back whatever was not committed). Production is PostgreSQL at its default READ COMMITTED.
No query takes a row lock (`with_for_update` appears nowhere), no version column exists,
and no handler catches an integrity error. A handler therefore reads, decides and commits,
and other handlers may commit in between. The only thing that is still true at commit is
what a constraint of the schema enforces. This is the shape of every module here:

* **Begin**: one step takes all the reads of a handler and checks all its guards, and
  stores what it will write in `request[thread]`;
* **Commit**: a later step writes, unless a constraint refuses, in which case nothing is
  written (the server answers 500);
* **Abort**: at any time in between, the request is lost and nothing of it remains.

That is the first generation, which the endpoints serve. The engines of the second
generation (canonical events, checkpoints, rules, equipment, roster) are library code: no
endpoint calls them, only the tests, the seeds and each other. Each of their operations is
therefore one transaction, taken in one step; what overlaps, dies or is repeated is the
sequence of calls that a caller makes, as the end-to-end tests make it.

Except in `MasterDataImport`, the reads of one handler are taken together. Under READ COMMITTED each statement has its
own snapshot, so the real handler can read a little later than the model; where that
matters for a guard the commit-time constraint decides anyway, and the violations found
below all need only the coarser steps. Times (five-minute and two-minute challenges,
midnight) are nondeterministic events.

### Inventory

| Component | State | Operations | Correct means |
|---|---|---|---|
| Device enrollment (`devices.py`) | challenges, enrollments, bindings | challenge, request, approve, reject | one active device per worker, swapped atomically; superseded requests stay dead |
| Attendance, app (`attendance.py`) | challenges, events | challenge, submit, review | one event per challenge; check-out after check-in; no duplicates |
| Attendance, web page (`worker_web.py`) | same tables | challenge, submit, read-only status | one open site at a time; moves are recorded |
| Timesheets (`timesheets.py`) | closed periods | derive, close, policy | a snapshot is final |
| Exception cases (`exception_engine.py`, `exceptions.py`) | cases, actions | create, acknowledge, resolve, waive | the audit rows account for every status and time |
| Decisions (`decision_engine.py`) | decisions, their actions | request, approve, reject, cancel | decided once |
| Review (`review_service.py`) | actions, evidence | note, assign, evidence | remarks never change a status |
| Workbench, dashboard | none (projections) | queue, detail, snapshot | what is offered and shown agrees with the tables; states follow the shift |
| Master-data import (`master_data.py`, `imports.py`) | batches, projects, workers, assignments, schedules | preview, confirm | every row is of a confirmed batch, every confirmed batch is whole; retries are idempotent |
| Equipment (`equipment_engine.py`) | plans, actual assignments, discrepancies | assign, close, compare, substitute | no overlap of a worker or a machine; a case has a cause of its kind |
| Canonical events (`canonical_event_service.py`) | raw and canonical events | ingest, normalise, adapt | one canonical event per raw event, on the right operating date |
| Checkpoints (`checkpoint_engine.py`) | checkpoint results | validate, sequence, missing | each expected checkpoint has one verdict |
| Operational rules (`operational_rule_engine.py`) | evaluations | evaluate | one evaluation per evidence; the verdict the wall clock gives |
| Roster (`roster_generator.py`, `roster_validator.py`, `rule_versioning.py`, the seeds) | policy, rule versions, assignments, validation exceptions | seed, import, snapshot, validate | the cycle arithmetic; the rows are the decided plan; history is not rewritten |
| Roster board (`roster_service.py`) | none (projection) | board, worker detail | shows where a worker is |
| Reports (`report_service.py`) | none (projections) | queries, exports | totals agree with rows |
| Tenancy, tokens, signatures | tokens | login | outside the models: every query is filtered by tenant, so one tenant is modelled |

Interactions: attendance needs the active binding that enrollment maintains; timesheets
read the attendance log while it grows; master data decides where a worker is assigned;
canonical events feed checkpoints, rules and equipment comparison, whose failures become
exception cases, about which decisions are asked for; workbench, dashboard, roster board
and reports read all of it.

The behaviours no unit test reaches are listed under `hazards` in `PROJECT.json`, each at
its line: overlapping approvals and reviews, single-use tokens under overlap, challenges
that outlive midnight or the check-in they were issued for, constraints that replaced or
failed to replace a check, state written before an exception that rolls it back,
deliveries that repeat or die half way, jobs that run before the event they judge arrives,
shifts across midnight in two time zones, and scripts that commit twice.

## 2. Modules

### WorkerDevice, DeviceEnrollment (`devices.py`)

`WorkerDevice` is the promise: a worker has at most one device, `Bind(w, d)` puts a never
bound device in the place of the old one in a single step. `DeviceEnrollment` is the code:
`challenge`, `enrollment` and `binding` are the three tables (a binding is named by its
enrollment, `enrollment_id` being UNIQUE), `shared` the audit rows of a shared phone, written
for the phones that an approval found: of two that overlap neither finds the other's.
`BeginEnroll`/`CommitEnroll`, `BeginApprove`/`CommitApprove`
and `BeginReject`/`CommitReject` are the three handlers. `ActiveConflict` is the partial
unique index of one ACTIVE binding per worker. A rejection commits by id whatever the row
has become, as the UPDATE of the code does.

### Attendance (`attendance.py`, `worker_web.py`)

One worker: every query is filtered by worker. `challenge` and `log` are the two tables,
`log` in the order of `server_time`; `enrolled` says whether a binding is ACTIVE (it never
goes away: that is `WorkerDevice`). The app's and the web page's handlers act on the same
log but differ, and the model keeps their differences: the app takes the day from the
challenge, the web page from the clock; the app leaves every other site it was counted in,
the web page the ones that are open (`OpenCount`, the code's running counter); the app's
automatic check-outs repeat the challenge's id, the web page's have none. A GPS fix is a
distance and an accuracy; `AttendanceStatus` is the code's thresholds.
`BeginReview`/`CommitReview` are the supervisor's.

`UniqueChallenge` tells two deployments apart. Alembic 0004 makes `challenge_id` UNIQUE (and
`migrate_lumin_multicheckin.py` lets it be NULL and drops the index of one counted event of
each type a day): every run here sets it. Tables that `create_all` makes from `models.py`
have no UNIQUE on it, and NOT NULL: there the single use of a challenge rests on reading
`used_at` alone, and every move by the web page is refused. That variant is not run.

### Timesheet (`timesheets.py`)

Extends `Attendance` with `period` (the snapshot of each closed period) and `closing` (what
each closer has derived). `StateOf` is `derive`'s verdict on a day; the order of the guards
in `BeginClose` is the code's, with the idempotent answer last.

### ExceptionReview (`exception_engine.py`, `decision_engine.py`, `review_service.py`, `exceptions.py`)

Rows for cases and decisions, and `history` for their audit rows. A transition is validated
against the status that was read and written to the row by its id, whatever that has become;
so are decisions. An approval that no policy authorizes is answered 403: the engine marks the
decision, raises, and the session is closed without a commit, so that nothing changes and it is
no step of the model (`Approve`).

### MasterDataImport (`master_data.py`, `imports.py`)

`batch` and `table` are the rows of the import batches and of the five tables of master data
(a row is a key and a value); `order` is a history variable. A sheet is the sequence of its
lines as `confirm` takes them. Here the reads of one handler are not taken together: each
line looks its row up in a step of its own (`ReadRow`), so that another confirmation can
commit between two lines. `Written` is what the unit of work of the session leaves behind: a
column is written only if it differs from what was read, the session does not read a loaded
row again, and it flushes after each project and worker but not after the other rows, so a
sheet with two new rows of one key fails as a whole (`Refused`).

### ExceptionDesk (workbench, dashboard, board badge, exception report)

Extends `ExceptionReview` with the queries over its tables, as operators: the queue, the
actions and decisions that the workbench offers, what the dashboard says needs action (two
lists, each cut at `ActionLimit` by a query of its own), the badges of a worker, and the times
that the exception report reads off the audit rows. Board and dashboard look the decisions of a
worker up by the worker, not by a case: `PlannedOf` and `ActualOf` say whom a decision names.
They keep no state; `OffersAgree` and `ReportedTimesAgree` relate them to what the engines
accept and to the columns of the case.

### ShiftTime, CanonicalEvents, CheckpointEngine, OperationalRules, EventPipeline

One pipeline, each module extending the one before.

`ShiftTime` is the arithmetic the three engines share: zones (site, else tenant), local date
and time, the operating date of an instant, the boundaries of a shift that may cross
midnight. Time is counted in slots; a shift template is its times of day.

`CanonicalEvents` has `roster`, `raw` and `canonical`. `occurrence` is what a source saw and
never changes: messages are deliveries of it, with an id and perhaps a fingerprint.
`Duplicates` is the look-up of `ingest_raw_event`, `RawRefused` the one constraint behind it;
`Resolve` is `resolve_operating_date`.

`CheckpointEngine` adds `results` and `missing`: `Validated` is the verdict of the policy's
window, `MissingOf` what the job declares. `SequenceViolations` compares checkpoints that are
neighbours in time by their places in the list of policies (`Rankings`): the list is sorted by
`sequence_order`, and policies of one order stand in it in any order. A policy that is switched
off gives a row without a look-up: the second time the constraint refuses it and the call ends
(`ProcessRefused`). Nothing in the code ever takes a `missing` row back, and nothing in the
model does.

`OperationalRules` adds `evaluations`. Each rule is an operator over roster, policies,
results, event and clock; `Verdicts` is the list of `evaluate_all_rules`, `Stored` its
idempotence (`_check_existing`), `Refused` the foreign key that a briefing policy without a
window violates, with which the whole call fails.

`EventPipeline` composes them: callers (`call`) take a delivery through look-up, insert,
canonical event, checkpoint and rules, one transaction each, overlap, and die between any
two (`Crash`); the old flow's events are adapted, events are judged again, the jobs of a day
(`Detect`, `JudgeDay`) run at any time, and the clock advances. A caller that dies after
`Ingest` leaves a raw row PENDING for ever: later deliveries are duplicates of it.

`ShiftViews` adds the operational state that dashboard and board derive from the events that
have arrived.

### EquipmentAssignment, EquipmentViews (`equipment_engine.py`)

`actual`, `comparisons`, `discrepancies`, `evaluations`, `cases` are the five tables.
`Create` and `CheckIn` have all the guards of `create_actual_assignment`; `Close` looks for
no overlap, as the code does not. `Substitutions` is a set of possible results because
`detect_substitution` takes whichever roster row the query gives first.
`EquipmentViews` has the three ways in which dashboard, board and worker detail pick the
machine to show. The dashboard has loaded the codes of planned machines only (`Loaded`); for
another machine the page is not answered, so `DashboardRows` has no such row.

### RosterRules, RosterSeeding (`roster_generator.py`, `roster_validator.py`, `rule_versioning.py`, `seed_metro.py`, `seed_metro_standalone.py`)

`RosterRules` has the two pure parts: the plan of a day (`PlanOf`, from the cycle position) and
the objections of the validators V1 to V4 (`Duties`) and V6 to V8 (`AllOf`; the three
reasons for which a machine is unfit are one). `RosterSeeding` has the state: policy rows,
rule versions, roster rows and recorded exceptions, to begin with those that earlier releases
left (`earlier` are the worker and date of such rows; `Fresh` are the rows that this release's
seed makes). Both scripts commit twice (`snapshot_rules` commits on its own), so each is two
actions with `run` in between, and `Fail` is a death or an error in between: policy and version
stay, rows do not. Either script finds rows by their ids and leaves those it finds as they are:
the import passes a row over whose id is taken and is refused if a new id is for a worker and
date that are taken (`NewOf`); it also fills the version in wherever a row has none
(`Backfilled`). V8 objections are recorded for no employee (`Unknown`), as the validator does.

## 3. Runs

Every run is safety: handlers run when a client calls and engines when a test or a script
does; nothing polls, retries or is scheduled, so the code justifies no fairness and nothing
is claimed to happen eventually. `CHECK_DEADLOCK FALSE` where the bounded workload (row
ids, challenges, events, actions) really runs out. Symmetry is over
ids that the modules never compare otherwise; action properties and refinements that are
checked under it are themselves symmetric and have no liveness part.

The code takes no lock, and some overlaps do break what one would like to promise. The models
allow all of them. A property is stated so that it survives them, or it is not stated and the
divergence is listed below; two runs leave overlaps out, and say so:

| Constraint | Left out | Why |
|---|---|---|
| `OneChallengeAtATime` of `Attendance` (`Attendance_close`) | requests about different challenges or events, at once | two moves at once leave two sites open; no document speaks of it. The requests that do overlap are submissions of one challenge, from either side |
| `NoTwinDeliveries` of `EventPipeline` (`EventPipeline_night`) | two deliveries of one fingerprint under two ids, both past their look-up | two canonical events: no constraint is on the fingerprint (`canonical_event_service.py:84`) |
| `OnePeriod`, `Bounded` of `MCTimesheet` | a second period; more than 2 challenges and 3 events in the days of a close, but for the last of a day's three | nothing: bounds only |
| `FewAssignments` of `MCEquipment` | a third assignment | nothing: a bound only |

`NoBothDecide`, `RowsApart` and `OneBatchAtATime` are hypotheses of theorems (section 4) and
constrain no run. TLC drops the states that a constraint rejects and checks all others.

| Run | Checks | Bounds, and why they are enough |
|---|---|---|
| `DeviceEnrollment_overlap` | `TypeOK`, `OneActiveDevice`, `SupersededStaysUnbound`, `ImplementsWorkerDevice` | 1 worker, 2 keys, 3 rows, 2 requests: an old device, a pending one and a rival, requests repeated, approvals under approvals, rejections under both, aborts anywhere. Workers meet only in a shared phone, which no property is about |
| `Attendance_close` | `TimesheetTypeOK`, `ChallengeSingleUse`, `OneOpenSite`, `SnapshotStands` | 2 sites, 3 challenges, 4 events, 3 days (the second a day off), both ways in, 2 requests: there and back again with a review and a midnight in between, each challenge sent twice at once; 2 closers of one period of all projects (any range of days) beside each other and beside late submissions. The snapshots of two closers differ only after three challenges of one day, hence the bound |
| `ExceptionReview_overlap` | `TypeOK`, `HistoryAccounts`, `OffersAgree`, `ReportedTimesAgree` | 1 case, 2 decisions of 1 type, 2 requests, 3 actions: every path of both tables, every pair of requests on one row, and the views at each point; 2 workers, one the planned of one decision and the actual of both. Cases never meet |
| `MasterDataImport_confirm` | `TypeOK`, `RowsAttested` | 3 batches of 7 sheets, 2 requests, without a constraint: an old, a new and a retried batch, rows repeated in a sheet, every reason to be rejected or refused |
| `EventPipeline_night` | `TypeOK`, `OneEventPerOccurrence`, `VerdictsAreReal`, `BookedOnItsShift`, `AbsenceIsReal`, `NotYetMissing`, `OneVerdictPerEvidence`, `StateNeverFallsBack` | 1 worker (workers never meet), a night across midnight and the date after it (rest, another night, or off site: 3 rosters), days of 12 slots, 2 messages of 4 occurrences (in time, late by one slot, out of order, the same twice), 2 callers, a check-out of the old flow, instants 6 (during the shift) and 11 (after it), 2 canonical events: one caller overlaps, repeats or outlives the other, and every job runs before and after each event. Order, tolerance and both zones differ where it matters |
| `EventPipeline_order` | `OrderIsJudged` | 3 messages of 5 occurrences in and against the order of the shift, 1 caller that dies and starts over, 3 events, so that a disorder can lie between checkpoints that are no neighbours; two policies of one order, in either order of the list, and one that is switched off |
| `Equipment_day` | `TypeOK`, `ActiveDisjoint`, `CaseHasCause`, `ViewsAgree` | 3 workers (one with an expired certificate), 2 machines (one planned for two workers, as the seed plans each, and in maintenance on the second date), 2 dates, 3 instants, 2 assignments: overlaps are between two |
| `Roster_cycle` | `TypeOK`, `SeedReproduces`, `GeneratedIsClean`, `FoundStaysTrue`, `HistoryStands` | 4 workers at the offsets of the seed over 106 days, more than one cycle of 98, so every position and the turn of the cycle occur; 2 sets of limits; 4 things that earlier releases left (nothing; a limit not yet confirmed; a whole seed of other limits; rows that are older than rule versions, one of them an import's); 3 editions of a workbook with objections of every kind, one that fills a gap and one that numbers its rows anew; 2 validations |

Each property of these runs has a mutant in `PROJECT.json`, a definition that stands right
before the one it replaces and says in its comment which bug it plants.

Four statements of the documents do not hold, and each has a run that ends in a
counterexample and a finding that quotes the line:

| Run | Statement | What happens |
|---|---|---|
| `Attendance_duplicate` | duplicate check-ins are blocked by API and database | two outstanding challenges, two check-ins; the index was dropped |
| `ExceptionReview_decision_race` | never both APPROVED and REJECTED | both commit |
| `MasterDataImport_retry` | a confirmation may be retried (`README.md:19`) | a retry that is under way while its batch, and then a later one, is confirmed brings the old rows back |
| `Roster_rest` | one hour of rest between rotating shifts | the rotation turns from a NIGHT that ends at 07:00 to a DAY that starts at 07:00 |

Other divergences, which the models contain and no run has a property for:

| Code | What it does | What is said |
|---|---|---|
| `devices.py:38` | two requests that overlap with one challenge are both accepted | used only once (`docs/M2_ACCEPTANCE.md:7`) |
| `devices.py:78` | two approvals that overlap leave one phone at two workers, unflagged | the comment at `devices.py:74-77` |
| `exception_engine.py:343` | a transition is written over a status that has become terminal since it was read | terminal states are final (`docs/METRO_MM_M3A_ACCEPTANCE_REPORT.md:238`); locks in production (`docs/METRO_MM_M3B_ACCEPTANCE_REPORT.md:371`) |
| `decision_engine.py:118` | a decision asked for twice at once is created twice | `docs/METRO_MM_M3C_ACCEPTANCE_REPORT.md:274` says it is prevented |
| `decision_engine.py:204` | the mark of a blocked approval is rolled back, so that the approval is offered again | the comment at line 203 says that the mark is there to be detected |
| `timesheets.py:91` | attendance that reaches a closed day has the retry of the close refused | `docs/M5_PILOT_RUNBOOK.md:99` and `docs/M4_ACCEPTANCE.md:24`: repeating is idempotent |
| `timesheets.py:44` | a day on which a worker moved and left one of two sites is PRESENT | `docs/M5_PILOT_RUNBOOK.md:96` has INCOMPLETE |
| `worker_web.py:408` | without a device binding the web page records VALID | the docstring (line 7) says REVIEW |
| `checkpoint_engine.py:344` | policies of one order are ranked by their place in the list, in whichever order the query gives them | the docstring (line 319): only clear disorder is reported |
| `checkpoint_engine.py:513` | an event of a disabled policy, processed a second time, is refused by the constraint | replays are answered (`docs/METRO_MM_M2E_ACCEPTANCE_REPORT.md:66`) |
| `operational_rule_engine.py:420` | the missing-briefing rule closes its window in the tenant's zone: west of the tenant it fails a worker while the window is open | FAIL is for a closed window, in the site's zone (`docs/METRO_MM_M2D_ACCEPTANCE_REPORT.md:56`, `docs/METRO_MM_M2A_ACCEPTANCE_REPORT.md:29`) |
| `equipment_engine.py:476` | of two workers planned for a machine, one may be reported as the other's substitute | the docstring (line 467) |
| `equipment_engine.py:196` | closed assignments, and those of another date, are not compared | `docs/METRO_MM_M2C_ACCEPTANCE_REPORT.md:208` says more |
| `dashboard_service.py:667` | a machine that is planned for nobody has no code loaded, and the page fails | the comment at line 669 says such machines are loaded |
| `seed_metro_standalone.py:293` | a seed that is run again returns old rows unchanged | `docs/METRO_MM_M4E_TECHNICAL_MANUAL.md:366`: it updates what is there |
| `dashboard_service.py:273` | BREAK_IN begins the break | `operational_rule_engine.py:235` and `report_service.py:318` take it for the end |

Three facts that no document speaks of: an approval and a rejection of one enrollment that
overlap leave an ACTIVE device under a REJECTED enrollment (`devices.py:95`); of two reviews of
one event the last one wins (`attendance.py:116`); after midnight an event of a worker with a
night and a day shift on consecutive dates is claimed by both dates (AMBIGUOUS_SHIFT, no shift),
so the runs' rosters have a night or a rest after the night.

An event at the very end of a night shift belongs to the next date, on purpose
(`backend/tests/test_acceptance_m2a.py:330-344`): `BookedOnItsShift` and the shifts of the other
properties go up to that instant and do not have it.

## 4. Proofs

Eight modules hold theorems. What a run shows of a small instance, they show for every set of
workers, sites, requests, messages, sheets and dates and for every bound: each property of
each passing run is the conclusion of a theorem (`theorems` in `PROJECT.json`). Where a
property does not survive certain overlaps, the theorem has their absence as a hypothesis, in
the form `Spec /\ []H => []P`; a hypothesis about data (`Multi`, `WholeShifts`) stands before
the implication.

| Module | Proved | Hypothesis |
|---|---|---|
| `DeviceEnrollmentProofs` | `TypeOK`, `OneActiveDevice`, `SupersededStaysUnbound`, `ImplementsWorkerDevice` | none |
| | `ActiveDeviceApproved` (no run) | `NoBothDecide`: no approval and rejection of one enrollment at once |
| `ExceptionReviewProofs` | `TypeOK`, `HistoryAccounts`, `OffersAgree`, `ReportedTimesAgree` | none |
| | `HistoryIsPath` (no run) | `RowsApart`: no two requests write one case or decision at once |
| `AttendanceProofs` | `TypeOK`, `TimesheetTypeOK`, `SnapshotStands` | none |
| | `ChallengeSingleUse` | `UniqueChallenge`, the schema of Alembic 0004 |
| | `OneOpenSite` | `Multi`, `OneChallengeAtATime` |
| `MasterDataImportProofs` | `TypeOK`, `RowsAttested` | none |
| | `ReplayOfConfirmed` (no run) | `OneBatchAtATime`: no confirmations of two batches at once |
| `EquipmentAssignmentProofs` | `TypeOK`, `ActiveDisjoint`, `CaseHasCause`, `ViewsAgree` | none |
| `RosterSeedingProofs` | `TypeOK`, `SeedReproduces`, `GeneratedIsClean`, `HistoryStands`, `FoundStaysTrue`, and of the plan `NoOverwork`, `ShiftsRotate` | none |
| `EventPipelineProofs` | `TypeOK`, `OneVerdictPerEvidence`, `StateNeverFallsBack` | none |
| | `OneEventPerOccurrence` | `NoTwinDeliveries` |
| | `OrderIsJudged` | `NamesRostered` |
| | `BookedOnItsShift`, `VerdictsAreReal`, `AbsenceIsReal` | `WholeShifts`, `ClearDuties` |
| | `NotYetMissing` | `WholeShifts`, `NamesRostered` |

`OrderLemmas` has what they share: a set of positions has a first and a last element, and what
holds at 0 and is carried from each position to the next holds at all.

**Device enrollment.** `OneActiveDevice` is not inductive: an approval under way may have read
pending enrollments and active bindings that have changed since. `IInv` adds `ApprovalSafe`:
if the enrollment of an approval under way, or one that it would supersede, has meanwhile
been bound or superseded, then a device it has not seen is ACTIVE (`Overtaken`), so
`ActiveConflict` will refuse the commit. Every such change comes with a new ACTIVE binding of
the same worker, which nothing but a commit that saw it revokes. For `ActiveDeviceApproved`,
`RejectionUnbound` says that what is about to be rejected is not a device; only an approval of
the same enrollment could make it one.

**Exceptions.** However requests overlap, the present status and every lifecycle time is one
that some audit row says was reached, since the commit that writes it adds that row and no row
goes (`HistoryAccounts`, with `DecideSafe` for the types). The report takes the first
row that reaches a status for the time of the case; that is a transition, although remarks
repeat statuses, because a remark repeats one that a transition brought before
(`RemarksAttested`). `OffersAgree` needs the types alone: it relates queries to tables that are
what they are, whichever request wrote last. With `RowsApart`, `FreshReads` says that what a
request has read is what its row still is; then each audit row starts where the last one ended
(`RaceFree`), which is `HistoryIsPath`.

**Attendance.** `Sound` is the types, that a request under way names rows that exist, and that
every row but an automatic one names a challenge (`Grounded`, `Attested`). With
`UniqueChallenge` no two rows share a challenge (`ChallengesDiffer`), as the commit is
refused. For `OneOpenSite` the lemmas say what `OpenCount`, a recursive function of
the log, does when rows are appended or an event is decided; its value is reached by
`UpTo` over the positions of the log. `Targeted` says of a submission under way that it
checks in at one site after leaving every other one that is open, and that the log it cleared
is still the log; that is where `OneChallengeAtATime` is needed, with `Undecided`: a review
under way is about an event still in REVIEW. `BooksType` is the type of periods and closers;
`FrozenStands` is its consequence for a commit: a row that is there is refused a second time,
whatever a closer has derived, so a snapshot is never replaced.

**Import.** `AttestInv` needs no hypothesis: a row that a confirmation has found is still there
(`FoundThere`; nothing is deleted), and each row of the tables is the last line about its key of
some confirmed batch, as a commit writes all that its batch says or nothing (`Attested`).
`ReplayInv`, with `OneBatchAtATime`: every table row is what the last confirmed sheet about its
key says (`Replayed`), what a confirmation has read of a batch that still is a preview is what
the tables hold (`FreshReads`), and a batch that somebody confirmed meanwhile is the last one
(`LastConfirmed`), so that a retry writes what is there. `MasterDataImport_retry` shows that
the hypothesis is needed.

**Equipment.** A new assignment is disjoint from every ACTIVE one that shares its worker or
machine, as `Creatable` found no overlap (`AddDisjoint`); no step makes one ACTIVE again.
`Provenance`: comparisons, discrepancies, verdicts and cases each go back to an assignment
that is there for good, as closing keeps its key and date, and each says of it what is so
(`ComparisonsTrue`, `DiscrepanciesTrue`, `EvaluationsTrue`): this is what makes the cause of a
case one of its own kind. A worker who is at a machine without an end has no other active one
that started later (`CurrentIsLast`), which gives the board; `OneMachine` and `MismatchIsTrue`
compare the rows of the dashboard.

**Roster.** `StayOrLeave`: within k days the worker goes off site, or his position in the
cycle has advanced by k without turning; then work blocks and shifts can be counted from the
position alone. `IInv` says that from the moment the seed is past its first commit, or has
made rows, the policy in force is the decided one (`Settled`), and that rows of earlier
releases are there still. `Clean` takes the objections of the validators, which count days
back, as instances of the two theorems about the plan, which count forward. Rows are only
added, but for an absent version that an import fills in (`OnlyAdded`, `Stands`); an objection
once raised counts rows that stay and does not look at their versions (`StandsIsSame`,
`ObjectionsGrow`).

**Events.** `OnceInv`: a raw row has the fingerprint of its message and no twin; a caller past
its look-up has no twin among the rows, one past its insert is alone with its row until the
canonical event exists. That the rows of events and results only grow (`TablesGrow`), and that
the derived state is monotone in them (`DerivedGrows`), gives `StateNeverFallsBack`. The
sequence check compares neighbours only; of two judged checkpoints in the wrong order the ones
nearest in time are neighbours (`NeighboursSuffice`, by the least distance, over places in any
list that `Rankings` allows: `PlacesAreNumbers`), and judged ones are expected by the rostered
shift (`AsRostered`), which is where `NamesRostered` is needed: a source that names a shift
must name the one that the roster has on that date, else its event is judged by the policies
of one and compared by those of the other.

The others are about the clock. `EndOfShift` and `LimitsAreReal` show that the code's
dates (the next day if the template crosses midnight and the break or the handover starts
before the shift does) give the instants of the wall clock, for every zone and length of the
day; they need `WholeShifts`: a template crosses midnight exactly if it ends at an earlier
time than it starts, and its break and its handover lie on one side of midnight each, as
the seeded ones do (`seed_metro_standalone.py:515-524`). `ShiftClaims` and `OneClaim` show
that an instant of a shift, up to but without its very end, is claimed by the date of that
shift and by no other. This needs `ClearDuties`: consecutive shifts follow each other
(`ShiftsApart`: a night is not followed by a day shift), events of a shift carry the zone of
its site (`SitesMatch`), the old flow books on the date of the shift (`LegacyDated`), and
`NamesRostered`. Where it fails the code resolves no shift or the wrong date. `BooksInv` then
says that every event is booked on the date of its shift, that only deliveries go through the
rules, and that results and events agree. `AllRight` (verdicts) and `AllOver` (the shift of
every missed shift-out has ended, and the clock only advances) are the invariants on top; a
shift-out fails only if no result of that worker and date is of a check-out
(`FailedShiftOut`). The instance of `EventPipeline_night` satisfies these hypotheses in every
reachable state, and its verdicts on events of the shift are not empty.

The constants are assumed to be what the code's columns are (`ASSUME`s of the modules: row
numbers, instants and dates are integers, rosters and occurrences are typed, ids of different
tables differ, there is one policy for a type and shift). The orders and offsets of
policies are Integer columns (`models.py:366-368`). Nothing else is taken on trust.

Only model-checked: the four expected violations, of which a proof could say nothing. No
liveness is claimed, so none is proved. Deadlock is checked by TLC where the cfg does not
switch it off, and not proved.

## 5. Not modelled, and what is left

| Order | Modules | Source | State |
|---|---|---|---|
| 1 | `WorkerDevice`, `DeviceEnrollment`, `DeviceEnrollmentProofs` | `devices.py` | done |
| 2 | `Attendance`, `AttendanceProofs` | `attendance.py`, `worker_web.py` | done |
| 3 | `Timesheet` (proofs in `AttendanceProofs`) | `timesheets.py` | done |
| 4 | `ExceptionReview`, `ExceptionReviewProofs` | exception services | done |
| 5 | `MasterDataImport`, `MasterDataImportProofs` | `master_data.py`, `imports.py` | done |
| 6 | `EquipmentAssignment`, `EquipmentAssignmentProofs`, `EquipmentViews` | `equipment_engine.py` and its readers | done |
| 7 | `ShiftTime`, `CanonicalEvents`, `CheckpointEngine`, `OperationalRules`, `EventPipeline`, `ShiftViews`, `EventPipelineProofs` | event engines and their readers | done |
| 8 | `RosterRules`, `RosterSeeding`, `RosterSeedingProofs` | roster engines, seeds | done |
| 9 | `ExceptionDesk` (proofs in `ExceptionReviewProofs`) | workbench, dashboard, board, exception report | done |
| 10 | `OrderLemmas` | what the proofs share | done |

Left out, and why:

* the attendance and equipment reports (A and C) of `report_service.py`, the worker's detail
  and timeline, the board's checkpoint table: joins and formatting over tables that are
  modelled, with no state of their own. (Report C joins on `roster_id` of an actual
  assignment, which the engine never sets);
* the order of the queues: `severity.desc()` sorts by the declaration order of the database's
  enum, which puts INFO first on PostgreSQL where a comment of `review_service.py:103` says
  CRITICAL; sorting and paging are not modelled;
* the validation of a substitute (`_validate_*` of `decision_engine.py`): a guard over master
  data that the model lets through;
* `add_evidence` (no endpoint), `update_policy`, `reset_demo_state` (drops everything),
  plain queries (`get_evaluations`, `get_discrepancies`).

Theorems still worth proving: what is left of the rest between shifts (`Roster_rest`) when the
day of a rotation is excepted; how far `OneOpenSite` reaches when two challenges overlap but
neither moves the worker; and that a snapshot agrees with the attendance of its days when no
challenge outlives its day and none commits during the close.

Never modelled: token and signature checks (a signature that verifies is a guard),
rendering, CSV and XLSX export, tenancy (one tenant is modelled), the fixed data of the
seeds, the frontend and the deployment scripts.
