------------------------ MODULE MCMasterDataImport ------------------------
(* Instances of MasterDataImport for TLC: one key in each table, and a     *)
(* second worker.                                                          *)
EXTENDS MasterDataImport, TLC

CONSTANTS project, worker, worker2, assignment, schedule, supervisor

Keys == {project, worker, worker2, assignment, schedule, supervisor}
Tabs == {{project}, {worker, worker2}, {assignment}, {schedule}, {supervisor}}
Coded == {project, worker, worker2}

Code(k, v) == [key |-> k, value |-> v, parses |-> TRUE, names |-> {}, member |-> TRUE]
Assign(v) == [Code(assignment, v) EXCEPT !.names = {project, worker}]
Plan(v) == [Code(schedule, v) EXCEPT !.names = {worker}]
Supervise(known) == [Code(supervisor, 1) EXCEPT !.names = {project}, !.member = known]

Full == <<Code(project, 1), Code(worker, 1), Assign(1), Plan(1), Supervise(TRUE)>>

\* A full sheet; one that changes its mind about the project and disagrees
\* with the first about the rest; one that repeats the assignment; one with an
\* unregistered supervisor; one that assigns an unknown worker; one without
\* schedules; one with a cell that does not parse.
Sheets ==
    {Full,
     <<Code(project, 1), Code(project, 2), Code(worker, 1), Assign(2), Plan(1), Supervise(TRUE)>>,
     <<Code(project, 1), Code(worker, 1), Assign(1), Assign(2), Plan(2), Supervise(TRUE)>>,
     [Full EXCEPT ![5] = Supervise(FALSE)],
     [Full EXCEPT ![2] = Code(worker2, 1)],
     SubSeq(Full, 1, 3) \o <<Supervise(TRUE)>>,
     [Full EXCEPT ![1].parses = FALSE]}

Symmetry == Permutations(Batch) \cup Permutations(Request)
============================================================================
