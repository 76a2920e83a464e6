--------------------------- MODULE MCAttendance ---------------------------
(* Instances of Attendance for TLC.                                        *)
EXTENDS Attendance, TLC

CONSTANTS p1, p2

\* The worker is scheduled at p1 on the first day and nowhere after it.
FirstDayOnly == [d \in Day |-> IF d = 0 THEN p1 ELSE NoProject]

\* Inside a radius of 100 metres, and near its edge with a weak signal: a fix
\* that is rejected at once adds no counted event, and review rejects events too.
CountedFixes == {[distance |-> 10, accuracy |-> 20], [distance |-> 120, accuracy |-> 60]}

Symmetry == Permutations(Challenge) \cup Permutations(Request)
============================================================================
