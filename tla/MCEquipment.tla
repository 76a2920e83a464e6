----------------------------- MODULE MCEquipment -----------------------------
(* An instance of EquipmentViews for TLC: three operators and two dump       *)
(* trucks, a day on which two of them are planned for the first truck and a  *)
(* day on which only the first operator has a truck.                         *)
EXTENDS EquipmentViews, FiniteSets

CONSTANTS w1, w2, w3, dt1, dt2, MaxAssignments

Duties == {<<w1, 1>>, <<w2, 1>>, <<w3, 1>>, <<w1, 2>>, <<w2, 2>>}

\* A truck is planned for two operators of a date, one on each shift, as
\* seed_metro_standalone.py plans it.
Plans == [x \in {<<w1, 1>>, <<w2, 1>>, <<w3, 1>>, <<w1, 2>>} |-> IF x[1] = w2 THEN dt2 ELSE dt1]

\* On the second day the first truck is in maintenance.
Fleet == [d \in Dates |-> IF d = 1 THEN {dt1, dt2} ELSE {dt2}]

Shifts == [d \in Dates |-> IF d = 1 THEN {1, 2} ELSE {3}]

Types == [e \in Equipments |-> "DUMP_TRUCK"]

\* The first operator's certificate begins with the first day, the second's
\* ends with the second, the third's is marked expired.
Certificates ==
    {[worker |-> w1, type |-> "DUMP_TRUCK", from |-> 1, to |-> None, status |-> "VALID"],
     [worker |-> w2, type |-> "DUMP_TRUCK", from |-> 0, to |-> 2, status |-> "VALID"],
     [worker |-> w3, type |-> "DUMP_TRUCK", from |-> 0, to |-> 2, status |-> "EXPIRED"]}

\* Bound: so many assignments.
FewAssignments == Cardinality(actual) <= MaxAssignments
=============================================================================
