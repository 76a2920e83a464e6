---------------------------- MODULE MCTimesheet ----------------------------
(* Instances of Timesheet for TLC.                                         *)
EXTENDS Timesheet, TLC

CONSTANTS p1, p2

\* The worker is scheduled at p1 on every day but the second.
AllButSecond == [d \in Day |-> IF d = 1 THEN NoProject ELSE p1]

\* A fix inside the radius, and one near its edge.
CountedFixes == {[distance |-> 10, accuracy |-> 20], [distance |-> 120, accuracy |-> 60]}

\* One period of all projects is closed, by whomever and however often.
OnePeriod ==
    \E p \in [from : Day, to : Day, scope : {NoProject}] \cap Period :
        /\ \A q \in Period : period[q] # NotClosed => q = p
        /\ \A k \in Closer : closing[k] # Idle => closing[k].period = p

\* Bound: a day of three challenges, the last of which may be used after
\* midnight, or days of two and a close beside them.
Alone == Cardinality({r \in Request : request[r] # Idle}) <= 1

Bounded ==
    \/ today = 0
    \/ /\ \A c \in Challenge : challenge[c] = Unissued \/ challenge[c].day = 0
       /\ today = 1 /\ Len(log) \in 2..3 /\ Alone
    \/ /\ Cardinality({c \in Challenge : challenge[c] # Unissued}) <= 2
       /\ Len(log) <= 3
       /\ (\E k \in Closer : closing[k] # Idle) \/ (\E p \in Period : period[p] # NotClosed) => Alone

Symmetry == Permutations(Challenge) \cup Permutations(Request) \cup Permutations(Closer)
============================================================================
