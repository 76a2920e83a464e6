------------------------ MODULE MCExceptionReview ------------------------
(* Instances of ExceptionDesk, and so of ExceptionReview, for TLC.         *)
EXTENDS ExceptionDesk, TLC

CONSTANTS c1, d1, d2, w1, w2

\* A substitution of w1 by w2, and a decision about w2's own plan.
PlannedWorkers == d1 :> w1 @@ d2 :> w2
ActualWorkers == d1 :> w2 @@ d2 :> w2

Symmetry == Permutations(DecisionType) \cup Permutations(Request)
============================================================================
