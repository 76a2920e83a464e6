------------------------- MODULE RosterSeedingProofs -------------------------
(***************************************************************************)
(* The rotation for all limits, offsets and dates, and RosterSeeding for   *)
(* every roster.                                                           *)
(*                                                                         *)
(* The argument: from any date, count the days to the end of the block, or *)
(* of the shift's turn.  If the on-site weeks end before, that is the day  *)
(* off; otherwise the positions in cycle and block advance together and    *)
(* the plan of that day is a rest, or the other shift.  The rows that the  *)
(* seed makes are plans under the limits in force, so the validators'      *)
(* counts never reach their limits.                                        *)
(***************************************************************************)
EXTENDS RosterSeeding, OrderLemmas, TLAPS

\* A position within a turn.
LEMMA Remainder ==
    ASSUME NEW n \in Nat \ {0}, NEW x \in Int
    PROVE  x % n \in 0..(n - 1)
    BY Z3

LEMMA LimitTypes ==
    ASSUME NEW p \in Limits
    PROVE  /\ p["max_consecutive_workdays"] \in Nat \ {0} /\ p["mandatory_rest_days"] \in Nat \ {0}
           /\ p["max_same_shift_streak"] \in Nat \ {0}
           /\ OnsiteDays(p) \in Nat \ {0} /\ CycleLength(p) \in Nat \ {0}
           /\ BlockLength(p) \in Nat \ {0} /\ OnsiteDays(p) < CycleLength(p)
    BY DEF Limits, Key, OnsiteDays, CycleLength, BlockLength

\* Before k days have passed the worker goes off site, or his position in
\* the cycle has advanced by k and is still on site.
LEMMA StayOrLeave ==
    ASSUME NEW p \in Limits, NEW offset \in Int, NEW d \in Int, NEW k \in Nat
    PROVE  \/ \E j \in 0..k : PlanOf(p, offset, d + j).work = "OFFSITE"
           \/ /\ CyclePos(p, offset, d + k) = CyclePos(p, offset, d) + k
              /\ CyclePos(p, offset, d + k) < OnsiteDays(p)
<1> DEFINE x == d + offset
           C == CycleLength(p)
           N == OnsiteDays(p)
<1>1. C \in Nat \ {0} /\ N \in Nat \ {0} /\ N < C /\ x \in Int
    BY LimitTypes
<1>2. x % C \in 0..(C - 1)
    BY <1>1, Remainder
<1>3. \A j \in Int : CyclePos(p, offset, d + j) = (x + j) % C
    BY DEF CyclePos
<1>4. CyclePos(p, offset, d) = x % C
    BY DEF CyclePos
<1> HIDE DEF x, C, N
<1>5. CASE x % C >= N
    <2>1. PlanOf(p, offset, d).work = "OFFSITE"
        BY <1>4, <1>5 DEF PlanOf, N
    <2>2. d + 0 = d /\ 0 \in 0..k
        OBVIOUS
    <2> QED
        BY <2>1, <2>2
<1>6. CASE x % C < N /\ (x % C) + k < N
    <2>1. (x + k) % C = (x % C) + k
        BY <1>1, <1>2, <1>6
    <2> QED
        BY <1>3, <1>4, <1>6, <2>1 DEF N
<1>7. CASE x % C < N /\ (x % C) + k >= N
    <2> DEFINE j == N - (x % C)
    <2>1. j \in 0..k /\ j \in Nat /\ (x % C) + j = N
        BY <1>1, <1>2, <1>7
    <2> HIDE DEF j
    <2>2. (x + j) % C = (x % C) + j
        BY <1>1, <1>2, <2>1
    <2>3. CyclePos(p, offset, d + j) >= OnsiteDays(p)
        BY <1>1, <1>3, <2>1, <2>2 DEF N
    <2>4. PlanOf(p, offset, d + j).work = "OFFSITE"
        BY <2>3 DEF PlanOf
    <2> QED
        BY <2>1, <2>4
<1> QED
    BY <1>1, <1>2, <1>5, <1>6, <1>7

\* D8, for every policy: nobody is planned to work more days in a row than
\* max_consecutive_workdays, across rests, rotations and the turn of the cycle.
THEOREM NoOverwork ==
    ASSUME NEW p \in Limits, NEW offset \in Int, NEW d \in Int
    PROVE  \E k \in 0..p["max_consecutive_workdays"] : PlanOf(p, offset, d + k).work # "WORK"
<1> DEFINE M == p["max_consecutive_workdays"]
           B == BlockLength(p)
           x == CyclePos(p, offset, d)
<1>1. M \in Nat \ {0} /\ B \in Nat \ {0} /\ M < B /\ x \in Int
    <2>1. CycleLength(p) \in Nat \ {0} /\ d + offset \in Int
        BY LimitTypes
    <2>2. x \in Int
        BY <2>1 DEF CyclePos
    <2> QED
        BY <2>2, LimitTypes DEF BlockLength
<1>2. x % B \in 0..(B - 1)
    BY <1>1, Remainder
<1> DEFINE k == IF x % B < M THEN M - (x % B) ELSE 0
<1>3. k \in 0..M /\ k \in Nat /\ (x % B) + k < B /\ (x % B) + k >= M
    BY <1>1, <1>2
<1> HIDE DEF k, x, B
<1>4. CASE \E j \in 0..k : PlanOf(p, offset, d + j).work = "OFFSITE"
    BY <1>1, <1>3, <1>4
<1>5. CASE /\ CyclePos(p, offset, d + k) = x + k
           /\ CyclePos(p, offset, d + k) < OnsiteDays(p)
    <2>1. (x + k) % B = (x % B) + k
        BY <1>1, <1>2, <1>3
    <2>2. ~ WorkAt(p, CyclePos(p, offset, d + k))
        BY <1>1, <1>2, <1>3, <1>5, <2>1 DEF WorkAt, B
    <2>3. PlanOf(p, offset, d + k).work # "WORK"
        BY <2>2 DEF PlanOf
    <2> QED
        BY <1>3, <2>3
<1> QED
    BY <1>3, <1>4, <1>5, StayOrLeave DEF x

\* For every policy: nobody is planned on one shift for more days in a row
\* than max_same_shift_streak.
THEOREM ShiftsRotate ==
    ASSUME NEW p \in Limits, NEW offset \in Int, NEW d \in Int
    PROVE  \E k \in 0..p["max_same_shift_streak"] :
              \/ PlanOf(p, offset, d + k).work # "WORK"
              \/ PlanOf(p, offset, d + k).shift # PlanOf(p, offset, d).shift
<1> DEFINE S == p["max_same_shift_streak"]
           T == 2 * S
           x == CyclePos(p, offset, d)
<1>1. S \in Nat \ {0} /\ T \in Nat \ {0} /\ T = 2 * S /\ x \in Int
    <2>1. CycleLength(p) \in Nat \ {0} /\ d + offset \in Int
        BY LimitTypes
    <2>2. x \in Int
        BY <2>1 DEF CyclePos
    <2> QED
        BY <2>2, LimitTypes
<1> HIDE DEF S, T, x
<1>2. x % T \in 0..(T - 1)
    BY <1>1, Remainder
<1> DEFINE k == IF x % T < S THEN S - (x % T) ELSE T - (x % T)
<1>3. /\ k \in 0..S /\ k \in Nat
      /\ x % T < S => (x % T) + k = S
      /\ ~ (x % T < S) => (x % T) + k = T
    BY <1>1, <1>2
<1> HIDE DEF k
<1>4. CASE \E j \in 0..k : PlanOf(p, offset, d + j).work = "OFFSITE"
    <2>1. \E j \in 0..S : PlanOf(p, offset, d + j).work = "OFFSITE"
        BY <1>1, <1>3, <1>4
    <2> QED
        BY <2>1 DEF S
<1>5. CASE PlanOf(p, offset, d).work # "WORK"
    <2>1. d + 0 = d /\ 0 \in 0..S
        BY <1>1
    <2> QED
        BY <1>5, <2>1 DEF S
<1>6. CASE /\ PlanOf(p, offset, d).work = "WORK"
           /\ CyclePos(p, offset, d + k) = x + k
           /\ CyclePos(p, offset, d + k) < OnsiteDays(p)
    <2>1. ShiftAt(p, x + k) # ShiftAt(p, x)
        <3>1. CASE x % T < S
            <4>1. (x + k) % T = (x % T) + k
                BY <1>1, <1>2, <1>3, <3>1
            <4> QED
                BY <1>1, <1>2, <1>3, <3>1, <4>1 DEF ShiftAt, S, T
        <3>2. CASE ~ (x % T < S)
            <4>1. (x + k) % T = 0
                BY <1>1, <1>2, <1>3, <3>2
            <4> QED
                BY <1>1, <1>2, <1>3, <3>2, <4>1 DEF ShiftAt, S, T
        <3> QED
            BY <3>1, <3>2
    <2>2. PlanOf(p, offset, d).shift = ShiftAt(p, x)
        BY <1>6 DEF PlanOf, x
    <2>3. PlanOf(p, offset, d + k).work = "WORK" => PlanOf(p, offset, d + k).shift = ShiftAt(p, x + k)
        BY <1>6 DEF PlanOf
    <2> QED
        BY <1>3, <2>1, <2>2, <2>3 DEF S
<1> QED
    BY <1>3, <1>4, <1>5, <1>6, StayOrLeave DEF x, S

----------------------------------------------------------------------------
\* The policy after the seed has set it.
Settled == policy = Converged(policy)

\* The strengthening: rows of this release are there, or about to be, only
\* with the policy set, and an import cannot unset it.
IInv ==
    /\ decided \in Decisions /\ earlier \subseteq DOMAIN roster
    /\ DOMAIN roster \subseteq Workers \X Dates
    /\ run = "seed" \/ Fresh # {} => Settled
    /\ \A x \in Fresh : roster[x].version = Label
    /\ SeedReproduces

\* With the policy set, the decided limits are in force.
LEMMA SettledInForce ==
    ASSUME decided \in Decisions, Settled PROVE InForce = decided
<1>1. decided \in [Key -> Nat \ {0}]
    BY DefaultAssumption DEF Limits
<1>2. \A k \in Key : Limit(k) = decided[k]
    BY DEF Settled, Converged, Decision, Limit
<1> QED
    BY <1>1, <1>2 DEF InForce

LEMMA SeedRowStamped == \A p, w, d : SeedRow(p, w, d).version = Label
    BY DEF SeedRow, Stamped

LEMMA InvStep == IInv /\ [Next]_vars => IInv'
<1> SUFFICES ASSUME IInv, [Next]_vars PROVE IInv'
    OBVIOUS
<1> USE DEF IInv
<1>0. ASSUME UNCHANGED <<decided, earlier, roster>>
      PROVE  Fresh' = Fresh /\ (SeedReproduces => SeedReproduces')
    BY <1>0 DEF Fresh, Seeded, SeedReproduces, SeedRow, Stamped, PlanOf
<1>1. CASE SeedRules
    <2>1. Settled' /\ UNCHANGED <<decided, earlier, roster>>
        BY <1>1 DEF SeedRules, Settled, Converged, Decision
    <2> QED
        BY <1>0, <2>1
<1>2. CASE SeedRoster
    <2> DEFINE new == [x \in SeedDates |-> SeedRow(InForce, x[1], x[2])]
    <2>1. roster' = Beside(roster, new) /\ UNCHANGED <<decided, earlier, policy>>
        BY <1>2 DEF SeedRoster, Added
    <2>2. InForce = decided /\ Settled'
        BY <1>2, <2>1, SettledInForce DEF SeedRoster, Settled, Converged, Decision
    <2>3. SeedDates \subseteq Workers \X Dates
        BY OffsetAssumption DEF SeedDates
    <2>4. DOMAIN roster' = DOMAIN roster \cup SeedDates
        BY <2>1 DEF Beside
    <2>5. ASSUME NEW x \in Fresh'
          PROVE  roster'[x] = SeedRow(decided, x[1], x[2]) /\ roster'[x].version = Label
        <3>1. CASE x \in DOMAIN roster
            <4>1. roster'[x] = roster[x] /\ x \in Fresh
                BY <2>1, <2>5, <3>1 DEF Beside, Fresh, Seeded
            <4> QED
                BY <4>1 DEF SeedReproduces
        <3>2. CASE x \notin DOMAIN roster
            <4>1. x \in SeedDates /\ roster'[x] = SeedRow(InForce, x[1], x[2])
                BY <2>1, <2>4, <2>5, <3>2 DEF Beside, Fresh, Seeded
            <4> QED
                BY <2>2, <4>1, SeedRowStamped
        <3> QED
            BY <3>1, <3>2
    <2>6. SeedReproduces'
        <3>1. \A x \in Fresh' : roster'[x] = SeedRow(decided', x[1], x[2])
            BY <2>1, <2>5
        <3> QED
            BY <3>1 DEF SeedReproduces
    <2>7. earlier' \subseteq DOMAIN roster' /\ DOMAIN roster' \subseteq Workers \X Dates
        BY <2>1, <2>3, <2>4
    <2> QED
        BY <2>1, <2>2, <2>5, <2>6, <2>7
<1>3. CASE WorkbookRules
    <2>1. policy' = Beside(policy, SheetPolicy) /\ UNCHANGED <<decided, earlier, roster>> /\ run' = "workbook"
        BY <1>3 DEF WorkbookRules
    <2>2. Settled => Settled'
        <3>1. SUFFICES ASSUME Settled PROVE policy' = policy
            BY <2>1 DEF Settled, Converged, Decision
        <3>2. DOMAIN policy = Key
            BY <3>1 DEF Settled, Converged
        <3>3. policy' = [k \in Key |-> policy[k]]
            BY <2>1, <3>2, SheetsAssumption DEF Beside, IsPolicy
        <3> QED
            BY <3>1, <3>3 DEF Settled, Converged
    <2> QED
        BY <1>0, <2>1, <2>2
<1>4. CASE WorkbookRoster
    <2>1. PICK sheet \in Sheets :
             roster' = Backfilled(Beside(roster, [x \in NewOf(sheet) |->
                          Stamped(sheet[x], sheet[x].id, sheet[x].machine)]))
        BY <1>4 DEF WorkbookRoster, Added
    <2>2. DOMAIN roster' = DOMAIN roster \cup NewOf(sheet) /\ NewOf(sheet) \subseteq DOMAIN sheet
        BY <2>1 DEF Beside, Backfilled, NewOf
    <2>3. Fresh' = Fresh /\ UNCHANGED <<decided, earlier, policy>> /\ run' = "none"
        BY <1>4, <2>2, SheetsAssumption DEF Fresh, Seeded, WorkbookRoster
    <2>4. ASSUME NEW x \in Fresh PROVE roster'[x] = roster[x]
        <3>1. x \in DOMAIN roster /\ roster[x].version = Label
            BY DEF Fresh, Seeded
        <3>2. Label # None
            BY LabelAssumption
        <3> QED
            BY <2>1, <3>1, <3>2 DEF Beside, Backfilled
    <2>5. SeedReproduces'
        <3>1. \A x \in Fresh' : roster'[x] = SeedRow(decided', x[1], x[2])
            BY <2>3, <2>4 DEF SeedReproduces
        <3> QED
            BY <3>1 DEF SeedReproduces
    <2>6. earlier' \subseteq DOMAIN roster' /\ DOMAIN roster' \subseteq Workers \X Dates
        BY <2>2, <2>3, SheetsAssumption
    <2>7. Settled => Settled'
        BY <2>3 DEF Settled, Converged, Decision
    <2> QED
        BY <2>3, <2>4, <2>5, <2>6, <2>7
<1>5. CASE Fail \/ ValidateFull \/ UNCHANGED vars
    <2>1. UNCHANGED <<decided, earlier, policy, roster>> /\ (run' = "none" \/ run' = run)
        BY <1>5 DEF Fail, ValidateFull, vars
    <2>2. Settled => Settled'
        BY <2>1 DEF Settled, Converged, Decision
    <2> QED
        BY <1>0, <2>1, <2>2
<1> QED
    BY <1>1, <1>2, <1>3, <1>4, <1>5 DEF Next

LEMMA InvInit == Init => IInv
<1> SUFFICES ASSUME Init PROVE IInv
    OBVIOUS
<1>1. PICK e \in Earlier : policy = e.policy /\ roster = e.roster /\ earlier = DOMAIN e.roster
    BY DEF Init
<1>2. Fresh = {}
    BY <1>1 DEF Fresh, Seeded
<1> QED
    BY <1>1, <1>2, EarlierAssumption DEF Init, IInv, SeedReproduces, IsRoster

\* A row of the seed is the plan of its day.
LEMMA RowIsPlan ==
    ASSUME SeedReproduces, NEW w \in DOMAIN Offset, ~ Mixed(w), NEW e \in Dates,
           <<w, e>> \in DOMAIN roster
    PROVE  LET plan == PlanOf(decided, Offset[w], e)
           IN  roster[w, e].work = plan.work /\ roster[w, e].shift = plan.shift
               /\ roster[w, e].site = plan.site
<1>1. <<w, e>> \in Fresh /\ <<w, e>>[1] = w /\ <<w, e>>[2] = e
    BY DEF Fresh, Seeded, Mixed
<1>2. roster[<<w, e>>] = SeedRow(decided, w, e)
    BY <1>1 DEF SeedReproduces
<1>3. LET plan == PlanOf(decided, Offset[w], e)
      IN  /\ SeedRow(decided, w, e).work = plan.work /\ SeedRow(decided, w, e).shift = plan.shift
          /\ SeedRow(decided, w, e).site = plan.site
    BY DEF SeedRow, Stamped
<1> QED
    BY <1>2, <1>3

\* The validators' counts never reach their limits on rows of the seed.
LEMMA CleanFromInv == IInv => GeneratedIsClean
<1> SUFFICES ASSUME IInv, NEW x \in Fresh, ~ Mixed(x[1])
             PROVE  Duties(roster, InForce, x[1], x[2]) = {}
    BY DEF GeneratedIsClean
<1> DEFINE w == x[1]
           d == x[2]
           At(k) == PlanOf(decided, Offset[w], d - k)
<1>1. decided \in Limits /\ InForce = decided /\ d \in Int /\ Offset[w] \in Int /\ w \in DOMAIN Offset
    <2>1. x \in DOMAIN roster /\ w \in DOMAIN Offset
        BY DEF Fresh, Seeded
    <2>2. x \in Workers \X Dates
        BY <2>1 DEF IInv
    <2>3. decided \in Decisions /\ Settled
        BY DEF IInv
    <2>4. InForce = decided
        BY <2>3, SettledInForce
    <2>5. decided \in Limits
        BY <2>3, DefaultAssumption
    <2>6. d \in Int
        BY <2>2, DatesAssumption
    <2>7. Offset[w] \in Int
        BY <2>1, OffsetAssumption
    <2> QED
        BY <2>1, <2>4, <2>5, <2>6, <2>7
<1>2. ASSUME NEW k \in Nat, <<w, d - k>> \in DOMAIN roster
      PROVE  roster[w, d - k].work = At(k).work /\ roster[w, d - k].shift = At(k).shift
    <2>1. d - k \in Dates
        BY <1>2 DEF IInv
    <2> QED
        BY <1>1, <1>2, <2>1, RowIsPlan DEF IInv
<1>3. x = <<w, d>> /\ x \in DOMAIN roster /\ d - 0 = d
    <2>1. x \in Workers \X Dates /\ x \in DOMAIN roster
        BY DEF IInv, Fresh, Seeded
    <2> QED
        BY <1>1, <2>1
<1>4. roster[w, d].work = At(0).work /\ roster[w, d].shift = At(0).shift /\ roster[w, d].site = At(0).site
    <2>1. <<w, d>> \in DOMAIN roster /\ d \in Dates
        BY <1>3 DEF IInv
    <2>2. /\ roster[w, d].work = PlanOf(decided, Offset[w], d).work
          /\ roster[w, d].shift = PlanOf(decided, Offset[w], d).shift
          /\ roster[w, d].site = PlanOf(decided, Offset[w], d).site
        BY <1>1, <2>1, RowIsPlan DEF IInv
    <2> QED
        BY <1>3, <2>2
<1>5. ~ (roster[w, d].work = "WORK" /\ Exhausted(roster, InForce, w, d))
    <2> DEFINE M == decided["max_consecutive_workdays"]
    <2>1. SUFFICES ASSUME roster[w, d].work = "WORK", Exhausted(roster, decided, w, d) PROVE FALSE
        BY <1>1
    <2>2. M \in Nat \ {0} /\ d - M \in Int
        BY <1>1, LimitTypes
    <2>3. PICK k \in 0..M : PlanOf(decided, Offset[w], (d - M) + k).work # "WORK"
        BY <1>1, <2>2, NoOverwork
    <2>4. M - k \in Nat /\ M - k \in 0..M /\ (d - M) + k = d - (M - k)
        BY <1>1, <2>2
    <2>5. At(M - k).work # "WORK"
        BY <2>3, <2>4
    <2>6. CASE M - k = 0
        BY <1>4, <2>1, <2>5, <2>6
    <2>7. CASE M - k \in 1..M
        <3>1. Worked(roster, w, d - (M - k))
            BY <2>1, <2>7 DEF Exhausted
        <3> QED
            BY <1>2, <2>4, <2>5, <3>1 DEF Worked
    <2> QED
        BY <2>2, <2>4, <2>6, <2>7
<1>6. ~ (roster[w, d].work = "WORK" /\ SameShift(roster, InForce, w, d))
    <2> DEFINE S == decided["max_same_shift_streak"]
    <2>1. SUFFICES ASSUME roster[w, d].work = "WORK", SameShift(roster, decided, w, d) PROVE FALSE
        BY <1>1
    <2>2. S \in Nat \ {0} /\ d - S \in Int /\ (d - S) + 0 = d - S
        BY <1>1, LimitTypes
    <2>3. \A j \in 0..S : At(j).work = "WORK" /\ At(j).shift = roster[w, d].shift
        <3> SUFFICES ASSUME NEW j \in 0..S PROVE At(j).work = "WORK" /\ At(j).shift = roster[w, d].shift
            OBVIOUS
        <3>1. CASE j = 0
            BY <1>4, <2>1, <3>1
        <3>2. CASE j \in 1..S
            <4>1. Worked(roster, w, d - j) /\ roster[w, d - j].shift = roster[w, d].shift
                BY <2>1, <3>2 DEF SameShift
            <4>2. j \in Nat
                BY <3>2, <2>2
            <4> QED
                BY <1>2, <4>1, <4>2 DEF Worked
        <3>3. j = 0 \/ j \in 1..S
            BY <2>2
        <3> QED
            BY <3>1, <3>2, <3>3
    <2>4. PICK k \in 0..S : \/ PlanOf(decided, Offset[w], (d - S) + k).work # "WORK"
                            \/ PlanOf(decided, Offset[w], (d - S) + k).shift
                               # PlanOf(decided, Offset[w], d - S).shift
        BY <1>1, <2>2, ShiftsRotate
    <2>5. S - k \in 0..S /\ (d - S) + k = d - (S - k) /\ S \in 0..S
        BY <1>1, <2>2
    <2> QED
        BY <2>3, <2>4, <2>5
<1>7. ~ (roster[w, d].work = "WORK" /\ roster[w, d].site = "OFFSITE")
    BY <1>4 DEF PlanOf
<1> QED
    BY <1>5, <1>6, <1>7 DEF Duties

----------------------------------------------------------------------------
\* Whatever policy, imports, runs that died and rows of earlier releases are
\* there, the rows that the seed makes are those that the decided limits plan.
THEOREM Reproduces == Spec => []SeedReproduces
<1>1. IInv => SeedReproduces
    BY DEF IInv
<1> QED
    BY <1>1, InvInit, InvStep, PTL DEF Spec

\* The roster that the seed makes for a worker has no objection of the
\* rotation, under all limits.
THEOREM Clean == Spec => []GeneratedIsClean
    BY InvInit, InvStep, CleanFromInv, PTL DEF Spec

----------------------------------------------------------------------------
(* Types.                                                                  *)

\* The limits in force are limits, whatever rows the policy has.
LEMMA InForceTyped == ASSUME IsPolicy(policy) PROVE InForce \in Limits
<1>1. \A k \in Key : Default[k] \in Nat \ {0}
    BY DefaultAssumption DEF Limits
<1>2. \A k \in Key : Limit(k) \in Nat \ {0}
    BY <1>1 DEF Limit, IsPolicy, PolicyRow
<1> QED
    BY <1>2 DEF InForce, Limits

\* A plan is a day of a roster, and its day lies within the cycle.
LEMMA PlanTyped ==
    ASSUME NEW p \in Limits, NEW offset \in Int, NEW d \in Int
    PROVE  /\ PlanOf(p, offset, d).site \in {"ONSITE", "OFFSITE"}
           /\ PlanOf(p, offset, d).work \in {"WORK", "REST", "OFFSITE"}
           /\ PlanOf(p, offset, d).shift \in {"DAY", "NIGHT", None}
           /\ PlanOf(p, offset, d).day \in 1..CycleLength(p)
<1>1. CycleLength(p) \in Nat \ {0} /\ d + offset \in Int
    BY LimitTypes
<1>2. CyclePos(p, offset, d) \in 0..(CycleLength(p) - 1)
    BY <1>1, Remainder DEF CyclePos
<1>3. CycleDay(p, offset, d) \in 1..CycleLength(p)
    BY <1>1, <1>2 DEF CycleDay
<1> QED
    BY <1>3 DEF PlanOf, ShiftAt

LEMMA SeedRowTyped ==
    ASSUME NEW p \in Limits, NEW w \in DOMAIN Offset, NEW d \in Dates
    PROVE  SeedRow(p, w, d) \in Row /\ SeedRow(p, w, d).day \in 1..CycleLength(p)
<1>1. Offset[w] \in Int /\ d \in Int /\ MachineOf[w] \in Machines \cup {None} /\ w \in Workers
    <2>1. Offset[w] \in Int /\ w \in Workers
        BY OffsetAssumption
    <2>2. d \in Int
        BY DatesAssumption
    <2>3. MachineOf[w] \in Machines \cup {None}
        BY MachineOfAssumption
    <2> QED
        BY <2>1, <2>2, <2>3
<1> DEFINE plan == PlanOf(p, Offset[w], d)
           m == IF plan.work = "WORK" THEN MachineOf[w] ELSE None
<1>2. /\ plan.site \in {"ONSITE", "OFFSITE"} /\ plan.work \in {"WORK", "REST", "OFFSITE"}
      /\ plan.shift \in {"DAY", "NIGHT", None} /\ plan.day \in 1..CycleLength(p)
    BY <1>1, PlanTyped
<1>3. plan.day \in Int \cup {None} /\ m \in Machines \cup {None}
    BY <1>1, <1>2, LimitTypes
<1>4. SeedRow(p, w, d) = Stamped(plan, <<w, d>>, m)
    BY DEF SeedRow
<1>5. <<w, d>> \in Ids \cup (Workers \X Dates)
    BY <1>1
<1> HIDE DEF plan, m
<1>6. Stamped(plan, <<w, d>>, m) \in Row
    BY <1>2, <1>3, <1>5 DEF Stamped, Row
<1>7. Stamped(plan, <<w, d>>, m).day = plan.day
    BY DEF Stamped
<1> QED
    BY <1>2, <1>4, <1>6, <1>7

LEMMA SheetRowTyped ==
    ASSUME NEW day \in Day PROVE Stamped(day, day.id, day.machine) \in Row
    BY DEF Day, Stamped, Row

LEMMA BackfilledTyped ==
    ASSUME NEW rows, IsRoster(rows) PROVE IsRoster(Backfilled(rows))
    BY DEF IsRoster, Backfilled, Row

\* The validations so far are numbered up to the bound.
LEMMA LastValidationTyped ==
    ASSUME \A x \in exceptions : x.validation \in 1..MaxValidations
    PROVE  LastValidation \in 0..MaxValidations
<1> DEFINE T == {0} \cup {x.validation : x \in exceptions}
<1>1. T \in SUBSET (0..MaxValidations) /\ T # {} /\ MaxValidations \in Nat
    BY BoundAssumption
<1>2. \E n \in T : \A k \in T : k <= n
    BY <1>1, GreatestElement
<1>3. \E n \in T : \A k \in T : n >= k
    BY <1>1, <1>2
<1> HIDE DEF T
<1>4. Max(T) \in T
    BY <1>3 DEF Max
<1> QED
    BY <1>1, <1>4 DEF LastValidation, T

LEMMA ObjectionsAreRules ==
    ASSUME NEW rows, NEW p, NEW w, NEW d PROVE Objections(rows, p, w, d) \subseteq Rule
<1>1. Duties(rows, p, w, d) \subseteq Rule
    BY DEF Duties, Rule
<1>2. \A m : AllOf(rows, w, d, m) \subseteq Rule
    BY DEF AllOf, Rule
<1> QED
    BY <1>1, <1>2 DEF Objections, MachineRules

LEMMA BesideTyped ==
    ASSUME NEW old, NEW new, NEW T, \A x \in DOMAIN old : old[x] \in T,
           \A x \in DOMAIN new : new[x] \in T
    PROVE  /\ DOMAIN Beside(old, new) = DOMAIN old \cup DOMAIN new
           /\ \A x \in DOMAIN Beside(old, new) : Beside(old, new)[x] \in T
           /\ \A x \in DOMAIN old : Beside(old, new)[x] = old[x]
    BY DEF Beside

\* The days of the cycle that the rows of the seed show.
LEMMA FreshDays ==
    ASSUME IInv PROVE \A x \in Fresh : roster[x].day \in 1..CycleLength(decided)
<1> SUFFICES ASSUME NEW x \in Fresh PROVE roster[x].day \in 1..CycleLength(decided)
    OBVIOUS
<1>1. decided \in Limits
    BY DefaultAssumption DEF IInv
<1>2. x[1] \in DOMAIN Offset /\ x[2] \in Dates
    BY DEF IInv, Fresh, Seeded
<1>3. SeedRow(decided, x[1], x[2]).day \in 1..CycleLength(decided)
    BY <1>1, <1>2, SeedRowTyped
<1> QED
    BY <1>3 DEF IInv, SeedReproduces

LEMMA TypeInit == Init => TypeOK
<1> SUFFICES ASSUME Init PROVE TypeOK
    OBVIOUS
<1>1. PICK e \in Earlier : policy = e.policy /\ roster = e.roster /\ earlier = DOMAIN e.roster
    BY DEF Init
<1>2. IsPolicy(policy) /\ IsRoster(roster) /\ earlier = DOMAIN roster /\ Fresh = {}
    BY <1>1, EarlierAssumption DEF Fresh, Seeded
<1>3. DOMAIN versions \subseteq {Label}
    BY DEF Init
<1> QED
    BY <1>2, <1>3 DEF Init, TypeOK

\* What a validation records of a row.
LEMMA FoundTyped ==
    ASSUME IsRoster(roster), NEW n \in 1..MaxValidations
    PROVE  Found(n) \subseteq Finding
<1> SUFFICES ASSUME NEW x \in DOMAIN roster, NEW r \in Objections(roster, InForce, x[1], x[2])
             PROVE  Noted(n, x, r) \in Finding
    BY DEF Found
<1>1. r \in Rule
    BY ObjectionsAreRules
<1>2. x[1] \in Workers /\ x[2] \in Dates /\ roster[x].machine \in Machines \cup {None}
    BY DEF IsRoster, Row
<1> QED
    BY <1>1, <1>2 DEF Noted, Finding

LEMMA TypeStep == TypeOK /\ IInv' /\ [Next]_vars => TypeOK'
<1> SUFFICES ASSUME TypeOK, IInv', [Next]_vars PROVE TypeOK'
    OBVIOUS
<1> USE DEF TypeOK
<1>0. /\ (\A x \in Fresh : roster[x].day \in 1..CycleLength(decided))'
      /\ (decided \in Decisions /\ earlier \subseteq DOMAIN roster)'
    <2>1. (\A x \in Fresh : roster[x].day \in 1..CycleLength(decided))'
        BY FreshDays, PTL
    <2>2. (decided \in Decisions /\ earlier \subseteq DOMAIN roster)'
        BY DEF IInv
    <2> QED
        BY <2>1, <2>2
<1>1. CASE SeedRules
    <2>1. IsPolicy(policy')
        <3>1. decided \in Limits
            BY DefaultAssumption
        <3>2. \A k \in Key : decided[k] \in Nat \ {0}
            BY <3>1 DEF Limits
        <3> QED
            BY <1>1, <3>2 DEF SeedRules, Converged, Decision, IsPolicy, PolicyRow
    <2>2. DOMAIN versions' \subseteq {Label}
        BY <1>1 DEF SeedRules, Snapshot
    <2>3. IsRoster(roster')
        BY <1>1 DEF SeedRules, IsRoster
    <2> QED
        BY <1>0, <1>1, <2>1, <2>2, <2>3 DEF SeedRules
<1>2. CASE SeedRoster
    <2> DEFINE new == [x \in SeedDates |-> SeedRow(InForce, x[1], x[2])]
    <2>1. roster' = Beside(roster, new) /\ UNCHANGED <<policy, versions, exceptions>> /\ run' = "none"
        BY <1>2 DEF SeedRoster, Added
    <2>2. \A x \in DOMAIN new : new[x] \in Row
        BY InForceTyped, SeedRowTyped DEF SeedDates
    <2>3. SeedDates \subseteq Workers \X Dates
        BY OffsetAssumption DEF SeedDates
    <2>4. DOMAIN new = SeedDates
        OBVIOUS
    <2> HIDE DEF new
    <2>5. /\ DOMAIN Beside(roster, new) = DOMAIN roster \cup DOMAIN new
          /\ \A x \in DOMAIN Beside(roster, new) : Beside(roster, new)[x] \in Row
        BY <2>2, BesideTyped DEF IsRoster
    <2>6. IsRoster(roster')
        BY <2>1, <2>3, <2>4, <2>5 DEF IsRoster
    <2> QED
        BY <1>0, <2>1, <2>6
<1>3. CASE WorkbookRules
    <2>1. IsPolicy(policy')
        <3>1. /\ DOMAIN Beside(policy, SheetPolicy) = DOMAIN policy \cup DOMAIN SheetPolicy
              /\ \A k \in DOMAIN Beside(policy, SheetPolicy) : Beside(policy, SheetPolicy)[k] \in PolicyRow
            BY SheetsAssumption, BesideTyped DEF IsPolicy
        <3> QED
            BY <1>3, <3>1, SheetsAssumption DEF WorkbookRules, IsPolicy
    <2>2. DOMAIN versions' \subseteq {Label}
        BY <1>3 DEF WorkbookRules, Snapshot
    <2>3. IsRoster(roster')
        BY <1>3 DEF WorkbookRules, IsRoster
    <2> QED
        BY <1>0, <1>3, <2>1, <2>2, <2>3 DEF WorkbookRules
<1>4. CASE WorkbookRoster
    <2>1. PICK sheet \in Sheets :
             roster' = Backfilled(Beside(roster, [x \in NewOf(sheet) |->
                          Stamped(sheet[x], sheet[x].id, sheet[x].machine)]))
        BY <1>4 DEF WorkbookRoster, Added
    <2> DEFINE new == [x \in NewOf(sheet) |-> Stamped(sheet[x], sheet[x].id, sheet[x].machine)]
    <2>2. \A x \in DOMAIN new : new[x] \in Row
        BY SheetsAssumption, SheetRowTyped DEF NewOf
    <2>3. DOMAIN new \subseteq Workers \X Dates
        BY SheetsAssumption DEF NewOf
    <2>4. roster' = Backfilled(Beside(roster, new))
        BY <2>1
    <2> HIDE DEF new
    <2>5. /\ DOMAIN Beside(roster, new) = DOMAIN roster \cup DOMAIN new
          /\ \A x \in DOMAIN Beside(roster, new) : Beside(roster, new)[x] \in Row
        BY <2>2, BesideTyped DEF IsRoster
    <2>6. IsRoster(Beside(roster, new))
        BY <2>3, <2>5 DEF IsRoster
    <2>7. IsRoster(roster')
        BY <2>4, <2>6, BackfilledTyped
    <2> QED
        BY <1>0, <1>4, <2>7 DEF WorkbookRoster
<1>5. CASE Fail \/ UNCHANGED vars
    BY <1>0, <1>5 DEF Fail, vars, IsRoster
<1>6. CASE ValidateFull
    <2> DEFINE n == LastValidation + 1
    <2>1. n \in 1..MaxValidations
        <3>1. LastValidation \in 0..MaxValidations
            BY LastValidationTyped DEF Finding
        <3> QED
            BY <1>6, <3>1, BoundAssumption DEF ValidateFull
    <2>2. UNCHANGED <<decided, policy, versions, roster, run>> /\ exceptions' = exceptions \cup Found(n)
        BY <1>6 DEF ValidateFull
    <2> HIDE DEF n
    <2>3. Found(n) \subseteq Finding
        BY <2>1, FoundTyped
    <2> QED
        BY <1>0, <2>2, <2>3 DEF IsRoster
<1> QED
    BY <1>1, <1>2, <1>3, <1>4, <1>5, <1>6 DEF Next

\* Every row of policy, versions, roster and exceptions keeps its type, and
\* the rows that the seed makes show a day of the decided cycle.
THEOREM TypeCorrect == Spec => []TypeOK
    BY TypeInit, TypeStep, InvInit, InvStep, PTL DEF Spec

----------------------------------------------------------------------------
(* What is recorded stays.                                                 *)

\* No step takes a row of the roster or a version away; of a row only an
\* absent version changes.
LEMMA OnlyAdded ==
    ASSUME TypeOK, Next
    PROVE  /\ \A l \in DOMAIN versions : l \in DOMAIN versions' /\ versions'[l] = versions[l]
           /\ \A x \in DOMAIN roster : x \in DOMAIN roster' /\ Stands(roster[x], roster'[x])
<1>1. \A p : \A l \in DOMAIN versions : l \in DOMAIN Snapshot(p) /\ Snapshot(p)[l] = versions[l]
    BY DEF Snapshot, TypeOK
<1>2. \A new : \A x \in DOMAIN roster : x \in DOMAIN Added(new) /\ Added(new)[x] = roster[x]
    BY DEF Added, Beside
<1>3. \A rows : \A x \in DOMAIN rows :
         x \in DOMAIN Backfilled(rows) /\ Stands(rows[x], Backfilled(rows)[x])
    BY DEF Backfilled, Stands
<1>4. \A new : \A x \in DOMAIN roster :
         x \in DOMAIN Backfilled(Added(new)) /\ Stands(roster[x], Backfilled(Added(new))[x])
    BY <1>2, <1>3
<1>5. CASE SeedRoster
    BY <1>2, <1>5 DEF SeedRoster, Stands
<1>6. CASE WorkbookRoster
    BY <1>4, <1>6 DEF WorkbookRoster
<1>7. CASE SeedRules \/ WorkbookRules \/ Fail \/ ValidateFull
    BY <1>1, <1>7 DEF SeedRules, WorkbookRules, Fail, ValidateFull, Stands
<1> QED
    BY <1>5, <1>6, <1>7 DEF Next

\* A rule version keeps the policy it was taken of, and a roster row, of this
\* release or an earlier one, all that it says but an absent version, whatever
\* is seeded, imported or repeated (rule_versioning.py, seed_metro.py).
THEOREM NothingRewritten == Spec => HistoryStands
<1>1. TypeOK /\ [Next]_vars =>
         [/\ \A l \in DOMAIN versions : l \in DOMAIN versions' /\ versions'[l] = versions[l]
          /\ \A x \in DOMAIN roster : x \in DOMAIN roster' /\ Stands(roster[x], roster'[x])]_vars
    BY OnlyAdded
<1> QED
    BY <1>1, TypeCorrect, PTL DEF Spec, HistoryStands

\* What the validators read of a row.
SameDuty(a, b) ==
    a.site = b.site /\ a.work = b.work /\ a.shift = b.shift /\ a.machine = b.machine

LEMMA StandsIsSame ==
    ASSUME NEW a \in Row, NEW b, Stands(a, b) PROVE SameDuty(a, b)
    BY DEF Stands, SameDuty, Row

\* More rows beside those that are there take no objection back.
LEMMA ObjectionsGrow ==
    ASSUME NEW old, NEW new, NEW p, NEW w, NEW d, <<w, d>> \in DOMAIN old,
           \A x \in DOMAIN old : x \in DOMAIN new /\ SameDuty(old[x], new[x])
    PROVE  Objections(old, p, w, d) \subseteq Objections(new, p, w, d)
<1>1. SameDuty(old[w, d], new[w, d])
    OBVIOUS
<1>2. \A k : Worked(old, w, d - k) => Worked(new, w, d - k) /\ new[w, d - k].shift = old[w, d - k].shift
    BY DEF Worked, SameDuty
<1>3. Exhausted(old, p, w, d) => Exhausted(new, p, w, d)
    BY <1>2 DEF Exhausted
<1>4. SameShift(old, p, w, d) => SameShift(new, p, w, d)
    BY <1>1, <1>2 DEF SameShift, SameDuty
<1>5. Duties(old, p, w, d) \subseteq Duties(new, p, w, d)
    BY <1>1, <1>3, <1>4 DEF Duties, SameDuty
<1>6. DoubleBooked(old, w, d) => DoubleBooked(new, w, d)
    BY <1>1 DEF DoubleBooked, SameDuty
<1>7. MachineRules(old, w, d) \subseteq MachineRules(new, w, d)
    BY <1>1, <1>6 DEF MachineRules, AllOf, SameDuty
<1> QED
    BY <1>5, <1>7 DEF Objections

\* What a validation recorded, of the row it names, stays true under the same
\* limits: later imports add rows, for earlier dates too, and never take an
\* objection back.
THEOREM FindingsLast == Spec => FoundStaysTrue
<1>1. TypeOK /\ [Next]_vars =>
         [InForce' = InForce => \A x \in exceptions : StillObjected(x) => StillObjected(x)']_vars
    <2> SUFFICES ASSUME TypeOK, Next, InForce' = InForce, NEW x \in exceptions, StillObjected(x)
                 PROVE  StillObjected(x)'
        OBVIOUS
    <2>1. \A y \in DOMAIN roster : y \in DOMAIN roster' /\ SameDuty(roster[y], roster'[y])
        BY OnlyAdded, StandsIsSame DEF TypeOK, IsRoster
    <2>2. PICK w \in Workers : /\ <<w, x.date>> \in DOMAIN roster
                               /\ x = Noted(x.validation, <<w, x.date>>, x.rule)
                               /\ x.rule \in Objections(roster, InForce, w, x.date)
        BY DEF StillObjected
    <2>3. Objections(roster, InForce, w, x.date) \subseteq Objections(roster', InForce, w, x.date)
        BY <2>1, <2>2, ObjectionsGrow
    <2>4. x = Noted(x.validation, <<w, x.date>>, x.rule)'
        BY <2>1, <2>2 DEF Noted, SameDuty
    <2>5. <<w, x.date>> \in DOMAIN roster' /\ x.rule \in Objections(roster', InForce', w, x.date)
        BY <2>1, <2>2, <2>3
    <2> QED
        BY <2>4, <2>5 DEF StillObjected
<1> QED
    BY <1>1, TypeCorrect, PTL DEF Spec, FoundStaysTrue
=============================================================================
