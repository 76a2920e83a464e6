------------------------------- MODULE MCRoster -------------------------------
(* An instance of RosterSeeding for TLC: four workers of the seed at the       *)
(* offsets it gives them, two of the workbook, over more than one whole cycle. *)
EXTENDS RosterSeeding, TLC

CONSTANTS s1, s2, s3, s4, b1, b2, dt14, ex25, Horizon

Policy(on, off, work, rest, same) ==
    [k \in Key |-> CASE k = "onsite_weeks" -> on
                    [] k = "offsite_weeks" -> off
                    [] k = "max_consecutive_workdays" -> work
                    [] k = "mandatory_rest_days" -> rest
                    [] k = "max_same_shift_streak" -> same]

Documented == Policy(12, 2, 12, 1, 7)

\* The documented limits, and limits whose blocks end within the on-site weeks.
Decided == {Documented, Policy(2, 1, 5, 2, 3)}
JustDocumented == {Documented}

Offsets == [w \in {s1, s2, s3, s4} |->
    CASE w = s1 -> 0 [] w = s2 -> 8 [] w = s3 -> 12 [] w = s4 -> 84]

BookPolicy == [k \in {"max_same_shift_streak"} |-> [of |-> "workbook", value |-> 6, status |-> "CONFIRMED"]]

Days == 0..Horizon

Planned == [w \in {s1, s2, s3, s4} |-> IF w \in {s1, s2} THEN dt14 ELSE None]

Fit == [d \in Days |-> IF d < 5 THEN {dt14, ex25} ELSE {dt14}]
Papers == {c \in {s1, b1} \X {dt14, ex25} \X Days : c[1] = s1 => c[2] = dt14}

\* The workbook's roster: a first edition of one worker's week without its
\* fourth day, and a second with that day, a second week and another worker;
\* the third gives ids to other rows.
Numbers == {"R", "S"} \X (Workers \X Days)
On(id, m) == [id |-> id, site |-> "ONSITE", work |-> "WORK", shift |-> "DAY", day |-> 1, machine |-> m]
Rest(id) == [id |-> id, site |-> "ONSITE", work |-> "REST", shift |-> None, day |-> None, machine |-> None]
Books ==
    {[x \in {b1} \X ((Days \cap 0..6) \ {3}) |-> On(<<"R", x>>, ex25)],
     [x \in {b1, b2} \X (Days \cap 0..13) |->
         IF x[1] = b2 /\ x[2] > 9 THEN Rest(<<"R", x>>)
         ELSE On(<<"R", x>>, IF x[2] > 2 THEN ex25 ELSE None)],
     [x \in ({b2} \X (Days \cap 0..2)) \cup {<<b1, 1>>} |->
         On(IF x[1] = b1 THEN <<"S", x>> ELSE <<"R", <<b2, 2 - x[2]>>>>, dt14)]}

\* Earlier releases left nothing, or a limit that was not yet confirmed, or a
\* whole seed under limits decided otherwise, or rows of one worker of the
\* seed and of an import, older than rule versions.
Row1(v, status) == [of |-> "seed", value |-> v, status |-> status]
Before1 == Policy(1, 1, 2, 1, 2)
Old(x, v) ==
    LET plan == PlanOf(Before1, Offsets[x[1]], x[2])
    IN  [id |-> x, site |-> plan.site, work |-> plan.work, shift |-> plan.shift,
         day |-> plan.day, machine |-> None, version |-> v]
Left1 ==
    {[policy |-> <<>>, roster |-> <<>>],
     [policy |-> [k \in {"max_consecutive_workdays"} |-> Row1(4, "TBC")], roster |-> <<>>],
     [policy |-> [k \in Key |-> Row1(Before1[k], "CONFIRMED")],
      roster |-> [x \in {s1, s2, s3, s4} \X Days |-> Old(x, Label)]],
     [policy |-> <<>>,
      roster |-> [x \in ({s1} \X (Days \cap 0..2)) \cup {<<b1, 1>>} |->
                    IF x[1] = s1 THEN Old(x, None)
                    ELSE [On(<<"R", x>>, dt14) EXCEPT !.day = None] @@ [version |-> None]]]}

Starts == [s \in {"DAY", "NIGHT"} |-> IF s = "DAY" THEN 7 ELSE 19]
Ends == [s \in {"DAY", "NIGHT"} |-> IF s = "DAY" THEN 19 ELSE 31]
=============================================================================
