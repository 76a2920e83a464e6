--------------------------- MODULE MCEventPipeline ---------------------------
(* Instances of ShiftViews for TLC: one worker of a mine, whose zone is    *)
(* one slot ahead of the tenant's; days of twelve slots.                     *)
EXTENDS ShiftViews, TLC

CONSTANTS DAY, NIGHT, mine, tono, v1

Templates ==
    (DAY :> [start |-> 3, end |-> 9, breakStart |-> 5, breakEnd |-> 6,
             handoverStart |-> 8, handoverEnd |-> 9, crosses |-> FALSE]) @@
    (NIGHT :> [start |-> 9, end |-> 3, breakStart |-> 0, breakEnd |-> 1,
               handoverStart |-> 2, handoverEnd |-> 3, crosses |-> TRUE])

SiteZones == [s \in Sites |-> 4]
Radii == [s \in Sites |-> 100]

Types == [t \in EventTypes |->
            IF t \in {"BRIEFING_IN", "BRIEFING_OUT", "BREAK_IN", "HANDOVER_END", "CHECK_OUT"}
            THEN t ELSE None]

Policy(type, s, order, open, close, tolerance, enabled, behavior) ==
    [type |-> type, shift |-> s, order |-> order, open |-> open, close |-> close,
     tolerance |-> tolerance, enabled |-> enabled, behavior |-> behavior, from |-> 0, to |-> 9]

NightPolicies ==
    {Policy("BRIEFING_IN", NIGHT, 1, -1, 1, 1, TRUE, "VALIDATE"),
     Policy("BREAK_IN", NIGHT, 2, 3, 4, None, TRUE, "VALIDATE"),
     Policy("HANDOVER_END", NIGHT, 3, 5, 6, None, TRUE, "VALIDATE"),
     Policy("CHECK_OUT", NIGHT, 4, 5, 7, None, TRUE, "VALIDATE")}

Row(s, work, onsite) ==
    [shift |-> s, work |-> work, onsite |-> onsite, site |-> mine, version |-> v1]

\* Two policies of one order, and one that is switched off.
ListedTogether ==
    {Policy("BRIEFING_IN", NIGHT, 1, -1, 1, 1, TRUE, "VALIDATE"),
     Policy("BRIEFING_OUT", NIGHT, 2, 1, 2, None, FALSE, "VALIDATE"),
     Policy("BREAK_IN", NIGHT, 3, 3, 4, None, TRUE, "VALIDATE"),
     Policy("HANDOVER_END", NIGHT, 3, 5, 6, None, TRUE, "VALIDATE")}

\* A night, then a day of rest or another night; or a day off site.
Nights(second) == [x \in Workers \X Dates |-> IF x[2] = 0 THEN Row(NIGHT, "WORK", TRUE) ELSE second]
RosterChoices ==
    {Nights(Row(None, "REST", TRUE)), Nights(Row(NIGHT, "WORK", TRUE)),
     [x \in Workers \X Dates |-> IF x[2] = 0 THEN Row(None, "OFFSITE", FALSE) ELSE None]}

\* The night begins at instant 5, its break ends at 9, its handover at 11.
Saw(type, at, s) == [worker |-> tono, type |-> type, at |-> at, site |-> mine,
                      distance |-> 150, shift |-> s, mismatch |-> FALSE]

\* One source names the shift, the others leave it to the roster.
DuringTheNight ==
    {Saw("BRIEFING_IN", 6, None), Saw("BREAK_IN", 9, None), Saw("BREAK_IN", 10, NIGHT),
     Saw("HANDOVER_END", 10, None)}

\* Checkpoints in the order of the shift and against it.
OutOfOrder ==
    {Saw("BREAK_IN", 6, None), Saw("BRIEFING_IN", 7, None), Saw("HANDOVER_END", 8, NIGHT),
     Saw("BRIEFING_OUT", 9, None), Saw("BREAK_IN", 10, None)}

\* The check-out comes from the old flow.
LegacyCheckOut ==
    {[worker |-> tono, type |-> "CHECK_OUT", at |-> 9, workDate |-> 0, status |-> "VALID"]}

Interchangeable == Permutations(Messages) \cup Permutations(Callers)
=============================================================================
