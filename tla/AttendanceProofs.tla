-------------------------- MODULE AttendanceProofs --------------------------
(***************************************************************************)
(* What holds of attendance, and of the periods closed over it, for any    *)
(* number of projects, days, challenges, requests, fixes and events.       *)
(*                                                                         *)
(* The hypotheses name what the code leaves open: the schema of Alembic    *)
(* 0004 (UniqueChallenge), and overlaps of submissions of one challenge    *)
(* only (OneChallengeAtATime), where sites are concerned.                  *)
(***************************************************************************)
EXTENDS Timesheet, OrderLemmas, FiniteSetTheorems, TLAPS

----------------------------------------------------------------------------
(* The operators.                                                          *)

\* The largest of some positions of the log.
LEMMA MaxPosition ==
    ASSUME NEW n \in Nat, NEW T \in SUBSET (1..n), T # {}
    PROVE  Max(T) \in T
<1>1. T \in SUBSET (0..n)
    OBVIOUS
<1>2. PICK x \in T : \A y \in T : y <= x
    BY <1>1, GreatestElement
<1>3. \A y \in T : x >= y
    BY <1>2
<1> QED
    BY <1>3 DEF Max

\* The site of a check-in request is a project.
LEMMA LatestInType ==
    ASSUME TypeOK, NEW d
    PROVE  LatestIn(d) \in Project \cup {NoProject}
<1>1. CASE CountedIns(d) = {}
    BY <1>1 DEF LatestIn
<1>2. CASE CountedIns(d) # {}
    <2>1. Len(log) \in Nat /\ CountedIns(d) \in SUBSET (1..Len(log))
        BY DEF TypeOK, CountedIns
    <2>2. Max(CountedIns(d)) \in 1..Len(log)
        BY <1>2, <2>1, MaxPosition
    <2>3. log[Max(CountedIns(d))] \in Event
        BY <2>2 DEF TypeOK
    <2> QED
        BY <1>2, <2>3 DEF LatestIn, Event
<1> QED
    BY <1>1, <1>2

\* SetToSeq lists a finite set: as many entries as elements, each of the set.
LEMMA SetListed ==
    ASSUME NEW n \in Nat, NEW T \in SUBSET (1..n)
    PROVE  /\ Cardinality(T) \in Nat
           /\ SetToSeq(T) \in [1..Cardinality(T) -> T]
           /\ \A x \in T : \E i \in 1..Cardinality(T) : SetToSeq(T)[i] = x
<1>1. IsFiniteSet(T)
    <2>1. IsFiniteSet(1..n)
        BY FS_Interval
    <2> QED
        BY <2>1, FS_Subset
<1>2. Cardinality(T) \in Nat
    BY <1>1, FS_CardinalityType
<1>3. ExistsBijection(1..Cardinality(T), T)
    BY <1>1, FS_CardinalityType
<1>4. PICK b : b \in Bijection(1..Cardinality(T), T)
    BY <1>3 DEF ExistsBijection
<1>5. b \in [1..Cardinality(T) -> T] /\ IsInjective(b)
    BY <1>4 DEF Bijection, Injection, IsInjective
<1>6. SetToSeq(T) \in [1..Cardinality(T) -> T] /\ IsInjective(SetToSeq(T))
    BY <1>5 DEF SetToSeq
<1>7. SetToSeq(T) \in Injection(1..Cardinality(T), T)
    BY <1>6 DEF Injection
<1>8. Cardinality(1..Cardinality(T)) = Cardinality(T)
    BY <1>2, FS_Interval
<1>9. SetToSeq(T) \in Surjection(1..Cardinality(T), T)
    BY <1>1, <1>7, <1>8, FS_Injection
<1> QED
    BY <1>2, <1>6, <1>9 DEF Surjection

\* A usable challenge is a row of the table.
LEMMA UsableRow ==
    ASSUME TypeOK, NEW c \in Challenge, Usable(c)
    PROVE  challenge[c] \in ChallengeRow
BY DEF TypeOK, Usable, Unissued

\* The event a submission records.
TheEvent(c, d, fix) ==
    [type |-> challenge[c].type, project |-> challenge[c].project, day |-> d,
     status |-> AttendanceStatus(fix), auto |-> FALSE, device |-> enrolled,
     challenge |-> c]

\* Automatic check-outs of the check-ins `left`, and then the event.
Shaped(rows, c, d, left, fix, a) ==
    /\ rows \in Seq(Event)
    /\ Len(rows) \in Nat \ {0}
    /\ \E s \in [1..(Len(rows) - 1) -> left] :
          /\ \A j \in left : \E i \in 1..(Len(rows) - 1) : s[i] = j
          /\ \A i \in 1..(Len(rows) - 1) : rows[i] = AutoCheckOut(log[s[i]], a)
    /\ rows[Len(rows)] = TheEvent(c, d, fix)

\* What a submission adds to the log: an automatic check-out for each
\* check-in that is left, on its day and at its site, and then the event.
LEMMA RowsShape ==
    ASSUME TypeOK, NEW c \in Challenge, challenge[c] \in ChallengeRow,
           NEW d \in Day, NEW left \in SUBSET (1..Len(log)), NEW fix \in Fix,
           NEW a \in Challenge \cup {NoChallenge}
    PROVE  Shaped(Rows(c, d, left, fix, a), c, d, left, fix, a)
<1> DEFINE rows == Rows(c, d, left, fix, a)
           n == Cardinality(left)
           s == SetToSeq(left)
           outs == [i \in 1..n |-> AutoCheckOut(log[s[i]], a)]
           last == TheEvent(c, d, fix)
<1>1. Len(log) \in Nat /\ (\A j \in 1..Len(log) : log[j] \in Event) /\ enrolled \in BOOLEAN
    BY DEF TypeOK
<1>2. /\ n \in Nat
      /\ s \in [1..n -> left]
      /\ \A x \in left : \E i \in 1..n : s[i] = x
    BY <1>1, SetListed
<1>3. rows = outs \o <<last>>
    BY DEF Rows, TheEvent
<1>4. last \in Event
    <2>1. AttendanceStatus(fix) \in Status
        BY DEF AttendanceStatus, Status
    <2> QED
        BY <1>1, <2>1 DEF Event, ChallengeRow, TheEvent
<1> HIDE DEF n, s
<1>5. \A i \in 1..n : outs[i] \in Event
    <2> SUFFICES ASSUME NEW i \in 1..n PROVE outs[i] \in Event
        OBVIOUS
    <2>1. log[s[i]] \in Event
        BY <1>1, <1>2
    <2> QED
        BY <1>1, <2>1 DEF AutoCheckOut, Event, Type, Status
<1>6. outs \in Seq(Event) /\ Len(outs) = n
    <2>1. outs \in [1..n -> Event]
        BY <1>5
    <2> QED
        BY <1>2, <2>1
<1>7. \A i \in 1..n : outs[i] = AutoCheckOut(log[s[i]], a)
    OBVIOUS
<1> HIDE DEF outs, last, rows
<1>8. /\ rows \in Seq(Event)
      /\ Len(rows) = n + 1
      /\ \A i \in 1..n : rows[i] = outs[i]
      /\ rows[n + 1] = last
    BY <1>2, <1>3, <1>4, <1>6
<1>9. Len(rows) - 1 = n /\ \A i \in 1..n : rows[i] = AutoCheckOut(log[s[i]], a)
    BY <1>2, <1>7, <1>8
<1>11. Len(rows) \in Nat \ {0} /\ rows[Len(rows)] = last
    BY <1>2, <1>8
<1> QED
    BY <1>2, <1>8, <1>9, <1>11 DEF last, rows, Shaped

\* An event that is not an automatic check-out carries a challenge.
Attested(rows) == \A i \in 1..Len(rows) : ~ rows[i].auto => rows[i].challenge \in Challenge

\* The rows before the last are automatic check-outs of check-ins that are left.
LEMMA ShapedOut ==
    ASSUME NEW rows, NEW c, NEW d, NEW left, NEW fix, NEW a,
           Shaped(rows, c, d, left, fix, a), NEW i \in 1..Len(rows), i # Len(rows)
    PROVE  \E j \in left : rows[i] = AutoCheckOut(log[j], a)
<1>1. i \in 1..(Len(rows) - 1)
    BY DEF Shaped
<1> QED
    BY <1>1 DEF Shaped

LEMMA ShapedAttested ==
    ASSUME NEW rows, NEW c \in Challenge, NEW d, NEW left, NEW fix, NEW a,
           Shaped(rows, c, d, left, fix, a)
    PROVE  Attested(rows)
<1> SUFFICES ASSUME NEW i \in 1..Len(rows), ~ rows[i].auto
             PROVE  rows[i].challenge \in Challenge
    BY DEF Attested
<1>1. CASE i = Len(rows)
    BY <1>1 DEF Shaped, TheEvent
<1>2. CASE i # Len(rows)
    <2>1. PICK j \in left : rows[i] = AutoCheckOut(log[j], a)
        BY <1>2, ShapedOut
    <2> QED
        BY <2>1 DEF AutoCheckOut
<1> QED
    BY <1>1, <1>2

----------------------------------------------------------------------------
(* Counting what is open: OpenCount, for any sequence of events.           *)

\* What one event does to the count.
After(n, e, p, d) ==
    IF e.day # d \/ e.project # p \/ ~ Counted(e) THEN n
    ELSE IF e.type = "CHECK_IN" THEN n + 1
    ELSE IF e.status = "VALID" /\ n > 0 THEN n - 1
    ELSE n

\* f is the count after each of the first n events of L.
CountsTo(f, n, L, p, d) ==
    /\ f \in [0..n -> Nat]
    /\ f[0] = 0
    /\ \A i \in 1..n : f[i] = After(f[i - 1], L[i], p, d)

Open(L, p, d) == (CHOOSE f : CountsTo(f, Len(L), L, p, d))[Len(L)]

LEMMA AfterType ==
    ASSUME NEW n \in Nat, NEW e, NEW p, NEW d
    PROVE  After(n, e, p, d) \in Nat
BY DEF After

LEMMA CountExists ==
    ASSUME NEW L \in Seq(Event), NEW p, NEW d, NEW n \in 0..Len(L)
    PROVE  \E f : CountsTo(f, n, L, p, d)
<1> DEFINE T == {i \in 0..Len(L) : \E f : CountsTo(f, i, L, p, d)}
<1>1. 0 \in T
    <2>1. CountsTo([x \in 0..0 |-> 0], 0, L, p, d)
        BY DEF CountsTo
    <2> QED
        BY <2>1
<1>2. ASSUME NEW i \in 1..Len(L), i - 1 \in T
      PROVE  i \in T
    <2>1. PICK f : CountsTo(f, i - 1, L, p, d)
        BY <1>2
    <2> DEFINE g == [x \in 0..i |-> IF x = i THEN After(f[i - 1], L[i], p, d) ELSE f[x]]
    <2>2. f \in [0..(i - 1) -> Nat] /\ f[0] = 0
        BY <2>1 DEF CountsTo
    <2>3. f[i - 1] \in Nat
        BY <2>2
    <2>4. After(f[i - 1], L[i], p, d) \in Nat
        BY <2>3, AfterType
    <2>5. g \in [0..i -> Nat] /\ g[0] = 0
        BY <2>2, <2>4
    <2>6. \A k \in 1..i : g[k] = After(g[k - 1], L[k], p, d)
        <3> SUFFICES ASSUME NEW k \in 1..i PROVE g[k] = After(g[k - 1], L[k], p, d)
            OBVIOUS
        <3>1. g[k - 1] = f[k - 1]
            OBVIOUS
        <3>2. CASE k = i
            BY <3>1, <3>2
        <3>3. CASE k # i
            <4>1. k \in 1..(i - 1) /\ g[k] = f[k]
                BY <3>3
            <4> QED
                BY <2>1, <3>1, <4>1 DEF CountsTo
        <3> QED
            BY <3>2, <3>3
    <2> HIDE DEF g
    <2>7. CountsTo(g, i, L, p, d)
        BY <2>5, <2>6 DEF CountsTo
    <2> QED
        BY <2>7
<1> HIDE DEF T
<1>3. T \in SUBSET (0..Len(L))
    BY DEF T
<1>4. T = 0..Len(L)
    BY <1>1, <1>2, <1>3, UpTo
<1> QED
    BY <1>4 DEF T

\* The count depends on the events alone.
LEMMA CountUnique ==
    ASSUME NEW n \in Nat, NEW m \in 0..n, NEW f, NEW g, NEW L, NEW M, NEW p, NEW d,
           CountsTo(f, n, L, p, d), CountsTo(g, m, M, p, d),
           \A i \in 1..m : L[i] = M[i]
    PROVE  \A i \in 0..m : f[i] = g[i]
<1> DEFINE T == {i \in 0..m : f[i] = g[i]}
<1>1. 0 \in T
    BY DEF CountsTo
<1>2. ASSUME NEW i \in 1..m, i - 1 \in T
      PROVE  i \in T
    <2>1. f[i] = After(f[i - 1], L[i], p, d) /\ g[i] = After(g[i - 1], M[i], p, d)
        BY DEF CountsTo
    <2> QED
        BY <1>2, <2>1
<1> HIDE DEF T
<1>3. T \in SUBSET (0..m)
    BY DEF T
<1>4. T = 0..m
    BY <1>1, <1>2, <1>3, UpTo
<1> QED
    BY <1>4 DEF T

\* The model's own count is this one.
LEMMA OpenCountIsOpen ==
    ASSUME log \in Seq(Event), NEW p, NEW d
    PROVE  OpenCount(p, d) = Open(log, p, d)
<1> DEFINE n == Len(log)
           Body(f) == [i \in 0..n |->
                          IF i = 0 THEN 0
                          ELSE IF log[i].day # d \/ log[i].project # p \/ ~ Counted(log[i])
                               THEN f[i - 1]
                          ELSE IF log[i].type = "CHECK_IN" THEN f[i - 1] + 1
                          ELSE IF log[i].status = "VALID" /\ f[i - 1] > 0 THEN f[i - 1] - 1
                          ELSE f[i - 1]]
           o == CHOOSE f : f = Body(f)
           c == CHOOSE f : CountsTo(f, n, log, p, d)
<1>1. n \in Nat /\ n \in 0..n
    OBVIOUS
<1>2. CountsTo(c, n, log, p, d)
    BY <1>1, CountExists
<1>3. c = Body(c)
    <2>1. c \in [0..n -> Nat] /\ c[0] = 0
        BY <1>2 DEF CountsTo
    <2>2. \A i \in 1..n : c[i] = After(c[i - 1], log[i], p, d)
        BY <1>2 DEF CountsTo
    <2> HIDE DEF c
    <2>3. ASSUME NEW i \in 1..n PROVE c[i] = Body(c)[i]
        BY <2>2 DEF After
    <2>4. c[0] = Body(c)[0] /\ 0 \in 0..n
        BY <1>1, <2>1
    <2>6. Body(c) = [i \in 0..n |-> Body(c)[i]] /\ c = [i \in 0..n |-> c[i]]
        BY <2>1
    <2> HIDE DEF Body
    <2>5. \A i \in 0..n : c[i] = Body(c)[i]
        BY <1>1, <2>3, <2>4
    <2> QED
        BY <2>5, <2>6
<1> HIDE DEF c
<1>4. o = Body(o)
    BY <1>3
<1>5. OpenCount(p, d) = o[n]
    BY DEF OpenCount
<1> HIDE DEF o
<1> DEFINE T == {i \in 0..n : o[i] = c[i]}
<1>6. 0 \in T
    BY <1>1, <1>3, <1>4
<1>7. ASSUME NEW i \in 1..n, i - 1 \in T
      PROVE  i \in T
    <2>1. o[i - 1] = c[i - 1]
        BY <1>7
    <2>2. o[i] = Body(o)[i] /\ c[i] = Body(c)[i]
        BY <1>3, <1>4
    <2>3. Body(o)[i] = Body(c)[i]
        BY <2>1
    <2> QED
        BY <2>2, <2>3
<1> HIDE DEF T, Body
<1>8. T = 0..n
    <2>1. T \in SUBSET (0..n)
        BY DEF T
    <2> QED
        BY <1>1, <1>6, <1>7, <2>1, UpTo
<1>9. o[n] = c[n]
    BY <1>1, <1>8 DEF T
<1> QED
    BY <1>5, <1>9 DEF Open, c

LEMMA OpenIs ==
    ASSUME NEW L \in Seq(Event), NEW p, NEW d, NEW f, CountsTo(f, Len(L), L, p, d)
    PROVE  Open(L, p, d) = f[Len(L)] /\ Open(L, p, d) \in Nat
<1> DEFINE c == CHOOSE g : CountsTo(g, Len(L), L, p, d)
<1>1. Len(L) \in Nat /\ Len(L) \in 0..Len(L)
    OBVIOUS
<1>2. CountsTo(c, Len(L), L, p, d)
    OBVIOUS
<1> HIDE DEF c
<1>3. c[Len(L)] = f[Len(L)]
    BY <1>1, <1>2, CountUnique
<1>4. c[Len(L)] \in Nat
    BY <1>1, <1>2 DEF CountsTo
<1> QED
    BY <1>3, <1>4 DEF Open, c

\* h is the count after each of the events M that follow L.
GoesOn(h, L, M, p, d) ==
    /\ h \in [0..Len(M) -> Nat]
    /\ h[0] = Open(L, p, d)
    /\ h[Len(M)] = Open(L \o M, p, d)
    /\ \A i \in 1..Len(M) : h[i] = After(h[i - 1], M[i], p, d)

LEMMA OpenType ==
    ASSUME NEW L \in Seq(Event), NEW p, NEW d
    PROVE  Open(L, p, d) \in Nat
<1>1. Len(L) \in 0..Len(L)
    OBVIOUS
<1>2. PICK f : CountsTo(f, Len(L), L, p, d)
    BY <1>1, CountExists
<1> QED
    BY <1>2, OpenIs

\* The count goes on from where it was when rows are added.
LEMMA OpenOfAppend ==
    ASSUME NEW L \in Seq(Event), NEW M \in Seq(Event), NEW p, NEW d
    PROVE  \E h : GoesOn(h, L, M, p, d)
<1> DEFINE N == L \o M
           l == Len(L)
           m == Len(M)
<1>1. /\ N \in Seq(Event) /\ l \in Nat /\ m \in Nat /\ Len(N) = l + m
      /\ \A i \in 1..l : N[i] = L[i]
      /\ \A i \in 1..m : N[l + i] = M[i]
    OBVIOUS
<1> HIDE DEF N, l, m
<1>2. Len(N) \in 0..Len(N) /\ l \in 0..Len(N) /\ Len(L) \in 0..Len(L) /\ Len(N) \in Nat
    BY <1>1 DEF l
<1>3. PICK f : CountsTo(f, Len(N), N, p, d)
    BY <1>1, <1>2, CountExists
<1>4. PICK g : CountsTo(g, l, L, p, d)
    BY <1>2, CountExists DEF l
<1>5. f[l] = g[l]
    <2>1. \A i \in 0..l : f[i] = g[i]
        BY <1>1, <1>2, <1>3, <1>4, CountUnique
    <2> QED
        BY <1>1, <2>1
<1>6. Open(L, p, d) = g[l]
    BY <1>4, OpenIs DEF l
<1>7. Open(N, p, d) = f[Len(N)]
    BY <1>1, <1>3, OpenIs
<1> DEFINE h == [i \in 0..m |-> f[l + i]]
<1>8. h \in [0..m -> Nat]
    BY <1>1, <1>3 DEF CountsTo
<1>9. h[0] = Open(L, p, d) /\ h[m] = Open(N, p, d)
    BY <1>1, <1>5, <1>6, <1>7
<1>10. \A i \in 1..m : h[i] = After(h[i - 1], M[i], p, d)
    <2> SUFFICES ASSUME NEW i \in 1..m PROVE h[i] = After(h[i - 1], M[i], p, d)
        OBVIOUS
    <2>1. l + i \in 1..Len(N) /\ (l + i) - 1 = l + (i - 1) /\ N[l + i] = M[i]
        BY <1>1
    <2>2. f[l + i] = After(f[(l + i) - 1], N[l + i], p, d)
        BY <1>3, <2>1 DEF CountsTo
    <2>3. h[i] = f[l + i] /\ h[i - 1] = f[l + (i - 1)]
        BY <1>1
    <2> QED
        BY <2>1, <2>2, <2>3
<1> HIDE DEF h
<1> QED
    BY <1>8, <1>9, <1>10 DEF N, m, GoesOn

\* A check-in at p on day d that counts.
Enters(e, p, d) == e.day = d /\ e.project = p /\ Counted(e) /\ e.type = "CHECK_IN"

\* Rows that check nobody in open nothing.
LEMMA AppendLowers ==
    ASSUME NEW L \in Seq(Event), NEW M \in Seq(Event), NEW p, NEW d,
           \A i \in 1..Len(M) : ~ Enters(M[i], p, d)
    PROVE  Open(L \o M, p, d) <= Open(L, p, d)
<1>1. PICK h : GoesOn(h, L, M, p, d)
    BY OpenOfAppend
<1>2. Len(M) \in Nat
    OBVIOUS
<1> DEFINE T == {i \in 0..Len(M) : h[i] <= h[0]}
<1>3. 0 \in T
    BY <1>1, <1>2 DEF GoesOn
<1>4. ASSUME NEW i \in 1..Len(M), i - 1 \in T
      PROVE  i \in T
    <2>1. h[i] = After(h[i - 1], M[i], p, d)
        BY <1>1 DEF GoesOn
    <2>2. h[i - 1] \in Nat /\ h[i - 1] <= h[0] /\ h[0] \in Nat
        BY <1>1, <1>2, <1>4 DEF GoesOn
    <2>3. h[i] <= h[i - 1]
        BY <2>1, <2>2 DEF After, Enters
    <2>4. h[i] \in Nat
        BY <1>1 DEF GoesOn
    <2> QED
        BY <2>2, <2>3, <2>4
<1> HIDE DEF T
<1>5. T \in SUBSET (0..Len(M))
    BY DEF T
<1>6. T = 0..Len(M)
    BY <1>2, <1>3, <1>4, <1>5, UpTo
<1>7. Len(M) \in T
    BY <1>2, <1>6
<1> QED
    BY <1>1, <1>7 DEF T, GoesOn

\* The more is open before some rows, the more is open after them.
LEMMA AppendMonotone ==
    ASSUME NEW L \in Seq(Event), NEW K \in Seq(Event), NEW M \in Seq(Event), NEW p, NEW d,
           Open(K, p, d) <= Open(L, p, d)
    PROVE  Open(K \o M, p, d) <= Open(L \o M, p, d)
<1>1. PICK h : GoesOn(h, L, M, p, d)
    BY OpenOfAppend
<1>2. PICK g : GoesOn(g, K, M, p, d)
    BY OpenOfAppend
<1>3. Len(M) \in Nat
    OBVIOUS
<1> DEFINE T == {i \in 0..Len(M) : g[i] <= h[i]}
<1>4. 0 \in T
    BY <1>1, <1>2, <1>3 DEF GoesOn
<1>5. ASSUME NEW i \in 1..Len(M), i - 1 \in T
      PROVE  i \in T
    <2>1. h[i] = After(h[i - 1], M[i], p, d) /\ g[i] = After(g[i - 1], M[i], p, d)
        BY <1>1, <1>2 DEF GoesOn
    <2>2. h[i - 1] \in Nat /\ g[i - 1] \in Nat /\ g[i - 1] <= h[i - 1]
        BY <1>1, <1>2, <1>3, <1>5 DEF GoesOn
    <2>3. g[i] <= h[i]
        BY <2>1, <2>2 DEF After
    <2> QED
        BY <2>3
<1> HIDE DEF T
<1>6. T \in SUBSET (0..Len(M))
    BY DEF T
<1>7. T = 0..Len(M)
    BY <1>3, <1>4, <1>5, <1>6, UpTo
<1>8. Len(M) \in T
    BY <1>3, <1>7
<1> QED
    BY <1>1, <1>2, <1>8 DEF T, GoesOn

\* Where no event of M raises a count by more than the event of L at its
\* place, no more is open after M.
LEMMA PlacewiseLower ==
    ASSUME NEW L \in Seq(Event), NEW M \in Seq(Event), NEW p, NEW d,
           Len(M) = Len(L),
           \A k \in 1..Len(L) : \A m, n \in Nat :
               m <= n => After(m, M[k], p, d) <= After(n, L[k], p, d)
    PROVE  Open(M, p, d) <= Open(L, p, d)
<1>1. Len(L) \in Nat /\ Len(L) \in 0..Len(L)
    OBVIOUS
<1>2. PICK f : CountsTo(f, Len(L), L, p, d)
    BY <1>1, CountExists
<1>3. PICK g : CountsTo(g, Len(M), M, p, d)
    BY <1>1, CountExists
<1> DEFINE T == {k \in 0..Len(L) : g[k] <= f[k]}
<1>4. 0 \in T
    BY <1>1, <1>2, <1>3 DEF CountsTo
<1>5. ASSUME NEW k \in 1..Len(L), k - 1 \in T
      PROVE  k \in T
    <2>1. f[k] = After(f[k - 1], L[k], p, d) /\ g[k] = After(g[k - 1], M[k], p, d)
        BY <1>1, <1>2, <1>3 DEF CountsTo
    <2>2. f[k - 1] \in Nat /\ g[k - 1] \in Nat /\ g[k - 1] <= f[k - 1]
        BY <1>1, <1>2, <1>3, <1>5 DEF CountsTo
    <2>3. g[k] <= f[k]
        BY <2>1, <2>2
    <2> QED
        BY <2>3
<1> HIDE DEF T
<1>6. T \in SUBSET (0..Len(L))
    BY DEF T
<1>7. T = 0..Len(L)
    BY <1>1, <1>4, <1>5, <1>6, UpTo
<1>8. g[Len(L)] <= f[Len(L)]
    BY <1>1, <1>7 DEF T
<1>9. Open(L, p, d) = f[Len(L)]
    BY <1>2, OpenIs
<1>10. Open(M, p, d) = g[Len(M)]
    BY <1>3, OpenIs
<1> QED
    BY <1>8, <1>9, <1>10

\* A decision opens nothing: it confirms or drops a check-in that counted, or
\* confirms a check-out that did not close yet.
LEMMA DecisionLowers ==
    ASSUME NEW L \in Seq(Event), NEW i \in 1..Len(L), L[i].status = "REVIEW",
           NEW verdict \in {"VALID", "REJECTED"}, NEW p, NEW d,
           NEW M \in Seq(Event), M = [L EXCEPT ![i].status = verdict]
    PROVE  Open(M, p, d) <= Open(L, p, d)
<1>1. /\ Len(M) = Len(L) /\ Len(L) \in Nat /\ L[i] \in Event
      /\ \A k \in 1..Len(L) : k # i => M[k] = L[k]
      /\ M[i] = [L[i] EXCEPT !.status = verdict]
    OBVIOUS
<1>2. /\ M[i].day = L[i].day /\ M[i].project = L[i].project /\ M[i].type = L[i].type
      /\ M[i].status = verdict /\ M[i].type \in {"CHECK_IN", "CHECK_OUT"}
    BY <1>1 DEF Event, Type
<1>3. ASSUME NEW k \in 1..Len(L), NEW m \in Nat, NEW n \in Nat, m <= n
      PROVE  After(m, M[k], p, d) <= After(n, L[k], p, d)
    <2>1. CASE k # i
        BY <1>1, <1>3, <2>1 DEF After
    <2>2. CASE k = i
        BY <1>2, <1>3, <2>2 DEF After, Counted
    <2> QED
        BY <2>1, <2>2
<1> QED
    BY <1>1, <1>3, PlacewiseLower

\* The check-ins of site p on day d among the first n events, and the
\* check-outs among the first n.
Ins(L, n, p, d) == {k \in 1..n : Enters(L[k], p, d)}
Leaves(e, p, d) ==
    e.day = d /\ e.project = p /\ e.type = "CHECK_OUT" /\ e.status = "VALID"
Outs(L, n, p, d) == {k \in 1..n : Leaves(L[k], p, d)}

LEMMA PrefixFinite ==
    ASSUME NEW n \in Nat, NEW T \in SUBSET (1..n)
    PROVE  IsFiniteSet(T) /\ Cardinality(T) \in Nat
<1>1. IsFiniteSet(1..n)
    BY FS_Interval
<1>2. IsFiniteSet(T)
    BY <1>1, FS_Subset
<1> QED
    BY <1>2, FS_CardinalityType

\* No more is open than was entered.
LEMMA OpenAtMostIns ==
    ASSUME NEW L \in Seq(Event), NEW p, NEW d
    PROVE  Open(L, p, d) <= Cardinality(Ins(L, Len(L), p, d))
<1>1. Len(L) \in Nat /\ Len(L) \in 0..Len(L)
    OBVIOUS
<1>2. PICK f : CountsTo(f, Len(L), L, p, d)
    BY <1>1, CountExists
<1> DEFINE C(n) == Cardinality(Ins(L, n, p, d))
           T == {n \in 0..Len(L) : f[n] <= C(n)}
<1>3. \A n \in 0..Len(L) : IsFiniteSet(Ins(L, n, p, d)) /\ C(n) \in Nat
    <2> SUFFICES ASSUME NEW n \in 0..Len(L)
                 PROVE  IsFiniteSet(Ins(L, n, p, d)) /\ C(n) \in Nat
        OBVIOUS
    <2>1. n \in Nat /\ Ins(L, n, p, d) \in SUBSET (1..n)
        BY DEF Ins
    <2> QED
        BY <2>1, PrefixFinite
<1>4. 0 \in T
    <2>1. f[0] = 0
        BY <1>2 DEF CountsTo
    <2>2. 0 \in 0..Len(L) /\ C(0) \in Nat
        BY <1>1, <1>3
    <2> QED
        BY <2>1, <2>2
<1>5. ASSUME NEW n \in 1..Len(L), n - 1 \in T
      PROVE  n \in T
    <2>1. f[n] = After(f[n - 1], L[n], p, d) /\ f[n - 1] \in Nat
        BY <1>1, <1>2 DEF CountsTo
    <2>2. C(n) \in Nat /\ C(n - 1) \in Nat /\ f[n - 1] <= C(n - 1)
        BY <1>1, <1>3, <1>5
    <2>3. CASE Enters(L[n], p, d)
        <3>1. Ins(L, n, p, d) = Ins(L, n - 1, p, d) \cup {n}
            BY <1>1, <2>3 DEF Ins
        <3>2. n \notin Ins(L, n - 1, p, d)
            BY DEF Ins
        <3>3. C(n) = C(n - 1) + 1
            <4>1. IsFiniteSet(Ins(L, n - 1, p, d))
                BY <1>1, <1>3
            <4> QED
                BY <3>1, <3>2, <4>1, FS_AddElement
        <3> HIDE DEF C
        <3>4. f[n] = f[n - 1] + 1
            BY <2>1, <2>3 DEF After, Enters
        <3> QED
            BY <2>1, <2>2, <3>3, <3>4
    <2>4. CASE ~ Enters(L[n], p, d)
        <3>1. Ins(L, n, p, d) = Ins(L, n - 1, p, d)
            BY <1>1, <2>4 DEF Ins
        <3>2. f[n] <= f[n - 1] /\ f[n] \in Nat
            BY <2>1, <2>4 DEF After, Enters
        <3> QED
            BY <2>1, <2>2, <3>1, <3>2
    <2> QED
        BY <2>3, <2>4
<1> HIDE DEF T
<1>6. T \in SUBSET (0..Len(L))
    BY DEF T
<1>7. T = 0..Len(L)
    BY <1>1, <1>4, <1>5, <1>6, UpTo
<1>8. f[Len(L)] <= C(Len(L))
    BY <1>1, <1>7 DEF T
<1> QED
    BY <1>2, <1>8, OpenIs

\* Rows with as many check-outs from p as are open there, and no check-in,
\* leave nothing open at p.
LEMMA AppendClears ==
    ASSUME NEW L \in Seq(Event), NEW M \in Seq(Event), NEW p, NEW d,
           \A i \in 1..Len(M) : ~ Enters(M[i], p, d),
           Open(L, p, d) <= Cardinality(Outs(M, Len(M), p, d))
    PROVE  Open(L \o M, p, d) = 0
<1>1. PICK h : GoesOn(h, L, M, p, d)
    BY OpenOfAppend
<1>2. Len(M) \in Nat /\ Len(M) \in 0..Len(M)
    OBVIOUS
<1> DEFINE C(n) == Cardinality(Outs(M, n, p, d))
           T == {n \in 0..Len(M) : h[n] = 0 \/ h[n] + C(n) <= h[0]}
<1>3. \A n \in 0..Len(M) : IsFiniteSet(Outs(M, n, p, d)) /\ C(n) \in Nat
    <2> SUFFICES ASSUME NEW n \in 0..Len(M)
                 PROVE  IsFiniteSet(Outs(M, n, p, d)) /\ C(n) \in Nat
        OBVIOUS
    <2>1. n \in Nat /\ Outs(M, n, p, d) \in SUBSET (1..n)
        BY DEF Outs
    <2> QED
        BY <2>1, PrefixFinite
<1>4. 0 \in T
    <2>1. Outs(M, 0, p, d) = {}
        BY DEF Outs
    <2>2. C(0) = 0
        BY <2>1, FS_EmptySet
    <2>3. 0 \in 0..Len(M) /\ h[0] \in Nat
        BY <1>1, <1>2 DEF GoesOn
    <2> QED
        BY <2>2, <2>3
<1>5. ASSUME NEW n \in 1..Len(M), n - 1 \in T
      PROVE  n \in T
    <2>1. h[n] = After(h[n - 1], M[n], p, d) /\ h[n - 1] \in Nat /\ h[0] \in Nat
        BY <1>1, <1>2 DEF GoesOn
    <2>2. C(n) \in Nat /\ C(n - 1) \in Nat /\ (h[n - 1] = 0 \/ h[n - 1] + C(n - 1) <= h[0])
        BY <1>2, <1>3, <1>5
    <2>3. CASE Leaves(M[n], p, d)
        <3>1. Outs(M, n, p, d) = Outs(M, n - 1, p, d) \cup {n}
            BY <1>2, <2>3 DEF Outs
        <3>2. n \notin Outs(M, n - 1, p, d)
            BY DEF Outs
        <3>3. C(n) = C(n - 1) + 1
            <4>1. IsFiniteSet(Outs(M, n - 1, p, d))
                BY <1>2, <1>3
            <4> QED
                BY <3>1, <3>2, <4>1, FS_AddElement
        <3> HIDE DEF C
        <3>4. h[n] = IF h[n - 1] > 0 THEN h[n - 1] - 1 ELSE 0
            BY <2>1, <2>3 DEF After, Leaves, Counted
        <3> QED
            BY <2>1, <2>2, <3>3, <3>4
    <2>4. CASE ~ Leaves(M[n], p, d)
        <3>1. Outs(M, n, p, d) = Outs(M, n - 1, p, d)
            BY <1>2, <2>4 DEF Outs
        <3>2. ~ Enters(M[n], p, d)
            OBVIOUS
        <3>3. h[n] <= h[n - 1] /\ h[n] \in Nat
            BY <2>1, <3>2 DEF After, Enters
        <3> QED
            BY <2>1, <2>2, <3>1, <3>3
    <2> QED
        BY <2>3, <2>4
<1> HIDE DEF T
<1>6. T \in SUBSET (0..Len(M))
    BY DEF T
<1>7. T = 0..Len(M)
    BY <1>2, <1>4, <1>5, <1>6, UpTo
<1>8. h[Len(M)] = 0 \/ h[Len(M)] + C(Len(M)) <= h[0]
    BY <1>2, <1>7 DEF T
<1>9. h[0] <= C(Len(M))
    BY <1>1 DEF GoesOn
<1>10. C(Len(M)) \in Nat
    BY <1>2, <1>3
<1> HIDE DEF C
<1> QED
    BY <1>1, <1>2, <1>8, <1>9, <1>10 DEF GoesOn

----------------------------------------------------------------------------
(* Submissions.                                                            *)

\* At most the last row checks in, at the site of the challenge.
Aims(rows, c) ==
    \A i \in 1..Len(rows) : rows[i].type = "CHECK_IN" =>
        i = Len(rows) /\ rows[i].project = challenge[c].project

\* Rows that check in leave no other site of that day open.
Clears(L, rows) ==
    LET e == rows[Len(rows)] IN
        e.type = "CHECK_IN" =>
            \A q \in Project : q # e.project => Open(L \o rows, q, e.day) = 0

LEMMA ShapedAims ==
    ASSUME NEW rows, NEW c \in Challenge, NEW d, NEW left, NEW fix, NEW a,
           Shaped(rows, c, d, left, fix, a)
    PROVE  Aims(rows, c)
<1> SUFFICES ASSUME NEW i \in 1..Len(rows), rows[i].type = "CHECK_IN"
             PROVE  i = Len(rows) /\ rows[i].project = challenge[c].project
    BY DEF Aims
<1>1. CASE i = Len(rows)
    BY <1>1 DEF Shaped, TheEvent
<1>2. CASE i # Len(rows)
    <2>1. PICK j \in left : rows[i] = AutoCheckOut(log[j], a)
        BY <1>2, ShapedOut
    <2> QED
        BY <2>1 DEF AutoCheckOut
<1> QED
    BY <1>1, <1>2

\* Automatic check-outs of all check-ins of a site close it.
LEMMA ShapedClose ==
    ASSUME TypeOK, NEW rows, NEW c \in Challenge, NEW d,
           NEW left \in SUBSET (1..Len(log)), NEW fix, NEW a,
           Shaped(rows, c, d, left, fix, a), NEW q, q # challenge[c].project,
           \A j \in left : log[j].day = d,
           Open(log, q, d) = 0 \/ Ins(log, Len(log), q, d) \subseteq left
    PROVE  Open(log \o rows, q, d) = 0
<1>1. log \in Seq(Event) /\ rows \in Seq(Event)
    BY DEF TypeOK, Shaped
<1>2. \A i \in 1..Len(rows) : ~ Enters(rows[i], q, d)
    BY ShapedAims DEF Aims, Enters
<1>3. CASE Open(log, q, d) = 0
    <2>1. Open(log \o rows, q, d) <= 0
        BY <1>1, <1>2, <1>3, AppendLowers
    <2>2. Open(log \o rows, q, d) \in Nat
        <3>1. log \o rows \in Seq(Event)
            BY <1>1
        <3> QED
            BY <3>1, OpenType
    <2> QED
        BY <2>1, <2>2
<1>4. CASE Ins(log, Len(log), q, d) \subseteq left
    <2> DEFINE n == Len(rows) - 1
               T == {j \in left : log[j].project = q}
               O == Outs(rows, Len(rows), q, d)
               I == Ins(log, Len(log), q, d)
    <2>1. PICK s \in [1..n -> left] :
              /\ \A j \in left : \E i \in 1..n : s[i] = j
              /\ \A i \in 1..n : rows[i] = AutoCheckOut(log[s[i]], a)
        BY DEF Shaped
    <2>2. Len(rows) \in Nat /\ Len(log) \in Nat /\ n \in Nat /\ n < Len(rows)
        BY <1>1 DEF Shaped
    <2> DEFINE P == {i \in 1..n : log[s[i]].project = q}
               f == [i \in P |-> s[i]]
    <2>3. P \in SUBSET O
        <3> SUFFICES ASSUME NEW i \in P PROVE i \in O
            OBVIOUS
        <3>1. i \in 1..n /\ log[s[i]].project = q
            OBVIOUS
        <3>2. i \in 1..Len(rows)
            BY <2>2, <3>1
        <3>3. s[i] \in left
            BY <2>1, <3>1
        <3>4. log[s[i]].day = d
            BY <3>3
        <3>5. rows[i] = AutoCheckOut(log[s[i]], a)
            BY <2>1, <3>1
        <3> QED
            BY <3>1, <3>2, <3>4, <3>5 DEF Outs, Leaves, AutoCheckOut
    <2>4. f \in Surjection(P, T)
        <3>1. f \in [P -> T]
            BY <2>1
        <3>2. \A j \in T : \E i \in P : f[i] = j
            BY <2>1
        <3> HIDE DEF f, P, T
        <3> QED
            BY <3>1, <3>2 DEF Surjection
    <2>5. O \in SUBSET (1..Len(rows)) /\ P \in SUBSET (1..Len(rows))
        BY <2>2, <2>3 DEF Outs
    <2>6. I \in SUBSET T
        BY <1>4 DEF Ins, Enters
    <2>7. T \in SUBSET (1..Len(log)) /\ I \in SUBSET (1..Len(log))
        BY <2>6
    <2> HIDE DEF P, T, O, I, f, n
    <2>8. IsFiniteSet(P) /\ IsFiniteSet(O) /\ IsFiniteSet(T)
        BY <2>2, <2>5, <2>7, PrefixFinite
    <2>9. Cardinality(T) <= Cardinality(P)
        BY <2>4, <2>8, FS_Surjection
    <2>10. Cardinality(P) <= Cardinality(O)
        BY <2>3, <2>8, FS_Subset
    <2>11. Cardinality(I) <= Cardinality(T)
        BY <2>6, <2>8, FS_Subset
    <2>12. Open(log, q, d) <= Cardinality(I)
        BY <1>1, OpenAtMostIns DEF I
    <2>13. /\ Cardinality(I) \in Nat /\ Cardinality(T) \in Nat
           /\ Cardinality(P) \in Nat /\ Cardinality(O) \in Nat
        BY <2>2, <2>5, <2>7, PrefixFinite
    <2>14. Open(log, q, d) \in Nat
        BY <1>1, OpenType
    <2>15. Open(log, q, d) <= Cardinality(O)
        BY <2>9, <2>10, <2>11, <2>12, <2>13, <2>14
    <2> QED
        BY <1>1, <1>2, <2>15, AppendClears DEF O
<1> QED
    BY <1>3, <1>4

\* The app leaves every other site of the challenge's day.
LEMMA MobileClears ==
    ASSUME TypeOK, Multi, NEW c \in Challenge, challenge[c] \in ChallengeRow,
           NEW rows, NEW fix, NEW a, NEW d, d = challenge[c].day,
           Shaped(rows, c, d, MobileLeft(c), fix, a)
    PROVE  Clears(log, rows)
<1>1. rows[Len(rows)] = TheEvent(c, d, fix)
    BY DEF Shaped
<1> SUFFICES ASSUME challenge[c].type = "CHECK_IN",
                    NEW q \in Project, q # challenge[c].project
             PROVE  Open(log \o rows, q, d) = 0
    BY <1>1 DEF Clears, TheEvent
<1>2. /\ MobileLeft(c) \in SUBSET (1..Len(log))
      /\ \A j \in MobileLeft(c) : log[j].day = d
      /\ Ins(log, Len(log), q, d) \subseteq MobileLeft(c)
    BY DEF MobileLeft, CountedIns, Ins, Enters
<1> QED
    BY <1>2, ShapedClose

\* The web page leaves every other site that is open today.
LEMMA WebClears ==
    ASSUME TypeOK, Multi, NEW c \in Challenge, challenge[c] \in ChallengeRow,
           NEW rows, NEW fix, NEW a,
           Shaped(rows, c, today, WebLeft(c), fix, a)
    PROVE  Clears(log, rows)
<1>1. rows[Len(rows)] = TheEvent(c, today, fix)
    BY DEF Shaped
<1> SUFFICES ASSUME challenge[c].type = "CHECK_IN",
                    NEW q \in Project, q # challenge[c].project
             PROVE  Open(log \o rows, q, today) = 0
    BY <1>1 DEF Clears, TheEvent
<1>2. /\ WebLeft(c) \in SUBSET (1..Len(log))
      /\ \A j \in WebLeft(c) : log[j].day = today
    BY DEF WebLeft, CountedIns
<1>3. Open(log, q, today) = 0 \/ Ins(log, Len(log), q, today) \subseteq WebLeft(c)
    <2>1. Open(log, q, today) \in Nat /\ OpenCount(q, today) = Open(log, q, today)
        BY OpenType, OpenCountIsOpen DEF TypeOK
    <2>2. CASE Open(log, q, today) > 0
        <3>1. q \in OpenProjects(today)
            BY <2>1, <2>2 DEF OpenProjects
        <3> QED
            BY <3>1 DEF WebLeft, CountedIns, Ins, Enters
    <2> QED
        BY <2>1, <2>2
<1> QED
    BY <1>2, <1>3, ShapedClose

\* The start of a submission, whichever way it comes in.
LEMMA SubmissionBegins ==
    ASSUME TypeOK, NEW r \in Request, NEW c \in Challenge, NEW fix \in Fix,
           BeginMobileSubmit(r, c, fix) \/ BeginWebSubmit(r, c, fix)
    PROVE  \E rows \in Seq(Event) :
              /\ request[r] = Idle
              /\ request' = [request EXCEPT ![r] =
                                [op |-> "submit", challenge |-> c, rows |-> rows]]
              /\ UNCHANGED <<today, enrolled, challenge, log>>
              /\ challenge[c] \in ChallengeRow
              /\ Attested(rows) /\ Aims(rows, c)
              /\ Multi => Clears(log, rows)
              /\ Len(rows) > 0
              /\ "mobile" \notin Channel =>
                    \A i \in 1..Len(rows) : rows[i].day = today
<1>1. CASE BeginMobileSubmit(r, c, fix)
    <2> DEFINE rows == Rows(c, challenge[c].day, MobileLeft(c), fix, c)
    <2>1. Begin(r, c, rows) /\ Usable(c) /\ "mobile" \in Channel
        BY <1>1 DEF BeginMobileSubmit
    <2>2. challenge[c] \in ChallengeRow
        BY <2>1, UsableRow
    <2>3. MobileLeft(c) \in SUBSET (1..Len(log)) /\ challenge[c].day \in Day
        BY <2>2 DEF MobileLeft, CountedIns, ChallengeRow
    <2>4. Shaped(rows, c, challenge[c].day, MobileLeft(c), fix, c)
        BY <2>2, <2>3, RowsShape
    <2> HIDE DEF rows
    <2>5. rows \in Seq(Event) /\ Len(rows) \in Nat \ {0}
        BY <2>4 DEF Shaped
    <2>6. Attested(rows) /\ Aims(rows, c)
        BY <2>4, ShapedAttested, ShapedAims
    <2>10. Multi => Clears(log, rows)
        BY <2>2, <2>3, <2>4, MobileClears
    <2>8. /\ request[r] = Idle
          /\ request' = [request EXCEPT ![r] =
                            [op |-> "submit", challenge |-> c, rows |-> rows]]
          /\ UNCHANGED <<today, enrolled, challenge, log>>
        BY <2>1 DEF Begin
    <2>9. Len(rows) > 0
        BY <2>5
    <2> QED
        BY <2>1, <2>2, <2>5, <2>6, <2>8, <2>9, <2>10
<1>2. CASE BeginWebSubmit(r, c, fix)
    <2> DEFINE rows == Rows(c, today, WebLeft(c), fix, NoChallenge)
    <2>1. Begin(r, c, rows) /\ Usable(c)
        BY <1>2 DEF BeginWebSubmit
    <2>2. challenge[c] \in ChallengeRow
        BY <2>1, UsableRow
    <2>3. /\ WebLeft(c) \in SUBSET (1..Len(log))
          /\ \A j \in WebLeft(c) : log[j].day = today
          /\ today \in Day
        BY DEF WebLeft, CountedIns, TypeOK
    <2>4. Shaped(rows, c, today, WebLeft(c), fix, NoChallenge)
        BY <2>2, <2>3, RowsShape
    <2> HIDE DEF rows
    <2>5. rows \in Seq(Event) /\ Len(rows) \in Nat \ {0}
        BY <2>4 DEF Shaped
    <2>6. Attested(rows) /\ Aims(rows, c)
        BY <2>4, ShapedAttested, ShapedAims
    <2>10. Multi => Clears(log, rows)
        BY <2>2, <2>4, WebClears
    <2>7. \A i \in 1..Len(rows) : rows[i].day = today
        <3> SUFFICES ASSUME NEW i \in 1..Len(rows) PROVE rows[i].day = today
            OBVIOUS
        <3>1. CASE i = Len(rows)
            BY <3>1, <2>4 DEF Shaped, TheEvent
        <3>2. CASE i # Len(rows)
            <4>1. PICK j \in WebLeft(c) : rows[i] = AutoCheckOut(log[j], NoChallenge)
                BY <3>2, <2>4, ShapedOut
            <4> QED
                BY <4>1, <2>3 DEF AutoCheckOut
        <3> QED
            BY <3>1, <3>2
    <2>8. /\ request[r] = Idle
          /\ request' = [request EXCEPT ![r] =
                            [op |-> "submit", challenge |-> c, rows |-> rows]]
          /\ UNCHANGED <<today, enrolled, challenge, log>>
        BY <2>1 DEF Begin
    <2>9. Len(rows) > 0
        BY <2>5
    <2> QED
        BY <2>1, <2>2, <2>5, <2>6, <2>7, <2>8, <2>9, <2>10
<1> QED
    BY <1>1, <1>2

\* A challenge is issued for a project of the tenant, and for today.
LEMMA IssuedRow ==
    ASSUME AttendanceAssumption, TypeOK,
           NEW c \in Challenge, NEW asked \in Project \cup {NoProject},
           \/ MobileChallengeIn(c, asked) \/ MobileChallengeOut(c, asked)
           \/ WebChallengeIn(c, asked) \/ WebChallengeOut(c, asked)
    PROVE  /\ challenge[c] = Unissued
           /\ \E row \in ChallengeRow : challenge' = [challenge EXCEPT ![c] = row]
           /\ UNCHANGED <<today, enrolled, log, request>>
<1>1. LatestIn(today) \in Project \cup {NoProject}
    BY LatestInType
<1>2. \A target \in Project \cup {NoProject} : AssignedToday(target) \in SUBSET Project
    <2>1. Assigned[today] \in Project \cup {NoProject}
        BY DEF AttendanceAssumption, TypeOK, Day
    <2> QED
        BY <2>1 DEF AssignedToday
<1>3. WebTarget(asked) \in SUBSET Project
    BY <1>1 DEF WebTarget
<1>4. ASSUME NEW type \in Type, NEW p \in Project, Issue(c, type, p)
      PROVE  /\ challenge[c] = Unissued
             /\ \E row \in ChallengeRow : challenge' = [challenge EXCEPT ![c] = row]
             /\ UNCHANGED <<today, enrolled, log, request>>
    BY <1>4 DEF Issue, ChallengeRow, TypeOK
<1>5. CASE MobileChallengeIn(c, asked)
    BY <1>2, <1>4, <1>5 DEF MobileChallengeIn, Type
<1>6. CASE MobileChallengeOut(c, asked)
    BY <1>1, <1>2, <1>4, <1>6 DEF MobileChallengeOut, Type
<1>7. CASE WebChallengeIn(c, asked)
    BY <1>3, <1>4, <1>7 DEF WebChallengeIn, Type
<1>8. CASE WebChallengeOut(c, asked)
    BY <1>3, <1>4, <1>8 DEF WebChallengeOut, Type
<1> QED
    BY <1>5, <1>6, <1>7, <1>8

\* A submission begins with rows that depend on what it read.
Begins(r, c, rows) ==
    /\ request[r] = Idle
    /\ request' = [request EXCEPT ![r] =
                      [op |-> "submit", challenge |-> c, rows |-> rows]]
    /\ UNCHANGED <<today, enrolled, challenge, log>>
    /\ challenge[c] \in ChallengeRow
    /\ Attested(rows) /\ Aims(rows, c)
    /\ Multi => Clears(log, rows)
    /\ Len(rows) > 0
    /\ "mobile" \notin Channel => \A i \in 1..Len(rows) : rows[i].day = today

\* Rows of the challenge table are rows, and stay.
ChallengesStay ==
    /\ challenge' \in [Challenge -> {Unissued} \cup ChallengeRow]
    /\ \A c \in Challenge : challenge[c] \in ChallengeRow =>
          challenge'[c] \in ChallengeRow /\ challenge'[c].project = challenge[c].project

\* Nothing is read or written for the log; challenges, the device and the day
\* may move on.
Quiet ==
    /\ UNCHANGED <<log, request>>
    /\ today' \in Day /\ enrolled' \in BOOLEAN
    /\ ChallengesStay
    /\ today <= today'

\* The steps of attendance, by what they do to the log and to the requests.
LEMMA StepKinds ==
    ASSUME AttendanceAssumption, TypeOK, AttendanceStep
    PROVE  \/ Quiet
           \/ \E r \in Request, c \in Challenge, rows \in Seq(Event) : Begins(r, c, rows)
           \/ \E r \in Request :
                 \/ \E i \in 1..Len(log), verdict \in {"VALID", "REJECTED"} :
                       BeginReview(r, i, verdict)
                 \/ CommitSubmit(r) \/ CommitReview(r) \/ Abort(r)
<1> USE DEF TypeOK
<1>0. today \in Int /\ today <= today
    BY DEF Day
<1>1. ASSUME NEW c \in Challenge, NEW asked \in Project \cup {NoProject},
             \/ MobileChallengeIn(c, asked) \/ MobileChallengeOut(c, asked)
             \/ WebChallengeIn(c, asked) \/ WebChallengeOut(c, asked)
      PROVE  Quiet
    <2>1. PICK row \in ChallengeRow : challenge' = [challenge EXCEPT ![c] = row]
        BY <1>1, IssuedRow
    <2>2. challenge[c] = Unissued /\ UNCHANGED <<today, enrolled, log, request>>
        BY <1>1, IssuedRow
    <2>3. ChallengesStay
        <3>1. challenge[c] \notin ChallengeRow
            BY <2>2 DEF Unissued, ChallengeRow
        <3>2. challenge' \in [Challenge -> {Unissued} \cup ChallengeRow]
            BY <2>1
        <3>3. \A b \in Challenge : b # c => challenge'[b] = challenge[b]
            BY <2>1
        <3> QED
            BY <3>1, <3>2, <3>3 DEF ChallengesStay
    <2> QED
        BY <1>0, <2>2, <2>3 DEF Quiet
<1>2. ASSUME NEW c \in Challenge, ExpireChallenge(c)
      PROVE  Quiet
    <2>1. challenge[c] \in ChallengeRow
        BY <1>2 DEF ExpireChallenge, Unissued
    <2>2. /\ [challenge[c] EXCEPT !.state = "EXPIRED"] \in ChallengeRow
          /\ [challenge[c] EXCEPT !.state = "EXPIRED"].project = challenge[c].project
        BY <2>1 DEF ChallengeRow
    <2>3. challenge' = [challenge EXCEPT ![c] = [challenge[c] EXCEPT !.state = "EXPIRED"]]
        BY <1>2 DEF ExpireChallenge
    <2>4. ChallengesStay
        BY <2>2, <2>3 DEF ChallengesStay
    <2> QED
        BY <1>0, <1>2, <2>4 DEF Quiet, ExpireChallenge
<1>3. CASE ApproveDevice
    BY <1>0, <1>3 DEF ApproveDevice, Quiet, ChallengesStay
<1>4. CASE NextDay
    BY <1>0, <1>4 DEF NextDay, Quiet, ChallengesStay, Day, AttendanceAssumption
<1>5. ASSUME NEW r \in Request, NEW c \in Challenge, NEW fix \in Fix,
             BeginMobileSubmit(r, c, fix) \/ BeginWebSubmit(r, c, fix)
      PROVE  \E rows \in Seq(Event) : Begins(r, c, rows)
    BY <1>5, SubmissionBegins DEF Begins
<1> QED
    BY <1>1, <1>2, <1>3, <1>4, <1>5 DEF AttendanceStep

\* What the commit of a submission does: all of its rows, or nothing.
LEMMA SubmissionCommits ==
    ASSUME TypeOK, NEW r \in Request, CommitSubmit(r),
           challenge[request[r].challenge] \in ChallengeRow
    PROVE  /\ request[r] \in SubmitRequest
           /\ request' = [request EXCEPT ![r] = Idle]
           /\ UNCHANGED <<today, enrolled>>
           /\ ChallengesStay
           /\ \/ UNCHANGED log
              \/ /\ ~ Refused(request[r].rows)
                 /\ log' = log \o request[r].rows
<1>1. request[r] \in SubmitRequest
    BY DEF TypeOK, CommitSubmit, Idle, ReviewRequest, SubmitRequest
<1> DEFINE c == request[r].challenge
<1>2. c \in Challenge
    BY <1>1 DEF SubmitRequest
<1>3. ChallengesStay
    <2>1. CASE Refused(request[r].rows)
        BY <2>1 DEF CommitSubmit, TypeOK, ChallengesStay
    <2>2. CASE ~ Refused(request[r].rows)
        <3>1. challenge' = [challenge EXCEPT ![c] = [challenge[c] EXCEPT !.state = "USED"]]
            BY <2>2 DEF CommitSubmit
        <3>2. /\ [challenge[c] EXCEPT !.state = "USED"] \in ChallengeRow
              /\ [challenge[c] EXCEPT !.state = "USED"].project = challenge[c].project
            BY DEF ChallengeRow
        <3> QED
            BY <1>2, <3>1, <3>2 DEF ChallengesStay, TypeOK
    <2> QED
        BY <2>1, <2>2
<1> QED
    BY <1>1, <1>3 DEF CommitSubmit

----------------------------------------------------------------------------
(* Types.                                                                  *)

\* A request in flight names rows that exist.
Grounded ==
    \A r \in Request :
        /\ request[r].op = "submit" => /\ challenge[request[r].challenge] \in ChallengeRow
                                       /\ Attested(request[r].rows)
        /\ request[r].op = "review" => request[r].event \in 1..Len(log)

Sound == TypeOK /\ Grounded /\ Attested(log)

LEMMA SoundInit == AttendanceAssumption /\ Init => Sound
<1> SUFFICES ASSUME AttendanceAssumption, Init PROVE Sound
    OBVIOUS
<1>1. TypeOK
    BY DEF Init, TypeOK, AttendanceAssumption, Day
<1>2. Grounded /\ Attested(log)
    BY DEF Init, Grounded, Attested, Idle
<1> QED
    BY <1>1, <1>2 DEF Sound

LEMMA SoundStep ==
    ASSUME AttendanceAssumption, Sound, [AttendanceStep]_vars
    PROVE  Sound'
<1> USE DEF Sound
<1>1. CASE UNCHANGED vars
    BY <1>1 DEF vars, TypeOK, Grounded, Attested
<1>2. CASE Quiet
    <2>1. TypeOK'
        BY <1>2 DEF Quiet, TypeOK, ChallengesStay
    <2>2. \A r \in Request : request[r].op = "submit" => request[r].challenge \in Challenge
        BY DEF TypeOK, Idle, SubmitRequest, ReviewRequest
    <2>3. Grounded'
        BY <1>2, <2>2 DEF Quiet, Grounded, Attested, ChallengesStay
    <2>4. Attested(log)'
        BY <1>2 DEF Quiet, Attested
    <2> QED
        BY <2>1, <2>3, <2>4
<1>3. ASSUME NEW r \in Request, NEW c \in Challenge, NEW rows \in Seq(Event),
             Begins(r, c, rows)
      PROVE  Sound'
    <2> DEFINE new == [op |-> "submit", challenge |-> c, rows |-> rows]
    <2>1. new \in SubmitRequest
        BY DEF SubmitRequest
    <2>2. request' = [request EXCEPT ![r] = new]
        BY <1>3 DEF Begins
    <2>3. UNCHANGED <<today, enrolled, challenge, log>>
        BY <1>3 DEF Begins
    <2>4. TypeOK'
        BY <2>1, <2>2, <2>3 DEF TypeOK
    <2>5. challenge[c] \in ChallengeRow /\ Attested(rows)
        BY <1>3 DEF Begins
    <2>6. Grounded'
        BY <2>2, <2>3, <2>5 DEF Grounded, Attested, TypeOK
    <2>7. Attested(log)'
        BY <2>3 DEF Attested
    <2> QED
        BY <2>4, <2>6, <2>7
<1>4. ASSUME NEW r \in Request, NEW i \in 1..Len(log), NEW verdict \in {"VALID", "REJECTED"},
             BeginReview(r, i, verdict)
      PROVE  Sound'
    <2> DEFINE new == [op |-> "review", event |-> i, verdict |-> verdict]
    <2>1. new \in ReviewRequest
        BY DEF ReviewRequest, TypeOK
    <2>2. request' = [request EXCEPT ![r] = new]
        BY <1>4 DEF BeginReview
    <2>3. UNCHANGED <<today, enrolled, challenge, log>>
        BY <1>4 DEF BeginReview
    <2>4. TypeOK'
        BY <2>1, <2>2, <2>3 DEF TypeOK
    <2>6. Grounded'
        BY <2>2, <2>3 DEF Grounded, Attested, TypeOK
    <2>7. Attested(log)'
        BY <2>3 DEF Attested
    <2> QED
        BY <2>4, <2>6, <2>7
<1>5. ASSUME NEW r \in Request, CommitSubmit(r)
      PROVE  Sound'
    <2>1. challenge[request[r].challenge] \in ChallengeRow /\ Attested(request[r].rows)
        BY <1>5 DEF Grounded, CommitSubmit
    <2>2. /\ request[r] \in SubmitRequest
          /\ request' = [request EXCEPT ![r] = Idle]
          /\ UNCHANGED <<today, enrolled>>
          /\ ChallengesStay
          /\ UNCHANGED log \/ log' = log \o request[r].rows
        BY <1>5, <2>1, SubmissionCommits
    <2>3. request[r].rows \in Seq(Event)
        BY <2>2 DEF SubmitRequest
    <2>4. log' \in Seq(Event) /\ Len(log) <= Len(log')
        <3>1. log \in Seq(Event)
            BY DEF TypeOK
        <3>2. CASE UNCHANGED log
            BY <3>1, <3>2
        <3>3. CASE log' = log \o request[r].rows
            BY <2>3, <3>1, <3>3
        <3> QED
            BY <2>2, <3>2, <3>3
    <2>5. TypeOK'
        BY <2>2, <2>4 DEF TypeOK, ChallengesStay
    <2>6. Attested(log)'
        <3>1. CASE UNCHANGED log
            BY <3>1 DEF Attested
        <3>2. CASE log' = log \o request[r].rows
            BY <2>1, <2>3, <3>2 DEF Attested, TypeOK
        <3> QED
            BY <2>2, <3>1, <3>2
    <2>7. \A s \in Request : request[s].op = "submit" => request[s].challenge \in Challenge
        BY DEF TypeOK, Idle, SubmitRequest, ReviewRequest
    <2>8. \A s \in Request : request'[s] = Idle \/ request'[s] = request[s]
        BY <2>2 DEF TypeOK
    <2>9. Grounded'
        BY <2>2, <2>4, <2>7, <2>8 DEF Grounded, ChallengesStay, TypeOK, Attested, Idle
    <2> QED
        BY <2>5, <2>6, <2>9
<1>6. ASSUME NEW r \in Request, CommitReview(r)
      PROVE  Sound'
    <2> DEFINE i == request[r].event
    <2>1. i \in 1..Len(log) /\ request[r] \in ReviewRequest
        BY <1>6 DEF CommitReview, Grounded, TypeOK, Idle, SubmitRequest, ReviewRequest
    <2>2. log[i] \in Event /\ request[r].verdict \in Status
        BY <2>1 DEF TypeOK, ReviewRequest, Status
    <2> DEFINE new == [log[i] EXCEPT !.status = request[r].verdict]
    <2>3. new \in Event /\ new.auto = log[i].auto /\ new.challenge = log[i].challenge
        BY <2>2 DEF Event
    <2>4. log' = [log EXCEPT ![i] = new]
        BY <1>6 DEF CommitReview
    <2> HIDE DEF i, new
    <2>5. /\ log' \in Seq(Event) /\ Len(log') = Len(log)
          /\ \A k \in 1..Len(log) : log'[k] = log[k] \/ (k = i /\ log'[k] = new)
        BY <2>1, <2>3, <2>4 DEF TypeOK
    <2>6. UNCHANGED <<today, enrolled, challenge>> /\ request' = [request EXCEPT ![r] = Idle]
        BY <1>6 DEF CommitReview
    <2>7. TypeOK'
        BY <2>5, <2>6 DEF TypeOK
    <2>8. Attested(log)'
        BY <2>3, <2>5 DEF Attested
    <2>9. Grounded'
        BY <2>5, <2>6 DEF Grounded, TypeOK, Attested, Idle
    <2> QED
        BY <2>7, <2>8, <2>9
<1>7. ASSUME NEW r \in Request, Abort(r)
      PROVE  Sound'
    <2>1. UNCHANGED <<today, enrolled, challenge, log>> /\ request' = [request EXCEPT ![r] = Idle]
        BY <1>7 DEF Abort
    <2>2. TypeOK'
        BY <2>1 DEF TypeOK
    <2>3. Grounded' /\ Attested(log)'
        BY <2>1 DEF Grounded, TypeOK, Attested, Idle
    <2> QED
        BY <2>2, <2>3
<1> QED
    BY <1>1, <1>2, <1>3, <1>4, <1>5, <1>6, <1>7, StepKinds

\* Every row and request has its type, in every reachable state, because a
\* decision names an event that is there and a commit a challenge that was
\* issued.
THEOREM TypeCorrect == Spec => []TypeOK
<1>1. Spec => []Sound
    BY AttendanceAssumption, SoundInit, SoundStep, PTL DEF Spec
<1>2. Sound => TypeOK
    BY DEF Sound
<1> QED
    BY <1>1, <1>2, PTL

----------------------------------------------------------------------------
(* One challenge, one event.                                               *)

\* No two rows repeat a challenge: what the UNIQUE constraint enforces.
ChallengesDiffer ==
    \A i, j \in 1..Len(log) :
        log[i].challenge = log[j].challenge /\ log[i].challenge # NoChallenge => i = j

LEMMA ChallengesDifferStep ==
    ASSUME AttendanceAssumption, UniqueChallenge, Sound, ChallengesDiffer,
           [AttendanceStep]_vars
    PROVE  ChallengesDiffer'
<1> USE DEF Sound
<1>1. CASE UNCHANGED log
    BY <1>1 DEF ChallengesDiffer
<1>2. ASSUME NEW r \in Request, CommitSubmit(r)
      PROVE  ChallengesDiffer'
    <2>1. challenge[request[r].challenge] \in ChallengeRow
        BY <1>2 DEF Grounded, CommitSubmit
    <2>2. CASE ~ Refused(request[r].rows) /\ log' = log \o request[r].rows
        <3>1. \A i, j \in 1..Len(log') :
                 i # j /\ log'[i].challenge = log'[j].challenge =>
                     log'[i].challenge = NoChallenge
            BY <2>2 DEF Refused
        <3> QED
            BY <3>1 DEF ChallengesDiffer
    <2> QED
        BY <1>1, <1>2, <2>1, <2>2, SubmissionCommits
<1>3. ASSUME NEW r \in Request, CommitReview(r)
      PROVE  ChallengesDiffer'
    <2> DEFINE i == request[r].event
    <2>1. i \in 1..Len(log) /\ log[i] \in Event
        BY <1>3 DEF CommitReview, Grounded, TypeOK
    <2> DEFINE new == [log[i] EXCEPT !.status = request[r].verdict]
    <2>2. new.challenge = log[i].challenge
        BY <2>1 DEF Event
    <2>3. log' = [log EXCEPT ![i] = new]
        BY <1>3 DEF CommitReview
    <2> HIDE DEF i, new
    <2>4. Len(log') = Len(log) /\ \A k \in 1..Len(log) : log'[k].challenge = log[k].challenge
        BY <2>1, <2>2, <2>3 DEF TypeOK
    <2> QED
        BY <2>4 DEF ChallengesDiffer
<1>4. CASE AttendanceStep
    BY <1>1, <1>2, <1>3, <1>4, StepKinds DEF Quiet, Begins, BeginReview, Abort
<1> QED
    BY <1>1, <1>4 DEF vars

\* A challenge proves one event, however many submissions carry it at the same
\* time, on a schema where attendance_events.challenge_id is UNIQUE: a second
\* event with it makes the whole commit fail.
THEOREM OneEventPerChallenge == UniqueChallenge /\ Spec => []ChallengeSingleUse
<1> SUFFICES ASSUME UniqueChallenge PROVE Spec => []ChallengeSingleUse
    OBVIOUS
<1>1. Init => ChallengesDiffer
    BY DEF Init, ChallengesDiffer
<1>2. Spec => [](Sound /\ ChallengesDiffer)
    BY <1>1, AttendanceAssumption, SoundInit, SoundStep, ChallengesDifferStep, PTL DEF Spec
<1>3. Sound /\ ChallengesDiffer => ChallengeSingleUse
    BY AttendanceAssumption
       DEF Sound, Attested, ChallengesDiffer, ChallengeSingleUse, AttendanceAssumption, TypeOK, Event
<1> QED
    BY <1>2, <1>3, PTL

----------------------------------------------------------------------------
(* One open site.                                                          *)

\* A decision in flight is about an event that still waits for it.
Undecided ==
    \A r \in Request : request[r].op = "review" => log[request[r].event].status = "REVIEW"

LEMMA UndecidedStep ==
    ASSUME AttendanceAssumption, Sound, Undecided, OneChallengeAtATime, [AttendanceStep]_vars
    PROVE  Undecided'
<1> USE DEF Sound
<1>0. \A r \in Request : request[r].op = "review" => request[r].event \in 1..Len(log)
    BY DEF Grounded
<1>1. CASE UNCHANGED <<log, request>>
    BY <1>1 DEF Undecided
<1>2. ASSUME NEW r \in Request, NEW c \in Challenge, NEW rows \in Seq(Event),
             Begins(r, c, rows)
      PROVE  Undecided'
    BY <1>2 DEF Begins, Undecided, TypeOK
<1>3. ASSUME NEW r \in Request, NEW i \in 1..Len(log), NEW verdict \in {"VALID", "REJECTED"},
             BeginReview(r, i, verdict)
      PROVE  Undecided'
    BY <1>3 DEF BeginReview, Reviewable, Undecided, TypeOK
<1>4. ASSUME NEW r \in Request, CommitSubmit(r)
      PROVE  Undecided'
    <2>1. challenge[request[r].challenge] \in ChallengeRow
        BY <1>4 DEF Grounded, CommitSubmit
    <2>2. /\ request[r].rows \in Seq(Event)
          /\ request' = [request EXCEPT ![r] = Idle]
          /\ UNCHANGED log \/ log' = log \o request[r].rows
        BY <1>4, <2>1, SubmissionCommits DEF SubmitRequest
    <2>3. \A k \in 1..Len(log) : log'[k] = log[k]
        BY <2>2 DEF TypeOK
    <2>4. \A s \in Request : request'[s] = Idle \/ request'[s] = request[s]
        BY <2>2 DEF TypeOK
    <2> QED
        BY <1>0, <2>3, <2>4 DEF Undecided, Idle
<1>5. ASSUME NEW r \in Request, CommitReview(r)
      PROVE  Undecided'
    <2>1. request[r].op = "review" /\ request' = [request EXCEPT ![r] = Idle]
        BY <1>5 DEF CommitReview
    <2>2. \A k \in 1..Len(log) : k # request[r].event => log'[k] = log[k]
        BY <1>5 DEF CommitReview, TypeOK
    <2>3. \A s \in Request : s # r /\ request[s].op = "review" =>
              request[s].event # request[r].event
        BY <2>1 DEF OneChallengeAtATime, Idle
    <2>4. \A s \in Request : (s # r /\ request'[s] = request[s]) \/ request'[s] = Idle
        BY <2>1 DEF TypeOK
    <2> QED
        BY <1>0, <2>2, <2>3, <2>4 DEF Undecided, Idle
<1>6. ASSUME NEW r \in Request, Abort(r)
      PROVE  Undecided'
    BY <1>6 DEF Abort, Undecided, TypeOK, Idle
<1>7. CASE AttendanceStep
    BY <1>1, <1>2, <1>3, <1>4, <1>5, <1>6, <1>7, StepKinds DEF Quiet
<1> QED
    BY <1>1, <1>7 DEF vars

\* What a submission in flight will add: a check-in at the site of its
\* challenge at most, after which no other site of that day is open.
Targeted ==
    \A r \in Request : request[r].op = "submit" =>
        /\ Len(request[r].rows) > 0
        /\ Aims(request[r].rows, request[r].challenge)
        /\ Clears(log, request[r].rows)

\* One site is open on a day, at most.
Single == \A d \in Day : \A p, q \in Project : Open(log, p, d) > 0 /\ Open(log, q, d) > 0 => p = q

LEMMA AimedLowers ==
    ASSUME NEW L \in Seq(Event), NEW rows \in Seq(Event), NEW c, Aims(rows, c),
           NEW p, NEW d,
           p # challenge[c].project \/ d # rows[Len(rows)].day
           \/ rows[Len(rows)].type # "CHECK_IN"
    PROVE  Open(L \o rows, p, d) <= Open(L, p, d)
<1>1. \A i \in 1..Len(rows) : ~ Enters(rows[i], p, d)
    BY DEF Aims, Enters
<1> QED
    BY <1>1, AppendLowers

\* Clearing survives whatever opens nothing elsewhere.
LEMMA StillClears ==
    ASSUME NEW L \in Seq(Event), NEW K \in Seq(Event), NEW rows \in Seq(Event),
           Clears(L, rows),
           LET e == rows[Len(rows)] IN
               e.type = "CHECK_IN" =>
                   \A q \in Project : q # e.project => Open(K, q, e.day) <= Open(L, q, e.day)
    PROVE  Clears(K, rows)
<1> DEFINE e == rows[Len(rows)]
<1> SUFFICES ASSUME e.type = "CHECK_IN", NEW q \in Project, q # e.project
             PROVE  Open(K \o rows, q, e.day) = 0
    BY DEF Clears
<1>1. Open(K, q, e.day) <= Open(L, q, e.day)
    OBVIOUS
<1>2. Open(L \o rows, q, e.day) = 0
    BY DEF Clears
<1> HIDE DEF e
<1>3. Open(K \o rows, q, e.day) <= Open(L \o rows, q, e.day)
    BY <1>1, AppendMonotone
<1>4. K \o rows \in Seq(Event)
    OBVIOUS
<1>5. Open(K \o rows, q, e.day) \in Nat
    BY <1>4, OpenType
<1> QED
    BY <1>2, <1>3, <1>5

\* One site stays open when rows that clear are added.
LEMMA ClearingSingle ==
    ASSUME log \in Seq(Event), NEW rows \in Seq(Event), NEW c, Len(rows) > 0,
           Aims(rows, c), Clears(log, rows), Single, log' = log \o rows
    PROVE  Single'
<1> SUFFICES ASSUME NEW d \in Day', NEW p \in Project, NEW q \in Project,
                    Open(log', p, d) > 0, Open(log', q, d) > 0
             PROVE  p = q
    BY DEF Single
<1> DEFINE e == rows[Len(rows)]
<1>1. d \in Day
    BY DEF Day
<1>2. /\ Open(log, p, d) \in Nat /\ Open(log, q, d) \in Nat
      /\ Open(log', p, d) \in Nat /\ Open(log', q, d) \in Nat
    <2>1. log' \in Seq(Event)
        OBVIOUS
    <2> QED
        BY <2>1, OpenType
<1>3. CASE e.type = "CHECK_IN" /\ e.day = d
    BY <1>3 DEF Clears
<1>4. CASE e.type # "CHECK_IN" \/ e.day # d
    <2>1. Open(log', p, d) <= Open(log, p, d)
        BY <1>4, AimedLowers
    <2>2. Open(log', q, d) <= Open(log, q, d)
        BY <1>4, AimedLowers
    <2>3. Open(log, p, d) > 0 /\ Open(log, q, d) > 0
        BY <1>2, <2>1, <2>2
    <2> QED
        BY <1>1, <2>3 DEF Single
<1> QED
    BY <1>3, <1>4

LEMMA SingleStep ==
    ASSUME AttendanceAssumption, Multi, Sound, Undecided, Targeted, Single,
           OneChallengeAtATime, [AttendanceStep]_vars
    PROVE  Targeted' /\ Single'
<1> USE DEF Sound
<1>0. /\ log \in Seq(Event)
      /\ \A r \in Request : request[r].op = "submit" =>
             /\ request[r].rows \in Seq(Event) /\ request[r].challenge \in Challenge
             /\ challenge[request[r].challenge] \in ChallengeRow
    BY DEF TypeOK, Grounded, Idle, SubmitRequest, ReviewRequest
<1>1. CASE UNCHANGED vars
    BY <1>1 DEF vars, Targeted, Single, Aims, Clears, Day
<1>2. CASE Quiet
    <2>1. \A c \in Challenge : challenge[c] \in ChallengeRow =>
              challenge'[c].project = challenge[c].project
        BY <1>2 DEF Quiet, ChallengesStay
    <2>2. UNCHANGED <<log, request>>
        BY <1>2 DEF Quiet
    <2>3. Targeted'
        BY <1>0, <2>1, <2>2 DEF Targeted, Aims, Clears
    <2> QED
        BY <2>2, <2>3 DEF Single, Day
<1>3. ASSUME NEW r \in Request, NEW c \in Challenge, NEW rows \in Seq(Event),
             Begins(r, c, rows)
      PROVE  Targeted' /\ Single'
    <2>1. /\ request' = [request EXCEPT ![r] =
                            [op |-> "submit", challenge |-> c, rows |-> rows]]
          /\ UNCHANGED <<challenge, log>>
          /\ Len(rows) > 0 /\ Aims(rows, c) /\ Clears(log, rows)
        BY <1>3 DEF Begins
    <2>2. Targeted'
        BY <2>1 DEF Targeted, Aims, Clears, TypeOK
    <2> QED
        BY <2>1, <2>2 DEF Single, Day
<1>4. ASSUME NEW r \in Request, NEW i \in 1..Len(log), NEW verdict \in {"VALID", "REJECTED"},
             BeginReview(r, i, verdict)
      PROVE  Targeted' /\ Single'
    <2>1. /\ request' = [request EXCEPT ![r] =
                            [op |-> "review", event |-> i, verdict |-> verdict]]
          /\ UNCHANGED <<challenge, log>>
        BY <1>4 DEF BeginReview
    <2>2. Targeted'
        BY <2>1 DEF Targeted, Aims, Clears, TypeOK
    <2> QED
        BY <2>1, <2>2 DEF Single, Day
<1>5. ASSUME NEW r \in Request, CommitSubmit(r)
      PROVE  Targeted' /\ Single'
    <2> DEFINE rows == request[r].rows
               c == request[r].challenge
    <2>1. /\ request[r].op = "submit" /\ rows \in Seq(Event)
          /\ c \in Challenge /\ challenge[c] \in ChallengeRow
        BY <1>0, <1>5 DEF CommitSubmit
    <2>2. /\ request' = [request EXCEPT ![r] = Idle]
          /\ ChallengesStay
          /\ UNCHANGED log \/ log' = log \o rows
        BY <1>5, <2>1, SubmissionCommits
    <2>3. Len(rows) > 0 /\ Aims(rows, c) /\ Clears(log, rows)
        BY <2>1 DEF Targeted
    <2>4. \A s \in Request : request'[s] = Idle \/ (s # r /\ request'[s] = request[s])
        BY <2>2 DEF TypeOK
    <2>5. \A s \in Request : s # r /\ request[s].op = "submit" => request[s].challenge = c
        BY <2>1 DEF OneChallengeAtATime, Idle
    <2> HIDE DEF rows, c
    <2>6. ASSUME NEW s \in Request, s # r, request[s].op = "submit"
          PROVE  Clears(log', request[s].rows)
        <3> DEFINE e == request[s].rows[Len(request[s].rows)]
        <3>1. /\ request[s].rows \in Seq(Event) /\ Len(request[s].rows) > 0
              /\ Aims(request[s].rows, c) /\ Clears(log, request[s].rows)
            BY <1>0, <2>5, <2>6 DEF Targeted
        <3>2. Len(request[s].rows) \in 1..Len(request[s].rows)
            BY <3>1
        <3>3. e.type = "CHECK_IN" => e.project = challenge[c].project
            BY <3>1, <3>2 DEF Aims
        <3>4. CASE UNCHANGED log
            BY <3>1, <3>4
        <3>5. CASE log' = log \o rows
            <4>1. log' \in Seq(Event)
                BY <1>0, <2>1, <3>5
            <4>2. e.type = "CHECK_IN" =>
                      \A q \in Project : q # e.project =>
                          Open(log', q, e.day) <= Open(log, q, e.day)
                BY <1>0, <2>1, <2>3, <3>3, <3>5, AimedLowers
            <4> QED
                BY <1>0, <3>1, <4>1, <4>2, StillClears
        <3> QED
            BY <2>2, <3>4, <3>5
    <2>7. Targeted'
        <3> SUFFICES ASSUME NEW s \in Request, request'[s].op = "submit"
                     PROVE  (/\ Len(request[s].rows) > 0
                             /\ Aims(request[s].rows, request[s].challenge)
                             /\ Clears(log, request[s].rows))'
            BY DEF Targeted
        <3>1. s # r /\ request'[s] = request[s] /\ request[s].op = "submit"
            BY <2>4 DEF Idle
        <3>2. Clears(log', request[s].rows)
            BY <2>6, <3>1
        <3>3. Len(request[s].rows) > 0 /\ Aims(request[s].rows, request[s].challenge)
            BY <3>1 DEF Targeted
        <3>4. challenge'[request[s].challenge].project = challenge[request[s].challenge].project
            BY <1>0, <2>2, <3>1 DEF ChallengesStay
        <3>5. Aims(request[s].rows, request[s].challenge)'
            BY <3>1, <3>3, <3>4 DEF Aims
        <3>6. Clears(log, request[s].rows)'
            BY <3>1, <3>2 DEF Clears
        <3> QED
            BY <3>1, <3>3, <3>5, <3>6
    <2>8. Single'
        <3>1. CASE UNCHANGED log
            BY <3>1 DEF Single, Day
        <3>2. CASE log' = log \o rows
            BY <1>0, <2>1, <2>3, <3>2, ClearingSingle
        <3> QED
            BY <2>2, <3>1, <3>2
    <2> QED
        BY <2>7, <2>8
<1>6. ASSUME NEW r \in Request, CommitReview(r)
      PROVE  Targeted' /\ Single'
    <2> DEFINE i == request[r].event
               verdict == request[r].verdict
    <2>1. /\ i \in 1..Len(log) /\ log[i].status = "REVIEW"
          /\ verdict \in {"VALID", "REJECTED"}
          /\ request[r].op = "review"
        BY <1>6 DEF CommitReview, Grounded, Undecided, TypeOK, Idle, SubmitRequest, ReviewRequest
    <2>2. log' = [log EXCEPT ![i].status = verdict] /\ request' = [request EXCEPT ![r] = Idle]
        BY <1>6 DEF CommitReview
    <2>3. \A s \in Request : s # r => request[s] = Idle
        BY <2>1 DEF OneChallengeAtATime, Idle
    <2> HIDE DEF i, verdict
    <2>4. \A s \in Request : request'[s] = Idle
        BY <2>2, <2>3 DEF TypeOK
    <2>5. Targeted'
        BY <2>4 DEF Targeted, Idle
    <2>6. log' \in Seq(Event)
        BY SoundStep
    <2>7. \A d \in Day : \A p \in Project : Open(log', p, d) <= Open(log, p, d)
        BY <1>0, <2>1, <2>2, <2>6, DecisionLowers
    <2>8. \A d \in Day : \A p \in Project : Open(log, p, d) \in Nat /\ Open(log', p, d) \in Nat
        BY <1>0, <2>6, OpenType
    <2>9. Single'
        BY <2>7, <2>8 DEF Single, Day
    <2> QED
        BY <2>5, <2>9
<1>7. ASSUME NEW r \in Request, Abort(r)
      PROVE  Targeted' /\ Single'
    <2>1. /\ request' = [request EXCEPT ![r] = Idle]
          /\ UNCHANGED <<challenge, log>>
        BY <1>7 DEF Abort
    <2>2. Targeted'
        BY <2>1 DEF Targeted, Aims, Clears, TypeOK, Idle
    <2> QED
        BY <2>1, <2>2 DEF Single, Day
<1> QED
    BY <1>1, <1>2, <1>3, <1>4, <1>5, <1>6, <1>7, StepKinds

\* A tenant that lets its workers move: whichever page a worker uses, whatever
\* is rejected, reviewed, repeated or submitted after midnight, one site is open
\* on a day at most - as long as the requests that overlap are submissions of
\* one challenge.
THEOREM AtOneSite == Multi => (Spec /\ []OneChallengeAtATime => []OneOpenSite)
<1> SUFFICES ASSUME Multi PROVE Spec /\ []OneChallengeAtATime => []OneOpenSite
    OBVIOUS
<1>1. Init => Undecided /\ Targeted /\ Single
    <2> SUFFICES ASSUME Init PROVE Undecided /\ Targeted /\ Single
        OBVIOUS
    <2>1. Undecided /\ Targeted
        BY DEF Init, Undecided, Targeted, Idle
    <2>2. \A p, d : Open(log, p, d) = 0
        <3> SUFFICES ASSUME NEW p, NEW d PROVE Open(log, p, d) = 0
            OBVIOUS
        <3>1. log \in Seq(Event) /\ Len(log) = 0
            BY DEF Init
        <3>2. CountsTo([x \in 0..0 |-> 0], Len(log), log, p, d)
            BY <3>1 DEF CountsTo
        <3> QED
            BY <3>1, <3>2, OpenIs
    <2> QED
        BY <2>1, <2>2 DEF Single
<1>2. ASSUME Sound, Undecided, Targeted, Single, OneChallengeAtATime, [AttendanceStep]_vars
      PROVE  Sound' /\ Undecided' /\ Targeted' /\ Single'
    <2>2. Sound' /\ Undecided'
        BY <1>2, AttendanceAssumption, SoundStep, UndecidedStep
    <2> QED
        BY <1>2, <2>2, AttendanceAssumption, SingleStep
<1>3. Spec /\ []OneChallengeAtATime => [](Sound /\ Undecided /\ Targeted /\ Single)
    BY <1>1, <1>2, AttendanceAssumption, SoundInit, PTL DEF Spec
<1>4. Sound /\ Single => OneOpenSite
    <2> SUFFICES ASSUME Sound, Single, NEW d \in Day,
                        NEW p \in OpenProjects(d), NEW q \in OpenProjects(d)
                 PROVE  p = q
        BY DEF OneOpenSite
    <2>1. log \in Seq(Event)
        BY DEF Sound, TypeOK
    <2> QED
        BY <2>1, OpenCountIsOpen DEF OpenProjects, Single
<1> QED
    BY <1>3, <1>4, PTL

----------------------------------------------------------------------------
(* Periods and their snapshots.                                            *)

\* The periods and the requests to close them have their types.
BooksType ==
    /\ period = [p \in Period |-> period[p]]
    /\ \A p \in Period : period[p] = NotClosed \/ period[p] \in Snapshot(p)
    /\ closing = [k \in Closer |-> closing[k]]
    /\ \A k \in Closer : \/ closing[k] = Idle
                        \/ \E p \in Period : \E s \in Snapshot(p) :
                              closing[k] = [op |-> "close", period |-> p, snapshot |-> s]

LEMMA CloseRequest ==
    ASSUME BooksType, NEW k \in Closer, closing[k] # Idle
    PROVE  closing[k].period \in Period /\ closing[k].snapshot \in Snapshot(closing[k].period)
<1>1. PICK p \in Period : \E s \in Snapshot(p) :
          closing[k] = [op |-> "close", period |-> p, snapshot |-> s]
    BY DEF BooksType
<1> QED
    BY <1>1

LEMMA DeriveType == ASSUME NEW p PROVE Derive(p) \in Snapshot(p)
BY DEF Derive, Snapshot, StateOf, DayState

LEMMA BooksStep ==
    ASSUME BooksType, [TimesheetNext]_allVars
    PROVE  BooksType'
<1>1. CASE UNCHANGED <<period, closing>>
    BY <1>1 DEF BooksType, Snapshot, RowsOf, Period
<1>2. ASSUME NEW k \in Closer, NEW p \in Period, BeginClose(k, p)
      PROVE  BooksType'
    <2> DEFINE new == [op |-> "close", period |-> p, snapshot |-> Derive(p)]
    <2>1. period' = period /\ closing' = [closing EXCEPT ![k] = new]
        BY <1>2 DEF BeginClose
    <2>2. Derive(p) \in Snapshot(p)
        BY DeriveType
    <2>3. new = Idle \/ \E q \in Period : \E s \in Snapshot(q) :
                          new = [op |-> "close", period |-> q, snapshot |-> s]
        BY <2>2
    <2> HIDE DEF new
    <2> QED
        BY <2>1, <2>3 DEF BooksType, Snapshot
<1>3. ASSUME NEW k \in Closer, CommitClose(k)
      PROVE  BooksType'
    <2> DEFINE q == closing[k].period
               s == closing[k].snapshot
    <2>1. q \in Period /\ s \in Snapshot(q)
        BY <1>3, CloseRequest DEF CommitClose
    <2>2. period' = period \/ period' = [period EXCEPT ![q] = s]
        BY <1>3 DEF CommitClose
    <2>3. closing' = [closing EXCEPT ![k] = Idle]
        BY <1>3 DEF CommitClose
    <2> HIDE DEF q, s
    <2>4. /\ period' = [p \in Period |-> period'[p]]
          /\ \A p \in Period : period'[p] = NotClosed \/ period'[p] \in Snapshot(p)
        BY <2>1, <2>2 DEF BooksType
    <2>5. /\ closing' = [l \in Closer |-> closing'[l]]
          /\ \A l \in Closer : closing'[l] = Idle \/ closing'[l] = closing[l]
        BY <2>3 DEF BooksType
    <2> QED
        BY <2>4, <2>5 DEF BooksType, Snapshot
<1>4. ASSUME NEW k \in Closer, AbortClose(k)
      PROVE  BooksType'
    BY <1>4 DEF AbortClose, BooksType, Snapshot
<1> QED
    BY <1>1, <1>2, <1>3, <1>4 DEF TimesheetNext, allVars

\* Closing does not touch attendance.
LEMMA ClosingApart == [TimesheetNext]_allVars => [AttendanceStep]_vars
BY DEF TimesheetNext, BeginClose, CommitClose, AbortClose, allVars

LEMMA TimesheetInitSound ==
    AttendanceAssumption /\ TimesheetInit => Sound /\ BooksType
<1> SUFFICES ASSUME AttendanceAssumption, TimesheetInit PROVE Sound /\ BooksType
    OBVIOUS
<1>1. Sound
    BY SoundInit DEF TimesheetInit
<1>2. BooksType
    BY DEF TimesheetInit, BooksType
<1> QED
    BY <1>1, <1>2

\* Attendance keeps its types while periods are closed over it, and a period's
\* snapshot has a state for exactly the days the period has a row for.
THEOREM TimesheetTypeCorrect == TimesheetSpec => []TimesheetTypeOK
<1>1. TimesheetSpec => [](Sound /\ BooksType)
    BY AttendanceAssumption, TimesheetInitSound, ClosingApart, SoundStep, BooksStep, PTL
       DEF TimesheetSpec
<1>2. ASSUME Sound, BooksType PROVE TimesheetTypeOK
    BY <1>2, CloseRequest DEF Sound, BooksType, TimesheetTypeOK
<1> QED
    BY <1>1, <1>2, PTL

----------------------------------------------------------------------------
(* What is closed stays closed.                                            *)

\* The action of SnapshotStands.
LEMMA FrozenStands ==
    ASSUME BooksType, [TimesheetNext]_allVars, NEW p \in Period, period[p] # NotClosed
    PROVE  period'[p] = period[p]
<1>1. CASE UNCHANGED period
    BY <1>1
<1>2. ASSUME NEW k \in Closer, CommitClose(k)
      PROVE  period'[p] = period[p]
    <2> DEFINE q == closing[k].period
    <2>1. CASE p = q
        <3>1. UNCHANGED period
            BY <1>2, <2>1 DEF CommitClose, Taken
        <3> QED
            BY <3>1
    <2>2. CASE p # q
        <3>1. period' = period \/ period' = [period EXCEPT ![q] = closing[k].snapshot]
            BY <1>2 DEF CommitClose
        <3> QED
            BY <2>2, <3>1 DEF BooksType
    <2> QED
        BY <2>1, <2>2
<1> QED
    BY <1>1, <1>2 DEF TimesheetNext, BeginClose, AbortClose, allVars

\* What was frozen stands, whatever attendance commits during a close or after
\* it, through the app or the web page, and however many close one period at
\* once: the row that would replace a snapshot is refused.
THEOREM FrozenForEver == TimesheetSpec => SnapshotStands
<1>1. TimesheetSpec => []BooksType
    <2>1. TimesheetInit => BooksType
        BY AttendanceAssumption, TimesheetInitSound
    <2> QED
        BY <2>1, BooksStep, PTL DEF TimesheetSpec
<1> DEFINE Stands == \A p \in Period : period[p] # NotClosed => period'[p] = period[p]
<1>2. BooksType /\ [TimesheetNext]_allVars => Stands
    BY FrozenStands
<1> HIDE DEF Stands
<1>3. TimesheetSpec => [][Stands]_allVars
    BY <1>1, <1>2, PTL DEF TimesheetSpec
<1> QED
    BY <1>3 DEF Stands, SnapshotStands

=============================================================================
