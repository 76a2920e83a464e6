------------------------- MODULE MasterDataImportProofs -------------------------
(***************************************************************************)
(* Proofs about the import of master data, for every number of sheets,     *)
(* batches and retries: its types; that every row is attested by a         *)
(* confirmed batch, however confirmations overlap; and that the tables are *)
(* what the confirmed batches make of them, one after the other, where     *)
(* confirmations of two batches do not overlap.                            *)
(***************************************************************************)
EXTENDS MasterDataImport, OrderLemmas, TLAPS

----------------------------------------------------------------------------
(* Types.                                                                  *)

\* What the session of a confirmation has read: the rows of some keys.
Reads == UNION {[D -> Value \cup {NoRow}] : D \in SUBSET Key}
Confirmation == [op : {"confirm"}, batch : Batch, done : Nat, read : Reads]

\* A confirmation under way: its batch has been previewed without errors, and
\* it has read the rows of the lines it has done.
UnderWay(r) ==
    LET b == batch[request[r].batch]
        q == request[r]
    IN  /\ b.status \in {"PREVIEW", "CONFIRMED"}
        /\ q.done \in 0..Len(b.sheet)
        /\ \A i \in 1..q.done : b.sheet[i].key \in DOMAIN q.read
        /\ \A k \in DOMAIN q.read : \E i \in 1..q.done : b.sheet[i].key = k

\* The batches in order are the confirmed ones.
OrderIsConfirmed ==
    \A b \in Batch :
        batch[b].status = "CONFIRMED" <=> \E i \in 1..Len(order) : order[i] = b

Typed ==
    /\ batch \in [Batch -> {Unmade} \cup BatchRow]
    /\ table \in [Key -> Value \cup {NoRow}]
    /\ order \in Seq(Batch) /\ IsInjective(order)
    /\ request \in [Request -> {Idle} \cup Confirmation]
    /\ \A r \in Request : request[r] # Idle => UnderWay(r)
    /\ OrderIsConfirmed

LEMMA BatchCases ==
    ASSUME Typed, NEW b \in Batch, batch[b].status # "NONE"
    PROVE  batch[b] \in BatchRow /\ batch[b].sheet \in Seq(Line)
<1>1. batch[b] \in BatchRow
    BY DEF Typed, Unmade
<1>2. batch[b].sheet \in Sheet
    BY <1>1 DEF BatchRow
<1> QED
    BY <1>1, <1>2, ImportAssumption

LEMMA LineType ==
    ASSUME NEW sheet \in Seq(Line), NEW i \in 1..Len(sheet)
    PROVE  sheet[i].key \in Key /\ sheet[i].value \in Value
<1>1. sheet[i] \in Line
    OBVIOUS
<1> QED
    BY <1>1 DEF Line

LEMMA LastLineIn ==
    ASSUME NEW sheet \in Seq(Line), NEW k, About(sheet, k) # {}
    PROVE  LastLine(sheet, k) \in About(sheet, k) /\ LastValue(sheet, k) \in Value
<1>1. About(sheet, k) \in SUBSET (0..Len(sheet)) /\ Len(sheet) \in Nat
    BY DEF About
<1>2. LastLine(sheet, k) \in About(sheet, k)
    BY <1>1, GreatestElement DEF LastLine
<1>3. LastLine(sheet, k) \in 1..Len(sheet)
    BY <1>2 DEF About
<1> QED
    BY <1>2, <1>3, LineType DEF LastValue

LEMMA RequestCases ==
    ASSUME Typed, NEW r \in Request, request[r] # Idle
    PROVE  /\ request[r] \in Confirmation /\ request[r].batch \in Batch /\ request[r].done \in Nat
           /\ request[r].read \in Reads /\ UnderWay(r)
           /\ batch[request[r].batch] \in BatchRow /\ LinesOf(r) \in Seq(Line)
<1>1. request[r] \in Confirmation /\ UnderWay(r)
    BY DEF Typed
<1>2. request[r].batch \in Batch /\ request[r].done \in Nat /\ request[r].read \in Reads
    BY <1>1 DEF Confirmation
<1>3. batch[request[r].batch].status # "NONE"
    BY <1>1 DEF UnderWay
<1> QED
    BY <1>1, <1>2, <1>3, BatchCases DEF LinesOf

LEMMA TypedImplies == Typed => TypeOK
<1> SUFFICES ASSUME Typed PROVE TypeOK
    OBVIOUS
<1>1. \A r \in Request : request[r] = Idle \/
          /\ request[r].done \in 0..Len(LinesOf(r))
          /\ \A i \in 1..request[r].done : LinesOf(r)[i].key \in DOMAIN request[r].read
    BY DEF Typed, UnderWay, LinesOf
<1> QED
    BY <1>1 DEF Typed, TypeOK

LEMMA InitTyped == Init => Typed
<1> SUFFICES ASSUME Init PROVE Typed
    OBVIOUS
<1>1. order \in Seq(Batch) /\ IsInjective(order) /\ Len(order) = 0
    BY DEF Init, IsInjective
<1>2. OrderIsConfirmed
    BY <1>1 DEF Init, OrderIsConfirmed, Unmade
<1> QED
    BY <1>1, <1>2 DEF Init, Typed

\* A request that is untouched stays under way while its batch keeps its sheet.
LEMMA StaysUnderWay ==
    ASSUME NEW r \in Request, UnderWay(r), request'[r] = request[r],
           batch'[request[r].batch].sheet = batch[request[r].batch].sheet,
           batch'[request[r].batch].status \in {"PREVIEW", "CONFIRMED"}
    PROVE  UnderWay(r)'
<1>1. /\ request[r]' = request[r]
      /\ batch[request[r].batch].sheet' = batch[request[r].batch].sheet
      /\ batch[request[r].batch].status' \in {"PREVIEW", "CONFIRMED"}
    OBVIOUS
<1> QED
    BY <1>1 DEF UnderWay

LEMMA BeginTyped ==
    ASSUME Typed, NEW r \in Request, NEW b \in Batch, BeginConfirm(r, b)
    PROVE  Typed'
<1> DEFINE q == [op |-> "confirm", batch |-> b, done |-> 0, read |-> [k \in {} |-> NoRow]]
<1>1. request' = [request EXCEPT ![r] = q] /\ UNCHANGED <<batch, table, order>>
    BY DEF BeginConfirm
<1>2. [k \in {} |-> NoRow] \in Reads
    BY DEF Reads
<1>3. q \in Confirmation
    BY <1>2 DEF Confirmation
<1>4. q.done = 0 /\ q.batch = b /\ DOMAIN q.read = {}
    OBVIOUS
<1> HIDE DEF q
<1>5. request' \in [Request -> {Idle} \cup Confirmation]
    BY <1>1, <1>3 DEF Typed
<1>6. \A s \in Request : request'[s] = IF s = r THEN q ELSE request[s]
    BY <1>1 DEF Typed
<1>7. batch[b].status = "PREVIEW"
    BY DEF BeginConfirm, Confirmable
<1>8. Len(batch[b].sheet) \in Nat
    BY <1>7, BatchCases
<1>9. UnderWay(r)'
    BY <1>1, <1>4, <1>6, <1>7, <1>8 DEF UnderWay
<1>10. \A s \in Request : request'[s] # Idle => UnderWay(s)'
    <2> SUFFICES ASSUME NEW s \in Request, request'[s] # Idle PROVE UnderWay(s)'
        OBVIOUS
    <2>1. CASE s = r
        BY <1>9, <2>1
    <2>2. CASE s # r
        BY <1>1, <1>6, <2>2 DEF Typed, UnderWay
    <2> QED
        BY <2>1, <2>2
<1> QED
    BY <1>1, <1>5, <1>10 DEF Typed, OrderIsConfirmed

LEMMA ReadTyped ==
    ASSUME Typed, NEW r \in Request, ReadRow(r)
    PROVE  Typed'
<1> DEFINE i == request[r].done + 1
           k == LinesOf(r)[i].key
           read == request[r].read
           more == [x \in DOMAIN read \cup {k} |-> IF x \in DOMAIN read THEN read[x] ELSE table[x]]
           q == [request[r] EXCEPT !.done = i, !.read = more]
<1>1. request' = [request EXCEPT ![r] = q] /\ UNCHANGED <<batch, table, order>>
    BY DEF ReadRow
<1>2. request[r] # Idle /\ request[r].done < Len(LinesOf(r))
    BY DEF ReadRow
<1>3. /\ request[r] \in Confirmation /\ request[r].done \in Nat /\ read \in Reads
      /\ LinesOf(r) \in Seq(Line) /\ UnderWay(r)
    BY <1>2, RequestCases
<1>4. i \in 1..Len(LinesOf(r)) /\ i \in Nat
    BY <1>2, <1>3
<1>5. k \in Key
    BY <1>3, <1>4, LineType
<1>6. DOMAIN read \subseteq Key /\ \A x \in DOMAIN read : read[x] \in Value \cup {NoRow}
    BY <1>3 DEF Reads
<1>7. more \in Reads
    <2>1. more \in [DOMAIN read \cup {k} -> Value \cup {NoRow}]
        BY <1>5, <1>6 DEF Typed
    <2>2. DOMAIN read \cup {k} \in SUBSET Key
        BY <1>5, <1>6
    <2> QED
        BY <2>1, <2>2 DEF Reads
<1>8. q \in Confirmation /\ q.done = i /\ q.read = more /\ q.batch = request[r].batch
    BY <1>3, <1>4, <1>7 DEF Confirmation
<1>9. DOMAIN more = DOMAIN read \cup {k}
    OBVIOUS
<1>10. batch[q.batch].sheet = LinesOf(r)
    BY <1>8 DEF LinesOf
<1>11. k = LinesOf(r)[i].key
    OBVIOUS
<1>12. i = request[r].done + 1
    OBVIOUS
<1> HIDE DEF q, more, k, i
<1>13. request' \in [Request -> {Idle} \cup Confirmation]
    BY <1>1, <1>8 DEF Typed
<1>14. \A s \in Request : request'[s] = IF s = r THEN q ELSE request[s]
    BY <1>1 DEF Typed
<1>15. UnderWay(r)'
    <2>1. \A j \in 1..i : LinesOf(r)[j].key \in DOMAIN more
        <3> TAKE j \in 1..i
        <3>1. CASE j = i
            BY <1>9, <1>11, <3>1
        <3>2. CASE j \in 1..request[r].done
            BY <1>3, <1>9, <3>2 DEF UnderWay, LinesOf
        <3> QED
            BY <1>3, <1>12, <3>1, <3>2
    <2>2. \A x \in DOMAIN more : \E j \in 1..i : LinesOf(r)[j].key = x
        <3> TAKE x \in DOMAIN more
        <3>1. CASE x = k
            BY <1>4, <1>11, <3>1
        <3>2. CASE x \in DOMAIN read
            <4>1. PICK j \in 1..request[r].done : LinesOf(r)[j].key = x
                BY <1>3, <3>2 DEF UnderWay, LinesOf
            <4>2. j \in 1..i
                BY <1>3, <1>12
            <4> QED
                BY <4>1, <4>2
        <3> QED
            BY <1>9, <3>1, <3>2
    <2>3. i \in 0..Len(LinesOf(r)) /\ batch[q.batch].status \in {"PREVIEW", "CONFIRMED"}
        BY <1>3, <1>4, <1>8 DEF UnderWay
    <2>4. request'[r] = q /\ batch' = batch
        BY <1>1, <1>14
    <2> HIDE DEF LinesOf
    <2>5. q.done = i /\ q.read = more
        BY <1>8
    <2> QED
        BY <1>10, <2>1, <2>2, <2>3, <2>4, <2>5 DEF UnderWay
<1>16. \A s \in Request : request'[s] # Idle => UnderWay(s)'
    <2> SUFFICES ASSUME NEW s \in Request, request'[s] # Idle PROVE UnderWay(s)'
        OBVIOUS
    <2>1. CASE s = r
        BY <1>15, <2>1
    <2>2. CASE s # r
        <3>1. request'[s] = request[s] /\ UnderWay(s)
            BY <1>14, <2>2 DEF Typed
        <3> QED
            BY <1>1, <3>1 DEF UnderWay
    <2> QED
        BY <2>1, <2>2
<1> QED
    BY <1>1, <1>13, <1>16 DEF Typed, OrderIsConfirmed

LEMMA AbortTyped ==
    ASSUME Typed, NEW r \in Request, request' = [request EXCEPT ![r] = Idle],
           UNCHANGED <<batch, table, order>>
    PROVE  Typed'
<1>1. request' \in [Request -> {Idle} \cup Confirmation]
    BY DEF Typed
<1>2. \A s \in Request : request'[s] = IF s = r THEN Idle ELSE request[s]
    BY DEF Typed
<1>3. \A s \in Request : request'[s] # Idle => UnderWay(s)'
    BY <1>2 DEF Typed, UnderWay
<1> QED
    BY <1>1, <1>3 DEF Typed, OrderIsConfirmed

\* What a confirmation that is not refused writes, besides the tables.
LEMMA ConfirmTyped ==
    ASSUME Typed, NEW r \in Request, CommitConfirm(r), ~ Refused(r)
    PROVE  Typed'
<1> DEFINE b == request[r].batch
           row == [batch[b] EXCEPT !.status = "CONFIRMED"]
<1>1. /\ table' = [k \in Key |-> Written(r, k)] /\ batch' = [batch EXCEPT ![b] = row]
      /\ order' = IF batch[b].status = "CONFIRMED" THEN order ELSE Append(order, b)
      /\ request' = [request EXCEPT ![r] = Idle]
    BY DEF CommitConfirm
<1>2. request[r] # Idle /\ request[r].done = Len(LinesOf(r))
    BY DEF CommitConfirm
<1>3. b \in Batch /\ batch[b] \in BatchRow /\ LinesOf(r) \in Seq(Line)
    BY <1>2, RequestCases
<1>4. row \in BatchRow /\ row.status = "CONFIRMED" /\ row.sheet = batch[b].sheet
    BY <1>3 DEF BatchRow
<1> HIDE DEF row
<1>5. batch' \in [Batch -> {Unmade} \cup BatchRow]
    BY <1>1, <1>3, <1>4 DEF Typed
<1>6. \A c \in Batch : batch'[c] = IF c = b THEN row ELSE batch[c]
    BY <1>1 DEF Typed
<1>7. table' \in [Key -> Value \cup {NoRow}]
    <2> SUFFICES ASSUME NEW k \in Key PROVE Written(r, k) \in Value \cup {NoRow}
        BY <1>1
    <2>1. CASE Written(r, k) = table[k]
        BY <2>1 DEF Typed
    <2>2. CASE About(LinesOf(r), k) # {} /\ Written(r, k) = LastValue(LinesOf(r), k)
        BY <1>3, <2>2, LastLineIn
    <2> QED
        BY <2>1, <2>2 DEF Written
<1>8. order \in Seq(Batch) /\ Len(order) \in Nat /\ IsInjective(order)
    BY DEF Typed
<1>9. batch[b].status # "CONFIRMED" => \A i \in 1..Len(order) : order[i] # b
    BY <1>3 DEF Typed, OrderIsConfirmed
<1>10. order' \in Seq(Batch) /\ IsInjective(order') /\ OrderIsConfirmed'
    <2>1. CASE batch[b].status = "CONFIRMED"
        <3>1. order' = order
            BY <1>1, <2>1
        <3> QED
            BY <1>4, <1>6, <1>8, <2>1, <3>1 DEF Typed, OrderIsConfirmed
    <2>2. CASE batch[b].status # "CONFIRMED"
        <3>1. order' = Append(order, b)
            BY <1>1, <2>2
        <3>2. /\ order' \in Seq(Batch) /\ Len(order') = Len(order) + 1
              /\ \A i \in 1..Len(order) : order'[i] = order[i]
              /\ order'[Len(order) + 1] = b
            BY <1>3, <1>8, <3>1
        <3>3. DOMAIN order' = 1..(Len(order) + 1) /\ DOMAIN order = 1..Len(order)
            BY <1>8, <3>2
        <3>4. IsInjective(order')
            BY <1>8, <1>9, <2>2, <3>2, <3>3 DEF IsInjective
        <3>5. OrderIsConfirmed'
            <4> SUFFICES ASSUME NEW c \in Batch
                         PROVE  batch'[c].status = "CONFIRMED" <=> \E i \in 1..Len(order') : order'[i] = c
                BY DEF OrderIsConfirmed
            <4>1. CASE c = b
                BY <1>4, <1>6, <1>8, <3>2, <4>1
            <4>2. CASE c # b
                <5>1. batch'[c] = batch[c]
                    BY <1>6, <4>2
                <5>2. (\E i \in 1..Len(order') : order'[i] = c) <=> \E i \in 1..Len(order) : order[i] = c
                    BY <1>8, <3>2, <4>2
                <5> QED
                    BY <5>1, <5>2 DEF Typed, OrderIsConfirmed
            <4> QED
                BY <4>1, <4>2
        <3> QED
            BY <3>2, <3>4, <3>5
    <2> QED
        BY <2>1, <2>2
<1>11. request' \in [Request -> {Idle} \cup Confirmation]
    BY <1>1 DEF Typed
<1>12. \A s \in Request : request'[s] # Idle => UnderWay(s)'
    <2> SUFFICES ASSUME NEW s \in Request, request'[s] # Idle PROVE UnderWay(s)'
        OBVIOUS
    <2>1. request'[s] = request[s]
        BY <1>1 DEF Typed
    <2>2. UnderWay(s) /\ request[s].batch \in Batch
        BY <2>1, RequestCases
    <2>3. /\ batch'[request[s].batch].sheet = batch[request[s].batch].sheet
          /\ batch'[request[s].batch].status \in {"PREVIEW", "CONFIRMED"}
        BY <1>4, <1>6, <2>2 DEF UnderWay
    <2> QED
        BY <2>1, <2>2, <2>3, StaysUnderWay
<1> QED
    BY <1>5, <1>7, <1>10, <1>11, <1>12 DEF Typed

LEMMA PreviewTyped ==
    ASSUME Typed, NEW b \in Batch, NEW sheet \in Sheet, Preview(b, sheet)
    PROVE  Typed'
<1> DEFINE row == [status |-> IF HasErrors(sheet) THEN "REJECTED" ELSE "PREVIEW", sheet |-> sheet]
<1>1. batch' = [batch EXCEPT ![b] = row] /\ UNCHANGED <<table, order, request>>
    BY DEF Preview
<1>2. row \in BatchRow /\ row.status # "CONFIRMED"
    BY DEF BatchRow
<1>3. batch[b].status = "NONE"
    BY DEF Preview, Unmade
<1> HIDE DEF row
<1>4. \A c \in Batch : batch'[c] = IF c = b THEN row ELSE batch[c]
    BY <1>1 DEF Typed
<1>5. OrderIsConfirmed'
    BY <1>1, <1>2, <1>3, <1>4 DEF Typed, OrderIsConfirmed
<1>6. \A s \in Request : request[s] # Idle => UnderWay(s)'
    <2> SUFFICES ASSUME NEW s \in Request, request[s] # Idle PROVE UnderWay(s)'
        OBVIOUS
    <2>1. UnderWay(s) /\ request[s].batch \in Batch
        BY RequestCases
    <2>2. request[s].batch # b
        BY <1>3, <2>1 DEF UnderWay
    <2> QED
        BY <1>1, <1>4, <2>1, <2>2 DEF UnderWay
<1> QED
    BY <1>1, <1>2, <1>5, <1>6 DEF Typed

LEMMA NextTyped == Typed /\ [Next]_vars => Typed'
<1> SUFFICES ASSUME Typed, [Next]_vars PROVE Typed'
    OBVIOUS
<1>1. ASSUME NEW r \in Request, CommitConfirm(r) PROVE Typed'
    BY <1>1, ConfirmTyped, AbortTyped DEF CommitConfirm
<1>2. ASSUME NEW r \in Request, Abort(r) PROVE Typed'
    BY <1>2, AbortTyped DEF Abort
<1>3. CASE UNCHANGED vars
    BY <1>3 DEF vars, Typed, UnderWay, OrderIsConfirmed
<1> QED
    BY <1>1, <1>2, <1>3, PreviewTyped, BeginTyped, ReadTyped DEF Next

\* The types, with what typing needs of the batches and requests under way.
THEOREM Types == Spec => []Typed
<1> QED
    BY InitTyped, NextTyped, PTL DEF Spec

\* Batches, tables, the order of confirmations and what each request has read
\* keep their types, for every set of keys, sheets, batches and requests
\* (master_data.py).
THEOREM TypeCorrect == Spec => []TypeOK
<1> QED
    BY TypedImplies, Types, PTL

----------------------------------------------------------------------------
(* Every row is attested by a confirmed batch.                             *)

\* Batch b is confirmed and has a line about k; row k is what it says.
Attests(b, k) == batch[b].status = "CONFIRMED" /\ About(batch[b].sheet, k) # {}
Attested(k) ==
    \/ table[k] = NoRow /\ \A b \in Batch : ~ Attests(b, k)
    \/ \E b \in Batch : Attests(b, k) /\ table[k] = LastValue(batch[b].sheet, k)

\* A row that was found is there for good.
FoundThere ==
    \A r \in Request : request[r] # Idle =>
        \A k \in DOMAIN request[r].read : request[r].read[k] # NoRow => table[k] # NoRow

AttestInv == FoundThere /\ \A k \in Key : Attested(k)

LEMMA AttestImplies == AttestInv => RowsAttested
<1> SUFFICES ASSUME AttestInv, NEW k \in Key
             PROVE  LET with == {b \in Batch : Attests(b, k)}
                    IN IF with = {} THEN table[k] = NoRow
                       ELSE \E b \in with : table[k] = LastValue(batch[b].sheet, k)
    BY DEF RowsAttested, Attests
<1>1. Attested(k)
    BY DEF AttestInv
<1> QED
    BY <1>1 DEF Attested

LEMMA InitAttest == Init => AttestInv
<1> SUFFICES ASSUME Init PROVE AttestInv
    OBVIOUS
<1>1. \A b \in Batch : \A k : ~ Attests(b, k)
    BY DEF Init, Attests, Unmade
<1> QED
    BY <1>1 DEF Init, AttestInv, Attested, FoundThere

\* A step that changes neither the tables nor a confirmed batch.
LEMMA AttestedStands ==
    ASSUME NEW k \in Key, Attested(k), UNCHANGED table,
           \A b \in Batch : \/ batch'[b] = batch[b]
                            \/ batch[b].status # "CONFIRMED" /\ batch'[b].status # "CONFIRMED"
    PROVE  Attested(k)'
<1>1. \A b \in Batch : Attests(b, k)' <=> Attests(b, k)
    BY DEF Attests, About
<1>2. CASE table[k] = NoRow /\ \A b \in Batch : ~ Attests(b, k)
    BY <1>1, <1>2 DEF Attested
<1>3. CASE \E b \in Batch : Attests(b, k) /\ table[k] = LastValue(batch[b].sheet, k)
    <2>1. PICK b \in Batch : Attests(b, k) /\ table[k] = LastValue(batch[b].sheet, k)
        BY <1>3
    <2>2. batch'[b] = batch[b]
        BY <2>1 DEF Attests
    <2>3. table'[k] = LastValue(batch'[b].sheet, k)
        BY <2>1, <2>2
    <2>4. LastValue(batch[b].sheet, k)' = LastValue(batch'[b].sheet, k)
        BY DEF LastValue, LastLine, About
    <2> QED
        BY <1>1, <2>1, <2>3, <2>4 DEF Attested
<1> QED
    BY <1>2, <1>3 DEF Attested

LEMMA PreviewAttest ==
    ASSUME Typed, AttestInv, NEW b \in Batch, NEW sheet \in Sheet, Preview(b, sheet)
    PROVE  AttestInv'
<1>1. /\ \A c \in Batch : c # b => batch'[c] = batch[c]
      /\ batch[b].status = "NONE" /\ batch'[b].status # "CONFIRMED"
      /\ UNCHANGED <<table, request>>
    BY DEF Preview, Typed, Unmade
<1> QED
    BY <1>1, AttestedStands DEF AttestInv, FoundThere

LEMMA BeginAttest ==
    ASSUME Typed, AttestInv, NEW r \in Request, NEW b \in Batch, BeginConfirm(r, b)
    PROVE  AttestInv'
<1> DEFINE q == [op |-> "confirm", batch |-> b, done |-> 0, read |-> [k \in {} |-> NoRow]]
<1>1. /\ \A s \in Request : request'[s] = IF s = r THEN q ELSE request[s]
      /\ UNCHANGED <<batch, table>>
    BY DEF BeginConfirm, Typed
<1>2. DOMAIN q.read = {}
    OBVIOUS
<1> HIDE DEF q
<1> QED
    BY <1>1, <1>2, AttestedStands DEF AttestInv, FoundThere

LEMMA ReadAttest ==
    ASSUME Typed, AttestInv, NEW r \in Request, ReadRow(r)
    PROVE  AttestInv'
<1> DEFINE i == request[r].done + 1
           k == LinesOf(r)[i].key
           read == request[r].read
           more == [x \in DOMAIN read \cup {k} |-> IF x \in DOMAIN read THEN read[x] ELSE table[x]]
           q == [request[r] EXCEPT !.done = i, !.read = more]
<1>1. /\ \A s \in Request : request'[s] = IF s = r THEN q ELSE request[s]
      /\ UNCHANGED <<batch, table>> /\ request[r] # Idle
    BY DEF ReadRow, Typed
<1>2. request[r] \in Confirmation
    BY <1>1, RequestCases
<1>3. q.read = more
    BY <1>2 DEF Confirmation
<1>4. \A x \in DOMAIN more : more[x] = IF x \in DOMAIN read THEN read[x] ELSE table[x]
    OBVIOUS
<1> HIDE DEF q, more, i, k
<1>5. FoundThere'
    BY <1>1, <1>3, <1>4 DEF AttestInv, FoundThere
<1> QED
    BY <1>1, <1>5, AttestedStands DEF AttestInv

LEMMA IdleAttest ==
    ASSUME Typed, AttestInv, NEW r \in Request, request' = [request EXCEPT ![r] = Idle],
           UNCHANGED <<batch, table>>
    PROVE  AttestInv'
<1>1. \A s \in Request : request'[s] = IF s = r THEN Idle ELSE request[s]
    BY DEF Typed
<1> QED
    BY <1>1, AttestedStands DEF AttestInv, FoundThere

\* What a confirmation that is not refused leaves of a row it is about: the
\* value of its last line, or a row that was there before.
LEMMA WrittenRow ==
    ASSUME Typed, AttestInv, NEW r \in Request, CommitConfirm(r), ~ Refused(r), NEW k \in Key,
           About(LinesOf(r), k) # {}
    PROVE  /\ Written(r, k) = LastValue(LinesOf(r), k) \/ (Written(r, k) = table[k] /\ table[k] # NoRow)
           /\ Written(r, k) # NoRow
<1> DEFINE sheet == LinesOf(r)
           last == LastLine(sheet, k)
           compared == IF k \in Flushed THEN About(sheet, k) ELSE {last}
           changed == \E i \in compared : sheet[i].value # request[r].read[k]
<1>1. request[r] # Idle /\ request[r].done = Len(sheet)
    BY DEF CommitConfirm
<1>2. sheet \in Seq(Line) /\ UnderWay(r)
    BY <1>1, RequestCases
<1>3. last \in About(sheet, k) /\ LastValue(sheet, k) \in Value
    BY <1>2, LastLineIn
<1>4. last \in 1..Len(sheet) /\ sheet[last].key = k
    BY <1>3 DEF About
<1>5. k \in DOMAIN request[r].read
    BY <1>1, <1>2, <1>4 DEF UnderWay, LinesOf
<1>6. Written(r, k) = IF changed THEN LastValue(sheet, k) ELSE table[k]
    BY DEF Written
<1>7. NoRow \notin Value
    BY ImportAssumption
<1>8. ~ changed => table[k] # NoRow
    <2> SUFFICES ASSUME ~ changed PROVE table[k] # NoRow
        OBVIOUS
    <2>1. last \in compared
        BY <1>3
    <2>2. sheet[last].value = request[r].read[k]
        BY <2>1
    <2>3. sheet[last].value \in Value
        BY <1>3 DEF LastValue
    <2>4. request[r].read[k] # NoRow
        BY <1>7, <2>2, <2>3
    <2> QED
        BY <1>1, <1>5, <2>4 DEF AttestInv, FoundThere
<1> HIDE DEF changed, sheet
<1>9. LastValue(sheet, k) # NoRow
    BY <1>3, <1>7
<1> QED
    BY <1>6, <1>8, <1>9 DEF sheet

LEMMA ConfirmAttest ==
    ASSUME Typed, AttestInv, NEW r \in Request, CommitConfirm(r), ~ Refused(r)
    PROVE  AttestInv'
<1> DEFINE b == request[r].batch
           row == [batch[b] EXCEPT !.status = "CONFIRMED"]
<1>1. /\ table' = [k \in Key |-> Written(r, k)] /\ batch' = [batch EXCEPT ![b] = row]
      /\ request' = [request EXCEPT ![r] = Idle] /\ request[r] # Idle
    BY DEF CommitConfirm
<1>2. b \in Batch /\ batch[b] \in BatchRow /\ LinesOf(r) = batch[b].sheet /\ UnderWay(r)
    BY <1>1, RequestCases DEF LinesOf
<1>3. row.status = "CONFIRMED" /\ row.sheet = batch[b].sheet
    BY <1>2 DEF BatchRow
<1> HIDE DEF row
<1>4. \A c \in Batch : batch'[c] = IF c = b THEN row ELSE batch[c]
    BY <1>1 DEF Typed
<1>5. \A s \in Request : request'[s] = IF s = r THEN Idle ELSE request[s]
    BY <1>1 DEF Typed
<1>6. \A k \in Key : table'[k] = Written(r, k)
    BY <1>1
<1>7. \A k \in Key : About(LinesOf(r), k) = {} => table'[k] = table[k]
    BY <1>6 DEF Written
<1>8. \A c \in Batch, k \in Key :
          Attests(c, k)' <=> Attests(c, k) \/ (c = b /\ About(LinesOf(r), k) # {})
    BY <1>2, <1>3, <1>4 DEF Attests, About
<1>9. \A k \in Key : table[k] # NoRow => table'[k] # NoRow
    BY <1>6, <1>7, WrittenRow
<1>10. FoundThere'
    <2> SUFFICES ASSUME NEW s \in Request, request'[s] # Idle, NEW k \in DOMAIN request'[s].read,
                        request'[s].read[k] # NoRow
                 PROVE  table'[k] # NoRow
        BY DEF FoundThere
    <2>1. request'[s] = request[s] /\ request[s] # Idle
        BY <1>5
    <2>2. k \in Key
        BY <2>1, RequestCases DEF Reads
    <2>3. table[k] # NoRow
        BY <2>1 DEF AttestInv, FoundThere
    <2> QED
        BY <1>9, <2>2, <2>3
<1>11. ASSUME NEW k \in Key PROVE Attested(k)'
    <2>1. Attested(k)
        BY DEF AttestInv
    <2>2. \A c \in Batch : batch'[c].sheet = batch[c].sheet
        BY <1>3, <1>4
    <2>3. \A c \in Batch : LastValue(batch[c].sheet, k)' = LastValue(batch[c].sheet, k)
        BY <2>2 DEF LastValue, LastLine, About
    <2>4. ASSUME table'[k] = table[k], ~ (table[k] = NoRow /\ \A c \in Batch : ~ Attests(c, k))
          PROVE  Attested(k)'
        <3>1. PICK c \in Batch : Attests(c, k) /\ table[k] = LastValue(batch[c].sheet, k)
            BY <2>1, <2>4 DEF Attested
        <3>2. Attests(c, k)' /\ table'[k] = LastValue(batch[c].sheet, k)'
            BY <1>8, <2>3, <2>4, <3>1
        <3> QED
            BY <3>2 DEF Attested
    <2>5. CASE About(LinesOf(r), k) = {}
        <3>1. table'[k] = table[k] /\ \A c \in Batch : Attests(c, k)' <=> Attests(c, k)
            BY <1>7, <1>8, <2>5
        <3>2. CASE table[k] = NoRow /\ \A c \in Batch : ~ Attests(c, k)
            BY <3>1, <3>2 DEF Attested
        <3> QED
            BY <2>4, <3>1, <3>2
    <2>6. CASE About(LinesOf(r), k) # {}
        <3>0. PICK c \in Batch : c = b
            BY <1>2
        <3>1. Attests(c, k)'
            BY <1>8, <2>6, <3>0
        <3>2. CASE Written(r, k) = LastValue(LinesOf(r), k)
            <4>1. table'[k] = LastValue(batch[c].sheet, k)'
                BY <1>2, <1>6, <2>3, <3>0, <3>2
            <4> QED
                BY <3>1, <4>1 DEF Attested
        <3>3. CASE Written(r, k) = table[k] /\ table[k] # NoRow
            BY <1>6, <2>4, <3>3
        <3> QED
            BY <2>6, <3>2, <3>3, WrittenRow
    <2> QED
        BY <2>5, <2>6
<1> QED
    BY <1>10, <1>11 DEF AttestInv

LEMMA NextAttest == Typed /\ AttestInv /\ [Next]_vars => AttestInv'
<1> SUFFICES ASSUME Typed, AttestInv, [Next]_vars PROVE AttestInv'
    OBVIOUS
<1>1. ASSUME NEW r \in Request, CommitConfirm(r) PROVE AttestInv'
    BY <1>1, ConfirmAttest, IdleAttest DEF CommitConfirm
<1>2. ASSUME NEW r \in Request, Abort(r) PROVE AttestInv'
    BY <1>2, IdleAttest DEF Abort
<1>3. CASE UNCHANGED vars
    BY <1>3, AttestedStands DEF vars, AttestInv, FoundThere
<1> QED
    BY <1>1, <1>2, <1>3, PreviewAttest, BeginAttest, ReadAttest DEF Next

\* However confirmations of whatever batches overlap, are retried, refused or
\* die, every row is the last line about it of a confirmed batch, every row of
\* a confirmed batch is there, and nothing else is (confirm in master_data.py).
THEOREM EveryRowAttested == Spec => []RowsAttested
<1> QED
    BY AttestImplies, Types, InitAttest, NextAttest, PTL DEF Spec

----------------------------------------------------------------------------
(* The tables are what the confirmed batches make of them.                 *)

\* The confirmations that overlap are of one batch.
OneBatchAtATime ==
    \A r, s \in Request :
        request[r] # Idle /\ request[s] # Idle => request[r].batch = request[s].batch

\* The tables are what confirming the batches one after the other, each once,
\* makes of them.
ReplayOfConfirmed ==
    \A k \in Key :
        LET with == {i \in 1..Len(order) : About(batch[order[i]].sheet, k) # {}}
            latest == batch[order[CHOOSE i \in with : \A j \in with : j <= i]].sheet
        IN table[k] = IF with = {} THEN NoRow ELSE LastValue(latest, k)

\* The confirmed batches with a line about key k.
With(k) == {i \in 1..Len(order) : About(batch[order[i]].sheet, k) # {}}

Replayed(k) ==
    \/ With(k) = {} /\ table[k] = NoRow
    \/ \E i \in With(k) : /\ \A j \in With(k) : j <= i
                          /\ table[k] = LastValue(batch[order[i]].sheet, k)

\* What a confirmation has read of a batch that is not confirmed yet is still
\* so; a batch that somebody else has confirmed meanwhile was the last one.
FreshReads ==
    \A r \in Request : request[r] # Idle /\ batch[request[r].batch].status = "PREVIEW" =>
        \A k \in DOMAIN request[r].read : request[r].read[k] = table[k]
LastConfirmed ==
    \A r \in Request : request[r] # Idle /\ batch[request[r].batch].status = "CONFIRMED" =>
        order[Len(order)] = request[r].batch

ReplayInv == FreshReads /\ LastConfirmed /\ \A k \in Key : Replayed(k)

LEMMA ReplayImplies ==
    ASSUME Typed, ReplayInv
    PROVE  ReplayOfConfirmed
<1> SUFFICES ASSUME NEW k \in Key
             PROVE  LET latest == batch[order[CHOOSE i \in With(k) : \A j \in With(k) : j <= i]].sheet
                    IN  table[k] = IF With(k) = {} THEN NoRow ELSE LastValue(latest, k)
    BY DEF ReplayOfConfirmed, With, LastValue, LastLine
<1>1. Replayed(k)
    BY DEF ReplayInv
<1>2. CASE With(k) = {}
    BY <1>1, <1>2 DEF Replayed
<1>3. CASE With(k) # {}
    <2>1. PICK i \in With(k) : /\ \A j \in With(k) : j <= i
                               /\ table[k] = LastValue(batch[order[i]].sheet, k)
        BY <1>1, <1>3 DEF Replayed
    <2>2. With(k) \subseteq Int
        BY DEF With
    <2>3. (CHOOSE j \in With(k) : \A l \in With(k) : l <= j) = i
        BY <2>1, <2>2
    <2> QED
        BY <1>3, <2>1, <2>3
<1> QED
    BY <1>2, <1>3

LEMMA InitReplay == Init => ReplayInv
<1> SUFFICES ASSUME Init PROVE ReplayInv
    OBVIOUS
<1>1. \A k \in Key : With(k) = {} /\ table[k] = NoRow
    BY DEF Init, With
<1> QED
    BY <1>1 DEF Init, ReplayInv, FreshReads, LastConfirmed, Replayed

\* The tables stand as long as neither they nor the confirmed batches change.
LEMMA ReplayedStands ==
    ASSUME NEW k \in Key, Replayed(k), UNCHANGED <<table, order>>,
           \A i \in 1..Len(order) : batch'[order[i]].sheet = batch[order[i]].sheet
    PROVE  Replayed(k)'
<1>1. With(k)' = With(k)
    BY DEF With, About
<1>2. \A i \in With(k) : LastValue(batch'[order[i]].sheet, k) = LastValue(batch[order[i]].sheet, k)
    BY DEF With
<1>3. CASE With(k) = {} /\ table[k] = NoRow
    BY <1>1, <1>3 DEF Replayed
<1>4. CASE \E i \in With(k) : /\ \A j \in With(k) : j <= i
                              /\ table[k] = LastValue(batch[order[i]].sheet, k)
    BY <1>1, <1>2, <1>4 DEF Replayed
<1> QED
    BY <1>3, <1>4 DEF Replayed

LEMMA PreviewReplay ==
    ASSUME Typed, ReplayInv, NEW b \in Batch, NEW sheet \in Sheet, Preview(b, sheet)
    PROVE  ReplayInv'
<1>1. /\ \A c \in Batch : c # b => batch'[c] = batch[c]
      /\ batch[b].status = "NONE" /\ UNCHANGED <<table, order, request>>
    BY DEF Preview, Typed, Unmade
<1>2. order \in Seq(Batch)
    BY DEF Typed
<1>3. \A i \in 1..Len(order) : order[i] \in Batch /\ batch[order[i]].status = "CONFIRMED"
    BY <1>2 DEF Typed, OrderIsConfirmed
<1>4. \A k \in Key : Replayed(k)'
    BY <1>1, <1>3, ReplayedStands DEF ReplayInv
<1>5. \A r \in Request : request[r] # Idle => batch'[request[r].batch] = batch[request[r].batch]
    BY <1>1, RequestCases DEF UnderWay
<1> QED
    BY <1>1, <1>4, <1>5 DEF ReplayInv, FreshReads, LastConfirmed

\* A step of a request that writes nothing.
LEMMA QuietReplay ==
    ASSUME ReplayInv, UNCHANGED <<batch, table, order>>, FreshReads', LastConfirmed'
    PROVE  ReplayInv'
    BY ReplayedStands DEF ReplayInv

LEMMA BeginReplay ==
    ASSUME Typed, ReplayInv, NEW r \in Request, NEW b \in Batch, BeginConfirm(r, b)
    PROVE  ReplayInv'
<1> DEFINE q == [op |-> "confirm", batch |-> b, done |-> 0, read |-> [k \in {} |-> NoRow]]
<1>1. /\ \A s \in Request : request'[s] = IF s = r THEN q ELSE request[s]
      /\ UNCHANGED <<batch, table, order>> /\ batch[b].status = "PREVIEW"
    BY DEF BeginConfirm, Typed, Confirmable
<1>2. q.batch = b /\ DOMAIN q.read = {}
    OBVIOUS
<1> HIDE DEF q
<1>3. FreshReads' /\ LastConfirmed'
    BY <1>1, <1>2 DEF ReplayInv, FreshReads, LastConfirmed
<1> QED
    BY <1>1, <1>3, QuietReplay

LEMMA ReadReplay ==
    ASSUME Typed, ReplayInv, NEW r \in Request, ReadRow(r)
    PROVE  ReplayInv'
<1> DEFINE i == request[r].done + 1
           k == LinesOf(r)[i].key
           read == request[r].read
           more == [x \in DOMAIN read \cup {k} |-> IF x \in DOMAIN read THEN read[x] ELSE table[x]]
           q == [request[r] EXCEPT !.done = i, !.read = more]
<1>1. /\ \A s \in Request : request'[s] = IF s = r THEN q ELSE request[s]
      /\ UNCHANGED <<batch, table, order>> /\ request[r] # Idle
    BY DEF ReadRow, Typed
<1>2. request[r] \in Confirmation
    BY <1>1, RequestCases
<1>3. q.batch = request[r].batch /\ q.read = more
    BY <1>2 DEF Confirmation
<1>4. \A x \in DOMAIN more : more[x] = IF x \in DOMAIN read THEN read[x] ELSE table[x]
    OBVIOUS
<1> HIDE DEF q, more, i, k
<1>5. FreshReads' /\ LastConfirmed'
    BY <1>1, <1>3, <1>4 DEF ReplayInv, FreshReads, LastConfirmed
<1> QED
    BY <1>1, <1>5, QuietReplay

LEMMA AbortReplay ==
    ASSUME Typed, ReplayInv, NEW r \in Request, request' = [request EXCEPT ![r] = Idle],
           UNCHANGED <<batch, table, order>>
    PROVE  ReplayInv'
<1>1. \A s \in Request : request'[s] = IF s = r THEN Idle ELSE request[s]
    BY DEF Typed
<1>2. FreshReads' /\ LastConfirmed'
    BY <1>1 DEF ReplayInv, FreshReads, LastConfirmed
<1> QED
    BY <1>2, QuietReplay

\* A confirmation leaves in each row the value of its last line about it.
LEMMA WrittenLast ==
    ASSUME Typed, ReplayInv, NEW r \in Request, CommitConfirm(r), NEW k \in Key
    PROVE  /\ About(LinesOf(r), k) = {} => Written(r, k) = table[k]
           /\ About(LinesOf(r), k) # {} => Written(r, k) = LastValue(LinesOf(r), k)
<1> DEFINE sheet == LinesOf(r)
           lines == About(sheet, k)
           b == request[r].batch
           last == LastLine(sheet, k)
<1>1. request[r] # Idle /\ request[r].done = Len(sheet)
    BY DEF CommitConfirm
<1>2. b \in Batch /\ sheet \in Seq(Line) /\ UnderWay(r) /\ sheet = batch[b].sheet
    BY <1>1, RequestCases DEF LinesOf
<1>3. CASE lines = {}
    BY <1>3 DEF Written
<1>4. CASE lines # {}
    <2>1. lines \in SUBSET (0..Len(sheet)) /\ Len(sheet) \in Nat
        BY <1>2 DEF About
    <2>2. last \in lines
        BY <1>4, <2>1, GreatestElement DEF LastLine
    <2>3. last \in 1..Len(sheet) /\ sheet[last].key = k
        BY <2>2 DEF About
    <2>4. CASE batch[b].status = "PREVIEW"
        <3>1. k \in DOMAIN request[r].read
            BY <1>1, <1>2, <2>3 DEF UnderWay
        <3>2. request[r].read[k] = table[k]
            BY <1>1, <2>4, <3>1 DEF ReplayInv, FreshReads
        <3>3. Written(r, k) = sheet[last].value \/ (Written(r, k) = table[k] /\ sheet[last].value = table[k])
            <4>1. last \in IF k \in Flushed THEN lines ELSE {last}
                BY <2>2
            <4>2. Written(r, k) =
                    IF lines # {} /\ \E i \in IF k \in Flushed THEN lines ELSE {last} :
                                        sheet[i].value # request[r].read[k]
                    THEN sheet[last].value ELSE table[k]
                BY DEF Written, LastValue
            <4> HIDE DEF lines, sheet, last
            <4> QED
                BY <1>4, <3>2, <4>1, <4>2
        <3> QED
            BY <1>4, <3>3 DEF LastValue
    <2>5. CASE batch[b].status = "CONFIRMED"
        <3>1. order[Len(order)] = b
            BY <1>1, <2>5 DEF ReplayInv, LastConfirmed
        <3>2. order \in Seq(Batch) /\ Len(order) \in Nat /\ Len(order) # 0
            BY <1>2, <2>5 DEF Typed, OrderIsConfirmed
        <3>3. Len(order) \in With(k)
            BY <1>2, <1>4, <3>1, <3>2 DEF With
        <3>4. PICK i \in With(k) : /\ \A j \in With(k) : j <= i
                                   /\ table[k] = LastValue(batch[order[i]].sheet, k)
            BY <3>3 DEF ReplayInv, Replayed
        <3>5. i = Len(order)
            <4>1. Len(order) <= i
                BY <3>3, <3>4
            <4>2. i \in 1..Len(order)
                BY DEF With
            <4> QED
                BY <3>2, <4>1, <4>2
        <3>6. table[k] = LastValue(sheet, k)
            BY <1>2, <3>1, <3>4, <3>5
        <3>7. Written(r, k) = sheet[last].value \/ Written(r, k) = table[k]
            BY DEF Written, LastValue
        <3> QED
            BY <1>4, <3>6, <3>7 DEF LastValue
    <2> QED
        BY <1>2, <2>4, <2>5 DEF UnderWay
<1> QED
    BY <1>3, <1>4

LEMMA ConfirmReplay ==
    ASSUME Typed, ReplayInv, OneBatchAtATime, NEW r \in Request, CommitConfirm(r), ~ Refused(r)
    PROVE  ReplayInv'
<1> DEFINE b == request[r].batch
           row == [batch[b] EXCEPT !.status = "CONFIRMED"]
<1>1. /\ table' = [k \in Key |-> Written(r, k)] /\ batch' = [batch EXCEPT ![b] = row]
      /\ order' = IF batch[b].status = "CONFIRMED" THEN order ELSE Append(order, b)
      /\ request' = [request EXCEPT ![r] = Idle] /\ request[r] # Idle
    BY DEF CommitConfirm
<1>2. b \in Batch /\ batch[b] \in BatchRow /\ LinesOf(r) = batch[b].sheet /\ UnderWay(r)
    BY <1>1, RequestCases DEF LinesOf
<1>3. row.status = "CONFIRMED" /\ row.sheet = batch[b].sheet
    BY <1>2 DEF BatchRow
<1> HIDE DEF row
<1>4. \A c \in Batch : batch'[c] = IF c = b THEN row ELSE batch[c]
    BY <1>1 DEF Typed
<1>5. \A c \in Batch : batch'[c].sheet = batch[c].sheet
    BY <1>3, <1>4
<1>6. order \in Seq(Batch) /\ Len(order) \in Nat
    BY DEF Typed
<1>7. \A s \in Request : request'[s] = IF s = r THEN Idle ELSE request[s]
    BY <1>1 DEF Typed
<1>8. \A s \in Request : request'[s] # Idle => request'[s].batch = b
    BY <1>1, <1>7 DEF OneBatchAtATime
<1>9. /\ order' \in Seq(Batch) /\ Len(order') \in Nat \ {0} /\ order'[Len(order')] = b
      /\ Len(order) <= Len(order')
      /\ \A i \in 1..Len(order') :
            (i \in 1..Len(order) /\ order'[i] = order[i]) \/ i = Len(order')
    <2>1. CASE batch[b].status = "CONFIRMED"
        <3>1. order' = order /\ Len(order) # 0
            BY <1>1, <1>2, <1>6, <2>1 DEF Typed, OrderIsConfirmed
        <3>2. order[Len(order)] = b
            BY <1>1, <2>1 DEF ReplayInv, LastConfirmed
        <3> QED
            BY <1>6, <3>1, <3>2
    <2>2. CASE batch[b].status # "CONFIRMED"
        <3>1. order' = Append(order, b)
            BY <1>1, <2>2
        <3> QED
            BY <1>2, <1>6, <3>1
    <2> QED
        BY <2>1, <2>2
<1>10. FreshReads' /\ LastConfirmed'
    <2>1. batch'[b].status = "CONFIRMED"
        BY <1>2, <1>3, <1>4
    <2> QED
        BY <1>8, <1>9, <2>1 DEF FreshReads, LastConfirmed
<1>11. ASSUME NEW k \in Key PROVE Replayed(k)'
    <2>0. table'[k] = Written(r, k)
        BY <1>1
    <2>1. \A i \in 1..Len(order') : batch'[order'[i]].sheet = batch[order'[i]].sheet
        BY <1>5, <1>9
    <2>2. With(k)' = {i \in 1..Len(order') : About(batch[order'[i]].sheet, k) # {}}
        BY <2>1 DEF With
    <2>3. CASE About(LinesOf(r), k) # {}
        <3>1. Len(order') \in With(k)' /\ \A j \in With(k)' : j <= Len(order')
            BY <1>2, <1>9, <2>2, <2>3
        <3>2. table'[k] = LastValue(LinesOf(r), k)
            BY <2>0, <2>3, WrittenLast
        <3>3. batch'[order'[Len(order')]].sheet = LinesOf(r)
            BY <1>2, <1>5, <1>9
        <3>4. table'[k] = LastValue(batch'[order'[Len(order')]].sheet, k)
            BY <3>2, <3>3
        <3> QED
            BY <3>1, <3>4 DEF Replayed, LastValue, LastLine, About
    <2>4. CASE About(LinesOf(r), k) = {}
        <3>1. table'[k] = table[k]
            BY <2>0, <2>4, WrittenLast
        <3>2. Len(order') \notin With(k)'
            BY <1>2, <1>9, <2>2, <2>4
        <3>3. With(k)' \subseteq With(k) /\ \A i \in With(k)' : order'[i] = order[i]
            BY <1>9, <2>2, <3>2 DEF With
        <3>4. With(k) \subseteq With(k)'
            <4> SUFFICES ASSUME NEW i \in With(k) PROVE i \in With(k)'
                OBVIOUS
            <4>1. i \in 1..Len(order) /\ About(batch[order[i]].sheet, k) # {}
                BY DEF With
            <4>2. order'[i] = order[i] /\ i \in 1..Len(order')
                <5>1. CASE batch[b].status = "CONFIRMED"
                    BY <1>1, <4>1, <5>1
                <5>2. CASE batch[b].status # "CONFIRMED"
                    <6>1. order' = Append(order, b)
                        BY <1>1, <5>2
                    <6> QED
                        BY <1>2, <1>6, <4>1, <6>1
                <5> QED
                    BY <5>1, <5>2
            <4> QED
                BY <2>2, <4>1, <4>2
        <3>5. With(k)' = With(k)
            BY <3>3, <3>4
        <3>6. \A i \in With(k) : batch'[order'[i]].sheet = batch[order[i]].sheet
            BY <2>1, <2>2, <3>3, <3>5
        <3>7. CASE With(k) = {} /\ table[k] = NoRow
            BY <3>1, <3>5, <3>7 DEF Replayed
        <3>8. CASE \E i \in With(k) : /\ \A j \in With(k) : j <= i
                                      /\ table[k] = LastValue(batch[order[i]].sheet, k)
            <4>1. PICK i \in With(k) : /\ \A j \in With(k) : j <= i
                                       /\ table[k] = LastValue(batch[order[i]].sheet, k)
                BY <3>8
            <4>2. i \in With(k)' /\ \A j \in With(k)' : j <= i
                BY <3>5, <4>1
            <4>3. table'[k] = LastValue(batch'[order'[i]].sheet, k)
                BY <3>1, <3>6, <4>1
            <4> QED
                BY <4>2, <4>3 DEF Replayed, LastValue, LastLine, About
        <3> QED
            BY <3>7, <3>8 DEF ReplayInv, Replayed
    <2> QED
        BY <2>3, <2>4
<1> QED
    BY <1>10, <1>11 DEF ReplayInv

LEMMA NextReplay == Typed /\ ReplayInv /\ OneBatchAtATime /\ [Next]_vars => ReplayInv'
<1> SUFFICES ASSUME Typed, ReplayInv, OneBatchAtATime, [Next]_vars PROVE ReplayInv'
    OBVIOUS
<1>1. ASSUME NEW r \in Request, CommitConfirm(r) PROVE ReplayInv'
    BY <1>1, ConfirmReplay, AbortReplay DEF CommitConfirm
<1>2. ASSUME NEW r \in Request, Abort(r) PROVE ReplayInv'
    BY <1>2, AbortReplay DEF Abort
<1>3. CASE UNCHANGED vars
    <2>1. FreshReads' /\ LastConfirmed'
        BY <1>3 DEF vars, ReplayInv, FreshReads, LastConfirmed
    <2> QED
        BY <1>3, <2>1, QuietReplay DEF vars
<1> QED
    BY <1>1, <1>2, <1>3, PreviewReplay, BeginReplay, ReadReplay DEF Next

\* As long as confirmations of two batches do not overlap, the tables are what
\* the confirmed batches make of them, one after the other and each once,
\* however often and however overlapping one batch is confirmed
\* (confirm_import in master_data.py).
THEOREM TablesReplay == Spec /\ []OneBatchAtATime => []ReplayOfConfirmed
<1>1. Typed /\ ReplayInv => ReplayOfConfirmed
    BY ReplayImplies
<1> QED
    BY <1>1, Types, InitReplay, NextReplay, PTL DEF Spec
================================================================================
