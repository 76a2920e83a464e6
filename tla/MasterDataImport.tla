------------------------- MODULE MasterDataImport -------------------------
(***************************************************************************)
(* Import of master data from a spreadsheet: preview validates it into a   *)
(* batch, confirm upserts the batch row by row into the tables             *)
(* (backend/app/master_data.py, imports.py).  Each row is one query of its *)
(* own and requests overlap between them; what a confirmation wrote        *)
(* becomes visible when it commits, and the session writes a column only   *)
(* if its value differs from the one that was read.                        *)
(***************************************************************************)
EXTENDS Integers, Sequences, FiniteSets, SequencesExt

CONSTANTS
    Key,        \* the natural keys of the rows of the five tables
    Tab,        \* the tabs of a sheet: the keys of each table
    Flushed,    \* the keys of projects and workers: flushed one at a time
    Value,      \* what a row says besides its key
    NoRow,      \* the table has no such row
    Sheet,      \* the spreadsheets that are previewed
    Batch,      \* bound: the batches that are ever previewed
    Request     \* threads that serve requests

\* A line of a sheet, in the order in which confirm takes them: whether its
\* cells parse, the projects and workers it names, and whether the supervisor
\* it names has a membership.
Line == [key : Key, value : Value, parses : BOOLEAN, names : SUBSET Flushed, member : BOOLEAN]

ASSUME ImportAssumption ==
    UNION Tab = Key /\ Flushed \subseteq Key /\ NoRow \notin Value /\ Sheet \subseteq Seq(Line)

Unmade == [status |-> "NONE"]
BatchRow == [status : {"PREVIEW", "CONFIRMED", "REJECTED"}, sheet : Sheet]

Idle == [op |-> "idle"]

VARIABLES
    batch,      \* ImportBatch rows
    table,      \* table[k]: the row of key k in its table
    order,      \* the batches in the order in which they were first confirmed (history)
    request     \* the confirmation of each thread: lines done, rows as first read

vars == <<batch, table, order, request>>

LinesOf(r) == batch[request[r].batch].sheet

TypeOK ==
    /\ batch \in [Batch -> {Unmade} \cup BatchRow]
    /\ table \in [Key -> Value \cup {NoRow}]
    /\ order \in Seq(Batch) /\ IsInjective(order)
    /\ \A r \in Request :
          \/ request[r] = Idle
          \/ /\ request[r].done \in 0..Len(LinesOf(r))
             /\ \A i \in 1..request[r].done : LinesOf(r)[i].key \in DOMAIN request[r].read

----------------------------------------------------------------------------
(* Preview.                                                                *)

\* validate: an empty tab, a cell that does not parse, or a code that no line
\* introduces.
HasErrors(sheet) ==
    \/ \E tab \in Tab : \A i \in 1..Len(sheet) : sheet[i].key \notin tab
    \/ \E i \in 1..Len(sheet) :
          \/ ~ sheet[i].parses
          \/ \E k \in sheet[i].names :
                \A j \in 1..Len(sheet) : sheet[j].parses => sheet[j].key # k

Init ==
    /\ batch = [b \in Batch |-> Unmade]
    /\ table = [k \in Key |-> NoRow]
    /\ order = <<>>
    /\ request = [r \in Request |-> Idle]

\* POST /master-data/imports/google-sheets/preview
Preview(b, sheet) ==
    /\ batch[b] = Unmade
    /\ batch' = [batch EXCEPT ![b] =
           [status |-> IF HasErrors(sheet) THEN "REJECTED" ELSE "PREVIEW", sheet |-> sheet]]
    /\ UNCHANGED <<table, order, request>>

----------------------------------------------------------------------------
(* Confirm.                                                                *)

\* A batch that is confirmed already is answered without a write.
Confirmable(b) == batch[b].status = "PREVIEW"

\* POST /master-data/imports/{batch_id}/confirm, up to the status check.
BeginConfirm(r, b) ==
    /\ request[r] = Idle
    /\ Confirmable(b)
    /\ request' = [request EXCEPT ![r] =
           [op |-> "confirm", batch |-> b, done |-> 0, read |-> [k \in {} |-> NoRow]]]
    /\ UNCHANGED <<batch, table, order>>

\* The next line looks its row up.  A row that the session has loaded before
\* keeps the values of the first read.
\* (Mutant ReadRowFound: that there was no row is not remembered.)
ReadRowFound(r) ==
    /\ request[r] # Idle
    /\ request[r].done < Len(LinesOf(r))
    /\ LET i == request[r].done + 1
           found == DOMAIN request[r].read \cup ({LinesOf(r)[i].key} \cap {x \in Key : table[x] # NoRow})
       IN request' = [request EXCEPT ![r].done = i, ![r].read = [x \in found |-> table[x]]]
    /\ UNCHANGED <<batch, table, order>>
ReadRow(r) ==
    /\ request[r] # Idle
    /\ request[r].done < Len(LinesOf(r))
    /\ LET i == request[r].done + 1
           k == LinesOf(r)[i].key
           read == request[r].read
       IN request' = [request EXCEPT
              ![r].done = i,
              ![r].read = [x \in DOMAIN read \cup {k} |->
                               IF x \in DOMAIN read THEN read[x] ELSE table[x]]]
    /\ UNCHANGED <<batch, table, order>>

\* The lines of a sheet about key k.
About(sheet, k) == {i \in 1..Len(sheet) : sheet[i].key = k}
LastLine(sheet, k) == CHOOSE i \in About(sheet, k) : \A j \in About(sheet, k) : j <= i
LastValue(sheet, k) == sheet[LastLine(sheet, k)].value

\* What the confirmation of r leaves in row k: the last line about it counts,
\* if it differs from what was read (or, with a flush between the lines, if
\* one of them does).
Written(r, k) ==
    LET sheet == LinesOf(r)
        lines == About(sheet, k)
        compared == IF k \in Flushed THEN lines ELSE {LastLine(sheet, k)}
    IN IF lines # {} /\ \E i \in compared : sheet[i].value # request[r].read[k]
       THEN LastValue(sheet, k)
       ELSE table[k]

\* A supervisor without membership (409), or a second row for a key: two
\* lines that both insert it, or one that another confirmation inserted (500).
Refused(r) ==
    \/ \E i \in 1..Len(LinesOf(r)) : ~ LinesOf(r)[i].member
    \/ \E k \in DOMAIN request[r].read :
          /\ request[r].read[k] = NoRow
          /\ \/ table[k] # NoRow
             \/ k \notin Flushed /\ Cardinality(About(LinesOf(r), k)) > 1

\* The commit of a confirmation: all its rows, or nothing.
\* (Mutant CommitByRow: projects and workers are committed as they are flushed.)
CommitByRow(r) ==
    /\ request[r] # Idle
    /\ request[r].done = Len(LinesOf(r))
    /\ table' = [k \in Key |-> IF ~ Refused(r) \/ k \in Flushed THEN Written(r, k) ELSE table[k]]
    /\ IF Refused(r)
       THEN UNCHANGED <<batch, order>>
       ELSE LET b == request[r].batch IN
            /\ batch' = [batch EXCEPT ![b].status = "CONFIRMED"]
            /\ order' = IF batch[b].status = "CONFIRMED" THEN order ELSE Append(order, b)
    /\ request' = [request EXCEPT ![r] = Idle]
CommitConfirm(r) ==
    /\ request[r] # Idle
    /\ request[r].done = Len(LinesOf(r))
    /\ IF Refused(r)
       THEN UNCHANGED <<batch, table, order>>
       ELSE LET b == request[r].batch IN
            /\ table' = [k \in Key |-> Written(r, k)]
            /\ batch' = [batch EXCEPT ![b].status = "CONFIRMED"]
            /\ order' = IF batch[b].status = "CONFIRMED" THEN order ELSE Append(order, b)
    /\ request' = [request EXCEPT ![r] = Idle]

\* The request fails before it commits: its session is closed, nothing stays.
Abort(r) ==
    /\ request[r] # Idle
    /\ request' = [request EXCEPT ![r] = Idle]
    /\ UNCHANGED <<batch, table, order>>

Next ==
    \/ \E b \in Batch, sheet \in Sheet : Preview(b, sheet)
    \/ \E r \in Request :
          \/ \E b \in Batch : BeginConfirm(r, b)
          \/ ReadRow(r) \/ CommitConfirm(r) \/ Abort(r)

Spec == Init /\ [][Next]_vars

----------------------------------------------------------------------------
(* Properties.                                                             *)

\* However confirmations of whatever batches overlap, are retried, refused or
\* die, every row is the last line about it of a batch that is confirmed, every
\* row of a confirmed batch is there, and nothing else is.
RowsAttested ==
    \A k \in Key :
        LET with == {b \in Batch : batch[b].status = "CONFIRMED" /\ About(batch[b].sheet, k) # {}}
        IN IF with = {} THEN table[k] = NoRow
           ELSE \E b \in with : table[k] = LastValue(batch[b].sheet, k)

\* "Idempotent retry": a confirmation that finds its batch confirmed when it
\* commits changes no row.
RetryIsIdempotent ==
    \A r \in Request :
        (request[r] # Idle /\ request[r].done = Len(LinesOf(r)) /\ ~ Refused(r)
           /\ batch[request[r].batch].status = "CONFIRMED")
        => \A k \in Key : Written(r, k) = table[k]
============================================================================
