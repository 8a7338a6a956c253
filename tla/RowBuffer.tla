------------------------------ MODULE RowBuffer ------------------------------
(***************************************************************************)
(* The rows of a ColumnStoreBulkInsert between setColumn() and the server: *)
(* an array of Batch maps from column numbers to values, of which one is   *)
(* being filled, and which is reused, batch after batch, without being     *)
(* cleared.  What happens to the transaction is the business of BulkInsert.*)
(*                                                                         *)
(* A value is known by the row it was set for and by what the conversion   *)
(* made of it.                                                             *)
(*                                                                         *)
(* Beside an action there may be a mistake that its code could have; it    *)
(* breaks a property when it takes the place of the action.                *)
(***************************************************************************)
EXTENDS Naturals, Sequences, FiniteSets

CONSTANTS
    Columns,      \* tbl->getColumnCount()
    Batch,        \* rows of a batch: 100000 in the code
    Strict,       \* setTruncateIsError
    MaxRows,      \* bound: calls of writeRow that accept a row
    MaxTruncated, \* bound: values that are truncated
    MaxFaults     \* bound: batches that are not delivered

ASSUME RowBufferAssumption ==
    /\ Columns \in Nat \ {0}
    /\ Batch \in Nat \ {0}
    /\ Strict \in BOOLEAN
    /\ MaxRows \in Nat
    /\ MaxTruncated \in Nat
    /\ MaxFaults \in Nat

Column == 0 .. Columns - 1
Slot == 0 .. Batch - 1

(* A value of the row that was set for the n-th row to be written.         *)
Value == [for : 1 .. MaxRows + 1, truncated : BOOLEAN]

(* ColumnStoreRowData, a std::map: the columns that have a value.          *)
Row == UNION {[C -> Value] : C \in SUBSET Column}
EmptyRow == <<>>

VARIABLES
    rows,           \* tableData.rows
    row,            \* the index of the row that row points to
    rowNumber,      \* tableData.row_number
    insertedCount,
    truncatedCount,
    transactionClosed,
    alive,          \* FALSE: the process died of reading behind rows
    thrown,         \* what the last call threw, and for which column
    accepted,       \* history: the rows that writeRow took
    delivered,      \* the rows that weBulkInsert has sent, on any PM
    faults          \* batches that were not delivered

summaryVars == <<insertedCount, truncatedCount>>
vars == <<rows, row, rowNumber, summaryVars, transactionClosed, alive, thrown,
          accepted, delivered, faults>>

Errors == {"none", "Usage", "NotFound", "Data", "Network"}

TypeOK ==
    /\ rows \in [Slot -> Row]
    /\ row \in Slot
    /\ rowNumber \in Nat
    /\ insertedCount \in 0 .. MaxRows
    /\ truncatedCount \in 0 .. MaxTruncated
    /\ transactionClosed \in BOOLEAN
    /\ alive \in BOOLEAN
    /\ thrown \in [error : Errors, column : Nat]
    /\ accepted \in Seq(Row)
    /\ delivered \in Seq(Row)
    /\ faults \in 0 .. MaxFaults

Throws(error, column) == thrown' = [error |-> error, column |-> column]
Returns == Throws("none", 0)

Init ==
    /\ rows = [s \in Slot |-> EmptyRow]
    /\ row = 0 /\ rowNumber = 0
    /\ insertedCount = 0 /\ truncatedCount = 0
    /\ transactionClosed = FALSE /\ alive = TRUE
    /\ thrown = [error |-> "none", column |-> 0]
    /\ accepted = <<>> /\ delivered = <<>>
    /\ faults = 0

-----------------------------------------------------------------------------
(* setColumn() and setNull(): check, convert into the row, count, throw.   *)

(* Mistake: only runChecks looks at the number, which lets one too many in.*)
RefusalByRunChecks(n) ==
    IF transactionClosed \/ n > Columns THEN "Usage" ELSE "none"

(* runChecks, and getColumn that checks again.                             *)
Refusal(n) ==
    IF transactionClosed THEN "Usage"
    ELSE IF n > Columns THEN "Usage"
    ELSE IF n \notin Column THEN "NotFound"
    ELSE "none"

(* The row that is being filled: the one after those accepted.             *)
Filling == insertedCount + 1

Put(n, truncated) ==
    [c \in DOMAIN rows[row] \cup {n} |->
        IF c = n THEN [for |-> Filling, truncated |-> truncated] ELSE rows[row][c]]

SetColumnRefused(n) ==
    /\ alive /\ Refusal(n) # "none"
    /\ Throws(Refusal(n), n)
    /\ UNCHANGED <<rows, row, rowNumber, summaryVars, transactionClosed, alive,
                   accepted, delivered, faults>>

(* Mistake: the truncation is thrown before it is counted.                 *)
SetColumnThrowsFirst(n, truncated) ==
    /\ alive /\ Refusal(n) = "none"
    /\ rows' = [rows EXCEPT ![row] = Put(n, truncated)]
    /\ IF truncated THEN Throws("Data", n) ELSE Returns
    /\ UNCHANGED <<row, rowNumber, summaryVars, transactionClosed, alive,
                   accepted, delivered, faults>>

(* The converted value is in the row before truncation is reported.        *)
SetColumn(n, truncated) ==
    /\ alive /\ Refusal(n) = "none"
    /\ truncated => truncatedCount < MaxTruncated
    /\ rows' = [rows EXCEPT ![row] = Put(n, truncated)]
    /\ truncatedCount' = IF truncated THEN truncatedCount + 1 ELSE truncatedCount
    /\ IF truncated /\ Strict THEN Throws("Data", n) ELSE Returns
    /\ UNCHANGED <<row, rowNumber, insertedCount, transactionClosed, alive,
                   accepted, delivered, faults>>

ResetRow ==
    /\ alive
    /\ IF transactionClosed
       THEN Throws("Usage", 0) /\ UNCHANGED rows
       ELSE Returns /\ rows' = [rows EXCEPT ![row] = EmptyRow]
    /\ UNCHANGED <<row, rowNumber, summaryVars, transactionClosed, alive,
                   accepted, delivered, faults>>

-----------------------------------------------------------------------------
(* writeRow() and commit().                                                *)

Complete == DOMAIN rows[row] = Column

WriteRowRefused ==
    /\ alive /\ (transactionClosed \/ ~Complete)
    /\ Throws("Usage", 0)
    /\ UNCHANGED <<rows, row, rowNumber, summaryVars, transactionClosed, alive,
                   accepted, delivered, faults>>

(* The first n rows of the array; there is garbage behind its end.         *)
Payload(n) == [k \in 1 .. n |-> IF k <= Batch THEN rows[k - 1] ELSE EmptyRow]

Accepts ==
    /\ alive /\ ~transactionClosed /\ Complete
    /\ insertedCount < MaxRows
    /\ insertedCount' = insertedCount + 1
    /\ accepted' = Append(accepted, rows[row])
    /\ UNCHANGED <<rows, truncatedCount, transactionClosed>>

(* Mistake: row is taken before nextRow() has moved on.                    *)
WriteRowStays ==
    /\ Accepts
    /\ rowNumber + 1 < Batch
    /\ rowNumber' = rowNumber + 1 /\ row' = rowNumber
    /\ Returns
    /\ UNCHANGED <<alive, delivered, faults>>

WriteRow ==
    /\ Accepts
    /\ rowNumber + 1 < Batch
    /\ rowNumber' = rowNumber + 1 /\ row' = rowNumber + 1
    /\ Returns
    /\ UNCHANGED <<alive, delivered, faults>>

(* Mistake: row is not taken anew after a batch.                           *)
WriteRowAndFlushStays ==
    /\ Accepts
    /\ rowNumber + 1 >= Batch
    /\ delivered' = delivered \o Payload(rowNumber + 1)
    /\ rowNumber' = 0 /\ UNCHANGED row
    /\ Returns
    /\ UNCHANGED <<alive, faults>>

(* The batch is full and goes out; the array is used again from its start. *)
WriteRowAndFlush ==
    /\ Accepts
    /\ rowNumber + 1 >= Batch
    /\ delivered' = delivered \o Payload(rowNumber + 1)
    /\ rowNumber' = 0 /\ row' = 0
    /\ Returns
    /\ UNCHANGED <<alive, faults>>

(* weBulkInsert throws: row keeps pointing at the row just accepted.       *)
WriteRowFails ==
    /\ Accepts
    /\ rowNumber + 1 >= Batch /\ faults < MaxFaults
    /\ faults' = faults + 1
    /\ rowNumber' = rowNumber + 1
    /\ Throws("Network", 0)
    /\ UNCHANGED <<row, alive, delivered>>

(* After that has happened the next batch is longer than the array.  To    *)
(* read behind it is undefined: there is garbage, or the process dies.     *)
Overrun ==
    /\ alive /\ ~transactionClosed
    /\ rowNumber > Batch \/ (rowNumber = Batch /\ Complete)
    /\ alive' = FALSE
    /\ UNCHANGED <<rows, row, rowNumber, summaryVars, transactionClosed, thrown,
                   accepted, delivered, faults>>

CommitRefused ==
    /\ alive /\ transactionClosed
    /\ Throws("Usage", 0)
    /\ UNCHANGED <<rows, row, rowNumber, summaryVars, transactionClosed, alive,
                   accepted, delivered, faults>>

Commit ==
    /\ alive /\ ~transactionClosed
    /\ delivered' = delivered \o Payload(rowNumber)
    /\ transactionClosed' = TRUE
    /\ Returns
    /\ UNCHANGED <<rows, row, rowNumber, summaryVars, alive, accepted, faults>>

(* It fails at the last batch or, with the batch delivered, behind it.     *)
CommitFails ==
    /\ alive /\ ~transactionClosed /\ faults < MaxFaults
    /\ faults' = faults + 1
    /\ delivered' \in {delivered, delivered \o Payload(rowNumber)}
    /\ Throws("Network", 0)
    /\ UNCHANGED <<rows, row, rowNumber, summaryVars, transactionClosed, alive, accepted>>

(* rollback() returns at once when the transaction is closed.              *)
Rollback ==
    /\ alive
    /\ transactionClosed' = TRUE
    /\ Returns
    /\ UNCHANGED <<rows, row, rowNumber, summaryVars, alive, accepted, delivered, faults>>

Next ==
    \/ \E n \in 0 .. Columns + 1 :
          SetColumnRefused(n) \/ \E truncated \in BOOLEAN : SetColumn(n, truncated)
    \/ ResetRow
    \/ WriteRowRefused \/ WriteRow \/ WriteRowAndFlush \/ WriteRowFails \/ Overrun
    \/ Commit \/ CommitRefused \/ CommitFails \/ Rollback

Spec == Init /\ [][Next]_vars

-----------------------------------------------------------------------------
(* Properties.                                                             *)

Buffered == Payload(rowNumber)

(* Filling the next row never disturbs one that writeRow accepted: until a *)
(* call fails, what was sent and what waits in the array are the accepted  *)
(* rows in their order, though the array is reused all the time, and a     *)
(* commit sends the rest of them.                                          *)
RowsSurvive ==
    faults = 0 => \/ delivered \o Buffered = accepted
                  \/ delivered = accepted /\ transactionClosed

(* A row of the first batch holds values that were set for it.  A later    *)
(* one may hold values of the row that had its place in an earlier batch,  *)
(* never those of another row.                                             *)
ValuesStayInPlace ==
    faults = 0 =>
        \A k \in DOMAIN accepted : \A c \in DOMAIN accepted[k] :
            LET f == accepted[k][c].for
            IN f <= k /\ (k - f) % Batch = 0

FreshTruncations ==
    {v \in (DOMAIN accepted) \X Column :
        LET value == accepted[v[1]][v[2]]
        IN value.for = v[1] /\ value.truncated}

(* The summary counts each truncated value that a row was accepted with,   *)
(* also where the truncation was thrown and the row written nevertheless.  *)
TruncationCounted == faults = 0 => Cardinality(FreshTruncations) <= truncatedCount

(* docs: a row is not accepted before all its columns have been filled.    *)
OnlyFilledRows ==
    \A k \in DOMAIN accepted : \A c \in DOMAIN accepted[k] : accepted[k][c].for = k

=============================================================================
