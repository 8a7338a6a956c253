-------------------------- MODULE RowBufferProofs --------------------------
(* Theorems about RowBuffer, for every number of columns, size of a batch, *)
(* number of rows and choice of faults.                                    *)
EXTENDS RowBuffer, SequenceTheorems, FiniteSetTheorems, TLAPS

-----------------------------------------------------------------------------
(* Types.                                                                  *)

LEMMA RowType == \A r : r \in Row <=> \E C \in SUBSET Column : r \in [C -> Value]
BY DEF Row

LEMMA EmptyRowType == EmptyRow \in Row
<1>1. EmptyRow \in [{} -> Value]
  BY DEF EmptyRow
<1> QED
  BY <1>1, RowType

(* The row that setColumn() leaves is a row.                               *)
LEMMA PutType ==
    ASSUME TypeOK, NEW n \in Column, NEW truncated \in BOOLEAN,
           insertedCount + 1 \in 1 .. MaxRows + 1
    PROVE  Put(n, truncated) \in Row
<1>1. PICK C \in SUBSET Column : rows[row] \in [C -> Value]
  BY RowType DEF TypeOK
<1>2. DOMAIN rows[row] \cup {n} \in SUBSET Column
  BY <1>1
<1>3. [for |-> Filling, truncated |-> truncated] \in Value
  BY DEF Filling, Value
<1>4. Put(n, truncated) \in [DOMAIN rows[row] \cup {n} -> Value]
  BY <1>1, <1>3 DEF Put
<1> QED
  BY <1>2, <1>4, RowType

LEMMA PayloadType ==
    ASSUME TypeOK, NEW n \in Nat
    PROVE  Payload(n) \in Seq(Row) /\ Len(Payload(n)) = n
<1>1. ASSUME NEW k \in 1 .. n
      PROVE  (IF k <= Batch THEN rows[k - 1] ELSE EmptyRow) \in Row
  BY EmptyRowType, RowBufferAssumption DEF TypeOK, Slot
<1> QED
  BY <1>1 DEF Payload

LEMMA AcceptsType ==
    ASSUME TypeOK, Accepts
    PROVE  /\ insertedCount' \in 0 .. MaxRows
           /\ accepted' \in Seq(Row)
BY RowBufferAssumption, AppendProperties DEF TypeOK, Accepts

LEMMA NextTypes == TypeOK /\ [Next]_vars => TypeOK'
<1> SUFFICES ASSUME TypeOK, [Next]_vars PROVE TypeOK'
  OBVIOUS
<1> USE RowBufferAssumption
<1>1. ASSUME NEW n \in 0 .. Columns + 1, SetColumnRefused(n) PROVE TypeOK'
  BY <1>1 DEF TypeOK, SetColumnRefused, Throws, Refusal, Errors, summaryVars
<1>2. ASSUME NEW n \in 0 .. Columns + 1, NEW truncated \in BOOLEAN, SetColumn(n, truncated)
      PROVE  TypeOK'
  <2>1. n \in Column
    BY <1>2 DEF SetColumn, Refusal
  <2>2. Put(n, truncated) \in Row
    BY <2>1, PutType DEF TypeOK
  <2>3. rows' \in [Slot -> Row]
    BY <1>2, <2>2 DEF TypeOK, SetColumn
  <2>4. truncatedCount' \in 0 .. MaxTruncated
    BY <1>2 DEF TypeOK, SetColumn
  <2> QED
    BY <1>2, <2>3, <2>4 DEF TypeOK, SetColumn, Throws, Returns, Errors
<1>3. CASE ResetRow
  BY <1>3, EmptyRowType DEF TypeOK, ResetRow, Throws, Returns, Errors, summaryVars
<1>4. CASE WriteRowRefused
  BY <1>4 DEF TypeOK, WriteRowRefused, Throws, Errors, summaryVars
<1>5. CASE WriteRow
  BY <1>5, AcceptsType DEF TypeOK, WriteRow, Accepts, Returns, Throws, Errors, Slot
<1>6. CASE WriteRowAndFlush
  <2>1. delivered' \in Seq(Row)
    BY <1>6, PayloadType, ConcatProperties DEF TypeOK, WriteRowAndFlush
  <2> QED
    BY <1>6, <2>1, AcceptsType DEF TypeOK, WriteRowAndFlush, Accepts, Returns, Throws, Errors, Slot
<1>7. CASE WriteRowFails
  BY <1>7, AcceptsType DEF TypeOK, WriteRowFails, Accepts, Throws, Errors
<1>8. CASE Overrun
  BY <1>8 DEF TypeOK, Overrun, summaryVars
<1>9. CASE Commit
  <2>1. delivered' \in Seq(Row)
    BY <1>9, PayloadType, ConcatProperties DEF TypeOK, Commit
  <2> QED
    BY <1>9, <2>1 DEF TypeOK, Commit, Returns, Throws, Errors, summaryVars
<1>10. CASE CommitRefused
  BY <1>10 DEF TypeOK, CommitRefused, Throws, Errors, summaryVars
<1>11. CASE CommitFails
  <2>0. delivered \o Payload(rowNumber) \in Seq(Row)
    BY PayloadType, ConcatProperties DEF TypeOK
  <2>1. delivered' \in Seq(Row)
    BY <1>11, <2>0 DEF TypeOK, CommitFails
  <2> QED
    BY <1>11, <2>1 DEF TypeOK, CommitFails, Throws, Errors, summaryVars
<1>12. CASE Rollback
  BY <1>12 DEF TypeOK, Rollback, Returns, Throws, Errors, summaryVars
<1>13. CASE UNCHANGED vars
  BY <1>13 DEF TypeOK, vars, summaryVars
<1> QED
  BY <1>1, <1>2, <1>3, <1>4, <1>5, <1>6, <1>7, <1>8, <1>9, <1>10, <1>11, <1>12,
     <1>13 DEF Next

LEMMA InitTypes == Init => TypeOK
<1> SUFFICES ASSUME Init PROVE TypeOK
  OBVIOUS
<1>1. rows \in [Slot -> Row] /\ row \in Slot
  BY RowBufferAssumption, EmptyRowType DEF Init, Slot
<1>2. thrown \in [error : Errors, column : Nat]
  BY DEF Init, Errors
<1>3. accepted \in Seq(Row) /\ delivered \in Seq(Row)
  BY EmptySeq DEF Init
<1>4. /\ rowNumber \in Nat /\ insertedCount \in 0 .. MaxRows /\ truncatedCount \in 0 .. MaxTruncated
      /\ faults \in 0 .. MaxFaults
  BY RowBufferAssumption DEF Init
<1>5. transactionClosed \in BOOLEAN /\ alive \in BOOLEAN
  BY DEF Init
<1> QED
  BY <1>1, <1>2, <1>3, <1>4, <1>5 DEF TypeOK

(* The variables keep their types: in particular row never leaves the      *)
(* array, whatever fails (src/src/util_structures.h, nextRow).             *)
THEOREM Types == Spec => []TypeOK
<1> QED
  BY InitTypes, NextTypes, PTL DEF Spec

-----------------------------------------------------------------------------
(* Until a call fails the row being filled is the one behind those that    *)
(* wait, and there is a place for it; only a rollback closes a transaction *)
(* with rows still waiting.                                                *)
InStep ==
    faults = 0 =>
        /\ row = rowNumber
        /\ ~transactionClosed => delivered \o Payload(rowNumber) = accepted
        /\ RowsSurvive

LEMMA PayloadGrows ==
    ASSUME TypeOK, row = rowNumber
    PROVE  Payload(rowNumber + 1) = Append(Payload(rowNumber), rows[row])
<1> DEFINE old == Append(Payload(rowNumber), rows[row])
<1>1. Payload(rowNumber) \in Seq(Row) /\ Len(Payload(rowNumber)) = rowNumber
  BY PayloadType DEF TypeOK
<1>2. Payload(rowNumber + 1) \in Seq(Row) /\ Len(Payload(rowNumber + 1)) = rowNumber + 1
  BY PayloadType DEF TypeOK
<1>3. rows[row] \in Row /\ rowNumber \in Nat /\ rowNumber < Batch
  BY RowBufferAssumption DEF TypeOK, Slot
<1>4. old \in Seq(Row) /\ Len(old) = rowNumber + 1
  BY <1>1, <1>3, AppendProperties
<1>5. ASSUME NEW k \in 1 .. rowNumber + 1 PROVE Payload(rowNumber + 1)[k] = old[k]
  <2>1. CASE k = rowNumber + 1
    <3>1. old[k] = rows[row]
      BY <1>1, <1>3, <2>1, AppendProperties
    <3>2. k <= Batch /\ k - 1 = row
      BY <1>3, <2>1, RowBufferAssumption
    <3> QED
      BY <1>3, <3>1, <3>2 DEF Payload
  <2>2. CASE k # rowNumber + 1
    <3>1. k \in 1 .. rowNumber
      BY <1>3, <2>2
    <3>2. old[k] = Payload(rowNumber)[k]
      BY <1>1, <1>3, <3>1, AppendProperties
    <3> QED
      BY <3>1, <3>2 DEF Payload
  <2> QED
    BY <2>1, <2>2
<1> HIDE DEF old
<1>6. Payload(rowNumber + 1) = old
  BY <1>2, <1>4, <1>5, SeqEqual
<1> QED
  BY <1>6 DEF old

(* What is sent and what waits after one more row has been accepted.       *)
LEMMA AcceptedGrows ==
    ASSUME TypeOK, row = rowNumber, delivered \o Payload(rowNumber) = accepted
    PROVE  delivered \o Payload(rowNumber + 1) = Append(accepted, rows[row])
<1>1. Payload(rowNumber) \in Seq(Row) /\ delivered \in Seq(Row) /\ rows[row] \in Row
  BY PayloadType DEF TypeOK
<1>2. delivered \o Append(Payload(rowNumber), rows[row])
        = Append(delivered \o Payload(rowNumber), rows[row])
  BY <1>1
<1> QED
  BY <1>2, PayloadGrows

LEMMA PayloadZero == Payload(0) = <<>>
BY DEF Payload

LEMMA NextInStep == TypeOK /\ TypeOK' /\ InStep /\ [Next]_vars => InStep'
<1> SUFFICES ASSUME TypeOK, TypeOK', InStep, [Next]_vars, faults' = 0 PROVE InStep'
  BY DEF InStep
<1> USE RowBufferAssumption
<1>0. /\ faults = 0 => RowsSurvive /\ row = rowNumber
      /\ faults = 0 /\ ~transactionClosed => delivered \o Payload(rowNumber) = accepted
  BY DEF InStep
<1>1. ASSUME UNCHANGED <<row, rowNumber, transactionClosed, accepted, delivered, faults>>,
             \A s \in Slot : s < rowNumber => rows'[s] = rows[s]
      PROVE  InStep'
  <2>1. Payload(rowNumber)' = Payload(rowNumber)
    <3>1. \A s \in Slot : s < rowNumber => rows'[s] = rows[s]
      BY <1>1
    <3>2. rowNumber \in Nat /\ rowNumber' = rowNumber
      BY <1>1 DEF TypeOK
    <3>3. Payload(rowNumber)' = [k \in 1 .. rowNumber |-> IF k <= Batch THEN rows'[k - 1] ELSE EmptyRow]
      BY <3>2 DEF Payload
    <3>4. \A k \in 1 .. rowNumber : k <= Batch => k - 1 \in Slot /\ k - 1 < rowNumber
      BY <3>2 DEF Slot
    <3> QED
      BY <3>1, <3>3, <3>4 DEF Payload
  <2> QED
    BY <1>1, <2>1 DEF InStep, RowsSurvive, Buffered
<1>2. ASSUME NEW n \in 0 .. Columns + 1, SetColumnRefused(n) PROVE InStep'
  BY <1>1, <1>2 DEF SetColumnRefused, summaryVars
<1>3. ASSUME NEW n \in 0 .. Columns + 1, NEW truncated \in BOOLEAN, SetColumn(n, truncated)
      PROVE  InStep'
  <2>1. row = rowNumber
    BY <1>0, <1>3 DEF SetColumn
  <2>2. \A s \in Slot : s < rowNumber => rows'[s] = rows[s]
    BY <1>3, <2>1 DEF SetColumn, TypeOK, Slot
  <2> QED
    BY <1>1, <1>3, <2>2 DEF SetColumn
<1>4. CASE ResetRow
  <2>1. row = rowNumber
    BY <1>0, <1>4 DEF ResetRow
  <2>2. \A s \in Slot : s < rowNumber => rows'[s] = rows[s]
    BY <1>4, <2>1 DEF ResetRow, TypeOK, Slot
  <2> QED
    BY <1>1, <1>4, <2>2 DEF ResetRow, summaryVars
<1>5. CASE WriteRowRefused
  BY <1>1, <1>5 DEF WriteRowRefused, summaryVars
<1>6. CASE WriteRow
  <2>1. /\ faults = 0 /\ ~transactionClosed /\ rowNumber' = rowNumber + 1 /\ row' = rowNumber'
        /\ rows' = rows /\ delivered' = delivered /\ accepted' = Append(accepted, rows[row])
    BY <1>6 DEF WriteRow, Accepts
  <2>2. delivered \o Payload(rowNumber + 1) = Append(accepted, rows[row])
    BY <1>0, <2>1, AcceptedGrows
  <2>3. Payload(rowNumber)' = Payload(rowNumber + 1)
    BY <2>1 DEF Payload
  <2> QED
    BY <2>1, <2>2, <2>3 DEF InStep, RowsSurvive, Buffered
<1>7. CASE WriteRowAndFlush
  <2>1. /\ faults = 0 /\ ~transactionClosed /\ rowNumber' = 0 /\ row' = 0
        /\ delivered' = delivered \o Payload(rowNumber + 1)
        /\ accepted' = Append(accepted, rows[row])
    BY <1>7 DEF WriteRowAndFlush, Accepts
  <2>2. delivered \o Payload(rowNumber + 1) = Append(accepted, rows[row])
    BY <1>0, <2>1, AcceptedGrows
  <2>3. Payload(rowNumber)' = <<>>
    BY <2>1 DEF Payload
  <2>4. delivered' \o <<>> = delivered'
    BY ConcatEmptySeq DEF TypeOK
  <2> QED
    BY <2>1, <2>2, <2>3, <2>4 DEF InStep, RowsSurvive, Buffered
<1>8. CASE WriteRowFails
  BY <1>8 DEF WriteRowFails, TypeOK
<1>9. CASE Overrun
  BY <1>1, <1>9 DEF Overrun, summaryVars
<1>10. CASE Commit
  <2>1. /\ faults = 0 /\ ~transactionClosed /\ transactionClosed' /\ UNCHANGED <<row, rowNumber, accepted>>
        /\ delivered' = delivered \o Payload(rowNumber)
    BY <1>10 DEF Commit, summaryVars
  <2> QED
    BY <1>0, <2>1 DEF InStep, RowsSurvive
<1>11. CASE CommitRefused
  BY <1>1, <1>11 DEF CommitRefused, summaryVars
<1>12. CASE CommitFails
  BY <1>12 DEF CommitFails, TypeOK
<1>13. CASE Rollback
  <2>1. /\ faults = 0 /\ transactionClosed' /\ UNCHANGED <<rows, row, rowNumber, accepted, delivered>>
    BY <1>13 DEF Rollback, summaryVars
  <2>2. Payload(rowNumber)' = Payload(rowNumber)
    BY <2>1 DEF Payload
  <2> QED
    BY <1>0, <2>1, <2>2 DEF InStep, RowsSurvive, Buffered
<1>14. CASE UNCHANGED vars
  BY <1>1, <1>14 DEF vars, summaryVars
<1> QED
  BY <1>2, <1>3, <1>4, <1>5, <1>6, <1>7, <1>8, <1>9, <1>10, <1>11, <1>12, <1>13,
     <1>14 DEF Next

LEMMA InitInStep == Init => InStep
<1> SUFFICES ASSUME Init PROVE InStep
  OBVIOUS
<1>1. Payload(0) = <<>> /\ <<>> \o <<>> = <<>>
  BY PayloadZero, ConcatEmptySeq, EmptySeq
<1> QED
  BY <1>1 DEF Init, InStep, RowsSurvive, Buffered

(* Whatever is set, reset and refused between them: until a call fails the *)
(* rows sent and the rows waiting are the rows accepted, in their order    *)
(* (src/src/mcsapi_bulk.cpp, writeRow and commit).                         *)
THEOREM RowsSurviveAlways == Spec => []RowsSurvive
<1>1. InStep => RowsSurvive
  BY DEF InStep, RowsSurvive
<1> QED
  BY InitTypes, NextTypes, InitInStep, NextInStep, <1>1, PTL DEF Spec

-----------------------------------------------------------------------------
(* A value in the array is of no later row than the one being filled, and  *)
(* of that one only if it is in its place.                                 *)
NoneAhead ==
    /\ Len(accepted) = insertedCount
    /\ \A s \in Slot : \A c \in DOMAIN rows[s] :
          /\ rows[s][c].for <= insertedCount + 1
          /\ rows[s][c].for = insertedCount + 1 => s = row

LEMMA SlotValue ==
    ASSUME TypeOK, NEW s \in Slot, NEW c \in DOMAIN rows[s]
    PROVE  rows[s][c].for \in Nat /\ c \in Column
<1>1. PICK C \in SUBSET Column : rows[s] \in [C -> Value]
  BY RowType DEF TypeOK
<1> QED
  BY <1>1 DEF Value

LEMMA PutValue ==
    ASSUME TypeOK, NEW n \in Column, NEW truncated \in BOOLEAN, SetColumn(n, truncated)
    PROVE  /\ DOMAIN rows'[row] = DOMAIN rows[row] \cup {n}
           /\ rows'[row][n] = [for |-> insertedCount + 1, truncated |-> truncated]
           /\ \A c \in DOMAIN rows[row] \ {n} : rows'[row][c] = rows[row][c]
           /\ \A s \in Slot \ {row} : rows'[s] = rows[s]
BY DEF SetColumn, Put, Filling, TypeOK

LEMMA AcceptsValue ==
    ASSUME TypeOK, Accepts
    PROVE  /\ Len(accepted') = Len(accepted) + 1
           /\ accepted'[Len(accepted) + 1] = rows[row]
           /\ \A k \in DOMAIN accepted : accepted'[k] = accepted[k]
           /\ DOMAIN accepted' = DOMAIN accepted \cup {Len(accepted) + 1}
           /\ DOMAIN accepted = 1 .. Len(accepted) /\ Len(accepted) \in Nat
<1>1. accepted \in Seq(Row) /\ rows[row] \in Row /\ accepted' = Append(accepted, rows[row])
  BY DEF TypeOK, Accepts
<1> QED
  BY <1>1, AppendProperties, LenProperties

LEMMA NextNoneAhead == TypeOK /\ NoneAhead /\ [Next]_vars => NoneAhead'
<1> SUFFICES ASSUME TypeOK, NoneAhead, [Next]_vars PROVE NoneAhead'
  OBVIOUS
<1> USE RowBufferAssumption
<1>0. insertedCount \in Nat
  BY DEF TypeOK
<1>1. ASSUME UNCHANGED <<rows, row, insertedCount, accepted>> PROVE NoneAhead'
  BY <1>1 DEF NoneAhead
<1>2. ASSUME Accepts PROVE NoneAhead'
  <2>1. Len(accepted') = insertedCount' /\ rows' = rows /\ insertedCount' = insertedCount + 1
    BY <1>2, AcceptsValue DEF NoneAhead, Accepts
  <2>2. \A s \in Slot : \A c \in DOMAIN rows[s] :
            rows[s][c].for \in Nat /\ rows[s][c].for <= insertedCount + 1
    BY SlotValue DEF NoneAhead
  <2> QED
    BY <1>0, <2>1, <2>2 DEF NoneAhead
<1>3. ASSUME NEW n \in 0 .. Columns + 1, NEW truncated \in BOOLEAN, SetColumn(n, truncated)
      PROVE  NoneAhead'
  <2>1. n \in Column /\ UNCHANGED <<row, insertedCount, accepted>>
    BY <1>3 DEF SetColumn, Refusal
  <2>0. /\ DOMAIN rows'[row] = DOMAIN rows[row] \cup {n}
        /\ rows'[row][n] = [for |-> insertedCount + 1, truncated |-> truncated]
        /\ \A c \in DOMAIN rows[row] \ {n} : rows'[row][c] = rows[row][c]
        /\ \A s \in Slot \ {row} : rows'[s] = rows[s]
    BY <1>3, <2>1, PutValue
  <2> SUFFICES ASSUME NEW s \in Slot, NEW c \in DOMAIN rows'[s]
               PROVE  /\ rows'[s][c].for <= insertedCount + 1
                      /\ rows'[s][c].for = insertedCount + 1 => s = row
    BY <2>1 DEF NoneAhead
  <2>2. CASE s # row
    BY <2>0, <2>2 DEF NoneAhead
  <2>3. CASE s = row /\ c = n
    BY <1>0, <2>0, <2>3
  <2>4. CASE s = row /\ c # n
    BY <2>0, <2>4 DEF NoneAhead
  <2> QED
    BY <2>2, <2>3, <2>4
<1>4. CASE ResetRow
  <2>1. UNCHANGED <<row, insertedCount, accepted>>
    BY <1>4 DEF ResetRow, summaryVars
  <2>2. \A s \in Slot : rows'[s] = rows[s] \/ DOMAIN rows'[s] = {}
    BY <1>4 DEF ResetRow, EmptyRow, TypeOK
  <2> QED
    BY <2>1, <2>2 DEF NoneAhead
<1> QED
  BY <1>1, <1>2, <1>3, <1>4 DEF Next, SetColumnRefused, WriteRowRefused, WriteRow,
     WriteRowAndFlush, WriteRowFails, Overrun, Commit, CommitRefused, CommitFails,
     Rollback, vars, summaryVars

LEMMA InitNoneAhead == Init => NoneAhead
BY EmptySeq DEF Init, NoneAhead, EmptyRow

-----------------------------------------------------------------------------
(* A row and the one that has its place in a later batch.                  *)
Apart(a, b) == \E m \in Nat : b = a + m * Batch

LEMMA ApartRemainder ==
    ASSUME NEW a \in Nat, NEW b \in Nat, Apart(a, b)
    PROVE  a <= b /\ (b - a) % Batch = 0
<1>1. PICK m \in Nat : b = a + m * Batch
  BY DEF Apart
<1>2. m * Batch \in Nat /\ (m * Batch) % Batch = 0
  BY RowBufferAssumption
<1> QED
  BY <1>1, <1>2

LEMMA ApartBetween ==
    ASSUME NEW a \in Nat, NEW b \in Nat, NEW c \in Nat, Apart(a, b), Apart(a, c), b <= c
    PROVE  Apart(b, c)
<1>1. PICK m \in Nat : b = a + m * Batch
  BY DEF Apart
<1>2. PICK n \in Nat : c = a + n * Batch
  BY DEF Apart
<1>3. m <= n
  <2>1. SUFFICES ASSUME n + 1 <= m PROVE FALSE
    OBVIOUS
  <2>2. (n + 1) * Batch <= m * Batch
    BY <2>1, RowBufferAssumption
  <2>3. n * Batch < (n + 1) * Batch
    BY RowBufferAssumption
  <2> QED
    BY <1>1, <1>2, <2>2, <2>3, RowBufferAssumption
<1>4. c = b + (n - m) * Batch
  BY <1>1, <1>2, RowBufferAssumption
<1> QED
  BY <1>3, <1>4 DEF Apart

LEMMA ApartSelf == \A a \in Nat : Apart(a, a)
<1> SUFFICES ASSUME NEW a \in Nat PROVE Apart(a, a)
  OBVIOUS
<1>1. a = a + 0 * Batch
  BY RowBufferAssumption
<1> QED
  BY <1>1 DEF Apart

LEMMA ApartNext ==
    ASSUME NEW a \in Nat, NEW b \in Nat, Apart(a, b)
    PROVE  /\ Apart(a + 1, b + 1)
           /\ a + 1 = Batch => Apart(0, b + 1)
<1>1. PICK m \in Nat : b = a + m * Batch
  BY DEF Apart
<1>2. Apart(a + 1, b + 1)
  BY <1>1, RowBufferAssumption DEF Apart
<1>3. ASSUME a + 1 = Batch PROVE Apart(0, b + 1)
  <2>1. b + 1 = 0 + (m + 1) * Batch
    BY <1>1, <1>3, RowBufferAssumption
  <2> QED
    BY <2>1 DEF Apart
<1> QED
  BY <1>2, <1>3

(* Every value is in the place of the row it was set for.                  *)
InPlace ==
    faults = 0 =>
        /\ row = rowNumber
        /\ Apart(rowNumber, insertedCount)
        /\ \A s \in Slot : \A c \in DOMAIN rows[s] : Apart(s + 1, rows[s][c].for)
        /\ \A k \in DOMAIN accepted : \A c \in DOMAIN accepted[k] :
              accepted[k][c].for \in Nat /\ Apart(accepted[k][c].for, k)

LEMMA NextInPlace ==
    TypeOK /\ NoneAhead /\ InPlace /\ [Next]_vars => InPlace'
<1> SUFFICES ASSUME TypeOK, NoneAhead, InPlace, [Next]_vars, faults' = 0 PROVE InPlace'
  BY DEF InPlace
<1> USE RowBufferAssumption
<1>0. insertedCount \in Nat /\ rowNumber \in Nat /\ row \in Nat /\ row < Batch /\ row \in Slot
  BY DEF TypeOK, Slot
<1>1. ASSUME UNCHANGED <<rows, row, rowNumber, insertedCount, accepted, faults>> PROVE InPlace'
  BY <1>1 DEF InPlace
<1>2. ASSUME Accepts, faults = 0
      PROVE  \A k \in DOMAIN accepted' : \A c \in DOMAIN accepted'[k] :
                 accepted'[k][c].for \in Nat /\ Apart(accepted'[k][c].for, k)
  <2> TAKE k \in DOMAIN accepted'
  <2> TAKE c \in DOMAIN accepted'[k]
  <2>1. CASE k \in DOMAIN accepted
    BY <1>2, <2>1, AcceptsValue DEF InPlace
  <2>2. CASE k = Len(accepted) + 1
    <3>1. c \in DOMAIN rows[row] /\ accepted'[k] = rows[row] /\ k = insertedCount + 1
      BY <1>2, <2>2, AcceptsValue DEF NoneAhead
    <3>2. rows[row][c].for \in Nat /\ rows[row][c].for <= k
      BY <1>0, <3>1, SlotValue DEF NoneAhead
    <3>3. Apart(row + 1, rows[row][c].for)
      BY <1>0, <1>2, <3>1 DEF InPlace
    <3>4. Apart(row, insertedCount)
      BY <1>2 DEF InPlace
    <3>5. Apart(row + 1, k)
      BY <1>0, <3>1, <3>4, ApartNext
    <3>6. Apart(rows[row][c].for, k)
      BY <1>0, <3>1, <3>2, <3>3, <3>5, ApartBetween
    <3> QED
      BY <3>1, <3>2, <3>6
  <2> QED
    BY <1>2, <2>1, <2>2, AcceptsValue
<1>3. CASE WriteRow
  <2>1. /\ Accepts /\ faults = 0 /\ rowNumber' = rowNumber + 1 /\ row' = rowNumber'
        /\ insertedCount' = insertedCount + 1 /\ rows' = rows
    BY <1>3 DEF WriteRow, Accepts
  <2>2. Apart(rowNumber + 1, insertedCount + 1)
    BY <1>0, <2>1, ApartNext DEF InPlace
  <2> QED
    BY <1>2, <2>1, <2>2 DEF InPlace
<1>4. CASE WriteRowAndFlush
  <2>1. /\ Accepts /\ faults = 0 /\ rowNumber' = 0 /\ row' = 0
        /\ insertedCount' = insertedCount + 1 /\ rows' = rows /\ rowNumber + 1 >= Batch
    BY <1>4 DEF WriteRowAndFlush, Accepts
  <2>2. rowNumber + 1 = Batch /\ Apart(rowNumber, insertedCount)
    BY <1>0, <2>1 DEF InPlace
  <2>3. Apart(0, insertedCount + 1)
    BY <1>0, <2>2, ApartNext
  <2> QED
    BY <1>2, <2>1, <2>3 DEF InPlace
<1>5. ASSUME NEW n \in 0 .. Columns + 1, NEW truncated \in BOOLEAN, SetColumn(n, truncated)
      PROVE  InPlace'
  <2>1. n \in Column /\ UNCHANGED <<row, rowNumber, insertedCount, accepted, faults>>
    BY <1>5 DEF SetColumn, Refusal
  <2>0. /\ DOMAIN rows'[row] = DOMAIN rows[row] \cup {n}
        /\ rows'[row][n] = [for |-> insertedCount + 1, truncated |-> truncated]
        /\ \A c \in DOMAIN rows[row] \ {n} : rows'[row][c] = rows[row][c]
        /\ \A s \in Slot \ {row} : rows'[s] = rows[s]
    BY <1>5, <2>1, PutValue
  <2> SUFFICES ASSUME NEW s \in Slot, NEW c \in DOMAIN rows'[s]
               PROVE  Apart(s + 1, rows'[s][c].for)
    BY <2>1 DEF InPlace
  <2>2. CASE s # row
    BY <1>5, <2>1, <2>0, <2>2 DEF InPlace
  <2>3. CASE s = row /\ c = n
    <3>1. Apart(row + 1, insertedCount + 1)
      BY <1>0, <2>1, ApartNext DEF InPlace
    <3> QED
      BY <2>0, <2>3, <3>1
  <2>4. CASE s = row /\ c # n
    BY <1>5, <2>1, <2>0, <2>4 DEF InPlace
  <2> QED
    BY <2>2, <2>3, <2>4
<1>6. CASE ResetRow
  <2>1. UNCHANGED <<row, rowNumber, insertedCount, accepted, faults>>
    BY <1>6 DEF ResetRow, summaryVars
  <2>2. \A s \in Slot : rows'[s] = rows[s] \/ DOMAIN rows'[s] = {}
    BY <1>6 DEF ResetRow, EmptyRow, TypeOK
  <2> QED
    BY <2>1, <2>2 DEF InPlace
<1>7. CASE WriteRowFails
  BY <1>7 DEF WriteRowFails, TypeOK
<1>8. CASE CommitFails
  BY <1>8 DEF CommitFails, TypeOK
<1> QED
  BY <1>1, <1>3, <1>4, <1>5, <1>6, <1>7, <1>8 DEF Next, SetColumnRefused,
     WriteRowRefused, Overrun, Commit, CommitRefused, Rollback, vars, summaryVars

LEMMA InitInPlace == Init => InPlace
BY EmptySeq, ApartSelf DEF Init, InPlace, EmptyRow

(* The array is never cleared, and what an earlier batch left in it is     *)
(* never taken for a value of another row than the one a whole number of   *)
(* batches before (src/src/util_structures.h, ColumnStoreTableData).       *)
THEOREM ValuesStayInPlaceAlways == Spec => []ValuesStayInPlace
<1>1. TypeOK /\ InPlace => ValuesStayInPlace
  <2> SUFFICES ASSUME TypeOK, InPlace, faults = 0,
                      NEW k \in DOMAIN accepted, NEW c \in DOMAIN accepted[k]
               PROVE  accepted[k][c].for <= k /\ (k - accepted[k][c].for) % Batch = 0
    BY DEF ValuesStayInPlace
  <2>1. k \in Nat
    BY LenProperties DEF TypeOK
  <2>2. accepted[k][c].for \in Nat /\ Apart(accepted[k][c].for, k)
    BY DEF InPlace
  <2> QED
    BY <2>1, <2>2, ApartRemainder
<1> QED
  BY InitTypes, NextTypes, InitNoneAhead, NextNoneAhead, InitInPlace, NextInPlace,
     <1>1, PTL DEF Spec

-----------------------------------------------------------------------------
(* The truncated values of the row being filled, which writeRow may still  *)
(* accept: they have been counted as well.                                 *)
Pending ==
    {v \in {Filling} \X Column :
        /\ v[2] \in DOMAIN rows[row]
        /\ rows[row][v[2]].for = Filling
        /\ rows[row][v[2]].truncated}

Counted ==
    /\ IsFiniteSet(FreshTruncations \cup Pending)
    /\ Cardinality(FreshTruncations \cup Pending) <= truncatedCount

(* As long as no more than one value is added for each that is counted.    *)
LEMMA CountedStays ==
    ASSUME Counted, UNCHANGED truncatedCount,
           (FreshTruncations \cup Pending)' \subseteq FreshTruncations \cup Pending,
           TypeOK
    PROVE  Counted'
<1> DEFINE old == FreshTruncations \cup Pending
<1> DEFINE new == (FreshTruncations \cup Pending)'
<1>1. IsFiniteSet(old) /\ Cardinality(old) <= truncatedCount /\ new \in SUBSET old
  BY DEF Counted
<1> HIDE DEF old, new
<1>2. IsFiniteSet(new) /\ Cardinality(new) <= Cardinality(old)
      /\ Cardinality(new) \in Nat /\ Cardinality(old) \in Nat
  BY <1>1, FS_Subset, FS_CardinalityType
<1>3. Cardinality(new) <= truncatedCount'
  BY <1>1, <1>2 DEF TypeOK
<1> QED
  BY <1>2, <1>3 DEF Counted, new

LEMMA CountedGrows ==
    ASSUME Counted, truncatedCount' = truncatedCount + 1, NEW x,
           (FreshTruncations \cup Pending)' \subseteq FreshTruncations \cup Pending \cup {x},
           TypeOK
    PROVE  Counted'
<1> DEFINE old == FreshTruncations \cup Pending
<1> DEFINE new == (FreshTruncations \cup Pending)'
<1>1. IsFiniteSet(old) /\ Cardinality(old) <= truncatedCount /\ new \in SUBSET (old \cup {x})
  BY DEF Counted
<1> HIDE DEF old, new
<1>2. /\ IsFiniteSet(old \cup {x}) /\ Cardinality(old) \in Nat
      /\ Cardinality(old \cup {x}) <= Cardinality(old) + 1
  <2>1. Cardinality(old) \in Nat
    BY <1>1, FS_CardinalityType
  <2>2. /\ IsFiniteSet(old \cup {x})
        /\ Cardinality(old \cup {x}) = IF x \in old THEN Cardinality(old) ELSE Cardinality(old) + 1
    BY <1>1, FS_AddElement, Zenon
  <2> QED
    BY <2>1, <2>2
<1>3. /\ IsFiniteSet(new) /\ Cardinality(new) <= Cardinality(old \cup {x})
      /\ Cardinality(new) \in Nat /\ Cardinality(old \cup {x}) \in Nat
  BY <1>1, <1>2, FS_Subset, FS_CardinalityType
<1>4. Cardinality(new) <= truncatedCount'
  BY <1>1, <1>2, <1>3 DEF TypeOK
<1> QED
  BY <1>3, <1>4 DEF Counted, new

LEMMA NextCounted == TypeOK /\ NoneAhead /\ Counted /\ [Next]_vars => Counted'
<1> SUFFICES ASSUME TypeOK, NoneAhead, Counted, [Next]_vars PROVE Counted'
  OBVIOUS
<1> USE RowBufferAssumption
<1>0. insertedCount \in Nat /\ row \in Slot
  BY DEF TypeOK
<1>1. ASSUME UNCHANGED <<rows, row, summaryVars, accepted>> PROVE Counted'
  <2>1. (FreshTruncations \cup Pending)' = FreshTruncations \cup Pending
    BY <1>1 DEF FreshTruncations, Pending, Filling, summaryVars
  <2> QED
    BY <1>1, <2>1, CountedStays DEF summaryVars
<1>2. ASSUME NEW n \in 0 .. Columns + 1, NEW truncated \in BOOLEAN, SetColumn(n, truncated)
      PROVE  Counted'
  <2>1. n \in Column /\ UNCHANGED <<row, insertedCount, accepted>>
    BY <1>2 DEF SetColumn, Refusal
  <2>2. /\ DOMAIN rows'[row] = DOMAIN rows[row] \cup {n}
        /\ rows'[row][n] = [for |-> insertedCount + 1, truncated |-> truncated]
        /\ \A c \in DOMAIN rows[row] \ {n} : rows'[row][c] = rows[row][c]
    BY <1>2, <2>1, PutValue
  <2>3. FreshTruncations' = FreshTruncations
    BY <2>1 DEF FreshTruncations
  <2>4. Filling' = Filling
    BY <2>1 DEF Filling
  <2>5. ASSUME NEW v \in Pending' PROVE v \in Pending \/ (truncated /\ v = <<Filling, n>>)
    <3>1. /\ v \in {Filling} \X Column /\ v[2] \in DOMAIN rows'[row]
          /\ rows'[row][v[2]].for = Filling /\ rows'[row][v[2]].truncated
      BY <2>1, <2>4 DEF Pending
    <3>2. CASE v[2] = n
      BY <2>2, <3>1, <3>2
    <3>3. CASE v[2] # n
      BY <2>2, <3>1, <3>3 DEF Pending
    <3> QED
      BY <3>2, <3>3
  <2>6. CASE truncated
    <3>1. truncatedCount' = truncatedCount + 1
      BY <1>2, <2>6 DEF SetColumn
    <3>2. (FreshTruncations \cup Pending)'
             \subseteq FreshTruncations \cup Pending \cup {<<Filling, n>>}
      BY <2>3, <2>5
    <3> QED
      BY <3>1, <3>2, CountedGrows
  <2>7. CASE ~truncated
    <3>1. truncatedCount' = truncatedCount
      BY <1>2, <2>7 DEF SetColumn
    <3>2. (FreshTruncations \cup Pending)' \subseteq FreshTruncations \cup Pending
      BY <2>3, <2>5, <2>7
    <3> QED
      BY <3>1, <3>2, CountedStays
  <2> QED
    BY <2>6, <2>7
<1>3. CASE ResetRow
  <2>1. UNCHANGED <<row, insertedCount, truncatedCount, accepted>>
    BY <1>3 DEF ResetRow, summaryVars
  <2>2. rows'[row] = rows[row] \/ DOMAIN rows'[row] = {}
    BY <1>0, <1>3 DEF ResetRow, EmptyRow, TypeOK
  <2>3. Pending' \subseteq Pending /\ FreshTruncations' = FreshTruncations
    BY <2>1, <2>2 DEF Pending, Filling, FreshTruncations
  <2> QED
    BY <2>1, <2>3, CountedStays
<1>4. ASSUME Accepts, NoneAhead' , row' \in Slot PROVE Counted'
  <2>1. /\ Len(accepted) = insertedCount /\ insertedCount' = insertedCount + 1
        /\ rows' = rows /\ truncatedCount' = truncatedCount
        /\ DOMAIN rows[row] = Column
    BY <1>4 DEF Accepts, NoneAhead, Complete
  <2>2. Pending' = {}
    <3> SUFFICES ASSUME NEW v \in Pending' PROVE FALSE
      OBVIOUS
    <3>1. v[2] \in DOMAIN rows[row'] /\ rows[row'][v[2]].for = insertedCount + 2
      BY <1>0, <2>1 DEF Pending, Filling
    <3>2. rows[row'][v[2]].for <= insertedCount + 1
      BY <1>4, <3>1 DEF NoneAhead
    <3> QED
      BY <1>0, <3>1, <3>2
  <2>3. ASSUME NEW v \in FreshTruncations' PROVE v \in FreshTruncations \cup Pending
    <3>1. /\ v \in (DOMAIN accepted') \X Column
          /\ accepted'[v[1]][v[2]].for = v[1] /\ accepted'[v[1]][v[2]].truncated
      BY DEF FreshTruncations
    <3>2. CASE v[1] \in DOMAIN accepted
      BY <1>4, <3>1, <3>2, AcceptsValue DEF FreshTruncations
    <3>3. CASE v[1] = insertedCount + 1
      <4>1. accepted'[v[1]] = rows[row]
        BY <1>4, <2>1, <3>3, AcceptsValue
      <4> QED
        BY <2>1, <3>1, <3>3, <4>1 DEF Pending, Filling
    <3> QED
      BY <1>4, <2>1, <3>1, <3>2, <3>3, AcceptsValue
  <2>4. (FreshTruncations \cup Pending)' \subseteq FreshTruncations \cup Pending
    BY <2>2, <2>3
  <2> QED
    BY <2>1, <2>4, CountedStays
<1>5. NoneAhead' /\ row' \in Slot
  BY NextNoneAhead, NextTypes DEF TypeOK
<1> QED
  BY <1>1, <1>2, <1>3, <1>4, <1>5 DEF Next, SetColumnRefused, WriteRowRefused, WriteRow,
     WriteRowAndFlush, WriteRowFails, Overrun, Commit, CommitRefused, CommitFails,
     Rollback, vars, summaryVars

LEMMA InitCounted == Init => Counted
<1> SUFFICES ASSUME Init PROVE Counted
  OBVIOUS
<1>1. FreshTruncations = {}
  BY EmptySeq DEF Init, FreshTruncations
<1>2. Pending = {}
  <2>1. 0 \in Slot
    BY RowBufferAssumption DEF Slot
  <2>2. DOMAIN rows[row] = {}
    BY <2>1 DEF Init, EmptyRow
  <2> QED
    BY <2>2 DEF Pending
<1>3. IsFiniteSet({}) /\ Cardinality({}) = 0
  BY FS_EmptySet
<1>4. FreshTruncations \cup Pending = {} /\ truncatedCount = 0
  BY <1>1, <1>2 DEF Init
<1> QED
  BY <1>3, <1>4 DEF Counted

(* The summary never counts fewer truncations than there are truncated     *)
(* values in the rows accepted, whether or not one of them was thrown as   *)
(* an error (src/src/mcsapi_bulk.cpp, setColumn).                          *)
THEOREM TruncationCountedAlways == Spec => []TruncationCounted
<1>1. TypeOK /\ Counted => TruncationCounted
  <2> SUFFICES ASSUME TypeOK, Counted PROVE Cardinality(FreshTruncations) <= truncatedCount
    BY DEF TruncationCounted
  <2> DEFINE all == FreshTruncations \cup Pending
  <2> DEFINE fresh == FreshTruncations
  <2>1. IsFiniteSet(all) /\ Cardinality(all) <= truncatedCount /\ fresh \in SUBSET all
    BY DEF Counted
  <2> HIDE DEF all, fresh
  <2>2. /\ Cardinality(fresh) <= Cardinality(all) /\ IsFiniteSet(fresh)
        /\ Cardinality(fresh) \in Nat /\ Cardinality(all) \in Nat
    BY <2>1, FS_Subset, FS_CardinalityType
  <2>3. Cardinality(fresh) <= truncatedCount
    BY <2>1, <2>2 DEF TypeOK
  <2> QED
    BY <2>3 DEF fresh
<1> QED
  BY InitTypes, NextTypes, InitNoneAhead, NextNoneAhead, InitCounted, NextCounted,
     <1>1, PTL DEF Spec

=============================================================================
