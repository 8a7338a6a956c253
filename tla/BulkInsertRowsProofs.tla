------------------------ MODULE BulkInsertRowsProofs ------------------------
(***************************************************************************)
(* What TLAPS proves of the rows of a bulk insert, for every number of     *)
(* PMs, rows and faults and every size of a batch: where each row is on    *)
(* its way from the buffer to a PM.                                        *)
(***************************************************************************)
EXTENDS BulkInsertProofs, SequenceTheorems

Rows == 1 .. insertedCount

IsStored(r) == \E p \in PM : \E i \in 1 .. Len(stored[p]) : stored[p][i] = r

Buffered == 1 .. rowNumber

IsBuffered(r) == \E k \in Buffered : k <= Batch /\ buf[k - 1] = r

(* Nothing has been undone, and no writeRow() has thrown.                  *)
Forward ==
    /\ failed \subseteq {"commit"}
    /\ call \notin {"rollback", "delete"}
    /\ "rolledback" \notin verdicts

(* What is in the buffer has been sent, or is never going to be.           *)
Sent == (call = "commit" /\ step \notin {"commitFlush", "spinning"}) \/ transactionClosed

Where(r) == IsStored(r) \/ (IsBuffered(r) /\ ~Sent)

(* A call that waits for ever has stopped in the middle of anything.       *)
Stuck == step = "spinning"

(* What is in the buffer is still to be sent.                              *)
Open == ~Sent /\ ~Stuck

(* Each row is on a PM or is going to be.                                  *)
Located == Forward => \A r \in Rows : Where(r)

(* row points behind the rows that are in the buffer.                      *)
Slot == ("writeRow" \notin failed /\ step \notin {"flush", "spinning"}) => rowSlot = rowNumber

(* rollback() releases its lock with its verdict.                          *)
Undone == (step = "release" /\ call # "commit") => "rolledback" \in verdicts

Smooth == failed = {} /\ Forward

StoredRows == \A p \in PM : \A i \in 1 .. Len(stored[p]) : stored[p][i] \in Rows

StoredOnce ==
    \A p, q \in PM : \A i \in 1 .. Len(stored[p]), j \in 1 .. Len(stored[q]) :
        stored[p][i] = stored[q][j] => p = q /\ i = j

BufferRows == \A k \in Buffered : buf[k - 1] \in Rows

BufferOnce == \A k, l \in Buffered : buf[k - 1] = buf[l - 1] => k = l

Apart ==
    \A k \in Buffered : \A p \in PM : \A i \in 1 .. Len(stored[p]) : stored[p][i] # buf[k - 1]

(* As long as nothing fails no row is in two places.                       *)
Unique ==
    Smooth =>
        /\ StoredRows /\ StoredOnce /\ BufferRows /\ BufferOnce
        /\ Open => Apart

(* How a transaction ends, as long as nothing fails.                       *)
OneEnd ==
    failed = {} =>
        /\ "committed" \in verdicts =>
              /\ "rolledback" \notin verdicts
              /\ Stuck \/ transactionClosed \/ (call = "commit" /\ step \in {"snapshot"} \cup SharedSteps)
        /\ "rolledback" \in verdicts =>
              Stuck \/ transactionClosed \/ (call \in {"rollback", "delete"} /\ step = "release")

(* The PMs before the current one are a batch ahead of the others.         *)
Even(n) == \A p \in PM : Len(stored[p]) = IF p <= currentPm THEN n + Batch ELSE n

RoundRobin == (Smooth /\ Open) => \E n \in Nat : Even(n)

(* writeRow() sends a batch when it is full.                               *)
FullBatch == (failed = {} /\ step = "flush") => rowNumber = Batch

RInv ==
    /\ Slot /\ Undone /\ OneEnd /\ FullBatch
    /\ Located /\ Unique /\ RoundRobin /\ Balanced

LEMMA SlotInductive == TypeOK /\ IInv /\ Slot /\ [Next]_vars => Slot'
<1> SUFFICES ASSUME TypeOK, IInv, Slot, [Next]_vars PROVE Slot'
  OBVIOUS
<1> USE ConstantsAssumption DEF TypeOK, ControlOK, IInv, CallsAndSteps,
      BufferOK, Filling, Slot, BrmCommand, WeCommand, Nothing, Goto,
      LoopTo, Return, Throw, Spin, controlVars, bufferVars, flagVars, connVars,
      serverVars
<1>1. CASE Connecting
  BY <1>1 DEF Connecting, CheckVersion, FindTable, GetTxnId, GetUniqueId,
       GetTableLock, TableLocked, LockRefused, KeepAlive, BeginTxn, SetLock,
       Verdict
<1>2. CASE FlushBatch
  BY <1>2 DEF FlushBatch, Insert
<1>3. CASE Overrun
  BY <1>3 DEF Overrun
<1>4. CASE Committing
  BY <1>4 DEF Committing, CommitFlush, NewUniqueId, BulkInsertEnd,
       BulkCommit, SetHWM, Committed, TakeSnapshot, Insert, Publish, Verdict
<1>5. CASE RollingBack
  BY <1>5 DEF RollingBack, RollbackBlocks, RollbackVersions, BulkRollback,
       Rolledback, Undo, Verdict
<1>6. CASE Finishing
  BY <1>6 DEF Finishing, GetWrittenLbids, ChangeState, RemoveMeta, CloseWe,
       ReleaseTableLock, SetLock, ForgetMeta
<1>7. CASE Application
  BY <1>7 DEF Application, Construct, WriteRow, Commit, Rollback, Delete,
       Idle
<1>8. CASE UNCHANGED vars
  BY <1>8 DEF vars
<1> QED
  BY <1>1, <1>2, <1>3, <1>4, <1>5, <1>6, <1>7, <1>8 DEF Next, Progress

LEMMA UndoneInductive == TypeOK /\ IInv /\ Undone /\ [Next]_vars => Undone'
<1> SUFFICES ASSUME TypeOK, IInv, Undone, [Next]_vars PROVE Undone'
  OBVIOUS
<1> USE ConstantsAssumption DEF TypeOK, ControlOK, IInv, CallsAndSteps,
      Calls, ConnectSteps, CommitSteps,
      RollbackSteps, SharedSteps, LoopSteps, Undone, BrmCommand, WeCommand, Nothing, Goto,
      LoopTo, Return, Throw, Spin, controlVars, bufferVars, flagVars, connVars,
      serverVars
<1>1. CASE Connecting
  BY <1>1 DEF Connecting, CheckVersion, FindTable, GetTxnId, GetUniqueId,
       GetTableLock, TableLocked, LockRefused, KeepAlive, BeginTxn, SetLock,
       Verdict
<1>2. CASE FlushBatch
  BY <1>2 DEF FlushBatch, Insert
<1>3. CASE Overrun
  BY <1>3 DEF Overrun
<1>4. CASE Committing
  BY <1>4 DEF Committing, CommitFlush, NewUniqueId, BulkInsertEnd,
       BulkCommit, SetHWM, Committed, TakeSnapshot, Insert, Publish, Verdict
<1>5. CASE RollingBack
  BY <1>5 DEF RollingBack, RollbackBlocks, RollbackVersions, BulkRollback,
       Rolledback, Undo, Verdict
<1>6. CASE Finishing
  BY <1>6 DEF Finishing, GetWrittenLbids, ChangeState, RemoveMeta, CloseWe,
       ReleaseTableLock, SetLock, ForgetMeta
<1>7. CASE Application
  BY <1>7 DEF Application, Construct, WriteRow, Commit, Rollback, Delete,
       Idle
<1>8. CASE UNCHANGED vars
  BY <1>8 DEF vars
<1> QED
  BY <1>1, <1>2, <1>3, <1>4, <1>5, <1>6, <1>7, <1>8 DEF Next, Progress

LEMMA OneEndInductive == TypeOK /\ IInv /\ OneEnd /\ [Next]_vars => OneEnd'
<1> SUFFICES ASSUME TypeOK, IInv, OneEnd, [Next]_vars PROVE OneEnd'
  OBVIOUS
<1> USE ConstantsAssumption DEF TypeOK, ControlOK, IInv, CallsAndSteps,
      Calls, ConnectSteps, CommitSteps,
      RollbackSteps, SharedSteps, LoopSteps, LockPhases, Ending, OneEnd, Stuck, BrmCommand,
      WeCommand, Nothing, Goto,
      LoopTo, Return, Throw, Spin, controlVars, bufferVars, flagVars, connVars,
      serverVars
<1>1. CASE Connecting
  BY <1>1 DEF Connecting, CheckVersion, FindTable, GetTxnId, GetUniqueId,
       GetTableLock, TableLocked, LockRefused, KeepAlive, BeginTxn, SetLock,
       Verdict
<1>2. CASE FlushBatch
  BY <1>2 DEF FlushBatch, Insert
<1>3. CASE Overrun
  BY <1>3 DEF Overrun
<1>4. CASE Committing
  BY <1>4 DEF Committing, CommitFlush, NewUniqueId, BulkInsertEnd,
       BulkCommit, SetHWM, Committed, TakeSnapshot, Insert, Publish, Verdict
<1>5. CASE RollingBack
  BY <1>5 DEF RollingBack, RollbackBlocks, RollbackVersions, BulkRollback,
       Rolledback, Undo, Verdict
<1>6. CASE Finishing
  BY <1>6 DEF Finishing, GetWrittenLbids, ChangeState, RemoveMeta, CloseWe,
       ReleaseTableLock, SetLock, ForgetMeta
<1>7. CASE Application
  BY <1>7 DEF Application, Construct, WriteRow, Commit, Rollback, Delete,
       Idle
<1>8. CASE UNCHANGED vars
  BY <1>8 DEF vars
<1> QED
  BY <1>1, <1>2, <1>3, <1>4, <1>5, <1>6, <1>7, <1>8 DEF Next, Progress

(* What has been undone stays undone.                                      *)
LEMMA ForwardBefore ==
    ASSUME TypeOK, IInv, Undone, [Next]_vars, Forward'
    PROVE  Forward
<1> USE ConstantsAssumption DEF TypeOK, ControlOK, IInv, CallsAndSteps,
      Calls, ConnectSteps, CommitSteps, RollbackSteps, SharedSteps, LoopSteps,
      Undone, Forward, BrmCommand, WeCommand, Nothing, Goto, LoopTo, Return,
      Throw, Spin, controlVars, bufferVars, flagVars, connVars, serverVars
<1>1. CASE Connecting
  BY <1>1 DEF Connecting, CheckVersion, FindTable, GetTxnId, GetUniqueId,
       GetTableLock, TableLocked, LockRefused, KeepAlive, BeginTxn, SetLock,
       Verdict
<1>2. CASE FlushBatch
  BY <1>2 DEF FlushBatch, Insert
<1>3. CASE Overrun
  BY <1>3 DEF Overrun
<1>4. CASE Committing
  BY <1>4 DEF Committing, CommitFlush, NewUniqueId, BulkInsertEnd,
       BulkCommit, SetHWM, Committed, TakeSnapshot, Insert, Publish, Verdict
<1>5. CASE RollingBack
  BY <1>5 DEF RollingBack, RollbackBlocks, RollbackVersions, BulkRollback,
       Rolledback, Undo, Verdict
<1>6. CASE Finishing
  BY <1>6 DEF Finishing, GetWrittenLbids, ChangeState, RemoveMeta, CloseWe,
       ReleaseTableLock, SetLock, ForgetMeta
<1>7. CASE Application
  BY <1>7 DEF Application, Construct, WriteRow, Commit, Rollback, Delete,
       Idle
<1>8. CASE UNCHANGED vars
  BY <1>8 DEF vars
<1> QED
  BY <1>1, <1>2, <1>3, <1>4, <1>5, <1>6, <1>7, <1>8 DEF Next, Progress

-----------------------------------------------------------------------------
(* What a step does to the rows, as long as none are undone.               *)

StaysPut ==
    /\ UNCHANGED <<buf, rowNumber, insertedCount, currentPm, stored>>
    /\ Sent' => (Sent \/ rowNumber = 0)
    /\ (failed' = {} /\ Open') => Open

Appends == stored' = [stored EXCEPT ![currentPm + 1] = stored[currentPm + 1] \o Payload]

Flushes ==
    /\ step = "flush" /\ Open /\ Open'
    /\ Appends /\ rowNumber' = 0 /\ currentPm' = NextPm
    /\ UNCHANGED <<buf, insertedCount>>

FlushesRest ==
    /\ step = "commitFlush" /\ Open
    /\ UNCHANGED <<buf, rowNumber, insertedCount, currentPm>>
    /\ \/ Appends /\ (Sent' \/ failed' # {})
       \/ UNCHANGED stored /\ ~Sent' /\ failed' # {}

LEMMA Shapes ==
    ASSUME TypeOK, IInv, Undone, [Next]_vars, Forward'
    PROVE  StaysPut \/ (WriteRow /\ Open /\ ~Sent') \/ Flushes \/ FlushesRest
<1>0. Forward
  BY ForwardBefore
<1> USE ConstantsAssumption DEF TypeOK, ControlOK, IInv, CallsAndSteps,
      Calls, ConnectSteps, CommitSteps, RollbackSteps, SharedSteps, LoopSteps,
      LockPhases, Undone, Forward, Sent, Stuck, Open, StaysPut, Flushes, FlushesRest, Appends,
      BrmCommand, WeCommand, Nothing, Goto, LoopTo, Return,
      Throw, Spin, controlVars, bufferVars, flagVars, connVars, serverVars
<1>1. CASE Connecting
  BY <1>0, <1>1 DEF Connecting, CheckVersion, FindTable, GetTxnId, GetUniqueId,
       GetTableLock, TableLocked, LockRefused, KeepAlive, BeginTxn, SetLock,
       Verdict
<1>2. CASE FlushBatch
  BY <1>0, <1>2 DEF FlushBatch, Insert
<1>3. CASE Overrun
  BY <1>0, <1>3 DEF Overrun
<1>4. CASE Committing
  BY <1>0, <1>4 DEF Committing, CommitFlush, NewUniqueId, BulkInsertEnd,
       BulkCommit, SetHWM, Committed, TakeSnapshot, Insert, Publish, Verdict
<1>5. CASE RollingBack
  BY <1>0, <1>5 DEF RollingBack, RollbackBlocks, RollbackVersions, BulkRollback,
       Rolledback, Undo, Verdict
<1>6. CASE Finishing
  BY <1>0, <1>6 DEF Finishing, GetWrittenLbids, ChangeState, RemoveMeta, CloseWe,
       ReleaseTableLock, SetLock, ForgetMeta
<1>7. CASE Application
  <2>1. CASE Construct
    BY <1>0, <2>1 DEF Construct
  <2>2. CASE WriteRow
    BY <1>0, <2>2 DEF WriteRow, Idle
  <2>3. CASE Commit
    BY <1>0, <2>3 DEF Commit, Idle, BufferOK
  <2>4. CASE Rollback \/ Delete
    BY <1>0, <2>4 DEF Rollback, Delete, Idle
  <2> QED
    BY <1>7, <2>1, <2>2, <2>3, <2>4 DEF Application
<1>8. CASE UNCHANGED vars
  BY <1>0, <1>8 DEF vars
<1> QED
  BY <1>1, <1>2, <1>3, <1>4, <1>5, <1>6, <1>7, <1>8 DEF Next, Progress

-----------------------------------------------------------------------------
LEMMA Joined ==
    ASSUME NEW S, NEW s \in Seq(S), NEW t \in Seq(S)
    PROVE  /\ Len(s) \in Nat
           /\ Len(s \o t) = Len(s) + Len(t)
           /\ \A i \in 1 .. Len(s) + Len(t) :
                 (s \o t)[i] = IF i <= Len(s) THEN s[i] ELSE t[i - Len(s)]
BY ConcatProperties

(* What a batch that was sent adds to the rows of its PM.                  *)
LEMMA Appended ==
    ASSUME TypeOK, Appends
    PROVE  /\ currentPm + 1 \in PM
           /\ \A p \in PM : p # currentPm + 1 => stored'[p] = stored[p]
           /\ Len(stored[currentPm + 1]) \in Nat
           /\ Len(stored'[currentPm + 1]) = Len(stored[currentPm + 1]) + rowNumber
           /\ \A i \in 1 .. Len(stored[currentPm + 1]) :
                 stored'[currentPm + 1][i] = stored[currentPm + 1][i]
           /\ \A k \in Buffered : k <= Batch =>
                 stored'[currentPm + 1][Len(stored[currentPm + 1]) + k] = buf[k - 1]
<1> DEFINE c == currentPm + 1
           old == stored[c]
<1>1. c \in PM /\ rowNumber \in Nat
  BY ConstantsAssumption DEF TypeOK, BufferOK, PM
<1>2. old \in Seq(Nat) /\ Payload \in Seq(Nat) /\ Len(Payload) = rowNumber
  <2>1. old \in Seq(Nat)
    BY <1>1 DEF TypeOK, ServerOK
  <2>2. Payload \in Seq(Nat)
    BY PayloadType
  <2>3. Len(Payload) = rowNumber
    BY <1>1 DEF Payload
  <2> QED
    BY <2>1, <2>2, <2>3
<1>3. /\ Len(old) \in Nat
      /\ Len(old \o Payload) = Len(old) + rowNumber
      /\ \A i \in 1 .. Len(old) + rowNumber :
            (old \o Payload)[i] = IF i <= Len(old) THEN old[i] ELSE Payload[i - Len(old)]
  BY <1>2, Joined, Zenon
<1>4. stored'[c] = old \o Payload /\ \A p \in PM : p # c => stored'[p] = stored[p]
  BY <1>1 DEF Appends, TypeOK, ServerOK
<1>5. \A i \in 1 .. Len(old) : stored'[c][i] = old[i]
  BY <1>1, <1>3, <1>4
<1>6. ASSUME NEW k \in Buffered, k <= Batch
      PROVE  stored'[c][Len(old) + k] = buf[k - 1]
  <2> DEFINE i == Len(old) + k
  <2>1. k \in 1 .. rowNumber
    BY <1>6 DEF Buffered
  <2>2. i \in 1 .. Len(old) + rowNumber /\ ~(i <= Len(old)) /\ i - Len(old) = k
    BY <1>1, <1>3, <2>1
  <2>3. stored'[c][i] = Payload[k]
    BY <2>2, <1>3, <1>4
  <2>4. Payload[k] = buf[k - 1]
    BY <2>1, <1>6 DEF Payload
  <2> QED
    BY <2>3, <2>4
<1> QED
  BY <1>1, <1>3, <1>4, <1>5, <1>6

LEMMA Reaches ==
    ASSUME TypeOK, Appends, NEW r, IsStored(r) \/ IsBuffered(r)
    PROVE  IsStored(r)'
<1> DEFINE c == currentPm + 1
<1>0. /\ c \in PM /\ Len(stored[c]) \in Nat /\ rowNumber \in Nat
      /\ Len(stored'[c]) = Len(stored[c]) + rowNumber
  BY Appended DEF TypeOK, BufferOK
<1>1. CASE IsStored(r)
  <2>0. PICK p \in PM : \E i \in 1 .. Len(stored[p]) : stored[p][i] = r
    BY <1>1 DEF IsStored
  <2>1. PICK i \in 1 .. Len(stored[p]) : stored[p][i] = r
    BY <2>0
  <2>2. CASE p = c
    <3>1. stored'[c][i] = r /\ i \in 1 .. Len(stored'[c])
      BY <2>1, <2>2, <1>0, Appended
    <3> QED
      BY <3>1, <1>0 DEF IsStored
  <2>3. CASE p # c
    BY <2>1, <2>3, Appended DEF IsStored
  <2> QED
    BY <2>2, <2>3
<1>2. CASE IsBuffered(r)
  <2>1. PICK k \in Buffered : k <= Batch /\ buf[k - 1] = r
    BY <1>2 DEF IsBuffered
  <2>2. stored'[c][Len(stored[c]) + k] = r
    BY <2>1, Appended
  <2>3. Len(stored[c]) + k \in 1 .. Len(stored'[c])
    BY <1>0 DEF Buffered
  <2> QED
    BY <1>0, <2>2, <2>3 DEF IsStored
<1> QED
  BY <1>1, <1>2

(* A row that writeRow() accepts has a place in the buffer of its own.     *)
LEMMA Accepts ==
    ASSUME TypeOK, IInv, Slot, Forward, WriteRow
    PROVE  /\ rowNumber \in Nat /\ rowNumber < Batch /\ insertedCount \in Nat
           /\ buf'[rowNumber] = insertedCount + 1 /\ insertedCount' = insertedCount + 1
           /\ rowNumber' = rowNumber + 1 /\ UNCHANGED <<stored, currentPm, failed>>
           /\ \A k \in Buffered : buf'[k - 1] = buf[k - 1]
<1>1. /\ rowNumber \in Nat /\ insertedCount \in Nat /\ Batch \in Nat
      /\ buf \in [0 .. Batch - 1 -> Nat]
  BY ConstantsAssumption DEF TypeOK, BufferOK
<1>2. step = "idle" /\ "writeRow" \notin failed
  BY DEF WriteRow, Idle, IInv, CallsAndSteps, Forward
<1>3. rowSlot = rowNumber /\ rowNumber < Batch
  BY <1>2 DEF Slot, IInv, Filling
<1>4. buf' = [buf EXCEPT ![rowNumber] = insertedCount + 1]
  BY <1>3 DEF WriteRow
<1>5. ASSUME NEW k \in Buffered
      PROVE  buf'[k - 1] = buf[k - 1]
  <2>1. k - 1 \in 0 .. Batch - 1 /\ k - 1 # rowNumber
    BY <1>1, <1>3 DEF Buffered
  <2> QED
    BY <2>1, <1>1, <1>4
<1>6. buf'[rowNumber] = insertedCount + 1
  BY <1>1, <1>3, <1>4
<1> QED
  BY <1>1, <1>3, <1>5, <1>6 DEF WriteRow, serverVars

LEMMA LocatedInductive ==
    TypeOK /\ IInv /\ Slot /\ Undone /\ Located /\ [Next]_vars => Located'
<1> SUFFICES ASSUME TypeOK, IInv, Slot, Undone, Located, [Next]_vars, Forward',
                    NEW r \in Rows'
             PROVE  Where(r)'
  BY DEF Located
<1>1. Forward /\ \A q \in Rows : Where(q)
  BY ForwardBefore DEF Located
<1>2. CASE StaysPut
  <2>1. Where(r)
    BY <1>1, <1>2 DEF StaysPut, Rows
  <2>2. IsBuffered(r) => rowNumber # 0
    BY DEF IsBuffered, Buffered
  <2> QED
    BY <1>2, <2>1, <2>2 DEF StaysPut, Where, IsStored, IsBuffered, Buffered
<1>3. CASE WriteRow /\ Open /\ ~Sent'
  <2>1. CASE r = insertedCount + 1
    <3>1. rowNumber + 1 \in Buffered' /\ rowNumber + 1 <= Batch /\ (rowNumber + 1) - 1 = rowNumber
      BY <1>1, <1>3, Accepts, ConstantsAssumption DEF Buffered
    <3>2. buf'[(rowNumber + 1) - 1] = r
      BY <2>1, <3>1, <1>1, <1>3, Accepts
    <3> QED
      BY <3>1, <3>2, <1>3 DEF Where, IsBuffered
  <2>2. CASE r # insertedCount + 1
    <3>1. r \in Rows
      BY <2>2, <1>1, <1>3, Accepts DEF Rows
    <3>2. IsStored(r) => IsStored(r)'
      BY <1>1, <1>3, Accepts DEF IsStored
    <3>3. ASSUME IsBuffered(r) PROVE IsBuffered(r)'
      <4>1. PICK k \in Buffered : k <= Batch /\ buf[k - 1] = r
        BY <3>3 DEF IsBuffered
      <4>2. buf'[k - 1] = r /\ k \in Buffered'
        BY <4>1, <1>1, <1>3, Accepts DEF Buffered
      <4> QED
        BY <4>1, <4>2 DEF IsBuffered
    <3> QED
      BY <3>1, <3>2, <3>3, <1>1, <1>3 DEF Where
  <2> QED
    BY <2>1, <2>2
<1>4. CASE Flushes
  <2>1. IsStored(r) \/ IsBuffered(r)
    BY <1>1, <1>4 DEF Flushes, Open, Rows, Where
  <2> QED
    BY <2>1, <1>4, Reaches DEF Flushes, Open, Where
<1>5. CASE FlushesRest
  <2>1. IsStored(r) \/ IsBuffered(r)
    BY <1>1, <1>5 DEF FlushesRest, Open, Rows, Where
  <2>2. CASE Appends
    BY <2>1, <2>2, Reaches DEF Where
  <2>3. CASE UNCHANGED stored /\ ~Sent'
    BY <2>1, <2>3, <1>5 DEF FlushesRest, Where, IsStored, IsBuffered, Buffered
  <2> QED
    BY <2>2, <2>3, <1>5 DEF FlushesRest
<1> QED
  BY <1>2, <1>3, <1>4, <1>5, Shapes

(* As long as nothing has failed, nothing had.                             *)
LEMMA SmoothBefore ==
    ASSUME TypeOK, IInv, Undone, [Next]_vars, Smooth'
    PROVE  Smooth
<1>1. failed' = {} => failed = {}
  <2> USE DEF BrmCommand, WeCommand, Nothing, Goto, LoopTo, Return, Throw, Spin,
       controlVars, bufferVars, flagVars, connVars, serverVars
  <2>1. CASE Connecting
    BY <2>1 DEF Connecting, CheckVersion, FindTable, GetTxnId, GetUniqueId,
       GetTableLock, TableLocked, LockRefused, KeepAlive, BeginTxn, SetLock,
       Verdict
  <2>2. CASE FlushBatch
    BY <2>2 DEF FlushBatch, Insert
  <2>3. CASE Overrun
    BY <2>3 DEF Overrun
  <2>4. CASE Committing
    BY <2>4 DEF Committing, CommitFlush, NewUniqueId, BulkInsertEnd,
       BulkCommit, SetHWM, Committed, TakeSnapshot, Insert, Publish, Verdict
  <2>5. CASE RollingBack
    BY <2>5 DEF RollingBack, RollbackBlocks, RollbackVersions, BulkRollback,
       Rolledback, Undo, Verdict
  <2>6. CASE Finishing
    BY <2>6 DEF Finishing, GetWrittenLbids, ChangeState, RemoveMeta, CloseWe,
       ReleaseTableLock, SetLock, ForgetMeta
  <2>7. CASE Application
    BY <2>7 DEF Application, Construct, WriteRow, Commit, Rollback, Delete,
       Idle
  <2>8. CASE UNCHANGED vars
    BY <2>8 DEF vars
  <2> QED
    BY <2>1, <2>2, <2>3, <2>4, <2>5, <2>6, <2>7, <2>8 DEF Next, Progress
<1> QED
  BY <1>1, ForwardBefore DEF Smooth

(* Where a row on a PM was before a batch was sent.                        *)
LEMMA CameFrom ==
    ASSUME TypeOK, Appends, rowNumber <= Batch, NEW p \in PM, NEW i \in 1 .. Len(stored'[p])
    PROVE  \/ i \in 1 .. Len(stored[p]) /\ stored'[p][i] = stored[p][i]
           \/ /\ p = currentPm + 1
              /\ \E k \in Buffered :
                    i = Len(stored[currentPm + 1]) + k /\ stored'[p][i] = buf[k - 1]
<1> DEFINE c == currentPm + 1
<1>0. /\ c \in PM /\ Len(stored[c]) \in Nat /\ rowNumber \in Nat /\ Batch \in Nat
      /\ Len(stored'[c]) = Len(stored[c]) + rowNumber
  BY Appended, ConstantsAssumption DEF TypeOK, BufferOK
<1>1. CASE p # c
  BY <1>1, Appended
<1>2. CASE p = c /\ i <= Len(stored[c])
  BY <1>0, <1>2, Appended
<1>3. CASE p = c /\ ~(i <= Len(stored[c]))
  <2> DEFINE k == i - Len(stored[c])
  <2>1. k \in Buffered /\ k <= Batch /\ i = Len(stored[c]) + k
    BY <1>0, <1>3 DEF Buffered
  <2>2. stored'[c][Len(stored[c]) + k] = buf[k - 1]
    BY <2>1, Appended
  <2> HIDE DEF k
  <2> QED
    BY <2>1, <2>2, <1>3
<1> QED
  BY <1>1, <1>2, <1>3

LEMMA UniqueInductive ==
    TypeOK /\ IInv /\ Slot /\ Undone /\ Unique /\ [Next]_vars => Unique'
<1> SUFFICES ASSUME TypeOK, IInv, Slot, Undone, Unique, [Next]_vars, Smooth'
             PROVE  (StoredRows /\ StoredOnce /\ BufferRows /\ BufferOnce /\ (Open => Apart))'
  BY DEF Unique
<1>0. Smooth /\ Smooth'
  BY SmoothBefore
<1>1. /\ Forward /\ failed = {} /\ failed' = {}
      /\ StoredRows /\ StoredOnce /\ BufferRows /\ BufferOnce /\ (Open => Apart)
  BY <1>0 DEF Smooth, Unique
<1>2. rowNumber <= Batch /\ rowNumber \in Nat
  BY <1>1 DEF IInv, Filling, TypeOK, BufferOK
<1>3. CASE StaysPut
  <2>1. /\ Buffered' = Buffered /\ Rows' = Rows /\ UNCHANGED <<buf, stored>>
        /\ Open' => Open
    BY <1>1, <1>3 DEF StaysPut, Buffered, Rows
  <2> QED
    BY <2>1, <1>1 DEF StoredRows, StoredOnce, BufferRows, BufferOnce, Apart
<1>4. CASE WriteRow /\ Open
  <2> DEFINE new == insertedCount + 1
  <2>1. /\ insertedCount \in Nat /\ UNCHANGED stored
        /\ Rows' = Rows \cup {new} /\ new \notin Rows
        /\ \A k \in Buffered' : k \in Buffered \/ k = rowNumber + 1
        /\ \A k \in Buffered : buf'[k - 1] = buf[k - 1]
        /\ buf'[(rowNumber + 1) - 1] = new
    <3>1. /\ insertedCount \in Nat /\ insertedCount' = new /\ rowNumber' = rowNumber + 1
          /\ UNCHANGED stored /\ buf'[rowNumber] = new
          /\ \A k \in Buffered : buf'[k - 1] = buf[k - 1]
      BY <1>1, <1>4, Accepts
    <3>2. Rows' = Rows \cup {new} /\ new \notin Rows
      BY <3>1 DEF Rows
    <3>3. \A k \in Buffered' : k \in Buffered \/ k = rowNumber + 1
      BY <3>1, <1>2 DEF Buffered
    <3>4. (rowNumber + 1) - 1 = rowNumber
      BY <1>2
    <3> QED
      BY <3>1, <3>2, <3>3, <3>4
  <2> HIDE DEF new
  <2>2. StoredRows'
    BY <2>1, <1>1 DEF StoredRows
  <2>3. StoredOnce'
    BY <2>1, <1>1 DEF StoredOnce
  <2>4. BufferRows'
    BY <2>1, <1>1 DEF BufferRows
  <2>5. \A k \in Buffered : buf'[k - 1] # new
    BY <2>1, <1>1 DEF BufferRows
  <2>6. BufferOnce'
    BY <2>1, <2>5, <1>1 DEF BufferOnce
  <2>7. Apart'
    <3>1. \A p \in PM : \A i \in 1 .. Len(stored[p]) : stored[p][i] # new
      BY <2>1, <1>1 DEF StoredRows
    <3> QED
      BY <2>1, <3>1, <1>1, <1>4 DEF Apart
  <2> QED
    BY <2>2, <2>3, <2>4, <2>6, <2>7
<1>5. ASSUME Appends, Open, UNCHANGED insertedCount
      PROVE  StoredRows' /\ StoredOnce'
  <2> DEFINE c == currentPm + 1
  <2>1. c \in PM /\ Len(stored[c]) \in Nat
    BY <1>5, Appended
  <2>2. StoredRows'
    <3> SUFFICES ASSUME NEW p \in PM, NEW i \in 1 .. Len(stored'[p])
                 PROVE  stored'[p][i] \in Rows
      BY <1>5 DEF StoredRows, Rows
    <3> QED
      BY <1>1, <1>2, <1>5, CameFrom DEF StoredRows, BufferRows
  <2>3. StoredOnce'
    <3> SUFFICES ASSUME NEW p \in PM, NEW q \in PM, NEW i \in 1 .. Len(stored'[p]),
                        NEW j \in 1 .. Len(stored'[q]), stored'[p][i] = stored'[q][j]
                 PROVE  p = q /\ i = j
      BY DEF StoredOnce
    <3>1. \/ i \in 1 .. Len(stored[p]) /\ stored'[p][i] = stored[p][i]
          \/ p = c /\ \E k \in Buffered : i = Len(stored[c]) + k /\ stored'[p][i] = buf[k - 1]
      BY <1>2, <1>5, CameFrom
    <3>2. \/ j \in 1 .. Len(stored[q]) /\ stored'[q][j] = stored[q][j]
          \/ q = c /\ \E k \in Buffered : j = Len(stored[c]) + k /\ stored'[q][j] = buf[k - 1]
      BY <1>2, <1>5, CameFrom
    <3> HIDE DEF c
    <3>3. CASE /\ i \in 1 .. Len(stored[p]) /\ stored'[p][i] = stored[p][i]
               /\ j \in 1 .. Len(stored[q]) /\ stored'[q][j] = stored[q][j]
      <4>1. stored[p][i] = stored[q][j]
        BY <3>3
      <4>2. i \in 1 .. Len(stored[p]) /\ j \in 1 .. Len(stored[q])
        BY <3>3
      <4>3. \A a \in 1 .. Len(stored[p]), b \in 1 .. Len(stored[q]) :
               stored[p][a] = stored[q][b] => p = q /\ a = b
        BY <1>1 DEF StoredOnce
      <4> QED
        BY <4>1, <4>2, <4>3
    <3>4. CASE /\ i \in 1 .. Len(stored[p]) /\ stored'[p][i] = stored[p][i]
               /\ \E k \in Buffered : stored'[q][j] = buf[k - 1]
      BY <3>4, <1>1, <1>5 DEF Apart
    <3>5. CASE /\ j \in 1 .. Len(stored[q]) /\ stored'[q][j] = stored[q][j]
               /\ \E k \in Buffered : stored'[p][i] = buf[k - 1]
      BY <3>5, <1>1, <1>5 DEF Apart
    <3>6. CASE /\ p = c /\ \E k \in Buffered : i = Len(stored[c]) + k /\ stored'[p][i] = buf[k - 1]
               /\ q = c /\ \E k \in Buffered : j = Len(stored[c]) + k /\ stored'[q][j] = buf[k - 1]
      <4>1. PICK k \in Buffered : i = Len(stored[c]) + k /\ stored'[p][i] = buf[k - 1]
        BY <3>6
      <4>2. PICK l \in Buffered : j = Len(stored[c]) + l /\ stored'[q][j] = buf[l - 1]
        BY <3>6
      <4>3. k = l
        BY <4>1, <4>2, <1>1 DEF BufferOnce
      <4> QED
        BY <4>1, <4>2, <4>3, <3>6
    <3> QED
      BY <3>1, <3>2, <3>3, <3>4, <3>5, <3>6
  <2> QED
    BY <2>2, <2>3
<1>6. CASE Flushes
  <2>1. StoredRows' /\ StoredOnce'
    BY <1>5, <1>6 DEF Flushes
  <2>2. \A k : k \notin Buffered'
    BY <1>6 DEF Flushes, Buffered
  <2> QED
    BY <2>1, <2>2 DEF BufferRows, BufferOnce, Apart
<1>7. CASE FlushesRest
  <2>1. Appends /\ Open /\ ~Open' /\ UNCHANGED <<insertedCount, buf, rowNumber>>
    BY <1>1, <1>7 DEF FlushesRest, Open
  <2>2. StoredRows' /\ StoredOnce'
    BY <2>1, <1>5
  <2>3. BufferRows' /\ BufferOnce'
    BY <2>1, <1>1 DEF BufferRows, BufferOnce, Buffered, Rows
  <2> QED
    BY <2>1, <2>2, <2>3
<1>8. StaysPut \/ (WriteRow /\ Open) \/ Flushes \/ FlushesRest
  BY <1>1, Shapes DEF Smooth
<1> QED
  BY <1>3, <1>4, <1>6, <1>7, <1>8

LEMMA FullBatchInductive == TypeOK /\ IInv /\ FullBatch /\ [Next]_vars => FullBatch'
<1> SUFFICES ASSUME TypeOK, IInv, FullBatch, [Next]_vars PROVE FullBatch'
  OBVIOUS
<1> USE ConstantsAssumption DEF TypeOK, ControlOK, IInv, CallsAndSteps,
      BufferOK, Filling, FullBatch, Calls,
      ConnectSteps, CommitSteps, RollbackSteps, SharedSteps, LoopSteps,
      BrmCommand, WeCommand, Nothing, Goto,
      LoopTo, Return, Throw, Spin, controlVars, bufferVars, flagVars, connVars,
      serverVars
<1>1. CASE Connecting
  BY <1>1 DEF Connecting, CheckVersion, FindTable, GetTxnId, GetUniqueId,
       GetTableLock, TableLocked, LockRefused, KeepAlive, BeginTxn, SetLock,
       Verdict
<1>2. CASE FlushBatch
  BY <1>2 DEF FlushBatch, Insert
<1>3. CASE Overrun
  BY <1>3 DEF Overrun
<1>4. CASE Committing
  BY <1>4 DEF Committing, CommitFlush, NewUniqueId, BulkInsertEnd,
       BulkCommit, SetHWM, Committed, TakeSnapshot, Insert, Publish, Verdict
<1>5. CASE RollingBack
  BY <1>5 DEF RollingBack, RollbackBlocks, RollbackVersions, BulkRollback,
       Rolledback, Undo, Verdict
<1>6. CASE Finishing
  BY <1>6 DEF Finishing, GetWrittenLbids, ChangeState, RemoveMeta, CloseWe,
       ReleaseTableLock, SetLock, ForgetMeta
<1>7. CASE Application
  BY <1>7 DEF Application, Construct, WriteRow, Commit, Rollback, Delete,
       Idle
<1>8. CASE UNCHANGED vars
  BY <1>8 DEF vars
<1> QED
  BY <1>1, <1>2, <1>3, <1>4, <1>5, <1>6, <1>7, <1>8 DEF Next, Progress


(* A full batch for the current PM takes the round a PM further.           *)
LEMMA RoundGoesOn ==
    ASSUME TypeOK, NEW n \in Nat, Even(n), Appends, rowNumber = Batch, currentPm' = NextPm
    PROVE  \E m \in Nat : Even(m)'
<1> DEFINE c == currentPm + 1
<1>1. /\ currentPm \in 0 .. NumPM - 1 /\ NumPM \in Nat \ {0} /\ Batch \in Nat
      /\ \A p \in PM : p \in 1 .. NumPM
  BY ConstantsAssumption DEF TypeOK, BufferOK, PM
<1>2. /\ c \in PM /\ Len(stored'[c]) = n + Batch
      /\ \A p \in PM : p # c => Len(stored'[p]) = IF p <= currentPm THEN n + Batch ELSE n
  <2>1. /\ c \in PM /\ \A p \in PM : p # c => stored'[p] = stored[p]
        /\ Len(stored'[c]) = Len(stored[c]) + Batch
    BY Appended
  <2>2. Len(stored[c]) = n
    <3>1. Len(stored[c]) = IF c <= currentPm THEN n + Batch ELSE n
      BY <2>1, Zenon DEF Even
    <3>2. ~(c <= currentPm)
      BY <1>1
    <3> QED
      BY <3>1, <3>2, Zenon
  <2>3. Len(stored'[c]) = n + Batch
    BY <2>1, <2>2, Zenon
  <2> QED
    BY <2>1, <2>3 DEF Even
<1>3. \A p \in PM : Len(stored'[p]) = IF p <= c THEN n + Batch ELSE n
  <2> SUFFICES ASSUME NEW p \in PM
               PROVE  Len(stored'[p]) = IF p <= c THEN n + Batch ELSE n
    OBVIOUS
  <2>1. CASE p = c
    BY <2>1, <1>1, <1>2
  <2>2. CASE p # c
    BY <2>2, <1>1, <1>2
  <2> QED
    BY <2>1, <2>2
<1>4. CASE c >= NumPM
  <2>1. currentPm' = 0 /\ n + Batch \in Nat
    BY <1>1, <1>4 DEF NextPm
  <2>2. \A p \in PM : Len(stored'[p]) = IF p <= 0 THEN (n + Batch) + Batch ELSE n + Batch
    BY <1>1, <1>3, <1>4
  <2>3. Even(n + Batch)'
    BY <2>1, <2>2 DEF Even
  <2> QED
    BY <2>1, <2>3
<1>5. CASE ~(c >= NumPM)
  <2>1. currentPm' = c
    BY <1>1, <1>5 DEF NextPm
  <2>2. Even(n)'
    BY <2>1, <1>3 DEF Even
  <2> QED
    BY <2>2
<1> QED
  BY <1>4, <1>5

LEMMA RoundRobinInductive ==
    TypeOK /\ IInv /\ Slot /\ Undone /\ FullBatch /\ RoundRobin /\ [Next]_vars => RoundRobin'
<1> SUFFICES ASSUME TypeOK, IInv, Slot, Undone, FullBatch, RoundRobin, [Next]_vars, Smooth', Open'
             PROVE  \E n \in Nat : Even(n)'
  BY DEF RoundRobin
<1>0. Smooth /\ Forward /\ Forward' /\ failed = {} /\ failed' = {}
  BY SmoothBefore DEF Smooth
<1>1. (StaysPut /\ Open) \/ (WriteRow /\ Open) \/ (Flushes /\ Open)
  BY <1>0, Shapes DEF StaysPut, Flushes, FlushesRest, Open
<1>2. PICK n \in Nat : Even(n)
  BY <1>0, <1>1 DEF RoundRobin
<1>3. CASE StaysPut \/ WriteRow
  <2>1. UNCHANGED <<stored, currentPm>>
    BY <1>0, <1>3, Accepts DEF StaysPut
  <2>2. Even(n)'
    BY <2>1, <1>2 DEF Even
  <2> QED
    BY <2>2
<1>4. CASE Flushes
  <2>1. Appends /\ rowNumber = Batch /\ currentPm' = NextPm
    BY <1>0, <1>4 DEF Flushes, FullBatch
  <2> QED
    BY <2>1, <1>2, RoundGoesOn
<1> QED
  BY <1>1, <1>3, <1>4

LEMMA EvenIsBalanced ==
    ASSUME NEW n \in Nat, NEW s, NEW c,
           \A p \in PM : Len(s[p]) = IF p <= c THEN n + Batch ELSE n
    PROVE  \A p, q \in PM : Len(s[p]) <= Len(s[q]) + Batch
<1> SUFFICES ASSUME NEW p \in PM, NEW q \in PM
             PROVE  Len(s[p]) <= Len(s[q]) + Batch
  OBVIOUS
<1>1. Batch \in Nat
  BY ConstantsAssumption
<1>2. Len(s[p]) \in {n, n + Batch} /\ Len(s[q]) \in {n, n + Batch}
  OBVIOUS
<1> QED
  BY <1>1, <1>2

LEMMA BalancedInductive ==
    /\ TypeOK /\ IInv /\ Slot /\ Undone /\ FullBatch /\ RoundRobin /\ Balanced /\ [Next]_vars
    => Balanced'
<1> SUFFICES ASSUME TypeOK, IInv, Slot, Undone, FullBatch, RoundRobin, Balanced, [Next]_vars,
                    Smooth'
             PROVE  Balanced'
  BY DEF Balanced, Smooth, Forward
<1>0. Smooth /\ Forward /\ Forward' /\ failed = {} /\ failed' = {}
  BY SmoothBefore DEF Smooth
<1>1. CASE UNCHANGED stored
  BY <1>0, <1>1 DEF Balanced, Smooth, Forward
<1>2. CASE Open'
  <2>1. PICK n \in Nat : Even(n)'
    BY <1>0, <1>2, RoundRobinInductive DEF RoundRobin
  <2>2. \A p, q \in PM : Len(stored'[p]) <= Len(stored'[q]) + Batch
    BY <2>1, EvenIsBalanced DEF Even
  <2> QED
    BY <2>2 DEF Balanced
<1>3. CASE FlushesRest
  <2>1. Appends /\ Open /\ rowNumber \in Nat /\ rowNumber <= Batch /\ Batch \in Nat
    BY <1>0, <1>3, ConstantsAssumption DEF FlushesRest, IInv, Filling, TypeOK, BufferOK
  <2>2. PICK n \in Nat : Even(n)
    BY <1>0, <2>1 DEF RoundRobin
  <2> DEFINE c == currentPm + 1
  <2>3. /\ \A p \in PM : p # c => stored'[p] = stored[p]
        /\ Len(stored'[c]) = Len(stored[c]) + rowNumber
        /\ c \in PM /\ ~(c <= currentPm)
    BY <2>1, Appended DEF TypeOK, BufferOK
  <2>4. Len(stored'[c]) = n + rowNumber
    <3>1. Len(stored[c]) = n
      BY <2>2, <2>3 DEF Even
    <3> QED
      BY <3>1, <2>3, Zenon
  <2>5. \A p \in PM : \/ Len(stored'[p]) = n + Batch
                      \/ Len(stored'[p]) = n
                      \/ Len(stored'[p]) = n + rowNumber
    <3> SUFFICES ASSUME NEW p \in PM
                 PROVE  \/ Len(stored'[p]) = n + Batch
                        \/ Len(stored'[p]) = n
                        \/ Len(stored'[p]) = n + rowNumber
      OBVIOUS
    <3>1. CASE p = c
      BY <3>1, <2>4
    <3>2. CASE p # c
      BY <3>2, <2>2, <2>3 DEF Even
    <3> QED
      BY <3>1, <3>2
  <2> SUFFICES ASSUME NEW p \in PM, NEW q \in PM
               PROVE  Len(stored'[p]) <= Len(stored'[q]) + Batch
    BY DEF Balanced
  <2>6. \A x, y : (/\ (x = n + Batch \/ x = n \/ x = n + rowNumber)
                   /\ (y = n + Batch \/ y = n \/ y = n + rowNumber)) => x <= y + Batch
    BY <2>1
  <2> QED
    BY <2>5, <2>6, Zenon
<1>4. UNCHANGED stored \/ Open' \/ FlushesRest
  BY <1>0, Shapes DEF StaysPut, WriteRow, serverVars, Flushes, Open
<1> QED
  BY <1>1, <1>2, <1>3, <1>4

-----------------------------------------------------------------------------
LEMMA InitRInv == Init => RInv
<1> SUFFICES ASSUME Init PROVE RInv
  OBVIOUS
<1> USE ConstantsAssumption
<1>1. Slot /\ Undone /\ OneEnd /\ FullBatch
  BY DEF Init, Slot, Undone, OneEnd, FullBatch
<1>2. Rows = {} /\ Buffered = {} /\ ~Sent
  BY DEF Init, Rows, Buffered, Sent
<1>3. \A p \in PM : stored[p] = <<>> /\ ~(p <= currentPm)
  BY DEF Init, PM
<1>4. Len(<<>>) = 0 /\ \A i : i \notin 1 .. Len(<<>>)
  OBVIOUS
<1>5. Located
  BY <1>2 DEF Located
<1>6. Unique
  BY <1>2, <1>3, <1>4 DEF Unique, StoredRows, StoredOnce, BufferRows, BufferOnce, Apart
<1>7. \A p \in PM : Len(stored[p]) = IF p <= currentPm THEN 0 + Batch ELSE 0
  BY <1>3, <1>4
<1>8. RoundRobin
  BY <1>7 DEF RoundRobin, Even
<1>9. Balanced
  BY <1>7, EvenIsBalanced DEF Balanced
<1> QED
  BY <1>1, <1>5, <1>6, <1>8, <1>9 DEF RInv

(* The invariant of the rows: where each of them is, on its way from the   *)
(* buffer to a PM.                                                         *)
THEOREM RowsInvariance == Spec => []RInv
<1>1. TypeOK /\ IInv /\ RInv /\ [Next]_vars => RInv'
  <2> SUFFICES ASSUME TypeOK, IInv, RInv, [Next]_vars PROVE RInv'
    OBVIOUS
  <2>1. Slot /\ Undone /\ OneEnd /\ FullBatch /\ Located /\ Unique /\ RoundRobin /\ Balanced
    BY DEF RInv
  <2>2. Slot' /\ Undone' /\ OneEnd' /\ FullBatch'
    BY <2>1, SlotInductive, UndoneInductive, OneEndInductive, FullBatchInductive
  <2>3. Located' /\ Unique'
    BY <2>1, LocatedInductive, UniqueInductive
  <2>4. RoundRobin' /\ Balanced'
    BY <2>1, RoundRobinInductive, BalancedInductive
  <2> QED
    BY <2>2, <2>3, <2>4 DEF RInv
<1> QED
  BY <1>1, InitRInv, Invariance, PTL DEF Spec

LEMMA CopyPlaces ==
    ASSUME NEW r
    PROVE  /\ \A c \in Copies(r) : \E p \in PM : \E i \in 1 .. Len(stored[p]) :
                 c = <<p, i>> /\ stored[p][i] = r
           /\ \A p \in PM : \A i \in 1 .. Len(stored[p]) :
                 stored[p][i] = r => <<p, i>> \in Copies(r)
<1> DEFINE of(p) == {<<p, k>> : k \in {i \in 1 .. Len(stored[p]) : stored[p][i] = r}}
<1>1. \A c : c \in Copies(r) <=> \E p \in PM : c \in of(p)
  BY DEF Copies
<1>2. \A p \in PM : \A c : c \in of(p) <=>
         \E i \in 1 .. Len(stored[p]) : c = <<p, i>> /\ stored[p][i] = r
  OBVIOUS
<1> HIDE DEF of
<1> QED
  BY <1>1, <1>2

(* A commit() that failed and was repeated loses no row: it sends the rows *)
(* of its batch again, as it keeps them until it has succeeded.            *)
THEOREM NoRowLostAlways == Spec => []NoRowLost
<1>1. TypeOK /\ IInv /\ RInv => NoRowLost
  <2> SUFFICES ASSUME TypeOK, IInv, RInv, transactionClosed, verdicts = {"committed"},
                      failed \subseteq {"commit"}, NEW r \in 1 .. insertedCount
               PROVE  Copies(r) # {}
    BY DEF NoRowLost
  <2>1. call \notin {"rollback", "delete"}
    BY DEF IInv, CallsAndSteps, Calls
  <2>2. Forward /\ Sent
    BY <2>1 DEF Forward, Sent
  <2>3. IsStored(r)
    BY <2>2 DEF RInv, Located, Rows, Where
  <2> QED
    BY <2>3, CopyPlaces DEF IsStored
<1> QED
  BY <1>1, Invariance, RowsInvariance, PTL

(* A call that comes to wait for ever changes nothing of what it has done. *)
LEMMA StuckKeeps ==
    ASSUME IInv, [Next]_vars, Stuck'
    PROVE  UNCHANGED <<failed, insertedCount, stored, verdicts>>
<1> USE DEF IInv, CallsAndSteps, Stuck, BrmCommand, WeCommand, Nothing, Goto, LoopTo, Return, Throw, Spin,
      controlVars, bufferVars, flagVars, connVars, serverVars
<1>1. CASE Connecting
  BY <1>1 DEF Connecting, CheckVersion, FindTable, GetTxnId, GetUniqueId,
       GetTableLock, TableLocked, LockRefused, KeepAlive, BeginTxn, SetLock,
       Verdict
<1>2. CASE FlushBatch
  BY <1>2 DEF FlushBatch, Insert
<1>3. CASE Overrun
  BY <1>3 DEF Overrun
<1>4. CASE Committing
  BY <1>4 DEF Committing, CommitFlush, NewUniqueId, BulkInsertEnd,
       BulkCommit, SetHWM, Committed, TakeSnapshot, Insert, Publish, Verdict
<1>5. CASE RollingBack
  BY <1>5 DEF RollingBack, RollbackBlocks, RollbackVersions, BulkRollback,
       Rolledback, Undo, Verdict
<1>6. CASE Finishing
  BY <1>6 DEF Finishing, GetWrittenLbids, ChangeState, RemoveMeta, CloseWe,
       ReleaseTableLock, SetLock, ForgetMeta
<1>7. CASE Application
  BY <1>7 DEF Application, Construct, WriteRow, Commit, Rollback, Delete,
       Idle
<1>8. CASE UNCHANGED vars
  BY <1>8 DEF vars
<1> QED
  BY <1>1, <1>2, <1>3, <1>4, <1>5, <1>6, <1>7, <1>8 DEF Next, Progress

(* Every row is on a PM, once, and nothing else is.                        *)
Complete ==
    ("committed" \in verdicts /\ failed = {})
       => StoredRows /\ StoredOnce /\ \A r \in Rows : IsStored(r)

(* A transaction that commits after calls that all returned has each row   *)
(* once, and nothing that is not a row.                                    *)
THEOREM CommittedOnceAlways == Spec => []CommittedOnce
<1>1. TypeOK /\ IInv /\ RInv /\ ~Stuck => Complete
  <2> SUFFICES ASSUME TypeOK, IInv, RInv, ~Stuck, "committed" \in verdicts, failed = {}
               PROVE  StoredRows /\ StoredOnce /\ \A r \in Rows : IsStored(r)
    BY DEF Complete
  <2>1. /\ "rolledback" \notin verdicts
        /\ transactionClosed \/ (call = "commit" /\ step \in {"snapshot"} \cup SharedSteps)
    BY Zenon DEF RInv, OneEnd
  <2>2. call \notin {"rollback", "delete"}
    BY <2>1 DEF IInv, CallsAndSteps, Calls
  <2>3. Smooth /\ Sent
    BY <2>1, <2>2 DEF Smooth, Forward, Sent, SharedSteps
  <2> QED
    BY <2>3 DEF RInv, Unique, Located, Where, Smooth
<1>2. Init => Complete
  BY DEF Init, Complete
<1>3. Complete /\ IInv /\ [Next]_vars /\ Stuck' => Complete'
  <2> SUFFICES ASSUME Complete, IInv, [Next]_vars, Stuck' PROVE Complete'
    OBVIOUS
  <2>1. UNCHANGED <<failed, insertedCount, stored, verdicts>>
    BY StuckKeeps
  <2>2. UNCHANGED <<StoredRows, StoredOnce, Rows>>
    BY <2>1 DEF StoredRows, StoredOnce, Rows
  <2>3. \A r : IsStored(r) => IsStored(r)'
    BY <2>1 DEF IsStored
  <2> QED
    BY <2>1, <2>2, <2>3 DEF Complete
<1>4. Complete => CommittedOnce
  <2> SUFFICES ASSUME Complete, "committed" \in verdicts, failed = {}
               PROVE  /\ \A r \in 1 .. insertedCount : \E c \in Copies(r) : Copies(r) = {c}
                      /\ Copies(Garbage) = {}
    BY DEF CommittedOnce
  <2>4. StoredRows /\ StoredOnce /\ \A r \in Rows : IsStored(r)
    BY DEF Complete
  <2>5. ASSUME NEW r \in 1 .. insertedCount
        PROVE  \E c \in Copies(r) : Copies(r) = {c}
    <3>1. PICK p \in PM : \E i \in 1 .. Len(stored[p]) : stored[p][i] = r
      BY <2>4 DEF IsStored, Rows
    <3>2. PICK i \in 1 .. Len(stored[p]) : stored[p][i] = r
      BY <3>1
    <3>3. <<p, i>> \in Copies(r)
      BY <3>2, CopyPlaces
    <3>4. \A c \in Copies(r) : c = <<p, i>>
      <4> SUFFICES ASSUME NEW c \in Copies(r) PROVE c = <<p, i>>
        OBVIOUS
      <4>1. PICK q \in PM : \E j \in 1 .. Len(stored[q]) : c = <<q, j>> /\ stored[q][j] = r
        BY CopyPlaces
      <4>2. PICK j \in 1 .. Len(stored[q]) : c = <<q, j>> /\ stored[q][j] = r
        BY <4>1
      <4>3. \A a \in 1 .. Len(stored[q]), b \in 1 .. Len(stored[p]) :
               stored[q][a] = stored[p][b] => q = p /\ a = b
        BY <2>4 DEF StoredOnce
      <4>4. stored[q][j] = stored[p][i]
        BY <3>2, <4>2
      <4>5. q = p /\ j = i
        BY <4>3, <4>4
      <4> QED
        BY <4>2, <4>5
    <3> QED
      BY <3>3, <3>4
  <2>6. Copies(Garbage) = {}
    <3>1. \A p \in PM : \A i \in 1 .. Len(stored[p]) : stored[p][i] # Garbage
      BY <2>4 DEF StoredRows, Rows, Garbage
    <3> QED
      BY <3>1, CopyPlaces
  <2> QED
    BY <2>5, <2>6
<1> QED
  BY <1>1, <1>2, <1>3, <1>4, Invariance, RowsInvariance, PTL DEF Spec

(* As long as nothing fails, no PM has been sent more than a batch more    *)
(* than another.                                                           *)
THEOREM BalancedAlways == Spec => []Balanced
<1>1. RInv => Balanced
  BY DEF RInv
<1> QED
  BY <1>1, RowsInvariance, PTL

=============================================================================
