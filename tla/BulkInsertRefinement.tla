------------------------ MODULE BulkInsertRefinement ------------------------
(***************************************************************************)
(* What TLAPS proves of a bulk insert whose commands are all answered: it  *)
(* is the transaction of BulkTransaction.                                  *)
(***************************************************************************)
EXTENDS MCBulkInsert, BulkInsertRowsProofs, FiniteSetTheorems

(* Only the constructor throws, and no connection is broken or waited for  *)
(* for ever.                                                               *)
Answered ==
    /\ brmConn # "broken" /\ WeReachable
    /\ step # "spinning"
    /\ failed \subseteq {"construct"}
    /\ failed # {} => obj = "failed"

(* What there is of the transaction while the object is constructed.       *)
Opening ==
    /\ obj = "unborn" => insertedCount = 0 /\ verdicts = {}
    /\ (obj = "unborn" /\ step \in {"idle", "version", "table", "txnId"}) => txn = "none"
    /\ (obj = "alive" \/ step \in {"uniqueId", "getLock", "refused", "keepAlive"}) => txn = "open"

LEMMA AnsweredInductive ==
    ASSUME Faults = {}, TypeOK, IInv, Answered, [Next]_vars
    PROVE  Answered'
<1> USE ConstantsAssumption DEF TypeOK, ControlOK, IInv, CallsAndSteps, Calls,
      ConnectSteps, CommitSteps, RollbackSteps, SharedSteps, LoopSteps, Answered,
      LinkOK, WeReachable, ConnStatus, Fault, BrmCommand, WeCommand, Nothing, Goto, LoopTo,
      Return, Throw, Spin, controlVars, bufferVars, flagVars, connVars, serverVars
<1>1. CASE Connecting
  BY <1>1 DEF Connecting, CheckVersion, FindTable, GetTxnId, GetUniqueId,
       GetTableLock, TableLocked, LockRefused, KeepAlive, BeginTxn, SetLock,
       Verdict
<1>2. CASE FlushBatch
  BY <1>2 DEF FlushBatch, Insert
<1>3. CASE Overrun
  BY <1>3 DEF Overrun
<1>4. CASE Committing
  BY <1>4 DEF Committing, CommitFlush, NewUniqueId, BulkInsertEnd,
       BulkCommit, SetHWM, Committed, TakeSnapshot, Insert, Publish, Verdict
<1>5. CASE RollingBack
  BY <1>5 DEF RollingBack, RollbackBlocks, RollbackVersions, BulkRollback,
       Rolledback, Undo, Verdict
<1>6. CASE Finishing
  BY <1>6 DEF Finishing, GetWrittenLbids, ChangeState, RemoveMeta, CloseWe,
       ReleaseTableLock, SetLock, ForgetMeta
<1>7. CASE Application
  BY <1>7 DEF Application, Construct, WriteRow, Commit, Rollback, Delete,
       Idle
<1>8. CASE UNCHANGED vars
  BY <1>8 DEF vars
<1> QED
  BY <1>1, <1>2, <1>3, <1>4, <1>5, <1>6, <1>7, <1>8 DEF Next, Progress

LEMMA OpeningInductive ==
    ASSUME Faults = {}, TypeOK, IInv, Answered, Opening, [Next]_vars
    PROVE  Opening'
<1> USE ConstantsAssumption DEF TypeOK, ControlOK, IInv, CallsAndSteps, Calls,
      ConnectSteps, CommitSteps, RollbackSteps, SharedSteps, LoopSteps, Answered,
      Opening, Fault, BrmCommand, WeCommand, Nothing, Goto, LoopTo,
      Return, Throw, Spin, controlVars, bufferVars, flagVars, connVars, serverVars
<1>1. CASE Connecting
  BY <1>1 DEF Connecting, CheckVersion, FindTable, GetTxnId, GetUniqueId,
       GetTableLock, TableLocked, LockRefused, KeepAlive, BeginTxn, SetLock,
       Verdict
<1>2. CASE FlushBatch
  BY <1>2 DEF FlushBatch, Insert
<1>3. CASE Overrun
  BY <1>3 DEF Overrun
<1>4. CASE Committing
  BY <1>4 DEF Committing, CommitFlush, NewUniqueId, BulkInsertEnd,
       BulkCommit, SetHWM, Committed, TakeSnapshot, Insert, Publish, Verdict
<1>5. CASE RollingBack
  BY <1>5 DEF RollingBack, RollbackBlocks, RollbackVersions, BulkRollback,
       Rolledback, Undo, Verdict
<1>6. CASE Finishing
  BY <1>6 DEF Finishing, GetWrittenLbids, ChangeState, RemoveMeta, CloseWe,
       ReleaseTableLock, SetLock, ForgetMeta
<1>7. CASE Application
  BY <1>7 DEF Application, Construct, WriteRow, Commit, Rollback, Delete,
       Idle
<1>8. CASE UNCHANGED vars
  BY <1>8 DEF vars
<1> QED
  BY <1>1, <1>2, <1>3, <1>4, <1>5, <1>6, <1>7, <1>8 DEF Next, Progress

(* What the steps of the transaction can not tell apart.                   *)
Still ==
    /\ UNCHANGED <<verdicts, txn, insertedCount>>
    /\ lock' = "free" <=> lock = "free"
    /\ verdicts = {} \/ UNCHANGED <<stored, published>>

LEMMA Stutters ==
    ASSUME Still
    PROVE  UNCHANGED Transaction!vars
<1>1. TxnState' = TxnState
  BY DEF Still, TxnState
<1>2. (lock # "free")' = (lock # "free")
  BY DEF Still
<1>3. Kept' = Kept
  <2>1. CASE verdicts = {}
    BY <2>1 DEF Still, Kept
  <2>2. CASE UNCHANGED <<stored, published>>
    BY <2>2 DEF Still, Kept, KeptCopies, Copies
  <2> QED
    BY <2>1, <2>2 DEF Still
<1>4. insertedCount' = insertedCount
  BY DEF Still
<1> QED
  BY <1>1, <1>2, <1>3, <1>4 DEF Transaction!vars

(* The transaction is undecided until the last commands of commit() and    *)
(* rollback().                                                             *)
LEMMA Undecided ==
    ASSUME TypeOK, IInv, Answered, Opening, OneEnd,
           obj = "unborn" \/ (obj = "alive" /\ ~transactionClosed),
           step \notin SharedSteps \cup {"snapshot"} \/ (step # "release" /\ call # "commit")
    PROVE  verdicts = {}
<1>1. CASE obj = "unborn"
  BY <1>1 DEF Opening
<1>2. CASE obj = "alive" /\ ~transactionClosed
  <2>1. failed = {}
    BY <1>2 DEF Answered
  <2>2. "committed" \notin verdicts /\ "rolledback" \notin verdicts
    BY <1>2, <2>1 DEF OneEnd, Stuck, Answered, SharedSteps, IInv, CallsAndSteps, CommitSteps
  <2> QED
    BY <2>2 DEF TypeOK, ServerOK
<1> QED
  BY <1>1, <1>2

LEMMA StillSteps ==
    ASSUME Faults = {}, TypeOK, IInv, Answered, Opening, OneEnd, [Next]_vars
    PROVE  \/ Still
           \/ GetTxnId \/ GetTableLock \/ WriteRow \/ LockRefused
           \/ Committed \/ Rolledback \/ ReleaseTableLock
<1> USE DEF Fault, BrmCommand, WeCommand, Nothing, bufferVars, serverVars, Still
<1>1. \/ obj # "alive" \/ transactionClosed
      \/ step \in SharedSteps \cup {"snapshot"} /\ (step = "release" \/ call = "commit")
      \/ verdicts = {}
  BY Undecided
<1>2. (obj = "alive" /\ ~transactionClosed) => lock # "free"
  BY DEF Answered, IInv, LockPhases, LockHeldWhileOpen
<1>3. /\ step \in CommitSteps \cup RollbackSteps \cup SharedSteps \cup {"flush"}
            => obj = "alive" /\ ~transactionClosed
      /\ step \in CommitSteps => call = "commit"
      /\ step \in RollbackSteps => call \in {"rollback", "delete"}
  BY DEF IInv, CallsAndSteps, Calls
<1> USE DEF CommitSteps, RollbackSteps, SharedSteps
<1>4. CASE Connecting
  BY <1>4 DEF Connecting, CheckVersion, FindTable, GetUniqueId, TableLocked, KeepAlive
<1>5. CASE FlushBatch
  BY <1>1, <1>3, <1>5 DEF FlushBatch, Insert
<1>6. CASE Overrun
  BY <1>6 DEF Overrun
<1>7. CASE Committing
  BY <1>1, <1>3, <1>7 DEF Committing, CommitFlush, NewUniqueId, BulkInsertEnd,
       BulkCommit, SetHWM, TakeSnapshot, Insert, Publish
<1>8. CASE RollingBack
  BY <1>1, <1>3, <1>8 DEF RollingBack, RollbackBlocks, RollbackVersions, BulkRollback, Undo
<1>9. CASE Finishing
  BY <1>2, <1>3, <1>9 DEF Finishing, GetWrittenLbids, ChangeState, RemoveMeta, CloseWe,
       SetLock, ForgetMeta
<1>10. CASE Application
  BY <1>10 DEF Application, Construct, Commit, Rollback, Delete
<1>11. CASE UNCHANGED vars
  BY <1>11 DEF vars
<1> QED
  BY <1>4, <1>5, <1>6, <1>7, <1>8, <1>9, <1>10, <1>11 DEF Next, Progress

(* The steps that the transaction takes, one lemma for each.               *)

LEMMA Begins ==
    ASSUME Faults = {}, IInv, Answered, Opening, GetTxnId
    PROVE  Transaction!Begin
<1>1. obj = "unborn" /\ call = "construct"
  BY DEF GetTxnId, IInv, CallsAndSteps, ConnectSteps
<1>2. verdicts = {} /\ txn = "none"
  BY <1>1 DEF Opening, GetTxnId
<1>3. txn' = "open" /\ UNCHANGED <<lock, verdicts, insertedCount>>
  BY DEF GetTxnId, BrmCommand, Fault, BeginTxn, Answered, bufferVars
<1> QED
  BY <1>2, <1>3 DEF Transaction!Begin, TxnState, Kept

LEMMA Locks ==
    ASSUME Faults = {}, IInv, Answered, Opening, GetTableLock
    PROVE  Transaction!Lock
<1>1. obj = "unborn" /\ call = "construct"
  BY DEF GetTableLock, IInv, CallsAndSteps, ConnectSteps
<1>2. verdicts = {} /\ insertedCount = 0 /\ txn = "open" /\ lock = "free"
  BY <1>1 DEF Opening, GetTableLock, IInv, LockPhases
<1>3. lock' = "loading" /\ UNCHANGED <<txn, verdicts, insertedCount>>
  BY DEF GetTableLock, BrmCommand, Fault, SetLock, Answered, bufferVars
<1> QED
  BY <1>2, <1>3 DEF Transaction!Lock, TxnState, Kept

LEMMA AcceptsRow ==
    ASSUME Faults = {}, TypeOK, IInv, Answered, Opening, OneEnd, WriteRow
    PROVE  Transaction!Accept
<1>1. obj = "alive" /\ ~transactionClosed /\ call = "none" /\ step = "idle"
  BY DEF WriteRow, Idle, IInv, CallsAndSteps
<1>2. verdicts = {} /\ txn = "open"
  BY <1>1, Undecided DEF Opening, SharedSteps
<1>3. lock # "free"
  BY <1>1 DEF Answered, IInv, LockPhases, LockHeldWhileOpen
<1>4. insertedCount' = insertedCount + 1 /\ UNCHANGED <<txn, verdicts, lock>>
  BY DEF WriteRow, serverVars
<1> QED
  BY <1>2, <1>3, <1>4 DEF Transaction!Accept, TxnState, Kept

LEMMA Commits ==
    ASSUME Faults = {}, TypeOK, IInv, Answered, Opening, OneEnd, CommittedOnce', Committed
    PROVE  Transaction!Commit
<1>1. obj = "alive" /\ ~transactionClosed /\ call = "commit" /\ step = "committed"
  BY DEF Committed, IInv, CallsAndSteps, CommitSteps, Calls
<1>2. verdicts = {} /\ txn = "open"
  BY <1>1, Undecided DEF Opening, SharedSteps
<1>3. lock # "free"
  BY <1>1 DEF Answered, IInv, LockPhases, LockHeldWhileOpen
<1>4. /\ verdicts' = {"committed"}
      /\ UNCHANGED <<txn, lock, stored, published, insertedCount, failed>>
  BY <1>2 DEF Committed, BrmCommand, Fault, Verdict, Answered, bufferVars, Goto
<1>5. failed' = {}
  BY <1>1, <1>4 DEF Answered
<1>6. \A r \in 1 .. insertedCount : \E c \in Copies(r) : Copies(r) = {c}
  BY <1>4, <1>5 DEF CommittedOnce, Copies
<1>7. \A p \in PM : published[p] = Len(stored[p])
  BY <1>1 DEF IInv, Publishing, Covered
<1>8. ASSUME NEW r \in 1 .. insertedCount
      PROVE  Cardinality(KeptCopies(r)') = 1
  <2>1. PICK c \in Copies(r) : Copies(r) = {c}
    BY <1>6
  <2>2. c[2] <= published[c[1]]
    <3>1. PICK p \in PM : \E i \in 1 .. Len(stored[p]) : c = <<p, i>> /\ stored[p][i] = r
      BY CopyPlaces
    <3>2. PICK i \in 1 .. Len(stored[p]) : c = <<p, i>> /\ stored[p][i] = r
      BY <3>1
    <3>3. c[2] = i /\ c[1] = p
      BY <3>2
    <3>4. published[p] = Len(stored[p])
      BY <1>7
    <3>5. published[p] \in Nat
      BY DEF TypeOK, ServerOK
    <3> QED
      BY <3>3, <3>4, <3>5
  <2>3. KeptCopies(r)' = {d \in Copies(r) : d[2] <= published[d[1]]}
    BY <1>4 DEF KeptCopies, Copies
  <2>4. KeptCopies(r)' = {c}
    BY <2>1, <2>2, <2>3
  <2> QED
    BY <2>4, FS_Singleton
<1>9. Kept' = [r \in 1 .. insertedCount |-> 1]
  BY <1>4, <1>8 DEF Kept
<1> QED
  BY <1>2, <1>3, <1>4, <1>9 DEF Transaction!Commit, TxnState

LEMMA Aborts ==
    ASSUME Faults = {}, TypeOK, IInv, Answered, Opening, OneEnd, LockRefused \/ Rolledback
    PROVE  Transaction!Abort
<1>1. verdicts = {} /\ txn = "open"
  <2>1. CASE LockRefused
    BY <2>1 DEF LockRefused, IInv, CallsAndSteps, ConnectSteps, Opening
  <2>2. CASE Rolledback
    <3>1. obj = "alive" /\ ~transactionClosed /\ step = "rolledback"
      BY <2>2 DEF Rolledback, IInv, CallsAndSteps, RollbackSteps, Calls
    <3> QED
      BY <3>1, Undecided DEF Opening, SharedSteps
  <2> QED
    BY <2>1, <2>2
<1>2. /\ verdicts' = {"rolledback"}
      /\ UNCHANGED <<txn, lock, stored, published, insertedCount>>
  BY <1>1 DEF LockRefused, Rolledback, BrmCommand, Fault, Verdict, Answered, bufferVars
<1>3. ASSUME NEW r \in 1 .. insertedCount
      PROVE  Cardinality(KeptCopies(r)') = 0
  <2>1. CASE LockRefused
    <3>1. insertedCount = 0
      BY <2>1 DEF LockRefused, IInv, CallsAndSteps, ConnectSteps, Opening
    <3> QED
      BY <3>1
  <2>2. CASE Rolledback
    <3>1. \A p \in PM : stored[p] = <<>>
      BY <1>1, <2>2 DEF Rolledback, IInv, Erasing, Erased
    <3>2. Copies(r) = {}
      BY <3>1, CopyPlaces
    <3>3. KeptCopies(r)' = {}
      BY <1>2, <3>2 DEF KeptCopies, Copies
    <3> QED
      BY <3>3, FS_EmptySet
  <2> QED
    BY <2>1, <2>2
<1>4. Kept' = [r \in 1 .. insertedCount |-> 0]
  BY <1>2, <1>3 DEF Kept
<1> QED
  BY <1>1, <1>2, <1>4 DEF Transaction!Abort, TxnState

LEMMA Releases ==
    ASSUME Faults = {}, TypeOK, IInv, Answered, ReleaseTableLock
    PROVE  Transaction!Release
<1>1. obj = "alive" /\ ~transactionClosed /\ step = "release"
  BY DEF ReleaseTableLock, IInv, CallsAndSteps, SharedSteps, Calls
<1>2. verdicts # {} /\ lock # "free"
  BY <1>1 DEF Answered, IInv, LockPhases, LockHeldWhileOpen, Ending
<1>3. lock' = "free" /\ UNCHANGED <<txn, verdicts, stored, published, insertedCount>>
  BY DEF ReleaseTableLock, BrmCommand, Fault, SetLock, Answered, bufferVars
<1>4. "committed" \in verdicts \/ "rolledback" \in verdicts
  BY <1>2 DEF TypeOK, ServerOK
<1>5. Kept' = Kept
  BY <1>3 DEF Kept, KeptCopies, Copies
<1> QED
  BY <1>2, <1>3, <1>4, <1>5 DEF Transaction!Release, TxnState

LEMMA StepMaps ==
    ASSUME Faults = {}, TypeOK, IInv, OneEnd, Answered, Opening, CommittedOnce', [Next]_vars
    PROVE  [Transaction!Next]_(Transaction!vars)
<1>1. \/ Still
      \/ GetTxnId \/ GetTableLock \/ WriteRow \/ LockRefused
      \/ Committed \/ Rolledback \/ ReleaseTableLock
  BY StillSteps
<1>2. CASE Still
  BY <1>2, Stutters
<1>3. CASE GetTxnId
  BY <1>3, Begins DEF Transaction!Next
<1>4. CASE GetTableLock
  BY <1>4, Locks DEF Transaction!Next
<1>5. CASE WriteRow
  BY <1>5, AcceptsRow DEF Transaction!Next
<1>6. CASE Committed
  BY <1>6, Commits DEF Transaction!Next
<1>7. CASE LockRefused \/ Rolledback
  BY <1>7, Aborts DEF Transaction!Next
<1>8. CASE ReleaseTableLock
  BY <1>8, Releases DEF Transaction!Next
<1> QED
  BY <1>1, <1>2, <1>3, <1>4, <1>5, <1>6, <1>7, <1>8

(* As long as no command fails, only the constructor throws, and the       *)
(* transaction has its ID and no verdict while rows are accepted.          *)
THEOREM Uninterrupted == ASSUME Faults = {} PROVE Spec => [](Answered /\ Opening)
<1>1. Init => Answered /\ Opening
  BY DEF Init, Answered, Opening, WeReachable
<1>2. TypeOK /\ IInv /\ (Answered /\ Opening) /\ [Next]_vars => (Answered /\ Opening)'
  BY AnsweredInductive, OpeningInductive
<1> QED
  BY <1>1, <1>2, Invariance, PTL DEF Spec

(* Where no command fails, a bulk insert is a single transaction of all    *)
(* the rows it accepts, under the table lock, for every number of PMs and  *)
(* rows and every size of a batch.                                         *)
THEOREM Implements == ASSUME Faults = {} PROVE Spec => ImplementsTransaction
<1>1. Init => Transaction!Init
  BY DEF Init, Transaction!Init, TxnState, Kept
<1>2. /\ TypeOK /\ IInv /\ RInv /\ Answered /\ Opening /\ CommittedOnce' /\ [Next]_vars
      => [Transaction!Next]_(Transaction!vars)
  BY StepMaps DEF RInv
<1> QED
  BY <1>1, <1>2, Invariance, RowsInvariance, CommittedOnceAlways, Uninterrupted, PTL
     DEF Spec, ImplementsTransaction, Transaction!Spec

=============================================================================
