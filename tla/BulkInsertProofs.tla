-------------------------- MODULE BulkInsertProofs --------------------------
(* Theorems about BulkInsert, for every number of PMs, batch size and      *)
(* choice of faults.                                                       *)
EXTENDS BulkInsert, SequenceTheorems, TLAPS

-----------------------------------------------------------------------------
(* Types.  The parts of TypeOK are kept one at a time: by what leaves them *)
(* alone, by the moves of the control, by the effects on the servers.      *)

LEMMA Untouched ==
    ASSUME TypeOK
    PROVE  /\ UNCHANGED controlVars => ControlOK'
           /\ UNCHANGED bufferVars => BufferOK'
           /\ UNCHANGED flagVars => FlagOK'
           /\ UNCHANGED serverVars => ServerOK'
           /\ UNCHANGED <<connVars, faults, ends>> => LinkOK'
BY DEF TypeOK, ControlOK, BufferOK, FlagOK, ServerOK, LinkOK, controlVars,
       bufferVars, flagVars, serverVars, connVars

LEMMA ControlMoves ==
    ASSUME TypeOK
    PROVE  /\ Throw => ControlOK'
           /\ Return => ControlOK'
           /\ Spin => ControlOK'
           /\ \A s \in Steps : Goto(s) => ControlOK'
           /\ \A s, d \in Steps : LoopTo(s, d) => ControlOK'
<1>1. "idle" \in Steps /\ "spinning" \in Steps /\ 1 \in PM
  BY ConstantsAssumption DEF Steps, PM
<1>2. Throw => ControlOK'
  BY <1>1 DEF TypeOK, ControlOK, Throw
<1>3. Return => ControlOK'
  BY <1>1 DEF TypeOK, ControlOK, Return
<1>4. ASSUME NEW s \in Steps, Goto(s) PROVE ControlOK'
  BY <1>4 DEF TypeOK, ControlOK, Goto
<1>5. ASSUME NEW s \in Steps, NEW d \in Steps, LoopTo(s, d) PROVE ControlOK'
  <2>1. at < NumPM => at + 1 \in PM
    BY ConstantsAssumption DEF TypeOK, ControlOK, PM
  <2> QED
    BY <1>1, <1>5, <2>1 DEF TypeOK, ControlOK, LoopTo
<1>6. Spin => ControlOK'
  BY <1>1 DEF TypeOK, ControlOK, Spin
<1> QED
  BY <1>2, <1>3, <1>4, <1>5, <1>6

LEMMA PayloadType == TypeOK => Payload \in Seq(Nat)
<1> SUFFICES ASSUME TypeOK PROVE Payload \in Seq(Nat)
  OBVIOUS
<1>1. ASSUME NEW k \in 1 .. rowNumber
      PROVE  (IF k <= Batch THEN buf[k - 1] ELSE Garbage) \in Nat
  BY <1>1, ConstantsAssumption DEF TypeOK, BufferOK, Garbage
<1>2. rowNumber \in Nat
  BY DEF TypeOK, BufferOK
<1> QED
  BY <1>1, <1>2 DEF Payload

LEMMA ServerEffects ==
    ASSUME TypeOK
    PROVE  /\ Nothing => ServerOK'
           /\ BeginTxn => ServerOK'
           /\ \A s \in {"free", "loading", "cleanup"} : SetLock(s) => ServerOK'
           /\ \A v \in {"committed", "rolledback"} : Verdict(v) => ServerOK'
           /\ \A p \in PM : Insert(p) => ServerOK'
           /\ \A p \in PM : Publish(p) => ServerOK'
           /\ \A p \in PM : Undo(p) => ServerOK'
           /\ \A p \in PM : ForgetMeta(p) => ServerOK'
<1>0. Nothing => ServerOK'
  BY Untouched DEF Nothing
<1> USE DEF TypeOK, ServerOK
<1>1. BeginTxn => ServerOK'
  BY DEF BeginTxn
<1>2. ASSUME NEW s \in {"free", "loading", "cleanup"}, SetLock(s) PROVE ServerOK'
  BY <1>2 DEF SetLock
<1>3. ASSUME NEW v \in {"committed", "rolledback"}, Verdict(v) PROVE ServerOK'
  BY <1>3 DEF Verdict
<1>4. ASSUME NEW p \in PM, Insert(p) PROVE ServerOK'
  <2>1. stored[p] \o Payload \in Seq(Nat)
    BY PayloadType, ConcatProperties
  <2> QED
    BY <1>4, <2>1 DEF Insert
<1>5. ASSUME NEW p \in PM, Publish(p) PROVE ServerOK'
  <2>1. Len(stored[p]) \in Nat
    BY LenProperties
  <2> QED
    BY <1>5, <2>1 DEF Publish
<1>6. ASSUME NEW p \in PM, Undo(p) PROVE ServerOK'
  <2>1. <<>> \in Seq(Nat)
    OBVIOUS
  <2> QED
    BY <1>6, <2>1 DEF Undo
<1>7. ASSUME NEW p \in PM, ForgetMeta(p) PROVE ServerOK'
  BY <1>7 DEF ForgetMeta
<1> QED
  BY <1>0, <1>1, <1>2, <1>3, <1>4, <1>5, <1>6, <1>7

LEMMA BrmLink ==
    ASSUME TypeOK, UNCHANGED ends, NEW ACTION effect, NEW ACTION after,
           NEW ACTION onError, BrmCommand(effect, after, onError)
    PROVE  LinkOK'
BY ConstantsAssumption DEF TypeOK, LinkOK, BrmCommand, Fault, ConnStatus

LEMMA WeLink ==
    ASSUME TypeOK, UNCHANGED ends, NEW p \in PM, NEW ACTION effect, NEW ACTION after,
           NEW ACTION onError, WeCommand(p, effect, after, onError)
    PROVE  LinkOK'
BY ConstantsAssumption DEF TypeOK, LinkOK, WeCommand, Fault, ConnStatus

-----------------------------------------------------------------------------
(* A command leaves the servers well typed when its effect does, and the   *)
(* control when what follows success and error does.                       *)

LEMMA BrmTypes ==
    ASSUME TypeOK, UNCHANGED ends, NEW ACTION effect, NEW ACTION after,
           NEW ACTION onError, BrmCommand(effect, after, onError),
           effect => ServerOK', after => ControlOK', onError => ControlOK'
    PROVE  ControlOK' /\ ServerOK' /\ LinkOK'
BY BrmLink, ControlMoves, Untouched DEF BrmCommand

LEMMA WeTypes ==
    ASSUME TypeOK, UNCHANGED ends, NEW p \in PM, NEW ACTION effect, NEW ACTION after,
           NEW ACTION onError, WeCommand(p, effect, after, onError),
           effect => ServerOK', after => ControlOK', onError => ControlOK'
    PROVE  ControlOK' /\ ServerOK' /\ LinkOK'
BY WeLink, ControlMoves, Untouched DEF WeCommand

LEMMA StepNames ==
    {"idle", "flush", "version", "table", "txnId", "uniqueId", "getLock",
     "refused", "keepAlive", "commitFlush", "newUniqueId", "insertEnd", "lbids",
     "bulkCommit", "setHWM", "committed", "snapshot", "rbLbids", "rbBlocks",
     "rbVersions", "rbBulk", "rolledback", "changeState", "removeMeta", "close",
     "release"} \subseteq Steps
BY DEF Steps, ConnectSteps, CommitSteps, RollbackSteps, SharedSteps

LEMMA NextTypes == TypeOK /\ [Next]_vars => TypeOK'
<1> SUFFICES ASSUME TypeOK, [Next]_vars PROVE TypeOK'
  OBVIOUS
<1>0. at \in PM /\ currentPm + 1 \in PM
  BY ConstantsAssumption DEF TypeOK, ControlOK, BufferOK, PM
<1>1. CASE GetTxnId
  <2>1. ControlOK' /\ ServerOK' /\ LinkOK'
    BY <1>0, <1>1, ControlMoves, StepNames, ServerEffects, BrmTypes
       DEF GetTxnId
  <2> QED
    BY <1>1, <2>1, Untouched DEF GetTxnId, TypeOK
<1>2. CASE GetUniqueId
  <2>1. ControlOK' /\ ServerOK' /\ LinkOK'
    BY <1>0, <1>2, ControlMoves, StepNames, ServerEffects, BrmTypes
       DEF GetUniqueId
  <2> QED
    BY <1>2, <2>1, Untouched DEF GetUniqueId, TypeOK
<1>3. CASE GetTableLock
  <2>1. ControlOK' /\ ServerOK' /\ LinkOK'
    BY <1>0, <1>3, ControlMoves, StepNames, ServerEffects, BrmTypes
       DEF GetTableLock
  <2> QED
    BY <1>3, <2>1, Untouched DEF GetTableLock, TypeOK
<1>4. CASE NewUniqueId
  <2>1. ControlOK' /\ ServerOK' /\ LinkOK'
    BY <1>0, <1>4, ControlMoves, StepNames, ServerEffects, BrmTypes
       DEF NewUniqueId
  <2> QED
    BY <1>4, <2>1, Untouched DEF NewUniqueId, TypeOK
<1>5. CASE SetHWM
  <2>1. ControlOK' /\ ServerOK' /\ LinkOK'
    BY <1>0, <1>5, ControlMoves, StepNames, ServerEffects, BrmTypes
       DEF SetHWM
  <2> QED
    BY <1>5, <2>1, Untouched DEF SetHWM, TypeOK
<1>6. CASE Committed
  <2>1. ControlOK' /\ ServerOK' /\ LinkOK'
    BY <1>0, <1>6, ControlMoves, StepNames, ServerEffects, BrmTypes
       DEF Committed
  <2> QED
    BY <1>6, <2>1, Untouched DEF Committed, TypeOK
<1>7. CASE TakeSnapshot
  <2>1. ControlOK' /\ ServerOK' /\ LinkOK'
    BY <1>0, <1>7, ControlMoves, StepNames, ServerEffects, BrmTypes
       DEF TakeSnapshot
  <2> QED
    BY <1>7, <2>1, Untouched DEF TakeSnapshot, TypeOK
<1>8. CASE RollbackVersions
  <2>1. ControlOK' /\ ServerOK' /\ LinkOK'
    BY <1>0, <1>8, ControlMoves, StepNames, ServerEffects, BrmTypes
       DEF RollbackVersions
  <2> QED
    BY <1>8, <2>1, Untouched DEF RollbackVersions, TypeOK
<1>9. CASE Rolledback
  <2>1. ControlOK' /\ ServerOK' /\ LinkOK'
    BY <1>0, <1>9, ControlMoves, StepNames, ServerEffects, BrmTypes
       DEF Rolledback
  <2> QED
    BY <1>9, <2>1, Untouched DEF Rolledback, TypeOK
<1>10. CASE ChangeState
  <2>1. ControlOK' /\ ServerOK' /\ LinkOK'
    BY <1>0, <1>10, ControlMoves, StepNames, ServerEffects, BrmTypes
       DEF ChangeState
  <2> QED
    BY <1>10, <2>1, Untouched DEF ChangeState, TypeOK
<1>11. CASE KeepAlive
  <2>1. ControlOK' /\ ServerOK'
    BY <1>11, ControlMoves, StepNames, ServerEffects, Untouched
       DEF KeepAlive, WeCommand
  <2>2. LinkOK'
    BY <1>11, ConstantsAssumption DEF KeepAlive, WeCommand, Fault, TypeOK, LinkOK, ConnStatus
  <2> QED
    BY <1>11, <2>1, <2>2, Untouched DEF KeepAlive, TypeOK
<1>12. CASE CommitFlush
  <2>1. ControlOK' /\ ServerOK' /\ LinkOK'
    BY <1>0, <1>12, ControlMoves, StepNames, ServerEffects, WeTypes
       DEF CommitFlush
  <2> QED
    BY <1>12, <2>1, Untouched DEF CommitFlush, TypeOK
<1>13. CASE BulkInsertEnd
  <2>1. ControlOK' /\ ServerOK' /\ LinkOK'
    BY <1>0, <1>13, ControlMoves, StepNames, ServerEffects, WeTypes
       DEF BulkInsertEnd
  <2> QED
    BY <1>13, <2>1, Untouched DEF BulkInsertEnd, TypeOK
<1>14. CASE GetWrittenLbids
  <2>1. ControlOK' /\ ServerOK' /\ LinkOK'
    BY <1>0, <1>14, ControlMoves, StepNames, ServerEffects, WeTypes
       DEF GetWrittenLbids
  <2> QED
    BY <1>14, <2>1, Untouched DEF GetWrittenLbids, TypeOK
<1>15. CASE BulkCommit
  <2>1. ControlOK' /\ ServerOK' /\ LinkOK'
    BY <1>0, <1>15, ControlMoves, StepNames, ServerEffects, WeTypes
       DEF BulkCommit
  <2> QED
    BY <1>15, <2>1, Untouched DEF BulkCommit, TypeOK
<1>16. CASE RollbackBlocks
  <2>1. ControlOK' /\ ServerOK' /\ LinkOK'
    BY <1>0, <1>16, ControlMoves, StepNames, ServerEffects, WeTypes
       DEF RollbackBlocks
  <2> QED
    BY <1>16, <2>1, Untouched DEF RollbackBlocks, TypeOK
<1>17. CASE BulkRollback
  <2>1. ControlOK' /\ ServerOK' /\ LinkOK'
    BY <1>0, <1>17, ControlMoves, StepNames, ServerEffects, WeTypes
       DEF BulkRollback
  <2> QED
    BY <1>17, <2>1, Untouched DEF BulkRollback, TypeOK
<1>18. CASE RemoveMeta
  <2>1. ControlOK' /\ ServerOK' /\ LinkOK'
    BY <1>0, <1>18, ControlMoves, StepNames, ServerEffects, WeTypes
       DEF RemoveMeta
  <2> QED
    BY <1>18, <2>1, Untouched DEF RemoveMeta, TypeOK
<1>19. CASE Construct
  <2>1. ControlOK'
    BY <1>19, StepNames DEF Construct, Idle, TypeOK, ControlOK, Calls
  <2>2. LinkOK'
    BY <1>19, ConstantsAssumption DEF Construct, TypeOK, LinkOK, connVars
  <2> QED
    BY <1>19, <2>1, <2>2, Untouched DEF Construct, TypeOK
<1>20. CASE Commit
  <2>1. ControlOK'
    BY <1>20, StepNames DEF Commit, Idle, TypeOK, ControlOK, Calls
  <2>2. LinkOK'
    BY <1>20, ConstantsAssumption DEF Commit, TypeOK, LinkOK, connVars
  <2> QED
    BY <1>20, <2>1, <2>2, Untouched DEF Commit, TypeOK
<1>21. CASE Rollback
  <2>1. ControlOK'
    BY <1>21, StepNames DEF Rollback, Idle, TypeOK, ControlOK, Calls
  <2>2. LinkOK'
    BY <1>21, ConstantsAssumption DEF Rollback, TypeOK, LinkOK, connVars
  <2> QED
    BY <1>21, <2>1, <2>2, Untouched DEF Rollback, TypeOK
<1>22. CASE CheckVersion
  <2>1. ControlOK'
    BY <1>22, ControlMoves, StepNames DEF CheckVersion
  <2>2. LinkOK'
    BY <1>22, ConstantsAssumption DEF CheckVersion, Fault, TypeOK, LinkOK, connVars
  <2> QED
    BY <1>22, <2>1, <2>2, Untouched DEF CheckVersion, TypeOK
<1>23. CASE FindTable
  <2>1. ControlOK'
    BY <1>23, ControlMoves, StepNames DEF FindTable
  <2>2. LinkOK'
    BY <1>23, ConstantsAssumption DEF FindTable, Fault, TypeOK, LinkOK, connVars
  <2> QED
    BY <1>23, <2>1, <2>2, Untouched DEF FindTable, TypeOK
<1>24. CASE TableLocked
  BY <1>24, ControlMoves, StepNames, Untouched DEF TableLocked, TypeOK
<1>25. CASE LockRefused
  <2>1. ControlOK' /\ ServerOK'
    BY <1>25, ControlMoves, ServerEffects, Untouched DEF LockRefused, BrmCommand
  <2>3. LinkOK'
    BY <1>25, ConstantsAssumption DEF LockRefused, BrmCommand, Fault, TypeOK, LinkOK, ConnStatus
  <2>2. FlagOK'
    BY <1>25 DEF LockRefused, BrmCommand, flagVars, TypeOK, FlagOK
  <2> QED
    BY <1>25, <2>1, <2>2, <2>3, Untouched DEF LockRefused, TypeOK
<1>26. CASE ReleaseTableLock
  <2>1. ControlOK' /\ ServerOK'
    BY <1>26, ControlMoves, ServerEffects, Untouched DEF ReleaseTableLock, BrmCommand
  <2>3. LinkOK'
    BY <1>26, ConstantsAssumption DEF ReleaseTableLock, BrmCommand, Fault, TypeOK, LinkOK, ConnStatus
  <2>2. FlagOK'
    BY <1>26 DEF ReleaseTableLock, BrmCommand, flagVars, TypeOK, FlagOK
  <2> QED
    BY <1>26, <2>1, <2>2, <2>3, Untouched DEF ReleaseTableLock, TypeOK
<1>27. CASE WriteRow
  <2>1. ControlOK'
    BY <1>27, StepNames DEF WriteRow, TypeOK, ControlOK, Calls
  <2>2. BufferOK'
    BY <1>27, ConstantsAssumption DEF WriteRow, TypeOK, BufferOK
  <2> QED
    BY <1>27, <2>1, <2>2, Untouched DEF WriteRow, TypeOK
<1>28. CASE FlushBatch
  <2>1. ControlOK' /\ ServerOK'
    BY <1>0, <1>28, ControlMoves, ServerEffects, Untouched DEF FlushBatch, WeCommand
  <2>3. LinkOK'
    BY <1>28, ConstantsAssumption DEF FlushBatch, WeCommand, Fault, TypeOK, LinkOK, ConnStatus
  <2>2. BufferOK'
    BY <1>28, ConstantsAssumption DEF FlushBatch, WeCommand, NextPm, TypeOK, BufferOK, bufferVars
  <2> QED
    BY <1>28, <2>1, <2>2, <2>3, Untouched DEF FlushBatch, TypeOK
<1>29. CASE Overrun
  <2>1. ControlOK'
    BY <1>29, StepNames DEF Overrun, TypeOK, ControlOK
  <2> QED
    BY <1>29, <2>1, Untouched DEF Overrun, TypeOK
<1>30. CASE Delete
  <2>1. ControlOK'
    BY <1>30, StepNames DEF Delete, Idle, TypeOK, ControlOK, Calls
  <2> QED
    BY <1>30, <2>1, Untouched DEF Delete, TypeOK
<1>31. CASE CloseWe
  <2>1. ControlOK'
    BY <1>31, ControlMoves, StepNames DEF CloseWe
  <2>2. LinkOK'
    BY <1>31, ConstantsAssumption DEF CloseWe, Fault, TypeOK, LinkOK, ConnStatus
  <2> QED
    BY <1>31, <2>1, <2>2, Untouched DEF CloseWe, TypeOK
<1>32. CASE UNCHANGED vars
  BY <1>32, Untouched DEF vars, TypeOK
<1> QED
  BY <1>1, <1>2, <1>3, <1>4, <1>5, <1>6, <1>7, <1>8, <1>9, <1>10, <1>11, <1>12, <1>13, <1>14, <1>15, <1>16, <1>17, <1>18, <1>19, <1>20, <1>21, <1>22, <1>23, <1>24, <1>25, <1>26, <1>27, <1>28, <1>29, <1>30, <1>31, <1>32
  DEF Next, Progress, Application, Connecting, Committing, RollingBack, Finishing

(* TypeOK holds for every number of PMs, batch size and pattern of faults. *)
THEOREM TypeCorrect == Spec => []TypeOK
<1>1. Init => TypeOK
  <2>1. Init => ControlOK
    BY ConstantsAssumption, StepNames DEF Init, ControlOK, PM
  <2>2. Init => BufferOK
    BY ConstantsAssumption DEF Init, BufferOK, Garbage
  <2>3. Init => FlagOK
    BY DEF Init, FlagOK
  <2>4. Init => ServerOK
    BY DEF Init, ServerOK
  <2>5. Init => LinkOK
    BY ConstantsAssumption DEF Init, LinkOK, ConnStatus
  <2> QED
    BY <2>1, <2>2, <2>3, <2>4, <2>5 DEF TypeOK
<1> QED
  BY <1>1, NextTypes, PTL DEF Spec

-----------------------------------------------------------------------------
(* The inductive invariant, one part at a time.  A part that names no      *)
(* server state but the lock follows phase by phase from the control.      *)

LEMMA CallsAndStepsInductive == TypeOK /\ IInv /\ [Next]_vars => CallsAndSteps'
<1> SUFFICES ASSUME TypeOK, IInv, [Next]_vars PROVE CallsAndSteps'
  OBVIOUS
<1> USE ConstantsAssumption DEF TypeOK, ControlOK, IInv, CallsAndSteps,
      Calls, ConnectSteps, CommitSteps, RollbackSteps, SharedSteps,
      LoopSteps, BrmCommand, WeCommand, Nothing, Goto, LoopTo, Return,
      Throw, Spin, controlVars, bufferVars, flagVars, connVars, serverVars
<1>1. CASE Connecting
  BY <1>1 DEF Connecting, CheckVersion, FindTable, GetTxnId, GetUniqueId,
       GetTableLock, TableLocked, LockRefused, KeepAlive, BeginTxn, SetLock,
       Verdict
<1>2. CASE FlushBatch
  BY <1>2 DEF FlushBatch, Insert
<1>3. CASE Overrun
  BY <1>3 DEF Overrun
<1>4. CASE Committing
  BY <1>4 DEF Committing, CommitFlush, NewUniqueId, BulkInsertEnd,
       BulkCommit, SetHWM, Committed, TakeSnapshot, Insert, Publish, Verdict
<1>5. CASE RollingBack
  BY <1>5 DEF RollingBack, RollbackBlocks, RollbackVersions, BulkRollback,
       Rolledback, Undo, Verdict
<1>6. CASE Finishing
  BY <1>6 DEF Finishing, GetWrittenLbids, ChangeState, RemoveMeta, CloseWe,
       ReleaseTableLock, SetLock, ForgetMeta
<1>7. CASE Application
  BY <1>7 DEF Application, Construct, WriteRow, Commit, Rollback, Delete,
       Idle
<1>8. CASE UNCHANGED vars
  BY <1>8 DEF vars
<1> QED
  BY <1>1, <1>2, <1>3, <1>4, <1>5, <1>6, <1>7, <1>8 DEF Next, Progress

LEMMA LockPhasesInductive == TypeOK /\ IInv /\ [Next]_vars => LockPhases'
<1> SUFFICES ASSUME TypeOK, IInv, [Next]_vars PROVE LockPhases'
  OBVIOUS
<1> USE ConstantsAssumption DEF TypeOK, ControlOK, IInv, LockPhases,
      CallsAndSteps, LockHeldWhileOpen, ConnectSteps, Calls, BrmCommand,
      WeCommand, Nothing, Goto, LoopTo, Return, Throw, Spin, controlVars,
      bufferVars, flagVars, connVars, serverVars
<1>1. CASE Connecting
  BY <1>1 DEF Connecting, CheckVersion, FindTable, GetTxnId, GetUniqueId,
       GetTableLock, TableLocked, LockRefused, KeepAlive, BeginTxn, SetLock,
       Verdict
<1>2. CASE FlushBatch
  BY <1>2 DEF FlushBatch, Insert
<1>3. CASE Overrun
  BY <1>3 DEF Overrun
<1>4. CASE Committing
  BY <1>4 DEF Committing, CommitFlush, NewUniqueId, BulkInsertEnd,
       BulkCommit, SetHWM, Committed, TakeSnapshot, Insert, Publish, Verdict
<1>5. CASE RollingBack
  BY <1>5 DEF RollingBack, RollbackBlocks, RollbackVersions, BulkRollback,
       Rolledback, Undo, Verdict
<1>6. CASE Finishing
  BY <1>6 DEF Finishing, GetWrittenLbids, ChangeState, RemoveMeta, CloseWe,
       ReleaseTableLock, SetLock, ForgetMeta
<1>7. CASE Application
  BY <1>7 DEF Application, Construct, WriteRow, Commit, Rollback, Delete,
       Idle
<1>8. CASE UNCHANGED vars
  BY <1>8 DEF vars
<1> QED
  BY <1>1, <1>2, <1>3, <1>4, <1>5, <1>6, <1>7, <1>8 DEF Next, Progress

LEMMA FillingInductive == TypeOK /\ IInv /\ [Next]_vars => Filling'
<1> SUFFICES ASSUME TypeOK, IInv, [Next]_vars PROVE Filling'
  OBVIOUS
<1> USE ConstantsAssumption DEF TypeOK, ControlOK, IInv, BufferOK, Filling,
      CallsAndSteps, BrmCommand, WeCommand, Nothing, Goto, LoopTo, Return,
      Throw, Spin, controlVars, bufferVars, flagVars, connVars, serverVars
<1>1. CASE Connecting
  BY <1>1 DEF Connecting, CheckVersion, FindTable, GetTxnId, GetUniqueId,
       GetTableLock, TableLocked, LockRefused, KeepAlive, BeginTxn, SetLock,
       Verdict
<1>2. CASE FlushBatch
  BY <1>2 DEF FlushBatch, Insert
<1>3. CASE Overrun
  BY <1>3 DEF Overrun
<1>4. CASE Committing
  BY <1>4 DEF Committing, CommitFlush, NewUniqueId, BulkInsertEnd,
       BulkCommit, SetHWM, Committed, TakeSnapshot, Insert, Publish, Verdict
<1>5. CASE RollingBack
  BY <1>5 DEF RollingBack, RollbackBlocks, RollbackVersions, BulkRollback,
       Rolledback, Undo, Verdict
<1>6. CASE Finishing
  BY <1>6 DEF Finishing, GetWrittenLbids, ChangeState, RemoveMeta, CloseWe,
       ReleaseTableLock, SetLock, ForgetMeta
<1>7. CASE Application
  BY <1>7 DEF Application, Construct, WriteRow, Commit, Rollback, Delete,
       Idle
<1>8. CASE UNCHANGED vars
  BY <1>8 DEF vars
<1> QED
  BY <1>1, <1>2, <1>3, <1>4, <1>5, <1>6, <1>7, <1>8 DEF Next, Progress

(* The end of a transaction: the rollback files of a PM go before the loop *)
(* passes it, and nothing but the last command closes the object.          *)
LEMMA EndingInductive == TypeOK /\ IInv /\ [Next]_vars => Ending'
<1> SUFFICES ASSUME TypeOK, IInv, [Next]_vars PROVE Ending'
  OBVIOUS
<1> USE DEF Nothing, Goto, LoopTo, Return, Throw, Spin, serverVars, flagVars
<1>1. CASE LockRefused
  <2>1. call = "construct" /\ obj = "unborn" /\ meta = {} /\ ~transactionClosed
    BY <1>1 DEF LockRefused, IInv, CallsAndSteps, LockPhases, ConnectSteps
  <2>2. step' \in {"idle", "spinning"} /\ call' # "commit" /\ meta' = {}
    BY <1>1, <2>1 DEF LockRefused, BrmCommand, Verdict
  <2>3. transactionClosed' => lock' = "free" /\ verdicts' # {}
    BY <1>1, <2>1 DEF LockRefused, BrmCommand, Verdict, IInv, LockPhases
  <2> QED
    BY <2>2, <2>3 DEF Ending, ClosedIsClean, SharedSteps
<1>2. CASE ReleaseTableLock
  <2>1. verdicts # {} /\ meta = {} /\ ~transactionClosed
    BY <1>2 DEF ReleaseTableLock, IInv, Ending, CallsAndSteps, SharedSteps, Calls
  <2>2. step' \in {"idle", "spinning"} /\ meta' = {} /\ verdicts' # {}
    BY <1>2, <2>1 DEF ReleaseTableLock, BrmCommand, SetLock
  <2>3. transactionClosed' => lock' = "free"
    BY <1>2, <2>1 DEF ReleaseTableLock, BrmCommand, SetLock
  <2> QED
    BY <2>2, <2>3 DEF Ending, ClosedIsClean, SharedSteps
<1>3. CASE ChangeState
  <2>1. call \in {"commit", "rollback", "delete"} /\ ~transactionClosed /\ at = 1
    BY <1>3 DEF ChangeState, IInv, CallsAndSteps, SharedSteps, Calls, LoopSteps
  <2>2. call = "commit" => "committed" \in verdicts
    BY <1>3 DEF ChangeState, IInv, Ending, SharedSteps
  <2>3. UNCHANGED <<meta, verdicts, transactionClosed>>
    BY <1>3 DEF ChangeState, BrmCommand, SetLock
  <2>4. \/ step' = "removeMeta" /\ UNCHANGED <<call, at>>
        \/ step' \in {"idle", "spinning"}
    BY <1>3 DEF ChangeState, BrmCommand
  <2>5. \A p \in meta : p >= 1
    BY DEF TypeOK, ServerOK, PM
  <2> QED
    BY <2>1, <2>2, <2>3, <2>4, <2>5 DEF Ending, ClosedIsClean, SharedSteps
<1>4. CASE RemoveMeta
  <2>1. call \in {"commit", "rollback", "delete"} /\ ~transactionClosed
    BY <1>4 DEF RemoveMeta, IInv, CallsAndSteps, SharedSteps, Calls, LoopSteps
  <2>2. call = "commit" => "committed" \in verdicts
    BY <1>4 DEF RemoveMeta, IInv, Ending, SharedSteps
  <2>3. UNCHANGED <<verdicts, transactionClosed>>
    BY <1>4 DEF RemoveMeta, WeCommand, ForgetMeta
  <2>4. \/ step' = "close" /\ UNCHANGED <<call, at>> /\ meta' = meta \ {at}
        \/ step' \in {"idle", "spinning"} /\ meta' \subseteq meta
    BY <1>4 DEF RemoveMeta, WeCommand, ForgetMeta
  <2>5. \A p \in meta \ {at} : p > at
    <3>1. at \in Nat /\ meta \subseteq Nat /\ \A p \in meta : p >= at
      BY <1>4, ConstantsAssumption DEF RemoveMeta, IInv, Ending, TypeOK, ControlOK, ServerOK, PM
    <3> QED BY <3>1
  <2> QED
    BY <2>1, <2>2, <2>3, <2>4, <2>5 DEF Ending, ClosedIsClean, SharedSteps
<1> USE ConstantsAssumption DEF TypeOK, ControlOK, ServerOK, PM, IInv,
      Ending, ClosedIsClean, CallsAndSteps, LockPhases, ConnectSteps,
      CommitSteps, RollbackSteps, SharedSteps, LoopSteps, Calls,
      controlVars, bufferVars, connVars
<1>5. CASE CheckVersion \/ FindTable \/ TableLocked
  BY <1>5 DEF CheckVersion, FindTable, TableLocked
<1>6. CASE GetTxnId \/ GetUniqueId \/ GetTableLock
  BY <1>6 DEF GetTxnId, BrmCommand, BeginTxn, GetUniqueId, GetTableLock,
       SetLock
<1>7. CASE KeepAlive
  BY <1>7 DEF KeepAlive, WeCommand
<1>8. CASE FlushBatch
  BY <1>8 DEF FlushBatch, WeCommand, Insert
<1>9. CASE Overrun
  BY <1>9 DEF Overrun
<1>10. CASE CommitFlush
  BY <1>10 DEF CommitFlush, WeCommand, Insert
<1>11. CASE NewUniqueId \/ BulkInsertEnd \/ BulkCommit
  BY <1>11 DEF NewUniqueId, BrmCommand, BulkInsertEnd, WeCommand, BulkCommit
<1>12. CASE SetHWM
  BY <1>12 DEF SetHWM, BrmCommand, Publish
<1>13. CASE Committed \/ TakeSnapshot
  BY <1>13 DEF Committed, BrmCommand, Verdict, TakeSnapshot
<1>14. CASE RollbackBlocks \/ RollbackVersions
  BY <1>14 DEF RollbackBlocks, WeCommand, RollbackVersions, BrmCommand
<1>15. CASE BulkRollback
  BY <1>15 DEF BulkRollback, WeCommand, Undo
<1>16. CASE Rolledback
  BY <1>16 DEF Rolledback, BrmCommand, Verdict
<1>17. CASE GetWrittenLbids
  BY <1>17 DEF GetWrittenLbids, WeCommand
<1>18. CASE CloseWe
  BY <1>18 DEF CloseWe
<1>19. CASE Construct
  BY <1>19 DEF Construct
<1>20. CASE WriteRow
  BY <1>20 DEF WriteRow
<1>21. CASE Commit
  BY <1>21 DEF Commit, Idle
<1>22. CASE Rollback
  BY <1>22 DEF Rollback, Idle
<1>23. CASE Delete
  BY <1>23 DEF Delete, Idle
<1>24. CASE UNCHANGED vars
  BY <1>24 DEF vars
<1> QED
  BY <1>1, <1>2, <1>3, <1>4, <1>5, <1>6, <1>7, <1>8, <1>9, <1>10, <1>11,
     <1>12, <1>13, <1>14, <1>15, <1>16, <1>17, <1>18, <1>19, <1>20, <1>21,
     <1>22, <1>23, <1>24 DEF Next, Progress, Application, Connecting,
     Committing, RollingBack, Finishing

(* The erasing of rollback(): weBulkRollback finds the files of every PM   *)
(* with rows, because only the end of a transaction removes them.          *)
LEMMA ErasingInductive == TypeOK /\ IInv /\ [Next]_vars => Erasing'
<1> SUFFICES ASSUME TypeOK, IInv, [Next]_vars PROVE Erasing'
  OBVIOUS
<1> USE DEF Nothing, Goto, LoopTo, Return, Throw, Spin, serverVars, flagVars
<1>1. CASE LockRefused
  <2>1. call = "construct" /\ obj = "unborn" /\ meta = {} /\ at = 1
    BY <1>1 DEF LockRefused, IInv, CallsAndSteps, LockPhases, ConnectSteps, LoopSteps
  <2>2. UNCHANGED <<stored, published, meta>> /\ step' \in {"idle", "spinning"}
    BY <1>1 DEF LockRefused, BrmCommand, Verdict
  <2>3. "committed" \notin verdicts' => "committed" \notin verdicts
    BY <1>1 DEF LockRefused, BrmCommand, Verdict
  <2>4. "committed" \notin verdicts => \A p \in PM : Erased(p)
    BY <2>1 DEF IInv, Erasing
  <2> QED
    BY <2>2, <2>3, <2>4 DEF Erasing, Erased, SharedSteps
<1>2. CASE SetHWM
  <2>1. call = "commit" /\ at \in PM /\ ~transactionClosed
    BY <1>2 DEF SetHWM, IInv, CallsAndSteps, CommitSteps, TypeOK, ControlOK, Calls
  <2>2. UNCHANGED <<stored, meta, verdicts, transactionClosed>>
    BY <1>2 DEF SetHWM, BrmCommand, Publish
  <2>3. step' \in {"insertEnd", "committed", "idle", "spinning"}
    BY <1>2 DEF SetHWM, BrmCommand
  <2>4. ASSUME NEW p \in PM, Erased(p) PROVE Erased(p)'
    BY <1>2, <2>1, <2>2, <2>4 DEF SetHWM, BrmCommand, Publish, Erased, TypeOK, ServerOK
  <2> QED
    BY <2>1, <2>2, <2>3, <2>4 DEF IInv, Erasing, SharedSteps
<1>3. CASE BulkRollback
  <2>1. call \in {"rollback", "delete"} /\ at \in PM /\ ~transactionClosed
    BY <1>3 DEF BulkRollback, IInv, CallsAndSteps, RollbackSteps, TypeOK, ControlOK, Calls
  <2>2. UNCHANGED <<meta, verdicts, transactionClosed>>
    BY <1>3 DEF BulkRollback, WeCommand, Undo
  <2>3. ASSUME NEW p \in PM, Erased(p) PROVE Erased(p)'
    BY <1>3, <2>1, <2>3 DEF BulkRollback, WeCommand, Undo, Erased, TypeOK, ServerOK
  <2>4. "committed" \notin verdicts => (\A p \in PM : p \in meta \/ Erased(p))'
    BY <2>2, <2>3 DEF IInv, Erasing
  <2>5. step' \in {"idle", "spinning"} \/ (Undo(at) /\ LoopTo("rbLbids", "changeState"))
    BY <1>3 DEF BulkRollback, WeCommand
  <2>6. ASSUME "committed" \notin verdicts, Undo(at) PROVE \A p \in PM : p <= at => Erased(p)'
    <3>1. \A p \in PM : p < at => Erased(p)
      BY <1>3, <2>6 DEF BulkRollback, IInv, Erasing
    <3>2. ASSUME NEW p \in PM, p = at PROVE Erased(p)'
      <4>1. p \in meta => Erased(p)'
        BY <2>6, <3>2 DEF Undo, Erased, TypeOK, ServerOK
      <4>2. p \notin meta => Erased(p)'
        BY <2>3, <2>6 DEF IInv, Erasing
      <4> QED
        BY <4>1, <4>2
    <3>3. \A p \in PM : p <= at => p < at \/ p = at
      BY <2>1, ConstantsAssumption DEF PM
    <3> QED
      BY <2>3, <3>1, <3>2, <3>3
  <2>7. CASE step' \in {"idle", "spinning"}
    BY <2>1, <2>2, <2>4, <2>7 DEF Erasing, SharedSteps
  <2>8. CASE Undo(at) /\ LoopTo("rbLbids", "changeState")
    <3>1. CASE at < NumPM
      <4>1. step' = "rbLbids" /\ at' = at + 1
        BY <2>8, <3>1
      <4>2. "committed" \notin verdicts => (\A p \in PM : p < at => Erased(p))'
        BY <2>1, <2>6, <2>8, <4>1 DEF PM
      <4> QED
        BY <2>1, <2>2, <2>4, <4>1, <4>2 DEF Erasing, SharedSteps
    <3>2. CASE ~(at < NumPM)
      <4>1. step' = "changeState" /\ \A p \in PM : p <= at
        BY <2>1, <2>8, <3>2, ConstantsAssumption DEF PM
      <4> QED
        BY <2>1, <2>2, <2>4, <2>6, <2>8, <4>1 DEF Erasing, SharedSteps
    <3> QED
      BY <3>1, <3>2
  <2> QED
    BY <2>5, <2>7, <2>8
<1> USE ConstantsAssumption DEF TypeOK, ControlOK, ServerOK, PM, IInv,
      Ending, Erasing, Erased, CallsAndSteps, ConnectSteps, CommitSteps,
      RollbackSteps, SharedSteps, LoopSteps, Calls, controlVars, bufferVars,
      connVars
<1>4. CASE CheckVersion \/ FindTable \/ TableLocked
  BY <1>4 DEF CheckVersion, FindTable, TableLocked
<1>5. CASE GetTxnId \/ GetUniqueId \/ GetTableLock
  BY <1>5 DEF GetTxnId, BrmCommand, BeginTxn, GetUniqueId, GetTableLock,
       SetLock
<1>6. CASE KeepAlive
  BY <1>6 DEF KeepAlive, WeCommand
<1>7. CASE FlushBatch
  BY <1>7 DEF FlushBatch, WeCommand, Insert
<1>8. CASE Overrun
  BY <1>8 DEF Overrun
<1>9. CASE CommitFlush
  BY <1>9 DEF CommitFlush, WeCommand, Insert
<1>10. CASE NewUniqueId \/ BulkInsertEnd \/ BulkCommit
  BY <1>10 DEF NewUniqueId, BrmCommand, BulkInsertEnd, WeCommand, BulkCommit
<1>11. CASE Committed \/ TakeSnapshot
  BY <1>11 DEF Committed, BrmCommand, Verdict, TakeSnapshot
<1>12. CASE RollbackBlocks \/ RollbackVersions
  BY <1>12 DEF RollbackBlocks, WeCommand, RollbackVersions, BrmCommand
<1>13. CASE Rolledback
  BY <1>13 DEF Rolledback, BrmCommand, Verdict
<1>14. CASE GetWrittenLbids
  BY <1>14 DEF GetWrittenLbids, WeCommand
<1>15. CASE ChangeState
  BY <1>15 DEF ChangeState, BrmCommand, SetLock
<1>16. CASE RemoveMeta
  BY <1>16 DEF RemoveMeta, WeCommand, ForgetMeta
<1>17. CASE CloseWe
  BY <1>17 DEF CloseWe
<1>18. CASE ReleaseTableLock
  BY <1>18 DEF ReleaseTableLock, BrmCommand, SetLock
<1>19. CASE Construct
  BY <1>19 DEF Construct
<1>20. CASE WriteRow
  BY <1>20 DEF WriteRow
<1>21. CASE Commit
  BY <1>21 DEF Commit, Idle
<1>22. CASE Rollback
  BY <1>22 DEF Rollback, Idle
<1>23. CASE Delete
  BY <1>23 DEF Delete, Idle
<1>24. CASE UNCHANGED vars
  BY <1>24 DEF vars
<1> QED
  BY <1>1, <1>2, <1>3, <1>4, <1>5, <1>6, <1>7, <1>8, <1>9, <1>10, <1>11,
     <1>12, <1>13, <1>14, <1>15, <1>16, <1>17, <1>18, <1>19, <1>20, <1>21,
     <1>22, <1>23, <1>24 DEF Next, Progress, Application, Connecting,
     Committing, RollingBack, Finishing

(* The publishing loop of commit(), which covers one PM more per turn.     *)
LEMMA PublishingInductive == TypeOK /\ IInv /\ [Next]_vars => Publishing'
<1> SUFFICES ASSUME TypeOK, IInv, [Next]_vars PROVE Publishing'
  OBVIOUS
<1> USE DEF Nothing, Goto, LoopTo, Return, Throw, Spin, serverVars, flagVars
<1>1. CASE SetHWM
  <2>1. at \in PM /\ \A p \in PM : p < at => Covered(p)
    BY <1>1 DEF SetHWM, IInv, Publishing, TypeOK, ControlOK
  <2>2. step' \in {"idle", "spinning"} \/ (Publish(at) /\ LoopTo("insertEnd", "committed"))
    BY <1>1 DEF SetHWM, BrmCommand
  <2>3. CASE Publish(at) /\ LoopTo("insertEnd", "committed")
    <3>1. \A p \in PM : p <= at => Covered(p)'
      BY <2>1, <2>3 DEF Publish, Covered, TypeOK, ServerOK, PM
    <3>2. CASE at < NumPM
      BY <2>1, <2>3, <3>1, <3>2 DEF Publishing, PM
    <3>3. CASE ~(at < NumPM)
      <4>1. step' = "committed" /\ \A p \in PM : p <= at
        BY <2>1, <2>3, <3>3, ConstantsAssumption DEF PM
      <4> QED
        BY <3>1, <4>1 DEF Publishing
    <3> QED
      BY <3>2, <3>3
  <2> QED
    BY <2>2, <2>3 DEF Publishing
<1> USE ConstantsAssumption DEF TypeOK, ControlOK, ServerOK, PM, IInv,
      Publishing, Covered, CallsAndSteps, ConnectSteps, CommitSteps,
      RollbackSteps, SharedSteps, LoopSteps, Calls, controlVars, bufferVars,
      connVars
<1>2. CASE CheckVersion \/ FindTable \/ TableLocked
  BY <1>2 DEF CheckVersion, FindTable, TableLocked
<1>3. CASE GetTxnId \/ GetUniqueId \/ GetTableLock
  BY <1>3 DEF GetTxnId, BrmCommand, BeginTxn, GetUniqueId, GetTableLock,
       SetLock
<1>4. CASE LockRefused
  BY <1>4 DEF LockRefused, BrmCommand, Verdict
<1>5. CASE KeepAlive
  BY <1>5 DEF KeepAlive, WeCommand
<1>6. CASE FlushBatch
  BY <1>6 DEF FlushBatch, WeCommand, Insert
<1>7. CASE Overrun
  BY <1>7 DEF Overrun
<1>8. CASE CommitFlush
  BY <1>8 DEF CommitFlush, WeCommand, Insert
<1>9. CASE NewUniqueId \/ BulkInsertEnd \/ BulkCommit
  BY <1>9 DEF NewUniqueId, BrmCommand, BulkInsertEnd, WeCommand, BulkCommit
<1>10. CASE Committed \/ TakeSnapshot
  BY <1>10 DEF Committed, BrmCommand, Verdict, TakeSnapshot
<1>11. CASE RollbackBlocks \/ RollbackVersions
  BY <1>11 DEF RollbackBlocks, WeCommand, RollbackVersions, BrmCommand
<1>12. CASE BulkRollback
  BY <1>12 DEF BulkRollback, WeCommand, Undo
<1>13. CASE Rolledback
  BY <1>13 DEF Rolledback, BrmCommand, Verdict
<1>14. CASE GetWrittenLbids
  BY <1>14 DEF GetWrittenLbids, WeCommand
<1>15. CASE ChangeState
  BY <1>15 DEF ChangeState, BrmCommand, SetLock
<1>16. CASE RemoveMeta
  BY <1>16 DEF RemoveMeta, WeCommand, ForgetMeta
<1>17. CASE CloseWe
  BY <1>17 DEF CloseWe
<1>18. CASE ReleaseTableLock
  BY <1>18 DEF ReleaseTableLock, BrmCommand, SetLock
<1>19. CASE Construct
  BY <1>19 DEF Construct
<1>20. CASE WriteRow
  BY <1>20 DEF WriteRow
<1>21. CASE Commit
  BY <1>21 DEF Commit, Idle
<1>22. CASE Rollback
  BY <1>22 DEF Rollback, Idle
<1>23. CASE Delete
  BY <1>23 DEF Delete, Idle
<1>24. CASE UNCHANGED vars
  BY <1>24 DEF vars
<1> QED
  BY <1>1, <1>2, <1>3, <1>4, <1>5, <1>6, <1>7, <1>8, <1>9, <1>10, <1>11,
     <1>12, <1>13, <1>14, <1>15, <1>16, <1>17, <1>18, <1>19, <1>20, <1>21,
     <1>22, <1>23, <1>24 DEF Next, Progress, Application, Connecting,
     Committing, RollingBack, Finishing

-----------------------------------------------------------------------------
(* The theorems.                                                           *)

LEMMA InitIInv == Init => IInv
BY ConstantsAssumption
   DEF Init, IInv, CallsAndSteps, LockPhases, Ending, Erasing, Erased, Publishing,
       Filling, LockHeldWhileOpen, ClosedIsClean, Calls, ConnectSteps,
       CommitSteps, RollbackSteps, SharedSteps, LoopSteps, PM

(* IInv is an invariant: it holds at first and every step keeps it.        *)
THEOREM Invariance == Spec => [](TypeOK /\ IInv)
<1>1. TypeOK /\ IInv /\ [Next]_vars => (TypeOK /\ IInv)'
  <2>1. TypeOK /\ IInv /\ [Next]_vars => IInv'
    BY CallsAndStepsInductive, LockPhasesInductive, FillingInductive,
       EndingInductive, ErasingInductive, PublishingInductive DEF IInv
  <2> QED
    BY <2>1, NextTypes
<1>2. Spec => []TypeOK
  BY TypeCorrect
<1> QED
  BY <1>1, <1>2, InitIInv, PTL DEF Spec

(* An open object holds its lock, whatever has failed, while its BRM       *)
(* connection works.                                                       *)
THEOREM LockHeld == Spec => []LockHeldWhileOpen
<1>1. IInv => LockHeldWhileOpen
  BY DEF IInv, LockPhases
<1> QED
  BY <1>1, Invariance, PTL

(* An object that is closed has left nothing behind on the servers.        *)
THEOREM Clean == Spec => []ClosedIsClean
<1>1. IInv => ClosedIsClean
  BY DEF IInv, Ending
<1> QED
  BY <1>1, Invariance, PTL

(* An object that was deleted without terminating the process has left no  *)
(* lock, no rollback files and no undecided transaction: the destructor    *)
(* either finds it closed or closes it.                                    *)
THEOREM GoneClean == Spec => []GoneIsClean
<1>1. IInv => GoneIsClean
  BY DEF IInv, Ending, ClosedIsClean, CallsAndSteps, GoneIsClean
<1> QED
  BY <1>1, Invariance, PTL

(* A rollback that ends without a commit verdict has erased every PM.      *)
THEOREM Erases == Spec => []RollbackErases
<1>1. IInv => RollbackErases
  BY DEF IInv, Erasing, Erased, RollbackErases
<1> QED
  BY <1>1, Invariance, PTL

(* No batch is longer than the array that holds it, until writeRow() is    *)
(* called again after it has thrown.                                       *)
THEOREM InBounds == Spec => []RowsInBounds
<1>1. TypeOK /\ IInv => RowsInBounds
  BY DEF IInv, Filling, RowsInBounds
<1> QED
  BY <1>1, Invariance, PTL

(* The lock is released only when the verdict is known and no rollback     *)
(* files are left.                                                         *)
THEOREM ReleaseLast == Spec => ReleaseIsLast
<1>1. ASSUME TypeOK, IInv, [Next]_vars, lock # "free", lock' = "free"
      PROVE  verdicts # {} /\ meta = {}
  <2>1. ReleaseTableLock
    <3> USE <1>1 DEF BrmCommand, WeCommand, Nothing, Goto, LoopTo, Return, Throw, Spin,
                     serverVars
    <3>1. ~Connecting
      BY DEF Connecting, CheckVersion, FindTable, GetTxnId, GetUniqueId,
             GetTableLock, TableLocked, LockRefused, KeepAlive, BeginTxn,
             SetLock, Verdict
    <3>2. ~FlushBatch /\ ~Overrun
      BY DEF FlushBatch, Overrun, Insert
    <3>3. ~Committing
      BY DEF Committing, CommitFlush, NewUniqueId, BulkInsertEnd, BulkCommit,
             SetHWM, Committed, TakeSnapshot, Insert, Publish, Verdict
    <3>4. ~RollingBack
      BY DEF RollingBack, RollbackBlocks, RollbackVersions, BulkRollback,
             Rolledback, Undo, Verdict
    <3>5. ~(GetWrittenLbids \/ ChangeState \/ RemoveMeta \/ CloseWe)
      BY DEF GetWrittenLbids, ChangeState, RemoveMeta, CloseWe, SetLock,
             ForgetMeta
    <3>6. ~Application
      BY DEF Application, Construct, WriteRow, Commit, Rollback, Delete
    <3>7. ~UNCHANGED vars
      BY DEF vars
    <3> QED
      BY <3>1, <3>2, <3>3, <3>4, <3>5, <3>6, <3>7 DEF Next, Progress, Finishing
  <2> QED
    BY <1>1, <2>1 DEF ReleaseTableLock, IInv, Ending
<1>2. TypeOK /\ IInv /\ [Next]_vars
        => [(lock # "free" /\ lock' = "free") => verdicts # {} /\ meta = {}]_vars
  BY <1>1
<1> QED
  BY <1>2, Invariance, PTL DEF Spec, ReleaseIsLast

(* When the BRM is told of a commit, every PM's rows are below its high    *)
(* water mark, whatever attempts to commit have failed before.             *)
THEOREM CommitCovers == Spec => CommitCoversAllPMs
<1>1. ASSUME TypeOK, IInv, [Next]_vars,
             "committed" \notin verdicts, "committed" \in verdicts'
      PROVE  \A p \in PM : published[p] = Len(stored[p])
  <2>1. step = "committed"
    <3> USE <1>1 DEF BrmCommand, WeCommand, Nothing, Goto, LoopTo, Return, Throw, Spin,
                     serverVars
    <3>1. ~Connecting
      BY DEF Connecting, CheckVersion, FindTable, GetTxnId, GetUniqueId,
             GetTableLock, TableLocked, LockRefused, KeepAlive, BeginTxn,
             SetLock, Verdict
    <3>2. ~FlushBatch /\ ~Overrun
      BY DEF FlushBatch, Overrun, Insert
    <3>3. Committing => step = "committed"
      BY DEF Committing, CommitFlush, NewUniqueId, BulkInsertEnd, BulkCommit,
             SetHWM, Committed, TakeSnapshot, Insert, Publish, Verdict
    <3>4. ~RollingBack
      BY DEF RollingBack, RollbackBlocks, RollbackVersions, BulkRollback,
             Rolledback, Undo, Verdict
    <3>5. ~Finishing
      BY DEF Finishing, GetWrittenLbids, ChangeState, RemoveMeta, CloseWe,
             ReleaseTableLock, SetLock, ForgetMeta
    <3>6. ~Application
      BY DEF Application, Construct, WriteRow, Commit, Rollback, Delete
    <3>7. ~UNCHANGED vars
      BY DEF vars
    <3> QED
      BY <3>1, <3>2, <3>3, <3>4, <3>5, <3>6, <3>7 DEF Next, Progress
  <2> QED
    BY <2>1, <1>1 DEF IInv, Publishing, Covered
<1>2. TypeOK /\ IInv /\ [Next]_vars
        => [("committed" \notin verdicts /\ "committed" \in verdicts')
              => \A p \in PM : published[p] = Len(stored[p])]_vars
  BY <1>1
<1> QED
  BY <1>2, Invariance, PTL DEF Spec, CommitCoversAllPMs

=============================================================================
