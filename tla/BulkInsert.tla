----------------------------- MODULE BulkInsert -----------------------------
(***************************************************************************)
(* One ColumnStoreBulkInsert object, from its constructor to its deletion, *)
(* and the part of the cluster it talks to: the BRM controller (table lock *)
(* and transaction) and one WriteEngine server per PM.                     *)
(*                                                                         *)
(* Every command of ColumnStoreCommands is one step: it is answered, it is *)
(* refused by the server, or its connection breaks before or after the     *)
(* server acted on it.  A broken connection is never opened again.  One    *)
(* that libuv refuses to open at once is no connection: either its         *)
(* constructor throws, or the loop that waits for it never ends.           *)
(***************************************************************************)
EXTENDS Naturals, Sequences

CONSTANTS
    NumPM,      \* PrimitiveServers/Count of Columnstore.xml
    Batch,      \* rows of a batch: 100000 in the code
    MaxRows,    \* bound: calls of writeRow
    MaxEnds,    \* bound: calls of commit and rollback
    Faults,     \* which faults happen: a subset of {"refuse", "drop", "open"}
    MaxFaults   \* bound: how many of them

ASSUME ConstantsAssumption ==
    /\ NumPM \in Nat \ {0}
    /\ Batch \in Nat \ {0}
    /\ MaxRows \in Nat
    /\ MaxEnds \in Nat
    /\ Faults \subseteq {"refuse", "drop", "open"}
    /\ MaxFaults \in Nat

PM == 1 .. NumPM

(* A row is its ordinal among the calls of writeRow; Garbage is what is    *)
(* read behind the end of tableData.rows.                                  *)
Garbage == 0

ConnStatus == {"none", "open", "broken"}

VARIABLES
    obj,        \* the object: unborn, alive, failed (the constructor threw),
                \* gone (deleted) or aborted (the process was terminated)
    call,       \* the API call being executed
    failed,     \* the API calls that have thrown so far
    step,       \* the command it is about to execute
    at,         \* the PM its loop over pmList has reached
    buf,        \* tableData.rows
    rowSlot,    \* the index of the row that row points to
    rowNumber,  \* tableData.row_number
    currentPm,  \* index of the PM that takes the next batch
    insertedCount,
    transactionClosed,
    autoRollback,
    brmConn,    \* brmConnection
    weConn,     \* weConnections
    lock,       \* BRM: state of the table lock of this object
    txn,        \* BRM: whether the transaction has an ID
    verdicts,   \* BRM: the verdicts it has been told of the transaction
    stored,     \* WriteEngine: rows written for the transaction
    meta,       \* WriteEngine: the PMs that have bulk rollback files
    published,  \* BRM: rows of a PM below the high water mark
    faults,     \* faults so far
    ends        \* calls of commit and rollback so far

controlVars == <<obj, call, failed, step, at>>
bufferVars == <<buf, rowSlot, rowNumber, currentPm, insertedCount>>
flagVars == <<transactionClosed, autoRollback>>
connVars == <<brmConn, weConn>>
serverVars == <<lock, txn, verdicts, stored, meta, published>>
vars == <<controlVars, bufferVars, flagVars, connVars, serverVars, faults, ends>>

ConnectSteps == {"version", "table", "txnId", "uniqueId", "getLock",
                 "refused", "keepAlive"}
CommitSteps == {"commitFlush", "newUniqueId", "insertEnd", "lbids",
                "bulkCommit", "setHWM", "committed", "snapshot"}
RollbackSteps == {"rbLbids", "rbBlocks", "rbVersions", "rbBulk", "rolledback"}
SharedSteps == {"changeState", "removeMeta", "close", "release"}
Steps == {"idle", "flush", "spinning"} \cup ConnectSteps \cup CommitSteps
           \cup RollbackSteps \cup SharedSteps

Calls == {"construct", "writeRow", "commit", "rollback", "delete"}

ControlOK ==
    /\ obj \in {"unborn", "alive", "failed", "gone", "aborted"}
    /\ call \in Calls \cup {"none"}
    /\ failed \in SUBSET (Calls \cup {"none"})
    /\ step \in Steps
    /\ at \in PM

BufferOK ==
    /\ buf \in [0 .. Batch - 1 -> Nat]
    /\ rowSlot \in 0 .. Batch - 1
    /\ rowNumber \in Nat
    /\ currentPm \in 0 .. NumPM - 1
    /\ insertedCount \in Nat

FlagOK ==
    /\ transactionClosed \in BOOLEAN
    /\ autoRollback \in BOOLEAN

ServerOK ==
    /\ lock \in {"free", "loading", "cleanup"}
    /\ txn \in {"none", "open"}
    /\ verdicts \in SUBSET {"committed", "rolledback"}
    /\ stored \in [PM -> Seq(Nat)]
    /\ meta \in SUBSET PM
    /\ published \in [PM -> Nat]

LinkOK ==
    /\ brmConn \in ConnStatus
    /\ weConn \in [PM -> ConnStatus]
    /\ faults \in 0 .. MaxFaults
    /\ ends \in 0 .. MaxEnds

TypeOK == ControlOK /\ BufferOK /\ FlagOK /\ ServerOK /\ LinkOK

Init ==
    /\ obj = "unborn" /\ call = "none" /\ failed = {} /\ step = "idle" /\ at = 1
    /\ buf = [s \in 0 .. Batch - 1 |-> Garbage]
    /\ rowSlot = 0 /\ rowNumber = 0 /\ currentPm = 0 /\ insertedCount = 0
    /\ transactionClosed = FALSE /\ autoRollback = TRUE
    /\ brmConn = "none" /\ weConn = [p \in PM |-> "none"]
    /\ lock = "free" /\ txn = "none" /\ verdicts = {}
    /\ stored = [p \in PM |-> <<>>]
    /\ meta = {}
    /\ published = [p \in PM |-> 0]
    /\ faults = 0 /\ ends = 0

-----------------------------------------------------------------------------
(* Beside an action there may be a mistake that its code could have: with  *)
(* it in place of the action a property fails, which shows what the        *)
(* property is good for.  Next uses none of them.                          *)

(* Control flow: to another command, back to the caller, or an exception.  *)

Goto(s) == step' = s /\ UNCHANGED <<obj, call, failed, at>>

(* The next turn of a loop over pmList, or what follows the loop.          *)
LoopTo(s, done) ==
    /\ UNCHANGED <<obj, call, failed>>
    /\ IF at < NumPM THEN step' = s /\ at' = at + 1
                     ELSE step' = done /\ at' = 1

Return ==
    /\ obj' = IF call = "construct" THEN "alive"
              ELSE IF call = "delete" THEN "gone" ELSE obj
    /\ call' = "none" /\ step' = "idle" /\ at' = 1
    /\ UNCHANGED failed

(* An exception leaves the call.  Leaving the constructor it ends the      *)
(* object without its destructor; leaving the destructor, which is         *)
(* noexcept, it terminates the process.                                    *)
Throw ==
    /\ obj' = IF call = "construct" THEN "failed"
              ELSE IF call = "delete" THEN "aborted" ELSE obj
    /\ failed' = failed \cup {call}
    /\ call' = "none" /\ step' = "idle" /\ at' = 1

(* runLoop() or runSoloLoop() waits for a connection that nothing will     *)
(* move: the call neither goes on nor comes back.                          *)
Spin ==
    /\ step' = "spinning" /\ at' = 1
    /\ UNCHANGED <<obj, call, failed>>

-----------------------------------------------------------------------------
(* A command: send, wait for IDLE, read, wait for IDLE, look at the        *)
(* response.  effect is what the server does, after what the client does   *)
(* on success, onError what it does when the command throws.               *)

Fault(f) == f \in Faults /\ faults < MaxFaults /\ faults' = faults + 1

BrmCommand(effect, after, onError) ==
    /\ UNCHANGED weConn
    /\ \/ /\ brmConn # "broken"
          /\ brmConn' = "open"
          /\ \/ effect /\ after /\ UNCHANGED faults
             \/ Fault("refuse") /\ UNCHANGED serverVars /\ onError
       \/ /\ brmConn # "broken"
          /\ brmConn' = "broken"
          /\ Fault("drop") /\ (effect \/ UNCHANGED serverVars) /\ onError
       \/ /\ brmConn = "broken"
          /\ UNCHANGED <<brmConn, serverVars, faults>> /\ onError
       \/ /\ brmConn = "none" /\ Fault("open") /\ UNCHANGED <<brmConn, serverVars>>
          /\ onError \/ (Spin /\ UNCHANGED <<bufferVars, flagVars>>)

(* runLoop waits for all WriteEngine connections, and throws for any.      *)
WeReachable == \A p \in PM : weConn[p] # "broken"

(* It looks at them in their order, and stops at the first that is broken. *)
LoopReaches(p) == \A q \in PM : weConn[q] = "broken" => q > p

WeCommand(p, effect, after, onError) ==
    /\ UNCHANGED brmConn
    /\ \/ /\ WeReachable
          /\ weConn' = [weConn EXCEPT ![p] = "open"]
          /\ \/ effect /\ after /\ UNCHANGED faults
             \/ Fault("refuse") /\ UNCHANGED serverVars /\ onError
       \/ /\ WeReachable
          /\ weConn' = [weConn EXCEPT ![p] = "broken"]
          /\ Fault("drop") /\ (effect \/ UNCHANGED serverVars) /\ onError
       \/ /\ ~WeReachable
          /\ weConn' = [weConn EXCEPT ![p] = IF @ = "none" THEN "open" ELSE @]
          /\ UNCHANGED <<serverVars, faults>> /\ onError
       \/ /\ weConn[p] = "none" /\ Fault("open") /\ UNCHANGED <<weConn, serverVars>>
          /\ \/ onError
             \/ LoopReaches(p) /\ Spin /\ UNCHANGED <<bufferVars, flagVars>>

Nothing == UNCHANGED serverVars

-----------------------------------------------------------------------------
(* The constructor: connect() up to its last command.                      *)

Construct ==
    /\ obj = "unborn" /\ call = "none"
    /\ call' = "construct" /\ step' = "version"
    /\ UNCHANGED <<obj, failed, at, bufferVars, flagVars, connVars, serverVars, faults, ends>>

(* procMonCheckVersion and the catalog use connections of their own; they  *)
(* fail for a version that is too old or a table that does not exist.      *)
CheckVersion ==
    /\ step = "version"
    /\ \/ (Goto("table") \/ Throw) /\ UNCHANGED faults
       \/ Fault("open") /\ Spin
    /\ UNCHANGED <<bufferVars, flagVars, connVars, serverVars, ends>>

FindTable ==
    /\ step = "table"
    /\ \/ (Goto("txnId") \/ Throw) /\ UNCHANGED faults
       \/ Fault("open") /\ Spin
    /\ UNCHANGED <<bufferVars, flagVars, connVars, serverVars, ends>>

BeginTxn ==
    /\ txn' = "open"
    /\ UNCHANGED <<lock, verdicts, stored, meta, published>>

GetTxnId ==
    /\ step = "txnId"
    /\ BrmCommand(BeginTxn, Goto("uniqueId"), Throw)
    /\ UNCHANGED <<bufferVars, flagVars, ends>>

GetUniqueId ==
    /\ step = "uniqueId"
    /\ BrmCommand(Nothing, Goto("getLock"), Throw)
    /\ UNCHANGED <<bufferVars, flagVars, ends>>

SetLock(state) ==
    /\ lock' = state
    /\ UNCHANGED <<txn, verdicts, stored, meta, published>>

GetTableLock ==
    /\ step = "getLock"
    /\ BrmCommand(SetLock("loading"), Goto("keepAlive"), Goto("refused"))
    /\ UNCHANGED <<bufferVars, flagVars, ends>>

(* The table is locked by another session: not a fault.                    *)
TableLocked ==
    /\ step = "getLock" /\ brmConn # "broken"
    /\ Goto("refused")
    /\ UNCHANGED <<bufferVars, flagVars, connVars, serverVars, faults, ends>>

Verdict(v) ==
    /\ verdicts' = verdicts \cup {v}
    /\ UNCHANGED <<lock, txn, stored, meta, published>>

(* Mistake: the catch block does not rethrow.                              *)
LockRefusedSwallowed ==
    /\ step = "refused"
    /\ BrmCommand(Verdict("rolledback"), Return /\ UNCHANGED flagVars,
                  Throw /\ UNCHANGED flagVars)
    /\ UNCHANGED <<bufferVars, ends>>

(* The catch block of connect(): release the transaction and rethrow.      *)
LockRefused ==
    /\ step = "refused"
    /\ BrmCommand(Verdict("rolledback"),
                  Throw /\ autoRollback' = FALSE /\ transactionClosed' = TRUE,
                  Throw /\ UNCHANGED flagVars)
    /\ UNCHANGED <<bufferVars, ends>>

KeepAlive ==
    /\ step = "keepAlive"
    /\ WeCommand(at, Nothing,
                 IF at < NumPM THEN LoopTo("keepAlive", "idle") ELSE Return,
                 Throw)
    /\ UNCHANGED <<bufferVars, flagVars, ends>>

-----------------------------------------------------------------------------
(* writeRow(): the row that row points to is full; at Batch rows the batch *)
(* goes to the current PM.                                                 *)

Idle == obj = "alive" /\ call = "none"

WriteRow ==
    /\ Idle /\ ~transactionClosed
    /\ insertedCount < MaxRows
    /\ insertedCount' = insertedCount + 1
    /\ buf' = [buf EXCEPT ![rowSlot] = insertedCount + 1]
    /\ rowNumber' = rowNumber + 1
    /\ IF rowNumber + 1 >= Batch
       THEN call' = "writeRow" /\ step' = "flush" /\ UNCHANGED rowSlot
       ELSE rowSlot' = rowNumber + 1 /\ UNCHANGED <<call, step>>
    /\ UNCHANGED <<obj, failed, at, currentPm, flagVars, connVars, serverVars, faults, ends>>

(* The rows that weBulkInsert serializes: rowNumber of them, from an array *)
(* of Batch.                                                               *)
Payload == [k \in 1 .. rowNumber |-> IF k <= Batch THEN buf[k - 1] ELSE Garbage]

(* The WriteEngine keeps what it needs to undo the insert in files of its  *)
(* own until it is told to remove them.                                    *)
Insert(p) ==
    /\ stored' = [stored EXCEPT ![p] = @ \o Payload]
    /\ meta' = meta \cup {p}
    /\ UNCHANGED <<lock, txn, verdicts, published>>

(* Mistakes: the index leaves pmList; it stays where it is.                *)
NextPmPastEnd == IF currentPm + 1 > NumPM THEN 0 ELSE currentPm + 1
NextPmStays == currentPm

NextPm == IF currentPm + 1 >= NumPM THEN 0 ELSE currentPm + 1

(* Mistake: the rows of a batch that was sent are kept.                    *)
FlushBatchKeepsRows ==
    /\ step = "flush"
    /\ WeCommand(currentPm + 1, Insert(currentPm + 1), Return /\ currentPm' = NextPm,
                 Throw /\ UNCHANGED currentPm)
    /\ UNCHANGED <<buf, rowNumber, rowSlot, insertedCount, flagVars, ends>>

FlushBatch ==
    /\ step = "flush"
    /\ WeCommand(currentPm + 1, Insert(currentPm + 1),
                 Return /\ rowNumber' = 0 /\ currentPm' = NextPm /\ rowSlot' = 0,
                 Throw /\ UNCHANGED <<rowNumber, currentPm, rowSlot>>)
    /\ UNCHANGED <<buf, insertedCount, flagVars, ends>>

(* Reading behind the array is undefined: Payload has garbage there, or    *)
(* the process dies.  It is read when the connections are there.           *)
Overrun ==
    /\ step \in {"flush", "commitFlush"} /\ rowNumber > Batch /\ WeReachable
    /\ obj' = "aborted" /\ call' = "none" /\ step' = "idle"
    /\ UNCHANGED <<failed, at, bufferVars, flagVars, connVars, serverVars, faults, ends>>

-----------------------------------------------------------------------------
(* commit()                                                                *)

(* Mistake: a batch that is not full is not sent.                          *)
CommitSkipsRest ==
    /\ Idle /\ ~transactionClosed
    /\ ends < MaxEnds /\ ends' = ends + 1
    /\ call' = "commit"
    /\ step' = IF rowNumber >= Batch THEN "commitFlush" ELSE "newUniqueId"
    /\ UNCHANGED <<obj, failed, at, bufferVars, flagVars, connVars, serverVars, faults>>

Commit ==
    /\ Idle /\ ~transactionClosed
    /\ ends < MaxEnds /\ ends' = ends + 1
    /\ call' = "commit"
    /\ step' = IF rowNumber > 0 THEN "commitFlush" ELSE "newUniqueId"
    /\ UNCHANGED <<obj, failed, at, bufferVars, flagVars, connVars, serverVars, faults>>

(* Mistake: the rows are forgotten before it is known that they arrived.   *)
CommitFlushForgets ==
    /\ step = "commitFlush"
    /\ WeCommand(currentPm + 1, Insert(currentPm + 1), Goto("newUniqueId"), Throw)
    /\ rowNumber' = 0
    /\ UNCHANGED <<buf, rowSlot, currentPm, insertedCount, flagVars, ends>>

(* The last batch.  Unlike writeRow this leaves rowNumber as it is.        *)
CommitFlush ==
    /\ step = "commitFlush"
    /\ WeCommand(currentPm + 1, Insert(currentPm + 1), Goto("newUniqueId"), Throw)
    /\ UNCHANGED <<bufferVars, flagVars, ends>>

NewUniqueId ==
    /\ step = "newUniqueId"
    /\ BrmCommand(Nothing, Goto("insertEnd"), Throw)
    /\ UNCHANGED <<bufferVars, flagVars, ends>>

BulkInsertEnd ==
    /\ step = "insertEnd"
    /\ WeCommand(at, Nothing, Goto("lbids"), Throw)
    /\ UNCHANGED <<bufferVars, flagVars, ends>>

GetWrittenLbids ==
    /\ step \in {"lbids", "rbLbids"}
    /\ WeCommand(at, Nothing,
                 Goto(IF call = "commit" THEN "bulkCommit" ELSE "rbBlocks"),
                 Throw)
    /\ UNCHANGED <<bufferVars, flagVars, ends>>

(* Answers with the high water marks of the rows written.                  *)
BulkCommit ==
    /\ step = "bulkCommit"
    /\ WeCommand(at, Nothing, Goto("setHWM"), Throw)
    /\ UNCHANGED <<bufferVars, flagVars, ends>>

(* Mistake: the high water mark is the last row and not the one behind it. *)
PublishShort(p) ==
    /\ published' = [published EXCEPT ![p] = IF stored[p] = <<>> THEN 0 ELSE Len(stored[p]) - 1]
    /\ UNCHANGED <<lock, txn, verdicts, stored, meta>>

Publish(p) ==
    /\ published' = [published EXCEPT ![p] = Len(stored[p])]
    /\ UNCHANGED <<lock, txn, verdicts, stored, meta>>

(* Mistake: the loop of commit() leaves the last PM out.                   *)
SetHWMShort ==
    /\ step = "setHWM"
    /\ BrmCommand(Publish(at),
                  IF at + 1 < NumPM THEN LoopTo("insertEnd", "committed")
                  ELSE step' = "committed" /\ at' = 1 /\ UNCHANGED <<obj, call, failed>>,
                  Throw)
    /\ UNCHANGED <<bufferVars, flagVars, ends>>

SetHWM ==
    /\ step = "setHWM"
    /\ BrmCommand(Publish(at), LoopTo("insertEnd", "committed"), Throw)
    /\ UNCHANGED <<bufferVars, flagVars, ends>>

Committed ==
    /\ step = "committed"
    /\ BrmCommand(Verdict("committed"), Goto("snapshot"), Throw)
    /\ UNCHANGED <<bufferVars, flagVars, ends>>

TakeSnapshot ==
    /\ step = "snapshot"
    /\ BrmCommand(Nothing, Goto("changeState"), Throw)
    /\ UNCHANGED <<bufferVars, flagVars, ends>>

-----------------------------------------------------------------------------
(* rollback(), and the destructor that calls it.                           *)

(* Once the transaction is closed rollback() returns at once.              *)
Rollback ==
    /\ Idle /\ ~transactionClosed
    /\ ends < MaxEnds /\ ends' = ends + 1
    /\ call' = "rollback" /\ step' = "rbLbids"
    /\ UNCHANGED <<obj, failed, at, bufferVars, flagVars, connVars, serverVars, faults>>

(* Mistake: the destructor rolls back what is closed.                      *)
DeleteInverted ==
    /\ Idle
    /\ IF autoRollback /\ transactionClosed
       THEN call' = "delete" /\ step' = "rbLbids" /\ UNCHANGED obj
       ELSE obj' = "gone" /\ UNCHANGED <<call, step>>
    /\ UNCHANGED <<failed, at, bufferVars, flagVars, connVars, serverVars, faults, ends>>

Delete ==
    /\ Idle
    /\ IF autoRollback /\ ~transactionClosed
       THEN call' = "delete" /\ step' = "rbLbids" /\ UNCHANGED obj
       ELSE obj' = "gone" /\ UNCHANGED <<call, step>>
    /\ UNCHANGED <<failed, at, bufferVars, flagVars, connVars, serverVars, faults, ends>>

RollbackBlocks ==
    /\ step = "rbBlocks"
    /\ WeCommand(at, Nothing, Goto("rbVersions"), Throw)
    /\ UNCHANGED <<bufferVars, flagVars, ends>>

RollbackVersions ==
    /\ step = "rbVersions"
    /\ BrmCommand(Nothing, Goto("rbBulk"), Throw)
    /\ UNCHANGED <<bufferVars, flagVars, ends>>

(* The rows of a PM can be removed while its rollback files exist.         *)
Undo(p) ==
    /\ stored' = [stored EXCEPT ![p] = IF p \in meta THEN <<>> ELSE @]
    /\ published' = [published EXCEPT ![p] = IF p \in meta THEN 0 ELSE @]
    /\ UNCHANGED <<lock, txn, verdicts, meta>>

(* Mistake: the loop of rollback() leaves the last PM out.                 *)
BulkRollbackShort ==
    /\ step = "rbBulk"
    /\ WeCommand(at, Undo(at),
                 IF at + 1 < NumPM THEN LoopTo("rbLbids", "changeState")
                 ELSE step' = "changeState" /\ at' = 1 /\ UNCHANGED <<obj, call, failed>>,
                 Throw)
    /\ UNCHANGED <<bufferVars, flagVars, ends>>

BulkRollback ==
    /\ step = "rbBulk"
    /\ WeCommand(at, Undo(at), LoopTo("rbLbids", "changeState"), Throw)
    /\ UNCHANGED <<bufferVars, flagVars, ends>>

Rolledback ==
    /\ step = "rolledback"
    /\ BrmCommand(Verdict("rolledback"), Goto("release"), Throw)
    /\ UNCHANGED <<bufferVars, flagVars, ends>>

-----------------------------------------------------------------------------
(* The end of both, in the same order but for the verdict of a rollback.   *)

(* Mistake: the lock is released where it should change to cleanup.        *)
ChangeStateReleases ==
    /\ step = "changeState"
    /\ BrmCommand(SetLock("free"), Goto("removeMeta"), Throw)
    /\ UNCHANGED <<bufferVars, flagVars, ends>>

ChangeState ==
    /\ step = "changeState"
    /\ BrmCommand(SetLock("cleanup"), Goto("removeMeta"), Throw)
    /\ UNCHANGED <<bufferVars, flagVars, ends>>

ForgetMeta(p) ==
    /\ meta' = meta \ {p}
    /\ UNCHANGED <<lock, txn, verdicts, stored, published>>

(* Mistake: a server that refuses to remove its files is passed over.      *)
RemoveMetaGoesOn ==
    /\ step = "removeMeta"
    /\ WeCommand(at, ForgetMeta(at), Goto("close"), Goto("close"))
    /\ UNCHANGED <<bufferVars, flagVars, ends>>

RemoveMeta ==
    /\ step = "removeMeta"
    /\ WeCommand(at, ForgetMeta(at), Goto("close"), Throw)
    /\ UNCHANGED <<bufferVars, flagVars, ends>>

(* Mistake: the loop over pmList ends after its first turn.                *)
CloseWeOnce ==
    /\ step = "close" /\ WeReachable
    /\ weConn' = [weConn EXCEPT ![at] = "none"]
    /\ Goto(IF call = "commit" THEN "release" ELSE "rolledback")
    /\ UNCHANGED <<bufferVars, flagVars, brmConn, serverVars, ends, faults>>

(* No answer is read: the command is sent and the connection put aside.    *)
CloseWe ==
    /\ step = "close"
    /\ UNCHANGED <<bufferVars, flagVars, brmConn, serverVars, ends>>
    /\ \/ /\ WeReachable
          /\ weConn' = [weConn EXCEPT ![at] = "none"]
          /\ LoopTo("removeMeta", IF call = "commit" THEN "release" ELSE "rolledback")
          /\ UNCHANGED faults
       \/ /\ WeReachable
          /\ weConn' = [weConn EXCEPT ![at] = "broken"]
          /\ Fault("drop") /\ Throw

(* Mistake: the release is repeated until it succeeds.                     *)
ReleaseTableLockRetries ==
    /\ step = "release"
    /\ BrmCommand(SetLock("free"),
                  Return /\ autoRollback' = FALSE /\ transactionClosed' = TRUE,
                  UNCHANGED <<controlVars, flagVars>>)
    /\ UNCHANGED <<bufferVars, ends>>

ReleaseTableLock ==
    /\ step = "release"
    /\ BrmCommand(SetLock("free"),
                  Return /\ autoRollback' = FALSE /\ transactionClosed' = TRUE,
                  Throw /\ UNCHANGED flagVars)
    /\ UNCHANGED <<bufferVars, ends>>

-----------------------------------------------------------------------------
Connecting == CheckVersion \/ FindTable \/ GetTxnId \/ GetUniqueId
                \/ GetTableLock \/ TableLocked \/ LockRefused \/ KeepAlive
Committing == CommitFlush \/ NewUniqueId \/ BulkInsertEnd \/ BulkCommit
                \/ SetHWM \/ Committed \/ TakeSnapshot
RollingBack == RollbackBlocks \/ RollbackVersions \/ BulkRollback \/ Rolledback
Finishing == GetWrittenLbids \/ ChangeState \/ RemoveMeta \/ CloseWe
               \/ ReleaseTableLock

(* What the library does by itself, once called.                           *)
Progress == Connecting \/ FlushBatch \/ Overrun \/ Committing \/ RollingBack
              \/ Finishing
(* What the application does.                                              *)
Application == Construct \/ WriteRow \/ Commit \/ Rollback \/ Delete

Next == Progress \/ Application

Spec == Init /\ [][Next]_vars

(* A server that has a command answers it, or its connection breaks: the   *)
(* loop that waits for it ends.  A loop that spins does not, and nothing   *)
(* obliges the application to call anything.                               *)
FairSpec == Spec /\ WF_vars(Progress)

-----------------------------------------------------------------------------
(* Properties.                                                             *)

(* connect() takes the table lock before the object can be used, and only  *)
(* the last command of commit() and rollback() gives it up: as long as the *)
(* BRM connection works, an object that is not closed holds its lock,      *)
(* however many of its calls have failed.                                  *)
LockHeldWhileOpen ==
    (obj = "alive" /\ ~transactionClosed /\ brmConn # "broken") => lock # "free"

(* transactionClosed is set where nothing is left behind: the lock is      *)
(* free, the transaction has its verdict, and no PM has rollback files.    *)
ClosedIsClean ==
    transactionClosed => /\ lock = "free"
                         /\ verdicts # {}
                         /\ meta = {}

(* The lock is the last thing to go: a crash before that leaves a lock     *)
(* that tells of the rollback files and the open transaction.              *)
ReleaseIsLast ==
    [][(lock # "free" /\ lock' = "free")
          => verdicts # {} /\ meta = {}]_vars

(* When the BRM learns that the transaction is committed, the rows of all  *)
(* PMs are below their high water marks, also in a commit() that repeats   *)
(* one that failed.                                                        *)
CommitCoversAllPMs ==
    [][("committed" \notin verdicts /\ "committed" \in verdicts')
          => \A p \in PM : published[p] = Len(stored[p])]_vars

Copies(r) == UNION {{<<p, k>> : k \in {i \in 1 .. Len(stored[p]) : stored[p][i] = r}} : p \in PM}

(* A transaction that commits after calls that all returned has every row  *)
(* once, on one PM.                                                        *)
CommittedOnce ==
    ("committed" \in verdicts /\ failed = {})
       => /\ \A r \in 1 .. insertedCount : \E c \in Copies(r) : Copies(r) = {c}
          /\ Copies(Garbage) = {}

(* A commit() that failed and is repeated may store rows twice, but loses  *)
(* none.                                                                   *)
NoRowLost ==
    (transactionClosed /\ verdicts = {"committed"} /\ failed \subseteq {"commit"})
       => \A r \in 1 .. insertedCount : Copies(r) # {}

(* A transaction that is closed by rollback() leaves no row on any PM, at  *)
(* whatever command earlier calls of it or of commit() stopped, unless the *)
(* BRM had been told to commit.                                            *)
RollbackErases ==
    (transactionClosed /\ "committed" \notin verdicts)
       => \A p \in PM : stored[p] = <<>> /\ published[p] = 0

(* weBulkInsert serializes rows that exist, unless a writeRow() that threw *)
(* is followed by another one.                                             *)
RowsInBounds == rowNumber <= Batch \/ "writeRow" \in failed

(* Batches go round robin: no PM is more than one batch ahead of another.  *)
Balanced ==
    (failed = {} /\ call \notin {"rollback", "delete"} /\ "rolledback" \notin verdicts)
       => \A p, q \in PM : Len(stored[p]) <= Len(stored[q]) + Batch

(* Every call of the API returns or throws, whatever is refused or breaks  *)
(* on the way, unless libuv refused at once to open a connection for it.   *)
CallsEnd == (call # "none") ~> (call = "none" \/ step = "spinning")

(* An object that was deleted, and not aborted, has left nothing behind,   *)
(* whatever failed before.                                                 *)
GoneIsClean == obj = "gone" => lock = "free" /\ verdicts # {} /\ meta = {}

(* docs: an object that is destroyed without a commit is rolled back.      *)
ImplicitRollback ==
    [][(call = "delete" /\ call' = "none") => transactionClosed']_vars

(* docs: the object is a single transaction, committed or rolled back.     *)
SingleVerdict == verdicts # {"committed", "rolledback"}

(* docs: the summary counts the rows that a commit inserted.               *)
InsertedIsStored ==
    (transactionClosed /\ verdicts = {"committed"})
       => \A r \in 1 .. insertedCount : \E c \in Copies(r) : Copies(r) = {c}

-----------------------------------------------------------------------------
(* The inductive invariant: why the safety properties hold.                *)

(* The steps in the body of a loop over pmList.                            *)
LoopSteps == {"keepAlive", "insertEnd", "lbids", "bulkCommit", "setHWM", "rbLbids",
              "rbBlocks", "rbVersions", "rbBulk", "removeMeta", "close"}

(* Which call executes which commands, and on what kind of object.         *)
CallsAndSteps ==
    /\ step = "idle" <=> call = "none"
    /\ step \in ConnectSteps => call = "construct"
    /\ call = "construct" => step \in ConnectSteps \cup {"spinning"}
    /\ call = "construct" => obj = "unborn"
    /\ call \in Calls \ {"construct"} => obj = "alive" /\ ~transactionClosed
    /\ step = "flush" => call = "writeRow"
    /\ step \in CommitSteps => call = "commit"
    /\ step \in RollbackSteps => call \in {"rollback", "delete"}
    /\ step \in SharedSteps => call \in {"commit", "rollback", "delete"}
    /\ step \notin LoopSteps => at = 1
    /\ autoRollback \/ transactionClosed
    /\ obj = "gone" => transactionClosed

(* From where the lock is held.  A grant whose answer is lost leaves it    *)
(* taken, but then the BRM connection is gone and nothing closes.          *)
LockPhases ==
    /\ obj = "unborn" => ~transactionClosed /\ meta = {}
    /\ (obj = "unborn" /\ step \notin {"refused", "keepAlive", "spinning"}) => lock = "free"
    /\ step = "refused" => lock = "free" \/ brmConn = "broken"
    /\ step = "keepAlive" => lock # "free"
    /\ LockHeldWhileOpen

(* The end of commit() and rollback(): rollback files go PM by PM, then    *)
(* the verdict is known, then the lock is released.                        *)
Ending ==
    /\ step = "removeMeta" => \A p \in meta : p >= at
    /\ step = "close" => \A p \in meta : p > at
    /\ step \in {"rolledback", "release"} => meta = {}
    /\ step = "release" => verdicts # {}
    /\ (call = "commit" /\ step \in SharedSteps \cup {"snapshot"}) => "committed" \in verdicts
    /\ ClosedIsClean

Erased(p) == stored[p] = <<>> /\ published[p] = 0

(* Before the commit verdict every PM with rows has rollback files, and a  *)
(* rollback that is past a PM has erased it.                               *)
Erasing ==
    "committed" \notin verdicts =>
        /\ \A p \in PM : p \in meta \/ Erased(p)
        /\ step \in {"rbLbids", "rbBlocks", "rbVersions", "rbBulk"}
              => \A p \in PM : p < at => Erased(p)
        /\ step \in SharedSteps \cup {"rolledback"} => \A p \in PM : Erased(p)
        /\ transactionClosed => \A p \in PM : Erased(p)

Covered(p) == published[p] = Len(stored[p])

(* commit() has published the rows of the PMs its loop is past.            *)
Publishing ==
    /\ step \in {"insertEnd", "bulkCommit", "setHWM", "lbids"}
          => \A p \in PM : p < at => Covered(p)
    /\ step = "committed" => \A p \in PM : Covered(p)

(* The batch is full only on the way to its flush.                         *)
Filling ==
    "writeRow" \notin failed =>
        rowNumber <= Batch /\ (step \notin {"flush", "spinning"} => rowNumber < Batch)

IInv == CallsAndSteps /\ LockPhases /\ Ending /\ Erasing /\ Publishing /\ Filling

=============================================================================
