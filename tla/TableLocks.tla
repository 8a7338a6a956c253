----------------------------- MODULE TableLocks -----------------------------
(***************************************************************************)
(* The lock of one table between bulk inserts of several processes and the *)
(* ones who clear it: ColumnStoreDriver::clearTableLock() rolls back the   *)
(* transaction of a lock it does not own, with the commands and in the     *)
(* order of ColumnStoreBulkInsert::rollback().  A process may die, and a   *)
(* command may fail, between any two of them.                              *)
(*                                                                         *)
(* The commands of one PM in the loops over pmList are one step here; they *)
(* are taken apart in BulkInsert.                                          *)
(***************************************************************************)
EXTENDS Naturals, FiniteSets

CONSTANTS
    Sessions,   \* bulk inserts, each with a transaction of its own
    Cleaners,   \* callers of clearTableLock
    NumPM,      \* PrimitiveServers/Count of Columnstore.xml
    MaxFaults,  \* bound: commands that fail, and locks cleared carelessly
    None        \* no session

ASSUME TableLocksAssumption ==
    /\ IsFiniteSet(Sessions)
    /\ Sessions \cap Cleaners = {}
    /\ NumPM \in Nat \ {0}
    /\ MaxFaults \in Nat
    /\ None \notin Sessions

PM == 1 .. NumPM
Agents == Sessions \cup Cleaners

(* Lock IDs are counted from 1: each session takes the lock at most once.  *)
LockId == 1 .. Cardinality(Sessions)
NoLock == [id |-> 0, owner |-> None, state |-> "free"]

VARIABLES
    object,     \* of each session: unborn, active, closed, or dead
    call,       \* of each agent: none, commit or rollback
    step,       \* the command it is about to execute
    at,         \* the PM its loop over pmList has reached
    info,       \* the lock and transaction it works on: TableLockInfo
    lock,       \* BRM: the lock of the table
    lastId,     \* BRM: the last lock ID
    verdicts,   \* BRM: the verdicts it was told of each transaction
    rows,       \* WriteEngine: the PMs where a transaction has rows
    meta,       \* WriteEngine: on each PM, whose insert the bulk rollback
                \* files of the table undo
    unsure,     \* sessions that gave the lock up and do not know it
    careless,   \* what the calls of clearTableLock() so far began with: the
                \* lock of an owner that is "live", or "late" information
    faults      \* commands that have failed, and careless calls

agentVars == <<call, step, at, info>>
brmVars == <<lock, lastId, verdicts>>
weVars == <<rows, meta>>
vars == <<object, agentVars, brmVars, weVars, unsure, careless, faults>>

Info == [lock : {0} \cup LockId, txn : Sessions \cup {None}]
NoInfo == [lock |-> 0, txn |-> None]

Steps == {"idle", "committed", "undo", "changeState", "removeMeta", "rolledback", "release"}

TypeOK ==
    /\ object \in [Sessions -> {"unborn", "active", "closed", "dead"}]
    /\ call \in [Agents -> {"none", "commit", "rollback"}]
    /\ step \in [Agents -> Steps]
    /\ at \in [Agents -> PM]
    /\ info \in [Agents -> Info]
    /\ lock = NoLock \/ lock \in [id : LockId, owner : Sessions, state : {"loading", "cleanup"}]
    /\ lastId \in {0} \cup LockId
    /\ verdicts \in [Sessions -> SUBSET {"committed", "rolledback"}]
    /\ rows \in [Sessions -> SUBSET PM]
    /\ meta \in [PM -> Sessions \cup {None}]
    /\ unsure \subseteq Sessions
    /\ careless \subseteq {"live", "late"}
    /\ faults \in 0 .. MaxFaults

Init ==
    /\ object = [s \in Sessions |-> "unborn"]
    /\ call = [a \in Agents |-> "none"]
    /\ step = [a \in Agents |-> "idle"]
    /\ at = [a \in Agents |-> 1]
    /\ info = [a \in Agents |-> NoInfo]
    /\ lock = NoLock /\ lastId = 0
    /\ verdicts = [s \in Sessions |-> {}]
    /\ rows = [s \in Sessions |-> {}]
    /\ meta = [p \in PM |-> None]
    /\ unsure = {}
    /\ careless = {}
    /\ faults = 0

-----------------------------------------------------------------------------
(* Beside an action there may be a mistake that its code could have; it    *)
(* breaks a property when it takes the place of the action.                *)

Starts(a, c, first) ==
    /\ call' = [call EXCEPT ![a] = c]
    /\ step' = [step EXCEPT ![a] = first]
    /\ UNCHANGED at

Goto(a, s) == step' = [step EXCEPT ![a] = s] /\ UNCHANGED <<call, at, info>>

(* Mistake: the loop turns once too often.                                 *)
LoopToPastEnd(a, s, done) ==
    /\ UNCHANGED <<call, info>>
    /\ IF at[a] <= NumPM
       THEN step' = [step EXCEPT ![a] = s] /\ at' = [at EXCEPT ![a] = @ + 1]
       ELSE step' = [step EXCEPT ![a] = done] /\ at' = [at EXCEPT ![a] = 1]

(* The next turn of a loop over pmList, or what follows the loop.          *)
LoopTo(a, s, done) ==
    /\ UNCHANGED <<call, info>>
    /\ IF at[a] < NumPM
       THEN step' = [step EXCEPT ![a] = s] /\ at' = [at EXCEPT ![a] = @ + 1]
       ELSE step' = [step EXCEPT ![a] = done] /\ at' = [at EXCEPT ![a] = 1]

(* The call of agent a is over; a lock and its transaction stay known to   *)
(* the object or the TableLockInfo they are in.                            *)
Ends(a) ==
    /\ call' = [call EXCEPT ![a] = "none"]
    /\ step' = [step EXCEPT ![a] = "idle"]
    /\ at' = [at EXCEPT ![a] = 1]
    /\ UNCHANGED info

Holds(a) == lock # NoLock /\ lock.id = info[a].lock

Fault == faults < MaxFaults /\ faults' = faults + 1

-----------------------------------------------------------------------------
(* Bulk inserts.                                                           *)

(* Mistake: the reply of the BRM that the table is locked is not looked at. *)
CreateAnyway(s) ==
    /\ object[s] = "unborn"
    /\ lastId' = lastId + 1
    /\ lock' = [id |-> lastId + 1, owner |-> s, state |-> "loading"]
    /\ info' = [info EXCEPT ![s] = [lock |-> lastId + 1, txn |-> s]]
    /\ object' = [object EXCEPT ![s] = "active"]
    /\ UNCHANGED <<call, step, at, verdicts, weVars, unsure, careless, faults>>

(* createBulkInsert(): the BRM has one lock for the table.                 *)
Create(s) ==
    /\ object[s] = "unborn" /\ lock = NoLock
    /\ lastId' = lastId + 1
    /\ lock' = [id |-> lastId + 1, owner |-> s, state |-> "loading"]
    /\ info' = [info EXCEPT ![s] = [lock |-> lastId + 1, txn |-> s]]
    /\ object' = [object EXCEPT ![s] = "active"]
    /\ UNCHANGED <<call, step, at, verdicts, weVars, unsure, careless, faults>>

(* The lock is taken: the transaction is released, there is no object.     *)
CreateRefused(s) ==
    /\ object[s] = "unborn" /\ lock # NoLock
    /\ object' = [object EXCEPT ![s] = "closed"]
    /\ verdicts' = [verdicts EXCEPT ![s] = @ \cup {"rolledback"}]
    /\ UNCHANGED <<agentVars, lock, lastId, weVars, unsure, careless, faults>>

Idle(s) == object[s] = "active" /\ call[s] = "none"

(* A batch goes to a PM.  The object does not ask whether it still has the *)
(* lock, and weBulkInsert does not name it.                                *)
BulkInsert(s, p) ==
    /\ Idle(s)
    /\ rows' = [rows EXCEPT ![s] = @ \cup {p}]
    /\ meta' = [meta EXCEPT ![p] = s]
    /\ UNCHANGED <<object, agentVars, brmVars, unsure, careless, faults>>

(* An object whose release was not answered has a broken BRM connection:   *)
(* its commit() and rollback() throw before they change anything here.     *)
Commit(s) ==
    /\ Idle(s) /\ s \notin unsure
    /\ Starts(s, "commit", "committed")
    /\ UNCHANGED <<object, info, brmVars, weVars, unsure, careless, faults>>

Rollback(s) ==
    /\ Idle(s) /\ s \notin unsure
    /\ Starts(s, "rollback", "undo")
    /\ UNCHANGED <<object, info, brmVars, weVars, unsure, careless, faults>>

(* The process of a bulk insert dies, or an exception in its destructor    *)
(* terminates it.                                                          *)
Die(s) ==
    /\ object[s] = "active"
    /\ object' = [object EXCEPT ![s] = "dead"]
    /\ Ends(s)
    /\ UNCHANGED <<brmVars, weVars, unsure, careless, faults>>

-----------------------------------------------------------------------------
(* The driver.                                                             *)

(* listTableLocks() and isTableLocked(): the TableLockInfo is a copy.      *)
List(c) ==
    /\ call[c] = "none" /\ lock # NoLock
    /\ info' = [info EXCEPT ![c] = [lock |-> lock.id, txn |-> lock.owner]]
    /\ UNCHANGED <<object, call, step, at, brmVars, weVars, unsure, careless, faults>>

(* What is wrong with the information clearTableLock() is called with: the *)
(* owner of the lock may be at work, there may be no such lock any more,   *)
(* or somebody else may be about to release it.                            *)
OwnerIsLive(c) == Holds(c) /\ object[lock.owner] # "dead"
ComesLate(c) == ~Holds(c) \/ \E d \in Cleaners : call[d] # "none"

(* clearTableLock(TableLockInfo) does not look whether there is still such *)
(* a lock, nor who has it: to be careful is left to its callers.           *)
Clear(c) ==
    /\ call[c] = "none" /\ info[c] # NoInfo
    /\ careless' = careless \cup {k \in {"live"} : OwnerIsLive(c)}
                              \cup {k \in {"late"} : ComesLate(c)}
    /\ IF OwnerIsLive(c) \/ ComesLate(c) THEN Fault ELSE UNCHANGED faults
    /\ Starts(c, "rollback", "undo")
    /\ UNCHANGED <<object, info, brmVars, weVars, unsure>>

-----------------------------------------------------------------------------
(* The commands, for the owner and for who clears its lock.                *)

Works(a, s) == call[a] # "none" /\ step[a] = s

(* Mistake: the loop over pmList leaves the last PM out.                   *)
UndoShort(a) ==
    /\ Works(a, "undo")
    /\ rows' = [s \in Sessions |-> IF meta[at[a]] = s THEN rows[s] \ {at[a]} ELSE rows[s]]
    /\ IF at[a] + 1 < NumPM THEN LoopTo(a, "undo", "changeState")
       ELSE Goto(a, "changeState")
    /\ UNCHANGED <<object, brmVars, meta, unsure, careless, faults>>

(* The WriteEngine undoes what the rollback files of the table tell.       *)
Undo(a) ==
    /\ Works(a, "undo")
    /\ rows' = [s \in Sessions |-> IF meta[at[a]] = s THEN rows[s] \ {at[a]} ELSE rows[s]]
    /\ LoopTo(a, "undo", "changeState")
    /\ UNCHANGED <<object, brmVars, meta, unsure, careless, faults>>

Verdict(a, v) == verdicts' = [verdicts EXCEPT ![info[a].txn] = @ \cup {v}]

Committed(a) ==
    /\ Works(a, "committed")
    /\ Verdict(a, "committed")
    /\ Goto(a, "changeState")
    /\ UNCHANGED <<object, lock, lastId, weVars, unsure, careless, faults>>

(* Mistake: the lock is released where it should change to cleanup.        *)
ChangeStateReleases(a) ==
    /\ Works(a, "changeState")
    /\ lock' = IF Holds(a) THEN NoLock ELSE lock
    /\ Goto(a, "removeMeta")
    /\ UNCHANGED <<object, lastId, verdicts, weVars, unsure, careless, faults>>

(* The reply to a lock ID that does not exist is not looked at.            *)
ChangeState(a) ==
    /\ Works(a, "changeState")
    /\ lock' = IF Holds(a) THEN [lock EXCEPT !.state = "cleanup"] ELSE lock
    /\ Goto(a, "removeMeta")
    /\ UNCHANGED <<object, lastId, verdicts, weVars, unsure, careless, faults>>

(* Mistake: the loop over pmList leaves the last PM out.                   *)
RemoveMetaShort(a) ==
    /\ Works(a, "removeMeta")
    /\ meta' = [meta EXCEPT ![at[a]] = None]
    /\ IF at[a] + 1 < NumPM THEN LoopTo(a, "removeMeta", "release")
       ELSE /\ step' = [step EXCEPT ![a] = IF call[a] = "commit" THEN "release" ELSE "rolledback"]
            /\ at' = [at EXCEPT ![a] = 1] /\ UNCHANGED <<call, info>>
    /\ UNCHANGED <<object, brmVars, rows, unsure, careless, faults>>

(* weRemoveMeta names the table, and neither transaction nor lock.         *)
RemoveMeta(a) ==
    /\ Works(a, "removeMeta")
    /\ meta' = [meta EXCEPT ![at[a]] = None]
    /\ LoopTo(a, "removeMeta", IF call[a] = "commit" THEN "release" ELSE "rolledback")
    /\ UNCHANGED <<object, brmVars, rows, unsure, careless, faults>>

Rolledback(a) ==
    /\ Works(a, "rolledback")
    /\ Verdict(a, "rolledback")
    /\ Goto(a, "release")
    /\ UNCHANGED <<object, lock, lastId, weVars, unsure, careless, faults>>

(* Here, too, the reply that there is no such lock is ignored.             *)
Release(a) ==
    /\ Works(a, "release")
    /\ lock' = IF Holds(a) THEN NoLock ELSE lock
    /\ Ends(a)
    /\ object' = IF a \in Sessions THEN [object EXCEPT ![a] = "closed"] ELSE object
    /\ UNCHANGED <<lastId, verdicts, weVars, unsure, careless, faults>>

(* The release is executed and its reply is lost: the call throws, and an  *)
(* object is not closed.                                                   *)
ReleaseUnanswered(a) ==
    /\ Works(a, "release") /\ Fault
    /\ lock' = IF Holds(a) THEN NoLock ELSE lock
    /\ unsure' = IF a \in Sessions THEN unsure \cup {a} ELSE unsure
    /\ Ends(a)
    /\ UNCHANGED <<object, lastId, verdicts, weVars, careless>>

(* Any other command fails before or after its effect, which is the same   *)
(* as failing at the next one.                                             *)
Fail(a) ==
    /\ call[a] # "none" /\ Fault
    /\ Ends(a)
    /\ UNCHANGED <<object, brmVars, weVars, unsure, careless>>

-----------------------------------------------------------------------------
Session(s) ==
    \/ Create(s) \/ CreateRefused(s) \/ Commit(s) \/ Rollback(s) \/ Committed(s) \/ Die(s)
    \/ \E p \in PM : BulkInsert(s, p)
Cleaner(c) == List(c) \/ Clear(c)
Agent(a) == Undo(a) \/ ChangeState(a) \/ RemoveMeta(a) \/ Rolledback(a)
              \/ Release(a) \/ ReleaseUnanswered(a) \/ Fail(a)

Next ==
    \/ \E s \in Sessions : Session(s)
    \/ \E c \in Cleaners : Cleaner(c)
    \/ \E a \in Agents : Agent(a)

Spec == Init /\ [][Next]_vars

-----------------------------------------------------------------------------
(* Properties.  The first four are about locks that are cleared when their *)
(* owner is dead, by one cleaner at a time, as long as no session lost the *)
(* reply to its release: it would go on writing to a table that is not its *)
(* own any more.  Of two cleaners of one lock the slower goes on with the  *)
(* next owner of the table.                                                *)

Orderly == unsure = {} /\ careless = {}

Owns(s) == lock # NoLock /\ lock.owner = s

(* Rows of a transaction that is not committed are under the table lock of *)
(* that transaction: whoever takes the lock next does not find any, at     *)
(* whatever command the owner died or a clearTableLock() stopped.          *)
ResidueIsLocked ==
    Orderly =>
        \A s \in Sessions : (rows[s] # {} /\ "committed" \notin verdicts[s]) => Owns(s)

(* A session writes only under its lock, though it never asks for it after *)
(* its constructor.                                                        *)
WritesUnderLock ==
    [][Orderly => \A s \in Sessions : rows'[s] \subseteq rows[s] \/ Owns(s)]_vars

(* What one session has committed and closed no other one undoes, since    *)
(* no rollback files outlive the commit.                                   *)
CommittedRowsStay ==
    [][\A s \in Sessions :
          (object[s] = "closed" /\ Orderly) => rows'[s] = rows[s]]_vars

(* A clearTableLock() that returns has erased the transaction on all PMs   *)
(* and freed the table, unless its owner died with the transaction already *)
(* committed.                                                              *)
ClearErases ==
    [][\A c \in Cleaners :
          (Orderly /\ step[c] = "release" /\ step'[c] = "idle" /\ faults' = faults)
             => /\ lock' = NoLock
                /\ rows'[info[c].txn] = {} \/ "committed" \in verdicts[info[c].txn]]_vars

(* However locks are cleared, also with old information or by several at   *)
(* once: rows of a bulk insert that is open and has not called rollback()  *)
(* are undone only if the lock of a live owner was cleared before, or now, *)
(* by a clearTableLock() whose own lock is not there any more.             *)
LossHasACause ==
    [][\A s \in Sessions :
          (/\ object[s] = "active" /\ call[s] # "rollback" /\ s \notin unsure
           /\ ~(rows[s] \subseteq rows'[s]))
             => \/ "live" \in careless
                \/ \E c \in Cleaners : Works(c, "undo") /\ ~Holds(c)]_vars

(* The commit is atomic (src/docs/usage/introduction.rst:4): of what a     *)
(* transaction has stored when the BRM is told that it is committed,       *)
(* nothing is taken away again.  The code does not keep it: when the owner *)
(* dies between brmCommitted and weRemoveMeta, an orderly clearTableLock() *)
(* undoes the rows of all PMs, or of those whose files are still there.    *)
CommitIsAtomic ==
    [][Orderly =>
          \A s \in Sessions : "committed" \in verdicts[s] => rows[s] \subseteq rows'[s]]_vars

=============================================================================
