------------------------------ MODULE Catalog ------------------------------
(***************************************************************************)
(* The system catalog that a driver reads at its first use and keeps, in   *)
(* the hands of several threads: bulk inserts hold pointers into it for as *)
(* long as they live, isTableLocked() and clearTableLock() find the OID of *)
(* a table in it.  Meanwhile tables are created, altered and dropped by    *)
(* others.  ColumnStoreDriverImpl::getSystemCatalog() is not synchronized. *)
(*                                                                         *)
(* A catalog is known by the thread that fetched it.  Clearing one lock is *)
(* one step here; TableLocks has its commands.                             *)
(***************************************************************************)
EXTENDS Naturals, FiniteSets

CONSTANTS
    Threads,    \* threads that share one driver
    Names,      \* table names, as schema and table
    Layouts,    \* lists of columns with their types
    MaxOid,     \* bound: tables that are created
    MaxLock,    \* bound: locks that are granted
    MaxChanges, \* bound: tables altered and commands that fail
    Nobody      \* no thread, no layout

ASSUME CatalogAssumption ==
    /\ MaxOid \in Nat /\ MaxLock \in Nat /\ MaxChanges \in Nat
    /\ Names # {}
    /\ Nobody \notin Threads /\ Nobody \notin Layouts

Oid == 1 .. MaxOid
LockId == 1 .. MaxLock

(* ColumnStoreSystemCatalogTable.  A catalog has an entry for each of its  *)
(* tables; NoTable is what getTable() does not find.                       *)
Entry == [oid : Oid, layout : Layouts]
NoTable == [oid |-> 0, layout |-> Nobody]
Tables == [Names -> Entry \cup {NoTable}]

(* What the BRM knows of a lock.                                           *)
Lock == [id : LockId, oid : Oid]

VARIABLES
    tables,     \* BRM: the tables as they are now
    lastOid,    \* BRM: the last OID
    locks,      \* BRM: the table locks, at most one for an OID
    lastLock,   \* BRM: the last lock ID
    driver,     \* alive, or deleted
    systemCatalog, \* of the driver: the catalog it points to
    catalogs,   \* what a thread has fetched
    memory,     \* of that catalog: none, allocated or freed
    call,       \* of each thread: its call of the driver
    step,       \* where that is
    arg,        \* the table it names
    using,      \* the catalog that getSystemCatalog() returned
    listed,     \* the locks it has listed and not yet cleared
    bulk,       \* the bulk insert of a thread
    changes     \* tables altered and commands that failed

brmVars == <<tables, lastOid, locks, lastLock>>
cacheVars == <<driver, systemCatalog, catalogs, memory>>
callVars == <<call, step, arg, using, listed>>
vars == <<brmVars, cacheVars, callVars, bulk, changes>>

Calls == {"none", "createBulkInsert", "isTableLocked", "clearTableLock"}
Steps == {"idle", "fetch", "assign", "lookup", "lock", "list", "clear"}

(* tbl and name are the pointer to a table; columns is the copy of it that *)
(* connect() makes for the batches; rows has the tables whose types values *)
(* were converted to.                                                      *)
Bulk == [tbl : Threads, name : Names, columns : Entry, lock : {0} \cup LockId, rows : SUBSET Entry]
NoBulk == [tbl |-> Nobody]

TypeOK ==
    /\ tables \in Tables
    /\ lastOid \in 0 .. MaxOid
    /\ locks \in SUBSET Lock
    /\ lastLock \in 0 .. MaxLock
    /\ driver \in {"alive", "deleted"}
    /\ systemCatalog \in Threads \cup {Nobody}
    /\ catalogs \in [Threads -> Tables]
    /\ memory \in [Threads -> {"none", "allocated", "freed"}]
    /\ call \in [Threads -> Calls]
    /\ step \in [Threads -> Steps]
    /\ arg \in [Threads -> Names]
    /\ using \in [Threads -> Threads \cup {Nobody}]
    /\ listed \in [Threads -> SUBSET Lock]
    /\ bulk \in [Threads -> Bulk \cup {NoBulk}]
    /\ changes \in 0 .. MaxChanges

AnyName == CHOOSE n \in Names : TRUE
NoTables == [n \in Names |-> NoTable]

Init ==
    /\ tables = NoTables /\ lastOid = 0
    /\ locks = {} /\ lastLock = 0
    /\ driver = "alive" /\ systemCatalog = Nobody
    /\ catalogs = [t \in Threads |-> NoTables]
    /\ memory = [t \in Threads |-> "none"]
    /\ call = [t \in Threads |-> "none"]
    /\ step = [t \in Threads |-> "idle"]
    /\ arg = [t \in Threads |-> AnyName]
    /\ using = [t \in Threads |-> Nobody]
    /\ listed = [t \in Threads |-> {}]
    /\ bulk = [t \in Threads |-> NoBulk]
    /\ changes = 0

Changes == changes < MaxChanges /\ changes' = changes + 1

-----------------------------------------------------------------------------
(* Tables, as others change them.  A table that is locked is not altered   *)
(* or dropped.                                                             *)

LocksOn(o) == {l \in locks : l.oid = o}

CreateTable(n, y) ==
    /\ tables[n] = NoTable /\ lastOid < MaxOid
    /\ lastOid' = lastOid + 1
    /\ tables' = [tables EXCEPT ![n] = [oid |-> lastOid + 1, layout |-> y]]
    /\ UNCHANGED <<locks, lastLock, cacheVars, callVars, bulk, changes>>

AlterTable(n, y) ==
    /\ tables[n] # NoTable /\ LocksOn(tables[n].oid) = {} /\ y # tables[n].layout
    /\ Changes
    /\ tables' = [tables EXCEPT ![n].layout = y]
    /\ UNCHANGED <<lastOid, locks, lastLock, cacheVars, callVars, bulk>>

DropTable(n) ==
    /\ tables[n] # NoTable /\ LocksOn(tables[n].oid) = {}
    /\ tables' = [tables EXCEPT ![n] = NoTable]
    /\ UNCHANGED <<lastOid, locks, lastLock, cacheVars, callVars, bulk, changes>>

-----------------------------------------------------------------------------
(* The catalog.  Beside an action there may be a mistake that its code     *)
(* could have; it breaks a property when it takes the place of the action. *)

At(t, s) == call[t] # "none" /\ step[t] = s
Goto(t, s) == step' = [step EXCEPT ![t] = s] /\ UNCHANGED <<call, arg>>

(* The call returns or throws.                                             *)
Ends(t) ==
    /\ call' = [call EXCEPT ![t] = "none"]
    /\ step' = [step EXCEPT ![t] = "idle"]
    /\ using' = [using EXCEPT ![t] = Nobody]
    /\ listed' = [listed EXCEPT ![t] = {}]
    /\ arg' = [arg EXCEPT ![t] = AnyName]

(* All three calls begin with getSystemCatalog(), which returns what it    *)
(* has, and fetches the catalog when it has none.                          *)
Call(t, c, n) ==
    /\ driver = "alive" /\ call[t] = "none"
    /\ c = "createBulkInsert" => bulk[t] = NoBulk
    /\ call' = [call EXCEPT ![t] = c]
    /\ arg' = [arg EXCEPT ![t] = n]
    /\ step' = [step EXCEPT ![t] = IF systemCatalog = Nobody THEN "fetch" ELSE "lookup"]
    /\ using' = [using EXCEPT ![t] = systemCatalog]
    /\ UNCHANGED <<brmVars, cacheVars, listed, bulk, changes>>

(* brmGetSystemCatalog(): a copy of all tables.                            *)
Fetch(t) ==
    /\ At(t, "fetch")
    /\ catalogs' = [catalogs EXCEPT ![t] = tables]
    /\ memory' = [memory EXCEPT ![t] = "allocated"]
    /\ Goto(t, "assign")
    /\ UNCHANGED <<brmVars, driver, systemCatalog, using, listed, bulk, changes>>

(* Mistake: the catalog that another thread has assigned meanwhile, and    *)
(* that would be lost, is freed.                                           *)
AssignFrees(t) ==
    /\ At(t, "assign")
    /\ systemCatalog' = t
    /\ using' = [using EXCEPT ![t] = t]
    /\ memory' = [u \in Threads |-> IF u = systemCatalog THEN "freed" ELSE memory[u]]
    /\ Goto(t, "lookup")
    /\ UNCHANGED <<brmVars, driver, catalogs, listed, bulk, changes>>

(* The member is written, over what another thread may have written.       *)
Assign(t) ==
    /\ At(t, "assign")
    /\ systemCatalog' = t
    /\ using' = [using EXCEPT ![t] = t]
    /\ Goto(t, "lookup")
    /\ UNCHANGED <<brmVars, driver, catalogs, memory, listed, bulk, changes>>

(* On both ways the member is read once more for the return, if the        *)
(* compiler does so, and another thread may have written it since.         *)
Reread(t) ==
    /\ At(t, "lookup") /\ using[t] # systemCatalog
    /\ using' = [using EXCEPT ![t] = systemCatalog]
    /\ UNCHANGED <<brmVars, cacheVars, call, step, arg, listed, bulk, changes>>

(* ColumnStoreServerError, or an error of the network: the driver is as it *)
(* was.                                                                    *)
FetchFails(t) ==
    /\ At(t, "fetch") /\ Changes
    /\ Ends(t)
    /\ UNCHANGED <<brmVars, cacheVars, bulk>>

(* ColumnStoreSystemCatalog::getTable().                                   *)
Found(t) == catalogs[using[t]][arg[t]]

TableNotFound(t) ==
    /\ At(t, "lookup") /\ Found(t) = NoTable
    /\ Ends(t)
    /\ UNCHANGED <<brmVars, cacheVars, bulk, changes>>

-----------------------------------------------------------------------------
(* Bulk inserts.                                                           *)

(* Mistake: a table that was not found is taken for one.                   *)
ConnectUnchecked(t) ==
    /\ At(t, "lookup") /\ call[t] = "createBulkInsert"
    /\ bulk' = [bulk EXCEPT ![t] =
          [tbl |-> using[t], name |-> arg[t], columns |-> Found(t), lock |-> 0, rows |-> {}]]
    /\ Goto(t, "lock")
    /\ UNCHANGED <<brmVars, cacheVars, using, listed, changes>>

(* connect() keeps the pointer, and copies OIDs and names of the columns.  *)
Connect(t) ==
    /\ At(t, "lookup") /\ call[t] = "createBulkInsert" /\ Found(t) # NoTable
    /\ bulk' = [bulk EXCEPT ![t] =
          [tbl |-> using[t], name |-> arg[t], columns |-> Found(t), lock |-> 0, rows |-> {}]]
    /\ Goto(t, "lock")
    /\ UNCHANGED <<brmVars, cacheVars, using, listed, changes>>

(* The table that the object points to, of which setColumn() takes the     *)
(* types.  Mistake: it is looked up again in the catalog of the driver.    *)
TableAnew(t) == catalogs[systemCatalog][bulk[t].name]
Table(t) == catalogs[bulk[t].tbl][bulk[t].name]

(* The lock is asked for by the OID of the table in that catalog.          *)
GetTableLock(t) ==
    /\ At(t, "lock") /\ LocksOn(Table(t).oid) = {} /\ lastLock < MaxLock
    /\ lastLock' = lastLock + 1
    /\ locks' = locks \cup {[id |-> lastLock + 1, oid |-> Table(t).oid]}
    /\ bulk' = [bulk EXCEPT ![t].lock = lastLock + 1]
    /\ Ends(t)
    /\ UNCHANGED <<tables, lastOid, cacheVars, changes>>

TableLocked(t) ==
    /\ At(t, "lock") /\ LocksOn(Table(t).oid) # {}
    /\ bulk' = [bulk EXCEPT ![t] = NoBulk]
    /\ Ends(t)
    /\ UNCHANGED <<brmVars, cacheVars, changes>>

(* A command behind the lock fails: there is no object, and the lock stays.*)
ConnectFails(t) ==
    /\ At(t, "lock") /\ LocksOn(Table(t).oid) = {} /\ lastLock < MaxLock
    /\ Changes
    /\ lastLock' = lastLock + 1
    /\ locks' = locks \cup {[id |-> lastLock + 1, oid |-> Table(t).oid]}
    /\ bulk' = [bulk EXCEPT ![t] = NoBulk]
    /\ Ends(t)
    /\ UNCHANGED <<tables, lastOid, cacheVars>>

Usable(t) == bulk[t] # NoBulk /\ call[t] # "createBulkInsert"

SetColumn(t) ==
    /\ Usable(t) /\ call[t] = "none"
    /\ bulk' = [bulk EXCEPT ![t].rows = @ \cup {Table(t)}]
    /\ UNCHANGED <<brmVars, cacheVars, callVars, changes>>

(* commit() or rollback(), and the destructor.                             *)
Close(t) ==
    /\ Usable(t) /\ call[t] = "none"
    /\ locks' = {l \in locks : l.id # bulk[t].lock}
    /\ bulk' = [bulk EXCEPT ![t] = NoBulk]
    /\ UNCHANGED <<tables, lastOid, lastLock, cacheVars, callVars, changes>>

-----------------------------------------------------------------------------
(* isTableLocked(), clearTableLock() by name, and the driver's end.        *)

FindTable(t) ==
    /\ At(t, "lookup") /\ call[t] # "createBulkInsert" /\ Found(t) # NoTable
    /\ Goto(t, "list")
    /\ UNCHANGED <<brmVars, cacheVars, using, listed, bulk, changes>>

(* listTableLocks() is a copy of all locks, of which those with the OID of *)
(* the table are looked at.                                                *)
IsTableLocked(t) ==
    /\ At(t, "list") /\ call[t] = "isTableLocked"
    /\ Ends(t)
    /\ UNCHANGED <<brmVars, cacheVars, bulk, changes>>

List(t) ==
    /\ At(t, "list") /\ call[t] = "clearTableLock"
    /\ listed' = [listed EXCEPT ![t] = LocksOn(Found(t).oid)]
    /\ Goto(t, "clear")
    /\ UNCHANGED <<brmVars, cacheVars, using, bulk, changes>>

(* Mistake: the lock of the table is released, whichever it is by now.     *)
ClearOneByTable(t) ==
    /\ At(t, "clear")
    /\ \E l \in listed[t] :
          /\ locks' = {k \in locks : k.oid # l.oid}
          /\ listed' = [listed EXCEPT ![t] = @ \ {l}]
    /\ UNCHANGED <<tables, lastOid, lastLock, cacheVars, call, step, arg, using, bulk, changes>>

(* clearTableLock(TableLockInfo) releases the lock by its ID, if it is     *)
(* still there.                                                            *)
ClearOne(t) ==
    /\ At(t, "clear")
    /\ \E l \in listed[t] :
          /\ locks' = {k \in locks : k.id # l.id}
          /\ listed' = [listed EXCEPT ![t] = @ \ {l}]
    /\ UNCHANGED <<tables, lastOid, lastLock, cacheVars, call, step, arg, using, bulk, changes>>

Cleared(t) ==
    /\ At(t, "clear") /\ listed[t] = {}
    /\ Ends(t)
    /\ UNCHANGED <<brmVars, cacheVars, bulk, changes>>

(* A command fails: the locks that are left are not cleared.               *)
CallFails(t) ==
    /\ step[t] \in {"list", "clear"} /\ Changes
    /\ Ends(t)
    /\ UNCHANGED <<brmVars, cacheVars, bulk>>

(* The application deletes its bulk inserts before their driver.           *)
DeleteDriver ==
    /\ driver = "alive"
    /\ \A t \in Threads : call[t] = "none" /\ bulk[t] = NoBulk
    /\ driver' = "deleted"
    /\ memory' = [t \in Threads |-> IF t = systemCatalog THEN "freed" ELSE memory[t]]
    /\ UNCHANGED <<brmVars, systemCatalog, catalogs, callVars, bulk, changes>>

-----------------------------------------------------------------------------
Others(n) == DropTable(n) \/ \E y \in Layouts : CreateTable(n, y) \/ AlterTable(n, y)

GetCatalog(t) == Fetch(t) \/ Assign(t) \/ Reread(t) \/ FetchFails(t) \/ TableNotFound(t)
BulkInsert(t) == Connect(t) \/ GetTableLock(t) \/ TableLocked(t) \/ ConnectFails(t)
                    \/ SetColumn(t) \/ Close(t)
TableLocks(t) == FindTable(t) \/ IsTableLocked(t) \/ List(t) \/ ClearOne(t) \/ Cleared(t)
                    \/ CallFails(t)

Next ==
    \/ \E n \in Names : Others(n)
    \/ \E t \in Threads, n \in Names, c \in Calls \ {"none"} : Call(t, c, n)
    \/ \E t \in Threads : GetCatalog(t) \/ BulkInsert(t) \/ TableLocks(t)
    \/ DeleteDriver

Spec == Init /\ [][Next]_vars

-----------------------------------------------------------------------------
(* Properties.                                                             *)

(* Whatever points to a catalog points to one that is allocated: no thread *)
(* that was second at the first use of the driver takes it from another,   *)
(* and the bulk inserts of a driver are gone before it is.                 *)
TableAlive ==
    \A t \in Threads :
        /\ step[t] \in {"lookup", "list", "clear"} => memory[using[t]] = "allocated"
        /\ bulk[t] # NoBulk => memory[bulk[t].tbl] = "allocated"

(* The columns of the batches, the types that values are converted to and  *)
(* the OID that was locked are of one table as it was at one time, though  *)
(* the threads of a driver may have catalogs of different times.           *)
OneView ==
    \A t \in Threads : bulk[t] # NoBulk =>
        /\ bulk[t].rows \subseteq {bulk[t].columns}
        /\ \A l \in locks : l.id = bulk[t].lock => l.oid = bulk[t].columns.oid

(* A lock goes with the object that has it, or with a clearTableLock() of  *)
(* a table with its OID that saw it: never one that was granted later, and *)
(* never one of another table.                                             *)
ClearsWhatItSaw ==
    [][\A l \in locks \ locks' : \E t \in Threads :
          \/ bulk[t] # NoBulk /\ bulk[t].lock = l.id /\ bulk'[t] = NoBulk
          \/ l \in listed[t] /\ l.oid = Found(t).oid]_vars

=============================================================================
