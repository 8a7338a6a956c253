---------------------------- MODULE CatalogProofs ----------------------------
(* Theorems about Catalog, for any threads, tables and bounds.             *)
EXTENDS Catalog, TLAPS

-----------------------------------------------------------------------------
(* The inductive invariant.  A thread fetches at most one catalog, and     *)
(* nothing changes it afterwards: what it would find in it later is what   *)
(* it has found.                                                           *)

Pointers ==
    /\ driver = "deleted" => \A t \in Threads : step[t] = "idle" /\ bulk[t] = NoBulk
    /\ driver = "alive" => \A t \in Threads : memory[t] # "freed"
    /\ systemCatalog # Nobody => memory[systemCatalog] # "none"
    /\ \A t \in Threads :
        /\ call[t] = "none" => step[t] = "idle"
        /\ step[t] = "fetch" => memory[t] = "none"
        /\ step[t] = "assign" => memory[t] # "none"
        /\ (memory[t] # "none" /\ step[t] # "assign") => systemCatalog # Nobody
        /\ step[t] \in {"lookup", "lock", "list", "clear"}
              => using[t] # Nobody /\ memory[using[t]] # "none" /\ systemCatalog # Nobody
        /\ bulk[t] # NoBulk => memory[bulk[t].tbl] # "none"

Objects ==
    \A t \in Threads :
        /\ bulk[t] # NoBulk => /\ Table(t) = bulk[t].columns
                               /\ bulk[t].rows \subseteq {bulk[t].columns}
                               /\ bulk[t].lock <= lastLock
                               /\ \A l \in locks : l.id = bulk[t].lock => l.oid = bulk[t].columns.oid
        /\ step[t] = "lock" => bulk[t] # NoBulk
        /\ step[t] \in {"list", "clear"} => Found(t) # NoTable

Listed ==
    /\ \A k \in locks : k.id <= lastLock /\ \A l \in locks : k.id = l.id => k = l
    /\ \A t \in Threads : \A k \in listed[t] :
          /\ step[t] = "clear" /\ k.oid = Found(t).oid /\ k.id <= lastLock
          /\ \A l \in locks : k.id = l.id => k = l

IInv == TypeOK /\ Pointers /\ Objects /\ Listed


LEMMA Facts ==
    ASSUME IInv, NEW t \in Threads
    PROVE  /\ bulk[t] \in Bulk \/ bulk[t] = NoBulk
           /\ step[t] \in {"lookup", "lock", "list", "clear"} => Found(t) \in Entry \cup {NoTable}
           /\ bulk[t] # NoBulk => /\ Table(t) \in Entry /\ Table(t) = bulk[t].columns
                                  /\ bulk[t].tbl \in Threads /\ bulk[t].name \in Names
           /\ \A o \in Nat : LocksOn(o) \in SUBSET Lock
<1>1. bulk[t] \in Bulk \/ bulk[t] = NoBulk
  BY DEF IInv, TypeOK
<1>2. bulk[t] # NoBulk => /\ bulk[t].columns \in Entry
                          /\ bulk[t].tbl \in Threads /\ bulk[t].name \in Names
  BY <1>1 DEF Bulk
<1>3. bulk[t] # NoBulk => Table(t) = bulk[t].columns
  BY DEF IInv, Objects
<1>4. step[t] \in {"lookup", "lock", "list", "clear"} => using[t] \in Threads
  BY DEF IInv, TypeOK, Pointers
<1>5. step[t] \in {"lookup", "lock", "list", "clear"} => Found(t) \in Entry \cup {NoTable}
  BY <1>4 DEF IInv, TypeOK, Found, Tables
<1>6. \A o \in Nat : LocksOn(o) \in SUBSET Lock
  BY DEF IInv, TypeOK, LocksOn
<1> QED
  BY <1>1, <1>2, <1>3, <1>5, <1>6

(* What a thread does to its call.                                         *)
CallOK ==
    /\ call \in [Threads -> Calls]
    /\ step \in [Threads -> Steps]
    /\ arg \in [Threads -> Names]
    /\ using \in [Threads -> Threads \cup {Nobody}]
    /\ listed \in [Threads -> SUBSET Lock]

LEMMA AnyNames == AnyName \in Names
BY CatalogAssumption DEF AnyName

LEMMA CallMoves ==
    ASSUME TypeOK, NEW t \in Threads
    PROVE  /\ UNCHANGED callVars => CallOK'
           /\ Ends(t) => /\ CallOK'
                         /\ call'[t] = "none" /\ step'[t] = "idle" /\ listed'[t] = {}
                         /\ \A u \in Threads \ {t} :
                               /\ call'[u] = call[u] /\ step'[u] = step[u] /\ arg'[u] = arg[u]
                               /\ using'[u] = using[u] /\ listed'[u] = listed[u]
           /\ \A s \in Steps :
                 Goto(t, s) => /\ call' = call /\ arg' = arg /\ step' \in [Threads -> Steps]
                               /\ step'[t] = s
                               /\ \A u \in Threads \ {t} : step'[u] = step[u]
<1>1. UNCHANGED callVars => CallOK'
  BY DEF TypeOK, CallOK, callVars
<1>2. Ends(t) => CallOK'
  BY AnyNames DEF TypeOK, CallOK, Ends, Calls, Steps
<1>3. Ends(t) => /\ call'[t] = "none" /\ step'[t] = "idle" /\ listed'[t] = {}
                 /\ \A u \in Threads \ {t} :
                       /\ call'[u] = call[u] /\ step'[u] = step[u] /\ arg'[u] = arg[u]
                       /\ using'[u] = using[u] /\ listed'[u] = listed[u]
  BY DEF TypeOK, Ends
<1>4. ASSUME NEW s \in Steps, Goto(t, s)
      PROVE  /\ call' = call /\ arg' = arg /\ step' \in [Threads -> Steps]
             /\ step'[t] = s
             /\ \A u \in Threads \ {t} : step'[u] = step[u]
  BY <1>4 DEF TypeOK, Goto
<1> QED
  BY <1>1, <1>2, <1>3, <1>4

LEMMA NextTypes == IInv /\ [Next]_vars => TypeOK'
<1> SUFFICES ASSUME IInv, [Next]_vars PROVE TypeOK'
  OBVIOUS
<1> USE CatalogAssumption
<1>0. TypeOK
  BY DEF IInv
<1>1. (/\ CallOK'
       /\ tables' \in Tables /\ lastOid' \in 0 .. MaxOid
       /\ locks' \in SUBSET Lock /\ lastLock' \in 0 .. MaxLock
       /\ driver' \in {"alive", "deleted"}
       /\ systemCatalog' \in Threads \cup {Nobody}
       /\ catalogs' \in [Threads -> Tables]
       /\ memory' \in [Threads -> {"none", "allocated", "freed"}]
       /\ bulk' \in [Threads -> Bulk \cup {NoBulk}]
       /\ changes' \in 0 .. MaxChanges) => TypeOK'
  BY DEF TypeOK, CallOK
<1>2. Changes => changes' \in 0 .. MaxChanges
  BY <1>0 DEF Changes, TypeOK
<1>3. ASSUME NEW n \in Names, Others(n) PROVE TypeOK'
  <2>1. CallOK' /\ UNCHANGED <<locks, lastLock, cacheVars, bulk>>
    BY <1>0, <1>3 DEF Others, DropTable, CreateTable, AlterTable, CallOK, TypeOK, callVars
  <2>2. tables' \in Tables /\ lastOid' \in 0 .. MaxOid
    <3>1. CASE DropTable(n)
      BY <1>0, <3>1 DEF DropTable, TypeOK, Tables
    <3>2. ASSUME NEW y \in Layouts, CreateTable(n, y) PROVE tables' \in Tables /\ lastOid' \in 0 .. MaxOid
      <4>1. lastOid + 1 \in Oid
        BY <1>0, <3>2 DEF CreateTable, TypeOK, Oid
      <4> QED
        BY <1>0, <3>2, <4>1 DEF CreateTable, TypeOK, Tables, Entry, Oid
    <3>3. ASSUME NEW y \in Layouts, AlterTable(n, y) PROVE tables' \in Tables /\ lastOid' \in 0 .. MaxOid
      <4>1. tables[n] \in Entry
        BY <1>0, <3>3 DEF AlterTable, TypeOK, Tables
      <4>2. [tables[n] EXCEPT !.layout = y] \in Entry
        BY <4>1 DEF Entry
      <4> QED
        BY <1>0, <3>3, <4>2 DEF AlterTable, TypeOK, Tables
    <3> QED
      BY <1>3, <3>1, <3>2, <3>3 DEF Others
  <2>3. changes' \in 0 .. MaxChanges
    BY <1>0, <1>2, <1>3 DEF Others, DropTable, CreateTable, AlterTable, TypeOK
  <2> QED
    BY <1>0, <1>1, <2>1, <2>2, <2>3 DEF TypeOK, cacheVars
<1>4. ASSUME NEW t \in Threads, NEW n \in Names, NEW c \in Calls \ {"none"}, Call(t, c, n)
      PROVE  TypeOK'
  <2>1. CallOK'
    BY <1>0, <1>4 DEF Call, TypeOK, CallOK, Steps
  <2> QED
    BY <1>0, <1>1, <1>4, <2>1 DEF Call, TypeOK, brmVars, cacheVars
<1>5. ASSUME NEW t \in Threads, Fetch(t) PROVE TypeOK'
  BY <1>0, <1>5 DEF Fetch, Goto, Steps, TypeOK, brmVars
<1>6. ASSUME NEW t \in Threads, Assign(t) PROVE TypeOK'
  BY <1>0, <1>6 DEF Assign, Goto, Steps, TypeOK, brmVars
<1>7. ASSUME NEW t \in Threads, Reread(t) PROVE TypeOK'
  BY <1>0, <1>7 DEF Reread, TypeOK, brmVars, cacheVars
<1>8. ASSUME NEW t \in Threads, Ends(t), UNCHANGED <<brmVars, cacheVars, bulk>>,
             Changes \/ UNCHANGED changes
      PROVE  TypeOK'
  BY <1>0, <1>1, <1>2, <1>8, CallMoves DEF TypeOK, brmVars, cacheVars
<1>9. ASSUME NEW t \in Threads, Connect(t) PROVE TypeOK'
  <2>1. using[t] \in Threads /\ Found(t) \in Entry /\ arg[t] \in Names
    BY <1>0, <1>9, Facts DEF Connect, At, IInv, Pointers, TypeOK
  <2>2. [tbl |-> using[t], name |-> arg[t], columns |-> Found(t), lock |-> 0, rows |-> {}] \in Bulk
    BY <2>1 DEF Bulk
  <2> QED
    BY <1>0, <1>9, <2>2 DEF Connect, Goto, Steps, TypeOK, brmVars, cacheVars
<1>10. ASSUME NEW t \in Threads, GetTableLock(t) \/ ConnectFails(t) PROVE TypeOK'
  <2>1. bulk[t] \in Bulk /\ Table(t) \in Entry
    BY <1>0, <1>10, Facts DEF GetTableLock, ConnectFails, At, IInv, Objects
  <2>2. lastLock + 1 \in LockId /\ Table(t).oid \in Oid
    BY <1>0, <1>10, <2>1 DEF GetTableLock, ConnectFails, TypeOK, LockId, Entry
  <2>3. locks' \in SUBSET Lock /\ lastLock' \in 0 .. MaxLock
    BY <1>0, <1>10, <2>2 DEF GetTableLock, ConnectFails, TypeOK, Lock, LockId
  <2>4. bulk' \in [Threads -> Bulk \cup {NoBulk}]
    <3>1. [bulk[t] EXCEPT !.lock = lastLock + 1] \in Bulk
      BY <2>1, <2>2 DEF Bulk
    <3> QED
      BY <1>0, <1>10, <3>1 DEF GetTableLock, ConnectFails, TypeOK
  <2>5. CallOK'
    BY <1>0, <1>10, CallMoves DEF GetTableLock, ConnectFails
  <2>6. changes' \in 0 .. MaxChanges /\ UNCHANGED <<tables, lastOid, cacheVars>>
    BY <1>0, <1>2, <1>10 DEF GetTableLock, ConnectFails, TypeOK
  <2> QED
    BY <1>0, <1>1, <2>3, <2>4, <2>5, <2>6 DEF TypeOK, cacheVars
<1>11. ASSUME NEW t \in Threads, TableLocked(t) PROVE TypeOK'
  BY <1>0, <1>1, <1>11, CallMoves DEF TableLocked, TypeOK, brmVars, cacheVars
<1>12. ASSUME NEW t \in Threads, SetColumn(t) PROVE TypeOK'
  <2>1. bulk[t] \in Bulk /\ Table(t) \in Entry
    BY <1>12, Facts DEF SetColumn, Usable
  <2>2. [bulk[t] EXCEPT !.rows = @ \cup {Table(t)}] \in Bulk
    BY <2>1 DEF Bulk
  <2> QED
    BY <1>0, <1>12, <2>2 DEF SetColumn, TypeOK, brmVars, cacheVars, callVars
<1>13. ASSUME NEW t \in Threads, Close(t) PROVE TypeOK'
  BY <1>0, <1>13 DEF Close, TypeOK, cacheVars, callVars
<1>14. ASSUME NEW t \in Threads, FindTable(t) PROVE TypeOK'
  BY <1>0, <1>14 DEF FindTable, Goto, Steps, TypeOK, brmVars, cacheVars
<1>15. ASSUME NEW t \in Threads, List(t) PROVE TypeOK'
  <2>1. LocksOn(Found(t).oid) \in SUBSET Lock
    BY <1>0 DEF LocksOn, TypeOK
  <2> QED
    BY <1>0, <1>15, <2>1 DEF List, Goto, Steps, TypeOK, brmVars, cacheVars
<1>16. ASSUME NEW t \in Threads, ClearOne(t) PROVE TypeOK'
  BY <1>0, <1>16 DEF ClearOne, TypeOK, cacheVars
<1>17. CASE DeleteDriver
  BY <1>0, <1>17 DEF DeleteDriver, TypeOK, brmVars, callVars
<1>18. CASE UNCHANGED vars
  BY <1>0, <1>18 DEF TypeOK, vars, brmVars, cacheVars, callVars
<1> QED
  BY <1>3, <1>4, <1>5, <1>6, <1>7, <1>8, <1>9, <1>10, <1>11, <1>12, <1>13, <1>14, <1>15, <1>16,
     <1>17, <1>18 DEF Next, GetCatalog, BulkInsert, TableLocks, FetchFails, TableNotFound,
     IsTableLocked, Cleared, CallFails

-----------------------------------------------------------------------------
(* Pointers: a catalog that was fetched once is never fetched again, and   *)
(* freed with the driver only.                                             *)

PointersOf(t) ==
    /\ call[t] = "none" => step[t] = "idle"
    /\ step[t] = "fetch" => memory[t] = "none"
    /\ step[t] = "assign" => memory[t] # "none"
    /\ (memory[t] # "none" /\ step[t] # "assign") => systemCatalog # Nobody
    /\ step[t] \in {"lookup", "lock", "list", "clear"}
          => using[t] # Nobody /\ memory[using[t]] # "none" /\ systemCatalog # Nobody
    /\ bulk[t] # NoBulk => memory[bulk[t].tbl] # "none"

LEMMA NextPointers == IInv /\ [Next]_vars => Pointers'
<1> SUFFICES ASSUME IInv, [Next]_vars PROVE Pointers'
  OBVIOUS
<1> USE CatalogAssumption
<1>0. TypeOK /\ Pointers /\ \A t \in Threads : PointersOf(t)
  BY DEF IInv, Pointers, PointersOf
<1>1. (/\ driver' = "deleted" => \A t \in Threads : step'[t] = "idle" /\ bulk'[t] = NoBulk
       /\ driver' = "alive" => \A t \in Threads : memory'[t] # "freed"
       /\ systemCatalog' # Nobody => memory'[systemCatalog'] # "none"
       /\ \A t \in Threads : PointersOf(t)') => Pointers'
  BY DEF Pointers, PointersOf
<1>2. CASE UNCHANGED <<driver, systemCatalog, memory, call, step, using, bulk>>
  BY <1>0, <1>2 DEF Pointers
<1>3. ASSUME NEW t \in Threads, NEW n \in Names, NEW c \in Calls \ {"none"}, Call(t, c, n)
      PROVE  Pointers'
  <2>1. /\ driver = "alive" /\ step[t] = "idle" /\ UNCHANGED <<cacheVars, bulk>>
        /\ call'[t] # "none" /\ using'[t] = systemCatalog
        /\ step'[t] = IF systemCatalog = Nobody THEN "fetch" ELSE "lookup"
        /\ \A u \in Threads \ {t} : call'[u] = call[u] /\ step'[u] = step[u] /\ using'[u] = using[u]
    BY <1>0, <1>3 DEF Call, TypeOK, PointersOf
  <2>2. PointersOf(t)'
    BY <1>0, <2>1 DEF Pointers, PointersOf, cacheVars
  <2>3. ASSUME NEW u \in Threads \ {t} PROVE PointersOf(u)'
    BY <1>0, <2>1 DEF PointersOf, cacheVars
  <2> QED
    BY <1>0, <1>1, <2>1, <2>2, <2>3 DEF Pointers, cacheVars
<1>4. ASSUME NEW t \in Threads, Fetch(t) PROVE Pointers'
  <2>1. /\ step[t] = "fetch" /\ call[t] # "none" /\ memory' = [memory EXCEPT ![t] = "allocated"]
        /\ step'[t] = "assign" /\ \A u \in Threads \ {t} : step'[u] = step[u]
        /\ UNCHANGED <<driver, systemCatalog, call, using, bulk>>
    BY <1>0, <1>4 DEF Fetch, At, Goto, TypeOK
  <2>2. memory'[t] = "allocated" /\ \A u \in Threads \ {t} : memory'[u] = memory[u]
    BY <1>0, <2>1 DEF TypeOK
  <2>3. PointersOf(t)'
    <3>1. bulk[t] # NoBulk => bulk[t].tbl \in Threads
      BY Facts
    <3> QED
      BY <1>0, <2>1, <2>2, <3>1 DEF PointersOf
  <2>4. ASSUME NEW u \in Threads \ {t} PROVE PointersOf(u)'
    <3>1. bulk[u] # NoBulk => bulk[u].tbl \in Threads
      BY Facts
    <3>2. using[u] # Nobody => using[u] \in Threads
      BY <1>0 DEF TypeOK
    <3> QED
      BY <1>0, <2>1, <2>2, <3>1, <3>2 DEF PointersOf
  <2> QED
    BY <1>0, <1>1, <2>1, <2>2, <2>3, <2>4 DEF Pointers, TypeOK
<1>5. ASSUME NEW t \in Threads, Assign(t) PROVE Pointers'
  <2>1. /\ step[t] = "assign" /\ call[t] # "none" /\ systemCatalog' = t
        /\ step'[t] = "lookup" /\ using'[t] = t
        /\ \A u \in Threads \ {t} : step'[u] = step[u] /\ using'[u] = using[u]
        /\ UNCHANGED <<driver, memory, call, bulk>>
    BY <1>0, <1>5 DEF Assign, At, Goto, TypeOK
  <2> QED
    BY <1>0, <1>1, <2>1 DEF Pointers, PointersOf
<1>6. ASSUME NEW t \in Threads, Reread(t) PROVE Pointers'
  <2>1. /\ step[t] = "lookup" /\ using'[t] = systemCatalog
        /\ \A u \in Threads \ {t} : using'[u] = using[u]
        /\ UNCHANGED <<cacheVars, call, step, bulk>>
    BY <1>0, <1>6 DEF Reread, At, TypeOK
  <2> QED
    BY <1>0, <1>1, <2>1 DEF Pointers, PointersOf, cacheVars
<1>7. ASSUME NEW t \in Threads, Ends(t), UNCHANGED cacheVars,
             \A u \in Threads : bulk'[u] = NoBulk \/ (bulk[u] # NoBulk /\ bulk'[u].tbl = bulk[u].tbl),
             step[t] # "assign"
      PROVE  Pointers'
  <2>1. /\ call'[t] = "none" /\ step'[t] = "idle"
        /\ \A u \in Threads \ {t} : call'[u] = call[u] /\ step'[u] = step[u] /\ using'[u] = using[u]
    BY <1>0, <1>7, CallMoves
  <2>2. PointersOf(t)'
    BY <1>0, <1>7, <2>1 DEF PointersOf, cacheVars
  <2>3. ASSUME NEW u \in Threads \ {t} PROVE PointersOf(u)'
    BY <1>0, <1>7, <2>1 DEF PointersOf, cacheVars
  <2> QED
    BY <1>0, <1>1, <1>7, <2>1, <2>2, <2>3 DEF Pointers, cacheVars
<1>8. ASSUME NEW t \in Threads, NEW s \in {"lock", "list", "clear"}, Goto(t, s),
             step[t] \in {"lookup", "list"}, UNCHANGED <<cacheVars, using>>,
             \A u \in Threads : bulk'[u] = bulk[u] \/ (u = t /\ bulk'[u].tbl = using[t])
      PROVE  Pointers'
  <2>1. /\ call' = call /\ step'[t] = s /\ \A u \in Threads \ {t} : step'[u] = step[u]
    BY <1>0, <1>8 DEF Goto, TypeOK
  <2>2. PointersOf(t)'
    BY <1>0, <1>8, <2>1 DEF PointersOf, cacheVars
  <2>3. ASSUME NEW u \in Threads \ {t} PROVE PointersOf(u)'
    BY <1>0, <1>8, <2>1 DEF PointersOf, cacheVars
  <2> QED
    BY <1>0, <1>1, <1>8, <2>1, <2>2, <2>3 DEF Pointers, cacheVars
<1>9. ASSUME NEW t \in Threads, SetColumn(t) \/ Close(t) PROVE Pointers'
  <2>1. /\ UNCHANGED <<cacheVars, callVars>>
        /\ \A u \in Threads : \/ bulk'[u] = NoBulk \/ bulk'[u] = bulk[u]
                              \/ bulk[u] # NoBulk /\ bulk'[u].tbl = bulk[u].tbl
    BY <1>0, <1>9, Facts DEF SetColumn, Close, Usable, TypeOK, Bulk
  <2>2. ASSUME NEW u \in Threads PROVE PointersOf(u)'
    BY <1>0, <2>1 DEF PointersOf, cacheVars, callVars
  <2> QED
    BY <1>0, <1>1, <2>1, <2>2 DEF Pointers, cacheVars, callVars
<1>10. CASE DeleteDriver
  <2>1. /\ \A t \in Threads : call[t] = "none" /\ bulk[t] = NoBulk
        /\ driver' = "deleted" /\ UNCHANGED <<systemCatalog, callVars, bulk>>
        /\ \A t \in Threads : memory'[t] = IF t = systemCatalog THEN "freed" ELSE memory[t]
    BY <1>10 DEF DeleteDriver
  <2> QED
    BY <1>0, <1>1, <2>1 DEF Pointers, PointersOf, TypeOK, callVars
<1>11. ASSUME NEW t \in Threads, BulkInsert(t) PROVE Pointers'
  <2>1. CASE Connect(t)
    <3>1. \A u \in Threads : bulk'[u] = bulk[u] \/ (u = t /\ bulk'[u].tbl = using[t])
      BY <1>0, <2>1 DEF Connect, TypeOK
    <3> QED
      BY <1>8, <2>1, <3>1 DEF Connect, At
  <2>2. CASE GetTableLock(t) \/ ConnectFails(t) \/ TableLocked(t)
    <3>1. bulk[t] \in Bulk /\ bulk[t] # NoBulk
      BY <2>2, Facts DEF GetTableLock, ConnectFails, TableLocked, At, IInv, Objects
    <3>2. \A u \in Threads : \/ bulk'[u] = NoBulk
                             \/ bulk'[u] = bulk[u]
                             \/ bulk[u] # NoBulk /\ bulk'[u].tbl = bulk[u].tbl
      BY <1>0, <2>2, <3>1 DEF GetTableLock, ConnectFails, TableLocked, TypeOK, Bulk
    <3>3. Ends(t) /\ UNCHANGED cacheVars /\ step[t] = "lock"
      BY <2>2 DEF GetTableLock, ConnectFails, TableLocked, At
    <3> QED
      BY <1>7, <3>2, <3>3
  <2> QED
    BY <1>9, <1>11, <2>1, <2>2 DEF BulkInsert
<1>12. ASSUME NEW t \in Threads, \/ FetchFails(t) \/ TableNotFound(t) \/ IsTableLocked(t)
                                 \/ Cleared(t) \/ CallFails(t)
       PROVE  Pointers'
  BY <1>7, <1>12 DEF FetchFails, TableNotFound, IsTableLocked, Cleared, CallFails, At
<1>13. ASSUME NEW t \in Threads, FindTable(t) \/ List(t) PROVE Pointers'
  BY <1>8, <1>13 DEF FindTable, List, At
<1> QED
  BY <1>2, <1>3, <1>4, <1>5, <1>6, <1>10, <1>11, <1>12, <1>13
     DEF Next, Others, DropTable, CreateTable, AlterTable, GetCatalog, TableLocks, ClearOne,
         vars, cacheVars, callVars

-----------------------------------------------------------------------------
(* Objects: the entry that one points to is the one that it copied, of     *)
(* which it has the lock.                                                  *)

ObjectOf(t) ==
    /\ bulk[t] # NoBulk => /\ Table(t) = bulk[t].columns
                           /\ bulk[t].rows \subseteq {bulk[t].columns}
                           /\ bulk[t].lock <= lastLock
                           /\ \A l \in locks : l.id = bulk[t].lock => l.oid = bulk[t].columns.oid
    /\ step[t] = "lock" => bulk[t] # NoBulk
    /\ step[t] \in {"list", "clear"} => Found(t) # NoTable

(* No step but the one that copies an entry into an object changes the     *)
(* entry that it points to, nor what a call has found.                     *)
LEMMA CatalogsStay ==
    ASSUME IInv, [Next]_vars, NEW c \in Threads, memory[c] # "none"
    PROVE  catalogs'[c] = catalogs[c]
<1>1. ASSUME NEW t \in Threads, Fetch(t) PROVE catalogs'[c] = catalogs[c]
  <2>1. t # c
    BY <1>1 DEF Fetch, At, IInv, Pointers
  <2> QED
    BY <1>1, <2>1 DEF Fetch, IInv, TypeOK
<1>2. CASE UNCHANGED catalogs
  BY <1>2
<1> QED
  BY <1>1, <1>2
     DEF Next, Others, DropTable, CreateTable, AlterTable, Call, GetCatalog, Assign, Reread,
         FetchFails, TableNotFound, BulkInsert, Connect, GetTableLock, TableLocked, ConnectFails,
         SetColumn, Close, TableLocks, FindTable, IsTableLocked, List, ClearOne, Cleared,
         CallFails, DeleteDriver, vars, cacheVars

SameObject(t) ==
    /\ bulk'[t] = bulk[t]
    /\ lastLock' \in {lastLock, lastLock + 1}
    /\ \A l \in locks' : l \in locks \/ l.id = lastLock + 1
    /\ \/ step'[t] = step[t] /\ using'[t] = using[t] /\ arg'[t] = arg[t]
       \/ step'[t] \in {"idle", "fetch", "assign", "lookup"}
       \/ step'[t] \in {"list", "clear"} /\ Found(t)' # NoTable

LEMMA NextObjects == IInv /\ [Next]_vars => Objects'
<1> SUFFICES ASSUME IInv, [Next]_vars, NEW t \in Threads PROVE ObjectOf(t)'
  BY DEF Objects, ObjectOf
<1> USE CatalogAssumption
<1>0. TypeOK /\ Pointers /\ Listed /\ \A u \in Threads : ObjectOf(u)
  BY DEF IInv, Objects, ObjectOf
<1>1. /\ bulk[t] # NoBulk => catalogs'[bulk[t].tbl] = catalogs[bulk[t].tbl]
      /\ step[t] \in {"lookup", "lock", "list", "clear"}
            => using[t] \in Threads /\ catalogs'[using[t]] = catalogs[using[t]]
  <2>1. bulk[t] # NoBulk => bulk[t].tbl \in Threads /\ memory[bulk[t].tbl] # "none"
    BY <1>0, Facts DEF Pointers
  <2>2. step[t] \in {"lookup", "lock", "list", "clear"}
           => using[t] \in Threads /\ memory[using[t]] # "none"
    BY <1>0 DEF Pointers, TypeOK
  <2> QED
    BY <2>1, <2>2, CatalogsStay
<1>2. lastLock \in Nat
  BY <1>0 DEF TypeOK
<1>3. ASSUME SameObject(t) PROVE ObjectOf(t)'
  <2>1. bulk[t] # NoBulk => Table(t)' = Table(t)
    BY <1>1, <1>3 DEF Table, SameObject
  <2>2. ASSUME bulk[t] # NoBulk
        PROVE  /\ bulk[t].lock <= lastLock'
               /\ \A l \in locks' : l.id = bulk[t].lock => l.oid = bulk[t].columns.oid
    <3>1. bulk[t].lock \in Nat
      BY <2>2, Facts DEF Bulk, LockId
    <3>2. bulk[t].lock <= lastLock /\ lastLock' \in {lastLock, lastLock + 1}
      BY <1>0, <1>3, <2>2 DEF ObjectOf, SameObject
    <3>3. \A l \in locks' : l.id = bulk[t].lock => l \in locks
      BY <1>2, <1>3, <3>1, <3>2 DEF SameObject
    <3> QED
      BY <1>0, <1>2, <2>2, <3>1, <3>2, <3>3 DEF ObjectOf
  <2>3. bulk'[t] # NoBulk => /\ Table(t)' = bulk'[t].columns
                             /\ bulk'[t].rows \subseteq {bulk'[t].columns}
                             /\ bulk'[t].lock <= lastLock'
                             /\ \A l \in locks' : l.id = bulk'[t].lock => l.oid = bulk'[t].columns.oid
    BY <1>0, <1>3, <2>1, <2>2 DEF ObjectOf, SameObject
  <2>4. step'[t] = "lock" => bulk'[t] # NoBulk
    BY <1>0, <1>3 DEF ObjectOf, SameObject
  <2>5. step'[t] \in {"list", "clear"} => Found(t)' # NoTable
    BY <1>0, <1>1, <1>3 DEF ObjectOf, SameObject, Found
  <2> QED
    BY <2>3, <2>4, <2>5 DEF ObjectOf
<1>4. ASSUME NEW n \in Names, Others(n) PROVE ObjectOf(t)'
  <2>1. UNCHANGED <<bulk, locks, lastLock, callVars>>
    BY <1>4 DEF Others, DropTable, CreateTable, AlterTable
  <2> QED
    BY <1>3, <2>1 DEF SameObject, callVars
<1>5. ASSUME NEW u \in Threads, NEW n \in Names, NEW c \in Calls \ {"none"}, Call(u, c, n)
      PROVE  ObjectOf(t)'
  <2>1. UNCHANGED <<bulk, locks, lastLock>>
    BY <1>5 DEF Call, brmVars
  <2>2. IF u = t THEN step'[t] \in {"fetch", "lookup"}
        ELSE step'[t] = step[t] /\ using'[t] = using[t] /\ arg'[t] = arg[t]
    BY <1>0, <1>5 DEF Call, TypeOK
  <2> QED
    BY <1>3, <2>1, <2>2 DEF SameObject
<1>6. ASSUME NEW u \in Threads, Fetch(u) \/ Assign(u) \/ Reread(u) PROVE ObjectOf(t)'
  <2>1. UNCHANGED <<bulk, locks, lastLock, arg>>
    BY <1>6 DEF Fetch, Assign, Reread, Goto, brmVars
  <2>2. IF u = t THEN step'[t] \in {"assign", "lookup"}
        ELSE step'[t] = step[t] /\ using'[t] = using[t]
    BY <1>0, <1>6 DEF Fetch, Assign, Reread, At, Goto, TypeOK
  <2> QED
    BY <1>3, <2>1, <2>2 DEF SameObject
<1>8. ASSUME NEW u \in Threads, Ends(u), bulk'[t] = bulk[t], lastLock' \in {lastLock, lastLock + 1},
             \A l \in locks' : l \in locks \/ l.id = lastLock + 1
      PROVE  ObjectOf(t)'
  <2>1. IF u = t THEN step'[t] = "idle"
        ELSE step'[t] = step[t] /\ using'[t] = using[t] /\ arg'[t] = arg[t]
    BY <1>0, <1>8, CallMoves
  <2> QED
    BY <1>3, <1>8, <2>1 DEF SameObject
<1>9. ASSUME NEW u \in Threads, \/ FetchFails(u) \/ TableNotFound(u) \/ IsTableLocked(u)
                                \/ Cleared(u) \/ CallFails(u)
      PROVE  ObjectOf(t)'
  <2>1. Ends(u) /\ UNCHANGED <<brmVars, bulk>>
    BY <1>9 DEF FetchFails, TableNotFound, IsTableLocked, Cleared, CallFails
  <2> QED
    BY <1>8, <2>1 DEF brmVars
<1>10. ASSUME NEW u \in Threads, u # t, BulkInsert(u) PROVE ObjectOf(t)'
  <2>1. bulk'[t] = bulk[t]
    BY <1>0, <1>10 DEF BulkInsert, Connect, GetTableLock, TableLocked, ConnectFails, SetColumn,
       Close, TypeOK
  <2>2. CASE Connect(u)
    <3>1. step'[t] = step[t] /\ UNCHANGED <<locks, lastLock, using, arg>>
      BY <1>0, <1>10, <2>2 DEF Connect, Goto, TypeOK, brmVars
    <3> QED
      BY <1>3, <2>1, <3>1 DEF SameObject
  <2>3. CASE GetTableLock(u) \/ ConnectFails(u)
    <3>1. /\ Ends(u) /\ lastLock' = lastLock + 1
          /\ \A l \in locks' : l \in locks \/ l.id = lastLock + 1
      BY <2>3 DEF GetTableLock, ConnectFails
    <3> QED
      BY <1>8, <2>1, <3>1
  <2>4. CASE TableLocked(u)
    <3>1. Ends(u) /\ UNCHANGED <<lastLock, locks>>
      BY <2>4 DEF TableLocked, brmVars
    <3> QED
      BY <1>8, <2>1, <3>1
  <2>5. CASE SetColumn(u) \/ Close(u)
    <3>1. UNCHANGED <<lastLock, callVars>> /\ locks' \subseteq locks
      BY <2>5 DEF SetColumn, Close, brmVars
    <3> QED
      BY <1>3, <2>1, <3>1 DEF SameObject, callVars
  <2> QED
    BY <1>10, <2>2, <2>3, <2>4, <2>5 DEF BulkInsert
<1>11. CASE Connect(t)
  <2>1. /\ bulk'[t] = [tbl |-> using[t], name |-> arg[t], columns |-> Found(t), lock |-> 0, rows |-> {}]
        /\ step'[t] = "lock" /\ UNCHANGED brmVars
        /\ using[t] \in Threads /\ catalogs'[using[t]] = catalogs[using[t]]
    BY <1>0, <1>1, <1>11 DEF Connect, At, Goto, TypeOK
  <2>2. bulk'[t].tbl # Nobody /\ NoBulk.tbl = Nobody
    BY <2>1 DEF NoBulk
  <2>3. Table(t)' = bulk'[t].columns
    BY <2>1 DEF Table, Found
  <2>4. \A l \in locks : l.id # 0
    BY <1>0 DEF TypeOK, Lock, LockId
  <2> QED
    BY <1>2, <2>1, <2>2, <2>3, <2>4 DEF ObjectOf, brmVars
<1>12. CASE GetTableLock(t)
  <2>1. bulk[t] \in Bulk /\ bulk[t] # NoBulk /\ Table(t) = bulk[t].columns
    BY <1>0, <1>12, Facts DEF GetTableLock, At, ObjectOf
  <2>2. /\ bulk'[t] = [bulk[t] EXCEPT !.lock = lastLock + 1]
        /\ lastLock' = lastLock + 1 /\ step'[t] = "idle"
        /\ locks' = locks \cup {[id |-> lastLock + 1, oid |-> Table(t).oid]}
    BY <1>0, <1>12, CallMoves DEF GetTableLock, TypeOK
  <2>3. bulk'[t].lock = lastLock + 1 /\ bulk'[t].rows = bulk[t].rows /\ bulk'[t].tbl = bulk[t].tbl
        /\ bulk'[t].name = bulk[t].name /\ bulk'[t].columns = bulk[t].columns
    BY <2>1, <2>2 DEF Bulk
  <2>4. Table(t)' = Table(t)
    BY <1>1, <2>1, <2>3 DEF Table
  <2>5. \A l \in locks' : l.id = lastLock + 1 => l.oid = Table(t).oid
    <3>1. \A l \in locks : l.id \in Nat /\ l.id <= lastLock
      BY <1>0 DEF Listed, TypeOK, Lock, LockId
    <3> QED
      BY <1>2, <2>2, <3>1
  <2> QED
    BY <1>0, <1>2, <2>1, <2>2, <2>3, <2>4, <2>5 DEF ObjectOf
<1>13. CASE ConnectFails(t) \/ TableLocked(t)
  <2>1. bulk'[t] = NoBulk /\ step'[t] = "idle"
    BY <1>0, <1>13, CallMoves DEF ConnectFails, TableLocked, TypeOK
  <2> QED
    BY <2>1 DEF ObjectOf
<1>14. CASE SetColumn(t)
  <2>1. bulk[t] \in Bulk /\ bulk[t] # NoBulk /\ Table(t) = bulk[t].columns
    BY <1>0, <1>14, Facts DEF SetColumn, Usable, ObjectOf
  <2>2. bulk'[t] = [bulk[t] EXCEPT !.rows = @ \cup {Table(t)}] /\ UNCHANGED <<brmVars, callVars>>
    BY <1>0, <1>14 DEF SetColumn, TypeOK
  <2>3. /\ bulk'[t].lock = bulk[t].lock /\ bulk'[t].rows = bulk[t].rows \cup {Table(t)}
        /\ bulk'[t].tbl = bulk[t].tbl
        /\ bulk'[t].name = bulk[t].name /\ bulk'[t].columns = bulk[t].columns
    BY <2>1, <2>2 DEF Bulk
  <2>4. Table(t)' = Table(t)
    BY <1>1, <2>1, <2>3 DEF Table
  <2>5. step[t] = "idle"
    BY <1>0, <1>14 DEF SetColumn, Pointers
  <2> QED
    BY <1>0, <2>1, <2>2, <2>3, <2>4, <2>5 DEF ObjectOf, brmVars, callVars
<1>15. CASE Close(t)
  <2>1. bulk'[t] = NoBulk /\ step'[t] = step[t] /\ step[t] = "idle"
    BY <1>0, <1>15 DEF Close, TypeOK, callVars, Pointers
  <2> QED
    BY <2>1 DEF ObjectOf
<1>16. ASSUME NEW u \in Threads, FindTable(u) \/ List(u) \/ ClearOne(u) PROVE ObjectOf(t)'
  <2>1. UNCHANGED <<bulk, lastLock, using, arg>> /\ locks' \subseteq locks
    BY <1>16 DEF FindTable, List, ClearOne, Goto, brmVars
  <2>2. u # t => step'[t] = step[t]
    BY <1>0, <1>16 DEF FindTable, List, ClearOne, Goto, TypeOK
  <2>3. u = t => step'[t] \in {"list", "clear"} /\ Found(t) # NoTable
    BY <1>0, <1>16 DEF FindTable, List, ClearOne, At, Goto, TypeOK, ObjectOf
  <2>4. u = t => Found(t)' = Found(t)
    BY <1>1, <1>16, <2>1 DEF FindTable, List, ClearOne, At, Found
  <2> QED
    BY <1>3, <2>1, <2>2, <2>3, <2>4 DEF SameObject
<1>17. CASE DeleteDriver \/ UNCHANGED vars
  <2>1. UNCHANGED <<bulk, locks, lastLock, callVars>>
    BY <1>17 DEF DeleteDriver, vars, brmVars
  <2> QED
    BY <1>3, <2>1 DEF SameObject, callVars
<1> QED
  BY <1>4, <1>5, <1>6, <1>9, <1>10, <1>11, <1>12, <1>13, <1>14, <1>15, <1>16, <1>17
     DEF Next, GetCatalog, BulkInsert, TableLocks

-----------------------------------------------------------------------------
(* Listed locks: an ID is never given twice, so that the lock that is      *)
(* released by its ID is the one that was listed.                          *)

ListedOf(t) ==
    \A k \in listed[t] :
        /\ step[t] = "clear" /\ k.oid = Found(t).oid /\ k.id <= lastLock
        /\ \A l \in locks : k.id = l.id => k = l

Distinct == \A k \in locks : k.id <= lastLock /\ \A l \in locks : k.id = l.id => k = l

LEMMA NextListed == IInv /\ [Next]_vars => Listed'
<1> SUFFICES ASSUME IInv, [Next]_vars PROVE Listed'
  OBVIOUS
<1> USE CatalogAssumption
<1>0. TypeOK /\ Pointers /\ Distinct /\ \A t \in Threads : ListedOf(t)
  BY DEF IInv, Listed, ListedOf, Distinct
<1>1. (Distinct' /\ \A t \in Threads : ListedOf(t)') => Listed'
  BY DEF Listed, ListedOf, Distinct
<1>2. /\ lastLock \in Nat /\ \A l \in locks : l.id \in Nat
      /\ \A t \in Threads : \A l \in listed[t] : l.id \in Nat
  BY <1>0 DEF TypeOK, Lock, LockId
<1>3. ASSUME NEW t \in Threads, listed[t] # {}, using'[t] = using[t], arg'[t] = arg[t]
      PROVE  Found(t)' = Found(t)
  <2>1. step[t] = "clear"
    BY <1>0, <1>3 DEF ListedOf
  <2>2. using[t] \in Threads /\ memory[using[t]] # "none"
    BY <1>0, <2>1 DEF Pointers, TypeOK
  <2> QED
    BY <1>3, <2>2, CatalogsStay DEF Found
<1>4. ASSUME lastLock' = lastLock, locks' \subseteq locks,
             \A t \in Threads : \/ listed'[t] = {}
                                \/ /\ listed'[t] \subseteq listed[t] /\ step'[t] = step[t]
                                   /\ using'[t] = using[t] /\ arg'[t] = arg[t]
      PROVE  Listed'
  <2>1. Distinct'
    BY <1>0, <1>4 DEF Distinct
  <2>2. ASSUME NEW t \in Threads PROVE ListedOf(t)'
    BY <1>0, <1>3, <1>4 DEF ListedOf
  <2> QED
    BY <1>1, <2>1, <2>2
<1>5. ASSUME NEW t \in Threads, step[t] # "clear" PROVE listed[t] = {}
  BY <1>0, <1>5 DEF ListedOf
<1>6. ASSUME NEW n \in Names, Others(n) PROVE Listed'
  BY <1>4, <1>6 DEF Others, DropTable, CreateTable, AlterTable, callVars
<1>7. ASSUME NEW t \in Threads, NEW n \in Names, NEW c \in Calls \ {"none"}, Call(t, c, n)
      PROVE  Listed'
  <2>1. UNCHANGED <<brmVars, listed>> /\ listed[t] = {}
    BY <1>0, <1>5, <1>7 DEF Call, Pointers
  <2>2. \A u \in Threads \ {t} : step'[u] = step[u] /\ using'[u] = using[u] /\ arg'[u] = arg[u]
    BY <1>0, <1>7 DEF Call, TypeOK
  <2> QED
    BY <1>4, <2>1, <2>2 DEF brmVars
<1>8. ASSUME NEW t \in Threads,
             Fetch(t) \/ Assign(t) \/ Reread(t) \/ Connect(t) \/ FindTable(t)
      PROVE  Listed'
  <2>1. UNCHANGED <<brmVars, listed, arg>> /\ listed[t] = {}
    BY <1>5, <1>8 DEF Fetch, Assign, Reread, Connect, FindTable, At, Goto
  <2>2. \A u \in Threads \ {t} : step'[u] = step[u] /\ using'[u] = using[u]
    BY <1>0, <1>8 DEF Fetch, Assign, Reread, Connect, FindTable, Goto, TypeOK
  <2> QED
    BY <1>4, <2>1, <2>2 DEF brmVars
<1>9. ASSUME NEW t \in Threads, Ends(t), UNCHANGED brmVars PROVE Listed'
  <2>1. /\ listed'[t] = {}
        /\ \A u \in Threads \ {t} : /\ step'[u] = step[u] /\ arg'[u] = arg[u]
                                    /\ using'[u] = using[u] /\ listed'[u] = listed[u]
    BY <1>0, <1>9, CallMoves
  <2> QED
    BY <1>4, <1>9, <2>1 DEF brmVars
<1>10. ASSUME NEW t \in Threads, SetColumn(t) \/ Close(t) PROVE Listed'
  BY <1>4, <1>10 DEF SetColumn, Close, brmVars, callVars
<1>11. ASSUME NEW t \in Threads, GetTableLock(t) \/ ConnectFails(t) PROVE Listed'
  <2> DEFINE new == [id |-> lastLock + 1, oid |-> Table(t).oid]
  <2>1. Ends(t) /\ lastLock' = lastLock + 1 /\ locks' = locks \cup {new}
    BY <1>11 DEF GetTableLock, ConnectFails
  <2>2. Distinct'
    <3>1. \A k \in locks : k.id < lastLock + 1
      BY <1>0, <1>2 DEF Distinct
    <3> QED
      BY <1>0, <1>2, <2>1, <3>1 DEF Distinct
  <2>3. ASSUME NEW u \in Threads PROVE ListedOf(u)'
    <3>1. CASE u = t
      BY <1>0, <2>1, <3>1, CallMoves DEF ListedOf
    <3>2. CASE u # t
      <4>1. listed'[u] = listed[u] /\ step'[u] = step[u] /\ using'[u] = using[u] /\ arg'[u] = arg[u]
        BY <1>0, <2>1, <3>2, CallMoves
      <4>2. \A k \in listed[u] : k.id <= lastLock /\ k.id # new.id
        BY <1>0, <1>2 DEF ListedOf
      <4>3. \A k \in listed[u] : k.id <= lastLock'
        BY <1>2, <2>1, <4>2
      <4> QED
        BY <1>0, <1>3, <2>1, <4>1, <4>2, <4>3 DEF ListedOf
    <3> QED
      BY <3>1, <3>2
  <2> QED
    BY <1>1, <2>2, <2>3
<1>12. ASSUME NEW t \in Threads, List(t) PROVE Listed'
  <2>1. /\ UNCHANGED <<brmVars, using, arg>> /\ step[t] = "list" /\ step'[t] = "clear"
        /\ listed'[t] = LocksOn(Found(t).oid)
        /\ \A u \in Threads \ {t} : step'[u] = step[u] /\ listed'[u] = listed[u]
    BY <1>0, <1>12 DEF List, At, Goto, TypeOK
  <2>2. Found(t)' = Found(t)
    BY <1>12, <2>1 DEF List, cacheVars, Found
  <2>3. ListedOf(t)'
    BY <1>0, <2>1, <2>2 DEF ListedOf, LocksOn, Distinct, brmVars
  <2>4. ASSUME NEW u \in Threads \ {t} PROVE ListedOf(u)'
    BY <1>0, <1>3, <2>1 DEF ListedOf, brmVars
  <2>5. Distinct'
    BY <1>0, <2>1 DEF Distinct, brmVars
  <2> QED
    BY <1>1, <2>3, <2>4, <2>5
<1>13. ASSUME NEW t \in Threads, ClearOne(t) PROVE Listed'
  <2>1. /\ UNCHANGED <<lastLock, step, using, arg>> /\ locks' \subseteq locks
        /\ \A u \in Threads : listed'[u] \subseteq listed[u]
    BY <1>0, <1>13 DEF ClearOne, TypeOK
  <2> QED
    BY <1>4, <2>1
<1>14. CASE DeleteDriver \/ UNCHANGED vars
  BY <1>4, <1>14 DEF DeleteDriver, vars, brmVars, callVars
<1>15. ASSUME NEW t \in Threads, \/ FetchFails(t) \/ TableNotFound(t) \/ IsTableLocked(t)
                                 \/ Cleared(t) \/ CallFails(t) \/ TableLocked(t)
       PROVE  Listed'
  BY <1>9, <1>15 DEF FetchFails, TableNotFound, IsTableLocked, Cleared, CallFails, TableLocked
<1> QED
  BY <1>6, <1>7, <1>8, <1>10, <1>11, <1>12, <1>13, <1>14, <1>15
     DEF Next, GetCatalog, BulkInsert, TableLocks

-----------------------------------------------------------------------------
LEMMA InitIInv == Init => IInv
<1> SUFFICES ASSUME Init PROVE IInv
  OBVIOUS
<1> USE CatalogAssumption
<1>1. /\ tables \in Tables /\ catalogs \in [Threads -> Tables]
      /\ lastOid \in 0 .. MaxOid /\ lastLock \in 0 .. MaxLock /\ changes \in 0 .. MaxChanges
  BY DEF Init, NoTables, Tables
<1>2. CallOK
  BY AnyNames DEF Init, CallOK, Calls, Steps
<1>3. TypeOK
  BY <1>1, <1>2 DEF Init, TypeOK, CallOK
<1>4. Pointers /\ Objects /\ Listed
  BY DEF Init, Pointers, Objects, Listed
<1> QED
  BY <1>3, <1>4 DEF IInv

LEMMA Inductive == IInv /\ [Next]_vars => IInv'
BY NextTypes, NextPointers, NextObjects, NextListed DEF IInv

(* All variables keep their types: no object is made of a table that was   *)
(* not found (src/src/mcsapi_types.cpp, getTable).                         *)
THEOREM Types == Spec => []TypeOK
<1>1. IInv => TypeOK
  BY DEF IInv
<1> QED
  BY InitIInv, Inductive, <1>1, PTL DEF Spec

(* However many threads race for the first use of a driver, no call and no *)
(* bulk insert ever points to a catalog that was freed, as long as bulk    *)
(* inserts are deleted before their driver                                 *)
(* (src/src/mcsapi_driver.cpp, getSystemCatalog).                          *)
THEOREM TableAliveAlways == Spec => []TableAlive
<1>1. IInv => TableAlive
  <2> SUFFICES ASSUME IInv, NEW t \in Threads
               PROVE  /\ step[t] \in {"lookup", "list", "clear"} => memory[using[t]] = "allocated"
                      /\ bulk[t] # NoBulk => memory[bulk[t].tbl] = "allocated"
    BY DEF TableAlive
  <2>1. step[t] # "idle" \/ bulk[t] # NoBulk => \A u \in Threads : memory[u] \in {"none", "allocated"}
    BY DEF IInv, Pointers, TypeOK
  <2>2. step[t] \in {"lookup", "list", "clear"} => using[t] \in Threads /\ memory[using[t]] # "none"
    BY DEF IInv, Pointers, TypeOK
  <2>3. bulk[t] # NoBulk => bulk[t].tbl \in Threads /\ memory[bulk[t].tbl] # "none"
    BY Facts DEF IInv, Pointers
  <2> QED
    BY <2>1, <2>2, <2>3
<1> QED
  BY InitIInv, Inductive, <1>1, PTL DEF Spec

(* A bulk insert converts to, sends under and locks one table as it was at *)
(* one time (src/src/mcsapi_bulk.cpp, connect).                            *)
THEOREM OneViewAlways == Spec => []OneView
<1>1. IInv => OneView
  BY DEF IInv, Objects, OneView
<1> QED
  BY InitIInv, Inductive, <1>1, PTL DEF Spec

(* No clearTableLock() by name releases a lock that was granted after it   *)
(* had listed them, nor one of another table                               *)
(* (src/src/mcsapi_driver.cpp, clearTableLock).                            *)
THEOREM ClearsWhatItSawAlways == Spec => ClearsWhatItSaw
<1>1. IInv /\ [Next]_vars =>
        [\A l \in locks \ locks' : \E t \in Threads :
            \/ bulk[t] # NoBulk /\ bulk[t].lock = l.id /\ bulk'[t] = NoBulk
            \/ l \in listed[t] /\ l.oid = Found(t).oid]_vars
  <2> SUFFICES ASSUME IInv, [Next]_vars, NEW l \in locks, l \notin locks'
               PROVE  \E t \in Threads :
                        \/ bulk[t] # NoBulk /\ bulk[t].lock = l.id /\ bulk'[t] = NoBulk
                        \/ l \in listed[t] /\ l.oid = Found(t).oid
    OBVIOUS
  <2>1. ASSUME NEW t \in Threads, Close(t)
        PROVE  bulk[t] # NoBulk /\ bulk[t].lock = l.id /\ bulk'[t] = NoBulk
    BY <2>1 DEF Close, Usable, IInv, TypeOK
  <2>2. ASSUME NEW t \in Threads, ClearOne(t)
        PROVE  l \in listed[t] /\ l.oid = Found(t).oid
    <3>1. PICK k \in listed[t] : locks' = {m \in locks : m.id # k.id}
      BY <2>2 DEF ClearOne
    <3>2. k.id = l.id
      BY <3>1
    <3>3. k = l /\ k.oid = Found(t).oid
      BY <3>2 DEF IInv, Listed
    <3> QED
      BY <3>3
  <2>3. ASSUME locks \subseteq locks' PROVE FALSE
    BY <2>3
  <2> QED
    BY <2>1, <2>2, <2>3
       DEF Next, Others, DropTable, CreateTable, AlterTable, Call, GetCatalog, Fetch, Assign,
           Reread, FetchFails, TableNotFound, BulkInsert, Connect, GetTableLock, TableLocked,
           ConnectFails, SetColumn, TableLocks, FindTable, IsTableLocked, List, Cleared,
           CallFails, DeleteDriver, vars, brmVars
<1> QED
  BY InitIInv, Inductive, <1>1, PTL DEF Spec, ClearsWhatItSaw

=============================================================================
