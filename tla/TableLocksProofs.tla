-------------------------- MODULE TableLocksProofs --------------------------
(* Theorems about TableLocks, for any sessions, cleaners, number of PMs    *)
(* and choice of faults.                                                   *)
EXTENDS TableLocks, FiniteSetTheorems, TLAPS

-----------------------------------------------------------------------------
(* Types.  The BRM never counts more locks than there are sessions that    *)
(* tried to take one; an object in a call is neither unborn nor closed.    *)

Born == {s \in Sessions : object[s] # "unborn"}

IdsAreCounted ==
    /\ lastId <= Cardinality(Born)
    /\ \A s \in Sessions : call[s] # "none" => object[s] = "active"

LEMMA BornIsFinite ==
    /\ IsFiniteSet(Born)
    /\ Cardinality(Born) \in Nat /\ Cardinality(Sessions) \in Nat
    /\ Cardinality(Born) <= Cardinality(Sessions)
<1>1. Born \in SUBSET Sessions
  BY DEF Born
<1> QED
  BY <1>1, FS_Subset, FS_CardinalityType, TableLocksAssumption

LEMMA OneMoreBorn ==
    ASSUME TypeOK, NEW s \in Sessions, object[s] = "unborn",
           NEW o \in {"active", "closed"}, object' = [object EXCEPT ![s] = o]
    PROVE  /\ Cardinality(Born)' = Cardinality(Born) + 1
           /\ Cardinality(Born)' <= Cardinality(Sessions)
<1>1. Born' = Born \cup {s} /\ s \notin Born
  BY DEF Born, TypeOK
<1>2. Cardinality(Born \cup {s}) = IF s \in Born THEN Cardinality(Born) ELSE Cardinality(Born) + 1
  BY BornIsFinite, FS_AddElement, Zenon
<1>3. Cardinality(Born \cup {s}) <= Cardinality(Sessions)
  <2>1. Born \cup {s} \in SUBSET Sessions
    BY DEF Born
  <2> QED
    BY <2>1, FS_Subset, TableLocksAssumption
<1> QED
  BY <1>1, <1>2, <1>3

LEMMA SameBorn ==
    ASSUME TypeOK, NEW s \in Sessions, object[s] # "unborn",
           NEW o \in {"closed", "dead"}, object' = [object EXCEPT ![s] = o]
    PROVE  Born' = Born
BY DEF Born, TypeOK

LEMMA PMs == 1 \in PM /\ NumPM \in Nat /\ \A p \in PM : p \in Nat /\ (p < NumPM => p + 1 \in PM)
BY TableLocksAssumption DEF PM

AgentOK ==
    /\ call \in [Agents -> {"none", "commit", "rollback"}]
    /\ step \in [Agents -> Steps]
    /\ at \in [Agents -> PM]
    /\ info \in [Agents -> Info]

LEMMA AgentMoves ==
    ASSUME TypeOK, NEW a \in Agents
    PROVE  /\ UNCHANGED agentVars => AgentOK'
           /\ \A s \in Steps, c \in {"commit", "rollback"} :
                 Starts(a, c, s) /\ UNCHANGED info => AgentOK'
           /\ \A s \in Steps : Goto(a, s) => AgentOK'
           /\ \A s, d \in Steps : LoopTo(a, s, d) => AgentOK'
           /\ Ends(a) => AgentOK'
<1>1. UNCHANGED agentVars => AgentOK'
  BY DEF TypeOK, AgentOK, agentVars
<1>2. ASSUME NEW s \in Steps, NEW c \in {"commit", "rollback"}, Starts(a, c, s), UNCHANGED info
      PROVE  AgentOK'
  BY <1>2 DEF TypeOK, AgentOK, Starts
<1>3. ASSUME NEW s \in Steps, Goto(a, s) PROVE AgentOK'
  BY <1>3 DEF TypeOK, AgentOK, Goto
<1>4. ASSUME NEW s \in Steps, NEW d \in Steps, LoopTo(a, s, d) PROVE AgentOK'
  <2>1. at' \in [Agents -> PM]
    BY <1>4, PMs DEF TypeOK, LoopTo
  <2> QED
    BY <1>4, <2>1 DEF TypeOK, AgentOK, LoopTo
<1>5. Ends(a) => AgentOK'
  BY PMs DEF TypeOK, AgentOK, Ends, Steps
<1> QED
  BY <1>1, <1>2, <1>3, <1>4, <1>5

LEMMA StepNames ==
    {"committed", "undo", "changeState", "removeMeta", "rolledback", "release"} \subseteq Steps
BY DEF Steps

Locks == [id : LockId, owner : Sessions, state : {"loading", "cleanup"}]

LEMMA HeldLock == TypeOK /\ lock # NoLock => lock \in Locks
BY DEF TypeOK, Locks

(* What a command may do to the BRM and the WriteEngine.                   *)
LEMMA ServerTypes ==
    ASSUME TypeOK, NEW a \in Agents
    PROVE  /\ lock' = (IF Holds(a) THEN NoLock ELSE lock) => lock' \in {NoLock} \cup Locks
           /\ lock' = (IF Holds(a) THEN [lock EXCEPT !.state = "cleanup"] ELSE lock)
                 => lock' \in {NoLock} \cup Locks
           /\ \A v \in {"committed", "rolledback"} :
                 Verdict(a, v) => verdicts' \in [Sessions -> SUBSET {"committed", "rolledback"}]
           /\ rows' = [s \in Sessions |-> IF meta[at[a]] = s THEN rows[s] \ {at[a]} ELSE rows[s]]
                 => rows' \in [Sessions -> SUBSET PM]
           /\ meta' = [meta EXCEPT ![at[a]] = None] => meta' \in [PM -> Sessions \cup {None}]
<1>1. lock \in {NoLock} \cup Locks
  BY DEF TypeOK, Locks
<1>2. Holds(a) => [lock EXCEPT !.state = "cleanup"] \in Locks
  <2>1. Holds(a) => lock \in Locks
    BY HeldLock DEF Holds
  <2> QED
    BY <2>1 DEF Locks
<1>3. ASSUME NEW v \in {"committed", "rolledback"}, Verdict(a, v)
      PROVE  verdicts' \in [Sessions -> SUBSET {"committed", "rolledback"}]
  <2>1. \A s \in Sessions : verdicts[s] \cup {v} \in SUBSET {"committed", "rolledback"}
    BY DEF TypeOK
  <2>2. verdicts' = [s \in Sessions |-> IF s = info[a].txn THEN verdicts[s] \cup {v} ELSE verdicts[s]]
    BY <1>3 DEF TypeOK, Verdict
  <2> QED
    BY <2>1, <2>2 DEF TypeOK
<1>4. rows' = [s \in Sessions |-> IF meta[at[a]] = s THEN rows[s] \ {at[a]} ELSE rows[s]]
         => rows' \in [Sessions -> SUBSET PM]
  BY DEF TypeOK
<1>5. meta' = [meta EXCEPT ![at[a]] = None] => meta' \in [PM -> Sessions \cup {None}]
  BY DEF TypeOK
<1> QED
  BY <1>1, <1>2, <1>3, <1>4, <1>5

LEMMA NextTypes == TypeOK /\ IdsAreCounted /\ [Next]_vars => TypeOK'
<1> SUFFICES ASSUME TypeOK, IdsAreCounted, [Next]_vars PROVE TypeOK'
  OBVIOUS
<1> USE TableLocksAssumption
<1>0. /\ lock \in {NoLock} \cup Locks
      /\ lastId \in Nat
      /\ (AgentOK' /\ lock' \in {NoLock} \cup Locks
             /\ object' \in [Sessions -> {"unborn", "active", "closed", "dead"}]
             /\ lastId' \in {0} \cup LockId
             /\ verdicts' \in [Sessions -> SUBSET {"committed", "rolledback"}]
             /\ rows' \in [Sessions -> SUBSET PM]
             /\ meta' \in [PM -> Sessions \cup {None}]
             /\ unsure' \subseteq Sessions
             /\ careless' \subseteq {"live", "late"}
             /\ faults' \in 0 .. MaxFaults) => TypeOK'
  BY BornIsFinite DEF TypeOK, AgentOK, Locks, LockId
<1>1. ASSUME NEW s \in Sessions, Create(s) PROVE TypeOK'
  <2>1. lastId' = lastId + 1 /\ object' = [object EXCEPT ![s] = "active"] /\ object[s] = "unborn"
    BY <1>1 DEF Create
  <2>2. Cardinality(Born)' = Cardinality(Born) + 1 /\ Cardinality(Born)' <= Cardinality(Sessions)
    BY <2>1, OneMoreBorn
  <2>3. lastId + 1 \in LockId
    BY <1>0, <2>2, BornIsFinite DEF IdsAreCounted, LockId
  <2>4. lock' \in Locks
    BY <1>1, <2>3 DEF Create, Locks
  <2>5. info' \in [Agents -> Info]
    BY <1>1, <2>3 DEF Create, Info, TypeOK, Agents
  <2> QED
    BY <1>0, <1>1, <2>1, <2>3, <2>4, <2>5 DEF Create, TypeOK, AgentOK, weVars
<1>2. ASSUME NEW s \in Sessions, CreateRefused(s) PROVE TypeOK'
  <2>1. AgentOK' /\ verdicts' \in [Sessions -> SUBSET {"committed", "rolledback"}]
    BY <1>2 DEF CreateRefused, TypeOK, AgentOK, agentVars
  <2> QED
    BY <1>0, <1>2, <2>1 DEF CreateRefused, TypeOK, weVars
<1>3. ASSUME NEW s \in Sessions, NEW p \in PM, BulkInsert(s, p) PROVE TypeOK'
  <2>1. rows' \in [Sessions -> SUBSET PM] /\ meta' \in [PM -> Sessions \cup {None}]
    BY <1>3 DEF BulkInsert, TypeOK
  <2>2. AgentOK'
    BY <1>3 DEF BulkInsert, TypeOK, AgentOK, agentVars
  <2> QED
    BY <1>0, <1>3, <2>1, <2>2 DEF BulkInsert, TypeOK, brmVars
<1>4. ASSUME NEW s \in Sessions, Commit(s) \/ Rollback(s) PROVE TypeOK'
  BY <1>0, <1>4, AgentMoves, StepNames DEF Commit, Rollback, TypeOK, brmVars, weVars, Agents
<1>5. ASSUME NEW s \in Sessions, Die(s) PROVE TypeOK'
  BY <1>0, <1>5, AgentMoves DEF Die, TypeOK, brmVars, weVars, Agents
<1>6. ASSUME NEW c \in Cleaners, List(c) PROVE TypeOK'
  <2>1. info' \in [Agents -> Info]
    BY <1>0, <1>6 DEF List, TypeOK, Info, Locks
  <2> QED
    BY <1>0, <1>6, <2>1 DEF List, TypeOK, AgentOK, brmVars, weVars
<1>7. ASSUME NEW c \in Cleaners, Clear(c) PROVE TypeOK'
  <2>1. faults' \in 0 .. MaxFaults
    BY <1>7 DEF Clear, Fault, TypeOK
  <2>2. careless' \subseteq {"live", "late"}
    BY <1>7 DEF Clear, TypeOK
  <2> QED
    BY <1>0, <1>7, <2>1, <2>2, AgentMoves, StepNames DEF Clear, TypeOK, brmVars, weVars, Agents
<1>8. ASSUME NEW a \in Agents, Undo(a) PROVE TypeOK'
  BY <1>0, <1>8, AgentMoves, ServerTypes, StepNames DEF Undo, TypeOK, brmVars
<1>9. ASSUME NEW s \in Sessions, Committed(s) PROVE TypeOK'
  BY <1>0, <1>9, AgentMoves, ServerTypes, StepNames DEF Committed, TypeOK, weVars, Agents
<1>10. ASSUME NEW a \in Agents, ChangeState(a) PROVE TypeOK'
  BY <1>0, <1>10, AgentMoves, ServerTypes, StepNames DEF ChangeState, TypeOK, weVars
<1>11. ASSUME NEW a \in Agents, RemoveMeta(a) PROVE TypeOK'
  BY <1>0, <1>11, AgentMoves, ServerTypes, StepNames DEF RemoveMeta, TypeOK, brmVars
<1>12. ASSUME NEW a \in Agents, Rolledback(a) PROVE TypeOK'
  BY <1>0, <1>12, AgentMoves, ServerTypes, StepNames DEF Rolledback, TypeOK, weVars
<1>13. ASSUME NEW a \in Agents, Release(a) PROVE TypeOK'
  BY <1>0, <1>13, AgentMoves, ServerTypes DEF Release, TypeOK, weVars
<1>14. ASSUME NEW a \in Agents, ReleaseUnanswered(a) PROVE TypeOK'
  <2>1. faults' \in 0 .. MaxFaults /\ unsure' \subseteq Sessions /\ careless' \subseteq {"live", "late"}
    BY <1>14 DEF ReleaseUnanswered, Fault, TypeOK
  <2> QED
    BY <1>0, <1>14, <2>1, AgentMoves, ServerTypes DEF ReleaseUnanswered, TypeOK, weVars
<1>15. ASSUME NEW a \in Agents, Fail(a) PROVE TypeOK'
  <2>1. faults' \in 0 .. MaxFaults
    BY <1>15 DEF Fail, Fault, TypeOK
  <2> QED
    BY <1>0, <1>15, <2>1, AgentMoves DEF Fail, TypeOK, brmVars, weVars
<1>16. CASE UNCHANGED vars
  BY <1>16 DEF vars, TypeOK, agentVars, brmVars, weVars
<1> QED
  BY <1>1, <1>2, <1>3, <1>4, <1>5, <1>6, <1>7, <1>8, <1>9, <1>10, <1>11, <1>12, <1>13,
     <1>14, <1>15, <1>16 DEF Next, Session, Cleaner, Agent

LEMMA NextIds == TypeOK /\ IdsAreCounted /\ [Next]_vars => IdsAreCounted'
<1> SUFFICES ASSUME TypeOK, IdsAreCounted, [Next]_vars PROVE IdsAreCounted'
  OBVIOUS
<1>0. lastId \in Nat
  BY BornIsFinite DEF TypeOK, LockId
<1>1. ASSUME UNCHANGED <<object, lastId>>,
             \A s \in Sessions : call'[s] # "none" => call[s] # "none" \/ object[s] = "active"
      PROVE  IdsAreCounted'
  BY <1>1 DEF IdsAreCounted, Born
<1>2. ASSUME NEW s \in Sessions, Create(s) \/ CreateRefused(s) PROVE IdsAreCounted'
  <2>1. PICK o \in {"active", "closed"} :
          object[s] = "unborn" /\ object' = [object EXCEPT ![s] = o]
    BY <1>2 DEF Create, CreateRefused
  <2>2. Cardinality(Born)' = Cardinality(Born) + 1
    BY <2>1, OneMoreBorn
  <2>3. lastId' \in {lastId, lastId + 1} /\ UNCHANGED call
    BY <1>2 DEF Create, CreateRefused, agentVars
  <2>4. lastId' <= Cardinality(Born)'
    BY <1>0, <2>2, <2>3, BornIsFinite DEF IdsAreCounted
  <2> QED
    BY <2>1, <2>3, <2>4 DEF IdsAreCounted, TypeOK
<1>3. ASSUME NEW s \in Sessions, Die(s) PROVE IdsAreCounted'
  <2>1. object[s] # "unborn" /\ object' = [object EXCEPT ![s] = "dead"] /\ lastId' = lastId
    BY <1>3 DEF Die, brmVars
  <2>2. Born' = Born
    BY <2>1, SameBorn
  <2>3. \A t \in Sessions : call'[t] # "none" => t # s /\ call[t] # "none"
    BY <1>3 DEF Die, Ends, TypeOK, Agents
  <2> QED
    BY <2>1, <2>2, <2>3 DEF IdsAreCounted, TypeOK
<1>4. ASSUME NEW a \in Agents, Release(a) PROVE IdsAreCounted'
  <2>1. /\ lastId' = lastId /\ call[a] # "none"
        /\ object' = IF a \in Sessions THEN [object EXCEPT ![a] = "closed"] ELSE object
    BY <1>4 DEF Release, Works
  <2>2. \A t \in Sessions : call'[t] # "none" => t # a /\ call[t] # "none"
    BY <1>4 DEF Release, Ends, TypeOK, Agents
  <2>3. CASE a \in Sessions
    <3>1. object[a] # "unborn" /\ object' = [object EXCEPT ![a] = "closed"]
      BY <2>1, <2>3 DEF IdsAreCounted
    <3>2. Born' = Born
      BY <2>3, <3>1, SameBorn
    <3> QED
      BY <2>1, <2>2, <3>1, <3>2 DEF IdsAreCounted, TypeOK
  <2>4. CASE a \notin Sessions
    BY <1>1, <2>1, <2>2, <2>4
  <2> QED
    BY <2>3, <2>4
<1>5. ASSUME NEW s \in Sessions, Commit(s) \/ Rollback(s) PROVE IdsAreCounted'
  BY <1>1, <1>5 DEF Commit, Rollback, Starts, Idle, TypeOK, Agents, brmVars
<1>6. ASSUME NEW c \in Cleaners, Clear(c) PROVE IdsAreCounted'
  <2>1. \A s \in Sessions : call'[s] = call[s]
    BY <1>6, TableLocksAssumption DEF Clear, Starts, TypeOK, Agents
  <2> QED
    BY <1>1, <1>6, <2>1 DEF Clear, brmVars
<1>7. ASSUME NEW a \in Agents, ReleaseUnanswered(a) \/ Fail(a) PROVE IdsAreCounted'
  <2>1. UNCHANGED <<object, lastId>> /\ Ends(a)
    BY <1>7 DEF ReleaseUnanswered, Fail, brmVars
  <2>2. \A s \in Sessions : call'[s] # "none" => call[s] # "none"
    BY <2>1 DEF Ends, TypeOK, Agents
  <2> QED
    BY <1>1, <2>1, <2>2
<1>8. ASSUME NEW a \in Agents,
             Undo(a) \/ Committed(a) \/ ChangeState(a) \/ RemoveMeta(a) \/ Rolledback(a)
      PROVE  IdsAreCounted'
  BY <1>1, <1>8 DEF Undo, Committed, ChangeState, RemoveMeta, Rolledback, Goto, LoopTo, brmVars
<1>9. ASSUME UNCHANGED <<object, call, lastId>> PROVE IdsAreCounted'
  BY <1>1, <1>9
<1> QED
  BY <1>2, <1>3, <1>4, <1>5, <1>6, <1>7, <1>8, <1>9
     DEF Next, Session, Cleaner, Agent, BulkInsert, List, Agents, vars, agentVars, brmVars

LEMMA InitTypes == Init => TypeOK /\ IdsAreCounted
<1> SUFFICES ASSUME Init PROVE TypeOK /\ IdsAreCounted
  OBVIOUS
<1>1. IdsAreCounted
  BY BornIsFinite DEF Init, IdsAreCounted, Agents
<1>2. TypeOK
  <2>1. AgentOK
    BY PMs DEF Init, AgentOK, Steps, Info, NoInfo
  <2>2. /\ object \in [Sessions -> {"unborn", "active", "closed", "dead"}]
        /\ verdicts \in [Sessions -> SUBSET {"committed", "rolledback"}]
        /\ rows \in [Sessions -> SUBSET PM]
        /\ meta \in [PM -> Sessions \cup {None}]
    BY DEF Init
  <2>3. /\ lock = NoLock /\ lastId \in {0} \cup LockId
        /\ unsure \subseteq Sessions /\ faults \in 0 .. MaxFaults
    BY TableLocksAssumption DEF Init
  <2>4. careless \subseteq {"live", "late"}
    BY Zenon DEF Init
  <2> QED
    BY <2>1, <2>2, <2>3, <2>4, Zenon DEF TypeOK, AgentOK
<1> QED
  BY <1>1, <1>2

(* The variables keep their types: in particular no loop over pmList turns *)
(* past its end, and the lock is of somebody or free.                      *)
THEOREM Types == Spec => []TypeOK
<1> QED
  BY InitTypes, NextTypes, NextIds, PTL DEF Spec

-----------------------------------------------------------------------------
(* Lock IDs are not given twice: information about a lock is about its     *)
(* owner for as long as there is such a lock.                              *)
IdsAreUnique ==
    /\ lock # NoLock => lock.id <= lastId
    /\ \A a \in Agents :
          /\ info[a].lock <= lastId
          /\ (lock # NoLock /\ info[a].lock = lock.id) => info[a].txn = lock.owner

LEMMA NextUnique == TypeOK /\ IdsAreUnique /\ [Next]_vars => IdsAreUnique'
<1> SUFFICES ASSUME TypeOK, IdsAreUnique, [Next]_vars PROVE IdsAreUnique'
  OBVIOUS
<1>0. /\ lastId \in Nat /\ (lock # NoLock => lock \in Locks)
      /\ \A a \in Agents : info[a].lock \in Nat
  BY BornIsFinite, HeldLock DEF TypeOK, LockId, Info
<1>1. ASSUME UNCHANGED <<info, lastId>>, lock' \in {lock, NoLock} PROVE IdsAreUnique'
  BY <1>1 DEF IdsAreUnique
<1>2. ASSUME NEW s \in Sessions, Create(s) PROVE IdsAreUnique'
  <2>1. /\ lastId' = lastId + 1 /\ lock'.id = lastId + 1 /\ lock'.owner = s
        /\ info' = [info EXCEPT ![s] = [lock |-> lastId + 1, txn |-> s]]
    BY <1>2 DEF Create
  <2>2. \A a \in Agents \ {s} : info'[a] = info[a] /\ info[a].lock <= lastId
    BY <2>1 DEF IdsAreUnique, TypeOK
  <2>3. info'[s] = [lock |-> lastId + 1, txn |-> s]
    BY <2>1 DEF TypeOK, Agents
  <2> QED
    BY <1>0, <2>1, <2>2, <2>3 DEF IdsAreUnique
<1>3. ASSUME NEW c \in Cleaners, List(c) PROVE IdsAreUnique'
  <2>1. /\ lock # NoLock /\ UNCHANGED <<lock, lastId>>
        /\ info' = [info EXCEPT ![c] = [lock |-> lock.id, txn |-> lock.owner]]
    BY <1>3 DEF List, brmVars
  <2>2. info'[c] = [lock |-> lock.id, txn |-> lock.owner]
    BY <2>1 DEF TypeOK, Agents
  <2>3. \A a \in Agents \ {c} : info'[a] = info[a]
    BY <2>1 DEF TypeOK
  <2> QED
    BY <2>1, <2>2, <2>3 DEF IdsAreUnique
<1>4. ASSUME NEW a \in Agents, ChangeState(a) PROVE IdsAreUnique'
  <2>1. UNCHANGED <<info, lastId>>
    BY <1>4 DEF ChangeState, Goto
  <2>2. \/ lock' = lock
        \/ lock # NoLock /\ lock'.id = lock.id /\ lock'.owner = lock.owner
    BY <1>0, <1>4 DEF ChangeState, Holds, Locks
  <2> QED
    BY <2>1, <2>2 DEF IdsAreUnique
<1>5. ASSUME NEW a \in Agents, Release(a) \/ ReleaseUnanswered(a) PROVE IdsAreUnique'
  BY <1>1, <1>5 DEF Release, ReleaseUnanswered, Ends
<1> QED
  BY <1>1, <1>2, <1>3, <1>4, <1>5
     DEF Next, Session, Cleaner, Agent, CreateRefused, BulkInsert, Commit, Rollback, Die, Clear,
         Undo, Committed, RemoveMeta, Rolledback, Fail, Starts, Goto, LoopTo, Ends,
         vars, agentVars, brmVars

LEMMA InitUnique == Init => IdsAreUnique
BY DEF Init, IdsAreUnique, NoInfo

-----------------------------------------------------------------------------
(* What holds however late locks are cleared, and by however many at once. *)

(* A call that undoes is a rollback, and not of an object that lost the    *)
(* reply to its release.                                                   *)
CallsOK ==
    /\ \A s \in Sessions : call[s] # "none" => s \notin unsure
    /\ \A a \in Agents : Works(a, "undo") => call[a] = "rollback"

(* An object that is in use has the lock, and one that is being cleared    *)
(* and is still there has a dead owner.                                    *)
Guarding ==
    "live" \notin careless =>
        /\ \A s \in Sessions : (object[s] = "active" /\ s \notin unsure) => Owns(s)
        /\ \A c \in Cleaners : (call[c] # "none" /\ Holds(c)) => object[lock.owner] = "dead"

LEMMA NextCalls == TypeOK /\ CallsOK /\ [Next]_vars => CallsOK'
<1> SUFFICES ASSUME TypeOK, CallsOK, [Next]_vars PROVE CallsOK'
  OBVIOUS
<1> USE DEF Works
<1>1. ASSUME NEW a \in Agents, Ends(a), unsure' \subseteq unsure \cup {a} PROVE CallsOK'
  BY <1>1 DEF Ends, TypeOK, CallsOK, Agents
<1>2. ASSUME NEW s \in Sessions, Commit(s) \/ Rollback(s) PROVE CallsOK'
  BY <1>2 DEF Commit, Rollback, Starts, TypeOK, CallsOK, Agents
<1>3. ASSUME NEW c \in Cleaners, Clear(c) PROVE CallsOK'
  BY <1>3, TableLocksAssumption DEF Clear, Starts, TypeOK, CallsOK, Agents
<1>4. ASSUME NEW a \in Agents, NEW s, s # "undo", Goto(a, s), UNCHANGED unsure PROVE CallsOK'
  BY <1>4 DEF Goto, TypeOK, CallsOK
<1>5. ASSUME NEW a \in Agents, NEW s, NEW d, d # "undo", s = "undo" => Works(a, "undo"),
             LoopTo(a, s, d), UNCHANGED unsure
      PROVE  CallsOK'
  BY <1>5 DEF LoopTo, TypeOK, CallsOK
<1>6. ASSUME NEW a \in Agents, RemoveMeta(a) PROVE CallsOK'
  <2>1. PICK d \in {"release", "rolledback"} : LoopTo(a, "removeMeta", d) /\ UNCHANGED unsure
    BY <1>6 DEF RemoveMeta
  <2> QED
    BY <1>5, <2>1
<1>7. ASSUME NEW a \in Agents, Undo(a) PROVE CallsOK'
  BY <1>5, <1>7 DEF Undo
<1>8. ASSUME NEW a \in Agents, Committed(a) \/ ChangeState(a) \/ Rolledback(a) PROVE CallsOK'
  BY <1>4, <1>8 DEF Committed, ChangeState, Rolledback
<1>9. ASSUME NEW a \in Agents, Release(a) \/ ReleaseUnanswered(a) \/ Fail(a) PROVE CallsOK'
  BY <1>1, <1>9 DEF Release, ReleaseUnanswered, Fail
<1>10. ASSUME NEW s \in Sessions, Die(s) PROVE CallsOK'
  BY <1>1, <1>10 DEF Die, Agents
<1>11. ASSUME UNCHANGED <<call, step, unsure>> PROVE CallsOK'
  BY <1>11 DEF CallsOK
<1> QED
  BY <1>2, <1>3, <1>6, <1>7, <1>8, <1>9, <1>10, <1>11
     DEF Next, Session, Cleaner, Agent, Agents, Create, CreateRefused, BulkInsert, List,
         vars, agentVars

LEMMA NextGuarding ==
    TypeOK /\ IdsAreCounted /\ IdsAreUnique /\ CallsOK /\ Guarding /\ [Next]_vars => Guarding'
<1> SUFFICES ASSUME TypeOK, IdsAreCounted, IdsAreUnique, CallsOK, Guarding, [Next]_vars,
                    "live" \notin careless'
             PROVE  Guarding'
  BY DEF Guarding
<1>0. "live" \notin careless
  BY DEF Next, Session, Cleaner, Agent, Create, CreateRefused, BulkInsert, Commit, Rollback,
     Die, List, Clear, Undo, Committed, ChangeState, RemoveMeta, Rolledback, Release,
     ReleaseUnanswered, Fail, vars
<1>1. /\ \A s \in Sessions : (object[s] = "active" /\ s \notin unsure) => Owns(s)
      /\ \A c \in Cleaners : (call[c] # "none" /\ Holds(c)) => object[lock.owner] = "dead"
  BY <1>0 DEF Guarding
<1>2. ASSUME NEW s \in Sessions, Create(s) PROVE Guarding'
  <2>1. /\ lock = NoLock /\ UNCHANGED <<call, unsure>>
        /\ lock' = [id |-> lastId + 1, owner |-> s, state |-> "loading"]
        /\ info' = [info EXCEPT ![s] = [lock |-> lastId + 1, txn |-> s]]
        /\ object' = [object EXCEPT ![s] = "active"]
    BY <1>2 DEF Create
  <2>2. \A t \in Sessions \ {s} : object'[t] = "active" => t \in unsure'
    BY <1>1, <2>1 DEF TypeOK, Owns
  <2>3. lock'.owner = s /\ lock'.id = lastId + 1 /\ lock' # NoLock
    BY <2>1, TableLocksAssumption DEF NoLock
  <2>4. Owns(s)'
    BY <2>3 DEF Owns
  <2>5. \A c \in Cleaners : info'[c] = info[c] /\ info[c].lock <= lastId /\ lastId \in Nat
    BY <2>1, TableLocksAssumption DEF TypeOK, Agents, IdsAreUnique, LockId
  <2>6. \A c \in Cleaners : ~Holds(c)'
    BY <2>3, <2>5 DEF Holds
  <2> QED
    BY <2>2, <2>4, <2>6 DEF Guarding
<1>3. ASSUME UNCHANGED <<lock, info, unsure>>,
             \A s \in Sessions : object'[s] = "active" => object[s] = "active",
             \A s \in Sessions : object[s] = "dead" => object'[s] = "dead",
             \A c \in Cleaners : (call'[c] # "none" /\ Holds(c))
                                     => call[c] # "none" \/ object[lock.owner] = "dead"
      PROVE  Guarding'
  <2>1. \A s \in Sessions : Owns(s)' <=> Owns(s)
    BY <1>3 DEF Owns
  <2>2. \A c \in Cleaners : Holds(c)' <=> Holds(c)
    BY <1>3 DEF Holds
  <2>3. lock # NoLock => lock.owner \in Sessions
    BY HeldLock DEF Locks
  <2>4. \A s \in Sessions : (object'[s] = "active" /\ s \notin unsure') => Owns(s)'
    BY <1>1, <1>3, <2>1
  <2>5. \A c \in Cleaners : (call'[c] # "none" /\ Holds(c)') => object'[lock'.owner] = "dead"
    BY <1>1, <1>3, <2>2, <2>3 DEF Holds
  <2> QED
    BY <2>4, <2>5 DEF Guarding
<1>4. ASSUME NEW c \in Cleaners, Clear(c) PROVE Guarding'
  <2>1. ~OwnerIsLive(c) /\ UNCHANGED <<lock, info, unsure, object>>
    BY <1>4 DEF Clear, brmVars
  <2>2. \A d \in Cleaners \ {c} : call'[d] = call[d]
    BY <1>4 DEF Clear, Starts, TypeOK
  <2>3. Holds(c) => object[lock.owner] = "dead"
    BY <2>1 DEF OwnerIsLive
  <2> QED
    BY <1>3, <2>1, <2>2, <2>3
<1>5. ASSUME NEW c \in Cleaners, List(c) PROVE Guarding'
  <2>1. /\ call[c] = "none" /\ UNCHANGED <<object, call, lock, unsure>>
        /\ info' = [info EXCEPT ![c] = [lock |-> lock.id, txn |-> lock.owner]]
    BY <1>5 DEF List, brmVars
  <2>2. \A d \in Cleaners \ {c} : info'[d] = info[d]
    BY <2>1 DEF TypeOK
  <2> QED
    BY <1>1, <2>1, <2>2 DEF Guarding, Owns, Holds
<1>6. ASSUME NEW a \in Agents, ChangeState(a) PROVE Guarding'
  <2>1. /\ lock' = (IF Holds(a) THEN [lock EXCEPT !.state = "cleanup"] ELSE lock)
        /\ UNCHANGED <<object, call, info, unsure>>
    BY <1>6 DEF ChangeState, Goto
  <2>2. lock' # NoLock => lock # NoLock /\ lock'.id = lock.id /\ lock'.owner = lock.owner
    BY <2>1, HeldLock DEF Holds, Locks
  <2>3. lock # NoLock => lock' # NoLock
    <3>1. lock # NoLock => lock'.owner \in Sessions
      BY <2>1, HeldLock DEF Locks
    <3> QED
      BY <3>1, TableLocksAssumption DEF NoLock
  <2> QED
    BY <1>1, <2>1, <2>2, <2>3 DEF Guarding, Owns, Holds
<1>7. ASSUME NEW a \in Agents, Release(a) \/ ReleaseUnanswered(a) PROVE Guarding'
  <2>1. /\ call[a] # "none" /\ lock' = (IF Holds(a) THEN NoLock ELSE lock)
        /\ Ends(a) /\ unsure \subseteq unsure'
        /\ \A s \in Sessions : object'[s] = "active" => object[s] = "active"
        /\ \A s \in Sessions : s # a => object'[s] = object[s]
        /\ a \in Sessions => object'[a] = "closed" \/ a \in unsure'
        /\ a \in Cleaners => object' = object
    BY <1>7, TableLocksAssumption DEF Release, ReleaseUnanswered, Works, TypeOK
  <2>2. /\ info' = info /\ call'[a] = "none"
        /\ \A b \in Agents \ {a} : call'[b] = call[b]
    BY <2>1 DEF Ends, TypeOK
  <2>3. a \in Sessions => Owns(a)
    BY <1>1, <2>1 DEF CallsOK, IdsAreCounted
  <2>4. \A s \in Sessions : (object'[s] = "active" /\ s \notin unsure') => ~Holds(a) /\ Owns(s)
    <3> SUFFICES ASSUME NEW s \in Sessions, object'[s] = "active", s \notin unsure'
                 PROVE  ~Holds(a) /\ Owns(s)
      OBVIOUS
    <3>1. object[s] = "active" /\ Owns(s) /\ s # a
      BY <1>1, <2>1
    <3>2. a \notin Sessions
      BY <2>3, <3>1 DEF Owns
    <3>3. Holds(a) => object[lock.owner] = "dead"
      BY <1>1, <2>1, <3>2 DEF Agents
    <3> QED
      BY <3>1, <3>3 DEF Owns
  <2>5. \A s \in Sessions : (object'[s] = "active" /\ s \notin unsure') => Owns(s)'
    BY <2>1, <2>4 DEF Owns
  <2>6. ASSUME NEW c \in Cleaners, call'[c] # "none", Holds(c)'
        PROVE  object'[lock'.owner] = "dead"
    <3>1. c # a /\ call[c] # "none" /\ lock' = lock /\ lock # NoLock /\ Holds(c) /\ ~Holds(a)
      BY <2>1, <2>2, <2>6 DEF Holds, Agents
    <3>2. object[lock.owner] = "dead" /\ lock.owner \in Sessions
      BY <1>1, <3>1, HeldLock DEF Locks
    <3>3. lock.owner # a
      BY <2>1, <3>2 DEF IdsAreCounted
    <3> QED
      BY <2>1, <3>1, <3>2, <3>3
  <2> QED
    BY <2>5, <2>6 DEF Guarding
<1>8. ASSUME NEW s \in Sessions, Die(s) PROVE Guarding'
  <2>1. UNCHANGED <<lock, info, unsure>> /\ object' = [object EXCEPT ![s] = "dead"]
    BY <1>8 DEF Die, Ends, brmVars
  <2>2. \A c \in Cleaners : call'[c] # "none" => call[c] # "none"
    BY <1>8 DEF Die, Ends, TypeOK, Agents
  <2> QED
    BY <1>3, <2>1, <2>2 DEF TypeOK
<1>9. ASSUME NEW s \in Sessions, CreateRefused(s) PROVE Guarding'
  <2>1. /\ UNCHANGED <<lock, info, unsure, call>> /\ object[s] = "unborn"
        /\ object' = [object EXCEPT ![s] = "closed"]
    BY <1>9 DEF CreateRefused, agentVars
  <2> QED
    BY <1>3, <2>1 DEF TypeOK
<1>10. ASSUME NEW s \in Sessions, Commit(s) \/ Rollback(s) PROVE Guarding'
  <2>1. UNCHANGED <<lock, info, unsure, object>>
    BY <1>10 DEF Commit, Rollback, brmVars
  <2>2. \A c \in Cleaners : call'[c] = call[c]
    BY <1>10, TableLocksAssumption DEF Commit, Rollback, Starts, TypeOK, Agents
  <2> QED
    BY <1>3, <2>1, <2>2
<1>11. ASSUME NEW a \in Agents, Fail(a) PROVE Guarding'
  <2>1. UNCHANGED <<lock, info, unsure, object>>
    BY <1>11 DEF Fail, Ends, brmVars
  <2>2. \A c \in Cleaners : call'[c] # "none" => call[c] # "none"
    BY <1>11 DEF Fail, Ends, TypeOK, Agents
  <2> QED
    BY <1>3, <2>1, <2>2
<1>12. ASSUME UNCHANGED <<lock, info, unsure, object, call>> PROVE Guarding'
  BY <1>3, <1>12
<1> QED
  BY <1>2, <1>4, <1>5, <1>6, <1>7, <1>8, <1>9, <1>10, <1>11, <1>12
     DEF Next, Session, Cleaner, Agent, BulkInsert, Undo, Committed, RemoveMeta, Rolledback,
         Goto, LoopTo, vars, agentVars, brmVars

LEMMA InitGuarding == Init => CallsOK /\ Guarding
BY TableLocksAssumption DEF Init, CallsOK, Guarding, Works, Agents

(* An open bulk insert loses rows only to a clearTableLock() that was      *)
(* called while the owner of its lock was at work, or whose lock is not    *)
(* there any more (src/src/mcsapi_driver.cpp, clearTableLock).             *)
THEOREM LossHasACauseAlways == Spec => LossHasACause
<1>1. TypeOK /\ IdsAreCounted /\ IdsAreUnique /\ CallsOK /\ Guarding /\ [Next]_vars =>
        [\A s \in Sessions :
            (/\ object[s] = "active" /\ call[s] # "rollback" /\ s \notin unsure
             /\ ~(rows[s] \subseteq rows'[s]))
               => \/ "live" \in careless
                  \/ \E c \in Cleaners : Works(c, "undo") /\ ~Holds(c)]_vars
  <2> SUFFICES ASSUME TypeOK, IdsAreCounted, CallsOK, Guarding, [Next]_vars,
                      NEW s \in Sessions, object[s] = "active", call[s] # "rollback",
                      s \notin unsure, ~(rows[s] \subseteq rows'[s]), "live" \notin careless
               PROVE  \E c \in Cleaners : Works(c, "undo") /\ ~Holds(c)
    OBVIOUS
  <2>1. PICK a \in Agents : Undo(a)
    <3>1. ASSUME NEW t \in Sessions, NEW p \in PM, BulkInsert(t, p) PROVE FALSE
      BY <3>1 DEF BulkInsert, TypeOK
    <3> QED
      BY <3>1 DEF Next, Session, Cleaner, Agent, Create, CreateRefused, Commit, Rollback, Die,
         List, Clear, Committed, ChangeState, RemoveMeta, Rolledback, Release,
         ReleaseUnanswered, Fail, vars, weVars
  <2>2. Works(a, "undo") /\ call[a] = "rollback" /\ a # s
    BY <2>1 DEF Undo, CallsOK
  <2>3. Owns(s)
    BY DEF Guarding
  <2>4. a \notin Sessions
    BY <2>2, <2>3 DEF Guarding, IdsAreCounted, CallsOK, Owns
  <2>5. a \in Cleaners /\ ~Holds(a)
    BY <2>2, <2>3, <2>4 DEF Guarding, Agents, Owns
  <2> QED
    BY <2>2, <2>5
<1> QED
  BY InitTypes, NextTypes, NextIds, InitUnique, NextUnique, InitGuarding, NextCalls,
     NextGuarding, <1>1, PTL DEF Spec, LossHasACause

-----------------------------------------------------------------------------
(* What holds as long as no lock is cleared but of a dead owner, by one    *)
(* process at a time, and no release went unanswered.                      *)

IsCommitted(s) == "committed" \in verdicts[s]

(* An object that is in use has the lock, and knows its ID.                *)
OwnersOK ==
    \A s \in Sessions :
        /\ object[s] = "active" => Owns(s) /\ info[s] = [lock |-> lock.id, txn |-> s]
        /\ Owns(s) => object[s] \in {"active", "dead"}
        /\ call[s] # "none" => object[s] = "active"

CleanersOK ==
    \A c \in Cleaners : call[c] # "none" =>
        /\ lock # NoLock /\ info[c] = [lock |-> lock.id, txn |-> lock.owner]
        /\ object[lock.owner] = "dead"
        /\ \A d \in Cleaners : call[d] # "none" => c = d

(* Rows that are not committed can be undone, by who has the lock.         *)
ResidueOK ==
    /\ \A s \in Sessions : \A p \in rows[s] : IsCommitted(s) \/ (Owns(s) /\ meta[p] = s)
    /\ \A p \in PM : meta[p] # None => Owns(meta[p])

(* What a commit or rollback has done when it is at a command.             *)
Done(a) ==
    LET t == info[a].txn IN
    /\ step[a] = "undo" => IsCommitted(t) \/ \A p \in PM : p < at[a] => p \notin rows[t]
    /\ step[a] \in {"changeState", "removeMeta", "rolledback", "release"}
          => IsCommitted(t) \/ rows[t] = {}
    /\ step[a] = "removeMeta" => \A p \in PM : p < at[a] => meta[p] = None
    /\ step[a] \in {"rolledback", "release"} => \A p \in PM : meta[p] = None

ProgressOK ==
    \A a \in Agents :
        /\ (call[a] = "none" \/ step[a] \notin {"undo", "removeMeta"}) => at[a] = 1
        /\ call[a] # "none" => Done(a)

Guarded == Orderly => OwnersOK /\ CleanersOK /\ ResidueOK /\ ProgressOK

LEMMA AtWork ==
    ASSUME TypeOK, OwnersOK, CleanersOK
    PROVE  /\ \A a \in Agents : call[a] # "none" =>
                 /\ lock \in Locks /\ lock # NoLock /\ Holds(a)
                 /\ info[a] = [lock |-> lock.id, txn |-> lock.owner]
                 /\ object[lock.owner] = IF a \in Sessions THEN "active" ELSE "dead"
                 /\ a \in Sessions => a = lock.owner
           /\ \A a, b \in Agents : call[a] # "none" /\ call[b] # "none" => a = b
           /\ \A s \in Sessions : Idle(s) => Owns(s) /\ \A a \in Agents : call[a] = "none"
<1>1. ASSUME NEW a \in Agents, call[a] # "none"
      PROVE  /\ lock \in Locks /\ lock # NoLock
             /\ info[a] = [lock |-> lock.id, txn |-> lock.owner]
             /\ object[lock.owner] = IF a \in Sessions THEN "active" ELSE "dead"
             /\ a \in Sessions => a = lock.owner
  <2>1. CASE a \in Sessions
    <3>1. object[a] = "active" /\ Owns(a) /\ info[a] = [lock |-> lock.id, txn |-> a]
      BY <1>1, <2>1 DEF OwnersOK
    <3> QED
      BY <2>1, <3>1, HeldLock DEF Owns
  <2>2. CASE a \in Cleaners
    <3>1. a \notin Sessions
      BY <2>2, TableLocksAssumption
    <3>2. /\ lock # NoLock /\ info[a] = [lock |-> lock.id, txn |-> lock.owner]
          /\ object[lock.owner] = "dead"
      BY <1>1, <2>2 DEF CleanersOK
    <3> QED
      BY <3>1, <3>2, HeldLock
  <2> QED
    BY <2>1, <2>2 DEF Agents
<1>2. ASSUME NEW a \in Agents, call[a] # "none" PROVE Holds(a)
  BY <1>1, <1>2 DEF Holds
<1>3. ASSUME NEW a \in Agents, NEW b \in Agents, call[a] # "none", call[b] # "none"
      PROVE  a = b
  BY <1>1, <1>3 DEF CleanersOK, Agents
<1>4. ASSUME NEW s \in Sessions, Idle(s)
      PROVE  Owns(s) /\ \A a \in Agents : call[a] = "none"
  <2>1. Owns(s) /\ call[s] = "none" /\ object[s] = "active"
    BY <1>4 DEF Idle, OwnersOK
  <2>2. ASSUME NEW a \in Agents, call[a] # "none" PROVE FALSE
    BY <1>1, <2>1, <2>2 DEF Owns
  <2> QED
    BY <2>1, <2>2
<1> QED
  BY <1>1, <1>2, <1>3, <1>4

(* A lost reply to a release is never found again.                         *)
LEMMA OrderlyBefore == [Next]_vars => (Orderly' => Orderly)
<1> SUFFICES ASSUME [Next]_vars PROVE unsure \subseteq unsure' /\ careless \subseteq careless'
  BY DEF Orderly
<1>1. ASSUME NEW c \in Cleaners, Clear(c) PROVE unsure' = unsure /\ careless \subseteq careless'
  BY <1>1 DEF Clear
<1>2. ASSUME NEW a \in Agents, ReleaseUnanswered(a)
      PROVE  unsure \subseteq unsure' /\ careless' = careless
  BY <1>2 DEF ReleaseUnanswered
<1>3. CASE UNCHANGED <<unsure, careless>>
  BY <1>3
<1> QED
  BY <1>1, <1>2, <1>3 DEF Next, Session, Cleaner, Agent, Create, CreateRefused, BulkInsert,
     Commit, Rollback, Die, List, Undo, Committed, ChangeState, RemoveMeta, Rolledback,
     Release, Fail, vars

LEMMA InitGuarded == Init => Guarded
BY DEF Init, Guarded, OwnersOK, CleanersOK, ResidueOK, ProgressOK, Owns, Agents

LEMMA NextGuarded ==
    TypeOK /\ TypeOK' /\ IdsAreUnique /\ Guarded /\ [Next]_vars => Guarded'
<1> SUFFICES ASSUME TypeOK, TypeOK', IdsAreUnique, [Next]_vars, Orderly', Orderly,
                    OwnersOK, CleanersOK, ResidueOK, ProgressOK
             PROVE  OwnersOK' /\ CleanersOK' /\ ResidueOK' /\ ProgressOK'
  BY OrderlyBefore DEF Guarded
<1> USE TableLocksAssumption, PMs
<1>0. /\ \A a \in Agents : call[a] # "none" =>
           /\ lock \in Locks /\ lock # NoLock /\ Holds(a)
           /\ info[a] = [lock |-> lock.id, txn |-> lock.owner]
           /\ object[lock.owner] = IF a \in Sessions THEN "active" ELSE "dead"
           /\ a \in Sessions => a = lock.owner
      /\ \A a, b \in Agents : call[a] # "none" /\ call[b] # "none" => a = b
      /\ \A s \in Sessions : Idle(s) => Owns(s) /\ \A a \in Agents : call[a] = "none"
  BY AtWork
<1>1. ASSUME NEW s \in Sessions, Create(s)
      PROVE  OwnersOK' /\ CleanersOK' /\ ResidueOK' /\ ProgressOK'
  <2>1. /\ lock = NoLock /\ object[s] = "unborn"
        /\ lock' = [id |-> lastId + 1, owner |-> s, state |-> "loading"]
        /\ info' = [info EXCEPT ![s] = [lock |-> lastId + 1, txn |-> s]]
        /\ object' = [object EXCEPT ![s] = "active"]
        /\ UNCHANGED <<call, step, at, verdicts, rows, meta>>
    BY <1>1 DEF Create, weVars
  <2>2. /\ \A a \in Agents : call[a] = "none"
        /\ \A t \in Sessions : object[t] # "active"
    BY <1>0, <2>1 DEF OwnersOK, Owns
  <2>3. /\ \A p \in PM : meta[p] = None
        /\ \A t \in Sessions : rows[t] = {} \/ IsCommitted(t)
    BY <2>1 DEF ResidueOK, Owns
  <2>4. lock' # NoLock /\ lock'.owner = s /\ lock'.id = lastId + 1
    BY <2>1 DEF NoLock
  <2>5. \A t \in Sessions \ {s} : object'[t] = object[t]
    BY <2>1 DEF TypeOK
  <2>6. object'[s] = "active" /\ info'[s] = [lock |-> lastId + 1, txn |-> s]
    BY <2>1 DEF TypeOK, Agents
  <2>7. OwnersOK'
    BY <2>1, <2>2, <2>4, <2>5, <2>6 DEF OwnersOK, Owns, Agents
  <2>8. CleanersOK' /\ ResidueOK'
    BY <2>1, <2>2, <2>3 DEF CleanersOK, ResidueOK, IsCommitted, Agents
  <2>9. ProgressOK'
    BY <2>1, <2>2 DEF ProgressOK
  <2> QED
    BY <2>7, <2>8, <2>9
<1>2. ASSUME NEW s \in Sessions, CreateRefused(s)
      PROVE  OwnersOK' /\ CleanersOK' /\ ResidueOK' /\ ProgressOK'
  <2>1. /\ object[s] = "unborn" /\ object' = [object EXCEPT ![s] = "closed"]
        /\ UNCHANGED <<call, step, at, info, lock, rows, meta>>
    BY <1>2 DEF CreateRefused, agentVars, weVars
  <2>2. \A t \in Sessions : IsCommitted(t)' <=> IsCommitted(t)
    BY <1>2 DEF CreateRefused, IsCommitted, TypeOK
  <2>3. OwnersOK'
    BY <2>1 DEF OwnersOK, Owns, TypeOK
  <2>4. CleanersOK'
    BY <2>1 DEF CleanersOK, TypeOK
  <2>5. ResidueOK'
    BY <2>1, <2>2 DEF ResidueOK, Owns
  <2>6. \A a \in Agents : call[a] # "none" => info[a].txn \in Sessions
    BY <1>0 DEF Locks
  <2>7. \A a \in Agents : call[a] # "none" /\ Done(a) => Done(a)'
    BY <2>1, <2>2, <2>6 DEF Done
  <2>8. ProgressOK'
    BY <2>1, <2>7 DEF ProgressOK
  <2> QED
    BY <2>3, <2>4, <2>5, <2>8
<1>3. ASSUME NEW s \in Sessions, NEW p \in PM, BulkInsert(s, p)
      PROVE  OwnersOK' /\ CleanersOK' /\ ResidueOK' /\ ProgressOK'
  <2>1. Owns(s) /\ \A a \in Agents : call[a] = "none"
    BY <1>0, <1>3 DEF BulkInsert
  <2>2. ResidueOK'
    BY <1>3, <2>1 DEF BulkInsert, TypeOK, brmVars, ResidueOK, Owns, IsCommitted
  <2> QED
    BY <1>3, <2>1, <2>2 DEF BulkInsert, brmVars, agentVars, OwnersOK, CleanersOK, ProgressOK, Owns
<1>4. ASSUME UNCHANGED <<object, info, lock, verdicts, rows, meta>>,
             NEW a \in Agents, NEW c \in {"commit", "rollback"},
             NEW first \in {"committed", "undo"}, Starts(a, c, first), call[a] = "none",
             a \in Sessions => object[a] = "active",
             a \in Cleaners => /\ lock # NoLock /\ object[lock.owner] = "dead"
                               /\ info[a] = [lock |-> lock.id, txn |-> lock.owner]
                               /\ \A d \in Cleaners : call[d] = "none"
      PROVE  OwnersOK' /\ CleanersOK' /\ ResidueOK' /\ ProgressOK'
  <2>1. /\ call'[a] = c /\ step'[a] = first /\ at' = at
        /\ \A b \in Agents \ {a} : call'[b] = call[b] /\ step'[b] = step[b]
    BY <1>4 DEF Starts, TypeOK
  <2>2. OwnersOK' /\ CleanersOK' /\ ResidueOK'
    BY <1>4, <2>1 DEF OwnersOK, CleanersOK, ResidueOK, Owns, IsCommitted, Agents
  <2>3. \A p \in PM : ~(p < 1)
    BY DEF PM
  <2>4. at[a] = 1
    BY <1>4 DEF ProgressOK
  <2>5. Done(a)'
    BY <1>4, <2>1, <2>3 DEF Done, ProgressOK
  <2>6. \A b \in Agents \ {a} : Done(b) => Done(b)'
    BY <1>4, <2>1 DEF Done, IsCommitted
  <2> QED
    BY <1>4, <2>1, <2>2, <2>4, <2>5, <2>6 DEF ProgressOK
<1>5. ASSUME NEW s \in Sessions, Commit(s) \/ Rollback(s)
      PROVE  OwnersOK' /\ CleanersOK' /\ ResidueOK' /\ ProgressOK'
  <2>1. PICK c \in {"commit", "rollback"}, first \in {"committed", "undo"} : Starts(s, c, first)
    BY <1>5 DEF Commit, Rollback
  <2>2. Idle(s) /\ UNCHANGED <<object, info, lock, verdicts, rows, meta>> /\ s \notin Cleaners
    BY <1>5 DEF Commit, Rollback, brmVars, weVars
  <2> QED
    BY <1>4, <2>1, <2>2 DEF Idle, Agents
<1>6. ASSUME NEW c \in Cleaners, Clear(c)
      PROVE  OwnersOK' /\ CleanersOK' /\ ResidueOK' /\ ProgressOK'
  <2>1. /\ UNCHANGED <<object, info, lock, verdicts, rows, meta>>
        /\ Starts(c, "rollback", "undo") /\ call[c] = "none"
    BY <1>6 DEF Clear, brmVars, weVars
  <2>0. ~OwnerIsLive(c) /\ ~ComesLate(c)
    BY <1>6 DEF Clear, Orderly
  <2>4. /\ Holds(c) /\ object[lock.owner] = "dead"
        /\ \A d \in Cleaners : call[d] = "none"
    BY <2>0 DEF OwnerIsLive, ComesLate
  <2>2. info[c] \in Info /\ info[c].lock = lock.id /\ info[c].txn = lock.owner
    BY <2>4 DEF Holds, IdsAreUnique, TypeOK, Agents
  <2>3. info[c] = [lock |-> lock.id, txn |-> lock.owner]
    BY <2>2 DEF Info
  <2> QED
    BY <1>4, <2>1, <2>3, <2>4 DEF Holds, Agents
<1>7. ASSUME NEW s \in Sessions, Die(s)
      PROVE  OwnersOK' /\ CleanersOK' /\ ResidueOK' /\ ProgressOK'
  BY <1>7 DEF Die, Ends, TypeOK, Agents, brmVars, weVars, OwnersOK, CleanersOK, ResidueOK,
     ProgressOK, Done, Owns, IsCommitted
<1>8. ASSUME NEW c \in Cleaners, List(c)
      PROVE  OwnersOK' /\ CleanersOK' /\ ResidueOK' /\ ProgressOK'
  BY <1>8 DEF List, TypeOK, Agents, brmVars, weVars, OwnersOK, CleanersOK, ResidueOK,
     ProgressOK, Done, Owns, IsCommitted
<1>9. ASSUME NEW a \in Agents, call[a] # "none",
             UNCHANGED <<object, call, info, lock>>
      PROVE  OwnersOK' /\ CleanersOK'
  BY <1>9 DEF OwnersOK, CleanersOK, Owns
<1>10. ASSUME NEW a \in Agents, Undo(a)
       PROVE  OwnersOK' /\ CleanersOK' /\ ResidueOK' /\ ProgressOK'
  <2>1. /\ call[a] # "none" /\ step[a] = "undo" /\ LoopTo(a, "undo", "changeState")
        /\ rows' = [s \in Sessions |-> IF meta[at[a]] = s THEN rows[s] \ {at[a]} ELSE rows[s]]
        /\ UNCHANGED <<object, call, info, lock, verdicts, meta>>
    BY <1>10 DEF Undo, Works, LoopTo, brmVars
  <2>2. OwnersOK' /\ CleanersOK'
    BY <1>9, <2>1
  <2>3. ResidueOK'
    BY <2>1 DEF ResidueOK, Owns, IsCommitted
  <2>4. \A b \in Agents \ {a} : call'[b] = "none" /\ at'[b] = 1
    BY <1>0, <2>1 DEF LoopTo, TypeOK, ProgressOK
  <2>5. /\ info[a].txn = lock.owner /\ lock.owner \in Sessions
    BY <1>0, <2>1 DEF Locks
  <2>6. IsCommitted(lock.owner) \/ \A p \in PM : p <= at[a] => p \notin rows'[lock.owner]
    <3> SUFFICES ASSUME ~IsCommitted(lock.owner), NEW p \in PM, p <= at[a], p \in rows'[lock.owner]
                 PROVE  FALSE
      OBVIOUS
    <3>1. p \in rows[lock.owner] /\ meta[p] = lock.owner
      BY <2>1, <2>5 DEF ResidueOK
    <3>2. p # at[a]
      BY <2>1, <2>5, <3>1
    <3>3. p < at[a]
      BY <3>2 DEF TypeOK, PM
    <3> QED
      BY <2>1, <2>5, <3>1, <3>3 DEF ProgressOK, Done
  <2>7. CASE at[a] < NumPM
    <3>1. step'[a] = "undo" /\ at'[a] = at[a] + 1
      BY <2>1, <2>7 DEF LoopTo, TypeOK
    <3>2. \A p \in PM : p < at[a] + 1 => p <= at[a]
      BY DEF TypeOK, PM
    <3>3. Done(a)'
      BY <2>1, <2>5, <2>6, <3>1, <3>2 DEF Done, IsCommitted
    <3> QED
      BY <2>1, <2>2, <2>3, <2>4, <3>1, <3>3 DEF ProgressOK
  <2>8. CASE ~(at[a] < NumPM)
    <3>1. step'[a] = "changeState" /\ at'[a] = 1
      BY <2>1, <2>8 DEF LoopTo, TypeOK
    <3>2. \A p \in PM : p <= at[a]
      BY <2>8 DEF TypeOK, PM
    <3>3. rows'[lock.owner] \subseteq PM
      BY <2>5 DEF TypeOK
    <3>4. Done(a)'
      BY <2>1, <2>5, <2>6, <3>1, <3>2, <3>3 DEF Done, IsCommitted
    <3> QED
      BY <2>2, <2>3, <2>4, <3>1, <3>4 DEF ProgressOK
  <2> QED
    BY <2>7, <2>8
<1>11. ASSUME NEW s \in Sessions, Committed(s)
       PROVE  OwnersOK' /\ CleanersOK' /\ ResidueOK' /\ ProgressOK'
  BY <1>0, <1>11 DEF Committed, Works, Verdict, Goto, TypeOK, Agents, weVars, OwnersOK,
     CleanersOK, ResidueOK, ProgressOK, Done, Owns, IsCommitted
<1>12. ASSUME NEW a \in Agents, ChangeState(a)
       PROVE  OwnersOK' /\ CleanersOK' /\ ResidueOK' /\ ProgressOK'
  <2>1. /\ call[a] # "none" /\ step[a] = "changeState" /\ Goto(a, "removeMeta")
        /\ lock' = (IF Holds(a) THEN [lock EXCEPT !.state = "cleanup"] ELSE lock)
        /\ UNCHANGED <<object, verdicts, rows, meta>>
    BY <1>12 DEF ChangeState, Works, weVars
  <2>2. lock' = [lock EXCEPT !.state = "cleanup"] /\ lock \in Locks /\ lock # NoLock
    BY <1>0, <2>1
  <2>3. lock'.id = lock.id /\ lock'.owner = lock.owner /\ lock' # NoLock
    BY <2>2 DEF Locks, NoLock
  <2>4. \A t \in Sessions : Owns(t)' <=> Owns(t)
    BY <2>2, <2>3 DEF Owns
  <2>5. UNCHANGED <<call, at, info>>
    BY <2>1 DEF Goto
  <2>6. OwnersOK' /\ CleanersOK' /\ ResidueOK'
    <3>1. OwnersOK'
      BY <2>1, <2>3, <2>4, <2>5 DEF OwnersOK
    <3>2. CleanersOK'
      BY <2>1, <2>2, <2>3, <2>5 DEF CleanersOK
    <3>3. ResidueOK'
      <4>1. \A p \in PM : meta[p] # None => meta[p] \in Sessions
        BY DEF TypeOK
      <4> QED
        BY <2>1, <2>4, <4>1 DEF ResidueOK, IsCommitted
    <3> QED
      BY <3>1, <3>2, <3>3
  <2>7. step'[a] = "removeMeta" /\ \A b \in Agents \ {a} : step'[b] = step[b]
    BY <2>1 DEF Goto, TypeOK
  <2>8. at[a] = 1 /\ \A p \in PM : ~(p < 1)
    BY <2>1 DEF ProgressOK, PM
  <2> QED
    BY <2>1, <2>5, <2>6, <2>7, <2>8 DEF ProgressOK, Done, IsCommitted
<1>13. ASSUME NEW a \in Agents, RemoveMeta(a)
       PROVE  OwnersOK' /\ CleanersOK' /\ ResidueOK' /\ ProgressOK'
  <2>1. /\ call[a] # "none" /\ step[a] = "removeMeta"
        /\ LoopTo(a, "removeMeta", IF call[a] = "commit" THEN "release" ELSE "rolledback")
        /\ meta' = [meta EXCEPT ![at[a]] = None]
        /\ UNCHANGED <<object, call, info, lock, verdicts, rows>>
    BY <1>13 DEF RemoveMeta, Works, LoopTo, brmVars
  <2>2. OwnersOK' /\ CleanersOK'
    BY <1>9, <2>1
  <2>3. /\ info[a].txn = lock.owner /\ lock.owner \in Sessions
        /\ IsCommitted(lock.owner) \/ rows[lock.owner] = {}
    BY <1>0, <2>1 DEF Locks, ProgressOK, Done
  <2>4. \A p \in PM : meta'[p] = IF p = at[a] THEN None ELSE meta[p]
    BY <2>1 DEF TypeOK
  <2>5. ResidueOK'
    <3>1. \A s \in Sessions : \A p \in rows[s] : IsCommitted(s)
      BY <2>3 DEF ResidueOK, Owns
    <3> QED
      BY <2>1, <2>4, <3>1 DEF ResidueOK, Owns, IsCommitted
  <2>6. \A b \in Agents \ {a} : call'[b] = "none" /\ at'[b] = 1
    BY <1>0, <2>1 DEF LoopTo, TypeOK, ProgressOK
  <2>7. \A p \in PM : p <= at[a] => meta'[p] = None
    <3> SUFFICES ASSUME NEW p \in PM, p <= at[a], p # at[a] PROVE meta[p] = None
      BY <2>4
    <3>1. p < at[a]
      BY DEF TypeOK, PM
    <3> QED
      BY <2>1, <3>1 DEF ProgressOK, Done
  <2>8. CASE at[a] < NumPM
    <3>1. step'[a] = "removeMeta" /\ at'[a] = at[a] + 1
      BY <2>1, <2>8 DEF LoopTo, TypeOK
    <3>2. \A p \in PM : p < at[a] + 1 => p <= at[a]
      BY DEF TypeOK, PM
    <3>3. Done(a)'
      BY <2>1, <2>3, <2>7, <3>1, <3>2 DEF Done, IsCommitted
    <3> QED
      BY <2>1, <2>2, <2>5, <2>6, <3>1, <3>3 DEF ProgressOK
  <2>9. CASE ~(at[a] < NumPM)
    <3>1. step'[a] \in {"release", "rolledback"} /\ at'[a] = 1
      BY <2>1, <2>9 DEF LoopTo, TypeOK
    <3>2. \A p \in PM : p <= at[a]
      BY <2>9 DEF TypeOK, PM
    <3>3. Done(a)'
      BY <2>1, <2>3, <2>7, <3>1, <3>2 DEF Done, IsCommitted
    <3> QED
      BY <2>1, <2>2, <2>5, <2>6, <3>1, <3>3 DEF ProgressOK
  <2> QED
    BY <2>8, <2>9
<1>14. ASSUME NEW a \in Agents, Rolledback(a)
       PROVE  OwnersOK' /\ CleanersOK' /\ ResidueOK' /\ ProgressOK'
  BY <1>0, <1>14 DEF Rolledback, Works, Verdict, Goto, TypeOK, weVars, OwnersOK,
     CleanersOK, ResidueOK, ProgressOK, Done, Owns, IsCommitted
<1>15. ASSUME NEW a \in Agents, Release(a) \/ ReleaseUnanswered(a)
       PROVE  OwnersOK' /\ CleanersOK' /\ ResidueOK' /\ ProgressOK'
  <2>1. /\ call[a] # "none" /\ step[a] = "release" /\ Ends(a) /\ lock' = NoLock
        /\ object' = IF a \in Sessions THEN [object EXCEPT ![a] = "closed"] ELSE object
        /\ UNCHANGED <<verdicts, rows, meta>>
    <3>1. a \in Sessions => ~ReleaseUnanswered(a)
      BY DEF ReleaseUnanswered, Orderly
    <3> QED
      BY <1>0, <1>15, <3>1 DEF Release, ReleaseUnanswered, Works, weVars
  <2>2. /\ info' = info /\ \A b \in Agents : call'[b] = "none"
        /\ \A b \in Agents : at'[b] = 1
    BY <1>0, <2>1 DEF Ends, TypeOK, ProgressOK
  <2>3. /\ info[a].txn = lock.owner /\ lock.owner \in Sessions
        /\ IsCommitted(lock.owner) \/ rows[lock.owner] = {}
        /\ \A p \in PM : meta[p] = None
    BY <1>0, <2>1 DEF Locks, ProgressOK, Done
  <2>4. ResidueOK'
    <3>1. \A s \in Sessions : \A p \in rows[s] : IsCommitted(s)
      BY <2>3 DEF ResidueOK, Owns
    <3> QED
      BY <2>1, <2>3, <3>1 DEF ResidueOK, IsCommitted
  <2>5. \A s \in Sessions : object'[s] # "active"
    <3> SUFFICES ASSUME NEW s \in Sessions, object'[s] = "active" PROVE FALSE
      OBVIOUS
    <3>1. object[s] = "active" /\ s # a
      BY <2>1 DEF TypeOK
    <3>2. lock.owner = s
      BY <3>1 DEF OwnersOK, Owns
    <3> QED
      BY <1>0, <2>1, <3>1, <3>2
  <2>6. OwnersOK' /\ CleanersOK'
    BY <2>1, <2>2, <2>5 DEF OwnersOK, CleanersOK, Owns, Agents
  <2> QED
    BY <2>2, <2>4, <2>6 DEF ProgressOK
<1>16. ASSUME NEW a \in Agents, Fail(a)
       PROVE  OwnersOK' /\ CleanersOK' /\ ResidueOK' /\ ProgressOK'
  BY <1>16 DEF Fail, Ends, TypeOK, brmVars, weVars, OwnersOK, CleanersOK, ResidueOK,
     ProgressOK, Done, Owns, IsCommitted
<1>17. CASE UNCHANGED vars
  BY <1>17 DEF vars, agentVars, brmVars, weVars, OwnersOK, CleanersOK, ResidueOK,
     ProgressOK, Done, Owns, IsCommitted
<1> QED
  BY <1>1, <1>2, <1>3, <1>5, <1>6, <1>7, <1>8, <1>10, <1>11, <1>12, <1>13,
     <1>14, <1>15, <1>16, <1>17 DEF Next, Session, Cleaner, Agent

-----------------------------------------------------------------------------
IInv == TypeOK /\ IdsAreCounted /\ IdsAreUnique /\ Guarded

LEMMA Inductive ==
    /\ Init => IInv
    /\ IInv /\ [Next]_vars => IInv'
<1>1. Init => IInv
  BY InitTypes, InitUnique, InitGuarded DEF IInv
<1>2. IInv /\ [Next]_vars => IInv'
  BY NextTypes, NextIds, NextUnique, NextGuarded DEF IInv
<1> QED
  BY <1>1, <1>2

(* Whoever takes the lock next finds no rows of a transaction that is not  *)
(* committed, at whatever command its owner died or a clearTableLock()     *)
(* stopped (src/src/mcsapi_driver.cpp, clearTableLock).                    *)
THEOREM ResidueIsLockedAlways == Spec => []ResidueIsLocked
<1>1. IInv => ResidueIsLocked
  BY DEF IInv, Guarded, ResidueOK, ResidueIsLocked, IsCommitted
<1> QED
  BY Inductive, <1>1, PTL DEF Spec

(* An object never asks for its lock again, and still writes only as long  *)
(* as it has it (src/src/mcsapi_bulk.cpp, writeRow).                       *)
THEOREM WritesUnderLockAlways == Spec => WritesUnderLock
<1>1. IInv /\ [Next]_vars =>
        [Orderly => \A s \in Sessions : rows'[s] \subseteq rows[s] \/ Owns(s)]_vars
  <2> SUFFICES ASSUME IInv, [Next]_vars, Orderly, NEW s \in Sessions
               PROVE  rows'[s] \subseteq rows[s] \/ Owns(s)
    OBVIOUS
  <2> USE DEF IInv
  <2>1. ASSUME NEW t \in Sessions, NEW p \in PM, BulkInsert(t, p)
        PROVE  rows'[s] \subseteq rows[s] \/ Owns(s)
    <3>1. Owns(t)
      BY <2>1 DEF BulkInsert, Idle, Guarded, OwnersOK
    <3>2. s # t => rows'[s] = rows[s]
      BY <2>1 DEF BulkInsert, TypeOK
    <3> QED
      BY <3>1, <3>2
  <2>2. ASSUME NEW a \in Agents, Undo(a) PROVE rows'[s] \subseteq rows[s]
    BY <2>2 DEF Undo, TypeOK
  <2>3. ASSUME UNCHANGED rows PROVE rows'[s] \subseteq rows[s]
    BY <2>3
  <2> QED
    BY <2>1, <2>2, <2>3 DEF Next, Session, Cleaner, Agent, Create, CreateRefused, Commit,
       Rollback, Die, List, Clear, Committed, ChangeState, RemoveMeta, Rolledback, Release,
       ReleaseUnanswered, Fail, vars, weVars
<1> QED
  BY Inductive, <1>1, PTL DEF Spec, WritesUnderLock

(* No rollback files outlive a commit, and with them no danger to what was *)
(* committed and closed (src/src/mcsapi_bulk.cpp, commit).                 *)
THEOREM CommittedRowsStayAlways == Spec => CommittedRowsStay
<1>1. IInv /\ [Next]_vars =>
        [\A s \in Sessions : (object[s] = "closed" /\ Orderly) => rows'[s] = rows[s]]_vars
  <2> SUFFICES ASSUME IInv, [Next]_vars, Orderly, NEW s \in Sessions, object[s] = "closed"
               PROVE  rows'[s] = rows[s]
    OBVIOUS
  <2> USE DEF IInv
  <2>1. ASSUME NEW t \in Sessions, NEW p \in PM, BulkInsert(t, p)
        PROVE  rows'[s] = rows[s]
    BY <2>1 DEF BulkInsert, Idle, TypeOK
  <2>2. ASSUME NEW a \in Agents, Undo(a) PROVE rows'[s] = rows[s]
    <3>1. ~Owns(s)
      BY DEF Guarded, OwnersOK
    <3>2. \A p \in PM : meta[p] # None => Owns(meta[p])
      BY DEF Guarded, ResidueOK
    <3>3. \A p \in PM : meta[p] # s
      BY <3>1, <3>2, TableLocksAssumption
    <3> QED
      BY <2>2, <3>3 DEF Undo, TypeOK
  <2>3. ASSUME UNCHANGED rows PROVE rows'[s] = rows[s]
    BY <2>3
  <2> QED
    BY <2>1, <2>2, <2>3 DEF Next, Session, Cleaner, Agent, Create, CreateRefused, Commit,
       Rollback, Die, List, Clear, Committed, ChangeState, RemoveMeta, Rolledback, Release,
       ReleaseUnanswered, Fail, vars, weVars
<1> QED
  BY Inductive, <1>1, PTL DEF Spec, CommittedRowsStay

(* A clearTableLock() that returns has freed the table and erased the      *)
(* transaction from all PMs, unless that was committed already             *)
(* (src/src/mcsapi_driver.cpp, clearTableLock).                            *)
THEOREM ClearErasesAlways == Spec => ClearErases
<1>1. IInv /\ [Next]_vars =>
        [\A c \in Cleaners :
            (Orderly /\ step[c] = "release" /\ step'[c] = "idle" /\ faults' = faults)
               => /\ lock' = NoLock
                  /\ rows'[info[c].txn] = {} \/ "committed" \in verdicts[info[c].txn]]_vars
  <2> SUFFICES ASSUME IInv, [Next]_vars, NEW c \in Cleaners, Orderly,
                      step[c] = "release", step'[c] = "idle", faults' = faults
               PROVE  /\ lock' = NoLock
                      /\ rows'[info[c].txn] = {} \/ "committed" \in verdicts[info[c].txn]
    OBVIOUS
  <2> USE TableLocksAssumption DEF IInv
  <2>0. c \in Agents /\ c \notin Sessions
    BY DEF Agents
  <2>1. CASE Release(c)
    <3>1. call[c] # "none" /\ UNCHANGED rows /\ lock' = (IF Holds(c) THEN NoLock ELSE lock)
      BY <2>1 DEF Release, Works, weVars
    <3>2. Holds(c)
      BY <2>0, <3>1 DEF Guarded, CleanersOK, Holds
    <3>3. IsCommitted(info[c].txn) \/ rows[info[c].txn] = {}
      BY <2>0, <3>1 DEF Guarded, ProgressOK, Done
    <3> QED
      BY <3>1, <3>2, <3>3 DEF IsCommitted
  <2>3. ASSUME UNCHANGED step PROVE FALSE
    BY <2>3
  <2>4. ASSUME NEW a \in Agents, Agent(a) PROVE a = c /\ Release(c)
    <3>1. faults' # faults \/ Undo(a) \/ ChangeState(a) \/ RemoveMeta(a) \/ Rolledback(a) \/ Release(a)
      BY <2>4 DEF Agent, ReleaseUnanswered, Fail, Fault, TypeOK
    <3>2. ASSUME a # c PROVE FALSE
      BY <2>0, <2>4, <3>2 DEF Agent, Undo, ChangeState, RemoveMeta, Rolledback, Release,
         ReleaseUnanswered, Fail, LoopTo, Goto, Ends, TypeOK
    <3>3. CASE a = c
      BY <3>1, <3>3 DEF Undo, ChangeState, RemoveMeta, Rolledback, Works
    <3> QED
      BY <3>2, <3>3
  <2>5. ASSUME NEW s \in Sessions, Session(s) PROVE FALSE
    <3>1. s # c /\ s \in Agents
      BY <2>0 DEF Agents
    <3> QED
      BY <2>0, <2>5, <3>1 DEF Session, Create, CreateRefused, BulkInsert, Commit, Rollback,
         Committed, Die, Starts, Goto, Ends, TypeOK, agentVars
  <2>6. ASSUME NEW d \in Cleaners, Cleaner(d) PROVE FALSE
    <3>1. d \in Agents
      BY DEF Agents
    <3> QED
      BY <2>0, <2>6, <3>1 DEF Cleaner, List, Clear, Starts, TypeOK
  <2> QED
    BY <2>1, <2>3, <2>4, <2>5, <2>6 DEF Next, vars, agentVars
<1> QED
  BY Inductive, <1>1, PTL DEF Spec, ClearErases

=============================================================================
