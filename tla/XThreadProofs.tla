---------------------------- MODULE XThreadProofs ----------------------------
(***************************************************************************)
(* Proofs about XThread, for any number of threads and entries, of a       *)
(* program that joins a thread only after its creation has returned.       *)
(*                                                                         *)
(* That the two counters lead to an entry nobody has depends on two facts  *)
(* about the set of taken entries: it is what threads own together with    *)
(* what detached threads have lost, and _aliveThreads is its cardinality,  *)
(* but for the thread that is being counted in or out.                     *)
(***************************************************************************)
EXTENDS XThread, NumberLemmas

\* The steps inside the critical sections.
Critical == {"alloc", "take", "map", "free", "count"}

\* The global lock is held in the critical sections and nowhere else.
Locked == \A t \in Threads : pc[t] \in Critical <=> globalLock = t

Creating(t) == pc[t] \in {"alloc lock", "alloc", "take", "spawn", "map lock", "map"}
Joining(t)  == pc[t] \in {"wait", "free lock", "free"}

\* What the life of a thread has reached at each step of the call that creates
\* or joins it.
StatusAt(step) ==
  CASE step \in {"alloc lock", "alloc", "take"} -> {"created"}
    [] step = "spawn"                           -> {"allotted"}
    [] step \in {"map lock", "map", "wait"}     -> {"running", "exited"}
    [] step \in {"free lock", "free"}           -> {"exited"}
    [] step = "count"                           -> {"none"}

\* A thread is created or joined by one call at a time, and by none while the
\* application could join or detach it.
Roles ==
  \A t \in Threads :
    /\ pc[t] = "idle" <=> other[t] = NULL
    /\ pc[t] # "idle" =>
         /\ status[other[t]] \in StatusAt(pc[t])
         /\ other[t] \notin joinable \cup detached
         /\ \A u \in Threads : other[u] = other[t] => u = t
    /\ Creating(t) => other[t] # Main

\* The entry of a thread is in the map, and has not been lost.
Recorded(u) ==
  /\ xmap[PthreadT(u)] = index[u]
  /\ index[u] \notin lost

\* An entry of the table that is recorded at all is recorded for itself, and
\* those of the threads that may be joined, or are, are recorded.
MapExact ==
  /\ index[Main] = 0
  /\ xmap[Main] = 0
  /\ \A i \in Indexes : xmap[i] \in {NULL, i}
  /\ \A u \in joinable : status[u] \in {"running", "exited"} /\ Recorded(u)
  /\ \A u \in detached : status[u] = "running" /\ index[u] \in lost
  /\ \A t \in Threads :
       /\ Joining(t) => Recorded(other[t])
       /\ pc[t] \in {"spawn", "map lock", "map"} => index[other[t]] \notin lost

\* The entries of threads.
Owned == {index[t] : t \in Owners}

\* A thread that is counted and has no entry yet, or no longer has one.
Uncounted ==
  IF globalLock # NULL /\ pc[globalLock] \in {"take", "count"} THEN 1 ELSE 0

\* The counters and the taken entries.
Counted ==
  /\ Taken = Owned \cup lost
  /\ Taken \subseteq 0 .. threadIndex - 1
  /\ aliveThreads = Cardinality(Taken) + Uncounted

\* An entry that has been chosen is free, or there was none to choose from.
ChosenFree ==
  /\ threadIndex <= MaxAlive \/ \E t \in Threads : pc[t] = "take"
  /\ \A t \in Threads : pc[t] = "take" =>
       LET i == index[other[t]]
       IN IF i \in Indexes THEN i \notin Taken /\ i < threadIndex /\ threadIndex <= MaxAlive
                           ELSE Indexes \subseteq Taken

\* What holds of the table until an entry outside of it is written to.
TableExact ==
  halted # "bad index" =>
    /\ \A u \in Owners : index[u] \in Indexes
    /\ Counted
    /\ ChosenFree

IInv ==
  /\ TypeOK
  /\ Locked
  /\ Roles
  /\ MapExact
  /\ TableExact
  /\ ExclusiveIndex
  /\ IndexInTable

\* A set of numbers below n has n of them only if it has all.
LEMMA FullInterval ==
  ASSUME NEW n \in Nat, NEW S, S \subseteq 0 .. n - 1
  PROVE  /\ IsFiniteSet(S)
         /\ Cardinality(S) \in Nat
         /\ Cardinality(S) = n => S = 0 .. n - 1
         /\ Cardinality(S) # n => \E i \in 0 .. n - 1 : i \notin S
<1>1. IsFiniteSet(0 .. n - 1) /\ Cardinality(0 .. n - 1) = n
  BY FS_Interval
<1>2. IsFiniteSet(S) /\ (Cardinality(0 .. n - 1) = Cardinality(S) => 0 .. n - 1 = S)
  BY <1>1, FS_Subset
<1>3. Cardinality(S) \in Nat
  BY <1>2, FS_CardinalityType
<1> QED BY <1>1, <1>2, <1>3

\* Constants and variables that are used everywhere.
LEMMA Basics ==
  /\ Main \in Threads /\ MaxAlive \in Nat \ {0}
  /\ NULL \notin Threads /\ NULL \notin Indexes /\ NULL \notin Int
  /\ Main \notin Indexes
  /\ Indexes \subseteq Nat
BY ThreadConstants DEF Indexes

\* allocThreadIndex chooses an entry that is free and below the new
\* _threadIndex, or all entries of the table are taken.
LEMMA NewIndexFree ==
  ASSUME TypeOK, Counted, Uncounted = 0, threadIndex <= MaxAlive
  PROVE  LET n == IF aliveThreads = threadIndex THEN threadIndex + 1 ELSE threadIndex
         IN /\ NewIndex \in 0 .. MaxAlive
            /\ IF NewIndex \in Indexes THEN NewIndex \notin Taken /\ NewIndex < n /\ n <= MaxAlive
                                       ELSE Indexes \subseteq Taken
<1>1. threadIndex \in Nat /\ aliveThreads = Cardinality(Taken) /\ Taken \subseteq 0 .. threadIndex - 1
  <2>1. threadIndex \in Nat
    BY DEF TypeOK
  <2>2. Cardinality(Taken) \in Nat
    BY <2>1, FullInterval DEF Counted
  <2> QED BY <2>1, <2>2 DEF Counted
<1>2. CASE aliveThreads = threadIndex
  <2>1. Taken = 0 .. threadIndex - 1
    BY <1>1, <1>2, FullInterval
  <2>2. NewIndex = threadIndex
    BY <1>2 DEF NewIndex
  <2> QED BY <1>1, <1>2, <2>1, <2>2, Basics DEF Indexes
<1>3. CASE aliveThreads # threadIndex
  <2>1. PICK i \in 0 .. threadIndex - 1 : i \notin Taken
    BY <1>1, <1>3, FullInterval
  <2>2. i \in FreeEntries
    BY <1>1, <2>1, Basics DEF FreeEntries, Indexes
  <2>3. FreeEntries \subseteq Nat
    BY <1>1 DEF FreeEntries
  <2>4. NewIndex = CHOOSE j \in FreeEntries : \A k \in FreeEntries : j <= k
    BY <1>3, <2>2 DEF NewIndex
  <2>5. NewIndex \in FreeEntries /\ NewIndex <= i
    BY <2>2, <2>3, <2>4, Least
  <2>6. NewIndex \in Indexes \ Taken
    BY <2>5 DEF FreeEntries
  <2> QED BY <1>1, <1>3, <2>1, <2>5, <2>6, Basics DEF Indexes
<1> QED BY <1>2, <1>3

\* The initial states satisfy the invariant.
LEMMA InitIInv == Init => IInv
<1> SUFFICES ASSUME Init PROVE IInv
  OBVIOUS
<1> USE Basics DEF Init
<1>1. TypeOK
  BY ThreadConstants DEF TypeOK, Pthreads, Indexes, Lives, Steps
<1>2. Locked
  BY DEF Locked, Critical
<1>3. Roles
  BY DEF Roles, Creating
<1>4. MapExact
  BY DEF MapExact, Recorded, PthreadT, Pthreads, Joining, Indexes
<1>5. Owners = {Main} /\ Owned = {0} /\ Taken = {0}
  <2>1. Owners = {Main}
    BY DEF Owners
  <2>2. Owned = {0}
    BY <2>1 DEF Owned
  <2>3. Taken = {0}
    <3>1. 0 \in Indexes
      BY DEF Indexes
    <3> QED BY <3>1 DEF Taken
  <2> QED BY <2>1, <2>2, <2>3
<1>6. TableExact
  <2>1. Cardinality({0}) = 1
    BY FS_Singleton
  <2>2. Counted
    BY <1>5, <2>1 DEF Counted, Uncounted
  <2> QED BY <1>5, <2>2 DEF TableExact, ChosenFree, Indexes
<1>7. ExclusiveIndex /\ IndexInTable
  BY <1>5 DEF ExclusiveIndex, IndexInTable
<1> QED BY <1>1, <1>2, <1>3, <1>4, <1>6, <1>7 DEF IInv

-----------------------------------------------------------------------------
(***************************************************************************)
(* Steps that leave the table as it is                                     *)
(***************************************************************************)

\* If neither the owners of entries nor the table change, what holds of them
\* goes on to hold.
LEMMA TableFrame ==
  ASSUME TableExact, ExclusiveIndex, IndexInTable,
         Owners' = Owners, \A u \in Owners : index'[u] = index[u],
         UNCHANGED <<table, lost>>, Uncounted' = Uncounted,
         \A t \in Threads :
           /\ pc'[t] = "take" <=> pc[t] = "take"
           /\ pc[t] = "take" => index'[other'[t]] = index[other[t]],
         halted' = "bad index" <=> halted = "bad index"
  PROVE  TableExact' /\ ExclusiveIndex' /\ IndexInTable'
<1>1. Taken' = Taken /\ Owned' = Owned /\ threadIndex' = threadIndex
  <2>1. Owned' \subseteq Owned /\ Owned \subseteq Owned'
    BY DEF Owned
  <2> QED BY <2>1 DEF Taken, table
<1>2. Counted => Counted'
  BY <1>1 DEF Counted, table
<1>3. ChosenFree => ChosenFree'
  BY <1>1 DEF ChosenFree
<1>4. TableExact'
  BY <1>2, <1>3 DEF TableExact
<1>5. ExclusiveIndex'
  <2> SUFFICES ASSUME NEW t \in Owners, NEW u \in Owners, index'[t] = index'[u]
               PROVE  t = u
    BY DEF ExclusiveIndex
  <2>1. index[t] = index[u]
    OBVIOUS
  <2> QED BY <2>1 DEF ExclusiveIndex
<1>6. IndexInTable'
  BY <1>1 DEF IndexInTable, Owned
<1> QED BY <1>4, <1>5, <1>6

\* acquireGlobalLock.
LEMMA AcquireStep ==
  ASSUME IInv, NEW t \in Threads, NEW from, NEW to,
         \/ from = "alloc lock" /\ to = "alloc"
         \/ from = "map lock" /\ to = "map"
         \/ from = "free lock" /\ to = "free",
         Acquire(t, from, to)
  PROVE  IInv'
<1> USE Basics DEF Acquire, Goto, table, life, gone
<1>1. from \in {"alloc lock", "map lock", "free lock"} /\ to \in {"alloc", "map", "free"}
  OBVIOUS
<1>2. TypeOK /\ pc' = [pc EXCEPT ![t] = to] /\ pc \in [Threads -> Steps]
  BY DEF IInv, TypeOK
<1>3. TypeOK'
  BY <1>1, <1>2 DEF TypeOK, Steps
<1>4. Locked'
  BY <1>1, <1>2 DEF IInv, Locked, Critical
<1>5. Roles'
  <2>1. StatusAt(to) = StatusAt(from)
    BY DEF StatusAt
  <2> QED BY <1>1, <1>2, <2>1 DEF IInv, Roles, Creating
<1>6. MapExact'
  <2>1. MapExact
    BY DEF IInv
  <2>2. \A u : Recorded(u)' <=> Recorded(u)
    BY DEF Recorded, PthreadT
  <2>3. \A v \in Threads :
          /\ Joining(v)' <=> Joining(v)
          /\ pc'[v] \in {"spawn", "map lock", "map"} <=> pc[v] \in {"spawn", "map lock", "map"}
    BY <1>1, <1>2 DEF Joining
  <2> QED BY <2>1, <2>2, <2>3 DEF MapExact
<1>7. TableExact' /\ ExclusiveIndex' /\ IndexInTable'
  <2>1. Uncounted' = Uncounted
    BY <1>1, <1>2 DEF Uncounted
  <2> QED BY <1>1, <1>2, <2>1, TableFrame DEF IInv, Owners
<1> QED BY <1>3, <1>4, <1>5, <1>6, <1>7 DEF IInv

\* A call of pthread_create.
LEMMA CreateCallStep ==
  ASSUME IInv, NEW t \in Threads, CreateCall(t)
  PROVE  IInv'
<1> USE Basics
<1>1. PICK u \in Threads \ {Main} :
        /\ status[u] = "none" /\ \A v \in Threads : other[v] # u
        /\ status' = [status EXCEPT ![u] = "created"]
        /\ other' = [other EXCEPT ![t] = u]
  BY DEF CreateCall, Present
<1>2. /\ pc[t] = "idle"
      /\ pc' = [pc EXCEPT ![t] = "alloc lock"]
      /\ UNCHANGED <<table, xmap, globalLock, index, joinable, gone, halted>>
  BY DEF CreateCall, Goto, Ready
<1>3. TypeOK
  BY DEF IInv
<1> USE DEF table, gone
<1>4. TypeOK'
  BY <1>1, <1>2, <1>3 DEF TypeOK, Steps, Lives
<1>5. Locked'
  BY <1>2, <1>3 DEF IInv, Locked, Critical, TypeOK
<1>6. Roles'
  <2>1. u \notin joinable \cup detached
    BY <1>1 DEF IInv, MapExact
  <2>2. StatusAt("alloc lock") = {"created"}
    BY DEF StatusAt
  <2>3. Roles
    BY DEF IInv
  <2> QED BY <1>1, <1>2, <1>3, <2>1, <2>2, <2>3 DEF Roles, Creating, TypeOK
<1>7. MapExact'
  BY <1>1, <1>2, <1>3 DEF IInv, MapExact, Joining, Recorded, PthreadT, TypeOK
<1>8. TableExact' /\ ExclusiveIndex' /\ IndexInTable'
  <2>1. Uncounted' = Uncounted
    BY <1>2, <1>3 DEF Uncounted, TypeOK
  <2>2. Owners' = Owners
    BY <1>1, <1>3 DEF Owners, TypeOK
  <2> QED BY <1>1, <1>2, <1>3, <2>1, <2>2, TableFrame DEF IInv, TypeOK
<1> QED BY <1>4, <1>5, <1>6, <1>7, <1>8 DEF IInv

\* Real::pthread_create.
LEMMA SpawnStep ==
  ASSUME IInv, EarlyJoin = FALSE, NEW t \in Threads, Spawn(t)
  PROVE  IInv'
<1> USE Basics
<1>1. TypeOK /\ Roles
  BY DEF IInv
<1>2. PICK u \in Threads : u = other[t] /\ status[u] = "allotted"
  BY <1>1 DEF TypeOK, Roles, StatusAt, Spawn
<1>3. /\ pc[t] = "spawn"
      /\ pc' = [pc EXCEPT ![t] = "map lock"]
      /\ status' = [status EXCEPT ![u] = "running"]
      /\ UNCHANGED <<table, xmap, globalLock, index, joinable, gone, other, halted>>
  BY <1>2 DEF Spawn, Goto
<1> USE DEF table, gone
<1>4. TypeOK'
  BY <1>1, <1>3, <1>2 DEF TypeOK, Steps, Lives
<1>5. Locked'
  BY <1>1, <1>3 DEF IInv, Locked, Critical, TypeOK
<1>6. Roles'
  <2>1. StatusAt("map lock") = {"running", "exited"}
    BY DEF StatusAt
  <2> QED BY <1>1, <1>3, <1>2, <2>1 DEF Roles, Creating, TypeOK
<1>7. MapExact'
  <2>1. MapExact
    BY DEF IInv
  <2> QED BY <1>1, <1>3, <1>2, <2>1 DEF MapExact, Joining, Recorded, PthreadT, TypeOK
<1>8. TableExact' /\ ExclusiveIndex' /\ IndexInTable'
  <2>1. Uncounted' = Uncounted
    BY <1>1, <1>3 DEF Uncounted, TypeOK
  <2>2. Owners' = Owners
    BY <1>1, <1>3, <1>2 DEF Owners, TypeOK
  <2> QED BY <1>1, <1>3, <2>1, <2>2, TableFrame DEF IInv, TypeOK
<1> QED BY <1>4, <1>5, <1>6, <1>7, <1>8 DEF IInv

\* Real::pthread_create fails, which ends the process.
LEMMA SpawnFailsStep ==
  ASSUME IInv, halted = "no", NEW t \in Threads, SpawnFails(t)
  PROVE  IInv'
<1>1. /\ halted' = "thread_create failure"
      /\ UNCHANGED <<table, xmap, globalLock, life, joinable, gone, pc, other>>
  BY DEF SpawnFails
<1> USE <1>1 DEF IInv, table, life, gone
<1>2. TypeOK' /\ Locked'
  BY DEF TypeOK, Locked
<1>3. Roles'
  BY DEF Roles, Creating
<1>4. MapExact'
  BY DEF MapExact, Joining, Recorded, PthreadT
<1>5. TableExact' /\ ExclusiveIndex' /\ IndexInTable'
  BY TableFrame DEF Owners, Uncounted
<1> QED BY <1>2, <1>3, <1>4, <1>5

\* The second critical section of thread_create.
LEMMA MapInsertStep ==
  ASSUME IInv, EarlyJoin = FALSE, halted = "no", NEW t \in Threads, MapInsert(t)
  PROVE  IInv'
<1> USE Basics
<1>1. TypeOK /\ Roles /\ MapExact /\ TableExact
  BY DEF IInv
<1>2. PICK u \in Threads \ {Main} : u = other[t] /\ status[u] \in {"running", "exited"}
  BY <1>1 DEF TypeOK, Roles, StatusAt, Creating, MapInsert
<1>3. PICK p : p = PthreadT(u)
  OBVIOUS
<1>4. /\ pc[t] = "map"
      /\ pc' = [pc EXCEPT ![t] = "idle"]
      /\ xmap' = [xmap EXCEPT ![p] = IF @ = NULL THEN index[u] ELSE @]
      /\ joinable' = joinable \cup {u}
      /\ globalLock' = NULL
      /\ other' = [other EXCEPT ![t] = NULL]
      /\ UNCHANGED <<table, life, gone, halted>>
  BY <1>2, <1>3 DEF MapInsert, Goto
<1>5. p = index[u] /\ index[u] \in Indexes /\ index[u] \notin lost
  BY <1>1, <1>2, <1>3, <1>4 DEF TableExact, Owners, PthreadT, MapExact
<1>6. /\ xmap'[p] = index[u]
      /\ \A q \in Pthreads \ {p} : xmap'[q] = xmap[q]
  BY <1>1, <1>4, <1>5 DEF MapExact, TypeOK, Pthreads
<1> USE DEF table, life, gone
<1>7. TypeOK'
  <2>1. xmap' \in [Pthreads -> Indexes \cup {NULL}]
    BY <1>1, <1>4, <1>5 DEF TypeOK
  <2> QED BY <1>1, <1>4, <1>2, <2>1 DEF TypeOK, Steps
<1>8. Locked'
  BY <1>1, <1>4 DEF IInv, Locked, Critical, TypeOK
<1>9. Roles'
  BY <1>1, <1>4, <1>2 DEF Roles, Creating, TypeOK
<1>10. MapExact'
  <2>1. Main \in Pthreads /\ Main # p /\ Indexes \subseteq Pthreads
    BY <1>5 DEF Pthreads
  <2>2. xmap'[Main] = 0 /\ index'[Main] = 0
    BY <1>1, <1>4, <1>6, <2>1 DEF MapExact
  <2>3. \A i \in Indexes : xmap'[i] \in {NULL, i}
    BY <1>1, <1>5, <1>6, <2>1 DEF MapExact
  <2>4. Recorded(u)'
    BY <1>4, <1>2, <1>5, <1>6 DEF Recorded, PthreadT
  <2>5. ASSUME NEW v \in Threads, status[v] \in {"running", "exited"}, Recorded(v)
        PROVE  Recorded(v)'
    <3>1. PthreadT(v) \in Pthreads /\ index[v] \in Indexes
      BY <1>1, <1>4, <2>5 DEF TableExact, Owners, PthreadT, Pthreads
    <3>2. xmap'[PthreadT(v)] = index[v]
      BY <1>1, <1>4, <1>5, <1>6, <2>5, <3>1 DEF Recorded, PthreadT
    <3> QED BY <1>4, <2>5, <3>2 DEF Recorded, PthreadT
  <2>6. \A v \in joinable' : status'[v] \in {"running", "exited"} /\ Recorded(v)'
    BY <1>1, <1>4, <1>2, <2>4, <2>5 DEF MapExact, TypeOK
  <2>7. ASSUME NEW v \in Threads, Joining(v)'
        PROVE  Recorded(other[v])'
    <3>1. Joining(v) /\ v # t
      BY <1>1, <1>4, <2>7 DEF Joining, TypeOK
    <3>2. other[v] \in Threads /\ status[other[v]] \in {"running", "exited"}
      BY <1>1, <3>1 DEF Roles, TypeOK, Joining, StatusAt
    <3>3. PICK w \in Threads : w = other[v]
      BY <3>2
    <3>4. Recorded(w)
      BY <1>1, <3>1, <3>3 DEF MapExact
    <3>5. Recorded(w)' /\ other'[v] = w
      BY <1>1, <1>4, <2>5, <3>1, <3>2, <3>3, <3>4 DEF TypeOK
    <3> QED BY <3>5 DEF Recorded, PthreadT
  <2>8. \A v \in Threads : pc'[v] \in {"spawn", "map lock", "map"} => index'[other'[v]] \notin lost'
    BY <1>1, <1>4 DEF MapExact, TypeOK
  <2>9. \A v \in detached' : status'[v] = "running" /\ index'[v] \in lost'
    BY <1>1, <1>4 DEF MapExact
  <2> QED BY <2>2, <2>3, <2>6, <2>7, <2>8, <2>9 DEF MapExact
<1>11. TableExact' /\ ExclusiveIndex' /\ IndexInTable'
  <2>1. Uncounted' = Uncounted
    BY <1>1, <1>4 DEF Uncounted, TypeOK, IInv, Locked, Critical
  <2>2. Owners' = Owners
    BY <1>4 DEF Owners
  <2> QED BY <1>1, <1>4, <2>1, <2>2, TableFrame DEF IInv, TypeOK
<1> QED BY <1>7, <1>8, <1>9, <1>10, <1>11 DEF IInv

\* A thread ends; with a detached one its entry has long been lost.
LEMMA ExitStep ==
  ASSUME IInv, NEW u \in Threads, Exit(u)
  PROVE  IInv'
<1> USE Basics
<1>1. TypeOK /\ Roles /\ MapExact
  BY DEF IInv
<1>2. /\ status[u] = "running" /\ pc[u] = "idle"
      /\ status' = [status EXCEPT ![u] = IF u \in detached THEN "none" ELSE "exited"]
      /\ detached' = detached \ {u}
      /\ UNCHANGED <<table, xmap, globalLock, index, joinable, lost, pc, other, halted>>
  BY DEF Exit, Ready
<1> USE DEF table
<1>3. TypeOK'
  BY <1>1, <1>2 DEF TypeOK, Lives
<1>4. Locked'
  BY <1>2 DEF IInv, Locked
<1>5. Roles'
  <2>1. ASSUME NEW t \in Threads, pc[t] # "idle"
        PROVE  /\ status'[other[t]] \in StatusAt(pc[t])
               /\ other[t] \notin joinable \cup detached'
    <3>1. other[t] \in Threads /\ (other[t] # u \/ u \notin detached) /\ pc[t] \in Steps \ {"idle"}
      BY <1>1, <2>1 DEF Roles, TypeOK
    <3>2. status[other[t]] \in StatusAt(pc[t]) /\ other[t] \notin joinable \cup detached'
      BY <1>1, <1>2, <2>1 DEF Roles
    <3>3. status'[other[t]] = status[other[t]] \/ (status[other[t]] = "running" /\ status'[other[t]] = "exited")
      BY <1>1, <1>2, <3>1 DEF TypeOK
    <3> QED BY <3>1, <3>2, <3>3 DEF StatusAt, Steps
  <2> QED BY <1>1, <1>2, <2>1 DEF Roles, Creating
<1>6. MapExact'
  <2>1. \A v : Recorded(v)' <=> Recorded(v)
    BY <1>2 DEF Recorded, PthreadT
  <2>2. \A v \in joinable : v # u \/ u \notin detached
    BY <1>1 DEF MapExact, Recorded
  <2>3. \A v \in joinable : status'[v] \in {"running", "exited"}
    BY <1>1, <1>2, <2>2 DEF MapExact, TypeOK
  <2>4. \A v \in detached' : status'[v] = "running" /\ index'[v] \in lost'
    BY <1>1, <1>2 DEF MapExact, TypeOK
  <2> QED BY <1>1, <1>2, <2>1, <2>3, <2>4 DEF MapExact, Joining
<1>7. CASE u \notin detached
  <2>1. Uncounted' = Uncounted
    BY <1>2 DEF Uncounted
  <2>2. Owners' = Owners
    BY <1>1, <1>2, <1>7 DEF Owners, TypeOK
  <2>3. TableExact' /\ ExclusiveIndex' /\ IndexInTable'
    BY <1>2, <2>1, <2>2, TableFrame DEF IInv
  <2> QED BY <1>3, <1>4, <1>5, <1>6, <2>3 DEF IInv
<1>8. CASE u \in detached
  <2>1. index[u] \in lost /\ u \in Owners
    BY <1>1, <1>2, <1>8 DEF MapExact, Owners
  <2>2. Owners' = Owners \ {u}
    BY <1>1, <1>2, <1>8 DEF Owners, TypeOK
  <2>3. Owned \cup lost = Owned' \cup lost'
    BY <1>2, <2>1, <2>2 DEF Owned
  <2>4. Counted => Counted'
    BY <1>2, <2>3 DEF Counted, Taken, Uncounted
  <2>5. ChosenFree => ChosenFree'
    BY <1>2 DEF ChosenFree, Taken
  <2>6. TableExact'
    BY <1>2, <2>2, <2>4, <2>5 DEF IInv, TableExact
  <2>7. ExclusiveIndex'
    BY <1>2, <2>2 DEF IInv, ExclusiveIndex
  <2>8. IndexInTable'
    BY <1>2, <2>3 DEF IInv, IndexInTable, Owned
  <2> QED BY <1>3, <1>4, <1>5, <1>6, <2>6, <2>7, <2>8 DEF IInv
<1> QED BY <1>7, <1>8

\* A call of pthread_join.
LEMMA JoinCallStep ==
  ASSUME IInv, NEW t \in Threads, JoinCall(t)
  PROVE  IInv'
<1> USE Basics
<1>1. TypeOK /\ Roles /\ MapExact
  BY DEF IInv
<1>2. PICK u \in joinable \ {t} :
        /\ joinable' = joinable \ {u}
        /\ other' = [other EXCEPT ![t] = u]
  BY DEF JoinCall
<1>3. /\ pc[t] = "idle"
      /\ pc' = [pc EXCEPT ![t] = "wait"]
      /\ UNCHANGED <<table, xmap, globalLock, life, gone, halted>>
  BY DEF JoinCall, Goto, Ready
<1>4. /\ u \in Threads /\ u \notin detached /\ status[u] \in {"running", "exited"}
      /\ Recorded(u) /\ \A v \in Threads : other[v] # u
  <2>1. u \in Threads /\ status[u] \in {"running", "exited"} /\ Recorded(u)
    BY <1>1, <1>2 DEF TypeOK, MapExact
  <2>2. u \notin detached
    BY <1>1, <2>1 DEF MapExact, Recorded
  <2>3. \A v \in Threads : other[v] # u
    BY <1>1, <1>2, <2>1 DEF Roles
  <2> QED BY <2>1, <2>2, <2>3
<1> USE DEF table, life, gone
<1>5. TypeOK'
  BY <1>1, <1>2, <1>3, <1>4 DEF TypeOK, Steps
<1>6. Locked'
  BY <1>1, <1>3 DEF IInv, Locked, Critical, TypeOK
<1>7. Roles'
  <2>1. StatusAt("wait") = {"running", "exited"}
    BY DEF StatusAt
  <2> QED BY <1>1, <1>2, <1>3, <1>4, <2>1 DEF Roles, Creating, TypeOK
<1>8. MapExact'
  BY <1>1, <1>2, <1>3, <1>4 DEF MapExact, Joining, Recorded, PthreadT, TypeOK
<1>9. TableExact' /\ ExclusiveIndex' /\ IndexInTable'
  <2>1. Uncounted' = Uncounted
    BY <1>1, <1>3 DEF Uncounted, TypeOK
  <2>2. Owners' = Owners
    BY <1>3 DEF Owners
  <2> QED BY <1>1, <1>2, <1>3, <2>1, <2>2, TableFrame DEF IInv, TypeOK
<1> QED BY <1>5, <1>6, <1>7, <1>8, <1>9 DEF IInv

\* Real::pthread_join returns.
LEMMA JoinWaitStep ==
  ASSUME IInv, NEW t \in Threads, JoinWait(t)
  PROVE  IInv'
<1> USE Basics
<1>1. TypeOK /\ Roles /\ MapExact
  BY DEF IInv
<1>2. /\ pc[t] = "wait" /\ status[other[t]] = "exited"
      /\ pc' = [pc EXCEPT ![t] = "free lock"]
      /\ UNCHANGED <<table, xmap, globalLock, life, joinable, gone, other, halted>>
  BY DEF JoinWait, Goto
<1> USE DEF table, life, gone
<1>3. TypeOK'
  BY <1>1, <1>2 DEF TypeOK, Steps
<1>4. Locked'
  BY <1>1, <1>2 DEF IInv, Locked, Critical, TypeOK
<1>5. Roles'
  <2>1. StatusAt("free lock") = {"exited"}
    BY DEF StatusAt
  <2> QED BY <1>1, <1>2, <2>1 DEF Roles, Creating, TypeOK
<1>6. MapExact'
  <2>1. \A v : Recorded(v)' <=> Recorded(v)
    BY <1>2 DEF Recorded, PthreadT
  <2>2. \A v \in Threads :
          /\ Joining(v)' <=> Joining(v)
          /\ pc'[v] \in {"spawn", "map lock", "map"} <=> pc[v] \in {"spawn", "map lock", "map"}
    BY <1>1, <1>2 DEF Joining, TypeOK
  <2> QED BY <1>1, <1>2, <2>1, <2>2 DEF MapExact
<1>7. TableExact' /\ ExclusiveIndex' /\ IndexInTable'
  <2>1. Uncounted' = Uncounted
    BY <1>1, <1>2 DEF Uncounted, TypeOK
  <2>2. Owners' = Owners
    BY <1>2 DEF Owners
  <2> QED BY <1>1, <1>2, <2>1, <2>2, TableFrame DEF IInv, TypeOK
<1> QED BY <1>3, <1>4, <1>5, <1>6, <1>7 DEF IInv

\* pthread_detach: the entry of a thread is lost, whether or not the thread
\* has ended before.
LEMMA DetachStep ==
  ASSUME IInv, halted = "no", NEW t \in Threads, Detach(t)
  PROVE  IInv'
<1> USE Basics
<1>1. TypeOK /\ Roles /\ MapExact /\ TableExact /\ ExclusiveIndex
  BY DEF IInv
<1>2. PICK u \in joinable :
        /\ joinable' = joinable \ {u}
        /\ lost' = lost \cup {index[u]}
        /\ IF status[u] = "exited"
             THEN status' = [status EXCEPT ![u] = "none"] /\ detached' = detached
             ELSE detached' = detached \cup {u} /\ status' = status
  BY DEF Detach
<1>3. UNCHANGED <<table, xmap, globalLock, index, pc, other, halted>>
  BY DEF Detach
<1>4. /\ u \in Threads /\ status[u] \in {"running", "exited"} /\ u \in Owners
      /\ index[u] \in Indexes /\ u \notin detached
      /\ \A v \in Threads : other[v] # u
  <2>1. u \in Threads /\ status[u] \in {"running", "exited"}
    BY <1>1, <1>2 DEF TypeOK, MapExact
  <2>2. u \in Owners
    BY <2>1 DEF Owners
  <2>3. \A v \in Threads : other[v] # u
    BY <1>1, <1>2, <2>1 DEF Roles
  <2>4. u \notin detached
    BY <1>1, <1>2 DEF MapExact, Recorded
  <2> QED BY <1>1, <2>1, <2>2, <2>3, <2>4 DEF TableExact
<1> USE DEF table
<1>5. TypeOK'
  BY <1>1, <1>2, <1>3, <1>4 DEF TypeOK, Lives
<1>6. Locked'
  BY <1>3 DEF IInv, Locked
<1>7. Roles'
  <2>1. ASSUME NEW v \in Threads, pc[v] # "idle"
        PROVE  /\ status'[other[v]] = status[other[v]]
               /\ other[v] \notin joinable' \cup detached'
    <3>1. PICK w \in Threads \ {u} : w = other[v] /\ w \notin joinable \cup detached
      BY <1>1, <1>4, <2>1 DEF Roles, TypeOK
    <3>2. status'[w] = status[w] /\ w \notin joinable' \cup detached'
      BY <1>1, <1>2, <1>4, <3>1 DEF TypeOK
    <3> QED BY <3>1, <3>2
  <2> QED BY <1>1, <1>3, <2>1 DEF Roles, Creating
<1>8. ASSUME NEW v \in Owners, v # u, index[v] \notin lost
      PROVE  index'[v] \notin lost'
  BY <1>1, <1>2, <1>3, <1>4, <1>8 DEF ExclusiveIndex
<1>9. MapExact'
  <2>1. ASSUME NEW v \in joinable'
        PROVE  status'[v] \in {"running", "exited"} /\ Recorded(v)'
    <3>1. v \in joinable /\ v # u /\ v \in Owners /\ Recorded(v) /\ status[v] \in {"running", "exited"}
      BY <1>1, <1>2, <2>1 DEF MapExact, Owners, TypeOK
    <3>2. index'[v] \notin lost'
      BY <1>8, <3>1 DEF Recorded
    <3> QED BY <1>1, <1>2, <1>3, <3>1, <3>2 DEF Recorded, PthreadT, TypeOK
  <2>2. ASSUME NEW v \in detached'
        PROVE  status'[v] = "running" /\ index'[v] \in lost'
    <3>1. CASE v = u
      BY <1>2, <1>3, <1>4, <2>2, <3>1
    <3>2. CASE v # u
      <4>1. v \in detached
        BY <1>2, <2>2, <3>2
      <4>2. v \in Threads /\ status[v] = "running" /\ index[v] \in lost
        BY <1>1, <4>1 DEF MapExact, TypeOK
      <4>3. status'[v] = status[v]
        BY <1>1, <1>2, <1>4, <3>2, <4>2 DEF TypeOK
      <4> QED BY <1>2, <1>3, <4>2, <4>3
    <3> QED BY <3>1, <3>2
  <2>3. ASSUME NEW v \in Threads, pc[v] \in {"spawn", "map lock", "map", "wait", "free lock", "free"}
        PROVE  other[v] \in Owners \ {u}
    BY <1>1, <1>4, <2>3 DEF Roles, StatusAt, Owners, TypeOK
  <2>4. \A v \in Threads : Joining(v)' => Recorded(other[v])'
    <3> SUFFICES ASSUME NEW v \in Threads, Joining(v) PROVE Recorded(other[v])'
      BY <1>3 DEF Joining
    <3>1. Recorded(other[v]) /\ other[v] \in Owners \ {u}
      BY <1>1, <2>3 DEF MapExact, Joining
    <3>2. index'[other[v]] \notin lost'
      BY <1>8, <3>1 DEF Recorded
    <3> QED BY <1>3, <3>1, <3>2 DEF Recorded, PthreadT
  <2>5. \A v \in Threads : pc'[v] \in {"spawn", "map lock", "map"} => index'[other'[v]] \notin lost'
    <3> SUFFICES ASSUME NEW v \in Threads, pc[v] \in {"spawn", "map lock", "map"}
                 PROVE  index'[other[v]] \notin lost'
      BY <1>3
    <3>1. other[v] \in Owners \ {u} /\ index[other[v]] \notin lost
      BY <1>1, <2>3 DEF MapExact
    <3> QED BY <1>8, <3>1
  <2> QED BY <1>1, <1>3, <2>1, <2>2, <2>4, <2>5 DEF MapExact
<1>10. Owned' \cup lost' = Owned \cup lost /\ Owners' \subseteq Owners
  <2>1. Owners' = Owners \/ Owners' = Owners \ {u}
    BY <1>1, <1>2, <1>4 DEF Owners, TypeOK
  <2>2. index[u] \in Owned
    BY <1>4 DEF Owned
  <2>3. \A i : i \in Owned' => i \in Owned
    BY <1>3, <2>1 DEF Owned
  <2>4. \A i : i \in Owned => i \in Owned' \/ i = index[u]
    BY <1>3, <2>1 DEF Owned
  <2> QED BY <1>2, <2>1, <2>2, <2>3, <2>4
<1>11. TableExact'
  <2>1. Counted'
    BY <1>1, <1>3, <1>10 DEF IInv, TableExact, Counted, Taken, Uncounted
  <2>2. ChosenFree'
    BY <1>1, <1>3 DEF TableExact, ChosenFree, Taken
  <2> QED BY <1>1, <1>3, <1>10, <2>1, <2>2 DEF TableExact
<1>12. ExclusiveIndex' /\ IndexInTable'
  BY <1>1, <1>3, <1>10 DEF ExclusiveIndex, IndexInTable
<1> QED BY <1>5, <1>6, <1>7, <1>9, <1>11, <1>12 DEF IInv

-----------------------------------------------------------------------------
(***************************************************************************)
(* Steps that change the table                                             *)
(***************************************************************************)

\* allocThreadIndex, up to the choice of the entry.
LEMMA AllocChooseStep ==
  ASSUME IInv, halted = "no", NEW t \in Threads, AllocChoose(t)
  PROVE  IInv'
<1> USE Basics
<1>1. TypeOK /\ Roles /\ MapExact /\ TableExact /\ Locked /\ Counted /\ ChosenFree
  BY DEF IInv, TableExact
<1>2. PICK u \in Threads \ {Main} : u = other[t] /\ status[u] = "created" /\ u \notin joinable \cup detached
  BY <1>1 DEF TypeOK, Roles, StatusAt, Creating, AllocChoose
<1>3. PICK n : n = NewIndex
  OBVIOUS
<1>4. /\ pc[t] = "alloc" /\ globalLock = t
      /\ aliveThreads' = aliveThreads + 1
      /\ threadIndex' = IF aliveThreads = threadIndex THEN threadIndex + 1 ELSE threadIndex
      /\ index' = [index EXCEPT ![u] = n]
      /\ pc' = [pc EXCEPT ![t] = "take"]
      /\ UNCHANGED <<available, xmap, globalLock, status, joinable, gone, other, halted>>
  BY <1>1, <1>2, <1>3 DEF AllocChoose, Goto, Locked, Critical
<1>5. Uncounted = 0 /\ Uncounted' = 1
  BY <1>1, <1>4 DEF Uncounted, TypeOK
<1>6. threadIndex <= MaxAlive /\ \A v \in Threads : pc'[v] = "take" <=> v = t
  BY <1>1, <1>4 DEF ChosenFree, Locked, Critical, TypeOK
<1>7. /\ n \in 0 .. MaxAlive
      /\ IF n \in Indexes THEN n \notin Taken /\ n < threadIndex' /\ threadIndex' <= MaxAlive
                          ELSE Indexes \subseteq Taken
  BY <1>1, <1>3, <1>4, <1>5, <1>6, NewIndexFree
<1> USE DEF gone
<1>8. TypeOK'
  <2>1. index' \in [Threads -> (-1 .. MaxAlive) \cup {NULL}]
    BY <1>1, <1>4, <1>7 DEF TypeOK
  <2>2. aliveThreads' \in Nat /\ threadIndex' \in Nat
    BY <1>1, <1>4 DEF TypeOK
  <2>3. pc' \in [Threads -> Steps]
    BY <1>1, <1>4 DEF TypeOK, Steps
  <2> QED BY <1>1, <1>4, <2>1, <2>2, <2>3 DEF TypeOK
<1>9. Locked'
  BY <1>1, <1>4 DEF Locked, Critical, TypeOK
<1>10. Roles'
  <2>1. StatusAt("take") = StatusAt("alloc")
    BY DEF StatusAt
  <2> QED BY <1>1, <1>4, <2>1 DEF Roles, Creating, TypeOK
<1>11. MapExact'
  <2>1. ASSUME NEW v \in Threads, v # u, Recorded(v)
        PROVE  Recorded(v)'
    BY <1>1, <1>4, <2>1 DEF Recorded, PthreadT, TypeOK
  <2>2. ASSUME NEW v \in Threads, v # t, pc[v] # "idle"
        PROVE  other[v] \in Threads \ {u}
    BY <1>1, <1>2, <1>4, <2>2 DEF Roles, TypeOK
  <2>3. \A v \in joinable : status[v] \in {"running", "exited"} /\ Recorded(v)'
    BY <1>1, <1>2, <2>1 DEF MapExact, TypeOK
  <2>4. \A v \in detached : status[v] = "running" /\ index'[v] \in lost
    BY <1>1, <1>2, <1>4 DEF MapExact, TypeOK
  <2>5. ASSUME NEW v \in Threads, Joining(v)'
        PROVE  Recorded(other[v])'
    <3>1. Joining(v) /\ v # t
      BY <1>1, <1>4, <2>5 DEF Joining, TypeOK
    <3>2. PICK w \in Threads \ {u} : w = other[v]
      BY <2>2, <3>1 DEF Joining
    <3>3. Recorded(w)' /\ other'[v] = w
      BY <1>1, <1>4, <2>1, <3>1, <3>2 DEF MapExact
    <3> QED BY <3>3 DEF Recorded, PthreadT
  <2>6. \A v \in Threads : pc'[v] \in {"spawn", "map lock", "map"} => index'[other'[v]] \notin lost'
    BY <1>1, <1>4, <2>2 DEF MapExact, TypeOK
  <2> QED BY <1>1, <1>2, <1>4, <2>3, <2>4, <2>5, <2>6 DEF MapExact, TypeOK
<1>12. Owners' = Owners /\ u \notin Owners /\ Owned' = Owned /\ Taken' = Taken
  <2>1. Owners' = Owners /\ u \notin Owners
    BY <1>2, <1>4 DEF Owners
  <2>2. Owned' \subseteq Owned /\ Owned \subseteq Owned'
    BY <1>1, <1>4, <2>1 DEF Owned, Owners, TypeOK
  <2> QED BY <1>4, <2>1, <2>2 DEF Taken
<1>13. TableExact'
  <2>1. Counted'
    <3>1. Cardinality(Taken) \in Nat
      BY <1>1, FullInterval DEF Counted, TypeOK
    <3>2. Taken \subseteq 0 .. threadIndex' - 1
      BY <1>1, <1>4 DEF Counted, TypeOK
    <3> QED BY <1>1, <1>4, <1>5, <1>12, <3>1, <3>2 DEF Counted
  <2>2. ChosenFree'
    BY <1>1, <1>2, <1>4, <1>6, <1>7, <1>12 DEF ChosenFree, TypeOK
  <2> QED BY <1>1, <1>4, <1>12, <2>1, <2>2 DEF TableExact, Owners, TypeOK
<1>14. ExclusiveIndex' /\ IndexInTable'
  <2>1. \A v \in Owners : index'[v] = index[v]
    BY <1>1, <1>4, <1>12 DEF TypeOK, Owners
  <2> QED BY <1>4, <1>12, <2>1 DEF IInv, ExclusiveIndex, IndexInTable
<1> QED BY <1>8, <1>9, <1>10, <1>11, <1>13, <1>14 DEF IInv

\* The end of the first critical section: the entry is the new thread's, or
\* there is none left in the table.
LEMMA AllocTakeStep ==
  ASSUME IInv, halted = "no", NEW t \in Threads, AllocTake(t)
  PROVE  IInv'
<1> USE Basics
<1>1. TypeOK /\ Roles /\ MapExact /\ TableExact /\ Locked /\ Counted /\ ChosenFree /\ ExclusiveIndex
  BY DEF IInv, TableExact
<1>2. PICK u \in Threads \ {Main} : u = other[t] /\ status[u] = "created" /\ u \notin joinable \cup detached
  BY <1>1 DEF TypeOK, Roles, StatusAt, Creating, AllocTake
<1>3. PICK i : i = index[u]
  OBVIOUS
<1>4. /\ pc[t] = "take" /\ globalLock = t
      /\ status' = [status EXCEPT ![u] = "allotted"]
      /\ IF i \in Indexes THEN available' = [available EXCEPT ![i] = FALSE] /\ halted' = halted
                          ELSE halted' = "bad index" /\ available' = available
      /\ globalLock' = NULL
      /\ pc' = [pc EXCEPT ![t] = "spawn"]
      /\ UNCHANGED <<aliveThreads, threadIndex, xmap, index, joinable, gone, other>>
  BY <1>1, <1>2, <1>3 DEF AllocTake, Goto, Locked, Critical
<1>5. IF i \in Indexes THEN i \notin Taken /\ i < threadIndex /\ threadIndex <= MaxAlive
                       ELSE Indexes \subseteq Taken
  BY <1>1, <1>2, <1>3, <1>4 DEF ChosenFree
<1>6. Owners' = Owners \cup {u} /\ u \notin Owners /\ Owned' = Owned \cup {i}
  <2>1. Owners' = Owners \cup {u} /\ u \notin Owners
    <3>1. status \in [Threads -> Lives] /\ status' = [status EXCEPT ![u] = "allotted"]
      BY <1>1, <1>4 DEF TypeOK
    <3>2. \A v : v \in Owners' <=> v \in Owners \/ v = u
      BY <1>2, <3>1 DEF Owners
    <3>3. u \notin Owners
      BY <1>2 DEF Owners
    <3> QED BY <3>2, <3>3
  <2>2. \A j : j \in Owned' <=> j \in Owned \cup {i}
    BY <1>3, <1>4, <2>1 DEF Owned
  <2> QED BY <2>1, <2>2
<1> USE DEF gone
<1>7. TypeOK'
  <2>1. status' \in [Threads -> Lives] /\ pc' \in [Threads -> Steps]
    BY <1>1, <1>4 DEF TypeOK, Lives, Steps
  <2>2. available' \in [Indexes -> BOOLEAN] /\ halted' \in {"no", "bad index", "thread_create failure"}
    BY <1>1, <1>4 DEF TypeOK
  <2> QED BY <1>1, <1>4, <2>1, <2>2 DEF TypeOK
<1>8. Locked'
  BY <1>1, <1>4 DEF Locked, Critical, TypeOK
<1>9. Roles'
  <2>1. ASSUME NEW v \in Threads, v # t, pc[v] # "idle"
        PROVE  status'[other[v]] = status[other[v]]
    BY <1>1, <1>2, <1>4, <2>1 DEF Roles, TypeOK
  <2>2. StatusAt("spawn") = {"allotted"}
    BY DEF StatusAt
  <2>3. status'[other[t]] = "allotted"
    BY <1>1, <1>2, <1>4 DEF TypeOK
  <2> QED BY <1>1, <1>2, <1>4, <2>1, <2>2, <2>3 DEF Roles, Creating, TypeOK
<1>10. i \notin lost
  <2>1. lost \subseteq Taken /\ lost \subseteq Indexes
    BY <1>1 DEF Counted, TypeOK
  <2> QED BY <1>5, <2>1
<1>11. MapExact'
  <2>1. \A v : Recorded(v)' <=> Recorded(v)
    BY <1>4 DEF Recorded, PthreadT
  <2>2. \A v \in joinable \cup detached : status'[v] = status[v]
    BY <1>1, <1>2, <1>4 DEF TypeOK
  <2>3. \A v \in Threads : Joining(v)' => Joining(v)
    BY <1>1, <1>4 DEF Joining, TypeOK
  <2>4. \A v \in Threads : pc'[v] \in {"spawn", "map lock", "map"} =>
          v = t \/ pc[v] \in {"spawn", "map lock", "map"}
    BY <1>1, <1>4 DEF TypeOK
  <2> QED BY <1>1, <1>2, <1>3, <1>4, <1>10, <2>1, <2>2, <2>3, <2>4 DEF MapExact
<1>12. CASE i \in Indexes
  <2>1. Taken' = Taken \cup {i}
    BY <1>1, <1>4, <1>12 DEF Taken, TypeOK
  <2>2. Taken' \subseteq 0 .. threadIndex' - 1
    BY <1>1, <1>4, <1>5, <1>12, <2>1 DEF Counted, TypeOK, Indexes
  <2>3. Cardinality(Taken') = Cardinality(Taken) + 1 /\ Cardinality(Taken) \in Nat
    <3>1. IsFiniteSet(Taken) /\ Cardinality(Taken) \in Nat
      BY <1>1, FullInterval DEF Counted, TypeOK
    <3> QED BY <1>5, <1>12, <2>1, <3>1, FS_AddElement
  <2>4. Uncounted = 1 /\ Uncounted' = 0
    BY <1>4 DEF Uncounted
  <2>5. Counted'
    <3>1. Taken' = Owned' \cup lost'
      BY <1>1, <1>4, <1>6, <2>1 DEF Counted
    <3>2. aliveThreads' = Cardinality(Taken') + Uncounted'
      <4>1. aliveThreads = Cardinality(Taken) + Uncounted /\ aliveThreads' = aliveThreads
        BY <1>1, <1>4 DEF Counted
      <4> QED BY <2>3, <2>4, <4>1
    <3> QED BY <2>2, <3>1, <3>2 DEF Counted
  <2>6. ChosenFree'
    BY <1>1, <1>4, <1>5, <1>12 DEF ChosenFree, Locked, Critical, TypeOK
  <2>7. TableExact'
    BY <1>1, <1>3, <1>4, <1>6, <1>12, <2>5, <2>6 DEF TableExact
  <2>8. ExclusiveIndex'
    <3>1. \A v \in Owners : index[v] # i
      BY <1>1, <1>5, <1>12 DEF Counted, Owned
    <3> QED BY <1>1, <1>3, <1>4, <1>6, <3>1 DEF ExclusiveIndex
  <2>9. IndexInTable'
    BY <1>4, <1>12 DEF IndexInTable
  <2> QED BY <1>7, <1>8, <1>9, <1>11, <2>7, <2>8, <2>9 DEF IInv
<1>13. CASE i \notin Indexes
  <2>1. halted' = "bad index"
    BY <1>4, <1>13
  <2>2. \A v \in Owners : index[v] # i
    BY <1>1, <1>13 DEF TableExact
  <2>3. ExclusiveIndex'
    BY <1>1, <1>3, <1>4, <1>6, <2>2 DEF ExclusiveIndex
  <2>4. Indexes \subseteq Owned' \cup lost'
    BY <1>1, <1>4, <1>5, <1>6, <1>13 DEF Counted
  <2>5. IndexInTable' /\ TableExact'
    BY <2>1, <2>4 DEF IndexInTable, TableExact, Owned
  <2> QED BY <1>7, <1>8, <1>9, <1>11, <2>3, <2>5 DEF IInv
<1> QED BY <1>12, <1>13

\* thread_join finds the entry and makes it available.
LEMMA JoinFindStep ==
  ASSUME IInv, halted = "no", NEW t \in Threads, JoinFind(t)
  PROVE  IInv'
<1> USE Basics
<1>1. TypeOK /\ Roles /\ MapExact /\ TableExact /\ Locked /\ Counted /\ ChosenFree /\ ExclusiveIndex
  BY DEF IInv, TableExact
<1>2. PICK u \in Threads : u = other[t] /\ status[u] = "exited" /\ u \notin joinable \cup detached
  BY <1>1 DEF TypeOK, Roles, StatusAt, JoinFind
<1>3. PICK i : i = index[u]
  OBVIOUS
<1>4. u \in Owners /\ i \in Indexes /\ xmap[PthreadT(u)] = i /\ i \notin lost
  <2>1. u \in Owners /\ i \in Indexes
    BY <1>1, <1>2, <1>3 DEF Owners, TableExact
  <2>2. Recorded(u)
    BY <1>1, <1>2 DEF MapExact, JoinFind, Joining
  <2> QED BY <1>3, <2>1, <2>2 DEF Recorded
<1>5. /\ pc[t] = "free" /\ globalLock = t
      /\ available' = [available EXCEPT ![i] = TRUE]
      /\ status' = [status EXCEPT ![u] = "none"]
      /\ pc' = [pc EXCEPT ![t] = "count"]
      /\ UNCHANGED <<aliveThreads, threadIndex, xmap, globalLock, index, joinable, gone, other, halted>>
  BY <1>1, <1>2, <1>4 DEF JoinFind, Goto, Locked, Critical
<1>6. Owners' = Owners \ {u} /\ Owned' = Owned \ {i}
  <2>1. Owners' = Owners \ {u}
    BY <1>1, <1>2, <1>5 DEF Owners, TypeOK
  <2>2. \A j : j \in Owned' <=> j \in Owned \ {i}
    BY <1>1, <1>3, <1>4, <1>5, <2>1 DEF Owned, ExclusiveIndex
  <2> QED BY <2>1, <2>2
<1> USE DEF gone
<1>7. TypeOK'
  <2>1. status' \in [Threads -> Lives] /\ pc' \in [Threads -> Steps]
    BY <1>1, <1>5 DEF TypeOK, Lives, Steps
  <2>2. available' \in [Indexes -> BOOLEAN]
    BY <1>1, <1>5 DEF TypeOK
  <2> QED BY <1>1, <1>5, <2>1, <2>2 DEF TypeOK
<1>8. Locked'
  BY <1>1, <1>5 DEF Locked, Critical, TypeOK
<1>9. Roles'
  <2>1. ASSUME NEW v \in Threads, v # t, pc[v] # "idle"
        PROVE  status'[other[v]] = status[other[v]]
    BY <1>1, <1>2, <1>5, <2>1 DEF Roles, TypeOK
  <2>2. StatusAt("count") = {"none"}
    BY DEF StatusAt
  <2>3. status'[other[t]] = "none"
    BY <1>1, <1>2, <1>5 DEF TypeOK
  <2> QED BY <1>1, <1>2, <1>5, <2>1, <2>2, <2>3 DEF Roles, Creating, TypeOK
<1>10. MapExact'
  <2>1. \A v : Recorded(v)' <=> Recorded(v)
    BY <1>5 DEF Recorded, PthreadT
  <2>2. \A v \in joinable \cup detached : status'[v] = status[v]
    BY <1>1, <1>2, <1>5 DEF TypeOK
  <2>3. \A v \in Threads : Joining(v)' => Joining(v)
    BY <1>1, <1>5 DEF Joining, TypeOK
  <2>4. \A v \in Threads : pc'[v] \in {"spawn", "map lock", "map"} =>
          pc[v] \in {"spawn", "map lock", "map"}
    BY <1>1, <1>5 DEF TypeOK
  <2> QED BY <1>1, <1>2, <1>5, <2>1, <2>2, <2>3, <2>4 DEF MapExact
<1>11. TableExact'
  <2>1. Taken' = Taken \ {i} /\ i \in Taken
    <3>1. i \in Owned
      BY <1>3, <1>4 DEF Owned
    <3> QED BY <1>1, <1>4, <1>5, <3>1 DEF Taken, TypeOK, Counted
  <2>2. Cardinality(Taken') = Cardinality(Taken) - 1 /\ Cardinality(Taken) \in Nat
    <3>1. IsFiniteSet(Taken) /\ Cardinality(Taken) \in Nat
      BY <1>1, FullInterval DEF Counted, TypeOK
    <3> QED BY <2>1, <3>1, FS_RemoveElement
  <2>3. Uncounted = 0 /\ Uncounted' = 1
    BY <1>1, <1>5 DEF Uncounted, TypeOK
  <2>4. Counted'
    BY <1>1, <1>4, <1>5, <1>6, <2>1, <2>2, <2>3 DEF Counted
  <2>5. ChosenFree'
    BY <1>1, <1>5 DEF ChosenFree, Locked, Critical, TypeOK
  <2> QED BY <1>1, <1>5, <1>6, <2>4, <2>5 DEF TableExact
<1>12. ExclusiveIndex' /\ IndexInTable'
  BY <1>1, <1>5, <1>6 DEF ExclusiveIndex, IndexInTable
<1> QED BY <1>7, <1>8, <1>9, <1>10, <1>11, <1>12 DEF IInv

\* thread_join counts the thread out.
LEMMA JoinCountStep ==
  ASSUME IInv, halted = "no", NEW t \in Threads, JoinCount(t)
  PROVE  IInv'
<1> USE Basics
<1>1. TypeOK /\ Roles /\ MapExact /\ TableExact /\ Locked /\ Counted /\ ChosenFree
  BY DEF IInv, TableExact
<1>2. /\ pc[t] = "count" /\ globalLock = t
      /\ aliveThreads' = aliveThreads - 1
      /\ globalLock' = NULL
      /\ other' = [other EXCEPT ![t] = NULL]
      /\ pc' = [pc EXCEPT ![t] = "idle"]
      /\ UNCHANGED <<threadIndex, available, xmap, life, joinable, gone, halted>>
  BY <1>1 DEF JoinCount, Goto, Locked, Critical
<1> USE DEF life, gone
<1>3. Uncounted = 1 /\ Uncounted' = 0 /\ Cardinality(Taken) \in Nat
  <2>1. Cardinality(Taken) \in Nat
    BY <1>1, FullInterval DEF Counted, TypeOK
  <2> QED BY <1>2, <2>1 DEF Uncounted
<1>4. TypeOK'
  <2>1. aliveThreads' \in Nat
    BY <1>1, <1>2, <1>3 DEF Counted
  <2> QED BY <1>1, <1>2, <2>1 DEF TypeOK, Steps
<1>5. Locked'
  BY <1>1, <1>2 DEF Locked, Critical, TypeOK
<1>6. Roles'
  BY <1>1, <1>2 DEF Roles, Creating, TypeOK
<1>7. MapExact'
  BY <1>1, <1>2 DEF MapExact, Joining, Recorded, PthreadT, TypeOK
<1>8. Owners' = Owners /\ Owned' = Owned /\ Taken' = Taken
  BY <1>2 DEF Owners, Owned, Taken
<1>9. TableExact'
  <2>1. Counted'
    BY <1>1, <1>2, <1>3, <1>8 DEF Counted
  <2>2. ChosenFree'
    BY <1>1, <1>2 DEF ChosenFree, Locked, Critical, TypeOK
  <2> QED BY <1>1, <1>2, <1>8, <2>1, <2>2 DEF TableExact
<1>10. ExclusiveIndex' /\ IndexInTable'
  BY <1>2, <1>8 DEF IInv, ExclusiveIndex, IndexInTable
<1> QED BY <1>4, <1>5, <1>6, <1>7, <1>9, <1>10 DEF IInv

-----------------------------------------------------------------------------
(***************************************************************************)
(* The theorems                                                            *)
(***************************************************************************)

\* The invariant is inductive.
LEMMA NextIInv == EarlyJoin = FALSE /\ IInv /\ [Next]_vars => IInv'
<1> SUFFICES ASSUME EarlyJoin = FALSE, IInv, [Next]_vars PROVE IInv'
  OBVIOUS
<1>1. CASE UNCHANGED vars
  <2>1. TypeOK' /\ Locked' /\ Roles'
    BY <1>1 DEF vars, IInv, TypeOK, Locked, Roles, Creating
  <2>2. MapExact'
    BY <1>1 DEF vars, IInv, MapExact, Joining, Recorded, PthreadT
  <2>3. TableExact' /\ ExclusiveIndex' /\ IndexInTable'
    BY <1>1, TableFrame DEF vars, IInv, Owners, Uncounted, table
  <2> QED BY <2>1, <2>2, <2>3 DEF IInv
<1>2. CASE Next
  <2>1. PICK t \in Threads : Run(t) \/ Call(t)
    BY <1>2 DEF Next
  <2>2. halted = "no"
    BY <1>2 DEF Next
  <2>3. CASE Call(t)
    BY <2>2, <2>3, CreateCallStep, ExitStep, DetachStep, JoinCallStep DEF Call
  <2>4. CASE Run(t)
    <3>1. CASE Acquire(t, "alloc lock", "alloc")
      BY <3>1, AcquireStep
    <3>2. CASE Acquire(t, "map lock", "map")
      BY <3>2, AcquireStep
    <3>3. CASE Acquire(t, "free lock", "free")
      BY <3>3, AcquireStep
    <3>4. CASE AllocChoose(t) \/ AllocTake(t)
      BY <2>2, <3>4, AllocChooseStep, AllocTakeStep
    <3>5. CASE Spawn(t) \/ SpawnFails(t) \/ MapInsert(t)
      BY <2>2, <3>5, SpawnStep, SpawnFailsStep, MapInsertStep
    <3>6. CASE JoinWait(t) \/ JoinFind(t) \/ JoinCount(t)
      BY <2>2, <3>6, JoinWaitStep, JoinFindStep, JoinCountStep
    <3> QED BY <2>4, <3>1, <3>2, <3>3, <3>4, <3>5, <3>6 DEF Run
  <2> QED BY <2>1, <2>3, <2>4
<1> QED BY <1>1, <1>2

\* The inductive invariant: locks, calls in progress, the map, the table.
THEOREM Invariance == EarlyJoin = FALSE /\ Spec => []IInv
<1> SUFFICES ASSUME EarlyJoin = FALSE PROVE Spec => []IInv
  OBVIOUS
<1>1. Init => IInv
  BY InitIInv
<1>2. IInv /\ [Next]_vars => IInv'
  BY NextIInv
<1> QED BY <1>1, <1>2, PTL DEF Spec

\* The variables keep their types.
THEOREM TypeCorrect == EarlyJoin = FALSE /\ Spec => []TypeOK
<1>1. IInv => TypeOK
  BY DEF IInv
<1> QED BY <1>1, Invariance, PTL

\* allocThreadIndex / thread_join: no two threads share an entry of _threads.
THEOREM IndexesExclusive == EarlyJoin = FALSE /\ Spec => []ExclusiveIndex
<1>1. IInv => ExclusiveIndex
  BY DEF IInv
<1> QED BY <1>1, Invariance, PTL

\* allocThreadIndex: an index outside of the table means that every entry has
\* an owner or was lost to a detached thread.
THEOREM IndexesInTable == EarlyJoin = FALSE /\ Spec => []IndexInTable
<1>1. IInv => IndexInTable
  BY DEF IInv
<1> QED BY <1>1, Invariance, PTL

\* thread_join: it gives back the entry that creation took.
THEOREM JoinsFindIndex == EarlyJoin = FALSE /\ Spec => []JoinFindsIndex
<1>1. IInv => JoinFindsIndex
  BY DEF IInv, MapExact, Joining, Recorded, JoinFindsIndex
<1> QED BY <1>1, Invariance, PTL

\* allocThreadIndex / thread_join: while the lock is free, _aliveThreads is
\* the number of entries marked as taken.
THEOREM EntriesAreAccounted == EarlyJoin = FALSE /\ Spec => []EntriesAccounted
<1>1. IInv => EntriesAccounted
  <2> SUFFICES ASSUME IInv, halted = "no", globalLock = NULL
               PROVE  Taken = Owned \cup lost /\ aliveThreads = Cardinality(Taken)
    BY DEF EntriesAccounted, Owned
  <2>1. Counted /\ Uncounted = 0 /\ threadIndex \in Nat
    BY DEF IInv, TableExact, Uncounted, TypeOK
  <2>2. Cardinality(Taken) \in Nat
    BY <2>1, FullInterval DEF Counted
  <2> QED BY <2>1, <2>2 DEF Counted
<1> QED BY <1>1, Invariance, PTL

-----------------------------------------------------------------------------
(***************************************************************************)
(* The table implements a pool                                             *)
(***************************************************************************)

\* The owners of each entry.
OwnersOf == [i \in Indexes |-> {t \in Owners : index[t] = i}]

PoolVars == <<OwnersOf, lost, halted = "bad index">>

\* A step that changes neither the owners nor the table is none of the pool.
LEMMA PoolStutter ==
  ASSUME Owners' = Owners, \A u \in Owners : index'[u] = index[u],
         lost' = lost, halted' = "bad index" <=> halted = "bad index"
  PROVE  UNCHANGED PoolVars
<1>1. \A i : {t \in Owners' : index'[t] = i} = {t \in Owners : index[t] = i}
  OBVIOUS
<1>2. OwnersOf' = OwnersOf
  BY <1>1 DEF OwnersOf
<1> QED BY <1>2 DEF PoolVars

\* A thread that no longer owns its entry leaves it without an owner.
LEMMA OwnerGone ==
  ASSUME ExclusiveIndex, NEW u \in Owners, index[u] \in Indexes,
         Owners' = Owners \ {u}, index' = index
  PROVE  /\ OwnersOf' = [OwnersOf EXCEPT ![index[u]] = {}]
         /\ OwnersOf[index[u]] # {}
<1>1. \A i \in Indexes :
        {t \in Owners' : index'[t] = i} =
          IF i = index[u] THEN {} ELSE {t \in Owners : index[t] = i}
  BY DEF ExclusiveIndex
<1>2. u \in OwnersOf[index[u]]
  BY DEF OwnersOf
<1> QED BY <1>1, <1>2 DEF OwnersOf

\* The main thread is the owner of the first index.
LEMMA PoolInit == Init => Pool!Init
<1> SUFFICES ASSUME Init PROVE Pool!Init
  OBVIOUS
<1>1. Owners = {Main} /\ index[Main] = 0 /\ 0 \in Indexes
  BY Basics DEF Init, Owners, Indexes
<1>2. OwnersOf = [i \in Indexes |-> IF i = 0 THEN {Main} ELSE {}]
  BY <1>1 DEF OwnersOf
<1>3. \E i \in Indexes, c \in Threads :
        OwnersOf = [j \in Indexes |-> IF j = i THEN {c} ELSE {}]
  BY <1>1, <1>2, Basics
<1> QED BY <1>3 DEF Init, Pool!Init, OwnersOf

\* The end of the first critical section takes a free entry, or finds none.
LEMMA PoolTake ==
  ASSUME IInv, halted = "no", NEW t \in Threads, AllocTake(t)
  PROVE  Pool!Next
<1>1. TypeOK /\ Roles /\ TableExact /\ Counted /\ ChosenFree
  BY DEF IInv, TableExact
<1>2. PICK u \in Threads \ {Main} : u = other[t] /\ status[u] = "created"
  BY <1>1 DEF TypeOK, Roles, StatusAt, Creating, AllocTake
<1>3. PICK i : i = index[u]
  OBVIOUS
<1>4. /\ status' = [status EXCEPT ![u] = "allotted"]
      /\ IF i \in Indexes THEN halted' = halted ELSE halted' = "bad index"
      /\ index' = index /\ lost' = lost
  BY <1>2, <1>3 DEF AllocTake, gone
<1>5. IF i \in Indexes THEN i \notin Taken ELSE Indexes \subseteq Taken
  BY <1>1, <1>2, <1>3 DEF ChosenFree, AllocTake
<1>6. Owners' = Owners \cup {u} /\ u \notin Owners
  <2>1. \A v : v \in Owners' <=> v \in Owners \/ v = u
    BY <1>1, <1>2, <1>4 DEF Owners, TypeOK
  <2>2. u \notin Owners
    BY <1>2 DEF Owners
  <2> QED BY <2>1, <2>2
<1>7. CASE i \in Indexes
  <2>1. i \notin lost /\ \A v \in Owners : index[v] # i
    BY <1>1, <1>5, <1>7 DEF Counted, Owned
  <2>2. OwnersOf[i] = {}
    BY <1>7, <2>1 DEF OwnersOf
  <2>3. \A j \in Indexes :
          {v \in Owners' : index'[v] = j} = IF j = i THEN {u} ELSE {v \in Owners : index[v] = j}
    BY <1>3, <1>4, <1>6, <2>1
  <2>4. OwnersOf' = [OwnersOf EXCEPT ![i] = {u}]
    BY <2>3 DEF OwnersOf
  <2>5. Pool!Take(u)
    BY <1>4, <1>7, <2>1, <2>2, <2>4 DEF Pool!Take, Pool!Free, OwnersOf
  <2> QED BY <1>2, <2>5 DEF Pool!Next
<1>8. CASE i \notin Indexes
  <2>1. Pool!Free = {}
    BY <1>1, <1>5, <1>8 DEF Pool!Free, Counted, Owned
  <2>2. \A j \in Indexes : {v \in Owners' : index'[v] = j} = {v \in Owners : index[v] = j}
    BY <1>3, <1>4, <1>6, <1>8
  <2>3. OwnersOf' = OwnersOf
    BY <2>2 DEF OwnersOf
  <2>4. Pool!Refuse
    BY <1>4, <1>8, <2>1, <2>3 DEF Pool!Refuse, OwnersOf
  <2> QED BY <2>4 DEF Pool!Next
<1> QED BY <1>7, <1>8

\* A join gives an entry back.
LEMMA PoolGive ==
  ASSUME IInv, halted = "no", NEW t \in Threads, JoinFind(t)
  PROVE  Pool!Next
<1>1. TypeOK /\ Roles /\ TableExact /\ ExclusiveIndex
  BY DEF IInv
<1>2. PICK u \in Threads : u = other[t] /\ status[u] = "exited"
  BY <1>1 DEF TypeOK, Roles, StatusAt, JoinFind
<1>3. u \in Owners /\ index[u] \in Indexes
  BY <1>1, <1>2 DEF Owners, TableExact
<1>4. status' = [status EXCEPT ![u] = "none"] /\ index' = index /\ lost' = lost /\ halted' = halted
  BY <1>2 DEF JoinFind, gone
<1>5. Owners' = Owners \ {u}
  BY <1>1, <1>2, <1>4 DEF Owners, TypeOK
<1>6. PICK i \in Indexes : i = index[u]
  BY <1>3
<1>7. Pool!Give(i)
  BY <1>1, <1>3, <1>4, <1>5, <1>6, OwnerGone DEF Pool!Give, OwnersOf
<1> QED BY <1>7 DEF Pool!Next

\* The end of a thread gives its entry back only if it was detached, and then
\* to no avail.
LEMMA PoolExit ==
  ASSUME IInv, halted = "no", NEW u \in Threads, Exit(u)
  PROVE  Pool!Next \/ UNCHANGED PoolVars
<1>1. TypeOK /\ TableExact /\ ExclusiveIndex
  BY DEF IInv
<1>2. /\ status[u] = "running"
      /\ status' = [status EXCEPT ![u] = IF u \in detached THEN "none" ELSE "exited"]
      /\ index' = index /\ lost' = lost /\ halted' = halted
  BY DEF Exit, Ready
<1>3. u \in Owners /\ index[u] \in Indexes
  BY <1>1, <1>2 DEF Owners, TableExact
<1>4. CASE u \in detached
  <2>1. Owners' = Owners \ {u}
    BY <1>1, <1>2, <1>4 DEF Owners, TypeOK
  <2>2. PICK i \in Indexes : i = index[u]
    BY <1>3
  <2>3. Pool!Give(i)
    BY <1>1, <1>2, <1>3, <2>1, <2>2, OwnerGone DEF Pool!Give, OwnersOf
  <2> QED BY <2>3 DEF Pool!Next
<1>5. CASE u \notin detached
  <2>1. Owners' = Owners
    BY <1>1, <1>2, <1>5 DEF Owners, TypeOK
  <2> QED BY <1>2, <2>1, PoolStutter
<1> QED BY <1>4, <1>5

\* Detaching a thread loses its entry.
LEMMA PoolLose ==
  ASSUME IInv, halted = "no", NEW t \in Threads, Detach(t)
  PROVE  Pool!Next
<1>1. TypeOK /\ TableExact /\ ExclusiveIndex /\ MapExact
  BY DEF IInv
<1>2. PICK u \in joinable :
        /\ lost' = lost \cup {index[u]}
        /\ IF status[u] = "exited" THEN status' = [status EXCEPT ![u] = "none"]
                                   ELSE status' = status
  BY DEF Detach
<1>3. index' = index /\ halted' = halted
  BY DEF Detach
<1>4. u \in Threads /\ u \in Owners /\ index[u] \in Indexes
  BY <1>1, <1>2 DEF TypeOK, MapExact, Owners, TableExact
<1>5. OwnersOf[index[u]] # {}
  <2>1. u \in OwnersOf[index[u]]
    BY <1>4 DEF OwnersOf
  <2> QED BY <2>1
<1>6. OwnersOf' = OwnersOf \/ OwnersOf' = [OwnersOf EXCEPT ![index[u]] = {}]
  <2>1. CASE status[u] = "exited"
    <3>1. Owners' = Owners \ {u}
      BY <1>1, <1>2, <1>4, <2>1 DEF Owners, TypeOK
    <3> QED BY <1>1, <1>3, <1>4, <3>1, OwnerGone
  <2>2. CASE status[u] # "exited"
    BY <1>2, <1>3, <2>2 DEF OwnersOf, Owners
  <2> QED BY <2>1, <2>2
<1>7. PICK i \in Indexes : i = index[u]
  BY <1>4
<1>8. Pool!Lose(i)
  BY <1>2, <1>3, <1>5, <1>6, <1>7 DEF Pool!Lose, OwnersOf
<1> QED BY <1>8 DEF Pool!Next

\* Every step of the thread table is one of the pool or none.
LEMMA PoolStep == IInv /\ [Next]_vars => [Pool!Next]_(Pool!vars)
<1> SUFFICES ASSUME IInv, [Next]_vars PROVE Pool!Next \/ UNCHANGED PoolVars
  BY DEF Pool!vars, PoolVars, OwnersOf
<1>1. CASE UNCHANGED vars
  BY <1>1, PoolStutter DEF vars, Owners
<1>2. CASE Next
  <2>1. PICK t \in Threads : Run(t) \/ Call(t)
    BY <1>2 DEF Next
  <2>2. halted = "no" /\ TypeOK /\ Roles
    BY <1>2 DEF Next, IInv
  <2>3. CASE AllocTake(t) \/ JoinFind(t) \/ Exit(t) \/ Detach(t)
    BY <2>2, <2>3, PoolTake, PoolGive, PoolExit, PoolLose
  <2>4. CASE AllocChoose(t)
    <3>1. other[t] \in Threads /\ status[other[t]] = "created"
      BY <2>2, <2>4 DEF AllocChoose, Roles, StatusAt, TypeOK
    <3>2. other[t] \notin Owners /\ Owners' = Owners
      BY <2>4, <3>1 DEF AllocChoose, Owners
    <3>3. \A u \in Owners : index'[u] = index[u]
      BY <2>2, <2>4, <3>2 DEF AllocChoose, TypeOK, Owners
    <3>4. lost' = lost /\ halted' = halted
      BY <2>4 DEF AllocChoose, gone
    <3> QED BY <3>2, <3>3, <3>4, PoolStutter
  <2>5. CASE Spawn(t)
    <3>1. PICK u \in Threads : u = other[t] /\ status[u] = "allotted" /\ status' = [status EXCEPT ![u] = "running"]
      BY <2>2, <2>5 DEF Spawn, Roles, StatusAt, TypeOK
    <3>2. Owners' = Owners
      BY <2>2, <3>1 DEF Owners, TypeOK
    <3> QED BY <2>5, <3>2, PoolStutter DEF Spawn, gone
  <2>6. CASE CreateCall(t)
    <3>1. PICK u \in Threads : status[u] = "none" /\ status' = [status EXCEPT ![u] = "created"]
      BY <2>6 DEF CreateCall, Present
    <3>2. Owners' = Owners
      BY <2>2, <3>1 DEF Owners, TypeOK
    <3> QED BY <2>6, <3>2, PoolStutter DEF CreateCall, gone
  <2>7. CASE SpawnFails(t) \/ MapInsert(t) \/ JoinCall(t) \/ JoinWait(t) \/ JoinCount(t)
    BY <2>2, <2>7, PoolStutter DEF SpawnFails, MapInsert, JoinCall, JoinWait, JoinCount, life, gone, Owners
  <2>8. ASSUME NEW from, NEW to, Acquire(t, from, to)
        PROVE  UNCHANGED PoolVars
    BY <2>8, PoolStutter DEF Acquire, life, gone, Owners
  <2> QED BY <2>1, <2>3, <2>4, <2>5, <2>6, <2>7, <2>8 DEF Run, Call
<1> QED BY <1>1, <1>2

\* thread_create / thread_join: for any number of entries and threads, the
\* table with its counters and its map implements the pool of entries.
THEOREM TableIsPool == EarlyJoin = FALSE /\ Spec => RefinesIndexPool
<1> SUFFICES ASSUME EarlyJoin = FALSE PROVE Spec => RefinesIndexPool
  OBVIOUS
<1>1. Init => Pool!Init
  BY PoolInit
<1>2. IInv /\ [Next]_vars => [Pool!Next]_(Pool!vars)
  BY PoolStep
<1>3. Spec => []IInv
  BY Invariance
<1> QED BY <1>1, <1>2, <1>3, PTL DEF Spec, RefinesIndexPool, Pool!Spec
=============================================================================
