------------------------------- MODULE XThread -------------------------------
(***************************************************************************)
(* Thread creation and joining (xthread.hh), which hand out the thread     *)
(* indexes that select a thread's stack and its bags.                      *)
(*                                                                         *)
(* An index is taken from the table of MAX_ALIVE_THREADS entries under the *)
(* global lock before the thread is spawned, and given back under the same *)
(* lock by the thread that joins it, which finds it through a hash map     *)
(* from pthread_t to index that creation fills in a second critical        *)
(* section.  Everything in between runs without the lock.                  *)
(***************************************************************************)
EXTENDS Integers, FiniteSets

CONSTANTS
  Threads,          \* identities of the application's threads, used again
                    \* after a thread has been joined
  Main,             \* the initial thread
  MaxAlive,         \* MAX_ALIVE_THREADS
  EarlyJoin,        \* may a thread be joined before its creation returns?
  Detaching,        \* may threads be detached?
  NULL

Indexes == 0 .. MaxAlive - 1

ASSUME ThreadConstants ==
  /\ Main \in Threads
  /\ MaxAlive \in Nat \ {0}
  /\ NULL \notin Threads \cup Int
  /\ Threads \cap Int = {}
  /\ {EarlyJoin, Detaching} \subseteq BOOLEAN

VARIABLES
  aliveThreads,  \* _aliveThreads
  threadIndex,   \* _threadIndex: entries below it have been used
  available,     \* _threads[i].available
  xmap,          \* _xmap: index recorded for a pthread_t, or NULL
  globalLock,    \* holder of _spin_lock, or NULL
  status,        \* life of every thread
  index,         \* _threads entry a thread was given
  joinable,      \* threads whose pthread_t the application may join
  detached,      \* threads that have been detached
  lost,          \* history: entries of the threads that were ever detached
  pc,            \* next step of the thread_create or thread_join in progress
  other,         \* the thread being created or joined
  halted         \* "no", or why the process is over

table == <<aliveThreads, threadIndex, available>>
life  == <<status, index>>
gone  == <<detached, lost>>
vars  == <<aliveThreads, threadIndex, available, xmap, globalLock, status,
           index, joinable, detached, lost, pc, other, halted>>

Lives == {"none", "created", "allotted", "running", "exited"}
Steps == {"idle", "alloc lock", "alloc", "take", "spawn", "map lock", "map",
          "wait", "free lock", "free", "count"}

Goto(t, step) == pc' = [pc EXCEPT ![t] = step]

\* A thread that is being created, alive, or has ended and waits to be joined.
Present(t) == status[t] # "none"

\* The pthread_t of a thread.  The C library keeps the descriptor of a thread,
\* whose address is its pthread_t, at the top of the stack it is given, and
\* with customized stacks that is the stack of the entry: two threads that
\* use an entry one after the other have the same pthread_t.  The descriptor
\* of the initial thread lies elsewhere, and its address is not used again.
PthreadT(t) == IF t = Main THEN Main ELSE index[t]

Pthreads == Indexes \cup {Main}

\* The threads an entry of _threads has been taken for.
Owners == {t \in Threads : status[t] \in {"allotted", "running", "exited"}}

\* initialize() and initializeInitialThread(): the initial thread has taken
\* entry 0 and is recorded in the map.
Init ==
  /\ aliveThreads = 1
  /\ threadIndex = 1
  /\ available = [i \in Indexes |-> i # 0]
  /\ xmap = [p \in Pthreads |-> IF p = Main THEN 0 ELSE NULL]
  /\ globalLock = NULL
  /\ status = [t \in Threads |-> IF t = Main THEN "running" ELSE "none"]
  /\ index = [t \in Threads |-> IF t = Main THEN 0 ELSE NULL]
  /\ joinable = {Main}
  /\ detached = {}
  /\ lost = {}
  /\ pc = [t \in Threads |-> "idle"]
  /\ other = [t \in Threads |-> NULL]
  /\ halted = "no"

Ready(t) == status[t] = "running" /\ pc[t] = "idle"

\* Mutant: thread_join does not wait for the global lock.
AcquireUnlessJoining(t, from, to) ==
  /\ pc[t] = from
  /\ globalLock = NULL \/ from = "free lock"
  /\ globalLock' = t
  /\ Goto(t, to)
  /\ UNCHANGED <<table, xmap, life, joinable, gone, other, halted>>

\* acquireGlobalLock, in front of the critical section "to".
Acquire(t, from, to) ==
  /\ pc[t] = from
  /\ globalLock = NULL
  /\ globalLock' = t
  /\ Goto(t, to)
  /\ UNCHANGED <<table, xmap, life, joinable, gone, other, halted>>

-----------------------------------------------------------------------------
(***************************************************************************)
(* thread_create                                                           *)
(***************************************************************************)

\* The application calls pthread_create while fewer than MaxAlive threads are
\* present: MAX_ALIVE_THREADS is the documented limit of the library.
CreateCall(t) ==
  /\ Ready(t)
  /\ Cardinality({u \in Threads : Present(u)}) < MaxAlive
  /\ \E u \in Threads \ {Main} :
       /\ ~Present(u)
       /\ \A v \in Threads : other[v] # u
       /\ status' = [status EXCEPT ![u] = "created"]
       /\ other' = [other EXCEPT ![t] = u]
  /\ Goto(t, "alloc lock")
  /\ UNCHANGED <<table, xmap, globalLock, index, joinable, gone, halted>>

\* allocThreadIndex: while as many threads are alive as entries were used, the
\* next unused entry (the code does not test that there is one), else the
\* first available entry of 0 .. _threadIndex.  -1 also stands for what reading
\* the entry behind the table may give.
Taken == {i \in Indexes : ~available[i]}

\* Mutant: the search stops one entry short.
FreeEntriesShort == {i \in 0 .. threadIndex - 2 : i \in Indexes \ Taken}

FreeEntries == {i \in 0 .. threadIndex : i \in Indexes \ Taken}

\* Mutant: an entry below _threadIndex is taken without a look at available.
NewIndexUnchecked ==
  IF aliveThreads = threadIndex THEN threadIndex ELSE aliveThreads

NewIndex ==
  IF aliveThreads = threadIndex THEN threadIndex
  ELSE IF FreeEntries = {} THEN -1
  ELSE CHOOSE i \in FreeEntries : \A j \in FreeEntries : i <= j

\* The first critical section is allocThreadIndex.  It counts the thread and
\* chooses the entry ...
AllocChoose(t) ==
  /\ pc[t] = "alloc"
  /\ aliveThreads' = aliveThreads + 1
  /\ threadIndex' = IF aliveThreads = threadIndex THEN threadIndex + 1
                    ELSE threadIndex
  /\ index' = [index EXCEPT ![other[t]] = NewIndex]
  /\ Goto(t, "take")
  /\ UNCHANGED <<available, xmap, globalLock, status, joinable, gone, other,
                 halted>>

\* Mutant: an entry that is used again is not marked.
AllocTakeNewOnly(t) ==
  /\ pc[t] = "take"
  /\ LET u == other[t]
     IN /\ status' = [status EXCEPT ![u] = "allotted"]
        /\ IF index[u] \in Indexes
             THEN /\ available' = [available EXCEPT ![index[u]] =
                                    @ /\ index[u] # threadIndex - 1]
                  /\ UNCHANGED halted
             ELSE halted' = "bad index" /\ UNCHANGED available
  /\ globalLock' = NULL
  /\ Goto(t, "spawn")
  /\ UNCHANGED <<aliveThreads, threadIndex, xmap, index, joinable, gone,
                 other>>

\* ... and marks it as taken; releaseGlobalLock.  An index outside the table
\* makes the code write outside of it.
AllocTake(t) ==
  /\ pc[t] = "take"
  /\ LET u == other[t]
     IN /\ status' = [status EXCEPT ![u] = "allotted"]
        /\ IF index[u] \in Indexes
             THEN /\ available' = [available EXCEPT ![index[u]] = FALSE]
                  /\ UNCHANGED halted
             ELSE halted' = "bad index" /\ UNCHANGED available
  /\ globalLock' = NULL
  /\ Goto(t, "spawn")
  /\ UNCHANGED <<aliveThreads, threadIndex, xmap, index, joinable, gone,
                 other>>

\* Real::pthread_create on the stack of the entry.  From here on the thread
\* runs, and *tid is set.
Spawn(t) ==
  /\ pc[t] = "spawn"
  /\ LET u == other[t]
     IN /\ status' = [status EXCEPT ![u] = "running"]
        /\ joinable' = IF EarlyJoin THEN joinable \cup {u} ELSE joinable
  /\ Goto(t, "map lock")
  /\ UNCHANGED <<table, xmap, globalLock, index, gone, other, halted>>

\* Real::pthread_create reports an error: FATAL.
SpawnFails(t) ==
  /\ pc[t] = "spawn"
  /\ halted' = "thread_create failure"
  /\ UNCHANGED <<table, xmap, globalLock, life, joinable, gone, pc, other>>

\* Mutant: the newest index is recorded instead of the thread's own.
MapInsertNewest(t) ==
  /\ pc[t] = "map"
  /\ LET u == other[t]
     IN /\ xmap' = [xmap EXCEPT ![PthreadT(u)] = IF @ = NULL THEN threadIndex - 1
                                              ELSE @]
        /\ joinable' = IF EarlyJoin THEN joinable ELSE joinable \cup {u}
  /\ globalLock' = NULL
  /\ other' = [other EXCEPT ![t] = NULL]
  /\ Goto(t, "idle")
  /\ UNCHANGED <<table, life, gone, halted>>

\* Mutant: what is recorded is the initial value of joinee.
MapInsertUnset(t) ==
  /\ pc[t] = "map"
  /\ LET u == other[t]
     IN /\ xmap' = [xmap EXCEPT ![PthreadT(u)] = IF @ = NULL THEN -1 ELSE @]
        /\ joinable' = IF EarlyJoin THEN joinable ELSE joinable \cup {u}
  /\ globalLock' = NULL
  /\ other' = [other EXCEPT ![t] = NULL]
  /\ Goto(t, "idle")
  /\ UNCHANGED <<table, life, gone, halted>>

\* Mutant: the lock is kept when the map has the key already.
MapInsertKeepsLock(t) ==
  /\ pc[t] = "map"
  /\ LET u == other[t]
     IN /\ xmap' = [xmap EXCEPT ![PthreadT(u)] = IF @ = NULL THEN index[u] ELSE @]
        /\ joinable' = IF EarlyJoin THEN joinable ELSE joinable \cup {u}
        /\ globalLock' = IF xmap[PthreadT(u)] = NULL THEN NULL ELSE globalLock
  /\ other' = [other EXCEPT ![t] = NULL]
  /\ Goto(t, "idle")
  /\ UNCHANGED <<table, life, gone, halted>>

\* The second critical section: insertIfAbsent, which keeps the value of a
\* key that is there already.
MapInsert(t) ==
  /\ pc[t] = "map"
  /\ LET u == other[t]
     IN /\ xmap' = [xmap EXCEPT ![PthreadT(u)] = IF @ = NULL THEN index[u] ELSE @]
        /\ joinable' = IF EarlyJoin THEN joinable ELSE joinable \cup {u}
  /\ globalLock' = NULL
  /\ other' = [other EXCEPT ![t] = NULL]
  /\ Goto(t, "idle")
  /\ UNCHANGED <<table, life, gone, halted>>

-----------------------------------------------------------------------------
(***************************************************************************)
(* thread_join, and the end of a thread                                    *)
(***************************************************************************)

\* startThread returns, or the thread calls pthread_exit, as the initial one
\* may do too (its return from main ends the process).  A detached thread is
\* gone with that; the library is not told.
Exit(u) ==
  /\ Ready(u)
  /\ status' = [status EXCEPT ![u] = IF u \in detached THEN "none" ELSE "exited"]
  /\ detached' = detached \ {u}
  /\ UNCHANGED <<table, xmap, globalLock, index, joinable, lost, pc, other, halted>>

\* pthread_detach is not intercepted.
Detach(t) ==
  /\ Detaching
  /\ Ready(t)
  /\ \E u \in joinable :
       /\ joinable' = joinable \ {u}
       /\ lost' = lost \cup {index[u]}
       /\ IF status[u] = "exited"
            THEN status' = [status EXCEPT ![u] = "none"] /\ UNCHANGED detached
            ELSE detached' = detached \cup {u} /\ UNCHANGED status
  /\ UNCHANGED <<table, xmap, globalLock, index, pc, other, halted>>

\* The application joins each thread at most once.
JoinCall(t) ==
  /\ Ready(t)
  /\ \E u \in joinable \ {t} :
       /\ joinable' = joinable \ {u}
       /\ other' = [other EXCEPT ![t] = u]
  /\ Goto(t, "wait")
  /\ UNCHANGED <<table, xmap, globalLock, life, gone, halted>>

\* Real::pthread_join returns.
JoinWait(t) ==
  /\ pc[t] = "wait"
  /\ status[other[t]] = "exited"
  /\ Goto(t, "free lock")
  /\ UNCHANGED <<table, xmap, globalLock, life, joinable, gone, other,
                 halted>>

\* The critical section: find the index of the pthread_t and give the entry
\* back (if it is not found an error is logged and nothing else) ...
JoinFind(t) ==
  /\ pc[t] = "free"
  /\ LET u == other[t]
         joinee == xmap[PthreadT(u)]
     IN /\ available' = IF joinee = NULL THEN available
                        ELSE [available EXCEPT ![joinee] = TRUE]
        /\ status' = [status EXCEPT ![u] = "none"]
  /\ Goto(t, "count")
  /\ UNCHANGED <<aliveThreads, threadIndex, xmap, globalLock, index, joinable,
                 gone, other, halted>>

\* ... count the thread out; releaseGlobalLock.
JoinCount(t) ==
  /\ pc[t] = "count"
  /\ aliveThreads' = aliveThreads - 1
  /\ globalLock' = NULL
  /\ other' = [other EXCEPT ![t] = NULL]
  /\ Goto(t, "idle")
  /\ UNCHANGED <<threadIndex, available, xmap, life, joinable, gone, halted>>

-----------------------------------------------------------------------------
\* The steps of the calls thread_create and thread_join.
Run(t) ==
  \/ Acquire(t, "alloc lock", "alloc") \/ AllocChoose(t) \/ AllocTake(t)
  \/ Spawn(t) \/ SpawnFails(t)
  \/ Acquire(t, "map lock", "map") \/ MapInsert(t)
  \/ JoinWait(t) \/ Acquire(t, "free lock", "free") \/ JoinFind(t) \/ JoinCount(t)

\* The steps of the application.
Call(t) == CreateCall(t) \/ Exit(t) \/ Detach(t) \/ JoinCall(t)

Next == halted = "no" /\ \E t \in Threads : Run(t) \/ Call(t)

Spec == Init /\ [][Next]_vars
-----------------------------------------------------------------------------
(***************************************************************************)
(* Properties                                                              *)
(***************************************************************************)

\* The types of the variables.
TypeOK ==
  /\ aliveThreads \in Nat
  /\ threadIndex \in Nat
  /\ available \in [Indexes -> BOOLEAN]
  /\ xmap \in [Pthreads -> Indexes \cup {NULL}]
  /\ globalLock \in Threads \cup {NULL}
  /\ status \in [Threads -> Lives]
  /\ index \in [Threads -> (-1 .. MaxAlive) \cup {NULL}]
  /\ joinable \subseteq Threads
  /\ detached \subseteq Threads
  /\ lost \subseteq Indexes
  /\ pc \in [Threads -> Steps]
  /\ other \in [Threads -> Threads \cup {NULL}]
  /\ halted \in {"no", "bad index", "thread_create failure"}

\* allocThreadIndex / thread_join: two threads that are being started, run or
\* wait to be joined never share an entry of _threads, and so neither a stack
\* nor the bags of a heap.
ExclusiveIndex ==
  \A t, u \in Owners : index[t] = index[u] => t = u

\* allocThreadIndex: it finds an entry of the table for a program that keeps to
\* MAX_ALIVE_THREADS threads, however many it creates in all, unless every
\* entry is that of a thread or was lost to a detached one.
IndexInTable ==
  halted = "bad index" => Indexes \subseteq lost \cup {index[t] : t \in Owners}

\* allocThreadIndex: MAX_ALIVE_THREADS is the number of threads that can be
\* alive at a time, and not of those that are ever detached.
AliveThreadsSupported == halted # "bad index"

\* thread_join: the entry it gives back is the one creation took.
JoinFindsIndex ==
  \A t \in Threads :
    pc[t] = "free" => xmap[PthreadT(other[t])] = index[other[t]]

\* allocThreadIndex / thread_join: the entries marked as taken are those of
\* the threads that own one and those lost to detached threads, and
\* _aliveThreads is their number, whenever the global lock is free.
EntriesAccounted ==
  halted = "no" /\ globalLock = NULL =>
    /\ Taken = {index[t] : t \in Owners} \cup lost
    /\ aliveThreads = Cardinality(Taken)

\* The table seen from outside.
Pool == INSTANCE IndexPool WITH
  Entries <- Indexes,
  Clients <- Threads,
  owners  <- [i \in Indexes |-> {t \in Owners : index[t] = i}],
  refused <- (halted = "bad index")

\* thread_create / thread_join: the table is a pool of entries; a creation
\* takes effect when it marks the entry, a join when it makes the entry
\* available.
RefinesIndexPool == Pool!Spec
=============================================================================
