---------------------------- MODULE ProcessProofs ----------------------------
(***************************************************************************)
(* Proofs about Process, for any number of threads and entries, any size   *)
(* of stacks and guards, and any place of the stack area and of the stack  *)
(* of the initial thread.                                                  *)
(***************************************************************************)
EXTENDS Process, XThreadProofs

-----------------------------------------------------------------------------
(***************************************************************************)
(* A process runs the threads of XThread                                   *)
(***************************************************************************)

\* Every step of the process is a step of the thread table, or leaves it alone.
LEMMA StepOfXThread == [ProcessNext]_processVars => [Next]_vars
<1> SUFFICES ASSUME [ProcessNext]_processVars PROVE Next \/ UNCHANGED vars
  OBVIOUS
<1>1. CASE UNCHANGED processVars
  BY <1>1 DEF processVars
<1>2. CASE Startup
  <2>1. CASE HeapInitialize \/ SetDone \/ LookupMalloc \/ LookupServed
    BY <2>1 DEF HeapInitialize, SetDone, LookupMalloc, LookupServed
  <2>2. CASE Serve
    BY <2>2, Basics DEF Serve, Loading, Next, Call
  <2>3. CASE \E c \in Components : Initialize(c)
    BY <2>3 DEF Initialize
  <2>4. CASE ThreadTooEarly
    BY <2>4, Basics DEF ThreadTooEarly, Loading, Next
  <2> QED BY <1>2, <2>1, <2>2, <2>3, <2>4 DEF Startup
<1>3. CASE LibcStart
  BY <1>3 DEF LibcStart
<1>4. CASE \E c \in Calls : LibraryCall(c)
  BY <1>4 DEF LibraryCall
<1>5. CASE \E t \in Threads : ThreadStep(t) \/ ThreadCall(t)
  BY <1>5 DEF ThreadStep, ThreadCall, Next
<1> QED BY <1>1, <1>2, <1>3, <1>4, <1>5 DEF ProcessNext

\* A process, from its loading on, runs threads as XThread has them, so that
\* what is proved of XThread holds of it.
THEOREM ProcessImplementsXThread == ProcessSpec => Spec
<1>1. ProcessInit => Init
  BY DEF ProcessInit
<1> QED BY <1>1, StepOfXThread, PTL DEF ProcessSpec, Spec

-----------------------------------------------------------------------------
(***************************************************************************)
(* The order of initialization                                             *)
(***************************************************************************)

\* heapinitialize has set its status to s, is at step i, and what is in c is
\* ready.
Phase(s, i, c) == heapInitStatus = s /\ init = i /\ ready = c

Phases ==
  \/ Phase("not", 0, {})
  \/ Phase("working", 1, {})
  \/ Phase("working", 2, {"small heap"})
  \/ Phase("done", 3, {"small heap"})
  \/ Phase("done", 4, {"small heap", "real"})
  \/ Phase("done", 5, {"small heap", "real", "threads"})
  \/ Phase("done", 0, Components)

\* The status tells how far the initialization has got, but not whether it is
\* over; that follows from no call being inside of it.
BootInv ==
  /\ Phases
  /\ call \in Calls \cup {NULL}
  /\ init # 0 => call \notin {NULL, "free"}
  /\ constructed => heapInitStatus = "done" \/ call = "constructor"
  /\ globalStackAddr # 0 => heapInitStatus = "done" /\ init = 0
  /\ failure # "uninitialized"

\* The order in which initialize sets the components up, written out.
LEMMA InitOrderSteps ==
  /\ Len(InitOrder) = 5
  /\ InitOrder[1] = "small heap" /\ InitOrder[2] = "status" /\ InitOrder[3] = "real"
  /\ InitOrder[4] = "threads" /\ InitOrder[5] = "big heap"
BY DEF InitOrder

\* Each step of initialize moves to the next one.
LEMMA NextInitSteps ==
  ASSUME NextInit
  PROVE  /\ init = 1 => init' = 2
         /\ init = 2 => init' = 3
         /\ init = 3 => init' = 4
         /\ init = 4 => init' = 5
         /\ init = 5 => init' = 0
<1>1. init' = IF init = 5 THEN 0 ELSE init + 1
  BY InitOrderSteps DEF NextInit
<1>2. init = 1 => init' = 2
  BY <1>1
<1>3. init = 2 => init' = 3
  BY <1>1
<1>4. init = 3 => init' = 4
  BY <1>1
<1>5. init = 4 => init' = 5
  BY <1>1
<1>6. init = 5 => init' = 0
  BY <1>1
<1> QED BY <1>2, <1>3, <1>4, <1>5, <1>6

\* A heap that is done and not at work has every component.
LEMMA PhaseOver ==
  ASSUME Phases, heapInitStatus = "done", init = 0
  PROVE  ready = Components
BY DEF Phases, Phase

\* The process starts with no component.
LEMMA BootInit == ProcessInit => BootInv
<1> SUFFICES ASSUME ProcessInit PROVE BootInv
  OBVIOUS
<1>1. Phase("not", 0, {}) /\ call = NULL /\ constructed = FALSE
  BY DEF ProcessInit, Phase
<1>2. init = 0 /\ globalStackAddr = 0 /\ failure = "no"
  BY DEF ProcessInit
<1> QED BY <1>1, <1>2 DEF BootInv, Phases

\* Every step keeps the boot invariant.
LEMMA BootStep == BootInv /\ [ProcessNext]_processVars => BootInv'
<1> SUFFICES ASSUME BootInv, [ProcessNext]_processVars PROVE BootInv'
  OBVIOUS
<1> USE DEF boot, stack
<1>1. CASE UNCHANGED processVars
  BY <1>1 DEF processVars, BootInv, Phases, Phase
<1>2. ASSUME NEW c \in Calls, LibraryCall(c) PROVE BootInv'
  <2>1. constructed' => constructed \/ c = "constructor"
    BY <1>2 DEF LibraryCall
  <2>2. call = NULL /\ call' = c /\ c # NULL
    BY <1>2, StackConstants DEF LibraryCall, Calls
  <2>3. init = 0 /\ (constructed => heapInitStatus = "done")
    BY <2>2, StackConstants DEF BootInv
  <2>4. UNCHANGED <<heapInitStatus, init, ready, globalStackAddr, failure>>
    BY <1>2 DEF LibraryCall
  <2>5. Phases'
    BY <2>4 DEF BootInv, Phases, Phase
  <2>6. constructed' => heapInitStatus' = "done" \/ call' = "constructor"
    BY <2>1, <2>2, <2>3, <2>4
  <2> QED BY <2>2, <2>3, <2>4, <2>5, <2>6 DEF BootInv
<1>3. CASE HeapInitialize
  <2>1. /\ heapInitStatus = "not" /\ heapInitStatus' = "working" /\ init' = 1
        /\ call \notin {NULL, "free"}
        /\ UNCHANGED <<constructed, call, ready, globalStackAddr, failure>>
    BY <1>3 DEF HeapInitialize
  <2>2. ready = {}
    BY <2>1 DEF BootInv, Phases, Phase
  <2>3. globalStackAddr = 0 /\ (constructed => call = "constructor")
    BY <2>1 DEF BootInv
  <2>4. Phase("working", 1, {})'
    BY <2>1, <2>2 DEF Phase
  <2> QED BY <2>1, <2>3, <2>4 DEF BootInv, Phases
<1>4. CASE SetDone
  <2>1. init # 0 /\ InitOrder[init] = "status" /\ globalStackAddr = 0
    BY <1>4 DEF SetDone, At, Loading
  <2>2. Phase("working", 2, {"small heap"})
    BY <2>1, InitOrderSteps DEF BootInv, Phases, Phase
  <2>3. heapInitStatus' = "done" /\ init' = 3
    <3>1. heapInitStatus' = "done" /\ NextInit
      BY <1>4 DEF SetDone
    <3>2. init = 2
      BY <2>2 DEF Phase
    <3>3. init' = 3
      BY <3>1, <3>2, NextInitSteps
    <3> QED BY <3>1, <3>3
  <2>4. UNCHANGED <<constructed, call, ready, globalStackAddr, failure>>
    BY <1>4 DEF SetDone
  <2>5. Phase("done", 3, {"small heap"})'
    BY <2>2, <2>3, <2>4 DEF Phase
  <2> QED BY <2>1, <2>3, <2>4, <2>5 DEF BootInv, Phases
<1>5. CASE LookupMalloc
  BY <1>5 DEF LookupMalloc, BootInv, Phases, Phase
<1>6. CASE LookupServed
  <2>1. init # 0 /\ InitOrder[init] = "real"
    BY <1>6 DEF LookupServed, At
  <2>2. ready = {"small heap"}
    BY <2>1, InitOrderSteps DEF BootInv, Phases, Phase
  <2>3. Reaches("malloc") = {"small heap"}
    BY DEF Reaches
  <2>4. failure' = "no"
    BY <1>6, <2>2, <2>3 DEF LookupServed, Use
  <2>5. UNCHANGED <<heapInitStatus, constructed, call, init, ready, globalStackAddr>>
    BY <1>6 DEF LookupServed
  <2> QED BY <2>4, <2>5 DEF BootInv, Phases, Phase
<1>7. CASE Serve
  <2>1. init = 0 /\ call # NULL /\ call' = NULL
    BY <1>7 DEF Serve
  <2>2. UNCHANGED <<heapInitStatus, constructed, init, ready, globalStackAddr>>
    BY <1>7 DEF Serve
  <2>3. \/ call = "free" /\ failure' = failure
        \/ heapInitStatus = "done" /\ Use(Reaches(call))
    BY <1>7 DEF Serve
  <2>4. constructed' => heapInitStatus' = "done"
    BY <2>2, <2>3 DEF BootInv
  <2>5. failure' # "uninitialized"
    <3>1. CASE failure' = failure
      BY <3>1 DEF BootInv
    <3>2. CASE heapInitStatus = "done" /\ Use(Reaches(call))
      <4>1. ready = Components
        BY <2>1, <3>2, PhaseOver DEF BootInv
      <4>2. call \in Calls
        BY <2>1 DEF BootInv
      <4>3. Reaches(call) \subseteq Components
        BY <4>2, ZenonT(30) DEF Calls, Reaches, Components
      <4> QED BY <3>2, <4>1, <4>3 DEF Use
    <3> QED BY <2>3, <3>1, <3>2
  <2>6. Phases'
    BY <2>2 DEF BootInv, Phases, Phase
  <2> QED BY <2>1, <2>2, <2>4, <2>5, <2>6 DEF BootInv
<1>8. ASSUME NEW c \in Components, Initialize(c) PROVE BootInv'
  <2>1. init # 0 /\ InitOrder[init] = c /\ globalStackAddr = 0
    BY <1>8 DEF Initialize, At, Loading
  <2>2. NextInit /\ ready' = ready \cup {c}
    BY <1>8 DEF Initialize
  <2>3. UNCHANGED <<heapInitStatus, constructed, call, globalStackAddr>>
    BY <1>8 DEF Initialize
  <2>4. c # "status" /\ call \notin {NULL, "free"}
    BY <2>1 DEF Components, BootInv
  <2>5. Requires(c) \subseteq ready => failure' = "no"
    BY <1>8 DEF Initialize, Use
  <2>6. CASE Phase("working", 1, {})
    <3>1. c = "small heap" /\ Requires(c) = {}
      BY <2>1, <2>6, InitOrderSteps DEF Phase, Requires
    <3>2. Phase("working", 2, {"small heap"})'
      <4>1. init = 1 /\ init' = 2
        BY <2>2, <2>6, NextInitSteps DEF Phase
      <4>2. ready' = {"small heap"}
        BY <2>2, <2>6, <3>1 DEF Phase
      <4> QED BY <2>3, <2>6, <4>1, <4>2 DEF Phase
    <3> QED BY <2>1, <2>3, <2>4, <2>5, <3>1, <3>2 DEF BootInv, Phases
  <2>7. CASE Phase("done", 3, {"small heap"})
    <3>1. c = "real" /\ Requires(c) = {}
      BY <2>1, <2>7, InitOrderSteps DEF Phase, Requires
    <3>2. Phase("done", 4, {"small heap", "real"})'
      <4>1. init = 3 /\ init' = 4
        BY <2>2, <2>7, NextInitSteps DEF Phase
      <4>2. ready' = {"small heap", "real"}
        BY <2>2, <2>7, <3>1 DEF Phase
      <4> QED BY <2>3, <2>7, <4>1, <4>2 DEF Phase
    <3> QED BY <2>1, <2>3, <2>4, <2>5, <3>1, <3>2 DEF BootInv, Phases
  <2>8. CASE Phase("done", 4, {"small heap", "real"})
    <3>1. c = "threads" /\ Requires(c) \subseteq ready
      BY <2>1, <2>8, InitOrderSteps DEF Phase, Requires
    <3>2. Phase("done", 5, {"small heap", "real", "threads"})'
      <4>1. init = 4 /\ init' = 5
        BY <2>2, <2>8, NextInitSteps DEF Phase
      <4>2. ready' = {"small heap", "real", "threads"}
        BY <2>2, <2>8, <3>1 DEF Phase
      <4> QED BY <2>3, <2>8, <4>1, <4>2 DEF Phase
    <3> QED BY <2>1, <2>3, <2>4, <2>5, <3>1, <3>2 DEF BootInv, Phases
  <2>9. CASE Phase("done", 5, {"small heap", "real", "threads"})
    <3>1. c = "big heap" /\ Requires(c) \subseteq ready
      BY <2>1, <2>9, InitOrderSteps DEF Phase, Requires
    <3>2. Phase("done", 0, Components)'
      BY <2>2, <2>3, <2>9, <3>1, NextInitSteps DEF Phase, Components
    <3> QED BY <2>1, <2>3, <2>4, <2>5, <3>1, <3>2 DEF BootInv, Phases
  <2>10. ~ Phase("working", 2, {"small heap"})
    BY <2>1, <2>4, InitOrderSteps DEF Phase
  <2> QED BY <2>1, <2>6, <2>7, <2>8, <2>9, <2>10 DEF BootInv, Phases, Phase
<1>9. CASE ThreadTooEarly
  BY <1>9 DEF ThreadTooEarly, BootInv, Phases, Phase
<1>10. CASE LibcStart
  <2>1. call = NULL /\ constructed /\ UNCHANGED <<boot, failure>>
    BY <1>10 DEF LibcStart
  <2>2. heapInitStatus = "done" /\ init = 0
    BY <2>1, StackConstants DEF BootInv
  <2>3. Phases'
    BY <2>1 DEF BootInv, Phases, Phase
  <2> QED BY <2>1, <2>2, <2>3 DEF BootInv
<1>11. CASE \E t \in Threads : ThreadStep(t) \/ ThreadCall(t)
  BY <1>11 DEF ThreadStep, ThreadCall, BootInv, Phases, Phase
<1> QED BY <1>1, <1>2, <1>3, <1>4, <1>5, <1>6, <1>7, <1>8, <1>9, <1>10, <1>11 DEF ProcessNext, Startup

\* heapinitialize: no call reaches a component before it is initialized, and
\* all components are when main starts.
THEOREM NothingUninitialized == ProcessSpec => []UsesInitialized
<1>1. ProcessInit => BootInv
  BY BootInit
<1>2. BootInv /\ [ProcessNext]_processVars => BootInv'
  BY BootStep
<1>3. BootInv => UsesInitialized
  BY PhaseOver DEF BootInv, UsesInitialized
<1> QED BY <1>1, <1>2, <1>3, PTL DEF ProcessSpec

-----------------------------------------------------------------------------
(***************************************************************************)
(* The threads of a process                                                *)
(***************************************************************************)

\* thread_create / thread_join: what is proved of the thread table, for a
\* process from its loading on.
THEOREM TableOfProcess ==
  EarlyJoin = FALSE /\ ProcessSpec =>
    [](ExclusiveIndex /\ IndexInTable /\ JoinFindsIndex /\ EntriesAccounted)
BY ProcessImplementsXThread, IndexesExclusive, IndexesInTable, JoinsFindIndex,
   EntriesAreAccounted, PTL

\* A thread that runs has an entry of the table, even when the process has
\* stopped because another one has none; until there is a stack area only the
\* initial thread runs.
RunningAllotted == \A t \in Running : index[t] \in Indexes

OnlyMainAtFirst == globalStackAddr = 0 => Running \subseteq {Main}

Protected ==
  protected = IF globalStackAddr = 0 THEN {} ELSE GuardPages(globalStackAddr)

StackInv ==
  /\ IInv
  /\ RunningAllotted
  /\ OnlyMainAtFirst
  /\ globalStackAddr \in Areas \cup {0}
  /\ Protected

\* Only Spawn lets a thread run, and it runs with the entry it was given.
LEMMA WhoRuns ==
  ASSUME TypeOK, Roles, [Next]_vars
  PROVE  \/ Running' \subseteq Running
         \/ \E t \in Threads : Spawn(t)
<1>1. CASE UNCHANGED vars
  BY <1>1 DEF vars, Running
<1>2. CASE Next
  <2>1. PICK t \in Threads : Run(t) \/ Call(t)
    BY <1>2 DEF Next
  <2>2. ASSUME UNCHANGED status PROVE Running' \subseteq Running
    BY <2>2 DEF Running
  <2>3. ASSUME NEW u, NEW s, s # "running", status' = [status EXCEPT ![u] = s]
        PROVE  Running' \subseteq Running
    BY <2>3 DEF Running, TypeOK
  <2>4. CASE CreateCall(t)
    BY <2>3, <2>4 DEF CreateCall
  <2>5. CASE AllocTake(t)
    BY <2>3, <2>5 DEF AllocTake
  <2>6. CASE JoinFind(t)
    BY <2>3, <2>6 DEF JoinFind
  <2>7. CASE Exit(t)
    <3>1. status' = [status EXCEPT ![t] = IF t \in detached THEN "none" ELSE "exited"]
      BY <2>7 DEF Exit
    <3>2. (IF t \in detached THEN "none" ELSE "exited") # "running"
      OBVIOUS
    <3> QED BY <2>3, <3>1, <3>2
  <2>8. CASE Detach(t)
    BY <2>2, <2>3, <2>8 DEF Detach
  <2>9. CASE AllocChoose(t) \/ SpawnFails(t) \/ MapInsert(t) \/ JoinCall(t) \/ JoinWait(t) \/ JoinCount(t)
    BY <2>2, <2>9 DEF AllocChoose, SpawnFails, MapInsert, JoinCall, JoinWait, JoinCount, life
  <2>10. ASSUME NEW from, NEW to, Acquire(t, from, to) PROVE Running' \subseteq Running
    BY <2>2, <2>10 DEF Acquire, life
  <2> QED BY <2>1, <2>4, <2>5, <2>6, <2>7, <2>8, <2>9, <2>10 DEF Run, Call
<1> QED BY <1>1, <1>2

\* The entry of a thread does not change while it runs.
LEMMA IndexKept ==
  ASSUME TypeOK, Roles, [Next]_vars, NEW u \in Running
  PROVE  index'[u] = index[u]
<1>1. CASE UNCHANGED vars
  BY <1>1 DEF vars
<1>2. CASE Next
  <2>1. PICK t \in Threads : Run(t) \/ Call(t)
    BY <1>2 DEF Next
  <2>2. CASE AllocChoose(t)
    <3>1. status[other[t]] = "created"
      BY <2>2 DEF AllocChoose, Roles, StatusAt
    <3>2. u # other[t] /\ u \in Threads
      BY <3>1 DEF Running
    <3> QED BY <2>2, <3>2 DEF AllocChoose, TypeOK
  <2>3. CASE ~ AllocChoose(t)
    BY <2>1, <2>3 DEF Run, Call, CreateCall, AllocTake, Spawn, SpawnFails, MapInsert, Exit, Detach,
       JoinCall, JoinWait, JoinFind, JoinCount, Acquire, life
  <2> QED BY <2>2, <2>3
<1> QED BY <1>1, <1>2

\* The process goes on from a state without a bad index unless it stops there.
LEMMA AllottedStep == IInv /\ RunningAllotted /\ [Next]_vars /\ IInv' => RunningAllotted'
<1> SUFFICES ASSUME IInv, RunningAllotted, [Next]_vars, IInv' PROVE RunningAllotted'
  OBVIOUS
<1>1. TypeOK /\ Roles /\ TableExact
  BY DEF IInv
<1>2. CASE Running' \subseteq Running
  BY <1>1, <1>2, IndexKept DEF RunningAllotted
<1>3. ASSUME NEW t \in Threads, Spawn(t), ~ (Running' \subseteq Running) PROVE RunningAllotted'
  <2>1. Running' \subseteq Owners'
    BY DEF Running, Owners
  <2>2. halted' = halted
    BY <1>3 DEF Spawn
  <2>3. halted # "bad index"
    <3>1. ~ UNCHANGED vars
      BY <1>3 DEF vars, Running
    <3> QED BY <3>1 DEF Next
  <2>4. TableExact'
    BY DEF IInv
  <2> QED BY <2>1, <2>2, <2>3, <2>4 DEF TableExact, RunningAllotted
<1> QED BY <1>1, <1>2, <1>3, WhoRuns

\* The main thread alone satisfies the stack invariant.
LEMMA StackInit == EarlyJoin = FALSE /\ ProcessInit => StackInv
<1> SUFFICES ASSUME EarlyJoin = FALSE, ProcessInit PROVE StackInv
  OBVIOUS
<1>1. Init /\ IInv
  BY InitIInv DEF ProcessInit
<1>2. Running \subseteq {Main}
  BY <1>1 DEF Init, Running
<1>3. RunningAllotted
  BY <1>1, <1>2, Basics DEF Init, RunningAllotted, Indexes
<1> QED BY <1>1, <1>2, <1>3 DEF ProcessInit, StackInv, OnlyMainAtFirst, Protected

\* The stack sizes are positive, and so is the whole area.
LEMMA Sizes ==
  /\ StackSize \in Nat \ {0} /\ GuardSize \in Nat \ {0} /\ 2 * GuardSize < StackSize
  /\ MaxAlive \in Nat \ {0} /\ MaxAlive * StackSize \in Nat \ {0}
<1>1. StackSize \in Nat /\ GuardSize \in Nat \ {0} /\ 2 * GuardSize < StackSize
  BY StackConstants, Zenon
<1>2. StackSize # 0
  BY <1>1
<1>3. MaxAlive \in Nat \ {0}
  BY Basics
<1>4. MaxAlive * StackSize > 0
  BY <1>1, <1>2, <1>3
<1> QED BY <1>1, <1>2, <1>3, <1>4

\* No area of stacks starts at the null address.
LEMMA AreaNotNull == 0 \notin Areas
<1>1. 0 \in 0 .. MaxAlive * StackSize - 1
  BY Sizes
<1> QED BY <1>1, StackConstants

\* A call takes a step for its own thread only.
LEMMA OthersStay ==
  ASSUME NEW t \in Threads, NEW u \in Threads, u # t, Run(t) \/ CreateCall(t), TypeOK
  PROVE  pc'[u] = pc[u]
<1>1. ASSUME NEW step, Goto(t, step) PROVE pc'[u] = pc[u]
  BY <1>1 DEF Goto, TypeOK
<1>2. CASE SpawnFails(t)
  BY <1>2 DEF SpawnFails
<1>3. CASE Run(t) /\ ~ SpawnFails(t)
  BY <1>1, <1>3 DEF Run, Acquire, AllocChoose, AllocTake, Spawn, MapInsert, JoinWait, JoinFind, JoinCount
<1>4. CASE CreateCall(t)
  BY <1>1, <1>4 DEF CreateCall
<1> QED BY <1>2, <1>3, <1>4

\* Before there is a stack area no thread is spawned.
LEMMA NoSpawnAtFirst ==
  ASSUME globalStackAddr = 0, [ProcessNext]_processVars, TypeOK, NEW t \in Threads, Spawn(t)
  PROVE  FALSE
<1>1. pc[t] = "spawn" /\ pc' = [pc EXCEPT ![t] = "map lock"] /\ pc \in [Threads -> Steps]
  BY DEF Spawn, Goto, TypeOK
<1>2. pc'[t] = "map lock"
  BY <1>1
<1>3. pc' # pc
  BY <1>1, <1>2
<1>4. Main \in Threads
  BY Basics
<1>5. CASE Serve
  <2>1. CreateCall(Main) /\ pc[Main] = "idle"
    BY <1>3, <1>5 DEF Serve, vars, CreateCall, Ready
  <2> QED BY <1>1, <1>2, <1>4, <2>1, OthersStay
<1>6. CASE ThreadTooEarly
  <2>1. Run(Main) /\ pc[Main] # "spawn"
    BY <1>3, <1>6 DEF ThreadTooEarly, vars
  <2> QED BY <1>1, <1>2, <1>4, <2>1, OthersStay
<1>7. UNCHANGED vars \/ Serve \/ ThreadTooEarly
  BY DEF ProcessNext, Startup, HeapInitialize, SetDone, LookupMalloc, LookupServed,
         Initialize, LibcStart, LibraryCall, ThreadStep, ThreadCall, processVars
<1> QED BY <1>3, <1>5, <1>6, <1>7 DEF vars

\* Only the set-up of the thread table sets the start of the area.
LEMMA AreaChange == [ProcessNext]_processVars => LibcStart \/ UNCHANGED stack
BY DEF ProcessNext, Startup, HeapInitialize, SetDone, LookupMalloc, LookupServed, Serve,
       Initialize, ThreadTooEarly, LibraryCall, ThreadStep, ThreadCall, processVars

\* Every step keeps the stack invariant.
LEMMA StackStep == EarlyJoin = FALSE /\ StackInv /\ [ProcessNext]_processVars => StackInv'
<1> SUFFICES ASSUME EarlyJoin = FALSE, StackInv, [ProcessNext]_processVars PROVE StackInv'
  OBVIOUS
<1>1. [Next]_vars
  BY StepOfXThread
<1>2. IInv /\ IInv'
  BY <1>1, NextIInv DEF StackInv
<1>3. RunningAllotted'
  BY <1>1, <1>2, AllottedStep DEF StackInv
<1>4. LibcStart \/ UNCHANGED stack
  BY AreaChange
<1>5. CASE LibcStart
  <2>1. globalStackAddr' \in Areas /\ globalStackAddr' # 0 /\ protected' = GuardPages(globalStackAddr')
    BY <1>5, AreaNotNull DEF LibcStart
  <2>2. Protected' /\ OnlyMainAtFirst'
    BY <2>1 DEF Protected, OnlyMainAtFirst, GuardPages, GuardsOf
  <2> QED BY <1>2, <1>3, <2>1, <2>2 DEF StackInv
<1>6. CASE UNCHANGED stack
  <2>1. globalStackAddr' = globalStackAddr /\ protected' = protected
    BY <1>6 DEF stack
  <2>2. Protected'
    BY <2>1 DEF StackInv, Protected, GuardPages, GuardsOf
  <2>3. OnlyMainAtFirst'
    <3>1. ASSUME globalStackAddr = 0 PROVE Running' \subseteq Running
      BY <1>1, <1>2, <3>1, WhoRuns, NoSpawnAtFirst DEF IInv
    <3> QED BY <2>1, <3>1 DEF StackInv, OnlyMainAtFirst
  <2> QED BY <1>2, <1>3, <2>1, <2>2, <2>3 DEF StackInv
<1> QED BY <1>4, <1>5, <1>6

\* What holds of the threads' stacks in every state.
THEOREM StackInvariance == EarlyJoin = FALSE /\ ProcessSpec => []StackInv
<1> SUFFICES ASSUME EarlyJoin = FALSE PROVE ProcessSpec => []StackInv
  OBVIOUS
<1>1. ProcessInit => StackInv
  BY StackInit
<1>2. StackInv /\ [ProcessNext]_processVars => StackInv'
  BY StackStep
<1> QED BY <1>1, <1>2, PTL DEF ProcessSpec

-----------------------------------------------------------------------------
(***************************************************************************)
(* Addresses on stacks                                                     *)
(***************************************************************************)

\* Multiples of a stack size are at least that size apart.
LEMMA Multiples ==
  ASSUME NEW S \in Nat, NEW i \in Nat, NEW j \in Nat, i < j
  PROVE  i * S \in Nat /\ j * S \in Nat /\ i * S + S <= j * S
<1>1. PICK k \in Nat : j = i + 1 + k
  <2>1. j - i - 1 \in Nat /\ j = i + 1 + (j - i - 1)
    OBVIOUS
  <2> QED BY <2>1
<1>2. k * S >= 0 /\ i * S >= 0
  OBVIOUS
<1>3. j * S = i * S + S + k * S
  BY <1>1
<1> QED BY <1>2, <1>3

\* Which of the stacks from b on an address is on.
LEMMA Quotient ==
  ASSUME NEW S \in Nat \ {0}, NEW a \in Int, NEW b \in Int, NEW i \in Int,
         b + i * S <= a, a < b + i * S + S
  PROVE  (a - b) \div S = i
OBVIOUS

\* An address below the area has no positive index.
LEMMA QuotientBelow ==
  ASSUME NEW S \in Nat \ {0}, NEW a \in Int, NEW b \in Int, a < b
  PROVE  (a - b) \div S <= 0
OBVIOUS

\* An address behind the start of a stack has an index no lower than that of the stack.
LEMMA QuotientAbove ==
  ASSUME NEW S \in Nat \ {0}, NEW a \in Int, NEW b \in Int, NEW i \in Int, b + i * S <= a
  PROVE  (a - b) \div S >= i
OBVIOUS

\* A member of a set is not in one disjoint from it.
LEMMA Disjoint ==
  ASSUME NEW S, NEW T, S \cap T = {}, NEW x \in S
  PROVE  x \notin T
OBVIOUS

\* The addresses of the stack area.
AreaEnd == globalStackAddr + MaxAlive * StackSize

\* Where the stack of an index lies.
LEMMA StackPlace ==
  ASSUME globalStackAddr \in Nat, NEW i \in Indexes
  PROVE  /\ StackStart(i) \in Nat
         /\ globalStackAddr <= StackStart(i)
         /\ StackStart(i) + StackSize <= AreaEnd
         /\ \A j \in Indexes : i < j => StackStart(i) + StackSize <= StackStart(j)
<1>1. i \in Nat /\ i < MaxAlive
  BY Sizes DEF Indexes
<1>2. i * StackSize \in Nat /\ i * StackSize + StackSize <= MaxAlive * StackSize
  BY <1>1, Sizes, Multiples
<1>3. ASSUME NEW j \in Indexes, i < j PROVE StackStart(i) + StackSize <= StackStart(j)
  <2>1. j \in Nat
    BY DEF Indexes
  <2>2. j * StackSize \in Nat /\ i * StackSize + StackSize <= j * StackSize
    BY <1>1, <1>3, <2>1, Sizes, Multiples
  <2> QED BY <1>2, <2>2, Sizes DEF StackStart
<1> QED BY <1>2, <1>3, Sizes DEF StackStart, AreaEnd

\* getThreadIndex: what an address on a stack of the area gives.
LEMMA IndexOnStack ==
  ASSUME globalStackAddr \in Nat, NEW i \in Indexes, NEW a \in UsableStack(i)
  PROVE  GetThreadIndex(a) = i
<1>1. i \in Nat /\ i < MaxAlive
  BY Sizes DEF Indexes
<1>2. i * StackSize \in Nat
  BY <1>1, Sizes, Multiples
<1>3. a \in Int /\ StackStart(i) <= a /\ a < StackStart(i) + StackSize
  BY <1>2, Sizes DEF UsableStack, StackStart
<1>4. (a - globalStackAddr) \div StackSize = i
  BY <1>1, <1>3, Sizes, Quotient DEF StackStart
<1>5. (IF i >= MaxAlive \/ i <= 0 THEN 0 ELSE i) = i
  BY <1>1, Sizes
<1> QED BY <1>4, <1>5 DEF GetThreadIndex

\* getThreadIndex: what an address outside of the area gives.
LEMMA IndexElsewhere ==
  ASSUME globalStackAddr \in Nat, NEW a \in Nat, a < globalStackAddr \/ AreaEnd <= a
  PROVE  GetThreadIndex(a) = 0
<1>1. CASE a < globalStackAddr
  <2>1. (a - globalStackAddr) \div StackSize <= 0
    BY <1>1, Sizes, QuotientBelow
  <2> QED BY <2>1 DEF GetThreadIndex
<1>2. CASE AreaEnd <= a
  <2>1. (a - globalStackAddr) \div StackSize >= MaxAlive
    BY <1>2, Sizes, QuotientAbove DEF AreaEnd
  <2> QED BY <2>1 DEF GetThreadIndex
<1> QED BY <1>1, <1>2

\* The stack of the initial thread is outside of the area, before and after
\* there is one.
LEMMA MainOutside ==
  ASSUME globalStackAddr \in Areas \cup {0}, NEW a \in MainStack
  PROVE  /\ globalStackAddr \in Nat /\ a \in Nat
         /\ a < globalStackAddr \/ AreaEnd <= a
<1>1. /\ Areas \subseteq Nat \ (0 .. MaxAlive * StackSize - 1)
      /\ MainStack \subseteq Nat \ (0 .. MaxAlive * StackSize - 1)
      /\ \A area \in Areas : MainStack \cap (area .. area + MaxAlive * StackSize - 1) = {}
  BY StackConstants, Zenon
<1>2. globalStackAddr \in Nat /\ a \in Nat /\ a \notin 0 .. MaxAlive * StackSize - 1
  BY <1>1
<1>3. CASE globalStackAddr = 0
  BY <1>2, <1>3, Sizes DEF AreaEnd
<1>4. CASE globalStackAddr \in Areas
  <2>1. a \notin globalStackAddr .. globalStackAddr + MaxAlive * StackSize - 1
    <3>1. ASSUME NEW T, MainStack \cap T = {} PROVE a \notin T
      BY <3>1, Disjoint
    <3> QED BY <1>1, <1>4, <3>1, Zenon
  <2> QED BY <1>2, <2>1, Sizes DEF AreaEnd
<1> QED BY <1>2, <1>3, <1>4

\* The start of an area is a number.
LEMMA AreaNat == StackInv => globalStackAddr \in Nat
<1>1. Areas \subseteq Nat
  BY StackConstants, Zenon
<1> QED BY <1>1 DEF StackInv

\* getThreadIndex: it finds the index of the thread, whatever the address.
IndexFound ==
  \A t \in Running : \A a \in StackOf(t) : GetThreadIndex(a) = index[t]

\* The index computed from an address of the stack of a thread is the one it was given.
LEMMA IndexIsFound == StackInv => IndexFound
<1> SUFFICES ASSUME StackInv, NEW t \in Running, NEW a \in StackOf(t)
             PROVE  GetThreadIndex(a) = index[t]
  BY DEF IndexFound
<1>1. CASE t = Main
  <2>1. a \in MainStack /\ index[t] = 0
    BY <1>1 DEF StackOf, StackInv, IInv, MapExact
  <2>2. GetThreadIndex(a) = 0
    BY <2>1, MainOutside, IndexElsewhere DEF StackInv
  <2> QED BY <2>1, <2>2
<1>2. CASE t # Main
  <2>1. a \in UsableStack(index[t]) /\ index[t] \in Indexes
    BY <1>2 DEF StackOf, StackInv, RunningAllotted
  <2> QED BY <2>1, AreaNat, IndexOnStack
<1> QED BY <1>1, <1>2

\* getThreadIndex: two running threads get the same bags exactly if they are
\* the same thread.
THEOREM BagsOfOneThread == EarlyJoin = FALSE /\ ProcessSpec => []BagsExclusive
<1>1. StackInv => BagsExclusive
  <2> SUFFICES ASSUME StackInv,
                      NEW t \in Running, NEW u \in Running,
                      NEW a \in StackOf(t), NEW b \in StackOf(u)
               PROVE  GetThreadIndex(a) = GetThreadIndex(b) <=> t = u
    BY DEF BagsExclusive
  <2>1. GetThreadIndex(a) = index[t] /\ GetThreadIndex(b) = index[u]
    BY IndexIsFound DEF IndexFound
  <2>2. t \in Owners /\ u \in Owners /\ ExclusiveIndex
    BY DEF Running, Owners, StackInv, IInv
  <2> QED BY <2>1, <2>2 DEF ExclusiveIndex
<1> QED BY <1>1, StackInvariance, PTL

\* getThreadIndex: a thread keeps its bags as long as it runs.
THEOREM BagsKept == EarlyJoin = FALSE /\ ProcessSpec => IndexStable
<1>1. StackInv /\ IndexFound /\ IndexFound' /\ [ProcessNext]_processVars =>
        \A t \in Running \cap Running' : \A a \in StackOf(t) :
          GetThreadIndex(a)' = GetThreadIndex(a)
  <2> SUFFICES ASSUME StackInv, IndexFound, IndexFound', [ProcessNext]_processVars,
                      NEW t \in Running, t \in Running', NEW a \in StackOf(t)
               PROVE  GetThreadIndex(a)' = GetThreadIndex(a)
    OBVIOUS
  <2>1. index'[t] = index[t]
    BY StepOfXThread, IndexKept DEF StackInv, IInv
  <2>2. a \in StackOf(t)'
    <3>1. CASE t = Main
      BY <3>1 DEF StackOf
    <3>2. CASE t # Main
      <4>1. globalStackAddr' = globalStackAddr
        BY <3>2, AreaChange DEF StackInv, OnlyMainAtFirst, LibcStart, Loading, stack
      <4> QED BY <2>1, <3>2, <4>1 DEF StackOf, UsableStack, StackStart
    <3> QED BY <3>1, <3>2
  <2>3. GetThreadIndex(a) = index[t]
    BY DEF IndexFound
  <2>4. GetThreadIndex(a)' = index'[t]
    BY <2>2 DEF IndexFound
  <2> QED BY <2>1, <2>3, <2>4
<1> QED BY <1>1, IndexIsFound, StackInvariance, PTL DEF IndexStable, ProcessSpec

\* The protected pages are in the area, at the ends of stacks.
LEMMA GuardPlace ==
  ASSUME StackInv
  PROVE  /\ globalStackAddr = 0 => protected = {}
         /\ globalStackAddr # 0 =>
              \A g : g \in protected <=>
                \E i \in Indexes \ {0} : g \in GuardsOf(StackStart(i))
<1>1. CASE globalStackAddr = 0
  BY <1>1 DEF StackInv, Protected
<1>2. CASE globalStackAddr # 0
  <2>1. protected = GuardPages(globalStackAddr)
    BY <1>2 DEF StackInv, Protected
  <2>2. Indexes \ {0} = 1 .. MaxAlive - 1
    BY Sizes DEF Indexes
  <2>3. protected = UNION {GuardsOf(StackStart(i)) : i \in Indexes \ {0}}
    BY <2>1, <2>2, Zenon DEF GuardPages, StackStart
  <2> QED BY <1>2, <2>3
<1> QED BY <1>1, <1>2

\* No page of the stack of a running thread is protected.
LEMMA StackUsable ==
  ASSUME StackInv, NEW t \in Running, NEW a \in StackOf(t)
  PROVE  a \notin protected
<1> SUFFICES ASSUME a \in protected PROVE FALSE
  OBVIOUS
<1>1. globalStackAddr # 0 /\ globalStackAddr \in Nat
  BY GuardPlace, AreaNat
<1>2. PICK i \in Indexes \ {0} : a \in GuardsOf(StackStart(i))
  BY <1>1, GuardPlace
<1>3. /\ StackStart(i) \in Nat
      /\ globalStackAddr <= StackStart(i)
      /\ StackStart(i) + StackSize <= AreaEnd
  BY <1>1, StackPlace
<1>4. a \in Nat /\ StackStart(i) <= a /\ a < StackStart(i) + StackSize
  BY <1>2, <1>3, Sizes DEF GuardsOf
<1>5. CASE t = Main
  <2>1. a < globalStackAddr \/ AreaEnd <= a
    BY <1>5, MainOutside DEF StackOf, StackInv
  <2> QED BY <1>1, <1>3, <1>4, <2>1, Sizes DEF AreaEnd
<1>6. CASE t # Main
  <2>1. PICK j \in Indexes : a \in UsableStack(j)
    BY <1>6 DEF StackOf, StackInv, RunningAllotted
  <2>2. StackStart(j) \in Nat /\ StackStart(j) + GuardSize <= a /\ a < StackStart(j) + StackSize - GuardSize
    BY <1>1, <2>1, StackPlace, Sizes DEF UsableStack
  <2>3. CASE i = j
    BY <1>2, <2>2, <2>3, Sizes DEF GuardsOf
  <2>4. CASE i < j
    <3>1. StackStart(i) + StackSize <= StackStart(j)
      BY <1>1, <2>4, StackPlace
    <3> QED BY <1>3, <1>4, <2>2, <3>1, Sizes
  <2>5. CASE j < i
    <3>1. StackStart(j) + StackSize <= StackStart(i)
      BY <1>1, <2>5, StackPlace
    <3> QED BY <1>3, <1>4, <2>2, <3>1, Sizes
  <2>6. i \in Int /\ j \in Int
    BY DEF Indexes
  <2> QED BY <2>3, <2>4, <2>5, <2>6
<1> QED BY <1>5, <1>6

\* An address on a stack of the area, and the pages protected around it.
LEMMA StackAndGuards ==
  ASSUME StackInv, globalStackAddr # 0, NEW i \in Indexes, NEW a \in UsableStack(i)
  PROVE  /\ StackStart(i) < a /\ a < StackStart(i) + StackSize - 1
         /\ globalStackAddr < a /\ a < AreaEnd
         /\ i # 0 => /\ StackStart(i) \in protected
                     /\ StackStart(i) + StackSize - 1 \in protected
<1>1. /\ StackStart(i) \in Nat
      /\ globalStackAddr <= StackStart(i)
      /\ StackStart(i) + StackSize <= AreaEnd
      /\ globalStackAddr \in Nat
  BY AreaNat, StackPlace
<1>2. StackStart(i) < a /\ a < StackStart(i) + StackSize - 1 /\ a \in Nat
  BY <1>1, Sizes DEF UsableStack
<1>3. globalStackAddr < a /\ a < AreaEnd
  BY <1>1, <1>2, Sizes DEF AreaEnd
<1>4. StackStart(i) \in GuardsOf(StackStart(i)) /\ StackStart(i) + StackSize - 1 \in GuardsOf(StackStart(i))
  BY <1>1, Sizes DEF GuardsOf
<1> QED BY <1>2, <1>3, <1>4, GuardPlace

\* freeguard_libc_start_main / thread_create: there is a protected page between
\* the stacks of any two running threads.
THEOREM StacksSeparated == EarlyJoin = FALSE /\ ProcessSpec => []StacksApart
<1>1. StackInv => StacksApart
  <2> SUFFICES ASSUME StackInv,
                      NEW t \in Running, NEW u \in Running,
                      NEW a \in StackOf(t), NEW b \in StackOf(u)
               PROVE  /\ a \notin protected
                      /\ t # u => a # b /\ (a < b => \E g \in protected : a < g /\ g < b)
    BY DEF StacksApart
  <2>1. a \notin protected
    BY StackUsable
  <2> SUFFICES ASSUME t # u
               PROVE  a # b /\ (a < b => \E g \in protected : a < g /\ g < b)
    BY <2>1
  <2>2. index[t] # index[u]
    BY DEF Running, Owners, StackInv, IInv, ExclusiveIndex
  <2>3. a # b
    BY <2>2, IndexIsFound DEF IndexFound
  <2>4. ASSUME a < b PROVE \E g \in protected : a < g /\ g < b
    <3>1. globalStackAddr # 0 /\ globalStackAddr \in Nat
      BY AreaNat DEF StackInv, OnlyMainAtFirst
    <3>2. index[t] \in Indexes /\ index[u] \in Indexes
      BY DEF StackInv, RunningAllotted
    <3>3. CASE t # Main /\ u # Main
      <4>1. PICK i \in Indexes, j \in Indexes : a \in UsableStack(i) /\ b \in UsableStack(j) /\ i # j
        BY <2>2, <3>2, <3>3 DEF StackOf
      <4>2. /\ StackStart(i) \in Nat /\ StackStart(j) \in Nat
            /\ i < j => StackStart(i) + StackSize <= StackStart(j)
            /\ j < i => StackStart(j) + StackSize <= StackStart(i)
        BY <3>1, <4>1, StackPlace
      <4>3. /\ StackStart(i) < a /\ a < StackStart(i) + StackSize - 1
            /\ StackStart(j) < b /\ b < StackStart(j) + StackSize - 1
        BY <3>1, <4>1, StackAndGuards
      <4>4. a \in Nat /\ b \in Nat
        BY <4>1, <4>2, Sizes DEF UsableStack
      <4>5. i < j
        BY <2>4, <4>1, <4>2, <4>3, <4>4, Sizes DEF Indexes
      <4>6. j # 0 /\ StackStart(j) \in protected
        BY <3>1, <4>1, <4>5, StackAndGuards DEF Indexes
      <4>7. a < StackStart(j)
        BY <4>2, <4>3, <4>4, <4>5, Sizes
      <4> QED BY <4>3, <4>6, <4>7
    <3>4. CASE t = Main
      <4>1. PICK j \in Indexes : b \in UsableStack(j) /\ j # 0
        BY <2>2, <3>2, <3>4 DEF StackOf, StackInv, IInv, MapExact
      <4>2. a \in Nat /\ (a < globalStackAddr \/ AreaEnd <= a)
        BY <3>4, MainOutside DEF StackOf, StackInv
      <4>3. /\ StackStart(j) \in Nat /\ globalStackAddr <= StackStart(j)
            /\ StackStart(j) < b /\ b < AreaEnd /\ StackStart(j) \in protected
        BY <3>1, <4>1, StackPlace, StackAndGuards
      <4>4. b \in Nat /\ AreaEnd \in Nat
        BY <3>1, <4>1, <4>3, Sizes DEF UsableStack, AreaEnd
      <4>5. a < StackStart(j)
        BY <2>4, <3>1, <4>2, <4>3, <4>4
      <4> QED BY <4>3, <4>5
    <3>5. CASE u = Main
      <4>1. PICK i \in Indexes : a \in UsableStack(i) /\ i # 0
        BY <2>2, <3>2, <3>5 DEF StackOf, StackInv, IInv, MapExact
      <4>2. b \in Nat /\ (b < globalStackAddr \/ AreaEnd <= b)
        BY <3>5, MainOutside DEF StackOf, StackInv
      <4>3. /\ StackStart(i) \in Nat /\ StackStart(i) + StackSize <= AreaEnd
            /\ globalStackAddr < a /\ a < StackStart(i) + StackSize - 1
            /\ StackStart(i) + StackSize - 1 \in protected
        BY <3>1, <4>1, StackPlace, StackAndGuards
      <4>4. a \in Nat /\ AreaEnd \in Nat
        BY <3>1, <4>1, <4>3, Sizes DEF UsableStack, AreaEnd
      <4>5. StackStart(i) + StackSize - 1 < b
        BY <2>4, <3>1, <4>2, <4>3, <4>4, Sizes
      <4> QED BY <4>3, <4>5
    <3> QED BY <3>3, <3>4, <3>5
  <2> QED BY <2>3, <2>4
<1> QED BY <1>1, StackInvariance, PTL

-----------------------------------------------------------------------------
(***************************************************************************)
(* Types                                                                   *)
(***************************************************************************)

FlagsOK ==
  /\ constructed \in BOOLEAN
  /\ lookup \in {"before", "malloc", "over"}
  /\ failure \in {"no", "uninitialized", "unmapped stack"}

\* Every step keeps the flags in order.
LEMMA FlagsStep == FlagsOK /\ [ProcessNext]_processVars => FlagsOK'
<1> SUFFICES ASSUME FlagsOK, [ProcessNext]_processVars PROVE FlagsOK'
  OBVIOUS
<1>1. constructed' \in BOOLEAN
  BY DEF ProcessNext, Startup, HeapInitialize, SetDone, LookupMalloc, LookupServed, Serve, LibcStart,
         Initialize, ThreadTooEarly, LibraryCall, ThreadStep, ThreadCall, processVars, boot, FlagsOK
<1>2. lookup' \in {lookup, "malloc", "over"}
  BY DEF ProcessNext, Startup, HeapInitialize, SetDone, LookupMalloc, LookupServed, Serve, LibcStart,
         Initialize, ThreadTooEarly, LibraryCall, ThreadStep, ThreadCall, processVars, boot
<1>3. failure' \in {failure, "no", "uninitialized", "unmapped stack"}
  BY DEF ProcessNext, Startup, HeapInitialize, SetDone, LookupMalloc, LookupServed, Serve, LibcStart,
         Initialize, ThreadTooEarly, LibraryCall, ThreadStep, ThreadCall, processVars, boot, Use
<1> QED BY <1>1, <1>2, <1>3 DEF FlagsOK

\* The variables of a process keep their types.
THEOREM ProcessTypes == EarlyJoin = FALSE /\ ProcessSpec => []ProcessTypeOK
<1>1. ProcessInit => FlagsOK
  BY DEF ProcessInit, FlagsOK
<1>2. StackInv => protected \subseteq Nat
  <2> SUFFICES ASSUME StackInv, NEW g \in protected PROVE g \in Nat
    OBVIOUS
  <2>1. globalStackAddr # 0 /\ globalStackAddr \in Nat
    BY GuardPlace, AreaNat
  <2>2. PICK i \in Indexes : g \in GuardsOf(StackStart(i))
    BY <2>1, GuardPlace
  <2>3. StackStart(i) \in Nat
    BY <2>1, StackPlace
  <2> QED BY <2>2, <2>3, Sizes DEF GuardsOf
<1>3. BootInv => /\ heapInitStatus \in {"not", "working", "done"}
                 /\ call \in Calls \cup {NULL}
                 /\ ready \subseteq Components
  BY DEF BootInv, Phases, Phase, Components
<1>4. BootInv => init \in 0 .. Len(InitOrder)
  <2> SUFFICES ASSUME BootInv PROVE init \in 0 .. 5
    BY InitOrderSteps
  <2>1. init = 0 \/ init = 1 \/ init = 2 \/ init = 3 \/ init = 4 \/ init = 5
    BY DEF BootInv, Phases, Phase
  <2> QED BY <2>1
<1>5. StackInv /\ BootInv /\ FlagsOK => ProcessTypeOK
  BY <1>2, <1>3, <1>4 DEF ProcessTypeOK, FlagsOK, StackInv, IInv
<1> QED BY <1>1, <1>5, BootInit, BootStep, FlagsStep, StackInvariance, PTL DEF ProcessSpec
=============================================================================
