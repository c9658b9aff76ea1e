------------------------------- MODULE Process -------------------------------
(***************************************************************************)
(* A process from its loading on: the order in which heapinitialize        *)
(* (libfreeguard.cpp) makes the components usable, calls that come before  *)
(* or in the middle of it, the area of the customized stacks that          *)
(* __libc_start_main sets up, and then the threads of XThread, which run   *)
(* on those stacks and find their index by the address of a local variable *)
(* (xdefines.hh).                                                          *)
(*                                                                         *)
(* Until main starts there is one thread: pthread_create needs the stack   *)
(* area.  Addresses are numbers of pages.                                  *)
(***************************************************************************)
EXTENDS XThread, Sequences

CONSTANTS
  StackSize,     \* STACK_SIZE
  GuardSize,     \* GUARD_PAGE_SIZE
  MainStack,     \* the stack of the initial thread
  Areas          \* where mmap may put the stack area

\* The area is clear of the stack of the initial thread, and neither lies at
\* an address below the size of the area, where nothing is ever mapped.
ASSUME StackConstants ==
  /\ NULL \notin {"constructor", "malloc", "malloc large", "free", "pthread_create"}
  /\ StackSize \in Nat /\ GuardSize \in Nat \ {0} /\ 2 * GuardSize < StackSize
  /\ Areas \subseteq Nat \ (0 .. MaxAlive * StackSize - 1)
  /\ MainStack \subseteq Nat \ (0 .. MaxAlive * StackSize - 1)
  /\ \A area \in Areas :
       MainStack \cap (area .. area + MaxAlive * StackSize - 1) = {}

VARIABLES
  heapInitStatus,  \* heapInitStatus
  constructed,     \* has the constructor of the library been called?
  call,            \* the call of the library in progress before main, or NULL
  init,            \* the step of heapinitialize it has reached, or 0
  lookup,          \* how far Real::initializer has got
  ready,           \* the components that are initialized
  globalStackAddr, \* globalStackAddr: 0 before __libc_start_main
  protected,       \* pages mprotected in the stack area
  failure          \* "no", or how the process failed

boot  == <<heapInitStatus, constructed, call, init, lookup, ready>>
stack == <<globalStackAddr, protected>>
processVars == <<vars, boot, stack, failure>>

Components == {"small heap", "real", "threads", "big heap"}

\* Calls before main, by the constructors of other libraries and of this one.
Calls == {"constructor", "malloc", "malloc large", "free", "pthread_create"}

-----------------------------------------------------------------------------
(***************************************************************************)
(* Stacks and the index of a thread                                        *)
(***************************************************************************)

StackStart(i) == globalStackAddr + i * StackSize

\* pthread_attr_setstack in thread_create.
UsableStack(i) == StackStart(i) + GuardSize .. StackStart(i) + StackSize - GuardSize - 1

StackOf(t) == IF t = Main THEN MainStack ELSE UsableStack(index[t])

\* Mutant: the index behind the last one is let through.
GetThreadIndexLate(a) ==
  LET i == (a - globalStackAddr) \div StackSize
  IN IF i > MaxAlive \/ i <= 0 THEN 0 ELSE i

\* Mutant: the stacks are taken to be aligned.
GetThreadIndexAligned(a) ==
  LET i == a \div StackSize - globalStackAddr \div StackSize
  IN IF i >= MaxAlive \/ i <= 0 THEN 0 ELSE i

\* getThreadIndex: the index of a thread with a local variable at address a.
GetThreadIndex(a) ==
  LET i == (a - globalStackAddr) \div StackSize
  IN IF i >= MaxAlive \/ i <= 0 THEN 0 ELSE i

\* Mutant: only the end of a stack is protected.
GuardPagesAtEnd(area) ==
  UNION {area + i * StackSize - GuardSize .. area + i * StackSize - 1 :
           i \in 2 .. MaxAlive}

\* The first and the last pages of a stack.
GuardsOf(start) ==
  (start .. start + GuardSize - 1)
    \cup (start + StackSize - GuardSize .. start + StackSize - 1)

\* They are protected of every stack but the first.
GuardPages(area) ==
  UNION {GuardsOf(area + i * StackSize) : i \in 1 .. MaxAlive - 1}

-----------------------------------------------------------------------------
ProcessInit ==
  /\ Init
  /\ heapInitStatus = "not"
  /\ constructed = FALSE
  /\ call = NULL
  /\ init = 0
  /\ lookup = "before"
  /\ ready = {}
  /\ globalStackAddr = 0
  /\ protected = {}
  /\ failure = "no"

Loading == globalStackAddr = 0 /\ failure = "no" /\ halted = "no"

(***************************************************************************)
(* heapinitialize                                                          *)
(***************************************************************************)

\* Mutant: the thread table before the functions its hash map is built with.
InitOrderThreadsFirst ==
  <<"small heap", "status", "threads", "real", "big heap">>

\* Mutant: the status is set when everything is initialized.
InitOrderStatusLast ==
  <<"small heap", "real", "threads", "big heap", "status">>

InitOrder == <<"small heap", "status", "real", "threads", "big heap">>

\* The hash maps of the last two allocate with Real::malloc.
Requires(c) == IF c \in {"threads", "big heap"} THEN {"real"} ELSE {}

\* What a call of the library reaches.
Reaches(c) ==
  CASE c = "malloc"         -> {"small heap"}
    [] c = "malloc large"   -> {"big heap"}
    [] c = "free"           -> {"small heap", "big heap"}
    [] c = "pthread_create" -> {"threads"}
    [] c = "constructor"    -> {}

\* A component in "needed" is used; one that is not initialized has no defined
\* behaviour.
Use(needed) == failure' = IF needed \subseteq ready THEN "no" ELSE "uninitialized"

\* A constructor calls the library.
LibraryCall(c) ==
  /\ Loading
  /\ call = NULL
  /\ pc[Main] = "idle"
  /\ c = "constructor" => ~constructed
  /\ call' = c
  /\ constructed' = (constructed \/ c = "constructor")
  /\ UNCHANGED <<vars, heapInitStatus, init, lookup, ready, stack, failure>>

\* heapinitialize is called for the first time.
HeapInitialize ==
  /\ Loading
  /\ call \notin {NULL, "free"}
  /\ heapInitStatus = "not"
  /\ heapInitStatus' = "working"
  /\ init' = 1
  /\ UNCHANGED <<vars, constructed, call, lookup, ready, stack, failure>>

NextInit == init' = IF init = Len(InitOrder) THEN 0 ELSE init + 1

At(c) == Loading /\ init # 0 /\ InitOrder[init] = c

\* BibopHeap::initialize, Real::initializer after its lookups,
\* xthread::initialize, initBigHeap.
Initialize(c) ==
  /\ At(c)
  /\ c = "real" => lookup = "over"
  /\ Use(Requires(c))
  /\ ready' = ready \cup {c}
  /\ NextInit
  /\ UNCHANGED <<vars, heapInitStatus, constructed, call, lookup, stack>>

SetDone ==
  /\ At("status")
  /\ heapInitStatus' = "done"
  /\ NextInit
  /\ UNCHANGED <<vars, constructed, call, lookup, ready, stack, failure>>

\* dlopen calls malloc and free, for small objects; one malloc stands for
\* them ...
LookupMalloc ==
  /\ At("real")
  /\ lookup = "before"
  /\ lookup' = "malloc"
  /\ UNCHANGED <<vars, heapInitStatus, constructed, call, init, ready, stack, failure>>

\* ... which is served when the status is done.  Otherwise that call of
\* heapinitialize waits, for ever, for the one it is part of.
LookupServed ==
  /\ At("real")
  /\ lookup = "malloc"
  /\ heapInitStatus = "done"
  /\ lookup' = "over"
  /\ Use(Reaches("malloc"))
  /\ UNCHANGED <<vars, heapInitStatus, constructed, call, init, ready, stack>>

\* The body of the call.  A free before the heap is initialized does nothing.
Serve ==
  /\ Loading
  /\ call # NULL
  /\ init = 0
  /\ call' = NULL
  /\ \/ /\ call = "free"
        /\ heapInitStatus # "done"
        /\ UNCHANGED <<vars, failure>>
     \/ /\ heapInitStatus = "done"
        /\ Use(Reaches(call))
        /\ IF call = "pthread_create" THEN CreateCall(Main) ELSE UNCHANGED vars
  /\ UNCHANGED <<heapInitStatus, constructed, init, lookup, ready, stack>>

\* thread_create before there is a stack area takes an index and then makes
\* the C library put the descriptor of the thread where nothing is mapped.
ThreadTooEarly ==
  /\ Loading
  /\ IF pc[Main] = "spawn" THEN failure' = "unmapped stack" /\ UNCHANGED vars
                           ELSE Run(Main) /\ UNCHANGED failure
  /\ UNCHANGED <<boot, stack>>

\* freeguard_libc_start_main, when the constructors of all libraries have run.
LibcStart ==
  /\ Loading
  /\ constructed
  /\ call = NULL
  /\ pc[Main] = "idle"
  /\ globalStackAddr' \in Areas
  /\ protected' = GuardPages(globalStackAddr')
  /\ UNCHANGED <<vars, boot, failure>>

Startup ==
  \/ HeapInitialize \/ SetDone \/ LookupMalloc \/ LookupServed \/ Serve
  \/ \E c \in Components : Initialize(c)
  \/ ThreadTooEarly

\* From here on there are the threads of XThread.
ThreadStep(t) ==
  /\ globalStackAddr # 0
  /\ failure = "no"
  /\ halted = "no"
  /\ Run(t)
  /\ UNCHANGED <<boot, stack, failure>>

ThreadCall(t) ==
  /\ globalStackAddr # 0
  /\ failure = "no"
  /\ halted = "no"
  /\ Call(t)
  /\ UNCHANGED <<boot, stack, failure>>

ProcessNext ==
  \/ Startup
  \/ LibcStart
  \/ \E c \in Calls : LibraryCall(c)
  \/ \E t \in Threads : ThreadStep(t) \/ ThreadCall(t)

ProcessSpec == ProcessInit /\ [][ProcessNext]_processVars

\* The operating system keeps running every thread that is inside a call.
Fairness ==
  /\ WF_processVars(Startup)
  /\ \A t \in Threads : WF_processVars(ThreadStep(t))

FairSpec == ProcessSpec /\ Fairness

-----------------------------------------------------------------------------
(***************************************************************************)
(* Properties                                                              *)
(***************************************************************************)

\* The types of the variables, those of XThread among them.
ProcessTypeOK ==
  /\ TypeOK
  /\ heapInitStatus \in {"not", "working", "done"}
  /\ constructed \in BOOLEAN
  /\ call \in Calls \cup {NULL}
  /\ init \in 0 .. Len(InitOrder)
  /\ lookup \in {"before", "malloc", "over"}
  /\ ready \subseteq Components
  /\ globalStackAddr \in Areas \cup {0}
  /\ protected \subseteq Nat
  /\ failure \in {"no", "uninitialized", "unmapped stack"}

\* heapinitialize: whatever calls the library before main, and although the
\* status says done in the middle of the initialization, no call reaches a
\* component before it is initialized, and all are when main starts.
UsesInitialized ==
  /\ failure # "uninitialized"
  /\ globalStackAddr # 0 => heapInitStatus = "done" /\ ready = Components

\* heapinitialize: once begun it comes to its end; in particular the malloc of
\* its own dlopen does not wait for it.
StartupEnds == init # 0 ~> init = 0 /\ ready = Components

Running == {t \in Threads : status[t] = "running"}

\* getThreadIndex: two threads get the same index, and so the same bags, from
\* addresses on their stacks exactly if they are the same thread.
BagsExclusive ==
  \A t, u \in Running : \A a \in StackOf(t), b \in StackOf(u) :
    GetThreadIndex(a) = GetThreadIndex(b) <=> t = u

\* getThreadIndex: a thread keeps its bags as long as it runs; the initial one
\* when the stack area comes into being, too.
IndexStable ==
  [][\A t \in Running \cap Running' : \A a \in StackOf(t) :
       GetThreadIndex(a)' = GetThreadIndex(a)]_processVars

\* freeguard_libc_start_main / thread_create: between any two threads' stacks
\* there is a protected page, and in none.
StacksApart ==
  \A t, u \in Running : \A a \in StackOf(t), b \in StackOf(u) :
    /\ a \notin protected
    /\ t # u => a # b /\ (a < b => \E g \in protected : a < g /\ g < b)

\* thread_create / thread_join: a thread that holds the global lock gives it
\* back, unless the process ends.
GlobalLockReleased ==
  \A t \in Threads : globalLock = t ~> globalLock # t \/ halted # "no"
=============================================================================
