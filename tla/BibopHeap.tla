------------------------------ MODULE BibopHeap ------------------------------
(***************************************************************************)
(* The concurrent core of the small-object heap (bibopheap.hh): malloc and *)
(* free of one size class by several threads.                              *)
(*                                                                         *)
(* A bag of a thread holds BagSetSize "set items".  An item owns a list    *)
(* lock, a free list threaded through the shadow words of its objects, and *)
(* a bump pointer.  The objects of an item are numbered in the order the   *)
(* bump pointer meets them; module BumpPointer shows that the addresses,   *)
(* heaps and shadow offsets of the code realise this numbering.            *)
(*                                                                         *)
(* The word shadowObjectInfo::listentry.next of an object is both its link *)
(* in a free list and its allocation status (ALLOC_SENTINEL), and it is    *)
(* read without a lock.  The steps of a thread are therefore the code's    *)
(* shared accesses, one by one, and not whole calls.                       *)
(***************************************************************************)
EXTENDS Integers, Sequences, FiniteSets

CONSTANTS
  Threads,      \* the threads of the application
  Allocators,   \* those of them that call malloc; every one calls free
  ThreadIndex,  \* what getThreadIndex() returns in each thread
  BagSetSize,   \* BIBOP_BAG_SET_SIZE
  PageObjects,  \* objects the random guard page covers (1 for classes >= a page)
  NumMore,      \* NUM_MORE_CANARIES_TO_CHECK
  MaxObjects,   \* bound: objects an item may take from its bump pointer
  Overruns,     \* may the application write past the end of an object?
  NULL,         \* the null pointer, and the free state of a lock
  ALLOC         \* ALLOC_SENTINEL

Bags     == {ThreadIndex[t] : t \in Threads}
SetItems == 0 .. BagSetSize - 1
Items    == Bags \X SetItems
Objects  == Bags \X SetItems \X (0 .. MaxObjects - 1)

ASSUME ConstantsAssumption ==
  /\ Allocators \subseteq Threads
  /\ ThreadIndex \in [Threads -> Bags]
  /\ BagSetSize \in Nat \ {0}
  /\ PageObjects \in Nat \ {0}
  /\ NumMore \in Nat \ {0}
  /\ MaxObjects \in Nat \ {0}
  /\ Overruns \in BOOLEAN

ASSUME PointerAssumption ==
  /\ NULL \notin Objects
  /\ ALLOC \notin Objects
  /\ NULL # ALLOC
  /\ NULL \notin Threads

\* The item (bag of a thread, set item) an object belongs to, which
\* getShadowObjectInfo computes from the address.
ItemOf(o) == <<o[1], o[2]>>

VARIABLES
  next,      \* listentry.next of the shadow word of every object
  canary,    \* the last byte of every object: "unset", "intact" or "clobbered"
  head,      \* freelist.next of every item
  tail,      \* freelist.prev of every item
  listlock,  \* holder of the item's spin lock
  position,  \* bump pointer of every item, as the number of its next object
  guards,    \* objects covered by random guard pages
  live,      \* objects the application holds
  pc,        \* next shared access of every thread
  item,      \* numBagSetItem drawn by the malloc in progress
  useBump,   \* useBumpPointer drawn by the malloc in progress
  ptr,       \* the object the call in progress works on
  link,      \* replacement (removeDLLHead) or old_tail (insertDLLTail)
  off,       \* offset of the canary neighbour under inspection
  exited     \* "no", or the diagnostic the process ended with

shadow == <<next, canary>>
lists  == <<head, tail, listlock>>
bump   == <<position, guards>>
locals == <<item, useBump, ptr, link, off>>
vars   == <<next, canary, head, tail, listlock, position, guards, live,
            pc, item, useBump, ptr, link, off, exited>>

MallocSteps == {"lock", "list", "take", "bump", "incr", "canary", "sentinel"}
FreeSteps   == {"check", "own", "nshadow", "ncanary", "flock", "insert", "link"}
Steps       == {"idle"} \cup MallocSteps \cup FreeSteps

MyItem(t) == <<ThreadIndex[t], item[t]>>

\* isObjectFree(): every word but the sentinel counts as free.
IsObjectFree(o) == next[o] # ALLOC

\* Mutant: one neighbour too many is visited on both sides.
NextOffsetTooFar(d) ==
  IF d < 0 THEN (IF d >= -NumMore THEN d - 1 ELSE 1)
           ELSE (IF d <= NumMore THEN d + 1 ELSE 0)

\* The offsets canary checking visits: NumMore to the left, then NumMore to
\* the right; 0 stands for the end of the two loops.
NextOffset(d) ==
  IF d < 0 THEN (IF d > -NumMore THEN d - 1 ELSE 1)
           ELSE (IF d < NumMore THEN d + 1 ELSE 0)

NeighborIndex(t) == ptr[t][3] + off[t]
Neighbor(t)      == <<ptr[t][1], ptr[t][2], NeighborIndex(t)>>

Goto(t, step) == pc' = [pc EXCEPT ![t] = step]

\* The end of a call: its local variables go out of scope.
Leave(t) ==
  /\ Goto(t, "idle")
  /\ item' = [item EXCEPT ![t] = 0]
  /\ useBump' = [useBump EXCEPT ![t] = FALSE]
  /\ ptr' = [ptr EXCEPT ![t] = NULL]
  /\ link' = [link EXCEPT ![t] = NULL]
  /\ off' = [off EXCEPT ![t] = 0]

\* What initialize() leaves behind: fresh mapped memory is zero, so every
\* shadow word is NULL and no canary is set.
Init ==
  /\ next = [o \in Objects |-> NULL]
  /\ canary = [o \in Objects |-> "unset"]
  /\ head = [i \in Items |-> NULL]
  /\ tail = [i \in Items |-> NULL]
  /\ listlock = [i \in Items |-> NULL]
  /\ position = [i \in Items |-> 0]
  /\ guards = {}
  /\ live = {}
  /\ pc = [t \in Threads |-> "idle"]
  /\ item = [t \in Threads |-> 0]
  /\ useBump = [t \in Threads |-> FALSE]
  /\ ptr = [t \in Threads |-> NULL]
  /\ link = [t \in Threads |-> NULL]
  /\ off = [t \in Threads |-> 0]
  /\ exited = "no"

-----------------------------------------------------------------------------
(***************************************************************************)
(* allocateSmallObject                                                     *)
(***************************************************************************)

\* Entry: draw the set item and whether to bypass the free list.  One random
\* number decides both, (r & 31) = 0 implies (r & 3) = 0: only item 0 is ever
\* forced to the bump pointer.  The last conjunct is the bound MaxObjects.
MallocCall(t) ==
  /\ pc[t] = "idle"
  /\ t \in Allocators
  /\ \E s \in SetItems, b \in BOOLEAN :
       /\ b => s = 0 /\ BagSetSize > 1
       /\ \/ position[<<ThreadIndex[t], s>>] < MaxObjects
          \/ ~b /\ head[<<ThreadIndex[t], s>>] # NULL
       /\ item' = [item EXCEPT ![t] = s]
       /\ useBump' = [useBump EXCEPT ![t] = b]
  /\ Goto(t, "lock")
  /\ UNCHANGED <<shadow, lists, bump, live, ptr, link, off, exited>>

MallocLock(t) ==
  /\ pc[t] = "lock"
  /\ listlock[MyItem(t)] = NULL
  /\ listlock' = [listlock EXCEPT ![MyItem(t)] = t]
  /\ Goto(t, "list")
  /\ UNCHANGED <<shadow, head, tail, bump, live, locals, exited>>

\* FREELIST_REMOVE is removeDLLHead: first the reads of old_head and of its
\* replacement ...
RemoveRead(t) ==
  /\ pc[t] = "list"
  /\ head[MyItem(t)] # NULL
  /\ ~useBump[t]
  /\ ptr' = [ptr EXCEPT ![t] = head[MyItem(t)]]
  /\ link' = [link EXCEPT ![t] = next[head[MyItem(t)]]]
  /\ Goto(t, "take")
  /\ UNCHANGED <<shadow, lists, bump, live, item, useBump, off, exited>>

\* Mutant: removing the last node leaves prev pointing to it.
RemoveWriteKeepsTail(t) ==
  /\ pc[t] = "take"
  /\ head' = [head EXCEPT ![MyItem(t)] = link[t]]
  /\ listlock' = [listlock EXCEPT ![MyItem(t)] = NULL]
  /\ link' = [link EXCEPT ![t] = NULL]
  /\ Goto(t, "canary")
  /\ UNCHANGED <<shadow, tail, bump, live, item, useBump, ptr, off, exited>>

\* ... then the writes of the list header, and the unlock.
RemoveWrite(t) ==
  /\ pc[t] = "take"
  /\ head' = [head EXCEPT ![MyItem(t)] = link[t]]
  /\ tail' = [tail EXCEPT ![MyItem(t)] = IF link[t] = NULL THEN NULL ELSE @]
  /\ listlock' = [listlock EXCEPT ![MyItem(t)] = NULL]
  /\ link' = [link EXCEPT ![t] = NULL]
  /\ Goto(t, "canary")
  /\ UNCHANGED <<shadow, bump, live, item, useBump, ptr, off, exited>>

\* Mutant: the path that finds no free object keeps the lock.
MallocUnlockForgotten(t) ==
  /\ pc[t] = "list"
  /\ head[MyItem(t)] = NULL \/ useBump[t]
  /\ Goto(t, "bump")
  /\ UNCHANGED <<shadow, lists, bump, live, locals, exited>>

MallocUnlock(t) ==
  /\ pc[t] = "list"
  /\ head[MyItem(t)] = NULL \/ useBump[t]
  /\ listlock' = [listlock EXCEPT ![MyItem(t)] = NULL]
  /\ Goto(t, "bump")
  /\ UNCHANGED <<shadow, head, tail, bump, live, locals, exited>>

\* The bump path runs without the lock: ptr = *position ...
BumpRead(t) ==
  /\ pc[t] = "bump"
  /\ position[MyItem(t)] < MaxObjects
  /\ ptr' = [ptr EXCEPT ![t] =
               <<ThreadIndex[t], item[t], position[MyItem(t)]>>]
  /\ Goto(t, "incr")
  /\ UNCHANGED <<shadow, lists, bump, live, item, useBump, link, off, exited>>

\* Mutant: the bump pointer does not step over the guard page.
BumpIncrementIntoGuard(t) ==
  /\ pc[t] = "incr"
  /\ LET i == MyItem(t)
         p == position[i] + 1
     IN /\ position' = [position EXCEPT ![i] = p]
        /\ \/ UNCHANGED guards
           \/ /\ p % PageObjects = 0
              /\ guards' = guards \cup
                   {o \in Objects : ItemOf(o) = i /\ o[3] \in p .. p + PageObjects - 1}
  /\ Goto(t, "canary")
  /\ UNCHANGED <<shadow, lists, live, locals, exited>>

\* ... then incrementBumpPointer and, at a page boundary, tryRandomGuardPage,
\* which may turn the page ahead into a guard and step over it.
BumpIncrement(t) ==
  /\ pc[t] = "incr"
  /\ LET i == MyItem(t)
         p == position[i] + 1
     IN \/ /\ position' = [position EXCEPT ![i] = p]
           /\ UNCHANGED guards
        \/ /\ p % PageObjects = 0
           /\ position' = [position EXCEPT ![i] = p + PageObjects]
           /\ guards' = guards \cup
                {o \in Objects : ItemOf(o) = i /\ o[3] \in p .. p + PageObjects - 1}
  /\ Goto(t, "canary")
  /\ UNCHANGED <<shadow, lists, live, locals, exited>>

\* Mutant: the sentinel is written first, in place of the canary.
MallocSentinelFirst(t) ==
  /\ pc[t] = "canary"
  /\ next' = [next EXCEPT ![ptr[t]] = ALLOC]
  /\ Goto(t, "sentinel")
  /\ UNCHANGED <<canary, lists, bump, live, locals, exited>>

MallocCanary(t) ==
  /\ pc[t] = "canary"
  /\ canary' = [canary EXCEPT ![ptr[t]] = "intact"]
  /\ Goto(t, "sentinel")
  /\ UNCHANGED <<next, lists, bump, live, locals, exited>>

MallocReturn(t) ==
  /\ pc[t] = "sentinel"
  /\ next' = [next EXCEPT ![ptr[t]] = ALLOC]
  /\ live' = live \cup {ptr[t]}
  /\ Leave(t)
  /\ UNCHANGED <<canary, lists, bump, exited>>

-----------------------------------------------------------------------------
(***************************************************************************)
(* freeSmallObject, called with an object the application holds; the       *)
(* caller need not be the thread that allocated it.                        *)
(***************************************************************************)

FreeCall(t) ==
  /\ pc[t] = "idle"
  /\ \E o \in live :
       /\ ptr' = [ptr EXCEPT ![t] = o]
       /\ live' = live \ {o}
  /\ Goto(t, "check")
  /\ UNCHANGED <<shadow, lists, bump, item, useBump, link, off, exited>>

FreeCheckStatus(t) ==
  /\ pc[t] = "check"
  /\ IF IsObjectFree(ptr[t])
       THEN exited' = "double free" /\ UNCHANGED pc
       ELSE Goto(t, "own") /\ UNCHANGED exited
  /\ UNCHANGED <<shadow, lists, bump, live, locals>>

\* Mutant: only the neighbours' canaries are checked.
FreeSkipsOwnCanary(t) ==
  /\ pc[t] = "own"
  /\ off' = [off EXCEPT ![t] = -1]
  /\ Goto(t, "nshadow")
  /\ UNCHANGED <<shadow, lists, bump, live, item, useBump, ptr, link, exited>>

FreeCheckCanary(t) ==
  /\ pc[t] = "own"
  /\ IF canary[ptr[t]] # "intact"
       THEN exited' = "canary" /\ UNCHANGED <<pc, off>>
       ELSE /\ off' = [off EXCEPT ![t] = -1]
            /\ Goto(t, "nshadow")
            /\ UNCHANGED exited
  /\ UNCHANGED <<shadow, lists, bump, live, item, useBump, ptr, link>>

\* The cursor of the two neighbour loops, and the end of the second one.
Advance(t, d) ==
  /\ off' = [off EXCEPT ![t] = d]
  /\ Goto(t, IF d = 0 THEN "flock" ELSE "nshadow")

\* Mutant: the canary of a neighbour is inspected whether it is in use or not.
NeighborShadowIgnored(t) ==
  /\ pc[t] = "nshadow"
  /\ IF NeighborIndex(t) < 0
       THEN Advance(t, 1)
       ELSE IF NeighborIndex(t) >= MaxObjects
         THEN Advance(t, NextOffset(off[t]))
         ELSE Goto(t, "ncanary") /\ UNCHANGED off
  /\ UNCHANGED <<shadow, lists, bump, live, item, useBump, ptr, link, exited>>

\* getNextCanaryNeighbor and isObjectFree of the neighbour.  There is none to
\* the left of object 0; to the right, an object the bound leaves out is one
\* whose shadow word is still zero.
NeighborShadow(t) ==
  /\ pc[t] = "nshadow"
  /\ IF NeighborIndex(t) < 0
       THEN Advance(t, 1)
       ELSE IF NeighborIndex(t) >= MaxObjects
         THEN Advance(t, NextOffset(off[t]))
         ELSE IF IsObjectFree(Neighbor(t))
           THEN Advance(t, NextOffset(off[t]))
           ELSE Goto(t, "ncanary") /\ UNCHANGED off
  /\ UNCHANGED <<shadow, lists, bump, live, item, useBump, ptr, link, exited>>

NeighborCanary(t) ==
  /\ pc[t] = "ncanary"
  /\ IF canary[Neighbor(t)] # "intact"
       THEN exited' = "canary" /\ UNCHANGED <<pc, off>>
       ELSE Advance(t, NextOffset(off[t])) /\ UNCHANGED exited
  /\ UNCHANGED <<shadow, lists, bump, live, item, useBump, ptr, link>>

\* Mutant: free does not wait for the list lock.
FreeLockUnchecked(t) ==
  /\ pc[t] = "flock"
  /\ listlock' = [listlock EXCEPT ![ItemOf(ptr[t])] = t]
  /\ Goto(t, "insert")
  /\ UNCHANGED <<shadow, head, tail, bump, live, locals, exited>>

FreeLock(t) ==
  /\ pc[t] = "flock"
  /\ listlock[ItemOf(ptr[t])] = NULL
  /\ listlock' = [listlock EXCEPT ![ItemOf(ptr[t])] = t]
  /\ Goto(t, "insert")
  /\ UNCHANGED <<shadow, head, tail, bump, live, locals, exited>>

\* FREELIST_INSERT is insertDLLTail: read old_tail and clear the node ...
InsertRead(t) ==
  /\ pc[t] = "insert"
  /\ link' = [link EXCEPT ![t] = tail[ItemOf(ptr[t])]]
  /\ next' = [next EXCEPT ![ptr[t]] = NULL]
  /\ Goto(t, "link")
  /\ UNCHANGED <<canary, lists, bump, live, item, useBump, ptr, off, exited>>

\* Mutant: the node is linked in front (insertDLLHead).
InsertWriteAtHead(t) ==
  /\ pc[t] = "link"
  /\ LET i == ItemOf(ptr[t])
     IN /\ next' = [next EXCEPT ![ptr[t]] = head[i]]
        /\ head' = [head EXCEPT ![i] = ptr[t]]
        /\ tail' = [tail EXCEPT ![i] = IF @ = NULL THEN ptr[t] ELSE @]
        /\ listlock' = [listlock EXCEPT ![i] = NULL]
  /\ Leave(t)
  /\ UNCHANGED <<canary, bump, live, exited>>

\* ... then link it behind old_tail or as the head, and unlock.
InsertWrite(t) ==
  /\ pc[t] = "link"
  /\ LET i == ItemOf(ptr[t])
     IN /\ IF link[t] # NULL
             THEN /\ next' = [next EXCEPT ![link[t]] = ptr[t]]
                  /\ UNCHANGED head
             ELSE /\ head' = [head EXCEPT ![i] = ptr[t]]
                  /\ UNCHANGED next
        /\ tail' = [tail EXCEPT ![i] = ptr[t]]
        /\ listlock' = [listlock EXCEPT ![i] = NULL]
  /\ Leave(t)
  /\ UNCHANGED <<canary, bump, live, exited>>

-----------------------------------------------------------------------------
\* The application writes one byte past the end of an object it holds.
Overrun ==
  /\ Overruns
  /\ \E o \in live : canary' = [canary EXCEPT ![o] = "clobbered"]
  /\ UNCHANGED <<next, lists, bump, live, pc, locals, exited>>

Malloc(t) ==
  \/ MallocLock(t) \/ RemoveRead(t) \/ RemoveWrite(t) \/ MallocUnlock(t)
  \/ BumpRead(t) \/ BumpIncrement(t) \/ MallocCanary(t) \/ MallocReturn(t)

Free(t) ==
  \/ FreeCheckStatus(t) \/ FreeCheckCanary(t)
  \/ NeighborShadow(t) \/ NeighborCanary(t)
  \/ FreeLock(t) \/ InsertRead(t) \/ InsertWrite(t)

\* A step of a call in progress: the code of the allocator.
Run(t) == exited = "no" /\ (Malloc(t) \/ Free(t))

\* What the application decides: to call malloc or free, or to overrun.
Call(t) == exited = "no" /\ (MallocCall(t) \/ FreeCall(t))

Next ==
  \/ \E t \in Threads : Run(t) \/ Call(t)
  \/ exited = "no" /\ Overrun

Spec == Init /\ [][Next]_vars

\* The operating system keeps scheduling every thread that is inside a call.
\* A spin lock is not fair between its waiters, so nothing more is assumed.
FairSpec == Spec /\ \A t \in Threads : WF_vars(Run(t))
-----------------------------------------------------------------------------
(***************************************************************************)
(* Properties                                                              *)
(***************************************************************************)

\* The call in progress in t has an object of its own: malloc has taken it
\* and not yet returned it, or free has received it and not yet listed it.
Holds(t) == pc[t] \in {"canary", "sentinel"} \cup FreeSteps

\* The objects of an item that have been handed out once, are not guard
\* pages, and now belong neither to the application nor to a call.
FreeObjects(i) ==
  {o \in Objects :
     /\ ItemOf(o) = i
     /\ o[3] < position[i]
     /\ o \notin guards \cup live
     /\ \A t \in Threads : Holds(t) => ptr[t] # o}

\* The nodes met when links are followed from first until one leads to no
\* object.  A cycle shows up as a sequence longer than an item has objects.
Walk(first, succ) ==
  LET after == [o \in Objects \cup {NULL, ALLOC} |->
                  IF o \in Objects THEN succ[o] ELSE NULL]
      node[n \in 0 .. MaxObjects] == IF n = 0 THEN first ELSE after[node[n-1]]
      met == {n \in 0 .. MaxObjects : node[n] # NULL}
  IN [n \in 1 .. Cardinality(met) |-> node[n-1]]

\* The free list of an item, from its head.
Chain(i) == Walk(head[i], next)

\* The types of the variables.
TypeOK ==
  /\ next \in [Objects -> Objects \cup {NULL, ALLOC}]
  /\ canary \in [Objects -> {"unset", "intact", "clobbered"}]
  /\ head \in [Items -> Objects \cup {NULL}]
  /\ tail \in [Items -> Objects \cup {NULL}]
  /\ listlock \in [Items -> Threads \cup {NULL}]
  /\ position \in [Items -> Nat]
  /\ guards \subseteq Objects
  /\ live \subseteq Objects
  /\ pc \in [Threads -> Steps]
  /\ item \in [Threads -> SetItems]
  /\ useBump \in [Threads -> BOOLEAN]
  /\ ptr \in [Threads -> Objects \cup {NULL}]
  /\ link \in [Threads -> Objects \cup {NULL, ALLOC}]
  /\ off \in [Threads -> -NumMore .. NumMore]
  /\ exited \in {"no", "double free", "canary"}

\* allocateSmallObject / freeSmallObject: an object has one owner at a time.
\* The one a malloc is about to return is not held by the application and not
\* the subject of another call, and nobody ever owns an object inside a
\* random guard page.
ExclusiveOwnership ==
  /\ \A t \in Threads : Holds(t) =>
       /\ ptr[t] \notin live \cup guards
       /\ \A u \in Threads \ {t} : Holds(u) => ptr[u] # ptr[t]
  /\ live \cap guards = {}

\* insertDLLTail / removeDLLHead under the list lock: walking the free list
\* of an item from its head meets every freed object of that item exactly
\* once, and prev points to the last of them.  No freed object is lost and
\* none is listed twice, whatever the threads on both ends do.
FreeListExact ==
  \A i \in Items :
    LET c == Chain(i)
    IN /\ {c[n] : n \in DOMAIN c} = FreeObjects(i)
       /\ Len(c) = Cardinality(FreeObjects(i))
       /\ tail[i] = IF c = <<>> THEN NULL ELSE c[Len(c)]

\* isObjectFree: the shadow word tells an allocated object from any other one
\* although it is written outside the lock.  A second free of an object whose
\* first free has returned always meets a word that reports it, also while a
\* malloc has already taken the object off the list.
StatusWordTruthful ==
  /\ \A o \in live : ~IsObjectFree(o)
  /\ \A o \in Objects :
       /\ o \notin live
       /\ \A t \in Threads : pc[t] \in FreeSteps => ptr[t] # o
       => IsObjectFree(o)

\* The diagnostics of freeSmallObject: a program that frees only what it
\* holds is never accused of a double free, and a canary is reported only
\* when the application has overwritten one.  The check of a neighbour reads
\* its status and its canary at different times, while the neighbour's owner
\* allocates or frees it.
NoFalseReport ==
  /\ exited # "double free"
  /\ exited = "canary" => \E o \in Objects : canary[o] = "clobbered"

\* freeSmallObject: an object whose canary was overwritten is caught by the
\* free that returns it; it never reaches a free list or a later malloc.
ClobberedNeverReused ==
  \A o \in Objects : canary[o] = "clobbered" =>
    /\ \A i \in Items : o \notin FreeObjects(i)
    /\ \A t \in Threads : pc[t] \in {"take", "canary", "sentinel"} => ptr[t] # o

\* lock / unlock: every path of malloc and free that takes a list lock gives
\* it back, unless the process ends first.
LockReleased ==
  \A i \in Items : listlock[i] # NULL ~> (listlock[i] = NULL \/ exited # "no")

\* The heap seen from outside: what every free list gives out, in order, and
\* the objects the application or a call has.
Queue == [i \in Items |-> Chain(i)]
Out   == live \cup {ptr[t] : t \in {u \in Threads : Holds(u)}}

Pool == INSTANCE FifoPool WITH queue <- Queue, out <- Out

\* The free list read through its pointers, the bump pointer and the owned
\* objects behave as pools that reuse objects in the order they were freed:
\* allocateSmallObject takes effect when it writes the list header or the
\* bump pointer, freeSmallObject when it links the node.
RefinesFifoPool == Pool!Spec
=============================================================================
