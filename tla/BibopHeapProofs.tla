--------------------------- MODULE BibopHeapProofs ---------------------------
(***************************************************************************)
(* Proofs about BibopHeap, for any number of threads, set items, objects,  *)
(* objects per page and neighbours.                                        *)
(*                                                                         *)
(* The invariant is local: that every free object's successor is another   *)
(* free object, that no two have the same one and that the head is         *)
(* nobody's successor is all that ownership depends on.  What a walk along *)
(* a list of any length meets, and in which order, follows at the end.     *)
(***************************************************************************)
EXTENDS BibopHeap, NumberLemmas

\* Threads with different bags.  The bump path runs without a lock: it relies
\* on a bag being allocated from by one thread only.
ASSUME UniqueThreadIndex ==
  \A t, u \in Threads : ThreadIndex[t] = ThreadIndex[u] => t = u

\* The object has left the bump pointer.
Handed(o) == o[3] < position[ItemOf(o)]

\* Who owns what: an object a call holds is its alone; live objects, guards
\* and held objects all lie behind the bump pointer.
Ownership ==
  /\ \A t \in Threads : Holds(t) =>
       /\ ptr[t] \in Objects
       /\ ptr[t] \notin live \cup guards
       /\ Handed(ptr[t])
       /\ \A u \in Threads \ {t} : Holds(u) => ptr[u] # ptr[t]
  /\ \A o \in live : o \notin guards /\ Handed(o)
  /\ \A o \in guards : Handed(o)

\* What a thread has read from the bump pointer is still true.
BumpFresh ==
  \A t \in Threads : pc[t] = "incr" =>
    /\ ptr[t] = <<ThreadIndex[t], item[t], position[MyItem(t)]>>
    /\ position[MyItem(t)] < MaxObjects

\* The critical sections.
Locked ==
  \A t \in Threads :
    /\ pc[t] \in {"list", "take"} => listlock[MyItem(t)] = t
    /\ pc[t] \in {"insert", "link"} => listlock[ItemOf(ptr[t])] = t

\* The shape of a free list, seen from each of its nodes.
ListShape(i) ==
  /\ head[i] \in FreeObjects(i) \cup {NULL}
  /\ tail[i] \in FreeObjects(i) \cup {NULL}
  /\ head[i] = NULL <=> tail[i] = NULL
  /\ \A o \in FreeObjects(i) :
       /\ next[o] \in FreeObjects(i) \cup {NULL}
       /\ next[o] # head[i]
       /\ next[o] = NULL <=> o = tail[i]
       /\ \A p \in FreeObjects(i) : next[o] = next[p] /\ next[o] # NULL => o = p

\* What a thread has read inside a critical section is still true.
ListFresh ==
  \A t \in Threads :
    /\ pc[t] = "take" =>
         /\ ptr[t] = head[MyItem(t)]
         /\ ptr[t] # NULL
         /\ link[t] = next[ptr[t]]
    /\ pc[t] = "link" =>
         /\ link[t] = tail[ItemOf(ptr[t])]
         /\ next[ptr[t]] = NULL

\* The status word: the sentinel marks the objects of the application and
\* those whose free has not reached its list yet, and no others.
Status ==
  /\ \A o \in live : next[o] = ALLOC
  /\ \A t \in Threads :
       /\ pc[t] \in FreeSteps \ {"link"} => next[ptr[t]] = ALLOC
       /\ pc[t] \in {"canary", "sentinel"} => next[ptr[t]] # ALLOC
  /\ \A o \in Objects : ~Handed(o) \/ o \in guards => next[o] # ALLOC

\* An object that was ever marked as allocated has had its canary set.
Canaries ==
  /\ \A o \in Objects : next[o] = ALLOC => canary[o] # "unset"
  /\ \A t \in Threads :
       /\ pc[t] = "sentinel" => canary[ptr[t]] # "unset"
       /\ pc[t] = "ncanary" => Neighbor(t) \in Objects /\ canary[Neighbor(t)] # "unset"

HeapInv ==
  /\ TypeOK
  /\ Ownership
  /\ BumpFresh
  /\ Locked
  /\ \A i \in Items : ListShape(i)
  /\ ListFresh
  /\ Status
  /\ Canaries
  /\ NoFalseReport
-----------------------------------------------------------------------------
(***************************************************************************)
(* Small facts                                                             *)
(***************************************************************************)

\* The item of an object, and the item a malloc has drawn, are items.
LEMMA ItemTypes ==
  /\ \A o \in Objects : ItemOf(o) \in Items
  /\ TypeOK => \A t \in Threads : MyItem(t) \in Items
<1>1. \A o \in Objects : ItemOf(o) \in Items
  BY DEF Objects, ItemOf, Items
<1>2. TypeOK => \A t \in Threads : MyItem(t) \in Items
  BY DEF TypeOK, MyItem, Items, Bags
<1> QED
  BY <1>1, <1>2

\* A call that holds an object has a pointer to one.
LEMMA HeldPointers ==
  ASSUME HeapInv, NEW t \in Threads
  PROVE  /\ Holds(t) => ptr[t] \in Objects /\ ItemOf(ptr[t]) \in Items
         /\ pc[t] = "take" => ptr[t] \in FreeObjects(MyItem(t))
         /\ pc[t] = "incr" => ptr[t] \in Objects /\ ItemOf(ptr[t]) = MyItem(t)
<1>1. Holds(t) => ptr[t] \in Objects /\ ItemOf(ptr[t]) \in Items
  BY ItemTypes DEF HeapInv, Ownership
<1>2. pc[t] = "take" => ptr[t] \in FreeObjects(MyItem(t))
  BY ItemTypes DEF HeapInv, ListFresh, ListShape
<1>3. ASSUME pc[t] = "incr"
      PROVE  ptr[t] \in Objects /\ ItemOf(ptr[t]) = MyItem(t)
  <2>1. /\ ThreadIndex[t] \in Bags
        /\ item[t] \in SetItems
        /\ position[MyItem(t)] \in 0 .. MaxObjects - 1
    <3>1. ThreadIndex[t] \in Bags
      BY DEF Bags
    <3>2. item[t] \in SetItems /\ MyItem(t) \in Items
      BY ItemTypes DEF HeapInv, TypeOK
    <3>3. position[MyItem(t)] \in Nat
      BY <3>2 DEF HeapInv, TypeOK
    <3>4. position[MyItem(t)] < MaxObjects
      BY <1>3 DEF HeapInv, BumpFresh
    <3> QED
      BY <3>1, <3>2, <3>3, <3>4, ConstantsAssumption
  <2>2. ptr[t] = <<ThreadIndex[t], item[t], position[MyItem(t)]>>
    BY <1>3 DEF HeapInv, BumpFresh
  <2>3. ptr[t] \in Objects
    BY <2>1, <2>2 DEF Objects
  <2>4. ItemOf(ptr[t]) = MyItem(t)
    BY <2>2 DEF ItemOf, MyItem
  <2> QED
    BY <2>3, <2>4
<1> QED
  BY <1>1, <1>2, <1>3

-----------------------------------------------------------------------------
(***************************************************************************)
(* Steps that leave ownership alone                                        *)
(***************************************************************************)
Quiet ==
  /\ UNCHANGED <<position, guards, live>>
  /\ \A u \in Threads : /\ Holds(u)' <=> Holds(u)
                        /\ Holds(u) => ptr'[u] = ptr[u]

\* They are all but the five that take an object, list it, return it from
\* malloc or receive it in free.
QuietStep(t) ==
  \/ MallocCall(t) \/ MallocLock(t) \/ RemoveRead(t) \/ MallocUnlock(t)
  \/ BumpRead(t) \/ MallocCanary(t) \/ FreeCheckStatus(t) \/ FreeCheckCanary(t)
  \/ NeighborShadow(t) \/ NeighborCanary(t) \/ FreeLock(t) \/ InsertRead(t)

\* A quiet step changes neither what malloc and free hold nor what the
\* application holds.
LEMMA QuietSteps ==
  ASSUME TypeOK, NEW t \in Threads, QuietStep(t)
  PROVE  Quiet
<1> USE DEF Quiet, Holds, FreeSteps, Goto, Advance, bump, locals, TypeOK
<1>1. CASE MallocCall(t)
  BY <1>1 DEF MallocCall
<1>2. CASE MallocLock(t)
  BY <1>2 DEF MallocLock
<1>3. CASE RemoveRead(t)
  BY <1>3 DEF RemoveRead
<1>4. CASE MallocUnlock(t)
  BY <1>4 DEF MallocUnlock
<1>5. CASE BumpRead(t)
  BY <1>5 DEF BumpRead
<1>6. CASE MallocCanary(t)
  BY <1>6 DEF MallocCanary
<1>7. CASE FreeCheckStatus(t)
  BY <1>7 DEF FreeCheckStatus
<1>8. CASE FreeCheckCanary(t)
  BY <1>8 DEF FreeCheckCanary
<1>9. CASE NeighborShadow(t)
  BY <1>9 DEF NeighborShadow
<1>10. CASE NeighborCanary(t)
  BY <1>10 DEF NeighborCanary
<1>11. CASE FreeLock(t)
  BY <1>11 DEF FreeLock
<1>12. CASE InsertRead(t)
  BY <1>12 DEF InsertRead
<1> QED
  BY <1>1, <1>2, <1>3, <1>4, <1>5, <1>6, <1>7, <1>8, <1>9, <1>10, <1>11, <1>12
     DEF QuietStep

\* Where nobody's objects change, the free objects and ownership do not.
LEMMA QuietFrame ==
  ASSUME Quiet
  PROVE  /\ \A i \in Items : FreeObjects(i)' = FreeObjects(i)
         /\ Ownership => Ownership'
<1>1. \A i \in Items : FreeObjects(i)' = FreeObjects(i)
  BY DEF Quiet, FreeObjects
<1>2. Ownership => Ownership'
  BY DEF Quiet, Ownership, Handed
<1> QED
  BY <1>1, <1>2

\* A step of the heap is a step of one thread, quiet or one of the five others,
\* or an overrun.
LEMMA Interleaving ==
  ASSUME Next
  PROVE  \/ Overrun
         \/ \E t \in Threads :
              \/ QuietStep(t)
              \/ RemoveWrite(t) \/ BumpIncrement(t) \/ MallocReturn(t)
              \/ FreeCall(t) \/ InsertWrite(t)
BY DEF Next, Run, Call, Malloc, Free, QuietStep

-----------------------------------------------------------------------------
(***************************************************************************)
(* Steps that move an object from one owner to another                     *)
(***************************************************************************)

\* removeDLLHead takes the head out of the free objects of its item.
LEMMA RemoveTakes ==
  ASSUME HeapInv, NEW t \in Threads, RemoveWrite(t)
  PROVE  /\ \A i \in Items : FreeObjects(i)' = FreeObjects(i) \ {ptr[t]}
         /\ Ownership'
<1>1. ptr[t] \in FreeObjects(MyItem(t))
  BY HeldPointers DEF RemoveWrite
<1>2. /\ UNCHANGED <<position, guards, live, ptr>>
      /\ ~Holds(t) /\ Holds(t)'
      /\ \A u \in Threads \ {t} : Holds(u)' <=> Holds(u)
  BY DEF RemoveWrite, Goto, Holds, FreeSteps, bump, HeapInv, TypeOK
<1>3. \A i \in Items : FreeObjects(i)' = FreeObjects(i) \ {ptr[t]}
  BY <1>2 DEF FreeObjects
<1>4. Ownership'
  BY <1>1, <1>2 DEF FreeObjects, HeapInv, Ownership, Handed
<1> QED
  BY <1>3, <1>4

\* insertDLLTail adds the object of the call to the free objects of its item.
LEMMA InsertGives ==
  ASSUME HeapInv, NEW t \in Threads, InsertWrite(t)
  PROVE  /\ \A i \in Items : FreeObjects(i)' =
              IF i = ItemOf(ptr[t]) THEN FreeObjects(i) \cup {ptr[t]}
              ELSE FreeObjects(i)
         /\ Ownership'
<1>1. /\ UNCHANGED <<position, guards, live>>
      /\ Holds(t) /\ ~Holds(t)'
      /\ \A u \in Threads \ {t} : (Holds(u)' <=> Holds(u)) /\ ptr'[u] = ptr[u]
  BY DEF InsertWrite, Leave, Goto, Holds, FreeSteps, bump, HeapInv, TypeOK
<1>2. Ownership'
  BY <1>1 DEF HeapInv, Ownership, Handed
<1>3. ASSUME NEW i \in Items
      PROVE  FreeObjects(i)' = IF i = ItemOf(ptr[t]) THEN FreeObjects(i) \cup {ptr[t]}
                               ELSE FreeObjects(i)
  BY <1>1 DEF FreeObjects, HeapInv, Ownership, Handed
<1> QED
  BY <1>2, <1>3

\* The return of malloc makes the object the application's.
LEMMA ReturnMoves ==
  ASSUME HeapInv, NEW t \in Threads, MallocReturn(t)
  PROVE  /\ \A i \in Items : FreeObjects(i)' = FreeObjects(i)
         /\ Ownership'
<1>1. /\ UNCHANGED <<position, guards>>
      /\ live' = live \cup {ptr[t]}
      /\ Holds(t) /\ ~Holds(t)'
      /\ \A u \in Threads \ {t} : (Holds(u)' <=> Holds(u)) /\ ptr'[u] = ptr[u]
  BY DEF MallocReturn, Leave, Goto, Holds, FreeSteps, bump, HeapInv, TypeOK
<1>2. Ownership'
  BY <1>1 DEF HeapInv, Ownership, Handed
<1>3. \A i \in Items : FreeObjects(i)' = FreeObjects(i)
  BY <1>1 DEF FreeObjects
<1> QED
  BY <1>2, <1>3

\* A call of free takes it from the application.
LEMMA FreeReceives ==
  ASSUME HeapInv, NEW t \in Threads, FreeCall(t)
  PROVE  /\ \A i \in Items : FreeObjects(i)' = FreeObjects(i)
         /\ Ownership'
<1>1. PICK o \in live : /\ ptr' = [ptr EXCEPT ![t] = o]
                        /\ live' = live \ {o}
  BY DEF FreeCall
<1>2. /\ UNCHANGED <<position, guards>>
      /\ ptr'[t] = o /\ o \in Objects
      /\ ~Holds(t) /\ Holds(t)'
      /\ \A u \in Threads \ {t} : (Holds(u)' <=> Holds(u)) /\ ptr'[u] = ptr[u]
  BY <1>1 DEF FreeCall, Goto, Holds, FreeSteps, bump, HeapInv, TypeOK
<1>3. Ownership'
  BY <1>1, <1>2 DEF HeapInv, Ownership, Handed
<1>4. \A i \in Items : FreeObjects(i)' = FreeObjects(i)
  BY <1>1, <1>2 DEF FreeObjects
<1> QED
  BY <1>3, <1>4

\* An object is told by its item and its number.
LEMMA ObjectByNumber ==
  /\ \A o \in Objects : o[3] \in Nat
  /\ \A o, p \in Objects : ItemOf(o) = ItemOf(p) /\ o[3] = p[3] => o = p
BY ConstantsAssumption DEF Objects, ItemOf

\* The step of the bump pointer gives one object to the call; whatever else it
\* passes is in a guard page.
LEMMA BumpTakes ==
  ASSUME HeapInv, NEW t \in Threads, BumpIncrement(t)
  PROVE  /\ \A i \in Items : FreeObjects(i)' = FreeObjects(i)
         /\ Ownership'
         /\ \A o \in Objects : o \in guards' => o \in guards \/ ~Handed(o)
         /\ \A o \in Objects : Handed(o) => Handed(o)'
<1> DEFINE M == MyItem(t)
           n == position[M]
           covered == {o \in Objects : Handed(o)' /\ ~Handed(o)}
<1>1. /\ M \in Items /\ n \in Nat /\ PageObjects \in Nat \ {0}
      /\ ptr[t] \in Objects /\ ItemOf(ptr[t]) = M /\ ptr[t][3] = n
  <2>1. ptr[t][3] = n
    BY DEF BumpIncrement, HeapInv, BumpFresh
  <2>2. M \in Items
    BY ItemTypes DEF HeapInv
  <2>3. n \in Nat
    BY <2>2 DEF HeapInv, TypeOK
  <2> QED
    BY <2>1, <2>2, <2>3, HeldPointers, ConstantsAssumption DEF BumpIncrement
<1>2. /\ UNCHANGED <<live, ptr>>
      /\ ~Holds(t) /\ Holds(t)'
      /\ \A u \in Threads \ {t} : Holds(u)' <=> Holds(u)
  BY DEF BumpIncrement, Goto, Holds, FreeSteps, locals, HeapInv, TypeOK
<1>3. PICK k \in Nat :
        /\ position' = [position EXCEPT ![M] = n + 1 + k]
        /\ guards' = guards \cup
             {o \in Objects : ItemOf(o) = M /\ o[3] \in n + 1 .. n + k}
  <2>1. CASE position' = [position EXCEPT ![M] = n + 1] /\ UNCHANGED guards
    <3>1. {o \in Objects : ItemOf(o) = M /\ o[3] \in n + 1 .. n + 0} = {}
      BY <1>1
    <3>2. position' = [position EXCEPT ![M] = n + 1 + 0]
      <4>1. n + 1 + 0 = n + 1
        BY <1>1
      <4> QED
        BY <2>1, <4>1
    <3>3. guards' = guards \cup
            {o \in Objects : ItemOf(o) = M /\ o[3] \in n + 1 .. n + 0}
      BY <2>1, <3>1
    <3> QED
      BY <3>2, <3>3
  <2>2. CASE /\ position' = [position EXCEPT ![M] = n + 1 + PageObjects]
             /\ guards' = guards \cup
                  {o \in Objects : ItemOf(o) = M
                                 /\ o[3] \in n + 1 .. n + 1 + PageObjects - 1}
    <3>1. n + 1 + PageObjects - 1 = n + PageObjects
      BY <1>1
    <3> QED
      BY <2>2, <3>1, <1>1
  <2> QED
    BY <2>1, <2>2 DEF BumpIncrement
<1>4. \A o \in Objects : Handed(o) => Handed(o)'
  <2> SUFFICES ASSUME NEW o \in Objects, Handed(o) PROVE Handed(o)'
    OBVIOUS
  <2>1. ItemOf(o) \in Items /\ position[ItemOf(o)] \in Nat /\ o[3] \in Nat
    BY ItemTypes, ObjectByNumber DEF HeapInv, TypeOK
  <2>2. position'[ItemOf(o)] = IF ItemOf(o) = M THEN n + 1 + k ELSE position[ItemOf(o)]
    BY <1>1, <1>3, <2>1 DEF HeapInv, TypeOK
  <2> QED
    BY <1>1, <2>1, <2>2 DEF Handed
<1>5. covered = {ptr[t]} \cup (guards' \ guards)
  <2>1. \A o \in Objects : o \in covered <=> ItemOf(o) = M /\ o[3] \in n .. n + k
    <3> SUFFICES ASSUME NEW o \in Objects
                 PROVE  o \in covered <=> ItemOf(o) = M /\ o[3] \in n .. n + k
      OBVIOUS
    <3>1. ItemOf(o) \in Items /\ position[ItemOf(o)] \in Nat /\ o[3] \in Nat
      BY ItemTypes, ObjectByNumber DEF HeapInv, TypeOK
    <3>2. position'[ItemOf(o)] = IF ItemOf(o) = M THEN n + 1 + k ELSE position[ItemOf(o)]
      BY <1>1, <1>3, <3>1 DEF HeapInv, TypeOK
    <3> QED
      BY <1>1, <3>1, <3>2 DEF Handed
  <2>2. \A o \in guards : o \in Objects /\ Handed(o)
    BY DEF HeapInv, Ownership, TypeOK
  <2>3. \A o \in Objects : ItemOf(o) = M /\ o[3] = n => o = ptr[t]
    BY <1>1, ObjectByNumber
  <2>4. \A o \in Objects : o[3] \in n .. n + k <=> o[3] = n \/ o[3] \in n + 1 .. n + k
    BY <1>1, ObjectByNumber
  <2> QED
    BY <1>1, <1>3, <2>1, <2>2, <2>3, <2>4
<1>6. ptr[t] \notin guards' /\ ~Handed(ptr[t]) /\ Handed(ptr[t])'
  <2>1. ~Handed(ptr[t])
    BY <1>1 DEF Handed
  <2>2. ptr[t] \notin guards
    BY <2>1 DEF HeapInv, Ownership
  <2>3. ptr[t][3] \notin n + 1 .. n + k
    BY <1>1
  <2>4. ptr[t] \notin guards'
    BY <1>3, <2>2, <2>3
  <2>5. ptr[t] \in covered
    BY <1>5
  <2> QED
    BY <1>2, <2>1, <2>4, <2>5 DEF Handed
<1>7. \A i \in Items : FreeObjects(i)' = FreeObjects(i)
  <2> SUFFICES ASSUME NEW i \in Items, NEW o \in Objects, ItemOf(o) = i
               PROVE  o \in FreeObjects(i)' <=> o \in FreeObjects(i)
    BY DEF FreeObjects
  <2>1. CASE ~Handed(o)
    BY <1>2, <1>5, <2>1 DEF FreeObjects, Handed
  <2>2. CASE Handed(o)
    <3>1. o \notin covered /\ Handed(o)'
      BY <1>4, <2>2
    <3> QED
      BY <1>2, <1>3, <1>5, <1>6, <2>2, <3>1 DEF FreeObjects, Handed
  <2> QED
    BY <2>1, <2>2
<1>8. Ownership'
  <2>1. ASSUME NEW u \in Threads, Holds(u)'
        PROVE  /\ ptr[u] \in Objects
               /\ ptr[u] \notin live \cup guards'
               /\ Handed(ptr[u])'
               /\ \A v \in Threads \ {u} : Holds(v)' => ptr[v] # ptr[u]
    <3>1. CASE u = t
      BY <1>1, <1>2, <1>6, <3>1 DEF HeapInv, Ownership
    <3>2. CASE u # t
      BY <1>2, <1>4, <1>5, <1>6, <2>1, <3>2 DEF HeapInv, Ownership
    <3> QED
      BY <3>1, <3>2
  <2>2. \A o \in live : o \notin guards' /\ Handed(o)'
    BY <1>4, <1>5 DEF HeapInv, Ownership, TypeOK
  <2>3. \A o \in guards' : Handed(o)'
    BY <1>4, <1>5 DEF HeapInv, Ownership, TypeOK
  <2> QED
    BY <1>2, <2>1, <2>2, <2>3 DEF Ownership
<1> QED
  BY <1>4, <1>5, <1>7, <1>8

-----------------------------------------------------------------------------
(***************************************************************************)
(* What threads have read, and their locks                                 *)
(***************************************************************************)
\* A step of one thread leaves the local variables of the others alone.
LEMMA OthersUntouched ==
  ASSUME TypeOK, NEW t \in Threads, Run(t) \/ Call(t), NEW u \in Threads \ {t}
  PROVE  /\ pc'[u] = pc[u] /\ item'[u] = item[u] /\ ptr'[u] = ptr[u]
         /\ link'[u] = link[u] /\ off'[u] = off[u]
<1> USE DEF TypeOK, Goto, Leave, Advance, locals
<1>1. CASE Call(t)
  BY <1>1 DEF Call, MallocCall, FreeCall
<1>2. CASE Malloc(t)
  BY <1>2 DEF Malloc, MallocLock, RemoveRead, RemoveWrite, MallocUnlock, BumpRead,
              BumpIncrement, MallocCanary, MallocReturn
<1>3. CASE Free(t)
  BY <1>3 DEF Free, FreeCheckStatus, FreeCheckCanary, NeighborShadow,
              NeighborCanary, FreeLock, InsertRead, InsertWrite
<1> QED
  BY <1>1, <1>2, <1>3 DEF Run

\* Only the threads of a bag move its bump pointers, and there is one.
LEMMA BumpFreshStep ==
  ASSUME HeapInv, NEW t \in Threads, Run(t) \/ Call(t)
  PROVE  BumpFresh'
<1> SUFFICES ASSUME NEW u \in Threads, pc'[u] = "incr"
             PROVE  /\ ptr'[u] = <<ThreadIndex[u], item'[u], position'[MyItem(u)']>>
                    /\ position'[MyItem(u)'] < MaxObjects
  BY DEF BumpFresh
<1>1. CASE u = t
  <2>1. BumpRead(t)
    BY <1>1 DEF Run, Call, Malloc, Free, Goto, Leave, Advance, locals, HeapInv, TypeOK,
         MallocCall, MallocLock, RemoveRead, RemoveWrite, MallocUnlock,
         BumpIncrement, MallocCanary, MallocReturn, FreeCall, FreeCheckStatus,
         FreeCheckCanary, NeighborShadow, NeighborCanary, FreeLock, InsertRead,
         InsertWrite
  <2> QED
    BY <1>1, <2>1 DEF BumpRead, MyItem, bump, HeapInv, TypeOK
<1>2. CASE u # t
  <2>1. /\ pc[u] = "incr" /\ ptr'[u] = ptr[u] /\ item'[u] = item[u]
        /\ MyItem(u)' = MyItem(u)
    BY <1>2, OthersUntouched DEF HeapInv, MyItem
  <2>2. position'[MyItem(u)] = position[MyItem(u)]
    <3>1. CASE BumpIncrement(t)
      <4>1. MyItem(u) # MyItem(t)
        BY <1>2, UniqueThreadIndex DEF MyItem
      <4>2. MyItem(u) \in Items /\ MyItem(t) \in Items
        BY ItemTypes DEF HeapInv
      <4> QED
        BY <3>1, <4>1, <4>2 DEF BumpIncrement, HeapInv, TypeOK
    <3>2. CASE ~BumpIncrement(t)
      BY <3>2 DEF Run, Call, Malloc, Free, bump,
         MallocCall, MallocLock, RemoveRead, RemoveWrite, MallocUnlock, BumpRead,
         MallocCanary, MallocReturn, FreeCall, FreeCheckStatus, FreeCheckCanary,
         NeighborShadow, NeighborCanary, FreeLock, InsertRead, InsertWrite
    <3> QED
      BY <3>1, <3>2
  <2> QED
    BY <2>1, <2>2 DEF HeapInv, BumpFresh
<1> QED
  BY <1>1, <1>2

\* A thread takes a lock that is free and gives back one it has.
LEMMA LocksKept ==
  ASSUME HeapInv, NEW t \in Threads, Run(t) \/ Call(t),
         NEW u \in Threads \ {t}, NEW i \in Items, listlock[i] = u
  PROVE  listlock'[i] = u
<1> USE DEF HeapInv, TypeOK, Locked
<1>1. u # NULL
  BY PointerAssumption
<1>2. CASE MallocLock(t)
  BY <1>1, <1>2 DEF MallocLock
<1>3. CASE FreeLock(t)
  BY <1>1, <1>3 DEF FreeLock
<1>4. CASE RemoveWrite(t)
  BY <1>4 DEF RemoveWrite
<1>5. CASE MallocUnlock(t)
  BY <1>5 DEF MallocUnlock
<1>6. CASE InsertWrite(t)
  BY <1>6 DEF InsertWrite
<1>7. CASE ~(MallocLock(t) \/ FreeLock(t) \/ RemoveWrite(t) \/ MallocUnlock(t)
             \/ InsertWrite(t))
  BY <1>7 DEF Run, Call, Malloc, Free, lists,
     MallocCall, RemoveRead, BumpRead, BumpIncrement, MallocCanary, MallocReturn,
     FreeCall, FreeCheckStatus, FreeCheckCanary, NeighborShadow, NeighborCanary,
     InsertRead
<1> QED
  BY <1>2, <1>3, <1>4, <1>5, <1>6, <1>7

\* Who is in a critical section of malloc or free holds its list lock.
LEMMA LockedStep ==
  ASSUME HeapInv, NEW t \in Threads, Run(t) \/ Call(t)
  PROVE  Locked'
<1> SUFFICES ASSUME NEW u \in Threads
             PROVE  /\ pc'[u] \in {"list", "take"} => listlock'[MyItem(u)'] = u
                    /\ pc'[u] \in {"insert", "link"} => listlock'[ItemOf(ptr[u])'] = u
  BY DEF Locked
<1>1. MyItem(u) \in Items /\ (Holds(u) => ItemOf(ptr[u]) \in Items)
  BY ItemTypes, HeldPointers DEF HeapInv
<1>2. CASE u # t
  <2>1. /\ pc'[u] = pc[u] /\ MyItem(u)' = MyItem(u) /\ ItemOf(ptr[u])' = ItemOf(ptr[u])
    BY <1>2, OthersUntouched DEF HeapInv, MyItem
  <2>2. pc[u] \in {"insert", "link"} => Holds(u)
    BY DEF Holds, FreeSteps
  <2> QED
    BY <1>1, <1>2, <2>1, <2>2, LocksKept DEF HeapInv, Locked
<1>3. CASE u = t
  <2>1. CASE MallocLock(t) \/ FreeLock(t)
    BY <1>1, <1>3, <2>1 DEF MallocLock, FreeLock, Goto, locals, MyItem, ItemOf, Holds,
       FreeSteps, HeapInv, TypeOK
  <2>2. CASE RemoveRead(t) \/ InsertRead(t)
    BY <1>3, <2>2 DEF RemoveRead, InsertRead, Goto, lists, MyItem, ItemOf,
       HeapInv, TypeOK, Locked
  <2>3. CASE ~(MallocLock(t) \/ FreeLock(t) \/ RemoveRead(t) \/ InsertRead(t))
    <3>1. pc'[t] \notin {"list", "take", "insert", "link"}
      BY <2>3 DEF Run, Call, Malloc, Free, Goto, Leave, Advance, HeapInv, TypeOK,
         MallocCall, RemoveWrite, MallocUnlock, BumpRead, BumpIncrement,
         MallocCanary, MallocReturn, FreeCall, FreeCheckStatus, FreeCheckCanary,
         NeighborShadow, NeighborCanary, InsertWrite
    <3> QED
      BY <1>3, <3>1
  <2> QED
    BY <2>1, <2>2, <2>3
<1> QED
  BY <1>2, <1>3

-----------------------------------------------------------------------------
(***************************************************************************)
(* The free lists                                                          *)
(***************************************************************************)

\* The node insertDLLTail links the new one to is free, and of the same item.
LEMMA LinkIsOwn ==
  ASSUME HeapInv, NEW t \in Threads, pc[t] = "link"
  PROVE  link[t] = NULL \/ link[t] \in FreeObjects(ItemOf(ptr[t]))
<1>1. Holds(t)
  BY DEF Holds, FreeSteps
<1> QED
  BY <1>1, HeldPointers DEF HeapInv, ListFresh, ListShape

\* A list whose lock a thread does not hold is not changed by it, and neither
\* is the status word of an object another call holds.
LEMMA ListsKept ==
  ASSUME HeapInv, NEW t \in Threads, Run(t) \/ Call(t)
  PROVE  /\ \A i \in Items : listlock[i] # t =>
              /\ head'[i] = head[i] /\ tail'[i] = tail[i]
              /\ \A o \in FreeObjects(i) : next'[o] = next[o]
         /\ \A u \in Threads \ {t} : Holds(u) => next'[ptr[u]] = next[ptr[u]]
<1> USE DEF HeapInv, TypeOK
<1>1. CASE RemoveWrite(t)
  BY <1>1 DEF RemoveWrite, shadow, Locked
<1>2. CASE InsertWrite(t)
  <2> DEFINE I == ItemOf(ptr[t])
  <2>1. Holds(t) /\ I \in Items /\ listlock[I] = t /\ ptr[t] \in Objects
    BY <1>2, HeldPointers DEF InsertWrite, Holds, FreeSteps, Locked
  <2>2. link[t] = NULL \/ (link[t] \in FreeObjects(I) /\ link[t] \in Objects)
    BY <1>2, LinkIsOwn DEF InsertWrite, FreeObjects
  <2>3. \A o \in Objects : next'[o] # next[o] => o = link[t] /\ link[t] # NULL
    BY <1>2, <2>2 DEF InsertWrite
  <2>4. ASSUME NEW i \in Items, listlock[i] # t
        PROVE  /\ head'[i] = head[i] /\ tail'[i] = tail[i]
               /\ \A o \in FreeObjects(i) : next'[o] = next[o]
    <3>1. i # I
      BY <2>1, <2>4
    <3>2. head'[i] = head[i] /\ tail'[i] = tail[i]
      BY <1>2, <2>1, <2>4, <3>1 DEF InsertWrite
    <3>3. \A o \in FreeObjects(i) : o \in Objects /\ ItemOf(o) = i
      BY DEF FreeObjects
    <3>4. link[t] # NULL => ItemOf(link[t]) = I
      BY <2>2 DEF FreeObjects
    <3> QED
      BY <2>3, <3>1, <3>2, <3>3, <3>4
  <2>5. ASSUME NEW u \in Threads \ {t}, Holds(u)
        PROVE  next'[ptr[u]] = next[ptr[u]]
    <3>1. ptr[u] \in Objects
      BY <2>5, HeldPointers
    <3>2. link[t] # NULL => ptr[u] # link[t]
      BY <2>2, <2>5 DEF FreeObjects
    <3> QED
      BY <2>3, <3>1, <3>2
  <2> QED
    BY <2>4, <2>5
<1>3. CASE InsertRead(t) \/ MallocReturn(t)
  <2>1. /\ Holds(t) /\ ptr[t] \in Objects
        /\ \A o \in Objects : o # ptr[t] => next'[o] = next[o]
        /\ UNCHANGED <<head, tail>>
    BY <1>3, HeldPointers DEF InsertRead, MallocReturn, Holds, FreeSteps, lists
  <2>2. \A i \in Items : \A o \in FreeObjects(i) : o \in Objects /\ o # ptr[t]
    BY <2>1 DEF FreeObjects
  <2>3. \A u \in Threads \ {t} : Holds(u) => ptr[u] \in Objects /\ ptr[u] # ptr[t]
    BY <2>1 DEF Ownership
  <2> QED
    BY <2>1, <2>2, <2>3
<1>4. CASE ~(RemoveWrite(t) \/ InsertWrite(t) \/ InsertRead(t) \/ MallocReturn(t))
  BY <1>4 DEF Run, Call, Malloc, Free, lists, shadow,
     MallocCall, MallocLock, RemoveRead, MallocUnlock, BumpRead, BumpIncrement,
     MallocCanary, FreeCall, FreeCheckStatus, FreeCheckCanary, NeighborShadow,
     NeighborCanary, FreeLock
<1> QED
  BY <1>1, <1>2, <1>3, <1>4

\* A list whose header and free objects' words are unchanged keeps its shape.
LEMMA ShapeFrame ==
  ASSUME NEW i \in Items, ListShape(i), FreeObjects(i)' = FreeObjects(i),
         head'[i] = head[i], tail'[i] = tail[i],
         \A o \in FreeObjects(i) : next'[o] = next[o]
  PROVE  ListShape(i)'
BY DEF ListShape

\* removeDLLHead: the list goes on behind the old head.
LEMMA ShapeRemove ==
  ASSUME HeapInv, NEW t \in Threads, RemoveWrite(t), NEW i \in Items
  PROVE  ListShape(i)'
<1> DEFINE M == MyItem(t)
           h == ptr[t]
<1>1. /\ M \in Items /\ h = head[M] /\ link[t] = next[h]
      /\ h \in FreeObjects(M) /\ UNCHANGED next
  BY ItemTypes, HeldPointers DEF RemoveWrite, HeapInv, ListFresh, shadow
<1>2. FreeObjects(i)' = FreeObjects(i) \ {h} /\ ListShape(i)
  BY RemoveTakes DEF HeapInv
<1>3. CASE i # M
  <2>1. h \notin FreeObjects(i)
    BY <1>1, <1>3 DEF FreeObjects
  <2>2. head'[i] = head[i] /\ tail'[i] = tail[i]
    BY <1>1, <1>3 DEF RemoveWrite, HeapInv, TypeOK
  <2> QED
    BY <1>1, <1>2, <2>1, <2>2, ShapeFrame
<1>4. CASE i = M
  <2>1. /\ head'[i] = next[h]
        /\ tail'[i] = IF next[h] = NULL THEN NULL ELSE tail[i]
    BY <1>1, <1>4 DEF RemoveWrite, HeapInv, TypeOK
  <2>2. h # NULL /\ tail[i] # NULL
    BY <1>1, <1>2, <1>4, PointerAssumption DEF ListShape, FreeObjects
  <2>3. next[h] \in FreeObjects(i)' \cup {NULL}
    BY <1>1, <1>2, <1>4 DEF ListShape
  <2>4. next[h] # NULL => tail[i] \in FreeObjects(i)'
    BY <1>1, <1>2, <1>4, <2>2 DEF ListShape
  <2>5. ASSUME NEW o \in FreeObjects(i)'
        PROVE  /\ next[o] \in FreeObjects(i)' \cup {NULL}
               /\ next[o] # next[h]
               /\ next[o] = NULL <=> o = tail'[i]
               /\ \A p \in FreeObjects(i)' : next[o] = next[p] /\ next[o] # NULL => o = p
    <3>1. o \in FreeObjects(i) /\ o # h
      BY <1>2
    <3>2. o # NULL
      BY <3>1, PointerAssumption DEF FreeObjects
    <3>3. next[o] # next[h]
      BY <1>1, <1>2, <1>4, <3>1 DEF ListShape
    <3> QED
      BY <1>1, <1>2, <1>4, <2>1, <3>1, <3>2, <3>3 DEF ListShape
  <2>6. head'[i] = NULL <=> tail'[i] = NULL
    BY <2>1, <2>2
  <2> QED
    BY <1>1, <2>1, <2>3, <2>4, <2>5, <2>6 DEF ListShape
<1> QED
  BY <1>3, <1>4

\* insertDLLTail: the list goes on behind the old tail.
LEMMA ShapeInsert ==
  ASSUME HeapInv, NEW t \in Threads, InsertWrite(t), NEW i \in Items
  PROVE  ListShape(i)'
<1> DEFINE I == ItemOf(ptr[t])
           n == ptr[t]
<1>1. Holds(t) /\ pc[t] = "link" /\ I \in Items /\ n \in Objects
  BY HeldPointers DEF InsertWrite, Holds, FreeSteps
<1>2. link[t] = tail[I] /\ next[n] = NULL
  BY <1>1 DEF HeapInv, ListFresh
<1>3. /\ FreeObjects(i)' = IF i = I THEN FreeObjects(i) \cup {n} ELSE FreeObjects(i)
      /\ ListShape(i)
      /\ n \notin FreeObjects(i)
  BY <1>1, InsertGives DEF HeapInv, FreeObjects
<1>4. CASE i # I
  <2>1. head'[i] = head[i] /\ tail'[i] = tail[i]
    BY <1>1, <1>4 DEF InsertWrite, HeapInv, TypeOK
  <2>2. link[t] # NULL => link[t] \in Objects /\ ItemOf(link[t]) = I
    BY <1>1, LinkIsOwn DEF FreeObjects
  <2>3. \A o \in FreeObjects(i) : next'[o] = next[o]
    BY <1>4, <2>2 DEF InsertWrite, HeapInv, TypeOK, FreeObjects
  <2> QED
    BY <1>3, <1>4, <2>1, <2>3, ShapeFrame
<1>5. CASE i = I
  <2>1. n # NULL /\ tail'[i] = n
    BY <1>1, <1>5, PointerAssumption DEF InsertWrite, HeapInv, TypeOK
  <2>2. head'[i] = IF tail[i] = NULL THEN n ELSE head[i]
    BY <1>1, <1>2, <1>5 DEF InsertWrite, HeapInv, TypeOK
  <2>3. tail[i] # NULL => tail[i] \in FreeObjects(i) /\ tail[i] \in Objects /\ tail[i] # n
    BY <1>3 DEF ListShape, FreeObjects
  <2>4. \A o \in Objects :
          next'[o] = IF tail[i] # NULL /\ o = tail[i] THEN n ELSE next[o]
    BY <1>1, <1>2, <1>5 DEF InsertWrite, HeapInv, TypeOK
  <2>5. next'[n] = NULL
    BY <1>1, <1>2, <2>3, <2>4
  <2>6. \A o \in FreeObjects(i) : /\ o \in Objects /\ o # n /\ o # NULL
                                  /\ next[o] # n
                                  /\ next[o] = NULL <=> o = tail[i]
    BY <1>3, <2>1, PointerAssumption DEF ListShape, FreeObjects
  <2>7. \A o \in FreeObjects(i) :
          next'[o] = IF o = tail[i] THEN n ELSE next[o]
    BY <2>3, <2>4, <2>6
  <2>8. head'[i] \in FreeObjects(i)' /\ head'[i] # NULL
    BY <1>3, <1>5, <2>1, <2>2 DEF ListShape
  <2>9. ASSUME NEW o \in FreeObjects(i)'
        PROVE  /\ next'[o] \in FreeObjects(i)' \cup {NULL}
               /\ next'[o] # head'[i]
               /\ next'[o] = NULL <=> o = tail'[i]
               /\ \A p \in FreeObjects(i)' : next'[o] = next'[p] /\ next'[o] # NULL => o = p
    <3>1. CASE o = n
      BY <1>3, <1>5, <2>1, <2>5, <2>8, <3>1
    <3>2. CASE o \in FreeObjects(i)
      <4>1. next'[o] \in FreeObjects(i)' \cup {NULL}
        BY <1>3, <1>5, <2>7, <3>2 DEF ListShape
      <4>2. next'[o] # head'[i]
        BY <1>3, <2>2, <2>6, <2>7, <2>3, <3>2 DEF ListShape
      <4>3. next'[o] # NULL /\ o # tail'[i]
        BY <1>3, <2>1, <2>6, <2>7, <3>2 DEF ListShape
      <4>4. \A p \in FreeObjects(i)' : next'[o] = next'[p] => o = p
        BY <1>3, <1>5, <2>5, <2>6, <2>7, <3>2, <4>3 DEF ListShape
      <4> QED
        BY <4>1, <4>2, <4>3, <4>4
    <3> QED
      BY <1>3, <1>5, <3>1, <3>2
  <2>10. tail'[i] \in FreeObjects(i)' /\ tail'[i] # NULL
    BY <1>3, <1>5, <2>1
  <2> QED
    BY <2>8, <2>9, <2>10 DEF ListShape
<1> QED
  BY <1>4, <1>5

\* The free objects, and who owns the others, after any step.
LEMMA OwnershipStep ==
  ASSUME HeapInv, NEW t \in Threads, Run(t) \/ Call(t)
  PROVE  /\ Ownership'
         /\ \/ RemoveWrite(t) \/ InsertWrite(t)
            \/ \A i \in Items : FreeObjects(i)' = FreeObjects(i)
<1>1. CASE QuietStep(t)
  BY <1>1, QuietSteps, QuietFrame DEF HeapInv
<1>2. CASE ~QuietStep(t)
  BY <1>2, RemoveTakes, InsertGives, ReturnMoves, FreeReceives, BumpTakes
     DEF Run, Call, Malloc, Free, QuietStep
<1> QED
  BY <1>1, <1>2

\* The steps that neither take from a list nor add to one leave head and tail
\* alone, and write no free object's word.
LEMMA OtherWords ==
  ASSUME HeapInv, NEW t \in Threads, Run(t) \/ Call(t),
         ~(RemoveWrite(t) \/ InsertWrite(t)), NEW i \in Items
  PROVE  /\ head' = head /\ tail' = tail
         /\ \A o \in FreeObjects(i) : next'[o] = next[o]
<1>1. head' = head /\ tail' = tail
  BY DEF Run, Call, Malloc, Free, lists,
     MallocCall, MallocLock, RemoveRead, MallocUnlock, BumpRead, BumpIncrement,
     MallocCanary, MallocReturn, FreeCall, FreeCheckStatus, FreeCheckCanary,
     NeighborShadow, NeighborCanary, FreeLock, InsertRead
<1>2. \A o \in FreeObjects(i) : next'[o] = next[o]
  <2>1. CASE InsertRead(t) \/ MallocReturn(t)
    <3>1. Holds(t)
      BY <2>1 DEF InsertRead, MallocReturn, Holds, FreeSteps
    <3> QED
      BY <2>1, <3>1 DEF InsertRead, MallocReturn, FreeObjects, HeapInv, TypeOK
  <2>2. CASE ~(InsertRead(t) \/ MallocReturn(t))
    BY <2>2 DEF Run, Call, Malloc, Free, shadow,
       MallocCall, MallocLock, RemoveRead, MallocUnlock, BumpRead, BumpIncrement,
       MallocCanary, FreeCall, FreeCheckStatus, FreeCheckCanary, NeighborShadow,
       NeighborCanary, FreeLock
  <2> QED
    BY <2>1, <2>2
<1> QED
  BY <1>1, <1>2

\* Every step keeps the shape of every list.
LEMMA ShapeStep ==
  ASSUME HeapInv, NEW t \in Threads, Run(t) \/ Call(t), NEW i \in Items
  PROVE  ListShape(i)'
<1>1. CASE RemoveWrite(t)
  BY <1>1, ShapeRemove
<1>2. CASE InsertWrite(t)
  BY <1>2, ShapeInsert
<1>3. CASE ~(RemoveWrite(t) \/ InsertWrite(t))
  BY <1>3, OwnershipStep, OtherWords, ShapeFrame DEF HeapInv
<1> QED
  BY <1>1, <1>2, <1>3

\* What malloc and free have read under a list lock stays true while they hold
\* it.
LEMMA ListFreshStep ==
  ASSUME HeapInv, NEW t \in Threads, Run(t) \/ Call(t)
  PROVE  ListFresh'
<1> SUFFICES ASSUME NEW u \in Threads
             PROVE  /\ pc'[u] = "take" =>
                         /\ ptr'[u] = head'[MyItem(u)']
                         /\ ptr'[u] # NULL
                         /\ link'[u] = next'[ptr'[u]]
                    /\ pc'[u] = "link" =>
                         /\ link'[u] = tail'[ItemOf(ptr'[u])]
                         /\ next'[ptr'[u]] = NULL
  BY DEF ListFresh
<1>1. CASE u # t
  <2>1. /\ pc'[u] = pc[u] /\ ptr'[u] = ptr[u] /\ link'[u] = link[u]
        /\ MyItem(u)' = MyItem(u)
    BY <1>1, OthersUntouched DEF HeapInv, MyItem
  <2>2. MyItem(u) \in Items
    BY ItemTypes DEF HeapInv
  <2>3. CASE pc[u] = "take"
    <3>1. listlock[MyItem(u)] # t /\ ptr[u] \in FreeObjects(MyItem(u))
      BY <1>1, <2>3, HeldPointers DEF HeapInv, Locked
    <3>2. next'[ptr[u]] = next[ptr[u]] /\ head'[MyItem(u)] = head[MyItem(u)]
      BY <2>2, <3>1, ListsKept
    <3> QED
      BY <2>1, <2>3, <3>2 DEF HeapInv, ListFresh
  <2>4. CASE pc[u] = "link"
    <3>1. Holds(u) /\ ItemOf(ptr[u]) \in Items /\ listlock[ItemOf(ptr[u])] # t
      BY <1>1, <2>4, HeldPointers DEF HeapInv, Locked, Holds, FreeSteps
    <3>2. /\ next'[ptr[u]] = next[ptr[u]]
          /\ tail'[ItemOf(ptr[u])] = tail[ItemOf(ptr[u])]
      BY <1>1, <3>1, ListsKept
    <3> QED
      BY <2>1, <2>4, <3>2 DEF HeapInv, ListFresh
  <2> QED
    BY <2>1, <2>3, <2>4
<1>2. CASE u = t
  <2>1. CASE RemoveRead(t)
    BY <1>2, <2>1 DEF RemoveRead, Goto, shadow, lists, MyItem, HeapInv, TypeOK
  <2>2. CASE InsertRead(t)
    <3>1. ptr[t] \in Objects
      BY <2>2, HeldPointers DEF InsertRead, Holds, FreeSteps
    <3> QED
      BY <1>2, <2>2, <3>1 DEF InsertRead, Goto, lists, HeapInv, TypeOK
  <2>3. CASE ~(RemoveRead(t) \/ InsertRead(t))
    <3>1. pc'[t] \notin {"take", "link"}
      BY <2>3 DEF Run, Call, Malloc, Free, Goto, Leave, Advance, HeapInv, TypeOK,
         MallocCall, MallocLock, RemoveWrite, MallocUnlock, BumpRead, BumpIncrement,
         MallocCanary, MallocReturn, FreeCall, FreeCheckStatus, FreeCheckCanary,
         NeighborShadow, NeighborCanary, FreeLock, InsertWrite
    <3> QED
      BY <1>2, <3>1
  <2> QED
    BY <2>1, <2>2, <2>3
<1> QED
  BY <1>1, <1>2

-----------------------------------------------------------------------------
(***************************************************************************)
(* Status words, canaries and types                                        *)
(***************************************************************************)

\* The status word of an object changes when malloc returns it, when free
\* clears it, and when it becomes the last but one of its list.
LEMMA StatusWrites ==
  ASSUME HeapInv, NEW t \in Threads, Run(t) \/ Call(t), NEW o \in Objects,
         next'[o] # next[o]
  PROVE  \/ MallocReturn(t) /\ o = ptr[t] /\ next'[o] = ALLOC
         \/ InsertRead(t) /\ o = ptr[t] /\ next'[o] = NULL
         \/ /\ InsertWrite(t) /\ o = link[t] /\ next'[o] = ptr[t]
            /\ o \in FreeObjects(ItemOf(ptr[t]))
            /\ ptr[t] \in Objects
<1>1. CASE MallocReturn(t)
  BY <1>1 DEF MallocReturn, HeapInv, TypeOK
<1>2. CASE InsertRead(t)
  BY <1>2 DEF InsertRead, HeapInv, TypeOK
<1>3. CASE InsertWrite(t)
  <2>1. Holds(t)
    BY <1>3 DEF InsertWrite, Holds, FreeSteps
  <2> QED
    BY <1>3, <2>1, LinkIsOwn, HeldPointers DEF InsertWrite, HeapInv, TypeOK
<1>4. CASE ~(MallocReturn(t) \/ InsertRead(t) \/ InsertWrite(t))
  BY <1>4 DEF Run, Call, Malloc, Free, shadow,
     MallocCall, MallocLock, RemoveRead, RemoveWrite, MallocUnlock, BumpRead,
     BumpIncrement, MallocCanary, FreeCall, FreeCheckStatus, FreeCheckCanary,
     NeighborShadow, NeighborCanary, FreeLock
<1> QED
  BY <1>1, <1>2, <1>3, <1>4

\* The status words stay right: malloc writes the sentinel after it has taken
\* the object, free clears it under the list lock.
LEMMA StatusStep ==
  ASSUME HeapInv, NEW t \in Threads, Run(t) \/ Call(t)
  PROVE  Status'
<1>1. ASSUME NEW o \in live'
      PROVE  next'[o] = ALLOC
  <2>1. CASE MallocReturn(t)
    <3>1. Holds(t) /\ ptr[t] \in Objects
      BY <2>1, HeldPointers DEF MallocReturn, Holds
    <3>2. /\ o = ptr[t] \/ o \in live
          /\ next' = [next EXCEPT ![ptr[t]] = ALLOC]
      BY <1>1, <2>1 DEF MallocReturn
    <3>3. o \in live => o \in Objects /\ next[o] = ALLOC
      BY DEF HeapInv, TypeOK, Status
    <3>4. next \in [Objects -> Objects \cup {NULL, ALLOC}]
      BY DEF HeapInv, TypeOK
    <3> QED
      BY <3>1, <3>2, <3>3, <3>4
  <2>2. CASE ~MallocReturn(t)
    <3>1. o \in live
      BY <1>1, <2>2 DEF Run, Call, Malloc, Free,
         MallocCall, MallocLock, RemoveRead, RemoveWrite, MallocUnlock, BumpRead,
         BumpIncrement, MallocCanary, FreeCall, FreeCheckStatus, FreeCheckCanary,
         NeighborShadow, NeighborCanary, FreeLock, InsertRead, InsertWrite
    <3>2. o \in Objects /\ next[o] = ALLOC /\ \A i \in Items : o \notin FreeObjects(i)
      BY <3>1 DEF HeapInv, TypeOK, Status, FreeObjects
    <3>3. InsertRead(t) => Holds(t) /\ ptr[t] # o
      BY <3>1 DEF InsertRead, Holds, FreeSteps, HeapInv, Ownership
    <3>4. InsertWrite(t) => ItemOf(ptr[t]) \in Items
      BY HeldPointers DEF InsertWrite, Holds, FreeSteps
    <3> QED
      BY <2>2, <3>2, <3>3, <3>4, StatusWrites
  <2> QED
    BY <2>1, <2>2
<1>2. ASSUME NEW u \in Threads
      PROVE  /\ pc'[u] \in FreeSteps \ {"link"} => next'[ptr'[u]] = ALLOC
             /\ pc'[u] \in {"canary", "sentinel"} => next'[ptr'[u]] # ALLOC
  <2>1. CASE u # t
    <3>1. pc'[u] = pc[u] /\ ptr'[u] = ptr[u]
      BY <2>1, OthersUntouched DEF HeapInv
    <3>2. Holds(u) => next'[ptr[u]] = next[ptr[u]]
      BY <2>1, ListsKept
    <3> QED
      BY <3>1, <3>2 DEF Holds, HeapInv, Status
  <2>2. CASE u = t
    <3>1. CASE FreeCall(t)
      BY <2>2, <3>1 DEF FreeCall, Goto, shadow, FreeSteps, HeapInv, TypeOK, Status
    <3>2. CASE RemoveWrite(t)
      <4>1. next[ptr[t]] # ALLOC
        BY <3>2, HeldPointers, ItemTypes, PointerAssumption
           DEF RemoveWrite, FreeObjects, HeapInv, ListShape
      <4> QED
        BY <2>2, <3>2, <4>1 DEF RemoveWrite, Goto, shadow, FreeSteps, HeapInv, TypeOK
    <3>3. CASE BumpIncrement(t)
      <4>1. ptr[t] \in Objects /\ ~Handed(ptr[t])
        <5>1. pc[t] = "incr" /\ MyItem(t) \in Items
          BY <3>3, ItemTypes DEF BumpIncrement, HeapInv
        <5>2. ptr[t] \in Objects /\ ItemOf(ptr[t]) = MyItem(t)
          BY <5>1, HeldPointers
        <5>3. ptr[t][3] = position[MyItem(t)] /\ position[MyItem(t)] \in Nat
          <6>1. ptr[t][3] = position[MyItem(t)]
            BY <5>1 DEF HeapInv, BumpFresh
          <6>2. position[MyItem(t)] \in Nat
            BY <5>1 DEF HeapInv, TypeOK
          <6> QED
            BY <6>1, <6>2
        <5> QED
          BY <5>2, <5>3 DEF Handed
      <4> QED
        BY <2>2, <3>3, <4>1 DEF BumpIncrement, Goto, locals, shadow, FreeSteps, HeapInv, TypeOK, Status
    <3>4. CASE MallocCanary(t)
      BY <2>2, <3>4 DEF MallocCanary, Goto, locals, FreeSteps, HeapInv, TypeOK, Status
    <3>5. CASE FreeCheckStatus(t) \/ FreeCheckCanary(t) \/ NeighborShadow(t)
               \/ NeighborCanary(t) \/ FreeLock(t)
      BY <2>2, <3>5 DEF FreeCheckStatus, FreeCheckCanary, NeighborShadow, NeighborCanary,
         FreeLock, Advance, Goto, locals, shadow, FreeSteps, HeapInv, TypeOK, Status
    <3>6. CASE ~(\/ FreeCall(t) \/ RemoveWrite(t) \/ BumpIncrement(t) \/ MallocCanary(t)
                 \/ FreeCheckStatus(t) \/ FreeCheckCanary(t) \/ NeighborShadow(t)
                 \/ NeighborCanary(t) \/ FreeLock(t))
      <4>1. pc'[t] \notin {"canary", "sentinel"} \cup (FreeSteps \ {"link"})
        BY <3>6 DEF Run, Call, Malloc, Free, FreeSteps, Goto, Leave, HeapInv, TypeOK,
           MallocCall, MallocLock, RemoveRead, MallocUnlock, BumpRead, MallocReturn,
           InsertRead, InsertWrite
      <4> QED
        BY <2>2, <4>1
    <3> QED
      BY <3>1, <3>2, <3>3, <3>4, <3>5, <3>6
  <2> QED
    BY <2>1, <2>2
<1>3. ASSUME NEW o \in Objects, ~Handed(o)' \/ o \in guards'
      PROVE  next'[o] # ALLOC
  <2>1. ~Handed(o) \/ o \in guards
    <3>1. CASE BumpIncrement(t)
      BY <1>3, <3>1, BumpTakes
    <3>2. CASE ~BumpIncrement(t)
      BY <1>3, <3>2 DEF Run, Call, Malloc, Free, bump, Handed,
         MallocCall, MallocLock, RemoveRead, RemoveWrite, MallocUnlock, BumpRead,
         MallocCanary, MallocReturn, FreeCall, FreeCheckStatus, FreeCheckCanary,
         NeighborShadow, NeighborCanary, FreeLock, InsertRead, InsertWrite
    <3> QED
      BY <3>1, <3>2
  <2>2. next[o] # ALLOC
    BY <2>1 DEF HeapInv, Status
  <2>3. MallocReturn(t) => o # ptr[t]
    BY <2>1 DEF MallocReturn, Holds, HeapInv, Ownership
  <2> QED
    BY <2>2, <2>3, StatusWrites, PointerAssumption
<1> QED
  BY <1>1, <1>2, <1>3 DEF Status

\* The cursor of the neighbour loops is a number.
LEMMA OffsetInt ==
  ASSUME TypeOK, NEW t \in Threads
  PROVE  off[t] \in Int
<1>1. off[t] \in -NumMore .. NumMore
  BY DEF TypeOK
<1>2. NumMore \in Nat
  BY ConstantsAssumption
<1> QED
  BY <1>1, <1>2

\* A canary is never taken back to "unset", and it is set before the sentinel.
LEMMA CanariesStep ==
  ASSUME HeapInv, NEW t \in Threads, Run(t) \/ Call(t)
  PROVE  Canaries'
<1>1. \A o \in Objects : canary[o] # "unset" => canary'[o] # "unset"
  BY DEF Run, Call, Malloc, Free, shadow, HeapInv, TypeOK,
     MallocCall, MallocLock, RemoveRead, RemoveWrite, MallocUnlock, BumpRead,
     BumpIncrement, MallocCanary, MallocReturn, FreeCall, FreeCheckStatus,
     FreeCheckCanary, NeighborShadow, NeighborCanary, FreeLock, InsertRead, InsertWrite
<1>2. ASSUME NEW o \in Objects, next'[o] = ALLOC
      PROVE  canary'[o] # "unset"
  <2>1. CASE next[o] = ALLOC
    BY <1>1, <2>1 DEF HeapInv, Canaries
  <2>2. CASE next[o] # ALLOC
    <3>1. MallocReturn(t) /\ o = ptr[t]
      BY <1>2, <2>2, StatusWrites, PointerAssumption
    <3> QED
      BY <1>1, <3>1 DEF MallocReturn, HeapInv, Canaries
  <2> QED
    BY <2>1, <2>2
<1>3. ASSUME NEW u \in Threads
      PROVE  /\ pc'[u] = "sentinel" => canary'[ptr'[u]] # "unset"
             /\ pc'[u] = "ncanary" =>
                  Neighbor(u)' \in Objects /\ canary'[Neighbor(u)'] # "unset"
  <2>1. CASE u # t
    <3>1. pc'[u] = pc[u] /\ ptr'[u] = ptr[u] /\ Neighbor(u)' = Neighbor(u)
      BY <2>1, OthersUntouched DEF HeapInv, Neighbor, NeighborIndex
    <3>2. pc[u] = "sentinel" => ptr[u] \in Objects
      BY HeldPointers DEF Holds
    <3> QED
      BY <1>1, <3>1, <3>2 DEF HeapInv, Canaries
  <2>2. CASE u = t
    <3>1. CASE MallocCanary(t)
      <4>1. ptr[t] \in Objects
        BY <3>1, HeldPointers DEF MallocCanary, Holds
      <4> QED
        BY <2>2, <3>1, <4>1 DEF MallocCanary, Goto, locals, HeapInv, TypeOK
    <3>2. CASE NeighborShadow(t)
      <4>1. pc'[t] # "sentinel"
        BY <3>2 DEF NeighborShadow, Goto, Advance, HeapInv, TypeOK
      <4>2. ASSUME pc'[t] = "ncanary"
            PROVE  /\ Neighbor(t)' = Neighbor(t)
                   /\ NeighborIndex(t) >= 0 /\ NeighborIndex(t) < MaxObjects
                   /\ next[Neighbor(t)] = ALLOC /\ UNCHANGED canary
        <5>1. /\ ptr' = ptr
              /\ UNCHANGED canary
              /\ ~(NeighborIndex(t) < 0) /\ ~(NeighborIndex(t) >= MaxObjects)
              /\ ~IsObjectFree(Neighbor(t)) /\ off' = off
          BY <3>2, <4>2 DEF NeighborShadow, Goto, Advance, shadow, HeapInv, TypeOK
        <5>2. NeighborIndex(t) \in Int
          <6>1. ptr[t] \in Objects
            BY <3>2, HeldPointers DEF NeighborShadow, Holds, FreeSteps
          <6>2. off[t] \in Int
            BY OffsetInt DEF HeapInv
          <6> QED
            BY <6>1, <6>2, ObjectByNumber DEF NeighborIndex
        <5> QED
          BY <5>1, <5>2, ConstantsAssumption DEF Neighbor, NeighborIndex, IsObjectFree
      <4>3. pc'[t] = "ncanary" => Neighbor(t) \in Objects
        <5>1. ptr[t] \in Objects /\ off[t] \in Int
          BY <3>2, HeldPointers, OffsetInt
             DEF NeighborShadow, Holds, FreeSteps, HeapInv
        <5>2. ptr[t][1] \in Bags /\ ptr[t][2] \in SetItems /\ NeighborIndex(t) \in Int
          BY <5>1, ConstantsAssumption DEF Objects, NeighborIndex
        <5> QED
          BY <4>2, <5>2, ConstantsAssumption DEF Neighbor, Objects
      <4> QED
        BY <2>2, <4>1, <4>2, <4>3 DEF HeapInv, Canaries
    <3>3. CASE ~(MallocCanary(t) \/ NeighborShadow(t))
      <4>1. pc'[t] \in {"sentinel", "ncanary"} => exited' # exited
        BY <3>3 DEF Run, Call, Malloc, Free, Goto, Leave, Advance, HeapInv, TypeOK,
           MallocCall, MallocLock, RemoveRead, RemoveWrite, MallocUnlock, BumpRead,
           BumpIncrement, MallocReturn, FreeCall, FreeCheckStatus, FreeCheckCanary,
           NeighborCanary, FreeLock, InsertRead, InsertWrite
      <4>2. ASSUME exited' # exited
            PROVE  /\ pc' = pc /\ ptr' = ptr /\ UNCHANGED canary
                   /\ Neighbor(t)' = Neighbor(t)
        BY <3>3, <4>2 DEF Run, Call, Malloc, Free, locals, shadow, Neighbor, NeighborIndex,
           MallocCall, MallocLock, RemoveRead, RemoveWrite, MallocUnlock, BumpRead,
           BumpIncrement, MallocReturn, FreeCall, FreeCheckStatus, FreeCheckCanary,
           NeighborCanary, FreeLock, InsertRead, InsertWrite, Advance
      <4> QED
        BY <2>2, <4>1, <4>2 DEF HeapInv, Canaries
    <3> QED
      BY <3>1, <3>2, <3>3
  <2> QED
    BY <2>1, <2>2
<1> QED
  BY <1>2, <1>3 DEF Canaries

\* A report needs a clobbered canary.
LEMMA ReportStep ==
  ASSUME HeapInv, NEW t \in Threads, Run(t) \/ Call(t)
  PROVE  NoFalseReport'
<1>1. exited = "no"
  BY DEF Run, Call
<1>2. CASE FreeCheckStatus(t)
  <2>1. next[ptr[t]] = ALLOC
    BY <1>2 DEF FreeCheckStatus, FreeSteps, HeapInv, Status
  <2> QED
    BY <1>1, <1>2, <2>1 DEF FreeCheckStatus, IsObjectFree, NoFalseReport
<1>3. CASE FreeCheckCanary(t)
  <2>1. /\ pc[t] = "own" /\ ptr[t] \in Objects
        /\ canary[ptr[t]] \in {"unset", "intact", "clobbered"}
    BY <1>3, HeldPointers DEF FreeCheckCanary, Holds, FreeSteps, HeapInv, TypeOK
  <2>2. canary[ptr[t]] # "unset"
    BY <2>1 DEF FreeSteps, HeapInv, Status, Canaries
  <2> QED
    BY <1>1, <1>3, <2>1, <2>2 DEF FreeCheckCanary, NoFalseReport, shadow
<1>4. CASE NeighborCanary(t)
  <2>1. /\ Neighbor(t) \in Objects /\ canary[Neighbor(t)] # "unset"
        /\ canary[Neighbor(t)] \in {"unset", "intact", "clobbered"}
    BY <1>4 DEF NeighborCanary, HeapInv, Canaries, TypeOK
  <2> QED
    BY <1>1, <1>4, <2>1 DEF NeighborCanary, NoFalseReport, shadow
<1>5. CASE ~(FreeCheckStatus(t) \/ FreeCheckCanary(t) \/ NeighborCanary(t))
  <2>1. exited' = "no"
    BY <1>1, <1>5 DEF Run, Call, Malloc, Free,
       MallocCall, MallocLock, RemoveRead, RemoveWrite, MallocUnlock, BumpRead,
       BumpIncrement, MallocCanary, MallocReturn, FreeCall, NeighborShadow, FreeLock,
       InsertRead, InsertWrite
  <2> QED
    BY <2>1 DEF NoFalseReport
<1> QED
  BY <1>2, <1>3, <1>4, <1>5

\* The neighbour loops of free stay within NUM_MORE_CANARIES_TO_CHECK.
LEMMA NextOffsetType ==
  \A d \in -NumMore .. NumMore : NextOffset(d) \in -NumMore .. NumMore
BY ConstantsAssumption DEF NextOffset

\* The values a leaving thread's locals are reset to, and the first offset.
LEMMA ResetTypes ==
  /\ 0 \in SetItems
  /\ {0, 1, -1} \subseteq -NumMore .. NumMore
BY ConstantsAssumption DEF SetItems

\* Every step of malloc and free keeps the types.
LEMMA TypeStep ==
  ASSUME HeapInv, NEW t \in Threads, Run(t) \/ Call(t)
  PROVE  TypeOK'
<1> USE DEF TypeOK, Goto
<1>1. TypeOK /\ MyItem(t) \in Items
  BY ItemTypes DEF HeapInv
<1>2. Holds(t) => ptr[t] \in Objects /\ ItemOf(ptr[t]) \in Items
  BY HeldPointers
<1>3. CASE MallocCall(t)
  BY <1>1, <1>3 DEF MallocCall, Steps, MallocSteps, shadow, lists, bump
<1>4. CASE FreeCall(t)
  BY <1>1, <1>4 DEF FreeCall, Steps, FreeSteps, shadow, lists, bump
<1>5. CASE MallocLock(t)
  BY <1>1, <1>5 DEF MallocLock, Steps, MallocSteps, shadow, bump, locals
<1>6. CASE RemoveRead(t)
  <2>1. head[MyItem(t)] \in Objects /\ next[head[MyItem(t)]] \in Objects \cup {NULL, ALLOC}
    BY <1>1, <1>6 DEF RemoveRead
  <2> QED
    BY <1>1, <1>6, <2>1 DEF RemoveRead, Steps, MallocSteps, shadow, lists, bump
<1>7. CASE RemoveWrite(t)
  <2>1. link[t] \in Objects \cup {NULL}
    <3>1. pc[t] = "take"
      BY <1>7 DEF RemoveWrite
    <3>2. link[t] = next[ptr[t]] /\ ptr[t] \in FreeObjects(MyItem(t))
      BY <3>1, HeldPointers DEF HeapInv, ListFresh
    <3>3. ListShape(MyItem(t))
      BY <1>1 DEF HeapInv
    <3> QED
      BY <3>2, <3>3 DEF ListShape, FreeObjects
  <2> QED
    BY <1>1, <1>7, <2>1 DEF RemoveWrite, Steps, MallocSteps, shadow, bump
<1>8. CASE MallocUnlock(t)
  BY <1>1, <1>8 DEF MallocUnlock, Steps, MallocSteps, shadow, bump, locals
<1>9. CASE BumpRead(t)
  <2>1. <<ThreadIndex[t], item[t], position[MyItem(t)]>> \in Objects
    <3>1. ThreadIndex[t] \in Bags /\ item[t] \in SetItems
      BY <1>1 DEF Bags
    <3>2. position[MyItem(t)] \in Nat /\ position[MyItem(t)] < MaxObjects
      BY <1>1, <1>9 DEF BumpRead
    <3> QED
      BY <3>1, <3>2, ConstantsAssumption DEF Objects
  <2> QED
    BY <1>1, <1>9, <2>1 DEF BumpRead, Steps, MallocSteps, shadow, lists, bump
<1>10. CASE BumpIncrement(t)
  <2>1. position[MyItem(t)] + 1 \in Nat /\ position[MyItem(t)] + 1 + PageObjects \in Nat
    <3>1. position[MyItem(t)] \in Nat
      BY <1>1
    <3> QED
      BY <3>1, ConstantsAssumption
  <2>2. position' \in [Items -> Nat] /\ guards' \subseteq Objects
    BY <1>1, <1>10, <2>1 DEF BumpIncrement
  <2> QED
    BY <1>1, <1>10, <2>2 DEF BumpIncrement, Steps, MallocSteps, shadow, lists, locals
<1>11. CASE MallocCanary(t)
  BY <1>1, <1>11 DEF MallocCanary, Steps, MallocSteps, lists, bump, locals
<1>12. CASE MallocReturn(t)
  BY <1>1, <1>2, <1>12, ResetTypes DEF MallocReturn, Leave, Steps, Holds, lists, bump
<1>13. CASE FreeCheckStatus(t)
  BY <1>1, <1>13 DEF FreeCheckStatus, Steps, FreeSteps, shadow, lists, bump, locals
<1>14. CASE FreeCheckCanary(t)
  BY <1>1, <1>14, ResetTypes DEF FreeCheckCanary, Steps, FreeSteps, shadow, lists, bump
<1>15. CASE NeighborShadow(t)
  <2>1. NextOffset(off[t]) \in -NumMore .. NumMore
    BY <1>1, NextOffsetType
  <2>2. off' \in [Threads -> -NumMore .. NumMore]
    BY <1>1, <1>15, <2>1, ResetTypes DEF NeighborShadow, Advance
  <2>3. pc' \in [Threads -> Steps]
    BY <1>1, <1>15 DEF NeighborShadow, Advance, Steps, FreeSteps
  <2> QED
    BY <1>1, <1>15, <2>2, <2>3 DEF NeighborShadow, shadow, lists, bump
<1>16. CASE NeighborCanary(t)
  <2>1. NextOffset(off[t]) \in -NumMore .. NumMore
    BY <1>1, NextOffsetType
  <2>2. off' \in [Threads -> -NumMore .. NumMore]
    BY <1>1, <1>16, <2>1 DEF NeighborCanary, Advance
  <2>3. pc' \in [Threads -> Steps]
    BY <1>1, <1>16 DEF NeighborCanary, Advance, Steps, FreeSteps
  <2> QED
    BY <1>1, <1>16, <2>2, <2>3 DEF NeighborCanary, shadow, lists, bump
<1>17. CASE FreeLock(t)
  BY <1>1, <1>17 DEF FreeLock, Steps, FreeSteps, shadow, bump, locals
<1>18. CASE InsertRead(t)
  BY <1>1, <1>2, <1>18 DEF InsertRead, Holds, Steps, FreeSteps, lists, bump
<1>19. CASE InsertWrite(t)
  BY <1>1, <1>2, <1>19, ResetTypes DEF InsertWrite, Leave, Holds, Steps, FreeSteps, bump
<1> QED
  BY <1>3, <1>4, <1>5, <1>6, <1>7, <1>8, <1>9, <1>10, <1>11, <1>12, <1>13, <1>14,
     <1>15, <1>16, <1>17, <1>18, <1>19 DEF Run, Call, Malloc, Free

-----------------------------------------------------------------------------
(***************************************************************************)
(* The theorems                                                            *)
(***************************************************************************)
\* The invariant holds of what initialize() leaves behind.
LEMMA IInvInit == Init => HeapInv
<1> SUFFICES ASSUME Init PROVE HeapInv
  OBVIOUS
<1>1. TypeOK
  BY ResetTypes DEF Init, TypeOK, Steps
<1>2. \A t \in Threads : pc[t] = "idle" /\ ~Holds(t)
  BY DEF Init, Holds, FreeSteps
<1>3. \A i \in Items : FreeObjects(i) = {}
  <2> SUFFICES ASSUME NEW i \in Items, NEW o \in Objects, ItemOf(o) = i
               PROVE  ~(o[3] < position[i])
    BY DEF FreeObjects
  <2> QED
    BY ObjectByNumber DEF Init
<1>4. \A o \in Objects : next[o] # ALLOC
  BY PointerAssumption DEF Init
<1>5. Ownership /\ BumpFresh /\ Locked /\ ListFresh
  BY <1>2 DEF Init, Ownership, BumpFresh, Locked, ListFresh
<1>6. \A i \in Items : ListShape(i)
  BY <1>3 DEF Init, ListShape
<1>7. Status /\ Canaries /\ NoFalseReport
  BY <1>2, <1>4 DEF Init, Status, Canaries, NoFalseReport, FreeSteps
<1> QED
  BY <1>1, <1>5, <1>6, <1>7 DEF HeapInv

\* Writing past an object changes a canary, to "clobbered", and nothing else.
LEMMA IInvOverrun ==
  ASSUME HeapInv, Overrun, exited = "no"
  PROVE  HeapInv'
<1>1. /\ UNCHANGED <<next, head, tail, listlock, position, guards, live, pc, item,
                     useBump, ptr, link, off, exited>>
      /\ \A o \in Objects : canary'[o] = canary[o] \/ canary'[o] = "clobbered"
      /\ canary' \in [Objects -> {"unset", "intact", "clobbered"}]
  BY DEF Overrun, lists, bump, locals, HeapInv, TypeOK
<1>2. TypeOK'
  BY <1>1 DEF HeapInv, TypeOK
<1>3. Ownership' /\ BumpFresh' /\ Locked' /\ ListFresh' /\ Status'
  BY <1>1 DEF HeapInv, Ownership, BumpFresh, Locked, ListFresh, Status, Holds, Handed, MyItem
<1>4. \A i \in Items : ListShape(i)'
  BY <1>1 DEF HeapInv, ListShape, FreeObjects, Holds
<1>5. Canaries'
  <2>1. \A u \in Threads : Neighbor(u)' = Neighbor(u)
    BY <1>1 DEF Neighbor, NeighborIndex
  <2>2. \A u \in Threads : pc[u] = "sentinel" => ptr[u] \in Objects
    BY HeldPointers DEF Holds
  <2> QED
    BY <1>1, <2>1, <2>2 DEF HeapInv, Canaries
<1>6. NoFalseReport'
  BY <1>1 DEF NoFalseReport
<1> QED
  BY <1>2, <1>3, <1>4, <1>5, <1>6 DEF HeapInv

\* The invariant depends on the variables of the heap only.
LEMMA IInvStutter ==
  ASSUME HeapInv, UNCHANGED vars
  PROVE  HeapInv'
<1> USE DEF vars
<1>1. TypeOK'
  BY DEF HeapInv, TypeOK
<1>2. Ownership' /\ BumpFresh' /\ Locked' /\ ListFresh' /\ Status'
  BY DEF HeapInv, Ownership, BumpFresh, Locked, ListFresh, Status, Holds, Handed, MyItem
<1>3. \A i \in Items : ListShape(i)'
  BY DEF HeapInv, ListShape, FreeObjects, Holds
<1>4. Canaries'
  <2>1. \A u \in Threads : Neighbor(u)' = Neighbor(u)
    BY DEF Neighbor, NeighborIndex
  <2> QED
    BY <2>1 DEF HeapInv, Canaries
<1>5. NoFalseReport'
  BY DEF HeapInv, NoFalseReport
<1> QED
  BY <1>1, <1>2, <1>3, <1>4, <1>5 DEF HeapInv

\* The inductive invariant, for every number of threads, items and objects.
THEOREM Invariance == Spec => []HeapInv
<1>1. Init => HeapInv
  BY IInvInit
<1>2. HeapInv /\ [Next]_vars => HeapInv'
  <2> SUFFICES ASSUME HeapInv, [Next]_vars PROVE HeapInv'
    OBVIOUS
  <2>1. CASE UNCHANGED vars
    BY <2>1, IInvStutter
  <2>2. CASE exited = "no" /\ Overrun
    BY <2>2, IInvOverrun
  <2>3. ASSUME NEW t \in Threads, Run(t) \/ Call(t)
        PROVE  HeapInv'
    BY <2>3, TypeStep, OwnershipStep, BumpFreshStep, LockedStep, ShapeStep,
       ListFreshStep, StatusStep, CanariesStep, ReportStep DEF HeapInv
  <2> QED
    BY <2>1, <2>2, <2>3 DEF Next
<1> QED
  BY <1>1, <1>2, PTL DEF Spec

\* Every variable keeps its type.
THEOREM TypeCorrect == Spec => []TypeOK
<1>1. HeapInv => TypeOK
  BY DEF HeapInv
<1> QED
  BY <1>1, Invariance, PTL

\* allocateSmallObject / freeSmallObject: whatever the interleaving, no object
\* has two owners and no owned object lies in a guard page.
THEOREM ObjectsOwnedOnce == Spec => []ExclusiveOwnership
<1>1. HeapInv => ExclusiveOwnership
  BY DEF HeapInv, Ownership, ExclusiveOwnership, TypeOK
<1> QED
  BY <1>1, Invariance, PTL

\* isObjectFree: the status word, which is read without a lock, is right about
\* every object that is not in the hands of a call of free.
THEOREM StatusWordRight == Spec => []StatusWordTruthful
<1>1. ASSUME HeapInv PROVE StatusWordTruthful
  <2>1. \A o \in live : ~IsObjectFree(o)
    BY <1>1 DEF HeapInv, Status, IsObjectFree
  <2>2. ASSUME NEW o \in Objects, o \notin live,
               \A t \in Threads : pc[t] \in FreeSteps => ptr[t] # o
        PROVE  next[o] # ALLOC
    <3>1. CASE \E t \in Threads : pc[t] \in {"canary", "sentinel"} /\ ptr[t] = o
      BY <1>1, <3>1 DEF HeapInv, Status
    <3>2. CASE ~Handed(o) \/ o \in guards
      BY <1>1, <3>2 DEF HeapInv, Status
    <3>3. CASE /\ \A t \in Threads : pc[t] \in {"canary", "sentinel"} => ptr[t] # o
               /\ Handed(o) /\ o \notin guards
      <4>1. o \in FreeObjects(ItemOf(o)) /\ ItemOf(o) \in Items
        BY <2>2, <3>3, ItemTypes DEF FreeObjects, Handed, Holds
      <4> QED
        BY <1>1, <4>1, PointerAssumption DEF HeapInv, ListShape, FreeObjects
    <3> QED
      BY <3>1, <3>2, <3>3
  <2> QED
    BY <2>1, <2>2 DEF StatusWordTruthful, IsObjectFree
<1> QED
  BY <1>1, Invariance, PTL

\* freeSmallObject: a program that frees what it holds and does not write past
\* it is never stopped by a report.
THEOREM ReportsJustified == Spec => []NoFalseReport
<1>1. HeapInv => NoFalseReport
  BY DEF HeapInv
<1> QED
  BY <1>1, Invariance, PTL

-----------------------------------------------------------------------------
(***************************************************************************)
(* Overruns                                                                *)
(***************************************************************************)

\* An overwritten canary is that of an object of the application, or of one
\* whose free has not looked at it yet.
ClobberedHeld ==
  \A o \in Objects : canary[o] = "clobbered" =>
    \/ o \in live
    \/ \E t \in Threads : pc[t] \in {"check", "own"} /\ ptr[t] = o

\* A step clobbers nothing, and free goes on from its look at the canary only if
\* that is intact.
LEMMA ClobberedStep ==
  ASSUME TypeOK, ClobberedHeld, NEW t \in Threads, Run(t) \/ Call(t)
  PROVE  ClobberedHeld'
<1> SUFFICES ASSUME NEW o \in Objects, canary'[o] = "clobbered"
             PROVE  \/ o \in live'
                    \/ \E u \in Threads : pc'[u] \in {"check", "own"} /\ ptr'[u] = o
  BY DEF ClobberedHeld
<1> USE DEF TypeOK, Goto, shadow, lists, bump, locals
<1>1. canary[o] = "clobbered"
  BY DEF Run, Call, Malloc, Free, MallocCall, MallocLock, RemoveRead, RemoveWrite, MallocUnlock, BumpRead,
         BumpIncrement, MallocCanary, MallocReturn, FreeCall, FreeCheckStatus, FreeCheckCanary,
         NeighborShadow, NeighborCanary, FreeLock, InsertRead, InsertWrite
<1>2. \A u \in Threads \ {t} : pc'[u] = pc[u] /\ ptr'[u] = ptr[u]
  BY OthersUntouched
<1>3. CASE FreeCall(t)
  <2>1. PICK x \in live : /\ ptr' = [ptr EXCEPT ![t] = x]
                          /\ live' = live \ {x}
                          /\ pc' = [pc EXCEPT ![t] = "check"]
                          /\ pc[t] = "idle"
    BY <1>3 DEF FreeCall
  <2>2. CASE o = x
    BY <2>1, <2>2
  <2>3. CASE o # x
    BY <1>1, <1>2, <2>1, <2>3 DEF ClobberedHeld
  <2> QED BY <2>2, <2>3
<1>4. CASE FreeCheckStatus(t)
  BY <1>1, <1>4 DEF FreeCheckStatus, ClobberedHeld
<1>5. CASE FreeCheckCanary(t)
  BY <1>1, <1>2, <1>5 DEF FreeCheckCanary, ClobberedHeld
<1>6. CASE ~ (FreeCall(t) \/ FreeCheckStatus(t) \/ FreeCheckCanary(t))
  <2>1. pc[t] \notin {"check", "own"} /\ live \subseteq live'
    BY <1>6 DEF Run, Call, Malloc, Free, MallocCall, MallocLock, RemoveRead, RemoveWrite, MallocUnlock, BumpRead,
         BumpIncrement, MallocCanary, MallocReturn,
         NeighborShadow, NeighborCanary, FreeLock, InsertRead, InsertWrite
  <2> QED BY <1>1, <1>2, <2>1 DEF ClobberedHeld
<1> QED BY <1>3, <1>4, <1>5, <1>6

\* freeSmallObject: an overrun object is stopped before anybody can get it.
THEOREM OverrunsStopped == Spec => []ClobberedNeverReused
<1>1. Init => ClobberedHeld
  BY DEF Init, ClobberedHeld
<1>2. HeapInv /\ ClobberedHeld /\ [Next]_vars => ClobberedHeld'
  <2> SUFFICES ASSUME HeapInv, ClobberedHeld, [Next]_vars PROVE ClobberedHeld'
    OBVIOUS
  <2>1. CASE UNCHANGED vars
    BY <2>1 DEF vars, ClobberedHeld
  <2>2. CASE Overrun
    BY <2>2 DEF Overrun, ClobberedHeld, HeapInv, TypeOK, locals
  <2>3. ASSUME NEW t \in Threads, Run(t) \/ Call(t) PROVE ClobberedHeld'
    BY <2>3, ClobberedStep DEF HeapInv
  <2> QED BY <2>1, <2>2, <2>3 DEF Next
<1>3. HeapInv /\ ClobberedHeld => ClobberedNeverReused
  <2> SUFFICES ASSUME HeapInv, ClobberedHeld, NEW o \in Objects, canary[o] = "clobbered"
               PROVE  /\ \A i \in Items : o \notin FreeObjects(i)
                      /\ \A t \in Threads : pc[t] \in {"take", "canary", "sentinel"} => ptr[t] # o
    BY DEF ClobberedNeverReused
  <2>1. \A i \in Items : o \notin FreeObjects(i)
    BY DEF ClobberedHeld, FreeObjects, Holds, FreeSteps
  <2>2. ASSUME NEW t \in Threads, pc[t] = "take" PROVE ptr[t] # o
    BY <2>1, <2>2, HeldPointers, ItemTypes DEF HeapInv
  <2>3. ASSUME NEW t \in Threads, pc[t] \in {"canary", "sentinel"} PROVE ptr[t] # o
    <3>1. Holds(t)
      BY <2>3 DEF Holds
    <3>2. CASE o \in live
      BY <3>1, <3>2 DEF HeapInv, Ownership
    <3>3. ASSUME NEW u \in Threads, pc[u] \in {"check", "own"}, ptr[u] = o PROVE ptr[t] # o
      <4>1. Holds(u) /\ u # t
        BY <2>3, <3>3 DEF Holds, FreeSteps
      <4> QED BY <3>1, <3>3, <4>1 DEF HeapInv, Ownership
    <3> QED BY <3>2, <3>3 DEF ClobberedHeld
  <2> QED BY <2>1, <2>2, <2>3
<1> QED BY <1>1, <1>2, <1>3, Invariance, PTL DEF Spec
-----------------------------------------------------------------------------
(***************************************************************************)
(* Walks along the free lists                                              *)
(***************************************************************************)

\* What a walk is: a node for each number up to MaxObjects, and the sequence
\* of those that are not NULL.
Unfolds(at, first, succ) ==
  /\ at[0] = first
  /\ \A n \in 1 .. MaxObjects :
       /\ at[n-1] \in Objects => at[n] = succ[at[n-1]]
       /\ at[n-1] = NULL => at[n] = NULL
  /\ Walk(first, succ) =
       [n \in 1 .. Cardinality({k \in 0 .. MaxObjects : at[k] # NULL}) |-> at[n-1]]

\* The sequence a recursive walk yields, named position by position.
LEMMA WalkUnfolded ==
  ASSUME NEW first, NEW succ
  PROVE  \E at : Unfolds(at, first, succ)
<1>1. PICK after : after = [o \in Objects \cup {NULL, ALLOC} |->
                              IF o \in Objects THEN succ[o] ELSE NULL]
  OBVIOUS
<1>2. PICK N : N = MaxObjects
  OBVIOUS
<1>3. PICK at : at = CHOOSE g : g = [n \in 0 .. N |-> IF n = 0 THEN first ELSE after[g[n-1]]]
  OBVIOUS
<1>4. N \in Nat
  BY <1>2, ConstantsAssumption
<1>5. at = [n \in 0 .. N |-> IF n = 0 THEN first ELSE after[at[n-1]]]
  <2>1. \E g : g = [n \in 0 .. N |-> IF n = 0 THEN first ELSE after[g[n-1]]]
    <3>1. \E g : IsWalk(g, N, first, after)
      BY <1>4, WalkExists
    <3> QED BY <3>1 DEF IsWalk
  <2> QED BY <1>3, <2>1, Zenon
<1>6. at[0] = first /\ \A n \in 1 .. N : at[n] = after[at[n-1]]
  BY <1>4, <1>5
<1>7. Walk(first, succ) = [n \in 1 .. Cardinality({k \in 0 .. N : at[k] # NULL}) |-> at[n-1]]
  BY <1>1, <1>2, <1>3 DEF Walk
<1>8. \A x : x \in Objects => after[x] = succ[x]
  BY <1>1
<1>9. after[NULL] = NULL
  BY <1>1, PointerAssumption
<1>10. ASSUME NEW n \in 1 .. MaxObjects
       PROVE  /\ at[n-1] \in Objects => at[n] = succ[at[n-1]]
              /\ at[n-1] = NULL => at[n] = NULL
  <2>1. at[n] = after[at[n-1]]
    BY <1>2, <1>6
  <2> QED BY <1>8, <1>9, <2>1
<1>11. at[0] = first
  BY <1>6
<1>12. Walk(first, succ) =
         [n \in 1 .. Cardinality({k \in 0 .. MaxObjects : at[k] # NULL}) |-> at[n-1]]
  BY <1>2, <1>7
<1>13. Unfolds(at, first, succ)
  BY <1>10, <1>11, <1>12 DEF Unfolds
<1> QED BY <1>13

\* Links that lead from first through a sequence of objects and then nowhere.
Leads(q, first, succ) ==
  /\ q \in Seq(Objects)
  /\ first = IF q = <<>> THEN NULL ELSE q[1]
  /\ \A n \in 1 .. Len(q) : succ[q[n]] = IF n = Len(q) THEN NULL ELSE q[n+1]

\* The walk along them is that sequence.
LEMMA WalkIs ==
  ASSUME NEW q, NEW first, NEW succ, Leads(q, first, succ), Len(q) <= MaxObjects
  PROVE  Walk(first, succ) = q
<1> USE DEF Leads
<1>1. PICK at : Unfolds(at, first, succ)
  BY WalkUnfolded
<1>2. /\ Len(q) \in Nat /\ MaxObjects \in Nat
      /\ \A n \in 1 .. Len(q) : q[n] \in Objects /\ q[n] # NULL
      /\ q = <<>> <=> Len(q) = 0
  BY ConstantsAssumption, PointerAssumption
<1> DEFINE Good == {n \in Nat : at[n] = IF n < Len(q) THEN q[n+1] ELSE NULL}
<1>3. 0 .. MaxObjects \subseteq Good
  <2>1. 0 \in Good
    BY <1>1, <1>2 DEF Unfolds
  <2>2. ASSUME NEW n \in 0 .. MaxObjects - 1, n \in Good PROVE n + 1 \in Good
    <3>1. /\ n + 1 \in Nat
          /\ at[n] \in Objects => at[n+1] = succ[at[n]]
          /\ at[n] = NULL => at[n+1] = NULL
      <4>1. n + 1 \in 1 .. MaxObjects /\ n + 1 - 1 = n
        BY <1>2
      <4> QED BY <1>1, <4>1 DEF Unfolds
    <3>2. CASE n < Len(q)
      <4>1. at[n] = q[n+1] /\ n + 1 \in 1 .. Len(q)
        BY <1>2, <2>2, <3>2
      <4> QED BY <1>2, <3>1, <4>1
    <3>3. CASE ~ (n < Len(q))
      <4>1. at[n] = NULL
        BY <2>2, <3>3
      <4> QED BY <1>2, <3>1, <3>3, <4>1, PointerAssumption
    <3> QED BY <3>2, <3>3
  <2> HIDE DEF Good
  <2> QED BY <1>2, <2>1, <2>2, InductionUpTo
<1>4. {n \in 0 .. MaxObjects : at[n] # NULL} = 0 .. Len(q) - 1
  BY <1>2, <1>3
<1>5. Cardinality(0 .. Len(q) - 1) = Len(q)
  <2>1. 0 \in Int /\ Len(q) - 1 \in Int
    BY <1>2
  <2>2. Cardinality(0 .. Len(q) - 1) = IF 0 > Len(q) - 1 THEN 0 ELSE Len(q) - 1 - 0 + 1
    BY <2>1, FS_Interval
  <2> QED BY <1>2, <2>2
<1>6. \A n \in 1 .. Len(q) : at[n-1] = q[n]
  BY <1>2, <1>3
<1>7. q = [n \in 1 .. Len(q) |-> q[n]]
  OBVIOUS
<1> QED BY <1>1, <1>4, <1>5, <1>6, <1>7 DEF Unfolds

\* A free list as a sequence: q has every object of S once, in the order of
\* the links from first to last.
Lists(q, S, first, last, succ) ==
  /\ q \in Seq(Objects)
  /\ {q[n] : n \in 1 .. Len(q)} = S
  /\ \A m, n \in 1 .. Len(q) : q[m] = q[n] => m = n
  /\ first = IF q = <<>> THEN NULL ELSE q[1]
  /\ last = IF q = <<>> THEN NULL ELSE q[Len(q)]
  /\ \A n \in 1 .. Len(q) : succ[q[n]] = IF n = Len(q) THEN NULL ELSE q[n+1]

\* An item has MaxObjects objects.
LEMMA ItemBound ==
  ASSUME NEW i, NEW S, S \subseteq {o \in Objects : ItemOf(o) = i}
  PROVE  IsFiniteSet(S) /\ Cardinality(S) \in Nat /\ Cardinality(S) <= MaxObjects
<1>1. PICK f : f = [o \in S |-> o[3]]
  OBVIOUS
<1>2. f \in Injection(S, 0 .. MaxObjects - 1)
  <2>1. \A o \in S : f[o] \in 0 .. MaxObjects - 1
    BY <1>1 DEF Objects
  <2>2. \A o, p \in S : f[o] = f[p] => o = p
    BY <1>1, ObjectByNumber
  <2> QED BY <1>1, <2>1, <2>2 DEF Injection, IsInjective
<1>3. IsFiniteSet(0 .. MaxObjects - 1) /\ Cardinality(0 .. MaxObjects - 1) = MaxObjects
  <2>1. 0 \in Int /\ MaxObjects - 1 \in Int
    BY ConstantsAssumption
  <2>2. /\ IsFiniteSet(0 .. MaxObjects - 1)
        /\ Cardinality(0 .. MaxObjects - 1) = IF 0 > MaxObjects - 1 THEN 0 ELSE MaxObjects - 1 - 0 + 1
    BY <2>1, FS_Interval
  <2> QED BY <2>2, ConstantsAssumption
<1>4. IsFiniteSet(S) /\ Cardinality(S) <= Cardinality(0 .. MaxObjects - 1)
  BY <1>2, <1>3, FS_Injection
<1> QED BY <1>3, <1>4, FS_CardinalityType

\* The walk along a list is the list.
LEMMA WalkOfList ==
  ASSUME NEW i, NEW q, NEW S, NEW first, NEW last, NEW succ,
         S \subseteq {o \in Objects : ItemOf(o) = i}, Lists(q, S, first, last, succ)
  PROVE  Walk(first, succ) = q /\ Len(q) = Cardinality(S)
<1>1. q \in Seq(Objects) /\ Len(q) \in Nat
  BY DEF Lists
<1>2. Cardinality(S) = Len(q)
  <2>1. PICK n : n = Len(q)
    OBVIOUS
  <2>2. n \in Nat /\ S = {q[k] : k \in 1 .. n} /\ \A j, k \in 1 .. n : q[j] = q[k] => j = k
    BY <1>1, <2>1 DEF Lists
  <2>3. Cardinality({q[k] : k \in 1 .. n}) = n
    BY <2>2, DistinctCount
  <2> QED BY <2>1, <2>2, <2>3
<1>3. Len(q) <= MaxObjects
  BY <1>2, ItemBound
<1>4. Leads(q, first, succ)
  BY DEF Lists, Leads
<1>5. Walk(first, succ) = q
  BY <1>3, <1>4, WalkIs
<1> QED BY <1>2, <1>5

\* Other links that agree on the objects of a list do not change it.
LEMMA ListFrame ==
  ASSUME NEW q, NEW S, NEW first, NEW last, NEW succ, NEW succ2,
         Lists(q, S, first, last, succ), \A o \in S : succ2[o] = succ[o]
  PROVE  Lists(q, S, first, last, succ2)
BY DEF Lists

\* Taking the first object off.
LEMMA ListTail ==
  ASSUME NEW q, NEW S, NEW first, NEW last, NEW succ,
         Lists(q, S, first, last, succ), q # <<>>
  PROVE  /\ first = Head(q)
         /\ Lists(Tail(q), S \ {first}, succ[first],
                  IF succ[first] = NULL THEN NULL ELSE last, succ)
<1>1. /\ q \in Seq(Objects) /\ Len(q) \in Nat \ {0} /\ first = q[1] /\ last = q[Len(q)]
      /\ \A n \in 1 .. Len(q) : q[n] \in Objects /\ q[n] # NULL
      /\ \A m, n \in 1 .. Len(q) : q[m] = q[n] => m = n
      /\ S = {q[n] : n \in 1 .. Len(q)}
      /\ \A n \in 1 .. Len(q) : succ[q[n]] = IF n = Len(q) THEN NULL ELSE q[n+1]
  BY PointerAssumption DEF Lists
<1>2. PICK r : r = Tail(q)
  OBVIOUS
<1>3. /\ r \in Seq(Objects) /\ Len(r) = Len(q) - 1
      /\ \A n \in 1 .. Len(r) : r[n] = q[n+1]
  BY <1>1, <1>2
<1>4. \A n \in 1 .. Len(q) - 1 : n + 1 \in 1 .. Len(q) /\ n \in 1 .. Len(r)
  BY <1>1, <1>3
<1>5. {r[n] : n \in 1 .. Len(r)} = S \ {first}
  <2>1. ASSUME NEW o \in S \ {first} PROVE o \in {r[n] : n \in 1 .. Len(r)}
    <3>1. PICK n \in 1 .. Len(q) : o = q[n]
      BY <1>1
    <3>2. n # 1 /\ n - 1 \in 1 .. Len(r) /\ n - 1 + 1 = n
      BY <1>1, <1>3, <3>1
    <3> QED BY <1>3, <3>1, <3>2
  <2>2. ASSUME NEW n \in 1 .. Len(r) PROVE r[n] \in S \ {first}
    <3>1. n + 1 \in 1 .. Len(q) /\ n + 1 # 1 /\ 1 \in 1 .. Len(q)
      BY <1>1, <1>3
    <3> QED BY <1>1, <1>3, <3>1
  <2> QED BY <2>1, <2>2
<1>6. \A m, n \in 1 .. Len(r) : r[m] = r[n] => m = n
  BY <1>1, <1>3
<1>7. \A n \in 1 .. Len(r) : succ[r[n]] = IF n = Len(r) THEN NULL ELSE r[n+1]
  <2> SUFFICES ASSUME NEW n \in 1 .. Len(r)
               PROVE  succ[r[n]] = IF n = Len(r) THEN NULL ELSE r[n+1]
    OBVIOUS
  <2>1. n + 1 \in 1 .. Len(q) /\ succ[q[n+1]] = IF n + 1 = Len(q) THEN NULL ELSE q[n+1+1]
    BY <1>1, <1>3
  <2>2. n # Len(r) => n + 1 \in 1 .. Len(r)
    BY <1>3
  <2> QED BY <1>3, <2>1, <2>2
<1>8. /\ succ[first] = IF r = <<>> THEN NULL ELSE r[1]
      /\ succ[first] = NULL <=> r = <<>>
      /\ r # <<>> => last = r[Len(r)]
  <2>1. r = <<>> <=> Len(r) = 0
    BY <1>3
  <2>2. succ[first] = IF 1 = Len(q) THEN NULL ELSE q[2]
    <3>1. 1 \in 1 .. Len(q) /\ 1 + 1 = 2
      BY <1>1
    <3>2. succ[q[1]] = IF 1 = Len(q) THEN NULL ELSE q[1+1]
      BY <1>1, <3>1
    <3> QED BY <1>1, <3>1, <3>2
  <2>3. Len(q) # 1 => 2 \in 1 .. Len(q) /\ 1 \in 1 .. Len(r) /\ Len(r) \in 1 .. Len(r)
    BY <1>1, <1>3
  <2> QED BY <1>1, <1>3, <2>1, <2>2, <2>3
<1>9. Lists(r, S \ {first}, succ[first], IF succ[first] = NULL THEN NULL ELSE last, succ)
  BY <1>3, <1>5, <1>6, <1>7, <1>8 DEF Lists
<1> QED BY <1>1, <1>2, <1>9

\* Putting an object behind the last one.
LEMMA ListAppend ==
  ASSUME NEW q, NEW S, NEW first, NEW last, NEW succ, NEW succ2, NEW o \in Objects,
         Lists(q, S, first, last, succ), o \notin S,
         \A p \in S : succ2[p] = IF p = last THEN o ELSE succ[p],
         succ2[o] = NULL
  PROVE  Lists(Append(q, o), S \cup {o}, IF last = NULL THEN o ELSE first, o, succ2)
<1>1. /\ q \in Seq(Objects) /\ Len(q) \in Nat
      /\ \A n \in 1 .. Len(q) : q[n] \in Objects /\ q[n] # NULL /\ q[n] # o
      /\ \A m, n \in 1 .. Len(q) : q[m] = q[n] => m = n
      /\ S = {q[n] : n \in 1 .. Len(q)}
      /\ \A n \in 1 .. Len(q) : succ[q[n]] = IF n = Len(q) THEN NULL ELSE q[n+1]
  BY PointerAssumption DEF Lists
<1>2. PICK r : r = Append(q, o)
  OBVIOUS
<1>3. /\ r \in Seq(Objects) /\ Len(r) = Len(q) + 1 /\ r # <<>>
      /\ \A n \in 1 .. Len(q) : r[n] = q[n]
      /\ r[Len(q) + 1] = o
  BY <1>1, <1>2
<1>4. 1 .. Len(r) = 1 .. Len(q) \cup {Len(q) + 1}
  BY <1>1, <1>3
<1>5. {r[n] : n \in 1 .. Len(r)} = S \cup {o}
  BY <1>1, <1>3, <1>4
<1>6. \A m, n \in 1 .. Len(r) : r[m] = r[n] => m = n
  BY <1>1, <1>3, <1>4
<1>7. q = <<>> <=> Len(q) = 0
  BY <1>1
<1>8. /\ last = NULL <=> q = <<>>
      /\ q # <<>> => last = q[Len(q)] /\ first = q[1]
  BY <1>1, <1>7 DEF Lists
<1>9. (IF last = NULL THEN o ELSE first) = r[1]
  BY <1>1, <1>3, <1>7, <1>8
<1>10. \A n \in 1 .. Len(r) : succ2[r[n]] = IF n = Len(r) THEN NULL ELSE r[n+1]
  <2>1. succ2[r[Len(q) + 1]] = NULL
    BY <1>3
  <2>2. ASSUME NEW n \in 1 .. Len(q) PROVE succ2[r[n]] = r[n+1]
    <3>1. r[n] = q[n] /\ q[n] \in S /\ Len(q) # 0 /\ Len(q) \in 1 .. Len(q)
      BY <1>1, <1>3
    <3>2. succ2[q[n]] = IF q[n] = last THEN o ELSE succ[q[n]]
      BY <3>1
    <3>3. q[n] = last <=> n = Len(q)
      BY <1>1, <1>7, <1>8, <3>1
    <3>4. n # Len(q) => succ[q[n]] = q[n+1] /\ n + 1 \in 1 .. Len(q)
      BY <1>1
    <3> QED BY <1>3, <3>1, <3>2, <3>3, <3>4
  <2> QED BY <1>1, <1>3, <1>4, <2>1, <2>2
<1>11. Lists(r, S \cup {o}, IF last = NULL THEN o ELSE first, o, succ2)
  BY <1>3, <1>5, <1>6, <1>9, <1>10 DEF Lists
<1> QED BY <1>2, <1>11

-----------------------------------------------------------------------------
(***************************************************************************)
(* The free lists, from end to end                                         *)
(***************************************************************************)

\* The free list of every item is a sequence that has each free object once.
Exact ==
  \A i \in Items : \E q : Lists(q, FreeObjects(i), head[i], tail[i], next)

\* removeDLLHead takes the first object off the list of its item.
LEMMA RemoveList ==
  ASSUME HeapInv, NEW t \in Threads, RemoveWrite(t), NEW i \in Items, NEW q,
         Lists(q, FreeObjects(i), head[i], tail[i], next)
  PROVE  /\ i = MyItem(t) => q # <<>> /\ ptr[t] = Head(q)
         /\ Lists(IF i = MyItem(t) THEN Tail(q) ELSE q,
                  FreeObjects(i)', head'[i], tail'[i], next')
<1> DEFINE M == MyItem(t)
           h == ptr[t]
<1>1. /\ M \in Items /\ h = head[M] /\ link[t] = next[h] /\ h # NULL
      /\ h \in FreeObjects(M) /\ UNCHANGED next
  BY ItemTypes, HeldPointers DEF RemoveWrite, HeapInv, ListFresh, shadow
<1>2. FreeObjects(i)' = FreeObjects(i) \ {h}
  BY RemoveTakes
<1>3. CASE i # M
  <2>1. FreeObjects(i)' = FreeObjects(i)
    BY <1>1, <1>2, <1>3 DEF FreeObjects
  <2>2. head'[i] = head[i] /\ tail'[i] = tail[i]
    BY <1>1, <1>3 DEF RemoveWrite, HeapInv, TypeOK
  <2> QED BY <1>1, <1>3, <2>1, <2>2
<1>4. CASE i = M
  <2>1. q # <<>>
    BY <1>1, <1>4 DEF Lists
  <2>2. /\ head[i] = Head(q)
        /\ Lists(Tail(q), FreeObjects(i) \ {head[i]}, next[head[i]],
                 IF next[head[i]] = NULL THEN NULL ELSE tail[i], next)
    <3>1. PICK S, first, last, succ :
            S = FreeObjects(i) /\ first = head[i] /\ last = tail[i] /\ succ = next
      OBVIOUS
    <3>2. Lists(q, S, first, last, succ)
      BY <3>1
    <3>3. /\ first = Head(q)
          /\ Lists(Tail(q), S \ {first}, succ[first],
                   IF succ[first] = NULL THEN NULL ELSE last, succ)
      BY <2>1, <3>2, ListTail
    <3> QED BY <3>1, <3>3
  <2>3. head'[i] = next[h] /\ tail'[i] = IF next[h] = NULL THEN NULL ELSE tail[i]
    BY <1>1, <1>4 DEF RemoveWrite, HeapInv, TypeOK
  <2> QED BY <1>1, <1>2, <1>4, <2>1, <2>2, <2>3
<1> QED BY <1>3, <1>4

\* insertDLLTail puts the object behind the last one of its item.
LEMMA InsertList ==
  ASSUME HeapInv, NEW t \in Threads, InsertWrite(t), NEW i \in Items, NEW q,
         Lists(q, FreeObjects(i), head[i], tail[i], next)
  PROVE  Lists(IF i = ItemOf(ptr[t]) THEN Append(q, ptr[t]) ELSE q,
               FreeObjects(i)', head'[i], tail'[i], next')
<1> DEFINE I == ItemOf(ptr[t])
           n == ptr[t]
<1>1. Holds(t) /\ pc[t] = "link" /\ I \in Items /\ n \in Objects
  BY HeldPointers DEF InsertWrite, Holds, FreeSteps
<1>2. link[t] = tail[I] /\ next[n] = NULL
  BY <1>1 DEF HeapInv, ListFresh
<1>3. /\ FreeObjects(i)' = IF i = I THEN FreeObjects(i) \cup {n} ELSE FreeObjects(i)
      /\ ListShape(i)
      /\ n \notin FreeObjects(i)
  BY <1>1, InsertGives DEF HeapInv, FreeObjects
<1>4. /\ tail[I] # NULL => tail[I] \in FreeObjects(I)
      /\ \A o \in FreeObjects(I) : o \in Objects /\ ItemOf(o) = I /\ o # n
  BY <1>1, <1>2, LinkIsOwn DEF FreeObjects
<1>5. \A o \in Objects : next'[o] = IF tail[I] # NULL /\ o = tail[I] THEN n ELSE next[o]
  BY <1>1, <1>2, <1>4 DEF InsertWrite, HeapInv, TypeOK
<1>6. CASE i # I
  <2>1. head'[i] = head[i] /\ tail'[i] = tail[i]
    BY <1>1, <1>6 DEF InsertWrite, HeapInv, TypeOK
  <2>2. \A o \in FreeObjects(i) : next'[o] = next[o]
    BY <1>4, <1>5, <1>6 DEF FreeObjects
  <2>3. Lists(q, FreeObjects(i), head[i], tail[i], next')
    <3>1. PICK S, first, last, succ, succ2 :
            /\ S = FreeObjects(i) /\ first = head[i] /\ last = tail[i]
            /\ succ = next /\ succ2 = next'
      OBVIOUS
    <3>2. Lists(q, S, first, last, succ) /\ \A o \in S : succ2[o] = succ[o]
      BY <2>2, <3>1
    <3>3. Lists(q, S, first, last, succ2)
      BY <3>2, ListFrame
    <3> QED BY <3>1, <3>3
  <2> QED BY <1>3, <1>6, <2>1, <2>3
<1>7. CASE i = I
  <2>1. /\ tail'[i] = n
        /\ head'[i] = IF tail[i] = NULL THEN n ELSE head[i]
    BY <1>1, <1>2, <1>7 DEF InsertWrite, HeapInv, TypeOK
  <2>2. \A o \in FreeObjects(i) : next'[o] = IF o = tail[i] THEN n ELSE next[o]
    BY <1>4, <1>5, <1>7, PointerAssumption
  <2>3. next'[n] = NULL
    BY <1>1, <1>2, <1>4, <1>5
  <2>4. Lists(Append(q, n), FreeObjects(i) \cup {n},
              IF tail[i] = NULL THEN n ELSE head[i], n, next')
    <3>1. PICK S, first, last, succ, succ2, o :
            /\ S = FreeObjects(i) /\ first = head[i] /\ last = tail[i]
            /\ succ = next /\ succ2 = next' /\ o = n
      OBVIOUS
    <3>2. /\ Lists(q, S, first, last, succ) /\ o \in Objects /\ o \notin S
          /\ \A p \in S : succ2[p] = IF p = last THEN o ELSE succ[p]
          /\ succ2[o] = NULL
      BY <1>1, <1>3, <2>2, <2>3, <3>1
    <3>3. Lists(Append(q, o), S \cup {o}, IF last = NULL THEN o ELSE first, o, succ2)
      BY <3>2, ListAppend
    <3> QED BY <3>1, <3>3
  <2> QED BY <1>3, <1>7, <2>1, <2>4
<1> QED BY <1>6, <1>7

\* No other step changes a list.
LEMMA OtherList ==
  ASSUME HeapInv, NEW t \in Threads, Run(t) \/ Call(t),
         ~ (RemoveWrite(t) \/ InsertWrite(t)), NEW i \in Items, NEW q,
         Lists(q, FreeObjects(i), head[i], tail[i], next)
  PROVE  Lists(q, FreeObjects(i)', head'[i], tail'[i], next')
<1>1. FreeObjects(i)' = FreeObjects(i)
  BY OwnershipStep
<1>2. /\ head'[i] = head[i] /\ tail'[i] = tail[i]
      /\ \A o \in FreeObjects(i) : next'[o] = next[o]
  BY OtherWords
<1>3. PICK S, first, last, succ, succ2 :
        /\ S = FreeObjects(i) /\ first = head[i] /\ last = tail[i]
        /\ succ = next /\ succ2 = next'
  OBVIOUS
<1>4. Lists(q, S, first, last, succ) /\ \A o \in S : succ2[o] = succ[o]
  BY <1>2, <1>3
<1>5. Lists(q, S, first, last, succ2)
  BY <1>4, ListFrame
<1> QED BY <1>1, <1>2, <1>3, <1>5

\* Every list stays exact.
LEMMA ExactInvariant == Spec => []Exact
<1>1. Init => Exact
  <2> SUFFICES ASSUME Init, NEW i \in Items
               PROVE  Lists(<<>>, FreeObjects(i), head[i], tail[i], next)
    BY DEF Exact
  <2>1. FreeObjects(i) = {}
    <3> SUFFICES ASSUME NEW o \in Objects, ItemOf(o) = i PROVE ~(o[3] < position[i])
      BY DEF FreeObjects
    <3> QED BY ObjectByNumber DEF Init
  <2>2. head[i] = NULL /\ tail[i] = NULL
    BY DEF Init
  <2> QED BY <2>1, <2>2 DEF Lists
<1>2. HeapInv /\ Exact /\ [Next]_vars => Exact'
  <2> SUFFICES ASSUME HeapInv, Exact, [Next]_vars, NEW i \in Items
               PROVE  \E q : Lists(q, FreeObjects(i)', head'[i], tail'[i], next')
    BY DEF Exact
  <2>1. PICK q : Lists(q, FreeObjects(i), head[i], tail[i], next)
    BY DEF Exact
  <2>2. CASE UNCHANGED vars
    <3>1. FreeObjects(i)' = FreeObjects(i)
      BY <2>2 DEF vars, FreeObjects, Holds
    <3> QED BY <2>1, <2>2, <3>1 DEF vars
  <2>3. CASE Overrun
    <3>1. FreeObjects(i)' = FreeObjects(i) /\ UNCHANGED <<head, tail, next>>
      BY <2>3 DEF Overrun, FreeObjects, Holds, lists, bump, locals
    <3> QED BY <2>1, <3>1
  <2>4. ASSUME NEW t \in Threads, Run(t) \/ Call(t)
        PROVE  \E r : Lists(r, FreeObjects(i)', head'[i], tail'[i], next')
    BY <2>1, <2>4, RemoveList, InsertList, OtherList
  <2> QED BY <2>2, <2>3, <2>4 DEF Next
<1> QED BY <1>1, <1>2, Invariance, PTL DEF Spec

\* insertDLLTail / removeDLLHead: a walk from the head of any free list, of
\* whatever length, meets each freed object of the item once, and none else.
THEOREM FreeListsExact == Spec => []FreeListExact
<1>1. ASSUME Exact PROVE FreeListExact
  <2> SUFFICES ASSUME NEW i \in Items
               PROVE  LET c == Chain(i)
                      IN /\ {c[n] : n \in DOMAIN c} = FreeObjects(i)
                         /\ Len(c) = Cardinality(FreeObjects(i))
                         /\ tail[i] = IF c = <<>> THEN NULL ELSE c[Len(c)]
    BY DEF FreeListExact
  <2>1. PICK q : Lists(q, FreeObjects(i), head[i], tail[i], next)
    BY <1>1 DEF Exact
  <2>2. Chain(i) = q /\ Len(q) = Cardinality(FreeObjects(i))
    <3>1. PICK S, first, last, succ :
            S = FreeObjects(i) /\ first = head[i] /\ last = tail[i] /\ succ = next
      OBVIOUS
    <3>2. Lists(q, S, first, last, succ) /\ S \subseteq {o \in Objects : ItemOf(o) = i}
      BY <2>1, <3>1 DEF FreeObjects
    <3>3. Walk(first, succ) = q /\ Len(q) = Cardinality(S)
      BY <3>2, WalkOfList
    <3> QED BY <3>1, <3>3 DEF Chain
  <2>3. q \in Seq(Objects) /\ DOMAIN q = 1 .. Len(q)
    BY <2>1 DEF Lists
  <2> QED BY <2>1, <2>2, <2>3 DEF Lists
<1> QED BY <1>1, ExactInvariant, PTL

-----------------------------------------------------------------------------
(***************************************************************************)
(* The refinement of FifoPool                                              *)
(***************************************************************************)

\* What a walk along a free list meets, before and after a step.
LEMMA ChainIs ==
  ASSUME NEW i \in Items, NEW q
  PROVE  /\ Lists(q, FreeObjects(i), head[i], tail[i], next) => Chain(i) = q
         /\ Lists(q, FreeObjects(i)', head'[i], tail'[i], next') => Chain(i)' = q
<1>1. ASSUME Lists(q, FreeObjects(i), head[i], tail[i], next) PROVE Chain(i) = q
  <2>1. PICK S, first, last, succ :
          S = FreeObjects(i) /\ first = head[i] /\ last = tail[i] /\ succ = next
    OBVIOUS
  <2>2. Lists(q, S, first, last, succ) /\ S \subseteq {o \in Objects : ItemOf(o) = i}
    BY <1>1, <2>1 DEF FreeObjects
  <2>3. Walk(first, succ) = q /\ Len(q) = Cardinality(S)
    BY <2>2, WalkOfList
  <2> QED BY <2>1, <2>3 DEF Chain
<1>2. ASSUME Lists(q, FreeObjects(i)', head'[i], tail'[i], next') PROVE Chain(i)' = q
  <2>1. PICK S, first, last, succ :
          S = FreeObjects(i)' /\ first = head'[i] /\ last = tail'[i] /\ succ = next'
    OBVIOUS
  <2>2. Lists(q, S, first, last, succ) /\ S \subseteq {o \in Objects : ItemOf(o) = i}
    BY <1>2, <2>1 DEF FreeObjects
  <2>3. Walk(first, succ) = q /\ Len(q) = Cardinality(S)
    BY <2>2, WalkOfList
  <2> QED BY <2>1, <2>3 DEF Chain
<1> QED BY <1>1, <1>2

\* A step takes the first object off one list, adds one behind another, or
\* leaves all lists as they are.
LEMMA QueueStep ==
  ASSUME HeapInv, Exact, NEW t \in Threads, Run(t) \/ Call(t)
  PROVE  /\ RemoveWrite(t) =>
              /\ Queue[MyItem(t)] # <<>> /\ Head(Queue[MyItem(t)]) = ptr[t]
              /\ Queue' = [Queue EXCEPT ![MyItem(t)] = Tail(@)]
         /\ InsertWrite(t) =>
              Queue' = [Queue EXCEPT ![ItemOf(ptr[t])] = Append(@, ptr[t])]
         /\ ~ (RemoveWrite(t) \/ InsertWrite(t)) => Queue' = Queue
<1>1. PICK Q : \A i \in Items : Lists(Q[i], FreeObjects(i), head[i], tail[i], next)
  <2>1. PICK Q : Q = [i \in Items |-> CHOOSE q : Lists(q, FreeObjects(i), head[i], tail[i], next)]
    OBVIOUS
  <2>2. ASSUME NEW i \in Items PROVE Lists(Q[i], FreeObjects(i), head[i], tail[i], next)
    <3>1. \E q : Lists(q, FreeObjects(i), head[i], tail[i], next)
      BY DEF Exact
    <3> QED BY <2>1, <3>1
  <2> QED BY <2>2
<1>2. \A i \in Items : Queue[i] = Q[i]
  BY <1>1, ChainIs DEF Queue
<1>3. ASSUME RemoveWrite(t)
      PROVE  /\ Queue[MyItem(t)] # <<>> /\ Head(Queue[MyItem(t)]) = ptr[t]
             /\ Queue' = [Queue EXCEPT ![MyItem(t)] = Tail(@)]
  <2>1. MyItem(t) \in Items
    BY ItemTypes DEF HeapInv
  <2>2. Q[MyItem(t)] # <<>> /\ ptr[t] = Head(Q[MyItem(t)])
    BY <1>1, <1>3, <2>1, RemoveList
  <2>3. \A i \in Items : Chain(i)' = IF i = MyItem(t) THEN Tail(Q[i]) ELSE Q[i]
    BY <1>1, <1>3, RemoveList, ChainIs
  <2> QED BY <1>2, <2>1, <2>2, <2>3 DEF Queue
<1>4. ASSUME InsertWrite(t)
      PROVE  Queue' = [Queue EXCEPT ![ItemOf(ptr[t])] = Append(@, ptr[t])]
  <2>1. \A i \in Items : Chain(i)' = IF i = ItemOf(ptr[t]) THEN Append(Q[i], ptr[t]) ELSE Q[i]
    BY <1>1, <1>4, InsertList, ChainIs
  <2> QED BY <1>2, <2>1 DEF Queue
<1>5. ASSUME ~ (RemoveWrite(t) \/ InsertWrite(t)) PROVE Queue' = Queue
  <2>1. \A i \in Items : Chain(i)' = Q[i]
    BY <1>1, <1>5, OtherList, ChainIs
  <2> QED BY <1>2, <2>1 DEF Queue
<1> QED BY <1>3, <1>4, <1>5

\* What the steps do to the objects that are out.
LEMMA OutStep ==
  ASSUME HeapInv, NEW t \in Threads, Run(t) \/ Call(t)
  PROVE  Out' = IF RemoveWrite(t) \/ BumpIncrement(t) THEN Out \cup {ptr[t]}
                ELSE IF InsertWrite(t) THEN Out \ {ptr[t]} ELSE Out
<1>1. CASE RemoveWrite(t) \/ BumpIncrement(t)
  <2>1. /\ UNCHANGED <<live, ptr>> /\ Holds(t)'
        /\ \A u \in Threads \ {t} : Holds(u)' <=> Holds(u)
        /\ ~ Holds(t)
    BY <1>1 DEF RemoveWrite, BumpIncrement, Goto, Holds, FreeSteps, locals, bump, HeapInv, TypeOK
  <2>2. {u \in Threads : Holds(u)'} = {u \in Threads : Holds(u)} \cup {t}
    BY <2>1
  <2> QED BY <1>1, <2>1, <2>2 DEF Out
<1>2. CASE InsertWrite(t)
  <2>1. /\ live' = live /\ Holds(t) /\ ~Holds(t)'
        /\ \A u \in Threads \ {t} : (Holds(u)' <=> Holds(u)) /\ ptr'[u] = ptr[u]
    BY <1>2 DEF InsertWrite, Leave, Goto, Holds, FreeSteps, bump, HeapInv, TypeOK
  <2>2. /\ ptr[t] \notin live
        /\ \A u \in Threads \ {t} : Holds(u) => ptr[u] # ptr[t]
    BY <2>1 DEF HeapInv, Ownership
  <2>3. ~ (RemoveWrite(t) \/ BumpIncrement(t))
    BY <1>2 DEF InsertWrite, RemoveWrite, BumpIncrement
  <2> QED BY <1>2, <2>1, <2>2, <2>3 DEF Out
<1>3. CASE MallocReturn(t)
  <2>1. /\ live' = live \cup {ptr[t]} /\ Holds(t) /\ ~Holds(t)'
        /\ \A u \in Threads \ {t} : (Holds(u)' <=> Holds(u)) /\ ptr'[u] = ptr[u]
    BY <1>3 DEF MallocReturn, Leave, Goto, Holds, FreeSteps, bump, HeapInv, TypeOK
  <2>2. ~ (RemoveWrite(t) \/ BumpIncrement(t) \/ InsertWrite(t))
    BY <1>3 DEF MallocReturn, RemoveWrite, BumpIncrement, InsertWrite
  <2> QED BY <1>3, <2>1, <2>2 DEF Out
<1>4. CASE FreeCall(t)
  <2>1. PICK o \in live : ptr' = [ptr EXCEPT ![t] = o] /\ live' = live \ {o}
    BY <1>4 DEF FreeCall
  <2>2. /\ ptr'[t] = o /\ ~Holds(t) /\ Holds(t)'
        /\ \A u \in Threads \ {t} : (Holds(u)' <=> Holds(u)) /\ ptr'[u] = ptr[u]
    BY <1>4, <2>1 DEF FreeCall, Goto, Holds, FreeSteps, bump, HeapInv, TypeOK
  <2>3. ~ (RemoveWrite(t) \/ BumpIncrement(t) \/ InsertWrite(t))
    BY <1>4 DEF FreeCall, RemoveWrite, BumpIncrement, InsertWrite
  <2> QED BY <2>1, <2>2, <2>3 DEF Out
<1>5. CASE QuietStep(t)
  <2>1. Quiet
    BY <1>5, QuietSteps DEF HeapInv
  <2>2. pc[t] \notin {"take", "incr", "link"} \/ exited' # exited
    BY <1>5 DEF QuietStep, MallocCall, MallocLock, RemoveRead, MallocUnlock, BumpRead,
            MallocCanary, FreeCheckStatus, FreeCheckCanary, NeighborShadow,
            NeighborCanary, FreeLock, InsertRead
  <2>3. ~ (RemoveWrite(t) \/ BumpIncrement(t) \/ InsertWrite(t))
    BY <2>2 DEF RemoveWrite, BumpIncrement, InsertWrite
  <2> QED BY <2>1, <2>3 DEF Quiet, Out
<1> QED BY <1>1, <1>2, <1>3, <1>4, <1>5 DEF Run, Call, Malloc, Free, QuietStep

\* Every step of the heap is one of the pools or none: malloc takes effect
\* when it writes the list header or the bump pointer, free when it links the
\* object.
LEMMA PoolStep == HeapInv /\ Exact /\ [Next]_vars => [Pool!Next]_(Pool!vars)
<1> SUFFICES ASSUME HeapInv, Exact, [Next]_vars
             PROVE  Pool!Next \/ UNCHANGED <<Queue, position, Out>>
  BY DEF Pool!vars
<1>1. CASE UNCHANGED vars
  BY <1>1 DEF vars, Queue, Chain, Out, Holds
<1>2. CASE Overrun
  BY <1>2 DEF Overrun, Queue, Chain, Out, Holds, lists, bump, locals
<1>3. ASSUME NEW t \in Threads, Run(t) \/ Call(t), RemoveWrite(t) PROVE Pool!Next
  <2>1. MyItem(t) \in Items
    BY ItemTypes DEF HeapInv
  <2>2. /\ Queue[MyItem(t)] # <<>> /\ Head(Queue[MyItem(t)]) = ptr[t]
        /\ Queue' = [Queue EXCEPT ![MyItem(t)] = Tail(@)]
    BY <1>3, QueueStep
  <2>3. Out' = Out \cup {ptr[t]} /\ UNCHANGED position
    BY <1>3, OutStep DEF RemoveWrite, bump
  <2>4. Pool!Reuse(MyItem(t))
    BY <2>2, <2>3 DEF Pool!Reuse
  <2> QED BY <2>1, <2>4 DEF Pool!Next
<1>4. ASSUME NEW t \in Threads, Run(t) \/ Call(t), BumpIncrement(t) PROVE Pool!Next
  <2> DEFINE M == MyItem(t)
  <2>1. M \in Items /\ position[M] \in Nat /\ PageObjects \in Nat
    BY ItemTypes, ConstantsAssumption DEF HeapInv, TypeOK
  <2>2. ptr[t] = <<M[1], M[2], position[M]>> /\ position[M] < MaxObjects
    BY <1>4 DEF BumpIncrement, HeapInv, BumpFresh, MyItem
  <2>3. Out' = Out \cup {ptr[t]}
    BY <1>4, OutStep
  <2>4. Queue' = Queue
    <3>1. ~ (RemoveWrite(t) \/ InsertWrite(t))
      BY <1>4 DEF BumpIncrement, RemoveWrite, InsertWrite
    <3> QED BY <1>4, <3>1, QueueStep
  <2>5. \E skipped \in {0, PageObjects} :
          position' = [position EXCEPT ![M] = position[M] + 1 + skipped]
    <3>1. CASE position' = [position EXCEPT ![M] = position[M] + 1]
      <4>1. position[M] + 1 + 0 = position[M] + 1
        BY <2>1
      <4> QED BY <3>1, <4>1
    <3>2. CASE position' = [position EXCEPT ![M] = position[M] + 1 + PageObjects]
      BY <3>2
    <3> QED BY <1>4, <3>1, <3>2 DEF BumpIncrement
  <2>6. Pool!Extend(M)
    BY <2>2, <2>3, <2>4, <2>5 DEF Pool!Extend
  <2> QED BY <2>1, <2>6 DEF Pool!Next
<1>5. ASSUME NEW t \in Threads, Run(t) \/ Call(t), InsertWrite(t) PROVE Pool!Next
  <2>1. ptr[t] \in Out
    BY <1>5 DEF InsertWrite, Out, Holds, FreeSteps
  <2>2. Queue' = [Queue EXCEPT ![ItemOf(ptr[t])] = Append(@, ptr[t])]
    BY <1>5, QueueStep
  <2>3. Out' = Out \ {ptr[t]} /\ UNCHANGED position
    <3>1. ~ (RemoveWrite(t) \/ BumpIncrement(t))
      BY <1>5 DEF InsertWrite, RemoveWrite, BumpIncrement
    <3> QED BY <1>5, <3>1, OutStep DEF InsertWrite, bump
  <2>4. Pool!Return(ptr[t])
    BY <2>2, <2>3 DEF Pool!Return, ItemOf
  <2> QED BY <2>1, <2>4 DEF Pool!Next
<1>6. ASSUME NEW t \in Threads, Run(t) \/ Call(t),
             ~ (RemoveWrite(t) \/ BumpIncrement(t) \/ InsertWrite(t))
      PROVE  UNCHANGED <<Queue, position, Out>>
  <2>1. Queue' = Queue /\ Out' = Out
    BY <1>6, QueueStep, OutStep
  <2>2. position' = position
    BY <1>6 DEF Run, Call, Malloc, Free, bump,
       MallocCall, MallocLock, RemoveRead, MallocUnlock, BumpRead,
       MallocCanary, MallocReturn, FreeCall, FreeCheckStatus, FreeCheckCanary,
       NeighborShadow, NeighborCanary, FreeLock, InsertRead
  <2> QED BY <2>1, <2>2
<1> QED BY <1>1, <1>2, <1>3, <1>4, <1>5, <1>6 DEF Next

\* allocateSmallObject / freeSmallObject: for any number of threads, items and
\* objects, whatever the interleaving, the heap behaves as pools that give out
\* the object that was freed first, or one that was never used.
THEOREM HeapIsPools == Spec => RefinesFifoPool
<1>1. Init => Pool!Init
  <2> SUFFICES ASSUME Init PROVE Pool!Init
    OBVIOUS
  <2>1. \A t \in Threads : ~Holds(t)
    BY DEF Init, Holds, FreeSteps
  <2>2. Out = {}
    BY <2>1 DEF Init, Out
  <2>3. ASSUME NEW i \in Items PROVE Chain(i) = <<>>
    <3>1. FreeObjects(i) = {}
      <4> SUFFICES ASSUME NEW o \in Objects, ItemOf(o) = i PROVE ~(o[3] < position[i])
        BY DEF FreeObjects
      <4> QED BY ObjectByNumber DEF Init
    <3>2. Lists(<<>>, FreeObjects(i), head[i], tail[i], next)
      BY <3>1 DEF Init, Lists
    <3> QED BY <3>2, ChainIs
  <2> QED BY <2>2, <2>3 DEF Init, Pool!Init, Queue
<1> QED BY <1>1, PoolStep, Invariance, ExactInvariant, PTL DEF Spec, RefinesFifoPool, Pool!Spec
=============================================================================
