----------------------------- MODULE BumpPointer -----------------------------
(***************************************************************************)
(* The bump pointer of one set item of one bag, at the level of addresses: *)
(* the objects it hands out, its moves from heap to heap, and the guard    *)
(* pages it sets on its way (bibopheap.hh).                                *)
(***************************************************************************)
EXTENDS BibopLayout

CONSTANT
  HeapsUsed  \* bound: the pointer stops when it has passed so many heaps

ASSUME HeapsUsedAssumption == HeapsUsed \in Nat \ {0}

VARIABLES
  thread, bag, setItem,  \* whose pointer it is: fixed
  position,              \* position[setItem]
  lastofCurBag,          \* lastofCurBag[setItem]
  handed,                \* addresses of the objects handed out
  bagGuards,             \* the heaps' bag starts setGuardPage was called for
  randomGuards           \* where tryRandomGuardPage has put guards

vars == <<bagSize, thread, bag, setItem, position, lastofCurBag, handed,
          bagGuards, randomGuards>>

\* initialize(): every bag of every thread gets its first position in the
\* heap of its set item, and the guard of that heap.
Init ==
  /\ bagSize \in BagSizes
  /\ thread \in 0 .. NumThreads - 1
  /\ bag \in UsableBags
  /\ setItem \in 0 .. BagSetSize - 1
  /\ position = StartOffset(thread, bag) + setItem * HeapSize
  /\ lastofCurBag = LastOfBag(position, bag)
  /\ handed = {}
  /\ bagGuards = {position}
  /\ randomGuards = {}

\* Mutant: the last object of a bag is not told from the others.
IncrementedTooFar(p, last, starts) ==
  IF p <= last
    THEN [position |-> p + ClassSize(bag), last |-> last, starts |-> starts]
    ELSE LET q == p + NextHeapObjectOffset(bag)
         IN [position |-> q, last |-> LastOfBag(q, bag), starts |-> starts \cup {q}]

\* incrementBumpPointer
Incremented(p, last, starts) ==
  IF p < last
    THEN [position |-> p + ClassSize(bag), last |-> last, starts |-> starts]
    ELSE LET q == p + NextHeapObjectOffset(bag)
         IN [position |-> q, last |-> LastOfBag(q, bag), starts |-> starts \cup {q}]

Move(new) ==
  /\ position' = new.position
  /\ lastofCurBag' = new.last
  /\ bagGuards' = new.starts

After == Incremented(position, lastofCurBag, bagGuards)

\* Mutant: the whole page is stepped over before the pointer is incremented.
SkippedWhole ==
  Incremented(After.position + GuardUnit(bag), After.last, After.starts)

\* tryRandomGuardPage: to the last object of the page, then one further.
Skipped ==
  Incremented(After.position + GuardUnit(bag) - ClassSize(bag), After.last,
              After.starts)

\* The bump path of allocateSmallObject ...
Allocate ==
  /\ position < HeapsUsed * HeapSize
  /\ handed' = handed \cup {position}
  /\ Move(After)
  /\ UNCHANGED <<bagSize, thread, bag, setItem, randomGuards>>

\* ... and when the new position is at a page boundary, and the random number
\* is small enough, a guard page there.
AllocateAndGuard ==
  /\ position < HeapsUsed * HeapSize
  /\ After.position % PageSize = 0
  /\ handed' = handed \cup {position}
  /\ randomGuards' = randomGuards \cup {After.position}
  /\ Move(Skipped)
  /\ UNCHANGED <<bagSize, thread, bag, setItem>>

Next == Allocate \/ AllocateAndGuard

Spec == Init /\ [][Next]_vars
-----------------------------------------------------------------------------
(***************************************************************************)
(* Properties                                                              *)
(***************************************************************************)
Bytes(addr) == addr .. addr + ClassSize(bag) - 1

Protected ==
  (UNION {GuardBytes(start, bag) : start \in bagGuards})
    \cup (UNION {guard .. guard + GuardUnit(bag) - 1 : guard \in randomGuards})

\* The number of the object at an address among those of its set item.
Number(addr) ==
  (HeapIndex(addr) \div BagSetSize) * NumObjects(bag)
    + (addr % bagSize) \div ClassSize(bag)

\* incrementBumpPointer / setGuardPage / tryRandomGuardPage: no byte of an
\* object that was handed out lies in a guard page, be the guard set before
\* or after.
ObjectsAccessible ==
  (UNION {Bytes(p) : p \in handed}) \cap Protected = {}

\* setGuardPage: writing past the last object of a bag meets a guard, in every
\* heap objects were handed out from, and behind the last usable bag the guard goes
\* on up to the bags of the next thread.
BagEndsGuarded ==
  LET start(p)  == p - (p % bagSize)
      next(p)   == IF bag = LastUsableBag
                     THEN HeapIndex(p) * HeapSize + StartOffset(thread + 1, 0)
                     ELSE start(p) + bagSize
      behind(p) == start(p) + NumObjects(bag) * ClassSize(bag) .. next(p) - 1
  IN UNION {behind(p) : p \in handed} \subseteq Protected

\* getShadowObjectInfo: given nothing but the address, free finds the thread,
\* the bag and the set item that malloc took the object from.
LookupFindsOwner ==
  \A p \in handed :
    /\ ThreadOf(p) = thread
    /\ BagOf(p) = bag
    /\ SetItemOf(p) = setItem

\* getAddrFromShadowInfo: it undoes getShadowObjectInfo, so that the object
\* malloc takes off a free list is the one free has put there; and the shadow
\* word is one of the bag's own.
ShadowRoundTrip ==
  \A p \in handed :
    LET shadow == Shadow(p, thread, bag)
    IN /\ AddrFromShadow(shadow, thread, bag) = p
       /\ ShadowObjectIndex(shadow, thread, bag) \in 0 .. NumObjects(bag) - 1

\* getNextCanaryNeighbor: its two directions lead to the objects with the next
\* lower and the next higher number, across heaps too, and only the first
\* object of a set item has none on its left.
NeighborsAdjacent ==
  \A p \in handed :
    LET shadow == Shadow(p, thread, bag)
        numbers(shadows) == {Number(AddrFromShadow(s, thread, bag)) : s \in shadows}
    IN /\ numbers(LeftNeighbor(shadow, thread, bag)) = {Number(p) - 1} \ {-1}
       /\ numbers(RightNeighbor(shadow, thread, bag)) = {Number(p) + 1}

\* allocShadowMem: the shadow word of every object lies in the memory that was
\* mapped for shadow words.
ShadowWordMapped ==
  \A p \in handed : Shadow(p, thread, bag) + InfoSize <= ShadowMemEnd

-----------------------------------------------------------------------------
(***************************************************************************)
(* The abstract numbering                                                  *)
(***************************************************************************)
ClassSizes == {MinBlockSize * 2 ^ b : b \in 0 .. NumBags}

\* The numbers of the objects inside random guard pages.
SkippedNumbers ==
  UNION {Number(g) .. Number(g) + GuardUnit(bag) \div ClassSize(bag) - 1 :
           g \in randomGuards}

Numbers == INSTANCE ObjectNumbers WITH
  PagesAt <- [c \in ClassSizes |-> IF c < PageSize THEN PageSize \div c ELSE 1],
  size    <- ClassSize(bag),
  number  <- Number(position),
  skipped <- SkippedNumbers

\* Read as numbers, the addresses the bump pointer hands out are consecutive,
\* within a bag and from one heap to the next; a random guard page skips the
\* numbers of one page.  BibopHeap rests on this numbering.
RefinesObjectNumbers == Numbers!Spec
=============================================================================
