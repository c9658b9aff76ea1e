----------------------------- MODULE BibopLayout -----------------------------
(***************************************************************************)
(* The geometry of the small-object heap (bibopheap.hh): where bags,       *)
(* objects, guard pages and shadow words are, and the address arithmetic   *)
(* that goes from one to another.                                          *)
(*                                                                         *)
(* Addresses are offsets from _heapBegin and from _shadowMemBegin.  Every  *)
(* size is a power of two, so x & (n - 1) is x % n and x >> LOG2(n) is     *)
(* x \div n.  The largest heap has 2^46 bytes: nothing here overflows.     *)
(***************************************************************************)
EXTENDS Integers, FiniteSets

CONSTANTS
  NumHeaps,        \* BIBOP_NUM_HEAPS
  BagSetSize,      \* BIBOP_BAG_SET_SIZE
  NumThreads,      \* MAX_ALIVE_THREADS, BIBOP_NUM_SUBHEAPS
  NumBags,         \* BIBOP_NUM_BAGS
  MinBlockSize,    \* BIBOP_MIN_BLOCK_SIZE
  LargeThreshold,  \* LARGE_OBJECT_THRESHOLD
  BagSizes,        \* the powers of two MIN_ .. MAX_RANDOM_BAG_SIZE
  PageSize,        \* PAGESIZE, PageSize
  InfoSize         \* sizeof(shadowObjectInfo)

VARIABLE
  bagSize  \* _bibopBagSize: drawn by initialize(), fixed from then on

ASSUME LayoutAssumption ==
  /\ {NumHeaps, BagSetSize, NumThreads, NumBags, MinBlockSize, LargeThreshold,
      PageSize, InfoSize} \subseteq Nat \ {0}
  /\ BagSizes \subseteq Nat
  \* The assertions of initialize().
  /\ \A size \in BagSizes : size >= LargeThreshold
  /\ \E k \in 0 .. BagSetSize : 2 ^ k = BagSetSize
  /\ \E k \in 0 .. InfoSize : 2 ^ k = InfoSize

\* The values of xdefines.hh: powers of two, not more classes than bags, and
\* two pages at least in the smallest bag.
ASSUME PowersAssumption ==
  /\ \A size \in {MinBlockSize, LargeThreshold, PageSize} \cup BagSizes :
       \E k \in 0 .. size : 2 ^ k = size
  /\ MinBlockSize <= LargeThreshold
  /\ LargeThreshold < MinBlockSize * 2 ^ NumBags
  /\ 2 * PageSize <= LargeThreshold

\* The number of bits of n: LOG2(n) is one less.
Bits(n) == CHOOSE k \in 0 .. n : n < 2 ^ k /\ \A j \in 0 .. k - 1 : n >= 2 ^ j
Log2(n) == Bits(n) - 1

-----------------------------------------------------------------------------
(***************************************************************************)
(* initialize()                                                            *)
(***************************************************************************)
LastUsableSize ==
  IF bagSize > LargeThreshold THEN LargeThreshold ELSE bagSize

NumUsableBags ==
  LET n == Log2(LastUsableSize) - Log2(MinBlockSize) + 1
  IN IF n > NumBags THEN NumBags ELSE n

UsableBags    == 0 .. NumUsableBags - 1
LastUsableBag == NumUsableBags - 1

ThreadSize == bagSize * NumBags
HeapSize   == ThreadSize * NumThreads

ClassSize(b) == MinBlockSize * 2 ^ b

\* One page, or one object if that is larger.
GuardUnit(b) == IF ClassSize(b) > PageSize THEN ClassSize(b) ELSE PageSize

\* How far before the end of the bag its guard begins.
GuardOffset(b) ==
  IF b = LastUsableBag /\ bagSize = LastUsableSize THEN 0 ELSE GuardUnit(b)

\* Mutant: the guard behind the last usable bag covers nothing of the bags
\* that are not used.
GuardSizeUnextended(b) == GuardOffset(b)

\* The guard of the last usable bag goes on over the bags that are not used.
GuardSize(b) ==
  IF b = LastUsableBag
    THEN GuardOffset(b) +
         (NumBags - Log2(LastUsableSize) + Log2(MinBlockSize) - 1) * bagSize
    ELSE GuardOffset(b)

\* numObjects of a bag; the guard is left out unless the bag has one object.
NumObjects(b) ==
  LET n == bagSize \div ClassSize(b)
  IN IF n <= 1 THEN n
     ELSE IF ClassSize(b) < PageSize THEN n - PageSize \div ClassSize(b)
     ELSE n - 1

StartOffset(t, b) == t * ThreadSize + b * bagSize

\* Objects of the bags below b of one thread.
ObjectsBelow[b \in 0 .. NumBags] ==
  IF b = 0 THEN 0 ELSE ObjectsBelow[b-1] + NumObjects(b-1)

ObjectsPerThread == ObjectsBelow[NumUsableBags]

StartShadowMemOffset(t, b) ==
  (t * ObjectsPerThread + ObjectsBelow[b]) * InfoSize

\* Shadow memory is laid out with a power of two per heap ...
ShadowMemSizePerHeap     == NumThreads * ObjectsPerThread * InfoSize
ShadowMemSizePerHeapCeil == 2 ^ Bits(ShadowMemSizePerHeap - 1)

\* ... and mapped, by allocShadowMem, without that rounding.
ShadowMemEnd == NumHeaps * ShadowMemSizePerHeap

\* getLastOfBag
LastOfBag(start, b) == start + bagSize - GuardOffset(b) - ClassSize(b)

\* Mutant: the guard is forgotten.
NextHeapOffsetNoGuard(b) ==
  HeapSize * (BagSetSize - 1) + (HeapSize - bagSize + ClassSize(b))

\* From the last object of a bag to the first one BagSetSize heaps further.
NextHeapObjectOffset(b) ==
  HeapSize * (BagSetSize - 1) + (HeapSize - bagSize + ClassSize(b) + GuardOffset(b))

NextShadowHeapObjectOffset(b) ==
  ShadowMemSizePerHeapCeil * BagSetSize - (NumObjects(b) - 1) * InfoSize

\* setGuardPage: the bytes made inaccessible for a bag that starts at "start".
GuardBytes(start, b) ==
  LET from == start + bagSize - GuardOffset(b)
  IN from .. from + GuardSize(b) - 1

-----------------------------------------------------------------------------
(***************************************************************************)
(* From an address to its thread, bag, set item and shadow word, and back. *)
(***************************************************************************)
HeapIndex(addr) == (addr \div bagSize) \div (NumBags * NumThreads)

ThreadOf(addr)  == (addr % HeapSize) \div ThreadSize
BagOf(addr)     == (addr \div bagSize) % NumBags
SetItemOf(addr) == HeapIndex(addr) % BagSetSize

\* Mutant: the heap's slice starts at a multiple of its unrounded size.
ShadowUnrounded(addr, t, b) ==
  HeapIndex(addr) * ShadowMemSizePerHeap + StartShadowMemOffset(t, b)
    + ((addr % bagSize) \div ClassSize(b)) * InfoSize

\* getShadowObjectInfo
Shadow(addr, t, b) ==
  HeapIndex(addr) * ShadowMemSizePerHeapCeil + StartShadowMemOffset(t, b)
    + ((addr % bagSize) \div ClassSize(b)) * InfoSize

ShadowObjectIndex(shadow, t, b) ==
  ((shadow % ShadowMemSizePerHeapCeil) - StartShadowMemOffset(t, b)) \div InfoSize

ShadowHeap(shadow) == shadow \div ShadowMemSizePerHeapCeil

\* getAddrFromShadowInfo
AddrFromShadow(shadow, t, b) ==
  ShadowHeap(shadow) * HeapSize + StartOffset(t, b)
    + ShadowObjectIndex(shadow, t, b) * ClassSize(b)

\* getNextCanaryNeighbor: the shadow words of the objects before and after an
\* object, as sets of at most one element.
LeftNeighbor(shadow, t, b) ==
  IF ShadowObjectIndex(shadow, t, b) # 0 THEN {shadow - InfoSize}
  ELSE IF ShadowHeap(shadow) < BagSetSize THEN {}
  ELSE {shadow - NextShadowHeapObjectOffset(b)}

\* Mutant: the test for the last object of a bag is off by one.
RightNeighborLate(shadow, t, b) ==
  IF ShadowObjectIndex(shadow, t, b) = NumObjects(b)
    THEN {shadow + NextShadowHeapObjectOffset(b)}
    ELSE {shadow + InfoSize}

RightNeighbor(shadow, t, b) ==
  IF ShadowObjectIndex(shadow, t, b) = NumObjects(b) - 1
    THEN {shadow + NextShadowHeapObjectOffset(b)}
    ELSE {shadow + InfoSize}
=============================================================================
