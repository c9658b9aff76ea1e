# A TLA+ development of FreeGuard

FreeGuard is a replacement for `malloc` and `free` that keeps small objects in
"bags" of one size class, one per thread, puts guard pages and canaries around
them, and maps each large object on its own. This directory models the parts of
it in which threads meet and in which sizes and addresses are computed, checks
the models with TLC, and proves with TLAPS, for every size of them, the safety
properties of all components and that three of them implement their abstract
specifications.

The build modelled is that of `src/Makefile`: `CUSTOMIZED_STACK`, `MANYBAGS`,
`ENABLE_GUARDPAGE`, `RANDOM_GUARD`, `USE_CANARY` and `FIFO_FREELIST` are
defined, `NDEBUG` too; `CFREELIST`, `DESTROY_ON_FREE`, `DETECT_UAF`,
`CUSTOMIZED_MAIN_STACK` and the `LOGTOFILE` variants are not.

## The system

| component | state | operations | meets others through |
|---|---|---|---|
| small-object heap (`bibopheap.hh`, `dlist.h`) | per bag and set item: list lock, free list, bump pointer; per object: one shadow word and one canary byte; the bag size drawn at start | `allocateSmallObject`, `freeSmallObject`, `getObjectSize`, `isSmallObject` | any thread frees into the bags of any other; shadow words are read without a lock |
| address arithmetic of that heap (`bibopheap.hh`) | constants computed by `initialize()` | address to thread, bag, item and shadow word and back; next object, next heap, neighbours, guards | used by each call above |
| thread table (`xthread.hh`, `threadstruct.hh`) | `_threads`, `_threadIndex`, `_aliveThreads`, map from `pthread_t` to index, a global lock | `thread_create`, `thread_join`, the thread's start and end | its index selects the stack, and the stack's address the bags |
| start of the process (`libfreeguard.cpp`, `real.cpp`) | `heapInitStatus`, `globalStackAddr` | `heapinitialize`, `freeguard_libc_start_main` | any call of the library may be the first, and the initialization calls the library itself |
| thread index (`xdefines.hh`) | none: the stack address, `globalStackAddr` | `getThreadIndex` | selects the bags of `malloc` |
| big-object heap (`bigheap.hh`, `mm.hh`) | a lock, a hash map, one mapping and one status per object | `allocateAtBigHeap`, `deallocateToBigHeap`, `isLargeObject`, `getObjectSize` | lookups run without the lock |
| hash map (`hashmap.hh`, `list.hh`, `hashfuncs.hh`, `hashheapallocator.hh`) | buckets: a circular list and a count | `insert`, `insertIfAbsent`, `find`, `erase` | the two components above; it has no lock of its own |
| front end (`libfreeguard.cpp`) | none of its own | `xxmalloc`, `xxfree`, `xxcalloc`, `xxrealloc`, `xxmemalign` | dispatches by size and by address |
| random numbers (`rng/sse2rng.c`) | a seed of four words per thread | `srand_sse`, `getRandomNumber` | set item, bypass of the free list, random guard pages |
| diagnostics (`log.hh`, `errmsg.hh`) | none of interest | printing, ending the process | all |

What makes it hard: `malloc` takes from a free list under the list's lock but
moves the bump pointer and writes status words and canaries outside of it, at
the same time as other threads free into the same item and inspect neighbouring
objects. The status word of an object and its link in a free list are one word.
Thread creation registers a thread in two critical sections, with the start of
the thread in between. The hash map is read without the lock it is written
under. The status of the heap says done in the middle of its initialization,
which calls `malloc` itself. A thread is known by the address of its stack alone.
And the address arithmetic has four units (heap, thread, bag, object)
with guards that depend on each of them.

What makes each part correct:

* the small-object heap: an object has one owner; free lists lose and repeat
  nothing; the status word tells what is allocated; a correct program is never
  reported; an object with an overwritten canary is stopped before it is reused;
  a list lock is given back;
* the arithmetic: the way from an address to its owner and back is exact, guards
  cover no object and do cover the ends of bags, everything stays in its region;
* the thread table: indexes are exclusive, given back, and never outside of it;
* the start of the process: nothing is used before it is initialized, and the
  initialization ends;
* the thread index: from every address of its stack, and as long as it runs, a
  thread gets one index, which no other running thread gets; stacks are cut off
  from each other;
* the random numbers: four independent generators, of which a thread uses its own;
* the large objects: the map knows what exists, and a free takes away its own
  mapping and no other;
* the front end: an object has room for what was asked for, `free` finds every
  block again, and `realloc` keeps the contents.

## Modules

| module | what it is | used by |
|---|---|---|
| `FifoPool` | what the small-object heap promises: pools that reuse objects in the order they were freed | `BibopHeap` |
| `BibopHeap` | `malloc` and `free` of one size class, one action per shared access | `BibopHeapProofs`, `MCBibopHeap`, `MCSharedIndex` |
| `BibopHeapProofs` | its inductive invariant and theorems | `MCBibopHeap` |
| `BibopLayout` | the constants of `initialize()` and the address arithmetic | `BumpPointer` |
| `BumpPointer` | one bump pointer at the level of addresses | `BumpPointerProofs`, the runs |
| `BumpPointerProofs` | its inductive invariant and theorems, and those of the arithmetic | |
| `ObjectNumbers` | what `BibopHeap` relies on from a bump pointer | `BumpPointer` |
| `IndexPool` | what the thread table promises: a pool of entries, each with one owner or none | `XThread` |
| `XThread` | creation, joining, detaching and the end of threads | `Process`, `XThreadProofs`, `MCXThread` |
| `XThreadProofs` | its inductive invariant and theorems | `ProcessProofs` |
| `Process` | loading, initialization, the stack area, and from then on the threads of `XThread` on their stacks | `ProcessProofs`, a run |
| `ProcessProofs` | initialization order, thread indexes and stacks, proved | |
| `BigHeap` | the large objects and their hash map, access by access | `BigHeapProofs` |
| `BigHeapProofs` | its inductive invariant and theorems | `MCBigHeap` |
| `FrontEnd` | the calls of the application, by size and by address | `FrontEndProofs`, a run |
| `FrontEndProofs` | its inductive invariant and theorems | `MCFrontEnd` |
| `NumberLemmas` | induction up to a bound, walks along links, powers of two, counting | the proofs |
| `RandomNumbers` | the generators of `sse2rng.c`, word by word, with their theorems | |
| `MC...` | definitions for TLC: index functions, symmetry, the invariants of the proofs | the runs |

`BibopHeap` numbers the objects of an item in the order its bump pointer meets
them. `BumpPointer` shows, under the refinement `RefinesObjectNumbers`, that the
addresses the code computes realise such a numbering, and with `ShadowRoundTrip`,
`LookupFindsOwner` and `NeighborsAdjacent` that shadow words, free and the
neighbour search agree with it. `BibopHeapProofs` assumes that threads have
different indexes; `ProcessProofs` proves that running threads do, from the
stacks they run on (`BagsExclusive`, `IndexStable`). A thread of `BibopHeap` stands for
the sequence of threads that have its index one after the other: what a thread
leaves behind, bump pointers and free lists, its successor finds. Together the
three cover the small-object heap of any number of classes and threads: bags of
different classes share nothing but the arithmetic.

### BibopHeap and the code

| code | model |
|---|---|
| `shadowObjectInfo::listentry.next` | `next[o]`: an object, `NULL` or `ALLOC` |
| the byte at `ptr + classSize - 1` | `canary[o]` |
| `freelist[i].next`, `.prev`, `listlock[i]`, `position[i]` | `head`, `tail`, `listlock`, `position` |
| pages protected by `tryRandomGuardPage` | `guards` |
| what the application holds | `live` |
| locals of a call | `item`, `useBump`, `ptr`, `link`, `off`, `pc` |
| `allocateSmallObject` | `MallocCall`, `MallocLock`, then `RemoveRead`, `RemoveWrite` or `MallocUnlock`, `BumpRead`, `BumpIncrement`; `MallocCanary`, `MallocReturn` |
| `freeSmallObject` | `FreeCall`, `FreeCheckStatus`, `FreeCheckCanary`, `NeighborShadow`, `NeighborCanary`, `FreeLock`, `InsertRead`, `InsertWrite` |
| `removeDLLHead`, `insertDLLTail` | a reading and a writing step each, inside the lock |
| an overrun of the application | `Overrun` |

An access to a word that other threads may read or write at that moment is a
step of its own. The header of a list is touched under its lock only, so that
what is read or written of it in one go is one step. A lock is given back in the
step of the last write it protects: nothing can be seen in between. One random
number decides both the item and the bypass of the free list, and only item 0 is
ever bypassed; `MallocCall` keeps that. The inspection of a neighbour reads its
status and its canary in two steps.

### BibopLayout, BumpPointer

Addresses are offsets from `_heapBegin`. All sizes are powers of two, so masks
and shifts are written as `%` and `\div`. `GuardSize`, `GuardOffset`,
`NumObjects`, `NextHeapObjectOffset`, `LastOfBag` and the shadow offsets are the
fields `initialize()` fills in. `Allocate` is the bump path of a `malloc`;
`AllocateAndGuard` the same with a random guard page at the new position. The
guard pages at the ends of bags are derived from `bagGuards`, the starts of the
bags for which `setGuardPage` was called.

The comment at `src/bibopheap.hh:250-253` about a last usable bag of one object
describes the case in which the bag size equals `LARGE_OBJECT_THRESHOLD`; with
larger bags the last usable bag has several objects and a guard. Both cases are
among the `BagSizes` of the runs. The comment at `src/xdefines.hh:158-161` is older than
the code: it has the class of the last usable bag depend on the guard pages, half a bag
with them and a whole one without, whereas `initialize()` takes
`LARGE_OBJECT_THRESHOLD` (or the bag size, if that is smaller) in either case, and the
model follows `initialize()`.

### XThread and the code

`aliveThreads`, `threadIndex`, `available` and `xmap` are `_aliveThreads`,
`_threadIndex`, `_threads[i].available` and `_xmap`; `globalLock` is `_spin_lock`.
`thread_create` is `CreateCall`, `Acquire`, `AllocChoose`, `AllocTake`, `Spawn` or
`SpawnFails`, `Acquire`, `MapInsert`; `thread_join` is `JoinCall`, `JoinWait`,
`Acquire`, `JoinFind`, `JoinCount`. `Exit` and `Detach` are the application's.
`_xmap` is only used under the lock and is a function here. The initial thread
(`Main`) has entry 0 and may end by `pthread_exit`, be joined or be detached like
any other; entry 0 then goes to another thread.

The C library puts the descriptor of a thread, whose address is its `pthread_t`,
at the top of the stack it is given: `PthreadT` of a thread is its entry of
`_threads`, and of the initial thread a value of its own. This is why the
stale entry that a join leaves in the map is harmless: the next thread with the
same `pthread_t` has the same index. (A build without `CUSTOMIZED_STACK` would
not have that: `insertIfAbsent` would keep a stale index.)

`lost` is a history variable: entries of threads that were ever detached.
`EarlyJoin` and `Detaching` say what the application does: whether it joins a
thread before the call that creates it has returned, and whether it detaches.

### Process and the code

`LibraryCall` is a call by a constructor, this library's or another's, before
`main`. `HeapInitialize`, `Initialize(c)` and `SetDone` are the steps of
`heapinitialize` in `InitOrder`; `LookupMalloc` and `LookupServed` the `malloc`
that `dlopen` calls inside of `Real::initializer`, which finds the status done and
is served. `Serve` is the body of the call itself; a `free` before the heap is
initialized does nothing. `Use` of a component that is not `ready` fails the process.

`LibcStart` is `freeguard_libc_start_main`: it maps the stack area anywhere in
`Areas` and protects `GuardPages`. From there on `ThreadStep` and `ThreadCall` are
the steps of `XThread`. `UsableStack(i)` is what `pthread_attr_setstack` is given,
`StackOf(t)` where local variables of a thread may lie, and `GetThreadIndex(a)`
the arithmetic of `getThreadIndex` on the address of one. Addresses count pages.

A `pthread_create` before `LibcStart` gives the C library a stack at an address
where nothing is mapped (`ThreadTooEarly`); the model stops there.

### RandomNumbers and the code

A register is a function from its four 32-bit words; `mult`, `gadd`, `Shuffle`,
`Mul`, `And`, `Or` and `Add` are the constants and instructions of `rand_sse`,
`NewSeed` and `Result` what it leaves and returns. `curSeed` has an element per
thread, as `cur_seed` is `__thread`; `randNum` is the number last drawn, per thread too. `NumBagSetItem` and
`UseBumpPointer` are the two uses of one number in `allocateSmallObject`, which
`BibopHeap` takes together. The words and constants exceed the integers TLC has, so
that this module has theorems and no run.

### BigHeap and the code

`next`, `prev`, `key`, `value` and `count` are the nodes and buckets of the hash
map; `inUse` and `start` the chunks of the C library's heap it is built from,
`mapped` the mappings. `insert` is `InsertLink`, which shows the entry to
readers, and `InsertCount`; `erase` is `EraseUnlink`, `EraseRelease`,
`EraseCount`; a `find` is `FindFirst`, `FindCount`, and then a
`FindMatch`, `FindNext` or `FindEnd` for each entry of the walk. `xxfree` looks
an object up twice (`isLargeObject`, `deallocateToBigHeap`), which `caller` tells
apart. A walk that touches an entry already freed has no defined outcome:
`FindFreed` stops the process there.

### FrontEnd and the code

One action per entry point: `Malloc`, `Calloc`, `Memalign`, `Free`, `Realloc`;
`Fill` is the application writing what it was given. A call is one step, since
the heaps below it are the subject of the other modules; here they are reduced
to where an object may lie and how much room it has (`SmallObjects`,
`BigObjects`). `block[s]` is what a pointer of the application stands for: the
pointer itself, the start and the room of the object it came from, and, as
history, the size and alignment asked for and how much of it has been written.
Sizes are computed modulo `Word`, as a `size_t` is; `asked` is not.

`IsLarge` and `ClassOf` are the dispatch by size, `IsSmallObject`,
`IsLargeObject` and `KnownSize` that by address. A block is `Found` if its pointer
is the start of its object, which is where `freeSmallObject` looks for the canary
and what the map of the big-object heap has, and its heap is the one asked. When
`free` or `realloc` takes something else for the block (`Mistaken`: the heap of
small objects is asked for an address that is none of its starts, or the map knows
another object there), the model stops (`halted = "misdirected"`) and says nothing
about what follows.

The invariants name what the code does not get right, and hold for all the rest:

* a request within a byte of the largest `size_t`, or a `calloc` or `memalign`
  whose size wraps, gets an object too small for it (`Wraps`): `malloc` of the
  largest size returns an object of the smallest class, since the canary's byte
  makes the size 0 in the comparison and in the choice of the class;
* a large object that is mapped right behind the heap counts as a small one,
  because `isSmallObject` includes `_heapEnd`;
* a pointer that `memalign` has moved is not found again. Large objects are moved;
  small ones are when the size wraps, or when `_heapBegin`, which `mmap` aligns to a
  page, does not have the alignment asked for: a class is a multiple of the alignment,
  but objects are counted from there. `memalign(8192, 1)` may get such an object.

`valloc`, `pvalloc`, `alloca` and `aligned_alloc` print and return NULL.

## Environment

* The application frees only what it holds, once, and joins a thread at most
  once. Overruns of an object are part of `BibopHeap`; other misuse is not.
* The real functions are found by `dlopen` and `dlsym`, which ask for small objects
  only.
* Neither the stack of the initial thread nor the stack area lies at an address
  below the size of the area (1 GB), and they do not overlap.
* At most `MAX_ALIVE_THREADS` threads are present (alive, or ended and not yet
  joined) at a time: the documented limit of the library.
* Memory accesses are sequentially consistent, as they are on x86 up to the
  delay of a store; the compiler's freedom with the unlocked accesses, which are
  plain data races in C++, is not modelled.
* Random numbers are any numbers.
* `mmap`, `mprotect` and the C library's heap do not fail, but for a mapping of
  no bytes, which `FrontEnd` meets; `mmap` may return any address that is not
  mapped.
* In `FrontEnd` the library has been initialized, alignments, pages, bags and classes
  are powers of two (`FrontEndPowers`), and mappings lie outside of the heap, so far
  apart that any two fit.
* The sizes of `xdefines.hh` are powers of two, a bag has at least two pages, and
  there are no more classes than bags (`PowersAssumption` of `BibopLayout`).
* A thread is joined after the call that creates it has returned (`EarlyJoin = FALSE`),
  but for one run: the first disagreement below is what happens otherwise. The run
  `process` and the theorems about threads and their stacks say nothing of programs that
  join earlier; a join that does not find its index (`src/xthread.hh:226`) is met by
  `xthread_early_join` only.

## Runs

| run | what it shows | expected |
|---|---|---|
| `heap` | a thread that allocates and frees and two that free, one item of four objects, two neighbours on each side, overruns: ownership, free lists, status words, reports, canaries and the inductive invariant | pass |
| `heap_sets` | two items, forced use of the bump pointer, guard pages of two objects, a thread that allocates and one that only frees: the heap implements `FifoPool`, and list locks are given back | pass |
| `heap_shared_index` | two threads on foreign stacks share an index, and are given one object | violation |
| `process` | four identities of threads from the loading on, a table of three, detaching: initialization in order and to its end, indexes exclusive, found again and accounted for, bags and stacks of their own; the table implements `IndexPool` | pass |
| `bump` | the arithmetic, for each thread, bag, item and bag size and every choice of random guards; it implements `ObjectNumbers` | pass |
| `bump_shadow_end` | the shadow words of the last heaps lie behind their mapping | violation |
| `xthread_early_join` | a join before the creation has recorded the thread does not find it | violation |
| `xthread_detached_full` | detached threads use the table up | violation |
| `bigheap` | three threads and three addresses, two of them in one bucket: the map is exact and every mapping has one owner; the inductive invariant | pass |
| `bigheap_find` | a lookup that misses an entry that exists | violation |
| `front` | two pointers, sizes that wrap, calls in any order: room for every request, every block found again, contents kept by `realloc`; the inductive invariant | pass |
| `front_align` | `memalign` returns a pointer without the alignment asked for | violation |

### The disagreements

1. **A join before the end of the creation** (`JoinFindsIndex`). `thread_create`
   records the `pthread_t` after the thread runs. Another thread that joins it in
   between finds nothing; the entry is never made available although the thread
   is counted out. The comment at `src/xthread.hh:191` claims the opposite.
   After such a join `_aliveThreads` and the `available` flags disagree. The
   search, which includes entry `_threadIndex` itself, then takes an entry that
   the other branch of `allocThreadIndex` hands out again later: two threads on
   one stack (`ExclusiveIndex` fails as well with `EarlyJoin = TRUE`).
2. **A shared index** (`ExclusiveOwnership`). Threads on stacks outside of the
   customized area all get index 0. `malloc` moves the bump pointer of an index
   without a lock, and gives two such threads the same object. The comment at
   `src/bibopheap.hh:376-378` has the lock taken for free lists only, because the bags
   are those of one thread.
3. **Detached threads** (`AliveThreadsSupported`) are never counted out. The
   limit on alive threads becomes one on the detached threads ever created.
4. **Shadow memory too small** (`ShadowWordMapped`): `allocShadowMem` multiplies
   by `_shadowMemSizePerHeap` what is laid out by its next power of two.
5. **A lookup that misses** (`FindsExisting`): the bucket is walked without the
   lock; the first entry, the count and the links are read at different times.
   The free of a large object is then ignored, or ends the process.
6. **An alignment that is not** (`AlignedAsAsked`): `xxmemalign` moves the
   pointer by `object % alignment`, and not by what is missing to the next
   multiple. Small objects lie at a multiple of their class from the start of the heap,
   and the class is larger than the alignment. They stay where they are if the size does
   not wrap and the start of the heap has the alignment, as it has for alignments up to a
   page. A large object ends at the end of a page and is usually moved, to where neither
   the alignment nor a later `free` is right; so are small ones in the other cases.

### Bounds, and why they are enough

* `MaxObjects` is 4 in `heap` and 3 in `heap_sets`: a list then has a head, an
  inner node and a tail, an empty and a one-element state, and the neighbour
  searches end inside and outside of the objects. A model `malloc` is not called
  when the item has nothing left; the code would go on to the next heap, which
  `bump` covers.
* One thread allocates, since only the owner of a bag allocates from it; the two
  others free into it at the same time, and the list lock has a holder and two
  waiters. Bags of other threads are further items, and independent of this one
  but for the order of a thread's own steps; the proofs cover any number.
* `BagSetSize` is 1 in `heap` and 2 in `heap_sets`: items interact only through
  the choice and the forced bump allocation of item 0.
* `bump`: 8 heaps of 2 threads, 8 bags of 8 to 32 units, classes from below a
  page to the size of a bag, a page of 4 units. Three bag sizes give the last
  usable bag one, two and four objects. The pointer passes two moves from heap
  to heap (`HeapsUsed` = 4, every second heap).
* `bump_shadow_end` uses 4 heaps, so that the last one is reached. Nothing in
  the code compares a bump pointer with `_heapEnd`; with 1024 heaps it takes 256
  full bags of one class to get there, and `HeapsUsed` stays below.
* `process`: four identities with at most three present reuse entries in
  every order; a table of three has a first, a last and an inner entry. A stack has
  four pages, one of them a guard at each end. The area lies right below or right
  above the two pages of the initial thread's stack, where an index one off would
  be found, and at addresses that are no multiple of a stack's size. The proofs cover
  every number of threads, entries and pages, and every place.
* `heap_shared_index` is `heap` with two threads that allocate, no overruns and one item.
* `bigheap`: a bucket with up to two entries and one beside it; three threads so
  that two change a bucket while a third walks through it. There are as many
  entries and statuses as addresses, which is what three objects can use; freed
  chunks and unmapped addresses are used again at once.
* `front`: a `size_t` of six bits, classes of 2 to 16 bytes, pages of 4. The
  sizes are 0, one within a class, the largest small one, the smallest large
  one, the first that wraps when it is rounded up to a page and the largest of all;
  the products of the factors include one below the wrap, the largest `size_t`,
  one that wraps to a small size and one that wraps to a size `mmap` is asked 0
  bytes for. Of the two places for a mapping one lies right behind the heap and one
  ends right before it. Two pointers are what an overlap or a mistaken object needs.
  The alignments are a page, to which the heap is aligned, and two pages, to which
  it is not.
* `SYMMETRY` is used in runs of invariants only, over sets whose members the
  modules compare and never order.

### Fairness

`FairSpec` of `BibopHeap` and of `Process` assume that the operating system
keeps scheduling each thread that is inside a call (`WF` on `Run(t)`, on
`ThreadStep(t)`, and on `Startup` while there is only the initial thread). They do
not assume that a spin lock is fair among its waiters, nor that the application
makes another call. What is claimed under them is that locks are given back
(`LockReleased`, `GlobalLockReleased`) and that the initialization ends
(`StartupEnds`). That a waiting thread is served is not claimed,
and not true of the code.

`CHECK_DEADLOCK FALSE` is used where a behaviour really ends: the process exits
with a diagnostic, the application makes no further call, or a bound on addresses
or objects is reached.

## Proofs

All are for every value of the constants that the named assumptions allow.

### The small-object heap

`BibopHeapProofs` proves, for any number of threads, set items, objects, objects
per page and neighbours:

| theorem | statement |
|---|---|
| `Invariance` | `Spec => []HeapInv` |
| `TypeCorrect` | `Spec => []TypeOK` |
| `ObjectsOwnedOnce` | `Spec => []ExclusiveOwnership` |
| `StatusWordRight` | `Spec => []StatusWordTruthful` |
| `ReportsJustified` | `Spec => []NoFalseReport` |
| `OverrunsStopped` | `Spec => []ClobberedNeverReused` |
| `FreeListsExact` | `Spec => []FreeListExact` |
| `HeapIsPools` | `Spec => RefinesFifoPool` |

Assumptions: `ConstantsAssumption` and `PointerAssumption` of `BibopHeap`, and
`UniqueThreadIndex`, that no two threads have the same index. The last one is what
the unlocked bump pointer depends on. `ProcessProofs` proves it of threads on the
stacks of the library and of the initial thread; it does *not* hold for threads whose stacks lie outside the
customized area, which all get index 0 (`src/xdefines.hh:215`, run `heap_shared_index`).

`ExclusiveOwnership` alone is not inductive: that the head of a free list is
owned by nobody follows only if the list contains free objects and nothing else.
`HeapInv` says it locally, and not as a walk along the links (`ListShape`): the head, the tail and each successor of a free
object are free objects; no two free objects have the same successor, and the
head is nobody's. Removing the head or appending behind the tail keeps that, and
it is enough for ownership. `ListFresh` and `BumpFresh` say that what a thread
has read inside a critical section, or from its own bump pointer, is still true
when it writes; `Locked` says who is inside; `Status` and `Canaries` relate the
words read without a lock to the step their writer has reached, which is where
the order "canary, then sentinel" is needed.

The proof has one lemma per conjunct and step (`...Step`). A step that changes
no owner is `Quiet`; the five others have a lemma each (`RemoveTakes`,
`BumpTakes`, `InsertGives`, `ReturnMoves`, `FreeReceives`).
`OverrunsStopped` has a small invariant of its own, `ClobberedHeld`: an
overwritten canary is that of a live object, or of one whose `free` has not
looked at it yet. With `ExclusiveOwnership` no such object is on a free list.

That every freed object is *reached* from the head does not follow from the local
shape: the links could run in two circles. `Exact` adds that there is a sequence
of the free objects of the item, each once, from the head to the tail, in which
each is linked to the next. Taking the first off (`ListTail`) and appending one
(`ListAppend`) keep it; a step elsewhere leaves the links between its members alone
(`ListFrame`). The recursive definition of the walk then gives this very sequence
(`WalkOfList`): that the definition has a meaning, and what it is for each index,
is an induction up to a bound, which `NumberLemmas` gets from the least element of
a set of numbers (`Least`, `InductionUpTo`, `WalkExists`). `FreeListsExact` reads it
off, and so does `HeapIsPools`: the queue of a pool is the walk, `RemoveWrite`
takes its first element, `InsertWrite` appends, `BumpIncrement` takes an object that
was never used, and all other steps leave queue and owners alone.

### The address arithmetic

`BumpPointerProofs` proves, for every geometry of powers of two that
`LayoutAssumption` and `PowersAssumption` allow, every bag size, thread, bag and set
item, any number of heaps and every choice of random guards:

| theorem | statement |
|---|---|
| `Invariance` | `Spec => []IInv` |
| `OwnerFound` | `Spec => []LookupFindsOwner` |
| `AllAccessible` | `Spec => []ObjectsAccessible` |
| `EndsGuarded` | `Spec => []BagEndsGuarded` |
| `ShadowUndone` | `Spec => []ShadowRoundTrip` |
| `NeighborsFound` | `Spec => []NeighborsAdjacent` |
| `PointerIsNumbering` | `Spec => RefinesObjectNumbers` |

What `initialize()` computes with logarithms and masks is first brought into one
form (`Geometry`): the objects of a bag and the guard behind them fill it, a guard
of small objects takes a whole number of them, and the guard of the last usable
bag ends with the thread. `IInv` says that the pointer is at object `k` of the `j`-th
heap of its set item, for some `j` and `k`, that the objects handed out and the
random guards are such places too, all of them before the pointer, and that they do
not overlap. `IncrementedIs` and `SkippedIs` are its two kinds of steps: to the
next object, or to the first one `BagSetSize` heaps further. An address is then a sum
of multiples of the sizes of a heap, a thread, a bag and an object, and each
division finds its factor again (`Division`, `AddressParts`).

The shadow words need `ObjectsBelow`, a recursive sum over bags. `SumExists` shows
that it has a value for each bag, `ObjectsCounted` that the words of different bags
and threads of a heap do not overlap, `WordsFit` that they fit in the power of two a
heap has (`Ceiling`), and `WordParts` that the object of a word is found again. With this
the neighbours of a word are those of the adjacent objects. The numbering maps an
address to heap, bag and object by division; `TakeStep` and `SkipStep` are the two
kinds of steps of `ObjectNumbers`.

### The big-object heap

`BigHeapProofs` proves, for any number of threads, addresses, entries and buckets and
any hash function:

| theorem | statement |
|---|---|
| `Invariance`, `TypeCorrect` | `Spec => []TableInv`, `Spec => []TypeOK` |
| `MappingsExclusive` | `Spec => []MappingsOwned` |
| `TableKept` | `Spec => []TableExact` |

`MappingsOwned` rests on `Ownership`, `StatusesOwned`, `EntriesOwned`, `Listed` and `Described`:
each mapping belongs to the application or to one call, each status to one entry or
one call, and the status a free has found without the lock is still that of its object when it
unmaps, since nobody else may free that object. For the count of a bucket not to go
below zero the lists must be right, link by link (`Links`), with the exact state
between the two halves of an insertion, and `Counted`, which says how far
the count is behind. As in a free list the local shape leaves room for a second
circle: `OneRing` excludes it, by demanding that every set of entries of a bucket
has a link out of it. It is kept by each change (`InsertLinkShape`, `EraseUnlinkShape`),
and makes a walk of `count` links meet every entry once and end at the header
(`WalkOfRing` in `NumberLemmas`, by counting the nodes met), which is `TableKept`.

### The front end

`FrontEndProofs` proves, for every size of a word, a page and a bag, all classes and
alignments that are powers of two, every place of the heap and the mappings, and any
requests:

| theorem | statement |
|---|---|
| `Invariance`, `TypeCorrect` | `Spec => []BlocksInv`, `Spec => []TypeOK` |
| `RoomKept` | `Spec => []RoomForRequest` |
| `BlocksFound` | `Spec => []FreeFindsBlock` |
| `SmallBlocksFound` | every small block whose size does not wrap, with an alignment of at most a page, is found |
| `ContentsKept` | `Spec => ReallocKeeps` |

`RoomForRequest` says nothing of where an object came from, which is what keeps two
of them apart: `BlocksInv` adds that each is one of the objects of a bag or the end of one
mapping (`Placed`), and that no two blocks have the same start. `ClassOfIs`
and `PageUpIs` show that the class or the pages have room, also when the arithmetic
wraps on the way; `SmallAligned` that the start of a small object is a multiple of
every alignment up to its class that the start of the heap has, and `HeapAligned` that it
has those up to a page; `KnownSizeIs` that `realloc` learns the
room of its object from nothing but the address.

### The thread table

`XThreadProofs` proves, for any number of threads and entries, under `EarlyJoin = FALSE`:

| theorem | statement |
|---|---|
| `Invariance`, `TypeCorrect` | `Spec => []IInv`, `Spec => []TypeOK` |
| `IndexesExclusive` | `Spec => []ExclusiveIndex` |
| `IndexesInTable` | `Spec => []IndexInTable` |
| `JoinsFindIndex` | `Spec => []JoinFindsIndex` |
| `EntriesAreAccounted` | `Spec => []EntriesAccounted` |
| `TableIsPool` | `Spec => RefinesIndexPool` |

The difficulty is that `allocThreadIndex` chooses an entry by comparing two counters.
`Counted` says what the counters mean: the taken entries are those of threads
together with the lost ones, all below `_threadIndex`, and `_aliveThreads` is their
number, up to the one thread that is just being counted in or out
(`Uncounted`). If the counters are equal, every entry below `_threadIndex` is
taken, and the next one is free (`FullInterval`, from the cardinality of an
interval); if not, one below is free and the search has a least element to
find (`Least`, from the well-foundedness of the naturals). `MapExact` is why a join finds its
entry: each entry that is recorded at all is recorded for itself. `Locked` and `Roles` say
who is inside the critical sections and that one call deals with a thread at a time.
`EarlyJoin = FALSE` enters in `Spawn` and `MapInsert` only: a thread becomes joinable when it is
recorded.

### The process

`ProcessProofs` proves, for any number of threads and entries, any sizes of stacks and
guards, and any place of the stacks that `StackConstants` allows:

| theorem | statement |
|---|---|
| `ProcessImplementsXThread` | `ProcessSpec => Spec`: every step of a process is one of `XThread` or none |
| `TableOfProcess` | what is proved of the table, for a process |
| `NothingUninitialized` | `ProcessSpec => []UsesInitialized` |
| `BagsOfOneThread` | `ProcessSpec => []BagsExclusive` |
| `BagsKept` | `ProcessSpec => IndexStable` |
| `StacksSeparated` | `ProcessSpec => []StacksApart` |
| `ProcessTypes` | `ProcessSpec => []ProcessTypeOK` |

All but the first and the third assume `EarlyJoin = FALSE`. The order of initialization is
an invariant that lists the phases of `heapinitialize` (`Phases`); the status
alone does not tell whether it is over, but that no call is inside of it does.
The stacks rest on `StackInv`: a running thread has an entry of the table, only
the initial thread runs before there is an area, and the protected pages are those
computed for the area. From there `IndexIsFound` shows that
`getThreadIndex` gives a thread its entry of `_threads` (`Quotient`, `Multiples`:
the arithmetic of a division by the size of a stack), so that exclusive entries are exclusive bags.

### The random numbers

`RandomNumbers` proves, for every seed, that the two multiplications, the shuffles and the
masks of `rand_sse` are one step of a linear congruential generator in each of the four words
(`FourGeneratorsHold`), and that a number that bypasses a free list selects item 0 (`BypassOnlyFirstItem`).

### Only model-checked

* `LockReleased`, `GlobalLockReleased`, `StartupEnds`: liveness under fairness, which
  TLAPS does not reach. Every other property of a passing run is also proved.
* The runs that expect a violation are counterexamples; there is nothing to prove.

Nothing is model-checked of `RandomNumbers`, whose words are too large for TLC.

## Not modelled

* Two frees of one object that a wrong program issues at the same time, and other
  misuse but overruns.
* What follows a `pthread_create` before `__libc_start_main`: the model stops.
* `fork`: the library does not call it and has no handler for it.
* `CUSTOMIZED_MAIN_STACK`, which the build does not define.
* The hash map's iterator and `clear`, which are not called.
* `rng/arc4random*`, `rng/chacha_private.h`: not compiled.
* `log.hh`, `errmsg.hh`: output. That `FATAL` and `exit` end the process is modelled.
* `slist.h`: the free lists of a build without `FIFO_FREELIST`.

## Plan

1. `BibopHeap` and `BumpPointer` are tied together by `ObjectNumbers`: the heap as
   pools of addresses could be stated as one theorem over both.
2. A heap whose threads end and whose indexes are used again, as a composition of
   `XThread` and `BibopHeap`; now the argument is the one given under "Modules".
