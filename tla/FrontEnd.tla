------------------------------- MODULE FrontEnd -------------------------------
(***************************************************************************)
(* The entry points of the library (libfreeguard.cpp): malloc, calloc,     *)
(* realloc, memalign and free as the application sees them.                *)
(*                                                                         *)
(* They decide by size which heap serves a request, and by address which   *)
(* heap an object came from, and compute sizes in words that wrap.  The    *)
(* heaps are reduced to where they put an object and how much room it has. *)
(* The library has been initialized by its constructor.                    *)
(***************************************************************************)
EXTENDS Integers

CONSTANTS
  Word,            \* a size_t counts modulo Word
  MinBlockSize,    \* BIBOP_MIN_BLOCK_SIZE
  NumBags,         \* usable bags; the class size of the last is LargeThreshold
  LargeThreshold,  \* LARGE_OBJECT_THRESHOLD
  BagSize,         \* _bibopBagSize
  PageSize,        \* PageSize
  HeapBegin,       \* _heapBegin: mmap chooses it
  MapAt,           \* where mmap may put a large object: so far apart that any
                   \* two mappings fit
  Slots,           \* the pointers the application keeps
  Requests,        \* the sizes it asks for
  Factors,         \* the numbers it asks calloc to multiply
  Alignments,      \* the alignments it asks for
  NULL

Classes == {MinBlockSize * 2 ^ b : b \in 0 .. NumBags - 1}
HeapEnd == HeapBegin + NumBags * BagSize

ASSUME FrontEndConstants ==
  /\ {Word, MinBlockSize, NumBags, LargeThreshold, BagSize, PageSize}
       \subseteq Nat \ {0}
  /\ LargeThreshold \in Classes
  /\ \A c \in Classes : c <= LargeThreshold
  /\ BagSize >= LargeThreshold
  /\ HeapBegin \in Nat
  /\ \A a \in MapAt \cup {HeapBegin} : a \in Nat /\ a % PageSize = 0
  /\ \A a \in MapAt : a + Word <= HeapBegin \/ a >= HeapEnd
  /\ Requests \subseteq 0 .. Word - 1
  /\ Factors \cup Alignments \subseteq Nat \ {0}

\* Powers of two, as memalign demands of its callers, and mappings that lie
\* apart.
ASSUME FrontEndPowers ==
  /\ \A n \in {MinBlockSize, BagSize, PageSize} \cup Alignments : \E k \in 0 .. n : 2 ^ k = n
  /\ \A a, b \in MapAt : a < b => a + Word <= b

VARIABLES
  block,   \* what each pointer of the application points to, or NULL
  leaked,  \* starts of the objects whose free came to nothing
  halted   \* "no", or why the process is over

vars == <<block, leaked, halted>>

Held == {s \in Slots : block[s] # NULL}

MinOf(m, n) == IF m <= n THEN m ELSE n

-----------------------------------------------------------------------------
(***************************************************************************)
(* Sizes and addresses                                                     *)
(***************************************************************************)

\* IF_CANARY_CONDITION.  The canary's byte makes the largest size wrap to 0.
IsLarge(size) == (size + 1) % Word > LargeThreshold

\* Mutant: the class may be one byte short.
ClassOneShort(size) ==
  CHOOSE c \in Classes :
    /\ c + 1 >= (size + 1) % Word
    /\ \A d \in Classes : d + 1 >= (size + 1) % Word => c <= d

\* The class of a small request: the smallest that has room for the canary.
ClassOf(size) ==
  CHOOSE c \in Classes :
    /\ c >= (size + 1) % Word
    /\ \A d \in Classes : d >= (size + 1) % Word => c <= d

\* The bags lie one after the other in the order of their classes.
BagStart(c) ==
  HeapBegin + BagSize * (CHOOSE b \in 0 .. NumBags - 1 : MinBlockSize * 2 ^ b = c)

\* The class of the bag an address of the heap lies in.
ClassAt(addr) == MinBlockSize * 2 ^ ((addr - HeapBegin) \div BagSize)

\* alignup(size, PageSize)
PageUp(size) ==
  IF size % PageSize = 0 THEN size
  ELSE (((size + PageSize - 1) % Word) \div PageSize) * PageSize

Used == leaked \cup {block[s].start : s \in Held}

\* The objects malloc may return: a free one of the class, the last byte of
\* which is the canary's, or the end of a new mapping.
SmallObjects(size) ==
  LET c == ClassOf(size)
  IN {[start |-> start, room |-> c - 1] :
        start \in {BagStart(c) + k * c : k \in 0 .. BagSize \div c - 1} \ Used}

BigObjects(size) ==
  {[start |-> base + PageUp(size) - size, room |-> size] :
     base \in {a \in MapAt : Used \cap (a .. a + Word - 1) = {}}}

Objects(size) == IF IsLarge(size) THEN BigObjects(size) ELSE SmallObjects(size)

\* mmap refuses to map nothing.
MapFails(size) == IsLarge(size) /\ PageUp(size) = 0

InHeap(addr) == HeapBegin <= addr /\ addr < HeapEnd

\* isSmallObject goes by the address alone, isLargeObject asks the map of the
\* big-object heap.
IsSmallObject(ptr) == HeapBegin <= ptr /\ ptr <= HeapEnd
IsLargeObject(ptr) == ~InHeap(ptr) /\ ptr \in Used

\* Can free give back the block it is called with?  freeSmallObject looks for
\* the canary from its argument on, and the map has the starts of large
\* objects, so it must be the start of the object.
Found(b) ==
  /\ b.ptr = b.start
  /\ \/ IsSmallObject(b.ptr) /\ InHeap(b.ptr)
     \/ ~IsSmallObject(b.ptr) /\ IsLargeObject(b.ptr)

\* Does it take something else for the block?
Mistaken(b) == ~Found(b) /\ (IsSmallObject(b.ptr) \/ IsLargeObject(b.ptr))

\* getObjectSize: the room of the class, or the size of the large object.
KnownSize(ptr) ==
  IF IsSmallObject(ptr) THEN ClassAt(ptr) - 1
  ELSE block[CHOOSE s \in Held : block[s].start = ptr].room

\* Mutant: a pointer that is aligned is moved, too.
AlignedFurther(start, alignment) == start + alignment - (start % alignment)

\* How xxmemalign moves the pointer.
Aligned(start, alignment) == start + (start % alignment)

\* Mutant: as much as the new object holds.
CopiedAll(oldSize, sz) == sz

\* Mutant: what the sizes differ by.
CopiedDifference(oldSize, sz) == oldSize - sz

\* How much xxrealloc copies.
Copied(oldSize, sz) == oldSize

-----------------------------------------------------------------------------
(***************************************************************************)
(* The calls                                                               *)
(***************************************************************************)

\* The application has a new block: "asked" is what it asked for, by the
\* rules of arithmetic, "written" how much of its front has been written, and
\* "alignment" what it asked for.
Block(ptr, object, asked, written, alignment) ==
  [ptr |-> ptr, start |-> object.start, room |-> object.room, asked |-> asked,
   written |-> written, alignment |-> alignment]

Keep(s, new) ==
  /\ block' = [block EXCEPT ![s] = new]
  /\ UNCHANGED <<leaked, halted>>

Halt(why) == halted' = why /\ UNCHANGED <<block, leaked>>

Init ==
  /\ block = [s \in Slots |-> NULL]
  /\ leaked = {}
  /\ halted = "no"

\* xxmalloc.  mmapAllocatePrivate ends the process when mmap fails.
Malloc(s, size) ==
  /\ block[s] = NULL
  /\ \/ MapFails(size) /\ Halt("mmap")
     \/ /\ ~MapFails(size)
        /\ \E o \in Objects(size) : Keep(s, Block(o.start, o, size, 0, 1))

\* The application fills a block.
Fill(s) ==
  /\ block[s] # NULL
  /\ Keep(s, [block[s] EXCEPT !.written = block[s].asked])

\* xxcalloc: the product wraps, in the argument of malloc and of memset.
Calloc(s, nelem, elsize) ==
  LET size == (nelem * elsize) % Word
  IN /\ block[s] = NULL
     /\ \/ MapFails(size) /\ Halt("mmap")
        \/ /\ ~MapFails(size)
           /\ \E o \in Objects(size) :
                Keep(s, Block(o.start, o, nelem * elsize, size, 1))

\* xxmemalign: nothing for size 0, else an object of the sum of both.
Memalign(s, alignment, size) ==
  LET sum == (alignment + size) % Word
  IN /\ block[s] = NULL
     /\ size # 0
     /\ \/ MapFails(sum) /\ Halt("mmap")
        \/ /\ ~MapFails(sum)
           /\ \E o \in Objects(sum) :
                Keep(s, Block(Aligned(o.start, alignment), o, size, 0, alignment))

\* xxfree.  The heap of small objects, asked for an address that is none of
\* theirs, reads what is there, and the map may know another object there; a
\* large object that is not known is reported and left alone.
Free(s) ==
  /\ block[s] # NULL
  /\ \/ /\ Mistaken(block[s])
        /\ Halt("misdirected")
     \/ /\ ~Mistaken(block[s])
        /\ block' = [block EXCEPT ![s] = NULL]
        /\ leaked' = leaked \cup
             (IF Found(block[s]) THEN {} ELSE {block[s].start})
        /\ UNCHANGED halted

\* xxrealloc of a block to a size other than 0, which is a free.  An object
\* with room enough stays; one that is not known, too, and NULL is returned.
Realloc(s, sz) ==
  /\ block[s] # NULL
  /\ sz # 0
  /\ LET b == block[s]
         oldSize == KnownSize(b.ptr)
     IN \/ /\ Mistaken(b)
           /\ Halt("misdirected")
        \/ /\ ~Found(b) /\ ~Mistaken(b)
           /\ UNCHANGED vars
        \/ /\ Found(b) /\ oldSize >= sz
           /\ Keep(s, [b EXCEPT !.asked = sz, !.written = MinOf(b.written, sz)])
        \/ /\ Found(b) /\ oldSize < sz /\ MapFails(sz)
           /\ Halt("mmap")
        \/ /\ Found(b) /\ oldSize < sz /\ ~MapFails(sz)
           /\ \E o \in Objects(sz) :
                Keep(s, Block(o.start, o, sz, Copied(oldSize, sz), 1))

Next ==
  /\ halted = "no"
  /\ \E s \in Slots :
       \/ Fill(s) \/ Free(s)
       \/ \E size \in Requests : Malloc(s, size) \/ Realloc(s, size)
       \/ \E n, m \in Factors : Calloc(s, n, m)
       \/ \E a \in Alignments, size \in Requests : Memalign(s, a, size)

Spec == Init /\ [][Next]_vars
-----------------------------------------------------------------------------
(***************************************************************************)
(* Properties                                                              *)
(***************************************************************************)

Blocks == [ptr : Nat, start : Nat, room : Nat, asked : Nat, written : Nat,
           alignment : {1} \cup Alignments]

\* The types of the variables.
TypeOK ==
  /\ block \in [Slots -> Blocks \cup {NULL}]
  /\ leaked \subseteq Nat
  /\ halted \in {"no", "mmap", "misdirected"}

\* The request, the alignment and the canary did not fit a size_t.
Wraps(b) == b.asked + b.alignment + 1 >= Word

\* xxmalloc / xxcalloc / xxrealloc / xxmemalign: a block lies within its
\* object, below the canary, with all that was asked for and all that calloc
\* and realloc have written; only requests whose size wraps get less than
\* they asked for.  Two blocks never overlap.
RoomForRequest ==
  \A s \in Held :
    LET b == block[s]
    IN /\ ~Wraps(b) => /\ b.ptr >= b.start
                       /\ b.ptr + b.asked <= b.start + b.room
                       /\ b.ptr + b.written <= b.start + b.room
       /\ \A u \in Held \ {s} :
            \/ b.start + b.room <= block[u].start
            \/ block[u].start + block[u].room <= b.start

\* xxfree / xxrealloc: every block the application holds is found by its
\* address, but for a large object that was mapped right behind the heap, and
\* one whose pointer memalign has moved, which happens to large objects, and
\* to small ones when the size wraps or the heap itself, which mmap aligns to
\* a page, does not have the alignment asked for.
FreeFindsBlock ==
  \A s \in Held :
    LET b == block[s]
    IN \/ Found(b)
       \/ b.ptr = HeapEnd
       \/ /\ b.start % b.alignment # 0
          /\ ~InHeap(b.start) \/ Wraps(b) \/ HeapBegin % b.alignment # 0

\* xxrealloc: the contents survive, as far as the new size goes, and a copy
\* reads nothing behind the room of the old object, which had the room that
\* was asked for.
ReallocKeeps ==
  [][\A s \in Held : block'[s] # NULL /\ ~Wraps(block[s]) =>
       LET old == block[s]
           new == block'[s]
       IN /\ new.written >= MinOf(old.written, new.asked)
          /\ new.start # old.start => new.written <= old.room]_vars

\* xxmemalign / xxposix_memalign: the pointer has the alignment asked for.
AlignedAsAsked ==
  \A s \in Held : block[s].ptr % block[s].alignment = 0
=============================================================================
