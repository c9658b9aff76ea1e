---------------------------- MODULE FrontEndProofs ----------------------------
(***************************************************************************)
(* Theorems about FrontEnd: for every word size, every classes and every   *)
(* alignments that are powers of two, a block has the room that was asked  *)
(* for unless the request wraps, blocks do not overlap, free finds every   *)
(* block but one mapped right behind the heap and those memalign has       *)
(* moved, and realloc keeps what was written.                              *)
(***************************************************************************)
EXTENDS FrontEnd, NumberLemmas

-----------------------------------------------------------------------------
(***************************************************************************)
(* Sizes                                                                   *)
(***************************************************************************)

\* The sizes are powers of two.
LEMMA PowersOfTwo ==
  \A n \in {MinBlockSize, BagSize, PageSize} \cup Alignments :
    n \in Nat \ {0} /\ \E k \in Nat : 2 ^ k = n
<1>1. TAKE n \in {MinBlockSize, BagSize, PageSize} \cup Alignments
<1>2. n \in Nat \ {0}
  BY FrontEndConstants
<1>3. PICK k \in 0 .. n : 2 ^ k = n
  BY FrontEndPowers
<1>4. k \in Nat
  BY <1>2
<1> QED BY <1>2, <1>3, <1>4

\* The class of a bag.
SizeOf(e) == MinBlockSize * 2 ^ e

\* The sizes of the classes are a run of powers of two.
LEMMA Sizes ==
  /\ \A e \in Nat : SizeOf(e) \in Nat \ {0}
  /\ \E m \in Nat : \A e \in Nat : SizeOf(e) = 2 ^ (m + e)
<1>1. PICK m \in Nat : 2 ^ m = MinBlockSize
  BY PowersOfTwo
<1>2. ASSUME NEW e \in Nat PROVE SizeOf(e) = 2 ^ (m + e) /\ SizeOf(e) \in Nat \ {0}
  <2>1. 2 ^ (m + e) = 2 ^ m * 2 ^ e
    BY PowerAdds
  <2>2. m + e \in Nat
    OBVIOUS
  <2>3. 2 ^ (m + e) \in Nat /\ m + e < 2 ^ (m + e)
    BY <2>2, PowerBounds
  <2> QED BY <1>1, <2>1, <2>2, <2>3 DEF SizeOf
<1> QED BY <1>2

\* Where a bag begins.
BagBegin(e) == HeapBegin + BagSize * e

\* Each class has one bag.
LEMMA BagStartIs ==
  ASSUME NEW e \in 0 .. NumBags - 1
  PROVE  BagStart(SizeOf(e)) = BagBegin(e)
<1>1. PICK m \in Nat : \A f \in Nat : SizeOf(f) = 2 ^ (m + f)
  BY Sizes
<1>2. ASSUME NEW f \in 0 .. NumBags - 1, SizeOf(f) = SizeOf(e) PROVE f = e
  <2>1. e \in Nat /\ f \in Nat /\ m + e \in Nat /\ m + f \in Nat
    BY FrontEndConstants
  <2>2. 2 ^ (m + e) = 2 ^ (m + f) /\ 2 ^ (m + e) \in Nat
    BY <1>1, <1>2, <2>1, PowerBounds
  <2>3. (m + e < m + f <=> 2 ^ (m + e) < 2 ^ (m + f))
        /\ (m + f < m + e <=> 2 ^ (m + f) < 2 ^ (m + e))
    BY <2>1, PowerOrder
  <2> QED BY <2>1, <2>2, <2>3
<1>3. (CHOOSE b \in 0 .. NumBags - 1 : MinBlockSize * 2 ^ b = SizeOf(e)) = e
  BY <1>2 DEF SizeOf
<1> QED BY <1>3 DEF BagStart, BagBegin

\* The class of a small request has room for it and the canary.
LEMMA ClassOfIs ==
  ASSUME NEW size \in 0 .. Word - 1, ~ IsLarge(size)
  PROVE  \E e \in 0 .. NumBags - 1 :
           ClassOf(size) = SizeOf(e) /\ (size + 1) % Word <= SizeOf(e)
<1>1. PICK v : v = (size + 1) % Word
  OBVIOUS
<1>2. Classes \subseteq Nat
  <2>1. \A e \in 0 .. NumBags - 1 : e \in Nat
    BY FrontEndConstants
  <2> QED BY <2>1, Sizes DEF Classes, SizeOf
<1>3. v \in Nat /\ v <= LargeThreshold /\ LargeThreshold \in Classes
  BY <1>1, FrontEndConstants DEF IsLarge
<1>4. PICK c \in {d \in Classes : d >= v} : \A d \in {x \in Classes : x >= v} : c <= d
  <2>1. {d \in Classes : d >= v} # {} /\ {d \in Classes : d >= v} \subseteq Nat
    BY <1>2, <1>3
  <2> QED BY <2>1, Least
<1>5. \E d \in Classes : d >= v /\ \A x \in Classes : x >= v => d <= x
  BY <1>4
<1>6. ClassOf(size) \in Classes /\ ClassOf(size) >= v
  BY <1>1, <1>5 DEF ClassOf
<1> QED BY <1>1, <1>2, <1>3, <1>6 DEF Classes, SizeOf

\* alignup: what it returns has room, unless the size wraps.
LEMMA PageUpIs ==
  ASSUME NEW size \in 0 .. Word - 1, PageUp(size) # 0
  PROVE  PageUp(size) \in Nat /\ size <= PageUp(size) /\ PageUp(size) < Word
<1>1. PICK p, w : p = PageSize /\ w = Word
  OBVIOUS
<1>2. p \in Nat \ {0} /\ w \in Nat \ {0} /\ size \in Nat /\ size < w
  BY <1>1, FrontEndConstants
<1>3. CASE size % p = 0
  BY <1>1, <1>2, <1>3 DEF PageUp
<1>4. CASE size % p # 0
  <2>1. PICK x, y : x = size + p - 1 /\ y = x % w
    OBVIOUS
  <2>2. x \in Nat /\ y \in 0 .. w - 1
    BY <1>2, <2>1
  <2>3. PageUp(size) = (y \div p) * p
    BY <1>1, <1>4, <2>1 DEF PageUp
  <2>4. PICK q : q = y \div p
    OBVIOUS
  <2>5. q \in Nat /\ p * q <= y /\ y < p * q + p
    BY <1>2, <2>2, <2>4
  <2>6. q # 0
    BY <1>1, <1>2, <2>3, <2>4
  <2>7. p <= y
    <3>1. p <= p * q
      BY <1>2, <2>5, <2>6
    <3>2. p * q \in Nat
      BY <1>2, <2>5
    <3> QED BY <1>2, <2>2, <2>5, <3>1, <3>2
  <2>8. x < w
    <3> SUFFICES ASSUME w <= x PROVE FALSE
      BY <1>2, <2>2
    <3>1. p <= w
      BY <1>2, <2>2, <2>7
    <3>2. x - w \in 0 .. w - 1 /\ x - w < p
      BY <1>2, <2>1, <3>1
    <3>3. (1 * w + (x - w)) % w = x - w
      BY <1>2, <3>2, Division
    <3>4. 1 * w + (x - w) = x
      BY <1>2, <2>2
    <3>5. y = x - w
      BY <2>1, <3>3, <3>4
    <3> QED BY <1>2, <2>2, <2>7, <3>2, <3>5
  <2>9. y = x
    BY <1>2, <2>1, <2>2, <2>8
  <2>10. q * p = p * q /\ p * q \in Nat
    BY <1>2, <2>5
  <2> QED BY <1>1, <1>2, <2>1, <2>2, <2>3, <2>4, <2>5, <2>9, <2>10
<1> QED BY <1>3, <1>4

\* Of two powers of two the smaller one divides the larger.
LEMMA PowerDivides ==
  ASSUME NEW i \in Nat, NEW j \in Nat, 2 ^ i <= 2 ^ j
  PROVE  i <= j /\ \E q \in Nat : 2 ^ j = q * 2 ^ i
<1>1. 2 ^ i \in Nat /\ 2 ^ j \in Nat
  BY PowerBounds
<1>2. ~ j < i
  <2>1. j < i => 2 ^ j < 2 ^ i
    BY PowerOrder
  <2> QED BY <1>1, <2>1
<1>3. PICK q \in Nat : q = j - i
  BY <1>2
<1>4. 2 ^ (q + i) = 2 ^ q * 2 ^ i /\ 2 ^ q \in Nat
  BY PowerAdds, PowerBounds
<1> QED BY <1>2, <1>3, <1>4

-----------------------------------------------------------------------------
(***************************************************************************)
(* Where objects lie                                                       *)
(***************************************************************************)

\* Object k of the bag e.
Bagged(x, e, k) ==
  /\ x.start = BagBegin(e) + k * SizeOf(e)
  /\ k * SizeOf(e) + SizeOf(e) <= BagSize
  /\ x.room = SizeOf(e) - 1

IsSmall(x) == \E e \in 0 .. NumBags - 1, k \in 0 .. BagSize : Bagged(x, e, k)

\* Within the mapping at a.
MappedAt(x, a) ==
  /\ a <= x.start /\ x.start < a + Word
  /\ x.start + x.room <= a + Word

IsMapped(x) == \E a \in MapAt : MappedAt(x, a)

Placed(x) ==
  /\ x.start \in Nat /\ x.room \in Nat
  /\ IsSmall(x) \/ IsMapped(x)

Disjoint(x, y) ==
  \/ x.start + x.room <= y.start
  \/ y.start + y.room <= x.start

\* A bag has no more objects than bytes.
LEMMA SmallIs ==
  ASSUME NEW x
  PROVE  IsSmall(x) <=> \E e \in 0 .. NumBags - 1, k \in Nat : Bagged(x, e, k)
<1>1. ASSUME NEW e \in 0 .. NumBags - 1, NEW k \in Nat, Bagged(x, e, k)
      PROVE  k \in 0 .. BagSize
  <2>1. e \in Nat
    BY FrontEndConstants
  <2>2. PICK c, v, g : c = SizeOf(e) /\ v = k * c /\ g = BagSize
    OBVIOUS
  <2>3. c \in Nat \ {0} /\ g \in Nat
    BY <2>1, <2>2, Sizes, FrontEndConstants
  <2>4. v \in Nat /\ k <= v
    BY <2>2, <2>3
  <2>5. v + c <= g
    BY <2>2, <1>1 DEF Bagged
  <2> QED BY <2>2, <2>3, <2>4, <2>5
<1>2. 0 .. BagSize \subseteq Nat
  BY FrontEndConstants
<1> QED BY <1>1, <1>2 DEF IsSmall

\* The bag of a small object: it lies in the bag, which lies in the heap.
LEMMA BagBounds ==
  ASSUME NEW x, NEW e \in 0 .. NumBags - 1, NEW k \in Nat, Bagged(x, e, k)
  PROVE  /\ x.start \in Nat /\ x.room \in Nat
         /\ BagBegin(e) \in Nat /\ HeapBegin <= BagBegin(e)
         /\ BagBegin(e) <= x.start
         /\ x.start + x.room < BagBegin(e) + BagSize
         /\ BagBegin(e) + BagSize <= HeapEnd
         /\ (x.start - HeapBegin) \div BagSize = e
<1>1. PICK c, v, u, g, h :
        c = SizeOf(e) /\ v = k * c /\ u = BagSize * e /\ g = BagSize /\ h = HeapBegin
  OBVIOUS
<1>2. e \in Nat /\ c \in Nat \ {0} /\ g \in Nat \ {0} /\ NumBags \in Nat /\ h \in Nat
  <2>1. e \in Nat
    BY FrontEndConstants
  <2> QED BY <1>1, <2>1, Sizes, FrontEndConstants
<1>3. v \in Nat /\ u \in Nat
  BY <1>1, <1>2
<1>4. /\ BagBegin(e) = h + u /\ x.start = h + u + v
      /\ v + c <= g /\ x.room = c - 1
  BY <1>1 DEF Bagged, BagBegin
<1>5. h + u + g <= HeapEnd
  <2>1. e < NumBags
    BY <1>2
  <2>2. e * g + g <= NumBags * g
    BY <1>2, <2>1, Apart
  <2>3. e * g = u /\ NumBags * g \in Nat /\ HeapEnd = h + NumBags * g
    BY <1>1, <1>2 DEF HeapEnd
  <2> QED BY <1>2, <1>3, <2>2, <2>3
<1>6. (x.start - h) \div g = e
  <2>1. v \in 0 .. g - 1
    BY <1>2, <1>3, <1>4
  <2>2. (e * g + v) \div g = e
    BY <1>2, <2>1, Division
  <2>3. e * g + v = x.start - h
    BY <1>1, <1>2, <1>3, <1>4
  <2> QED BY <2>2, <2>3
<1> QED BY <1>1, <1>2, <1>3, <1>4, <1>5, <1>6

\* A mapping lies before or behind the heap.
LEMMA MapBounds ==
  ASSUME NEW x, NEW a \in MapAt, x.start \in Nat, x.room \in Nat, MappedAt(x, a)
  PROVE  /\ HeapBegin \in Nat /\ HeapEnd \in Nat /\ HeapBegin <= HeapEnd
         /\ \/ x.start < HeapBegin /\ x.start + x.room <= HeapBegin
            \/ x.start >= HeapEnd
<1>1. a \in Nat /\ Word \in Nat /\ HeapBegin \in Nat /\ NumBags \in Nat /\ BagSize \in Nat
      /\ (a + Word <= HeapBegin \/ a >= HeapEnd)
  BY FrontEndConstants
<1>2. PICK n : n = NumBags * BagSize
  OBVIOUS
<1>3. n \in Nat /\ HeapEnd = HeapBegin + n
  BY <1>1, <1>2 DEF HeapEnd
<1> QED BY <1>1, <1>3 DEF MappedAt

\* Two small objects do not overlap.
LEMMA SmallDisjoint ==
  ASSUME NEW x, NEW y, IsSmall(x), IsSmall(y), x.start # y.start
  PROVE  Disjoint(x, y)
<1>1. ASSUME NEW e \in 0 .. NumBags - 1, NEW f \in 0 .. NumBags - 1, e < f,
             NEW i \in Nat, NEW j \in Nat, NEW v, NEW w, Bagged(v, e, i), Bagged(w, f, j)
      PROVE  v.start + v.room <= w.start
  <2>1. PICK p, q, g : p = BagBegin(e) /\ q = BagBegin(f) /\ g = BagSize
    OBVIOUS
  <2>2. v.start \in Nat /\ v.room \in Nat /\ p \in Nat /\ v.start + v.room < p + g
    BY <1>1, <2>1, BagBounds
  <2>3. w.start \in Nat /\ q \in Nat /\ q <= w.start
    BY <1>1, <2>1, BagBounds
  <2>4. e \in Nat /\ f \in Nat /\ g \in Nat
    BY <2>1, FrontEndConstants
  <2>5. e * g + g <= f * g
    BY <1>1, <2>4, Apart
  <2>6. p + g <= q
    <3>1. p = HeapBegin + e * g /\ q = HeapBegin + f * g /\ HeapBegin \in Nat
      BY <2>1, <2>4, FrontEndConstants DEF BagBegin
    <3>2. e * g \in Nat /\ f * g \in Nat
      BY <2>4
    <3> QED BY <2>4, <2>5, <3>1, <3>2
  <2> QED BY <2>2, <2>3, <2>4, <2>6
<1>2. PICK e \in 0 .. NumBags - 1, k \in Nat : Bagged(x, e, k)
  BY SmallIs
<1>3. PICK f \in 0 .. NumBags - 1, l \in Nat : Bagged(y, f, l)
  BY SmallIs
<1>4. e \in Nat /\ f \in Nat
  BY FrontEndConstants
<1>5. CASE e < f
  BY <1>1, <1>2, <1>3, <1>5 DEF Disjoint
<1>6. CASE f < e
  BY <1>1, <1>2, <1>3, <1>6 DEF Disjoint
<1>7. CASE e = f
  <2>1. PICK c, v, w, u : c = SizeOf(e) /\ v = k * c /\ w = l * c /\ u = BagBegin(e)
    OBVIOUS
  <2>2. c \in Nat \ {0} /\ BagSize \in Nat
    BY <1>4, <2>1, Sizes, FrontEndConstants
  <2>3. v \in Nat /\ w \in Nat /\ u \in Nat
    BY <1>2, <1>4, <2>1, <2>2, BagBounds
  <2>4. x.start = u + v /\ x.room = c - 1 /\ y.start = u + w /\ y.room = c - 1
    BY <1>2, <1>3, <1>7, <2>1 DEF Bagged
  <2>5. k # l
    BY <2>1, <2>4
  <2>6. (k < l => v + c <= w) /\ (l < k => w + c <= v)
    BY <2>1, <2>2, Apart
  <2> QED BY <2>2, <2>3, <2>4, <2>5, <2>6 DEF Disjoint
<1> QED BY <1>4, <1>5, <1>6, <1>7

\* A small object and a mapped one do not overlap.
LEMMA KindsDisjoint ==
  ASSUME NEW x, NEW y, IsSmall(x), y.start \in Nat, y.room \in Nat, IsMapped(y)
  PROVE  Disjoint(x, y) /\ Disjoint(y, x)
<1>1. PICK e \in 0 .. NumBags - 1, k \in Nat : Bagged(x, e, k)
  BY SmallIs
<1>2. PICK a \in MapAt : MappedAt(y, a)
  BY DEF IsMapped
<1>3. PICK u, g, h, z : u = BagBegin(e) /\ g = BagSize /\ h = HeapBegin /\ z = HeapEnd
  OBVIOUS
<1>4. x.start \in Nat /\ x.room \in Nat /\ u \in Nat /\ h <= u /\ u <= x.start
      /\ x.start + x.room < u + g /\ u + g <= z
  BY <1>1, <1>3, BagBounds
<1>5. h \in Nat /\ z \in Nat /\ (y.start + y.room <= h \/ y.start >= z)
  BY <1>2, <1>3, MapBounds
<1>6. g \in Nat
  BY <1>3, FrontEndConstants
<1> QED BY <1>4, <1>5, <1>6 DEF Disjoint

\* Objects in two mappings do not overlap.
LEMMA MappedDisjoint ==
  ASSUME NEW x, NEW y, x.start \in Nat, y.start \in Nat, x.room \in Nat, y.room \in Nat,
         NEW a \in MapAt, NEW b \in MapAt, a # b, MappedAt(x, a), MappedAt(y, b)
  PROVE  Disjoint(x, y)
<1>1. a \in Nat /\ b \in Nat /\ Word \in Nat
  BY FrontEndConstants
<1>2. (a < b => a + Word <= b) /\ (b < a => b + Word <= a)
  BY FrontEndPowers
<1> QED BY <1>1, <1>2 DEF MappedAt, Disjoint

\* What starts in the heap is a small object, all else a mapped one.
LEMMA HeapSides ==
  ASSUME NEW x, Placed(x)
  PROVE  (InHeap(x.start) <=> IsSmall(x)) /\ (~ InHeap(x.start) <=> IsMapped(x))
<1>1. x.start \in Nat /\ x.room \in Nat
  BY DEF Placed
<1>2. ASSUME IsSmall(x) PROVE InHeap(x.start)
  <2>1. PICK e \in 0 .. NumBags - 1, k \in Nat : Bagged(x, e, k)
    BY <1>2, SmallIs
  <2>2. PICK u, g, h, z : u = BagBegin(e) /\ g = BagSize /\ h = HeapBegin /\ z = HeapEnd
    OBVIOUS
  <2>3. u \in Nat /\ h <= u /\ u <= x.start /\ x.start + x.room < u + g /\ u + g <= z
    BY <2>1, <2>2, BagBounds
  <2>4. g \in Nat /\ h \in Nat /\ z \in Nat
    BY <2>2, FrontEndConstants DEF HeapEnd
  <2> QED BY <1>1, <2>2, <2>3, <2>4 DEF InHeap
<1>3. ASSUME IsMapped(x) PROVE ~ InHeap(x.start)
  <2>1. PICK a \in MapAt : MappedAt(x, a)
    BY <1>3 DEF IsMapped
  <2> QED BY <1>1, <2>1, MapBounds DEF InHeap
<1> QED BY <1>1, <1>2, <1>3 DEF Placed

\* The start of the heap has an alignment.
HeapHas(a) == HeapBegin % a = 0

\* A small object with room for an alignment has it, if the heap has.
LEMMA SmallAligned ==
  ASSUME NEW x, NEW e \in 0 .. NumBags - 1, NEW k \in Nat, Bagged(x, e, k),
         NEW a \in Alignments, a <= SizeOf(e), HeapHas(a)
  PROVE  x.start % a = 0
<1>1. e \in Nat
  BY FrontEndConstants
<1>2. PICK m \in Nat : \A f \in Nat : SizeOf(f) = 2 ^ (m + f)
  BY Sizes
<1>3. PICK i \in Nat : 2 ^ i = a
  BY PowersOfTwo
<1>4. PICK h \in Nat : 2 ^ h = BagSize
  BY PowersOfTwo
<1>5. PICK c, g : c = SizeOf(e) /\ g = BagSize
  OBVIOUS
<1>6. a \in Nat \ {0} /\ c \in Nat \ {0} /\ g \in Nat \ {0}
  BY <1>1, <1>5, PowersOfTwo, Sizes
<1>7. PICK q \in Nat : c = q * a
  <2>1. m + e \in Nat /\ 2 ^ (m + e) = c
    BY <1>1, <1>2, <1>5
  <2>2. 2 ^ i <= 2 ^ (m + e)
    BY <1>3, <1>5, <2>1
  <2>3. PICK q \in Nat : 2 ^ (m + e) = q * 2 ^ i
    BY <2>1, <2>2, PowerDivides
  <2> QED BY <1>3, <2>1, <2>3
<1>8. a <= g
  <2>1. k * c \in Nat /\ k * c + c <= g
    BY <1>5, <1>6 DEF Bagged
  <2> QED BY <1>5, <1>6, <2>1
<1>9. PICK p \in Nat : g = p * a
  BY <1>3, <1>4, <1>5, <1>8, PowerDivides
<1>10. PICK t \in Nat : HeapBegin = t * a
  <2>1. HeapBegin \in Nat
    BY FrontEndConstants
  <2>2. PICK t : t = HeapBegin \div a
    OBVIOUS
  <2>3. t \in Nat /\ HeapBegin = a * t
    BY <1>6, <2>1, <2>2 DEF HeapHas
  <2> QED BY <1>6, <2>3
<1>11. PICK r, n : r = p * e /\ n = k * q
  OBVIOUS
<1>12. r \in Nat /\ n \in Nat /\ t + r + n \in Nat /\ x.start = (t + r + n) * a + 0
  <2>1. x.start = HeapBegin + g * e + k * c
    BY <1>5 DEF Bagged, BagBegin
  <2>2. g * e = r * a
    BY <1>1, <1>6, <1>9, <1>11
  <2>3. k * c = n * a
    BY <1>6, <1>7, <1>11
  <2>4. r \in Nat /\ n \in Nat
    BY <1>1, <1>11
  <2>5. t * a + r * a + n * a = (t + r + n) * a
    BY <1>6, <2>4
  <2>6. t * a \in Nat /\ r * a \in Nat /\ n * a \in Nat /\ (t + r + n) * a \in Nat
    BY <1>6, <2>4
  <2> QED BY <1>10, <2>1, <2>2, <2>3, <2>4, <2>5, <2>6
<1>13. 0 \in 0 .. a - 1
  BY <1>6
<1>14. PICK y \in Nat : x.start = y * a + 0
  BY <1>12
<1> QED BY <1>6, <1>13, <1>14, Division

-----------------------------------------------------------------------------
(***************************************************************************)
(* The invariant                                                           *)
(***************************************************************************)

\* A block lies in its object where memalign has put it, with room for what
\* was asked for and written, unless the request wraps.
BlockOK(b) ==
  /\ b \in Blocks
  /\ Placed(b)
  /\ b.ptr = b.start + (b.start % b.alignment)
  /\ InHeap(b.start) /\ b.start % b.alignment # 0 =>
       Wraps(b) \/ HeapBegin % b.alignment # 0
  /\ ~ Wraps(b) => /\ b.ptr + b.asked <= b.start + b.room
                   /\ b.ptr + b.written <= b.start + b.room

BlocksOK == \A s \in Held : BlockOK(block[s])

BlocksApart ==
  \A s, u \in Held : s # u => /\ block[s].start # block[u].start
                              /\ Disjoint(block[s], block[u])

BlocksInv ==
  /\ TypeOK
  /\ BlocksOK
  /\ BlocksApart

-----------------------------------------------------------------------------
(***************************************************************************)
(* What the operators of the model return                                  *)
(***************************************************************************)

\* A held block is a block.
LEMMA HeldBlocks ==
  ASSUME BlocksInv, NEW s \in Held
  PROVE  /\ s \in Slots /\ block[s] \in Blocks /\ BlockOK(block[s])
         /\ block[s].start \in Used
BY DEF BlocksInv, TypeOK, BlocksOK, Held, Used

\* What malloc returns is placed where nothing is held, and has room for the
\* request unless the canary makes its size wrap.
LEMMA NewObject ==
  ASSUME BlocksInv, NEW size \in 0 .. Word - 1, ~ MapFails(size), NEW o \in Objects(size)
  PROVE  /\ Placed(o)
         /\ o.start \notin Used
         /\ size + 1 < Word => o.room >= size
         /\ \A u \in Held : Disjoint(o, block[u])
         /\ IsSmall(o) => \E e \in 0 .. NumBags - 1, k \in Nat :
                            Bagged(o, e, k) /\ (size + 1) % Word <= SizeOf(e)
<1>1. size \in Nat /\ Word \in Nat \ {0} /\ size < Word
  BY FrontEndConstants
<1>2. CASE ~ IsLarge(size)
  <2>1. PICK e \in 0 .. NumBags - 1 :
          ClassOf(size) = SizeOf(e) /\ (size + 1) % Word <= SizeOf(e)
    BY <1>2, ClassOfIs
  <2>2. e \in Nat
    BY FrontEndConstants
  <2>3. PICK c, g : c = SizeOf(e) /\ g = BagSize
    OBVIOUS
  <2>4. c \in Nat \ {0} /\ g \in Nat \ {0} /\ BagStart(c) = BagBegin(e)
    BY <2>2, <2>3, Sizes, FrontEndConstants, BagStartIs
  <2>5. o \in SmallObjects(size)
    BY <1>2 DEF Objects
  <2>6. PICK start \in {BagStart(c) + k * c : k \in 0 .. g \div c - 1} \ Used :
          o = [start |-> start, room |-> c - 1]
    BY <2>1, <2>3, <2>5 DEF SmallObjects
  <2>7. PICK k \in 0 .. g \div c - 1 : start = BagStart(c) + k * c
    BY <2>6
  <2>8. k \in Nat /\ k * c + c <= g
    <3>1. PICK q : q = g \div c
      OBVIOUS
    <3>2. q \in Nat /\ c * q <= g
      BY <2>4, <3>1
    <3>3. k \in Nat /\ k < q
      BY <2>7, <3>1, <3>2
    <3>4. k * c + c <= q * c
      BY <2>4, <3>2, <3>3, Apart
    <3>5. q * c = c * q /\ c * q \in Nat /\ k * c \in Nat
      BY <2>4, <3>2, <3>3
    <3> QED BY <2>4, <3>2, <3>3, <3>4, <3>5
  <2>9. Bagged(o, e, k)
    BY <2>3, <2>4, <2>6, <2>7, <2>8 DEF Bagged
  <2>10. IsSmall(o)
    BY <2>8, <2>9, SmallIs
  <2>11. o.start \in Nat /\ o.room \in Nat /\ o.room = c - 1
    BY <2>6, <2>8, <2>9, BagBounds
  <2>12. size + 1 < Word => o.room >= size
    <3> SUFFICES ASSUME size + 1 < Word PROVE o.room >= size
      OBVIOUS
    <3>1. (size + 1) % Word = size + 1
      BY <1>1
    <3> QED BY <1>1, <2>1, <2>3, <2>4, <2>11, <3>1
  <2>13. ASSUME NEW u \in Held PROVE Disjoint(o, block[u])
    <3>1. Placed(block[u]) /\ block[u].start \in Used
      BY <2>13, HeldBlocks DEF BlockOK
    <3>2. o.start # block[u].start
      BY <2>6, <3>1
    <3>3. CASE IsSmall(block[u])
      BY <2>10, <3>2, <3>3, SmallDisjoint
    <3>4. CASE IsMapped(block[u])
      BY <2>10, <3>1, <3>4, KindsDisjoint DEF Placed
    <3> QED BY <3>1, <3>3, <3>4 DEF Placed
  <2> QED BY <2>1, <2>6, <2>8, <2>9, <2>10, <2>11, <2>12, <2>13 DEF Placed
<1>3. CASE IsLarge(size)
  <2>1. PageUp(size) # 0
    BY <1>3 DEF MapFails
  <2>2. PICK n : n = PageUp(size)
    OBVIOUS
  <2>3. n \in Nat /\ size <= n /\ n < Word
    BY <2>1, <2>2, PageUpIs
  <2>4. PICK a \in MapAt :
          /\ Used \cap (a .. a + Word - 1) = {}
          /\ o = [start |-> a + n - size, room |-> size]
    BY <1>3, <2>2 DEF Objects, BigObjects
  <2>5. a \in Nat
    BY FrontEndConstants
  <2>6. o.start = a + n - size /\ o.room = size
    BY <2>4
  <2>7. o.start \in Nat /\ a <= o.start /\ o.start < a + Word
        /\ o.start + o.room <= a + Word
    <3>1. PICK st : st = a + n - size
      OBVIOUS
    <3>2. st \in Nat /\ a <= st /\ st < a + Word /\ st + size <= a + Word
      <4>1. CASE size = 0
        <5> QED BY <1>1, <2>3, <2>5, <3>1, <4>1
      <4>2. CASE size # 0
        <5> QED BY <1>1, <2>3, <2>5, <3>1, <4>2
      <4> QED BY <4>1, <4>2
    <3> QED BY <2>6, <3>1, <3>2
  <2>8. MappedAt(o, a) /\ IsMapped(o)
    BY <2>7 DEF MappedAt, IsMapped
  <2>9. o.start \notin Used
    <3>1. o.start \in a .. a + Word - 1
      BY <1>1, <2>5, <2>7
    <3> QED BY <2>4, <3>1
  <2>10. Placed(o)
    BY <1>1, <2>6, <2>7, <2>8 DEF Placed
  <2>11. ~ IsSmall(o)
    BY <2>8, <2>10, HeapSides DEF Placed
  <2>12. ASSUME NEW u \in Held PROVE Disjoint(o, block[u])
    <3>1. Placed(block[u]) /\ block[u].start \in Used
      BY <2>12, HeldBlocks DEF BlockOK
    <3>2. block[u].start \in Nat /\ block[u].room \in Nat
      BY <3>1 DEF Placed
    <3>3. CASE IsSmall(block[u])
      BY <1>1, <2>6, <2>7, <2>8, <3>3, KindsDisjoint
    <3>4. CASE IsMapped(block[u])
      <4>1. PICK d \in MapAt : MappedAt(block[u], d)
        BY <3>4 DEF IsMapped
      <4>2. d \in Nat
        BY FrontEndConstants
      <4>3. block[u].start \in d .. d + Word - 1
        BY <1>1, <3>2, <4>1, <4>2 DEF MappedAt
      <4>4. a # d
        BY <2>4, <3>1, <4>3
      <4>5. o.room \in Nat
        BY <1>1, <2>6
      <4> QED BY <2>7, <2>8, <3>2, <4>1, <4>4, <4>5, MappedDisjoint
    <3> QED BY <3>1, <3>3, <3>4 DEF Placed
  <2> QED BY <2>6, <2>9, <2>10, <2>11, <2>12
<1> QED BY <1>2, <1>3

\* The size realloc knows of a block that is found is its object's room.
LEMMA KnownSizeIs ==
  ASSUME BlocksInv, NEW s \in Held, Found(block[s])
  PROVE  KnownSize(block[s].ptr) = block[s].room /\ block[s].ptr = block[s].start
<1>1. PICK b : b = block[s]
  OBVIOUS
<1>2. BlockOK(b) /\ b.start \in Nat /\ b.ptr = b.start
  BY <1>1, HeldBlocks DEF BlockOK, Found, Placed
<1>3. CASE IsSmallObject(b.ptr)
  <2>1. InHeap(b.start)
    BY <1>1, <1>2, <1>3 DEF Found
  <2>2. IsSmall(b)
    BY <1>2, <2>1, HeapSides DEF BlockOK
  <2>3. PICK e \in 0 .. NumBags - 1, k \in Nat : Bagged(b, e, k)
    BY <2>2, SmallIs
  <2>4. (b.start - HeapBegin) \div BagSize = e
    BY <2>3, BagBounds
  <2>5. KnownSize(b.ptr) = SizeOf(e) - 1
    BY <1>2, <1>3, <2>4 DEF KnownSize, ClassAt, SizeOf
  <2> QED BY <1>1, <1>2, <2>3, <2>5 DEF Bagged
<1>4. CASE ~ IsSmallObject(b.ptr)
  <2>1. \A u \in Held : block[u].start = b.start => u = s
    BY <1>1 DEF BlocksInv, BlocksApart
  <2>2. (CHOOSE u \in Held : block[u].start = b.ptr) = s
    BY <1>1, <1>2, <2>1
  <2> QED BY <1>1, <1>2, <1>4, <2>2 DEF KnownSize
<1> QED BY <1>1, <1>3, <1>4

-----------------------------------------------------------------------------
(***************************************************************************)
(* The invariant is kept                                                   *)
(***************************************************************************)

\* A pointer is given a block that overlaps no other.
LEMMA KeepPreserves ==
  ASSUME BlocksInv, NEW s \in Slots, NEW new, Keep(s, new), BlockOK(new),
         \A u \in Held \ {s} : new.start # block[u].start /\ Disjoint(new, block[u])
  PROVE  BlocksInv'
<1>1. /\ block' = [block EXCEPT ![s] = new]
      /\ leaked' = leaked /\ halted' = halted
  BY DEF Keep
<1>2. block \in [Slots -> Blocks \cup {NULL}]
  BY DEF BlocksInv, TypeOK
<1>3. block'[s] = new /\ \A u \in Slots \ {s} : block'[u] = block[u]
  BY <1>1, <1>2
<1>4. TypeOK'
  BY <1>1, <1>2 DEF BlocksInv, TypeOK, BlockOK
<1>5. Held' \subseteq Held \cup {s}
  BY <1>3 DEF Held
<1>6. Held \subseteq Slots
  BY DEF Held
<1>7. BlocksOK'
  BY <1>3, <1>5, <1>6 DEF BlocksInv, BlocksOK
<1>8. BlocksApart'
  <2> SUFFICES ASSUME NEW t \in Held', NEW u \in Held', t # u
               PROVE  block'[t].start # block'[u].start /\ Disjoint(block'[t], block'[u])
    BY DEF BlocksApart
  <2>1. CASE t = s
    BY <1>3, <1>5, <1>6, <2>1
  <2>2. CASE u = s
    BY <1>3, <1>5, <1>6, <2>2 DEF Disjoint
  <2>3. CASE t # s /\ u # s
    BY <1>3, <1>5, <1>6, <2>3 DEF BlocksInv, BlocksApart
  <2> QED BY <2>1, <2>2, <2>3
<1> QED BY <1>4, <1>7, <1>8 DEF BlocksInv

\* The process ends.
LEMMA HaltPreserves ==
  ASSUME BlocksInv, NEW why \in {"mmap", "misdirected"}, Halt(why)
  PROVE  BlocksInv'
<1>1. block' = block /\ leaked' = leaked /\ halted' = why
  BY DEF Halt
<1>2. Held' = Held
  BY <1>1 DEF Held
<1> QED BY <1>1, <1>2 DEF BlocksInv, TypeOK, BlocksOK, BlocksApart

\* A new block that is not aligned.
LEMMA PlainBlock ==
  ASSUME NEW o, Placed(o), NEW asked \in Nat, NEW written \in Nat,
         asked + 2 < Word => asked <= o.room /\ written <= o.room
  PROVE  BlockOK(Block(o.start, o, asked, written, 1))
<1>1. PICK b : b = Block(o.start, o, asked, written, 1)
  OBVIOUS
<1>2. /\ b.ptr = o.start /\ b.start = o.start /\ b.room = o.room
      /\ b.asked = asked /\ b.written = written /\ b.alignment = 1
  BY <1>1 DEF Block
<1>3. o.start \in Nat /\ o.room \in Nat /\ Word \in Nat
  BY FrontEndConstants DEF Placed
<1>4. b \in Blocks
  BY <1>1, <1>3 DEF Block, Blocks
<1>5. b.start % b.alignment = 0
  BY <1>2, <1>3
<1>6. Placed(b)
  BY <1>2 DEF Placed, IsSmall, IsMapped, Bagged, MappedAt
<1>7. Wraps(b) <=> asked + 2 >= Word
  BY <1>2, <1>3 DEF Wraps
<1> QED BY <1>1, <1>2, <1>3, <1>4, <1>5, <1>6, <1>7 DEF BlockOK

\* malloc keeps the invariant.
LEMMA MallocPreserves ==
  ASSUME BlocksInv, NEW s \in Slots, NEW size \in Requests, Malloc(s, size)
  PROVE  BlocksInv'
<1>1. size \in 0 .. Word - 1 /\ size \in Nat /\ Word \in Nat
  BY FrontEndConstants
<1>2. CASE MapFails(size) /\ Halt("mmap")
  BY <1>2, HaltPreserves
<1>3. CASE ~ MapFails(size) /\ \E o \in Objects(size) : Keep(s, Block(o.start, o, size, 0, 1))
  <2>1. PICK o \in Objects(size) : Keep(s, Block(o.start, o, size, 0, 1))
    BY <1>3
  <2>2. Placed(o) /\ o.start \notin Used /\ (size + 1 < Word => o.room >= size)
        /\ \A u \in Held : Disjoint(o, block[u])
    BY <1>1, <1>3, NewObject
  <2>3. PICK new : new = Block(o.start, o, size, 0, 1)
    OBVIOUS
  <2>4. new.start = o.start /\ new.room = o.room
    BY <2>3 DEF Block
  <2>5. o.room \in Nat
    BY <2>2 DEF Placed
  <2>6. BlockOK(new)
    BY <1>1, <2>2, <2>3, <2>5, PlainBlock
  <2>7. \A u \in Held \ {s} : new.start # block[u].start /\ Disjoint(new, block[u])
    BY <2>2, <2>4, HeldBlocks DEF Disjoint
  <2> QED BY <2>1, <2>3, <2>6, <2>7, KeepPreserves
<1> QED BY <1>2, <1>3 DEF Malloc

\* calloc keeps the invariant, when the product wraps too.
LEMMA CallocPreserves ==
  ASSUME BlocksInv, NEW s \in Slots, NEW n \in Factors, NEW m \in Factors, Calloc(s, n, m)
  PROVE  BlocksInv'
<1>1. PICK size, asked : asked = n * m /\ size = asked % Word
  OBVIOUS
<1>2. asked \in Nat /\ Word \in Nat \ {0} /\ size \in 0 .. Word - 1 /\ size \in Nat
  <2>1. n \in Nat /\ m \in Nat /\ Word \in Nat \ {0}
    BY FrontEndConstants
  <2>2. asked \in Nat
    BY <1>1, <2>1
  <2> QED BY <1>1, <2>1, <2>2
<1>3. CASE MapFails(size) /\ Halt("mmap")
  BY <1>3, HaltPreserves
<1>4. CASE ~ MapFails(size) /\ \E o \in Objects(size) : Keep(s, Block(o.start, o, asked, size, 1))
  <2>1. PICK o \in Objects(size) : Keep(s, Block(o.start, o, asked, size, 1))
    BY <1>4
  <2>2. Placed(o) /\ o.start \notin Used /\ (size + 1 < Word => o.room >= size)
        /\ \A u \in Held : Disjoint(o, block[u])
    BY <1>2, <1>4, NewObject
  <2>3. PICK new : new = Block(o.start, o, asked, size, 1)
    OBVIOUS
  <2>4. new.start = o.start /\ new.room = o.room
    BY <2>3 DEF Block
  <2>5. o.room \in Nat
    BY <2>2 DEF Placed
  <2>6. asked + 2 < Word => size = asked
    BY <1>1, <1>2
  <2>7. BlockOK(new)
    <3>1. asked + 2 < Word => asked <= o.room /\ size <= o.room
      BY <1>2, <2>2, <2>5, <2>6
    <3> QED BY <1>2, <2>2, <2>3, <3>1, PlainBlock
  <2>8. \A u \in Held \ {s} : new.start # block[u].start /\ Disjoint(new, block[u])
    BY <2>2, <2>4, HeldBlocks DEF Disjoint
  <2> QED BY <2>1, <2>3, <2>7, <2>8, KeepPreserves
<1> QED BY <1>1, <1>3, <1>4 DEF Calloc

\* memalign keeps the invariant.
LEMMA MemalignPreserves ==
  ASSUME BlocksInv, NEW s \in Slots, NEW a \in Alignments, NEW size \in Requests,
         Memalign(s, a, size)
  PROVE  BlocksInv'
<1>1. PICK sum : sum = (a + size) % Word
  OBVIOUS
<1>2. a \in Nat \ {0} /\ size \in Nat \ {0} /\ Word \in Nat \ {0}
  BY FrontEndConstants DEF Memalign
<1>3. sum \in 0 .. Word - 1 /\ sum \in Nat
  BY <1>1, <1>2
<1>4. CASE MapFails(sum) /\ Halt("mmap")
  BY <1>4, HaltPreserves
<1>5. CASE /\ ~ MapFails(sum)
           /\ \E o \in Objects(sum) : Keep(s, Block(Aligned(o.start, a), o, size, 0, a))
  <2>1. PICK o \in Objects(sum) : Keep(s, Block(Aligned(o.start, a), o, size, 0, a))
    BY <1>5
  <2>2. /\ Placed(o) /\ o.start \notin Used /\ (sum + 1 < Word => o.room >= sum)
        /\ \A u \in Held : Disjoint(o, block[u])
        /\ IsSmall(o) => \E e \in 0 .. NumBags - 1, k \in Nat :
                            Bagged(o, e, k) /\ (sum + 1) % Word <= SizeOf(e)
    BY <1>3, <1>5, NewObject
  <2>3. PICK new : new = Block(Aligned(o.start, a), o, size, 0, a)
    OBVIOUS
  <2>4. /\ new.ptr = o.start + (o.start % a) /\ new.start = o.start /\ new.room = o.room
        /\ new.asked = size /\ new.written = 0 /\ new.alignment = a
    BY <2>3 DEF Block, Aligned
  <2>5. PICK x, r, room : x = o.start /\ r = x % a /\ room = o.room
    OBVIOUS
  <2>6. x \in Nat /\ r \in 0 .. a - 1 /\ r \in Nat /\ room \in Nat /\ o.start = x /\ o.room = room
    <3>1. x \in Nat /\ room \in Nat
      BY <2>2, <2>5 DEF Placed
    <3> QED BY <1>2, <2>5, <3>1
  <2>7. new \in Blocks
    <3>1. x + r \in Nat
      BY <2>6
    <3> QED BY <1>2, <2>3, <2>5, <2>6, <3>1 DEF Block, Aligned, Blocks
  <2>8. Placed(new)
    BY <2>2, <2>4 DEF Placed, IsSmall, IsMapped, Bagged, MappedAt
  <2>9. Wraps(new) <=> size + a + 1 >= Word
    BY <2>4 DEF Wraps
  <2>10. ~ Wraps(new) => sum = a + size /\ sum + 1 < Word /\ (sum + 1) % Word = sum + 1
    BY <1>1, <1>2, <2>9
  <2>11. InHeap(new.start) /\ new.start % new.alignment # 0 =>
           Wraps(new) \/ HeapBegin % new.alignment # 0
    <3> SUFFICES ASSUME InHeap(new.start), ~ Wraps(new), HeapHas(a) PROVE x % a = 0
      BY <2>4, <2>5 DEF HeapHas
    <3>1. IsSmall(o)
      BY <2>2, <2>4, HeapSides
    <3>2. PICK e \in 0 .. NumBags - 1, k \in Nat :
            Bagged(o, e, k) /\ (sum + 1) % Word <= SizeOf(e)
      BY <2>2, <3>1
    <3>3. e \in Nat
      BY FrontEndConstants
    <3>4. SizeOf(e) \in Nat
      BY <3>3, Sizes
    <3>5. a <= SizeOf(e)
      BY <1>2, <1>3, <2>10, <3>2, <3>4
    <3> QED BY <2>5, <3>2, <3>5, SmallAligned
  <2>12. ~ Wraps(new) => /\ new.ptr + new.asked <= new.start + new.room
                         /\ new.ptr + new.written <= new.start + new.room
    <3> SUFFICES ASSUME ~ Wraps(new)
                 PROVE  x + r + size <= x + room /\ x + r + 0 <= x + room
      BY <2>4, <2>5
    <3>1. a + size <= room
      BY <2>2, <2>5, <2>10
    <3> QED BY <1>2, <2>6, <3>1
  <2>13. BlockOK(new)
    BY <2>4, <2>7, <2>8, <2>11, <2>12 DEF BlockOK
  <2>14. \A u \in Held \ {s} : new.start # block[u].start /\ Disjoint(new, block[u])
    BY <2>2, <2>4, HeldBlocks DEF Disjoint
  <2> QED BY <2>1, <2>3, <2>13, <2>14, KeepPreserves
<1> QED BY <1>1, <1>4, <1>5 DEF Memalign

\* A block stays where it is.
LEMMA StayPreserves ==
  ASSUME BlocksInv, NEW s \in Held, NEW new, Keep(s, new), BlockOK(new),
         new.start = block[s].start, new.room = block[s].room
  PROVE  BlocksInv'
<1>1. \A u \in Held \ {s} : new.start # block[u].start /\ Disjoint(new, block[u])
  BY DEF BlocksInv, BlocksApart, Disjoint
<1>2. s \in Slots
  BY DEF Held
<1> QED BY <1>1, <1>2, KeepPreserves

\* A write of the application keeps the invariant.
LEMMA FillPreserves ==
  ASSUME BlocksInv, NEW s \in Slots, Fill(s)
  PROVE  BlocksInv'
<1>1. s \in Held
  BY DEF Held, Fill
<1>2. PICK b, new : b = block[s] /\ new = [b EXCEPT !.written = b.asked]
  OBVIOUS
<1>3. BlockOK(b) /\ b \in Blocks
  BY <1>1, <1>2, HeldBlocks
<1>4. /\ new.ptr = b.ptr /\ new.start = b.start /\ new.room = b.room
      /\ new.asked = b.asked /\ new.written = b.asked /\ new.alignment = b.alignment
      /\ new \in Blocks
  BY <1>2, <1>3 DEF Blocks
<1>5. Placed(new) /\ (Wraps(new) <=> Wraps(b))
  BY <1>3, <1>4 DEF BlockOK, Placed, IsSmall, IsMapped, Bagged, MappedAt, Wraps
<1>6. BlockOK(new)
  BY <1>3, <1>4, <1>5 DEF BlockOK
<1>7. Keep(s, new)
  BY <1>2 DEF Fill
<1> QED BY <1>1, <1>2, <1>4, <1>6, <1>7, StayPreserves

\* free keeps the invariant.
LEMMA FreePreserves ==
  ASSUME BlocksInv, NEW s \in Slots, Free(s)
  PROVE  BlocksInv'
<1>1. s \in Held
  BY DEF Held, Free
<1>2. CASE Halt("misdirected")
  BY <1>2, HaltPreserves
<1>3. CASE /\ block' = [block EXCEPT ![s] = NULL]
           /\ leaked' = leaked \cup (IF Found(block[s]) THEN {} ELSE {block[s].start})
           /\ UNCHANGED halted
  <2>1. block \in [Slots -> Blocks \cup {NULL}]
    BY DEF BlocksInv, TypeOK
  <2>2. block'[s] = NULL /\ \A u \in Slots \ {s} : block'[u] = block[u]
    BY <1>3, <2>1
  <2>3. block[s].start \in Nat
    BY <1>1, HeldBlocks DEF BlockOK, Placed
  <2>4. TypeOK'
    BY <1>3, <2>1, <2>3 DEF BlocksInv, TypeOK
  <2>5. Held' \subseteq Held \ {s} /\ Held \subseteq Slots
    BY <2>2 DEF Held
  <2>6. BlocksOK' /\ BlocksApart'
    BY <2>2, <2>5 DEF BlocksInv, BlocksOK, BlocksApart
  <2> QED BY <2>4, <2>6 DEF BlocksInv
<1> QED BY <1>2, <1>3 DEF Free

\* realloc keeps the invariant, in place and with a copy.
LEMMA ReallocPreserves ==
  ASSUME BlocksInv, NEW s \in Slots, NEW sz \in Requests, Realloc(s, sz)
  PROVE  BlocksInv'
<1>1. s \in Held
  BY DEF Held, Realloc
<1>2. PICK b, oldSize : b = block[s] /\ oldSize = KnownSize(b.ptr)
  OBVIOUS
<1>3. BlockOK(b) /\ b \in Blocks /\ b.start \in Nat /\ b.room \in Nat
  BY <1>1, <1>2, HeldBlocks DEF BlockOK, Placed
<1>4. Found(b) => oldSize = b.room /\ b.ptr = b.start
  BY <1>1, <1>2, KnownSizeIs
<1>5. sz \in 0 .. Word - 1 /\ sz \in Nat /\ Word \in Nat
  BY FrontEndConstants
<1>6. CASE Halt("misdirected") \/ Halt("mmap")
  BY <1>6, HaltPreserves
<1>7. CASE UNCHANGED vars
  BY <1>7 DEF vars, BlocksInv, TypeOK, BlocksOK, BlocksApart, Held
<1>8. CASE /\ Found(b) /\ oldSize >= sz
           /\ Keep(s, [b EXCEPT !.asked = sz, !.written = MinOf(b.written, sz)])
  <2>1. PICK w, new : w = MinOf(b.written, sz) /\ new = [b EXCEPT !.asked = sz, !.written = w]
    OBVIOUS
  <2>2. w \in Nat /\ w <= sz
    BY <1>3, <1>5, <2>1 DEF MinOf, Blocks
  <2>3. /\ new.ptr = b.ptr /\ new.start = b.start /\ new.room = b.room
        /\ new.asked = sz /\ new.written = w /\ new.alignment = b.alignment
        /\ new \in Blocks
    BY <1>3, <1>5, <2>1, <2>2 DEF Blocks
  <2>4. Placed(new)
    BY <1>3, <2>3 DEF BlockOK, Placed, IsSmall, IsMapped, Bagged, MappedAt
  <2>5. b.start % b.alignment = 0
    <3>1. b.alignment \in Nat \ {0}
      BY <1>3, FrontEndConstants DEF Blocks
    <3>2. b.start = b.start + (b.start % b.alignment)
      BY <1>3, <1>4, <1>8 DEF BlockOK
    <3>3. b.start % b.alignment \in Nat
      BY <1>3, <3>1
    <3> QED BY <1>3, <3>2, <3>3
  <2>6. sz <= b.room /\ w <= b.room
    BY <1>3, <1>4, <1>5, <1>8, <2>2
  <2>7. BlockOK(new)
    <3>1. new.ptr = new.start + (new.start % new.alignment)
      BY <1>3, <2>3 DEF BlockOK
    <3>2. new.start % new.alignment = 0
      BY <2>3, <2>5
    <3>3. new.ptr + new.asked <= new.start + new.room /\ new.ptr + new.written <= new.start + new.room
      <4>1. new.ptr = b.start /\ new.start = b.start /\ new.room = b.room
            /\ new.asked = sz /\ new.written = w
        BY <1>4, <1>8, <2>3
      <4> QED BY <1>3, <1>5, <2>2, <2>6, <4>1
    <3> QED BY <2>3, <2>4, <3>1, <3>2, <3>3 DEF BlockOK
  <2> QED BY <1>1, <1>2, <1>8, <2>1, <2>3, <2>7, StayPreserves
<1>9. CASE /\ Found(b) /\ oldSize < sz /\ ~ MapFails(sz)
           /\ \E o \in Objects(sz) : Keep(s, Block(o.start, o, sz, Copied(oldSize, sz), 1))
  <2>1. PICK o \in Objects(sz) : Keep(s, Block(o.start, o, sz, Copied(oldSize, sz), 1))
    BY <1>9
  <2>2. Placed(o) /\ o.start \notin Used /\ (sz + 1 < Word => o.room >= sz)
        /\ \A u \in Held : Disjoint(o, block[u])
    BY <1>5, <1>9, NewObject
  <2>3. PICK new : new = Block(o.start, o, sz, oldSize, 1)
    OBVIOUS
  <2>4. new.start = o.start /\ new.room = o.room
    BY <2>3 DEF Block
  <2>5. o.room \in Nat /\ oldSize \in Nat /\ oldSize < sz
    BY <1>3, <1>4, <1>9, <2>2 DEF Placed
  <2>6. BlockOK(new)
    <3>1. sz + 2 < Word => sz <= o.room /\ oldSize <= o.room
      BY <1>5, <2>2, <2>5
    <3> QED BY <1>5, <2>2, <2>3, <2>5, <3>1, PlainBlock
  <2>7. \A u \in Held \ {s} : new.start # block[u].start /\ Disjoint(new, block[u])
    BY <2>2, <2>4, HeldBlocks DEF Disjoint
  <2> QED BY <2>1, <2>3, <2>6, <2>7, KeepPreserves DEF Copied
<1> QED BY <1>2, <1>6, <1>7, <1>8, <1>9 DEF Realloc

-----------------------------------------------------------------------------
(***************************************************************************)
(* The theorems                                                            *)
(***************************************************************************)

\* The invariant holds in every state: each block the application holds is
\* where malloc, calloc, realloc or memalign has put it, apart from all others.
THEOREM Invariance == Spec => []BlocksInv
<1>1. Init => BlocksInv
  <2> SUFFICES ASSUME Init PROVE BlocksInv
    OBVIOUS
  <2>1. block = [s \in Slots |-> NULL] /\ leaked = {} /\ halted = "no"
    BY DEF Init
  <2>2. Held = {}
    BY <2>1 DEF Held
  <2> QED BY <2>1, <2>2 DEF BlocksInv, TypeOK, BlocksOK, BlocksApart
<1>2. BlocksInv /\ [Next]_vars => BlocksInv'
  <2> SUFFICES ASSUME BlocksInv, [Next]_vars PROVE BlocksInv'
    OBVIOUS
  <2>1. CASE UNCHANGED vars
    BY <2>1 DEF vars, BlocksInv, TypeOK, BlocksOK, BlocksApart, Held
  <2>2. ASSUME NEW s \in Slots, Fill(s) PROVE BlocksInv'
    BY <2>2, FillPreserves
  <2>3. ASSUME NEW s \in Slots, Free(s) PROVE BlocksInv'
    BY <2>3, FreePreserves
  <2>4. ASSUME NEW s \in Slots, NEW size \in Requests, Malloc(s, size) PROVE BlocksInv'
    BY <2>4, MallocPreserves
  <2>5. ASSUME NEW s \in Slots, NEW size \in Requests, Realloc(s, size) PROVE BlocksInv'
    BY <2>5, ReallocPreserves
  <2>6. ASSUME NEW s \in Slots, NEW n \in Factors, NEW m \in Factors, Calloc(s, n, m)
        PROVE BlocksInv'
    BY <2>6, CallocPreserves
  <2>7. ASSUME NEW s \in Slots, NEW a \in Alignments, NEW size \in Requests,
               Memalign(s, a, size)
        PROVE BlocksInv'
    BY <2>7, MemalignPreserves
  <2> QED BY <2>1, <2>2, <2>3, <2>4, <2>5, <2>6, <2>7 DEF Next
<1> QED BY <1>1, <1>2, PTL DEF Spec

\* xxmalloc .. xxmemalign: the variables keep their types.
THEOREM TypeCorrect == Spec => []TypeOK
<1>1. BlocksInv => TypeOK
  BY DEF BlocksInv
<1> QED BY <1>1, Invariance, PTL

\* xxmalloc / xxcalloc / xxrealloc / xxmemalign: whatever the classes, the
\* bags and the word size, a request that does not wrap gets the room it asks
\* for below the canary, and no two blocks overlap.
THEOREM RoomKept == Spec => []RoomForRequest
<1>1. ASSUME BlocksInv PROVE RoomForRequest
  <2>1. ASSUME NEW s \in Held, ~ Wraps(block[s])
        PROVE  /\ block[s].ptr >= block[s].start
               /\ block[s].ptr + block[s].asked <= block[s].start + block[s].room
               /\ block[s].ptr + block[s].written <= block[s].start + block[s].room
    <3>1. PICK b : b = block[s]
      OBVIOUS
    <3>2. BlockOK(b) /\ b \in Blocks
      BY <1>1, <3>1, HeldBlocks
    <3>3. b.start \in Nat /\ b.start % b.alignment \in Nat
      BY <3>2, FrontEndConstants DEF Blocks
    <3>4. b.ptr = b.start + (b.start % b.alignment)
      BY <3>2 DEF BlockOK
    <3> QED BY <2>1, <3>1, <3>2, <3>3, <3>4 DEF BlockOK
  <2>2. ASSUME NEW s \in Held, NEW u \in Held \ {s}
        PROVE  \/ block[s].start + block[s].room <= block[u].start
               \/ block[u].start + block[u].room <= block[s].start
    BY <1>1, <2>2 DEF BlocksInv, BlocksApart, Disjoint
  <2> QED BY <2>1, <2>2 DEF RoomForRequest
<1>2. BlocksInv => RoomForRequest
  BY <1>1
<1> QED BY <1>2, Invariance, PTL

\* xxfree / xxrealloc: a block is found by its address unless it was mapped
\* right behind the heap or memalign has moved its pointer.  A small one whose
\* size does not wrap is moved only if the start of the heap does not have the
\* alignment, for its class is a multiple of it (SmallAligned).
THEOREM BlocksFound == Spec => []FreeFindsBlock
<1>1. ASSUME BlocksInv, NEW s \in Held
      PROVE  \/ Found(block[s])
             \/ block[s].ptr = HeapEnd
             \/ /\ block[s].start % block[s].alignment # 0
                /\ ~ InHeap(block[s].start) \/ Wraps(block[s])
                   \/ HeapBegin % block[s].alignment # 0
  <2>1. PICK b : b = block[s]
    OBVIOUS
  <2>2. /\ BlockOK(b) /\ b.start \in Used /\ b.start \in Nat
        /\ HeapBegin \in Nat /\ HeapEnd \in Nat
    BY <2>1, <1>1, HeldBlocks, FrontEndConstants DEF BlockOK, Placed, HeapEnd
  <2>3. CASE b.start % b.alignment # 0
    BY <2>1, <2>2, <2>3 DEF BlockOK
  <2>4. CASE b.start % b.alignment = 0
    <3>1. b.ptr = b.start
      BY <2>2, <2>4 DEF BlockOK
    <3>2. InHeap(b.start) \/ b.start = HeapEnd \/ b.start > HeapEnd \/ b.start < HeapBegin
      BY <2>2 DEF InHeap
    <3>3. InHeap(b.start) => IsSmallObject(b.ptr) /\ InHeap(b.ptr)
      BY <2>2, <3>1 DEF IsSmallObject, InHeap
    <3>4. HeapBegin <= HeapEnd
      BY FrontEndConstants DEF HeapEnd
    <3>5. b.start > HeapEnd \/ b.start < HeapBegin =>
            ~ IsSmallObject(b.ptr) /\ IsLargeObject(b.ptr)
      BY <2>2, <3>1, <3>4 DEF IsSmallObject, IsLargeObject, InHeap
    <3> QED BY <2>1, <3>1, <3>2, <3>3, <3>5 DEF Found
  <2> QED BY <2>3, <2>4
<1>2. BlocksInv => FreeFindsBlock
  BY <1>1 DEF FreeFindsBlock
<1> QED BY <1>2, Invariance, PTL

\* The start of the heap has every alignment up to a page.
LEMMA HeapAligned ==
  ASSUME NEW a \in Alignments \cup {1}, a <= PageSize
  PROVE  HeapBegin % a = 0
<1>1. HeapBegin \in Nat /\ HeapBegin % PageSize = 0 /\ PageSize \in Nat \ {0}
  BY FrontEndConstants
<1>2. CASE a = 1
  BY <1>1, <1>2
<1>3. CASE a \in Alignments
  <2>1. PICK i \in Nat : 2 ^ i = a
    BY <1>3, PowersOfTwo
  <2>2. PICK j \in Nat : 2 ^ j = PageSize
    BY PowersOfTwo
  <2>3. PICK v \in Nat : PageSize = v * a
    BY <2>1, <2>2, PowerDivides
  <2>4. PICK w : w = HeapBegin \div PageSize
    OBVIOUS
  <2>5. w \in Nat /\ HeapBegin = PageSize * w
    BY <1>1, <2>4
  <2>6. a \in Nat \ {0}
    BY <1>3, PowersOfTwo
  <2>7. PICK z \in Nat : z = w * v
    BY <2>3, <2>5
  <2>8. HeapBegin = z * a + 0
    BY <2>3, <2>5, <2>6, <2>7
  <2>9. 0 \in 0 .. a - 1
    BY <2>6
  <2> QED BY <2>6, <2>7, <2>8, <2>9, Division
<1> QED BY <1>2, <1>3

\* xxfree / xxrealloc: a small block whose size does not wrap is always found,
\* if it was asked for with an alignment of at most a page, as every block of
\* malloc, calloc and realloc is.
THEOREM SmallBlocksFound ==
  Spec => [](\A s \in Held : /\ InHeap(block[s].start)
                           /\ ~ Wraps(block[s])
                           /\ block[s].alignment <= PageSize
                           => Found(block[s]))
<1>1. ASSUME BlocksInv, NEW s \in Held,
             InHeap(block[s].start), ~ Wraps(block[s]), block[s].alignment <= PageSize
      PROVE  Found(block[s])
  <2>1. PICK b : b = block[s]
    OBVIOUS
  <2>2. BlockOK(b) /\ b \in Blocks
    BY <2>1, <1>1, HeldBlocks
  <2>3. b.alignment \in Alignments \cup {1}
    BY <2>2 DEF Blocks
  <2>4. HeapBegin % b.alignment = 0
    BY <1>1, <2>1, <2>3, HeapAligned
  <2>5. b.start % b.alignment = 0
    BY <1>1, <2>1, <2>2, <2>4 DEF BlockOK
  <2>6. b.ptr = b.start
    <3>1. b.start \in Nat
      BY <2>2 DEF Blocks
    <3> QED BY <2>2, <2>5, <3>1 DEF BlockOK
  <2>7. HeapBegin \in Nat /\ HeapEnd \in Nat /\ b.start \in Nat
    BY <2>2, FrontEndConstants DEF HeapEnd, Blocks
  <2>8. IsSmallObject(b.ptr) /\ InHeap(b.ptr)
    BY <1>1, <2>1, <2>6, <2>7 DEF IsSmallObject, InHeap
  <2> QED BY <2>1, <2>6, <2>8 DEF Found
<1>2. BlocksInv => \A s \in Held : /\ InHeap(block[s].start)
                             /\ ~ Wraps(block[s])
                             /\ block[s].alignment <= PageSize
                             => Found(block[s])
  BY <1>1
<1> QED BY <1>2, Invariance, PTL

\* A step with a block that still is a block after it: xxrealloc is the only
\* one that moves it, and copies what the old object has room for.
LEMMA StepKeeps ==
  ASSUME BlocksInv, [Next]_vars, NEW s \in Held, block'[s] # NULL, ~ Wraps(block[s])
  PROVE  LET old == block[s]
             new == block'[s]
         IN /\ new.written >= MinOf(old.written, new.asked)
            /\ new.start # old.start => new.written <= old.room
<1>1. PICK old, new : old = block[s] /\ new = block'[s]
  OBVIOUS
<1>2. s \in Slots /\ old \in Blocks /\ BlockOK(old) /\ block[s] # NULL
  BY <1>1, HeldBlocks DEF Held
<1>3. old.written \in Nat /\ old.asked \in Nat /\ old.room \in Nat /\ old.start \in Nat
  BY <1>2 DEF Blocks
<1>4. block \in [Slots -> Blocks \cup {NULL}]
  BY DEF BlocksInv, TypeOK
<1> DEFINE Kept == /\ new.written >= MinOf(old.written, new.asked)
                   /\ new.start # old.start => new.written <= old.room
<1>5. ASSUME new = old PROVE Kept
  BY <1>3, <1>5 DEF MinOf
<1>6. ASSUME NEW t \in Slots, t # s, NEW v, Keep(t, v) PROVE Kept
  <2>1. new = old
    BY <1>1, <1>2, <1>4, <1>6 DEF Keep
  <2> QED BY <1>5, <2>1
<1>7. ASSUME NEW why, Halt(why) PROVE Kept
  BY <1>1, <1>5, <1>7 DEF Halt
<1>8. ASSUME NEW t \in Slots, Fill(t) PROVE Kept
  <2>1. CASE t = s
    <3>1. new = [old EXCEPT !.written = old.asked]
      BY <1>1, <1>2, <1>4, <1>8, <2>1 DEF Fill, Keep
    <3>2. new.written = old.asked /\ new.asked = old.asked /\ new.start = old.start
      BY <1>2, <3>1 DEF Blocks
    <3> QED BY <1>3, <3>2 DEF MinOf
  <2>2. CASE t # s
    BY <1>6, <1>8, <2>2 DEF Fill
  <2> QED BY <2>1, <2>2
<1>9. ASSUME NEW t \in Slots, Free(t) PROVE Kept
  <2>1. CASE Halt("misdirected")
    BY <1>7, <2>1
  <2>2. CASE block' = [block EXCEPT ![t] = NULL]
    <3>1. t # s
      BY <1>2, <1>4, <2>2
    <3> QED BY <1>1, <1>2, <1>4, <1>5, <2>2, <3>1
  <2> QED BY <1>9, <2>1, <2>2 DEF Free
<1>10. ASSUME NEW t \in Slots, NEW size \in Requests, Malloc(t, size) PROVE Kept
  <2>1. t # s
    BY <1>2, <1>10 DEF Malloc
  <2> QED BY <1>6, <1>7, <1>10, <2>1 DEF Malloc
<1>11. ASSUME NEW t \in Slots, NEW n \in Factors, NEW m \in Factors, Calloc(t, n, m)
       PROVE Kept
  <2>1. t # s
    BY <1>2, <1>11 DEF Calloc
  <2> QED BY <1>6, <1>7, <1>11, <2>1 DEF Calloc
<1>12. ASSUME NEW t \in Slots, NEW a \in Alignments, NEW size \in Requests,
              Memalign(t, a, size)
       PROVE Kept
  <2>1. t # s
    BY <1>2, <1>12 DEF Memalign
  <2> QED BY <1>6, <1>7, <1>12, <2>1 DEF Memalign
<1>13. ASSUME NEW t \in Slots, NEW sz \in Requests, Realloc(t, sz) PROVE Kept
  <2>1. CASE t # s
    <3>1. \/ \E why : Halt(why)
          \/ UNCHANGED vars
          \/ \E v : Keep(t, v)
      BY <1>13 DEF Realloc
    <3> QED BY <1>1, <1>5, <1>6, <1>7, <2>1, <3>1 DEF vars
  <2>2. CASE t = s
    <3>1. sz \in Nat
      BY FrontEndConstants
    <3>2. CASE Halt("misdirected") \/ Halt("mmap")
      BY <1>7, <3>2
    <3>3. CASE UNCHANGED vars
      BY <1>1, <1>5, <3>3 DEF vars
    <3>4. CASE Keep(s, [old EXCEPT !.asked = sz, !.written = MinOf(old.written, sz)])
      <4>1. new = [old EXCEPT !.asked = sz, !.written = MinOf(old.written, sz)]
        BY <1>1, <1>2, <1>4, <3>4 DEF Keep
      <4>2. new.written = MinOf(old.written, sz) /\ new.asked = sz /\ new.start = old.start
        BY <1>2, <4>1 DEF Blocks
      <4> QED BY <1>3, <3>1, <4>2 DEF MinOf
    <3>5. CASE /\ Found(old)
               /\ \E o : Keep(s, Block(o.start, o, sz, Copied(KnownSize(old.ptr), sz), 1))
      <4>1. PICK o : Keep(s, Block(o.start, o, sz, Copied(KnownSize(old.ptr), sz), 1))
        BY <3>5
      <4>2. KnownSize(old.ptr) = old.room /\ old.ptr = old.start
        BY <1>1, <3>5, KnownSizeIs
      <4>3. new = Block(o.start, o, sz, old.room, 1)
        BY <1>1, <1>2, <1>4, <4>1, <4>2 DEF Keep, Copied
      <4>4. new.written = old.room /\ new.asked = sz
        BY <4>3 DEF Block
      <4>5. old.ptr + old.written <= old.start + old.room
        BY <1>1, <1>2 DEF BlockOK
      <4>6. old.written <= old.room
        BY <1>3, <4>2, <4>5
      <4> QED BY <1>3, <3>1, <4>4, <4>6 DEF MinOf
    <3> QED BY <1>1, <1>13, <2>2, <3>2, <3>3, <3>4, <3>5 DEF Realloc
  <2> QED BY <2>1, <2>2
<1>14. CASE UNCHANGED vars
  BY <1>1, <1>5, <1>14 DEF vars
<1>15. ASSUME Next PROVE Kept
  <2>1. PICK t \in Slots :
          \/ Fill(t) \/ Free(t)
          \/ \E size \in Requests : Malloc(t, size) \/ Realloc(t, size)
          \/ \E n, m \in Factors : Calloc(t, n, m)
          \/ \E a \in Alignments, size \in Requests : Memalign(t, a, size)
    BY <1>15 DEF Next
  <2> HIDE DEF Kept
  <2> QED BY <1>8, <1>9, <1>10, <1>11, <1>12, <1>13, <2>1
<1>16. Next \/ UNCHANGED vars
  OBVIOUS
<1> QED BY <1>1, <1>14, <1>15, <1>16

\* xxrealloc: what a block holds survives up to its new size, and the copy
\* stays within the object that had the room that was asked for.
THEOREM ContentsKept == Spec => ReallocKeeps
<1>1. BlocksInv /\ [Next]_vars =>
        [\A s \in Held : block'[s] # NULL /\ ~Wraps(block[s]) =>
           LET old == block[s]
               new == block'[s]
           IN /\ new.written >= MinOf(old.written, new.asked)
              /\ new.start # old.start => new.written <= old.room]_vars
  BY StepKeeps
<1> QED BY <1>1, Invariance, PTL DEF Spec, ReallocKeeps
===============================================================================
