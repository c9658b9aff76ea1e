-------------------------- MODULE BumpPointerProofs --------------------------
(***************************************************************************)
(* Theorems about BumpPointer: for every geometry of the heap that         *)
(* xdefines.hh can describe, the objects of a bag, their guard pages and   *)
(* their shadow words are where the address arithmetic looks for them.     *)
(***************************************************************************)
EXTENDS BumpPointer, NumberLemmas

-----------------------------------------------------------------------------
(***************************************************************************)
(* Arithmetic                                                              *)
(***************************************************************************)

\* Every number has a quotient and a remainder.
LEMMA Divided ==
  ASSUME NEW d \in Nat \ {0}, NEW x \in Nat
  PROVE  \E q \in Nat, r \in 0 .. d - 1 : x = q * d + r /\ x \div d = q /\ x % d = r
<1>1. x % d = x - d * (x \div d)
  OBVIOUS
<1>2. x \div d \in Nat
  OBVIOUS
<1>3. x % d \in 0 .. d - 1
  OBVIOUS
<1>4. PICK q, r : q = x \div d /\ r = x % d
  OBVIOUS
<1>5. q \in Nat /\ r \in Nat /\ r = x - d * q
  BY <1>1, <1>2, <1>3, <1>4
<1>6. x = q * d + r
  <2>1. d * q = q * d /\ q * d \in Nat
    BY <1>5
  <2> QED BY <1>5, <2>1
<1>7. r \in 0 .. d - 1
  BY <1>3, <1>4
<1> QED BY <1>4, <1>5, <1>6, <1>7

\* Quotients by a product are found in two steps.
LEMMA Product ==
  ASSUME NEW m \in Nat, NEW n \in Nat
  PROVE  m * n \in Nat /\ m * n = n * m /\ (n # 0 => m <= m * n)
OBVIOUS

\* LOG2 of a power of two.
LEMMA LogOfPower ==
  ASSUME NEW n \in Nat
  PROVE  Log2(2 ^ n) = n
<1>1. PICK p : p = 2 ^ n
  OBVIOUS
<1>2. p \in Nat /\ n < p
  BY <1>1, PowerBounds
<1>3. n + 1 \in 0 .. p /\ p < 2 ^ (n + 1) /\ \A j \in 0 .. n + 1 - 1 : p >= 2 ^ j
  <2>1. 2 ^ (n + 1) = 2 * p
    BY <1>1, PowerDoubles
  <2>2. ASSUME NEW j \in 0 .. n PROVE p >= 2 ^ j
    <3>1. j \in Nat /\ 2 ^ j \in Nat
      BY PowerBounds
    <3>2. n < j <=> p < 2 ^ j
      BY <1>1, <3>1, PowerOrder
    <3> QED BY <1>2, <3>1, <3>2
  <2> QED BY <1>2, <2>1, <2>2
<1>4. ASSUME NEW k \in 0 .. p, p < 2 ^ k, \A j \in 0 .. k - 1 : p >= 2 ^ j
      PROVE  k = n + 1
  <2>1. k \in Nat /\ (n < k <=> p < 2 ^ k)
    BY <1>1, PowerOrder
  <2>2. CASE k > n + 1
    <3>1. n + 1 \in 0 .. k - 1
      BY <2>1, <2>2
    <3> QED BY <1>2, <1>3, <1>4, <3>1, PowerBounds
  <2> QED BY <1>4, <2>1, <2>2
<1>5. Bits(p) = n + 1
  BY <1>3, <1>4 DEF Bits
<1> QED BY <1>1, <1>5 DEF Log2

\* The power of two that shadow memory has per heap is large enough.
LEMMA Ceiling ==
  ASSUME NEW n \in Nat
  PROVE  2 ^ Bits(n) \in Nat \ {0} /\ n < 2 ^ Bits(n)
<1> DEFINE S == {k \in 0 .. n : n < 2 ^ k}
<1>1. S \subseteq Nat /\ n \in S
  BY PowerBounds
<1>2. PICK k \in S : \A j \in S : k <= j
  <2> HIDE DEF S
  <2> QED BY <1>1, Least
<1>3. \A j \in 0 .. k - 1 : n >= 2 ^ j
  <2> SUFFICES ASSUME NEW j \in 0 .. k - 1 PROVE n >= 2 ^ j
    OBVIOUS
  <2>1. j \notin S /\ j \in 0 .. n
    BY <1>2
  <2>2. 2 ^ j \in Nat
    BY PowerBounds
  <2> QED BY <2>1, <2>2
<1>4. \E i \in 0 .. n : n < 2 ^ i /\ \A j \in 0 .. i - 1 : n >= 2 ^ j
  BY <1>2, <1>3
<1>5. Bits(n) \in 0 .. n /\ n < 2 ^ Bits(n)
  BY <1>4 DEF Bits
<1>6. 2 ^ Bits(n) \in Nat
  BY <1>5, PowerBounds
<1> QED BY <1>5, <1>6

-----------------------------------------------------------------------------
(***************************************************************************)
(* The geometry of a bag                                                   *)
(***************************************************************************)

\* The logarithms of the block size, the threshold, the page and the bag.
Exponents(m, l, p, s) ==
  /\ MinBlockSize = 2 ^ m /\ LargeThreshold = 2 ^ l
  /\ PageSize = 2 ^ p /\ bagSize = 2 ^ s
  /\ m <= l /\ p + 1 <= l /\ l <= s /\ l - m < NumBags

\* The sizes of the constants are powers of two.
LEMMA ExponentsExist ==
  ASSUME bagSize \in BagSizes
  PROVE  \E m, l, p, s \in Nat : Exponents(m, l, p, s)
<1>1. PICK m \in Nat : 2 ^ m = MinBlockSize
  BY LayoutAssumption, PowersAssumption
<1>2. PICK l \in Nat : 2 ^ l = LargeThreshold
  BY LayoutAssumption, PowersAssumption
<1>3. PICK p \in Nat : 2 ^ p = PageSize
  BY LayoutAssumption, PowersAssumption
<1>4. PICK s \in Nat : 2 ^ s = bagSize
  BY LayoutAssumption, PowersAssumption
<1>5. m <= l
  <2>1. l < m <=> 2 ^ l < 2 ^ m
    BY PowerOrder
  <2>2. ~ (LargeThreshold < MinBlockSize)
    BY LayoutAssumption, PowersAssumption
  <2> QED BY <1>1, <1>2, <2>1, <2>2
<1>6. l <= s
  <2>1. s < l <=> 2 ^ s < 2 ^ l
    BY PowerOrder
  <2>2. ~ (bagSize < LargeThreshold)
    BY LayoutAssumption
  <2> QED BY <1>2, <1>4, <2>1, <2>2
<1>7. p + 1 <= l
  <2>1. l < p + 1 <=> 2 ^ l < 2 ^ (p + 1)
    BY PowerOrder
  <2>2. 2 ^ (p + 1) = 2 * 2 ^ p
    BY PowerDoubles
  <2>3. ~ (LargeThreshold < 2 * PageSize)
    BY LayoutAssumption, PowersAssumption
  <2> QED BY <1>2, <1>3, <2>1, <2>2, <2>3
<1>8. l - m < NumBags
  <2>1. NumBags \in Nat
    BY LayoutAssumption
  <2>2. 2 ^ (m + NumBags) = 2 ^ m * 2 ^ NumBags
    BY <2>1, PowerAdds
  <2>3. 2 ^ l < 2 ^ (m + NumBags)
    BY <1>1, <1>2, <2>2, PowersAssumption
  <2>4. l < m + NumBags <=> 2 ^ l < 2 ^ (m + NumBags)
    BY <2>1, PowerOrder
  <2> QED BY <2>1, <2>3, <2>4
<1> QED BY <1>1, <1>2, <1>3, <1>4, <1>5, <1>6, <1>7, <1>8 DEF Exponents

\* initialize() uses one bag for every class up to the threshold.
LEMMA UsableBagsAre ==
  ASSUME NEW m \in Nat, NEW l \in Nat, NEW p \in Nat, NEW s \in Nat,
         Exponents(m, l, p, s)
  PROVE  /\ LastUsableSize = LargeThreshold
         /\ Log2(LastUsableSize) = l /\ Log2(MinBlockSize) = m
         /\ NumUsableBags = l - m + 1
         /\ UsableBags = 0 .. l - m /\ LastUsableBag = l - m
<1>1. LargeThreshold \in Nat /\ bagSize \in Nat /\ LargeThreshold <= bagSize
  <2>1. 2 ^ l \in Nat /\ 2 ^ s \in Nat
    BY PowerBounds
  <2>2. s < l <=> 2 ^ s < 2 ^ l
    BY PowerOrder
  <2> QED BY <2>1, <2>2 DEF Exponents
<1>2. LastUsableSize = LargeThreshold
  BY <1>1 DEF LastUsableSize
<1>3. Log2(LastUsableSize) = l
  BY <1>2, LogOfPower DEF Exponents
<1>4. Log2(MinBlockSize) = m
  BY LogOfPower DEF Exponents
<1>5. NumUsableBags = l - m + 1
  BY <1>3, <1>4, LayoutAssumption DEF NumUsableBags, Exponents
<1>6. UsableBags = 0 .. l - m /\ LastUsableBag = l - m
  BY <1>5 DEF UsableBags, LastUsableBag
<1> QED BY <1>2, <1>3, <1>4, <1>5, <1>6

\* The shape of a bag of "size" bytes: n objects of c bytes, then g bytes for
\* the guard.  A random guard covers u bytes, a whole number of objects, and
\* one that begins at a page boundary among the objects ends there, too.
Shape(c, n, g, u, size) ==
  /\ c \in Nat \ {0} /\ n \in Nat \ {0} /\ g \in Nat /\ size \in Nat \ {0}
  /\ n * c + g = size
  /\ size % PageSize = 0
  /\ \E w \in Nat \ {0} :
       /\ u = w * c /\ n % w = 0
       /\ \A k \in 0 .. n - 1 : (k * c) % PageSize = 0 => k + w <= n /\ k % w = 0

\* A bag of one object, which has no guard.
LEMMA ShapeOfOne ==
  ASSUME NEW c \in Nat \ {0}, c % PageSize = 0
  PROVE  Shape(c, 1, 0, c, c)
<1>1. c = 1 * c /\ 1 \in Nat \ {0}
  OBVIOUS
<1>2. 1 % 1 = 0 /\ \A k \in 0 .. 1 - 1 : k + 1 <= 1 /\ k % 1 = 0
  OBVIOUS
<1>3. 1 * c + 0 = c
  OBVIOUS
<1>4. \E w \in Nat \ {0} :
        /\ c = w * c /\ 1 % w = 0
        /\ \A k \in 0 .. 1 - 1 : (k * c) % PageSize = 0 => k + w <= 1 /\ k % w = 0
  BY <1>1, <1>2
<1> QED BY <1>3, <1>4 DEF Shape

\* A bag whose objects are smaller than a page: w of them make a page.
LEMMA ShapeOfSmall ==
  ASSUME NEW c \in Nat \ {0}, NEW w \in Nat \ {0}, NEW j \in Nat, j > 1,
         PageSize = w * c
  PROVE  Shape(c, j * w - w, PageSize, PageSize, j * PageSize)
<1>1. PICK n, size, p : n = j * w - w /\ size = j * PageSize /\ p = PageSize
  OBVIOUS
<1>2. p \in Nat \ {0}
  BY <1>1, LayoutAssumption
<1>3. size \in Nat \ {0} /\ size % p = 0
  <2>1. p <= p * j /\ j * p = p * j /\ j * p \in Nat
    BY <1>2, Product
  <2>2. (j * p + 0) % p = 0
    BY <1>2, Division
  <2> QED BY <1>1, <1>2, <2>1, <2>2
<1>4. n = (j - 1) * w /\ n \in Nat \ {0}
  <2>1. w <= w * (j - 1) /\ (j - 1) * w = w * (j - 1) /\ (j - 1) * w \in Nat
    BY Product
  <2>2. j * w = (j - 1) * w + w
    OBVIOUS
  <2> QED BY <1>1, <2>1, <2>2
<1>5. n * c = (j - 1) * p
  <2>1. n * c = ((j - 1) * w) * c
    BY <1>4
  <2>2. ((j - 1) * w) * c = (j - 1) * (w * c)
    OBVIOUS
  <2> QED BY <1>1, <2>1, <2>2
<1>6. n * c + p = size
  <2>1. j * p = (j - 1) * p + p
    BY <1>2
  <2> QED BY <1>1, <1>5, <2>1
<1>7. ASSUME NEW k \in 0 .. n - 1, (k * c) % p = 0 PROVE k + w <= n /\ k % w = 0
  <2>1. PICK x : x = k * c
    OBVIOUS
  <2>2. x \in Nat /\ x + c <= n * c
    <3>1. k \in Nat /\ k < n /\ n \in Nat /\ c \in Nat
      BY <1>4
    <3> QED BY <2>1, <3>1, Apart, Product
  <2>3. PICK i \in Nat : x = i * p
    <3>1. x % p = 0
      BY <1>7, <2>1
    <3>2. x \div p \in Nat /\ x % p = x - p * (x \div p)
      BY <1>2, <2>2
    <3>3. x = (x \div p) * p
      BY <1>2, <2>2, <3>1, <3>2
    <3> QED BY <3>2, <3>3
  <2>4. i < j - 1
    <3>1. CASE i = j - 1
      BY <1>5, <2>2, <2>3, <3>1
    <3>2. CASE j - 1 < i
      <4>1. (j - 1) * p + p <= i * p
        BY <1>2, <3>2, Apart
      <4> QED BY <1>2, <1>5, <2>2, <2>3, <4>1
    <3> QED BY <3>1, <3>2
  <2>5. k = i * w
    <3>1. PICK y : y = i * w
      OBVIOUS
    <3>2. y \in Nat /\ k \in Nat /\ k * c = y * c
      <4>1. i * (w * c) = (i * w) * c
        OBVIOUS
      <4> QED BY <1>1, <1>4, <2>1, <2>3, <3>1, <4>1
    <3>3. CASE k < y
      <4>1. k * c + c <= y * c /\ k * c \in Nat
        BY <3>2, <3>3, Apart
      <4> QED BY <3>2, <4>1
    <3>4. CASE y < k
      <4>1. y * c + c <= k * c /\ k * c \in Nat
        BY <3>2, <3>4, Apart
      <4> QED BY <3>2, <4>1
    <3> QED BY <3>1, <3>2, <3>3, <3>4
  <2>6. i * w + w <= (j - 1) * w
    BY <2>4, Apart
  <2>7. (i * w + 0) % w = 0
    BY Division
  <2>8. i * w \in Nat
    OBVIOUS
  <2> QED BY <1>4, <2>5, <2>6, <2>7, <2>8
<1>8. n % w = 0
  <2>1. ((j - 1) * w + 0) % w = 0
    BY Division
  <2> QED BY <1>4, <2>1
<1>9. Shape(c, n, p, p, size)
  BY <1>1, <1>2, <1>3, <1>4, <1>6, <1>7, <1>8 DEF Shape
<1> QED BY <1>1, <1>9

\* A bag whose objects are not: the guard takes the place of one.
LEMMA ShapeOfLarge ==
  ASSUME NEW c \in Nat \ {0}, NEW j \in Nat, j > 1, (j * c) % PageSize = 0
  PROVE  Shape(c, j - 1, c, c, j * c)
<1>1. (j - 1) * c + c = j * c
  OBVIOUS
<1>2. (j - 1) % 1 = 0 /\ \A k \in 0 .. j - 1 - 1 : k + 1 <= j - 1 /\ k % 1 = 0
  OBVIOUS
<1>3. j * c \in Nat \ {0}
  BY Product
<1>4. c = 1 * c /\ 1 \in Nat \ {0}
  OBVIOUS
<1>5. \E w \in Nat \ {0} :
        /\ c = w * c /\ (j - 1) % w = 0
        /\ \A k \in 0 .. j - 1 - 1 :
             (k * c) % PageSize = 0 => k + w <= j - 1 /\ k % w = 0
  BY <1>2, <1>4
<1> QED BY <1>1, <1>3, <1>5 DEF Shape

\* A bag that can be used has the shape the arithmetic asks for.
LEMMA Geometry ==
  ASSUME bagSize \in BagSizes, NEW b \in UsableBags
  PROVE  /\ Shape(ClassSize(b), NumObjects(b), GuardOffset(b), GuardUnit(b), bagSize)
         /\ b \in 0 .. NumBags - 1
         /\ b = LastUsableBag => GuardSize(b) = GuardOffset(b) + (NumBags - b - 1) * bagSize
         /\ b # LastUsableBag => GuardSize(b) = GuardOffset(b)
<1>1. PICK m, l, p, s \in Nat : Exponents(m, l, p, s)
  BY ExponentsExist
<1>2. /\ LastUsableSize = LargeThreshold
      /\ Log2(LastUsableSize) = l /\ Log2(MinBlockSize) = m
      /\ UsableBags = 0 .. l - m /\ LastUsableBag = l - m
  BY <1>1, UsableBagsAre
<1>3. NumBags \in Nat \ {0} /\ b \in Nat /\ b <= l - m /\ m + b \in Nat /\ m + b <= l
  BY <1>1, <1>2, LayoutAssumption DEF Exponents
<1>4. PICK e, c, z : e = m + b /\ c = 2 ^ e /\ z = bagSize
  OBVIOUS
<1>5. ClassSize(b) = c
  <2>1. 2 ^ (m + b) = 2 ^ m * 2 ^ b
    BY <1>3, PowerAdds
  <2> QED BY <1>1, <1>4, <2>1 DEF ClassSize, Exponents
<1>6. e \in Nat /\ c \in Nat \ {0} /\ z \in Nat \ {0} /\ PageSize \in Nat \ {0}
  BY <1>1, <1>3, <1>4, PowerBounds DEF Exponents
<1>7. PICK j : j = 2 ^ (s - e)
  OBVIOUS
<1>8. e <= s /\ s - e \in Nat /\ z = j * c /\ j \in Nat \ {0} /\ (e < s => j > 1)
  <2>1. e <= s /\ s - e \in Nat
    BY <1>1, <1>3, <1>4 DEF Exponents
  <2>2. 2 ^ s = 2 ^ e * 2 ^ (s - e)
    BY <1>6, <2>1, PowerOrder
  <2>3. s - e < 2 ^ (s - e) /\ j \in Nat \ {0}
    BY <1>7, <2>1, PowerBounds
  <2>4. z = c * j
    BY <1>1, <1>4, <1>7, <2>2 DEF Exponents
  <2> QED BY <1>6, <1>7, <2>1, <2>3, <2>4
<1>9. z \div c = j /\ c <= z
  <2>1. (j * c + 0) \div c = j
    BY <1>6, <1>8, Division
  <2>2. c <= c * j
    BY <1>6, <1>8, Product
  <2> QED BY <1>6, <1>8, <2>1, <2>2
<1>10. PICK i : i = 2 ^ (s - p)
  OBVIOUS
<1>11. z = i * PageSize /\ i \in Nat /\ i > 1 /\ z % PageSize = 0
  <2>1. s - p \in Nat /\ p <= s /\ s - p >= 1
    BY <1>1 DEF Exponents
  <2>2. 2 ^ s = 2 ^ p * 2 ^ (s - p)
    BY <2>1, PowerOrder
  <2>3. i \in Nat /\ s - p < i
    BY <1>10, <2>1, PowerBounds
  <2>4. z = i * PageSize
    BY <1>1, <1>4, <1>6, <1>10, <2>2, <2>3 DEF Exponents
  <2>5. (i * PageSize + 0) % PageSize = 0
    BY <1>6, <2>3, Division
  <2> QED BY <1>6, <2>1, <2>3, <2>4, <2>5
<1>12. e < s => ~ (b = LastUsableBag /\ bagSize = LastUsableSize)
  <2> SUFFICES ASSUME e < s, b = l - m, 2 ^ s = 2 ^ l PROVE FALSE
    BY <1>1, <1>2 DEF Exponents
  <2>1. e = l
    BY <1>1, <1>4 DEF Exponents
  <2>2. l < s <=> 2 ^ l < 2 ^ s
    BY <1>1, PowerOrder
  <2>3. 2 ^ l \in Nat
    BY PowerBounds
  <2> QED BY <2>1, <2>2, <2>3
<1>13. ASSUME e = s
       PROVE  Shape(ClassSize(b), NumObjects(b), GuardOffset(b), GuardUnit(b), bagSize)
  <2>1. b = LastUsableBag /\ bagSize = LastUsableSize
    <3>1. e = l /\ l = s
      BY <1>1, <1>3, <1>4, <1>13 DEF Exponents
    <3> QED BY <1>1, <1>2, <1>3, <1>4, <3>1 DEF Exponents
  <2>2. GuardOffset(b) = 0
    BY <2>1 DEF GuardOffset
  <2>3. c = z
    BY <1>1, <1>4, <1>13 DEF Exponents
  <2>4. NumObjects(b) = 1
    <3>1. (1 * c + 0) \div c = 1
      BY <1>6, Division
    <3>2. z \div c = 1
      BY <1>6, <2>3, <3>1
    <3> QED BY <1>4, <1>5, <3>2 DEF NumObjects
  <2>5. GuardUnit(b) = c
    <3>1. PageSize <= PageSize * i
      BY <1>6, <1>11, Product
    <3>2. PageSize <= c
      BY <1>6, <1>11, <2>3, <3>1
    <3> QED BY <1>5, <1>6, <3>2 DEF GuardUnit
  <2>6. Shape(c, 1, 0, c, c)
    BY <1>6, <1>11, <2>3, ShapeOfOne
  <2> QED BY <1>4, <1>5, <2>2, <2>3, <2>4, <2>5, <2>6
<1>14. ASSUME e < s, c < PageSize
       PROVE  Shape(ClassSize(b), NumObjects(b), GuardOffset(b), GuardUnit(b), bagSize)
  <2>1. GuardUnit(b) = PageSize /\ GuardOffset(b) = PageSize
    BY <1>5, <1>6, <1>12, <1>14 DEF GuardUnit, GuardOffset
  <2>2. PICK w : w = 2 ^ (p - e)
    OBVIOUS
  <2>3. e < p
    <3>1. p < e <=> 2 ^ p < 2 ^ e
      BY <1>1, <1>6, PowerOrder
    <3>2. p # e
      BY <1>1, <1>4, <1>14 DEF Exponents
    <3> QED BY <1>1, <1>4, <1>6, <1>14, <3>1, <3>2 DEF Exponents
  <2>4. w \in Nat \ {0} /\ PageSize = w * c
    <3>1. 2 ^ p = 2 ^ e * 2 ^ (p - e) /\ 2 ^ (p - e) \in Nat \ {0}
      BY <1>6, <2>3, PowerOrder
    <3>2. PageSize = c * w
      BY <1>1, <1>4, <2>2, <3>1 DEF Exponents
    <3> QED BY <1>6, <2>2, <3>1, <3>2
  <2>5. PageSize \div c = w
    <3>1. (w * c + 0) \div c = w
      BY <1>6, <2>4, Division
    <3> QED BY <1>6, <2>4, <3>1
  <2>6. j = i * w
    <3>1. p \in Nat /\ s - p \in Nat /\ p - e \in Nat /\ s - e = (s - p) + (p - e)
      BY <1>1, <1>6, <2>3 DEF Exponents
    <3>2. 2 ^ ((s - p) + (p - e)) = 2 ^ (s - p) * 2 ^ (p - e)
      BY <3>1, PowerAdds
    <3> QED BY <1>7, <1>10, <2>2, <3>1, <3>2
  <2>7. NumObjects(b) = i * w - w
    <3>1. ~ (j <= 1)
      BY <1>8, <1>14
    <3> QED BY <1>4, <1>5, <1>9, <1>14, <2>5, <2>6, <3>1 DEF NumObjects
  <2>8. Shape(c, i * w - w, PageSize, PageSize, i * PageSize)
    BY <1>6, <1>11, <2>4, ShapeOfSmall
  <2> QED BY <1>4, <1>5, <1>11, <2>1, <2>7, <2>8
<1>15. ASSUME e < s, PageSize <= c
       PROVE  Shape(ClassSize(b), NumObjects(b), GuardOffset(b), GuardUnit(b), bagSize)
  <2>1. GuardUnit(b) = c /\ GuardOffset(b) = c
    BY <1>5, <1>6, <1>12, <1>15 DEF GuardUnit, GuardOffset
  <2>2. NumObjects(b) = j - 1
    <3>1. ~ (j <= 1)
      BY <1>8, <1>15
    <3>2. ~ (c < PageSize)
      BY <1>6, <1>15
    <3> QED BY <1>4, <1>5, <1>9, <3>1, <3>2 DEF NumObjects
  <2>3. j > 1 /\ j \in Nat /\ (j * c) % PageSize = 0
    BY <1>8, <1>11, <1>15
  <2>4. Shape(c, j - 1, c, c, j * c)
    BY <1>6, <2>3, ShapeOfLarge
  <2> QED BY <1>4, <1>5, <1>8, <2>1, <2>2, <2>4
<1>16. Shape(ClassSize(b), NumObjects(b), GuardOffset(b), GuardUnit(b), bagSize)
  BY <1>6, <1>8, <1>13, <1>14, <1>15
<1>17. b \in 0 .. NumBags - 1
  BY <1>1, <1>3 DEF Exponents
<1>18. b = LastUsableBag =>
         GuardSize(b) = GuardOffset(b) + (NumBags - b - 1) * bagSize
  <2> SUFFICES ASSUME b = LastUsableBag
               PROVE  GuardSize(b) = GuardOffset(b) + (NumBags - b - 1) * bagSize
    OBVIOUS
  <2>1. NumBags - l + m - 1 = NumBags - b - 1
    BY <1>2, <1>3
  <2> QED BY <1>2, <2>1 DEF GuardSize
<1>19. b # LastUsableBag => GuardSize(b) = GuardOffset(b)
  BY DEF GuardSize
<1> QED BY <1>16, <1>17, <1>18, <1>19

-----------------------------------------------------------------------------
(***************************************************************************)
(* The invariant                                                           *)
(***************************************************************************)

\* Object k of the j-th heap of the set item.
ObjectAt(j, k) ==
  (setItem + j * BagSetSize) * HeapSize + StartOffset(thread, bag) + k * ClassSize(bag)

\* A pointer at object k of the j-th heap: its last object is that of the same
\* bag, and the bags it has seen are those of the heaps up to there.
PointsAt(p, last, starts, j, k) ==
  /\ p = ObjectAt(j, k) /\ last = ObjectAt(j, NumObjects(bag) - 1)
  /\ starts = {ObjectAt(i, 0) : i \in 0 .. j}

ItemFixed ==
  /\ bagSize \in BagSizes
  /\ thread \in 0 .. NumThreads - 1
  /\ bag \in UsableBags
  /\ setItem \in 0 .. BagSetSize - 1

PositionExact ==
  \E j \in Nat, k \in 0 .. NumObjects(bag) - 1 :
    PointsAt(position, lastofCurBag, bagGuards, j, k)

\* What was handed out are objects of bags whose ends are guarded, all of them
\* before the pointer.
HandedBefore ==
  \A p \in handed :
    /\ p + ClassSize(bag) <= position
    /\ \E j \in Nat, k \in 0 .. NumObjects(bag) - 1 :
         p = ObjectAt(j, k) /\ ObjectAt(j, 0) \in bagGuards

\* The random guards cover objects before the pointer, and none that was
\* handed out.
GuardsBefore ==
  \A r \in randomGuards :
    /\ r + GuardUnit(bag) <= position
    /\ \E j \in Nat, k \in 0 .. NumObjects(bag) - 1 : r = ObjectAt(j, k)

GuardsApart ==
  \A p \in handed, r \in randomGuards :
    p + ClassSize(bag) <= r \/ r + GuardUnit(bag) <= p

IInv == ItemFixed /\ PositionExact /\ HandedBefore /\ GuardsBefore /\ GuardsApart

\* The sizes a bag of the item has.
LEMMA ItemShape ==
  ASSUME ItemFixed
  PROVE  /\ Shape(ClassSize(bag), NumObjects(bag), GuardOffset(bag), GuardUnit(bag), bagSize)
         /\ bag \in 0 .. NumBags - 1
         /\ HeapSize = (NumBags * NumThreads) * bagSize
         /\ StartOffset(thread, bag) = (thread * NumBags + bag) * bagSize
         /\ StartOffset(thread, bag) \in Nat /\ HeapSize \in Nat \ {0}
         /\ StartOffset(thread, bag) + bagSize <= HeapSize
<1>1. /\ Shape(ClassSize(bag), NumObjects(bag), GuardOffset(bag), GuardUnit(bag), bagSize)
      /\ bag \in 0 .. NumBags - 1
  BY Geometry DEF ItemFixed
<1>2. PICK d, b, t, nb, nt :
        d = bagSize /\ b = bag /\ t = thread /\ nb = NumBags /\ nt = NumThreads
  OBVIOUS
<1>3. /\ d \in Nat \ {0} /\ nb \in Nat \ {0} /\ nt \in Nat \ {0}
      /\ b \in 0 .. nb - 1 /\ t \in 0 .. nt - 1
  BY <1>1, <1>2, LayoutAssumption DEF Shape, ItemFixed
<1>4. HeapSize = d * nb * nt /\ StartOffset(thread, bag) = t * (d * nb) + b * d
  BY <1>2 DEF HeapSize, ThreadSize, StartOffset
<1>5. d * nb * nt = (nb * nt) * d /\ t * (d * nb) + b * d = (t * nb + b) * d
  BY <1>3
<1>6. t * nb + b \in Nat /\ t * nb + b + 1 <= nb * nt
  <2>1. t * nb \in Nat
    BY <1>3
  <2>2. t * nb + nb <= nt * nb
    BY <1>3, Apart
  <2>3. nt * nb = nb * nt
    BY <1>3
  <2> QED BY <1>3, <2>1, <2>2, <2>3
<1>7. (t * nb + b) * d + d <= (nb * nt) * d /\ (t * nb + b) * d \in Nat
  <2>1. PICK x, y : x = t * nb + b /\ y = nb * nt
    OBVIOUS
  <2>2. x \in Nat /\ y \in Nat /\ x < y
    BY <1>3, <1>6, <2>1
  <2>3. x * d + d <= y * d /\ x * d \in Nat
    BY <1>3, <2>2, Apart
  <2> QED BY <2>1, <2>3
<1>8. (nb * nt) * d \in Nat
  BY <1>3
<1> QED BY <1>1, <1>2, <1>3, <1>4, <1>5, <1>7, <1>8

\* One step of the pointer: to the next object, or to the first one of the
\* next heap.
LEMMA IncrementedIs ==
  ASSUME ItemFixed, NEW j \in Nat, NEW k \in 0 .. NumObjects(bag) - 1,
         NEW p, NEW last, NEW starts, PointsAt(p, last, starts, j, k),
         NEW new, new = Incremented(p, last, starts)
  PROVE  \E j2 \in Nat, k2 \in 0 .. NumObjects(bag) - 1 :
           /\ PointsAt(new.position, new.last, new.starts, j2, k2)
           /\ j2 * NumObjects(bag) + k2 = j * NumObjects(bag) + k + 1
           /\ p + ClassSize(bag) <= new.position
           /\ starts \subseteq new.starts
<1>1. PICK c, n, g, d, h, s, o, i :
        /\ c = ClassSize(bag) /\ n = NumObjects(bag) /\ g = GuardOffset(bag)
        /\ d = bagSize /\ h = HeapSize /\ s = BagSetSize
        /\ o = StartOffset(thread, bag) /\ i = setItem
  OBVIOUS
<1>2. /\ c \in Nat \ {0} /\ n \in Nat \ {0} /\ g \in Nat /\ d \in Nat \ {0}
      /\ n * c + g = d /\ h \in Nat \ {0} /\ o \in Nat /\ o + d <= h
      /\ s \in Nat \ {0} /\ i \in Nat
  BY <1>1, ItemShape, LayoutAssumption DEF Shape, ItemFixed
<1>3. PICK base : base = (i + j * s) * h + o
  OBVIOUS
<1>4. base \in Nat
  BY <1>2, <1>3
<1>5. /\ \A x : ObjectAt(j, x) = base + x * c
      /\ ObjectAt(j + 1, 0) = base + h * s
      /\ ObjectAt(j, n - 1) = base + (n - 1) * c
      /\ ObjectAt(j + 1, n - 1) = base + h * s + (n - 1) * c
  <2>1. \A x : ObjectAt(j, x) = base + x * c
    BY <1>1, <1>3 DEF ObjectAt
  <2>2. \A x : ObjectAt(j + 1, x) = (i + (j + 1) * s) * h + o + x * c
    BY <1>1 DEF ObjectAt
  <2>3. (i + (j + 1) * s) * h = (i + j * s) * h + h * s
    <3>1. (j + 1) * s = j * s + s
      BY <1>2
    <3>2. PICK x : x = j * s
      OBVIOUS
    <3>3. x \in Nat /\ (i + (x + s)) * h = (i + x) * h + h * s
      BY <1>2, <3>2
    <3> QED BY <3>1, <3>2, <3>3
  <2>4. (i + (j + 1) * s) * h + o = base + h * s
    BY <1>2, <1>3, <2>3
  <2>5. 0 * c = 0 /\ h * s \in Nat
    BY <1>2
  <2> QED BY <1>4, <2>1, <2>2, <2>4, <2>5
<1>6. p = base + k * c /\ last = base + (n - 1) * c /\ starts = {ObjectAt(x, 0) : x \in 0 .. j}
  BY <1>1, <1>5 DEF PointsAt
<1>7. CASE k < n - 1
  <2>1. k * c + c <= (n - 1) * c /\ k * c \in Nat /\ (n - 1) * c \in Nat
    BY <1>1, <1>2, <1>7, Apart
  <2>2. p < last
    BY <1>2, <1>4, <1>6, <2>1
  <2>3. new.position = p + c /\ new.last = last /\ new.starts = starts
    BY <1>1, <2>2 DEF Incremented
  <2>4. p + c = base + (k + 1) * c /\ p + c = ObjectAt(j, k + 1)
    BY <1>1, <1>2, <1>4, <1>5, <1>6
  <2>5. k + 1 \in 0 .. NumObjects(bag) - 1
    BY <1>1, <1>2, <1>7
  <2>6. PointsAt(new.position, new.last, new.starts, j, k + 1)
    BY <2>3, <2>4 DEF PointsAt
  <2>7. p + c \in Nat
    BY <1>2, <1>4, <1>6, <2>1
  <2>8. j * n + (k + 1) = j * n + k + 1
    BY <1>1, <1>2
  <2> QED BY <1>1, <2>3, <2>5, <2>6, <2>7, <2>8
<1>8. CASE k = n - 1
  <2>1. p = last /\ p \in Nat
    BY <1>2, <1>4, <1>6, <1>8
  <2>2. PICK q : q = p + NextHeapObjectOffset(bag)
    OBVIOUS
  <2>3. new.position = q /\ new.last = LastOfBag(q, bag) /\ new.starts = starts \cup {q}
    BY <2>1, <2>2 DEF Incremented
  <2>4. (n - 1) * c = n * c - c /\ h * (s - 1) = h * s - h /\ n * c \in Nat /\ h * s \in Nat
    BY <1>2
  <2>5. q = base + h * s
    <3>1. q = p + (h * (s - 1) + (h - d + c + g))
      BY <1>1, <2>2 DEF NextHeapObjectOffset
    <3> QED BY <1>2, <1>4, <1>6, <1>8, <2>4, <3>1
  <2>6. LastOfBag(q, bag) = base + h * s + (n - 1) * c
    <3>1. LastOfBag(q, bag) = q + d - g - c
      BY <1>1 DEF LastOfBag
    <3> QED BY <1>2, <1>4, <2>4, <2>5, <3>1
  <2>7. starts \cup {q} = {ObjectAt(x, 0) : x \in 0 .. j + 1}
    <3>1. 0 .. j + 1 = 0 .. j \cup {j + 1}
      OBVIOUS
    <3>2. q = ObjectAt(j + 1, 0)
      BY <1>5, <2>5
    <3> QED BY <1>6, <3>1, <3>2
  <2>8. PointsAt(new.position, new.last, new.starts, j + 1, 0)
    BY <1>1, <1>5, <2>3, <2>5, <2>6, <2>7 DEF PointsAt
  <2>9. p + c <= q
    <3>1. h <= h * s
      BY <1>2, Product
    <3> QED BY <1>2, <1>4, <1>6, <1>8, <2>4, <2>5, <3>1
  <2>10. (j + 1) * n + 0 = j * n + k + 1
    BY <1>2, <1>8
  <2>11. 0 \in 0 .. NumObjects(bag) - 1
    BY <1>1, <1>2
  <2> QED BY <1>1, <2>3, <2>8, <2>9, <2>10, <2>11
<1> QED BY <1>1, <1>2, <1>7, <1>8

\* Where an object is, in bags.
LEMMA ObjectInBags ==
  ASSUME ItemFixed, NEW j \in Nat, NEW k \in Nat
  PROVE  /\ setItem + j * BagSetSize \in Nat
         /\ (setItem + j * BagSetSize) * (NumBags * NumThreads) + (thread * NumBags + bag) \in Nat
         /\ ObjectAt(j, k) =
              ((setItem + j * BagSetSize) * (NumBags * NumThreads) + (thread * NumBags + bag))
                * bagSize + k * ClassSize(bag)
<1>1. PICK x, y, z, d, c :
        /\ x = setItem + j * BagSetSize /\ y = NumBags * NumThreads
        /\ z = thread * NumBags + bag /\ d = bagSize /\ c = ClassSize(bag)
  OBVIOUS
<1>2. BagSetSize \in Nat /\ NumBags \in Nat /\ NumThreads \in Nat /\ setItem \in Nat /\ thread \in Nat
  BY LayoutAssumption DEF ItemFixed
<1>3. bag \in Nat /\ d \in Nat /\ c \in Nat
  BY <1>1, ItemShape DEF Shape
<1>4. x \in Nat /\ y \in Nat /\ z \in Nat
  BY <1>1, <1>2, <1>3
<1>5. ObjectAt(j, k) = x * (y * d) + z * d + k * c
  BY <1>1, ItemShape DEF ObjectAt
<1>6. x * (y * d) + z * d = (x * y + z) * d
  BY <1>3, <1>4
<1>7. x * y + z \in Nat
  BY <1>4
<1> QED BY <1>1, <1>4, <1>5, <1>6, <1>7

\* A random guard page: the objects it covers are those from the one it
\* begins at, and the pointer goes on behind them.
LEMMA SkippedIs ==
  ASSUME ItemFixed, NEW j \in Nat, NEW k \in 0 .. NumObjects(bag) - 1,
         NEW p, NEW last, NEW starts, PointsAt(p, last, starts, j, k),
         p % PageSize = 0,
         NEW new, new = Incremented(p + GuardUnit(bag) - ClassSize(bag), last, starts)
  PROVE  \E j2 \in Nat, k2 \in 0 .. NumObjects(bag) - 1, w \in Nat \ {0} :
           /\ PointsAt(new.position, new.last, new.starts, j2, k2)
           /\ p + GuardUnit(bag) <= new.position
           /\ starts \subseteq new.starts
           /\ GuardUnit(bag) = w * ClassSize(bag)
           /\ (j * NumObjects(bag) + k) % w = 0
           /\ j2 * NumObjects(bag) + k2 = j * NumObjects(bag) + k + w
<1>1. PICK c, n, d, u, b :
        /\ c = ClassSize(bag) /\ n = NumObjects(bag) /\ d = bagSize /\ u = GuardUnit(bag)
        /\ b = (setItem + j * BagSetSize) * (NumBags * NumThreads) + (thread * NumBags + bag)
  OBVIOUS
<1>2. /\ c \in Nat \ {0} /\ n \in Nat \ {0} /\ d \in Nat \ {0}
      /\ d % PageSize = 0
  BY <1>1, ItemShape DEF Shape
<1>3. PICK w \in Nat \ {0} :
        /\ u = w * c /\ n % w = 0
        /\ \A x \in 0 .. n - 1 : (x * c) % PageSize = 0 => x + w <= n /\ x % w = 0
  BY <1>1, ItemShape DEF Shape
<1>4. PICK e : e = PageSize
  OBVIOUS
<1>5. e \in Nat \ {0} /\ b \in Nat
  BY <1>1, <1>4, LayoutAssumption, ObjectInBags
<1>6. k \in Nat /\ k < n /\ k * c \in Nat
  BY <1>1, <1>2
<1>7. p = b * d + k * c
  BY <1>1, <1>6, ObjectInBags DEF PointsAt
<1>8. (k * c) % e = 0
  <2>1. PICK x \in Nat, z \in 0 .. e - 1 : d = x * e + z /\ d \div e = x /\ d % e = z
    BY <1>2, <1>5, Divided
  <2>2. d = x * e
    <3>1. z = 0 /\ x * e \in Nat
      BY <1>2, <1>4, <1>5, <2>1
    <3> QED BY <2>1, <3>1
  <2>3. b * d = (b * x) * e /\ b * x \in Nat
    BY <1>5, <2>1, <2>2
  <2>4. PICK y, r : y = b * x /\ r = k * c
    OBVIOUS
  <2>5. (y * e + r) % e = r % e
    <3>1. PICK v \in Nat, f \in 0 .. e - 1 : r = v * e + f /\ r \div e = v /\ r % e = f
      <4>1. r \in Nat
        BY <1>6, <2>4
      <4> QED BY <1>5, <4>1, Divided
    <3>2. y \in Nat
      BY <2>3, <2>4
    <3>3. y * e + r = (y + v) * e + f
      <4>1. (y + v) * e = y * e + v * e
        BY <1>5, <3>2
      <4>2. v * e \in Nat /\ y * e \in Nat /\ f \in Nat
        BY <1>5, <3>2
      <4> QED BY <3>1, <4>1, <4>2
    <3>4. ((y + v) * e + f) % e = f
      <4>1. y + v \in Nat
        BY <3>2
      <4> QED BY <1>5, <4>1, Division
    <3> QED BY <3>1, <3>3, <3>4
  <2> QED BY <1>4, <1>7, <2>3, <2>4, <2>5
<1>9. k + w <= n /\ k % w = 0
  BY <1>1, <1>3, <1>4, <1>8
<1>10. PICK m : m = k + w - 1
  OBVIOUS
<1>11. m \in 0 .. NumObjects(bag) - 1
  <2>1. m \in 0 .. n - 1
    BY <1>2, <1>3, <1>6, <1>9, <1>10
  <2> QED BY <1>1, <2>1
<1>12. p + u - c = ObjectAt(j, m)
  <2>1. ObjectAt(j, m) = b * d + m * c
    BY <1>1, <1>11, ObjectInBags
  <2>2. m * c = k * c + w * c - c
    BY <1>2, <1>3, <1>6, <1>10
  <2>3. b * d \in Nat /\ w * c \in Nat
    BY <1>2, <1>3, <1>5
  <2> QED BY <1>2, <1>3, <1>6, <1>7, <2>1, <2>2, <2>3
<1>13. PICK q : q = p + u - c
  OBVIOUS
<1>14. PointsAt(q, last, starts, j, m)
  BY <1>12, <1>13 DEF PointsAt
<1>15. new = Incremented(q, last, starts)
  BY <1>1, <1>13
<1>16. PICK j2 \in Nat, k2 \in 0 .. NumObjects(bag) - 1 :
         /\ PointsAt(new.position, new.last, new.starts, j2, k2)
         /\ j2 * NumObjects(bag) + k2 = j * NumObjects(bag) + m + 1
         /\ q + ClassSize(bag) <= new.position
         /\ starts \subseteq new.starts
  BY <1>11, <1>14, <1>15, IncrementedIs
<1>17. q + c = p + u
  <2>1. p \in Nat /\ u \in Nat
    BY <1>2, <1>3, <1>5, <1>6, <1>7
  <2> QED BY <1>2, <1>13, <2>1
<1>18. (j * n + k) % w = 0
  <2>1. PICK x \in Nat, f \in 0 .. w - 1 : n = x * w + f /\ n \div w = x /\ n % w = f
    BY <1>2, Divided
  <2>2. PICK y \in Nat, z \in 0 .. w - 1 : k = y * w + z /\ k \div w = y /\ k % w = z
    BY <1>6, Divided
  <2>3. n = x * w /\ k = y * w
    BY <1>3, <1>9, <2>1, <2>2
  <2>4. PICK v : v = j * x + y
    OBVIOUS
  <2>5. v \in Nat /\ j * n + k = v * w + 0
    BY <2>3, <2>4
  <2>6. v \in Nat /\ 0 \in 0 .. w - 1
    BY <2>5
  <2>7. (v * w + 0) % w = 0
    BY <2>6, Division
  <2> QED BY <2>5, <2>7
<1>19. j * n + m + 1 = j * n + k + w
  BY <1>2, <1>3, <1>6, <1>10
<1> QED BY <1>1, <1>3, <1>16, <1>17, <1>18, <1>19

\* Nothing that the layout depends on changes.
LEMMA LayoutKept ==
  ASSUME UNCHANGED <<bagSize, thread, bag, setItem>>
  PROVE  /\ ItemFixed => ItemFixed'
         /\ NumObjects(bag)' = NumObjects(bag) /\ ClassSize(bag)' = ClassSize(bag)
         /\ GuardUnit(bag)' = GuardUnit(bag)
         /\ \A j, k : ObjectAt(j, k)' = ObjectAt(j, k)
<1>1. /\ NumObjects(bag)' = NumObjects(bag) /\ ClassSize(bag)' = ClassSize(bag)
      /\ GuardUnit(bag)' = GuardUnit(bag)
  BY DEF NumObjects, ClassSize, GuardUnit
<1>2. \A j, k : ObjectAt(j, k)' = ObjectAt(j, k)
  BY <1>1 DEF ObjectAt, HeapSize, ThreadSize, StartOffset
<1>3. ItemFixed => ItemFixed'
  BY DEF ItemFixed, UsableBags, NumUsableBags, LastUsableSize
<1> QED BY <1>1, <1>2, <1>3

\* Positions are numbers.
LEMMA ObjectType ==
  ASSUME ItemFixed, NEW j \in Nat, NEW k \in Nat
  PROVE  ObjectAt(j, k) \in Nat
<1>1. PICK x, d, c :
        /\ x = (setItem + j * BagSetSize) * (NumBags * NumThreads) + (thread * NumBags + bag)
        /\ d = bagSize /\ c = ClassSize(bag)
  OBVIOUS
<1>2. x \in Nat /\ ObjectAt(j, k) = x * d + k * c
  BY <1>1, ObjectInBags
<1>3. d \in Nat /\ c \in Nat
  BY <1>1, ItemShape DEF Shape
<1> QED BY <1>2, <1>3

\* The first position of a bag set item satisfies the invariant.
LEMMA InitInvariant == Init => IInv
<1> SUFFICES ASSUME Init PROVE IInv
  OBVIOUS
<1>1. ItemFixed
  BY DEF Init, ItemFixed
<1>2. PICK c, n, g, d, h, o, i :
        /\ c = ClassSize(bag) /\ n = NumObjects(bag) /\ g = GuardOffset(bag)
        /\ d = bagSize /\ h = HeapSize /\ o = StartOffset(thread, bag) /\ i = setItem
  OBVIOUS
<1>3. /\ c \in Nat \ {0} /\ n \in Nat \ {0} /\ g \in Nat /\ d \in Nat \ {0}
      /\ n * c + g = d /\ h \in Nat /\ o \in Nat /\ i \in Nat /\ BagSetSize \in Nat
  BY <1>1, <1>2, ItemShape, LayoutAssumption DEF Shape, ItemFixed
<1>4. \A x : ObjectAt(0, x) = i * h + o + x * c
  <2>1. i + 0 * BagSetSize = i
    BY <1>3
  <2> QED BY <1>2, <2>1 DEF ObjectAt
<1>5. i * h \in Nat /\ 0 * c = 0 /\ (n - 1) * c = n * c - c /\ n * c \in Nat
  BY <1>3
<1>6. position = ObjectAt(0, 0)
  BY <1>2, <1>3, <1>4, <1>5 DEF Init
<1>7. lastofCurBag = ObjectAt(0, n - 1)
  <2>1. lastofCurBag = position + d - g - c
    BY <1>2 DEF Init, LastOfBag
  <2>2. position = o + i * h
    BY <1>2 DEF Init
  <2> QED BY <1>3, <1>4, <1>5, <2>1, <2>2
<1>8. bagGuards = {ObjectAt(x, 0) : x \in 0 .. 0}
  <2>1. 0 .. 0 = {0}
    OBVIOUS
  <2> QED BY <1>6, <2>1 DEF Init
<1>9. PointsAt(position, lastofCurBag, bagGuards, 0, 0)
  BY <1>2, <1>6, <1>7, <1>8 DEF PointsAt
<1>10. 0 \in 0 .. NumObjects(bag) - 1
  BY <1>2, <1>3
<1>11. PositionExact
  BY <1>9, <1>10 DEF PositionExact
<1>12. HandedBefore /\ GuardsBefore /\ GuardsApart
  BY DEF Init, HandedBefore, GuardsBefore, GuardsApart
<1> QED BY <1>1, <1>11, <1>12 DEF IInv

\* What a call hands out: the object the pointer is at, and then the pointer
\* is at an object behind it.
LEMMA AfterIs ==
  ASSUME IInv
  PROVE  \E j, j2 \in Nat, k, k2 \in 0 .. NumObjects(bag) - 1 :
           /\ PointsAt(position, lastofCurBag, bagGuards, j, k)
           /\ PointsAt(After.position, After.last, After.starts, j2, k2)
           /\ j2 * NumObjects(bag) + k2 = j * NumObjects(bag) + k + 1
           /\ position + ClassSize(bag) <= After.position
           /\ bagGuards \subseteq After.starts
<1>1. ItemFixed
  BY DEF IInv
<1>2. PICK j \in Nat, k \in 0 .. NumObjects(bag) - 1 :
        PointsAt(position, lastofCurBag, bagGuards, j, k)
  BY DEF IInv, PositionExact
<1>3. PICK p, last, starts, new :
        /\ p = position /\ last = lastofCurBag /\ starts = bagGuards /\ new = After
  OBVIOUS
<1>4. PointsAt(p, last, starts, j, k) /\ new = Incremented(p, last, starts)
  BY <1>2, <1>3 DEF After
<1>5. \E j2 \in Nat, k2 \in 0 .. NumObjects(bag) - 1 :
        /\ PointsAt(new.position, new.last, new.starts, j2, k2)
        /\ j2 * NumObjects(bag) + k2 = j * NumObjects(bag) + k + 1
        /\ p + ClassSize(bag) <= new.position
        /\ starts \subseteq new.starts
  BY <1>1, <1>4, IncrementedIs
<1> QED BY <1>2, <1>3, <1>5

\* The invariant is kept by an allocation that moves to the next object.
LEMMA AllocateInvariant ==
  ASSUME IInv, Allocate PROVE IInv'
<1>1. PICK j, j2 \in Nat, k, k2 \in 0 .. NumObjects(bag) - 1 :
        /\ PointsAt(position, lastofCurBag, bagGuards, j, k)
        /\ PointsAt(After.position, After.last, After.starts, j2, k2)
        /\ position + ClassSize(bag) <= After.position
        /\ bagGuards \subseteq After.starts
  BY AfterIs
<1>2. PICK c, n, u, p, q, G : 
        /\ c = ClassSize(bag) /\ n = NumObjects(bag) /\ u = GuardUnit(bag)
        /\ p = position /\ q = After.position /\ G = After.starts
  OBVIOUS
<1>3. ItemFixed
  BY DEF IInv
<1>4. /\ n \in Nat /\ c \in Nat /\ u \in Nat /\ p \in Nat /\ q \in Nat
      /\ p + c <= q /\ bagGuards \subseteq G
      /\ p = ObjectAt(j, k) /\ ObjectAt(j, 0) \in bagGuards
  <2>1. n \in Nat /\ c \in Nat /\ u \in Nat
    BY <1>2, <1>3, ItemShape DEF Shape
  <2>2. k \in Nat /\ k2 \in Nat /\ 0 \in 0 .. j
    BY <1>2, <2>1
  <2>3. p = ObjectAt(j, k) /\ q = ObjectAt(j2, k2) /\ ObjectAt(j, 0) \in bagGuards
    BY <1>1, <1>2, <2>2 DEF PointsAt
  <2>4. ObjectAt(j, k) \in Nat /\ ObjectAt(j2, k2) \in Nat
    BY <1>3, <2>2, ObjectType
  <2> QED BY <1>1, <1>2, <2>1, <2>3, <2>4
<1>5. UNCHANGED <<bagSize, thread, bag, setItem>>
  BY DEF Allocate
<1>6. /\ position' = q /\ lastofCurBag' = After.last /\ bagGuards' = G
      /\ handed' = handed \cup {p} /\ randomGuards' = randomGuards
  BY <1>2 DEF Allocate, Move
<1>7. ItemFixed'
  BY <1>3, <1>5, LayoutKept
<1>8. PositionExact'
  <2>1. PointsAt(position, lastofCurBag, bagGuards, j2, k2)'
    BY <1>1, <1>2, <1>5, <1>6, LayoutKept DEF PointsAt
  <2> QED BY <1>5, <2>1, LayoutKept DEF PositionExact
<1>9. HandedBefore'
  <2>1. ASSUME NEW x \in handed'
        PROVE  /\ x + c <= q
               /\ \E y \in Nat, z \in 0 .. n - 1 : x = ObjectAt(y, z) /\ ObjectAt(y, 0) \in G
    <3>1. CASE x = p
      BY <1>2, <1>4, <3>1
    <3>2. CASE x \in handed
      <4>1. PICK y \in Nat, z \in 0 .. n - 1 :
              x = ObjectAt(y, z) /\ ObjectAt(y, 0) \in bagGuards /\ x + c <= p
        BY <1>2, <3>2 DEF IInv, HandedBefore
      <4>2. x \in Nat
        BY <1>3, <1>4, <4>1, ObjectType
      <4> QED BY <1>4, <4>1, <4>2
    <3> QED BY <1>6, <3>1, <3>2
  <2> QED BY <1>2, <1>5, <1>6, <2>1, LayoutKept DEF HandedBefore
<1>10. GuardsBefore'
  <2>1. ASSUME NEW r \in randomGuards
        PROVE  /\ r + u <= q
               /\ \E y \in Nat, z \in 0 .. n - 1 : r = ObjectAt(y, z)
    <3>1. PICK y \in Nat, z \in 0 .. n - 1 : r = ObjectAt(y, z) /\ r + u <= p
      BY <1>2 DEF IInv, GuardsBefore
    <3>2. r \in Nat
      BY <1>3, <1>4, <3>1, ObjectType
    <3> QED BY <1>4, <3>1, <3>2
  <2> QED BY <1>2, <1>5, <1>6, <2>1, LayoutKept DEF GuardsBefore
<1>11. GuardsApart'
  <2>1. ASSUME NEW x \in handed', NEW r \in randomGuards
        PROVE  x + c <= r \/ r + u <= x
    <3>1. CASE x = p
      BY <1>2, <3>1 DEF IInv, GuardsBefore
    <3>2. CASE x \in handed
      BY <1>2, <3>2 DEF IInv, GuardsApart
    <3> QED BY <1>6, <3>1, <3>2
  <2> QED BY <1>2, <1>5, <1>6, <2>1, LayoutKept DEF GuardsApart
<1> QED BY <1>7, <1>8, <1>9, <1>10, <1>11 DEF IInv

\* The invariant is kept by an allocation that ends a bag and jumps to the next one.
LEMMA GuardInvariant ==
  ASSUME IInv, AllocateAndGuard PROVE IInv'
<1>1. PICK j, j1 \in Nat, k, k1 \in 0 .. NumObjects(bag) - 1 :
        /\ PointsAt(position, lastofCurBag, bagGuards, j, k)
        /\ PointsAt(After.position, After.last, After.starts, j1, k1)
        /\ position + ClassSize(bag) <= After.position
        /\ bagGuards \subseteq After.starts
  BY AfterIs
<1>2. PICK c, n, u, p, a, q, G :
        /\ c = ClassSize(bag) /\ n = NumObjects(bag) /\ u = GuardUnit(bag)
        /\ p = position /\ a = After.position
        /\ q = Skipped.position /\ G = Skipped.starts
  OBVIOUS
<1>3. ItemFixed
  BY DEF IInv
<1>4. PICK j2 \in Nat, k2 \in 0 .. NumObjects(bag) - 1 :
        /\ PointsAt(Skipped.position, Skipped.last, Skipped.starts, j2, k2)
         /\ a + u <= q /\ After.starts \subseteq G
  <2>1. PICK last, starts, new : last = After.last /\ starts = After.starts /\ new = Skipped
    OBVIOUS
  <2>2. PointsAt(a, last, starts, j1, k1) /\ a % PageSize = 0
    BY <1>1, <1>2, <2>1 DEF AllocateAndGuard
  <2>3. new = Incremented(a + GuardUnit(bag) - ClassSize(bag), last, starts)
    BY <1>2, <2>1 DEF Skipped
  <2>4. \E x \in Nat, y \in 0 .. NumObjects(bag) - 1 :
          /\ PointsAt(new.position, new.last, new.starts, x, y)
          /\ a + GuardUnit(bag) <= new.position
          /\ starts \subseteq new.starts
    BY <1>3, <2>2, <2>3, SkippedIs
  <2> QED BY <1>2, <2>1, <2>4
<1>5. /\ n \in Nat /\ c \in Nat /\ u \in Nat /\ p \in Nat /\ a \in Nat /\ q \in Nat
      /\ p + c <= a /\ a + u <= q /\ bagGuards \subseteq G
      /\ p = ObjectAt(j, k) /\ ObjectAt(j, 0) \in bagGuards /\ a = ObjectAt(j1, k1)
  <2>1. n \in Nat /\ c \in Nat /\ u \in Nat
    <3>1. n \in Nat /\ c \in Nat
      BY <1>2, <1>3, ItemShape DEF Shape
    <3>2. PICK w \in Nat : u = w * c
      BY <1>2, <1>3, ItemShape DEF Shape
    <3> QED BY <3>1, <3>2
  <2>2. k \in Nat /\ k1 \in Nat /\ k2 \in Nat /\ 0 \in 0 .. j
    BY <1>2, <2>1
  <2>3. /\ p = ObjectAt(j, k) /\ a = ObjectAt(j1, k1) /\ q = ObjectAt(j2, k2)
        /\ ObjectAt(j, 0) \in bagGuards
    BY <1>1, <1>2, <1>4, <2>2 DEF PointsAt
  <2>4. ObjectAt(j, k) \in Nat /\ ObjectAt(j1, k1) \in Nat /\ ObjectAt(j2, k2) \in Nat
    BY <1>3, <2>2, ObjectType
  <2> QED BY <1>1, <1>2, <1>4, <2>1, <2>3, <2>4
<1>6. UNCHANGED <<bagSize, thread, bag, setItem>>
  BY DEF AllocateAndGuard
<1>7. /\ position' = q /\ lastofCurBag' = Skipped.last /\ bagGuards' = G
      /\ handed' = handed \cup {p} /\ randomGuards' = randomGuards \cup {a}
  BY <1>2 DEF AllocateAndGuard, Move
<1>8. ItemFixed'
  BY <1>3, <1>6, LayoutKept
<1>9. PositionExact'
  <2>1. PointsAt(position, lastofCurBag, bagGuards, j2, k2)'
    BY <1>2, <1>6, <1>7, <1>4, LayoutKept DEF PointsAt
  <2> QED BY <1>6, <2>1, LayoutKept DEF PositionExact
<1>10. HandedBefore'
  <2>1. ASSUME NEW x \in handed'
        PROVE  /\ x + c <= q
               /\ \E y \in Nat, z \in 0 .. n - 1 : x = ObjectAt(y, z) /\ ObjectAt(y, 0) \in G
    <3>1. CASE x = p
      BY <1>2, <1>5, <3>1
    <3>2. CASE x \in handed
      <4>1. PICK y \in Nat, z \in 0 .. n - 1 :
              x = ObjectAt(y, z) /\ ObjectAt(y, 0) \in bagGuards /\ x + c <= p
        BY <1>2, <3>2 DEF IInv, HandedBefore
      <4>2. x \in Nat
        BY <1>3, <1>5, <4>1, ObjectType
      <4> QED BY <1>5, <4>1, <4>2
    <3> QED BY <1>7, <3>1, <3>2
  <2> QED BY <1>2, <1>6, <1>7, <2>1, LayoutKept DEF HandedBefore
<1>11. GuardsBefore'
  <2>1. ASSUME NEW r \in randomGuards'
        PROVE  /\ r + u <= q
               /\ \E y \in Nat, z \in 0 .. n - 1 : r = ObjectAt(y, z)
    <3>1. CASE r = a
      BY <1>2, <1>5, <3>1
    <3>2. CASE r \in randomGuards
      <4>1. PICK y \in Nat, z \in 0 .. n - 1 : r = ObjectAt(y, z) /\ r + u <= p
        BY <1>2, <3>2 DEF IInv, GuardsBefore
      <4>2. r \in Nat
        BY <1>3, <1>5, <4>1, ObjectType
      <4> QED BY <1>5, <4>1, <4>2
    <3> QED BY <1>7, <3>1, <3>2
  <2> QED BY <1>2, <1>6, <1>7, <2>1, LayoutKept DEF GuardsBefore
<1>12. GuardsApart'
  <2>1. ASSUME NEW x \in handed', NEW r \in randomGuards'
        PROVE  x + c <= r \/ r + u <= x
    <3>1. CASE x = p /\ r \in randomGuards
      BY <1>2, <3>1 DEF IInv, GuardsBefore
    <3>2. CASE x \in handed /\ r \in randomGuards
      BY <1>2, <3>2 DEF IInv, GuardsApart
    <3>3. CASE x = p /\ r = a
      BY <1>5, <3>3
    <3>4. CASE x \in handed /\ r = a
      <4>1. PICK y \in Nat, z \in 0 .. n - 1 : x = ObjectAt(y, z) /\ x + c <= p
        BY <1>2, <3>4 DEF IInv, HandedBefore
      <4>2. x \in Nat
        BY <1>3, <1>5, <4>1, ObjectType
      <4> QED BY <1>5, <3>4, <4>1, <4>2
    <3> QED BY <1>7, <3>1, <3>2, <3>3, <3>4
  <2> QED BY <1>2, <1>6, <1>7, <2>1, LayoutKept DEF GuardsApart
<1> QED BY <1>8, <1>9, <1>10, <1>11, <1>12 DEF IInv

\* The invariant is inductive.
LEMMA NextInvariant == IInv /\ [Next]_vars => IInv'
<1> SUFFICES ASSUME IInv, [Next]_vars PROVE IInv'
  OBVIOUS
<1>1. CASE Allocate
  BY <1>1, AllocateInvariant
<1>2. CASE AllocateAndGuard
  BY <1>2, GuardInvariant
<1>3. CASE UNCHANGED vars
  <2>1. UNCHANGED <<bagSize, thread, bag, setItem>>
    BY <1>3 DEF vars
  <2>2. ItemFixed'
    BY <2>1, LayoutKept DEF IInv
  <2>3. PositionExact'
    <3>1. PICK j \in Nat, k \in 0 .. NumObjects(bag) - 1 :
            PointsAt(position, lastofCurBag, bagGuards, j, k)
      BY DEF IInv, PositionExact
    <3>2. PointsAt(position, lastofCurBag, bagGuards, j, k)'
      BY <1>3, <2>1, <3>1, LayoutKept DEF vars, PointsAt
    <3> QED BY <2>1, <3>2, LayoutKept DEF PositionExact
  <2>4. HandedBefore' /\ GuardsBefore' /\ GuardsApart'
    BY <1>3, <2>1, LayoutKept DEF vars, IInv, HandedBefore, GuardsBefore, GuardsApart
  <2> QED BY <2>2, <2>3, <2>4 DEF IInv
<1> QED BY <1>1, <1>2, <1>3 DEF Next

\* incrementBumpPointer / tryRandomGuardPage: the pointer is always at an
\* object of a bag whose end is guarded, behind all that was handed out and
\* all random guards, and these do not overlap.
THEOREM Invariance == Spec => []IInv
<1> QED BY InitInvariant, NextInvariant, PTL DEF Spec

-----------------------------------------------------------------------------
(***************************************************************************)
(* From an address to its thread, bag and number                           *)
(***************************************************************************)

\* The thread, bag and bag set item that an address of an object names.
LEMMA AddressParts ==
  ASSUME ItemFixed, NEW j \in Nat, NEW k \in 0 .. NumObjects(bag) - 1,
         NEW a, a = ObjectAt(j, k)
  PROVE  /\ ThreadOf(a) = thread /\ BagOf(a) = bag /\ SetItemOf(a) = setItem
         /\ HeapIndex(a) = setItem + j * BagSetSize
         /\ HeapIndex(a) \div BagSetSize = j
         /\ a % bagSize = k * ClassSize(bag)
         /\ (a % bagSize) \div ClassSize(bag) = k
<1>1. PICK c, n, d, s, i, t, b, nb, nt, x, y, z :
        /\ c = ClassSize(bag) /\ n = NumObjects(bag) /\ d = bagSize /\ s = BagSetSize
        /\ i = setItem /\ t = thread /\ b = bag /\ nb = NumBags /\ nt = NumThreads
        /\ x = setItem + j * BagSetSize /\ y = NumBags * NumThreads
        /\ z = thread * NumBags + bag
  OBVIOUS
<1>2. /\ c \in Nat \ {0} /\ n \in Nat \ {0} /\ d \in Nat \ {0} /\ n * c <= d
  <2>1. n * c + GuardOffset(bag) = d /\ GuardOffset(bag) \in Nat
        /\ c \in Nat \ {0} /\ n \in Nat \ {0} /\ d \in Nat \ {0}
    BY <1>1, ItemShape DEF Shape
  <2>2. n * c \in Nat
    BY <2>1
  <2> QED BY <2>1, <2>2
<1>3. /\ s \in Nat \ {0} /\ nb \in Nat \ {0} /\ nt \in Nat \ {0}
      /\ i \in 0 .. s - 1 /\ t \in 0 .. nt - 1 /\ b \in 0 .. nb - 1
  BY <1>1, ItemShape, LayoutAssumption DEF ItemFixed
<1>4. x \in Nat /\ y \in Nat \ {0} /\ z \in 0 .. y - 1
  <2>1. x \in Nat
    BY <1>1, <1>3
  <2>2. y \in Nat \ {0}
    BY <1>1, <1>3, Product
  <2>3. t * nb + nb <= nt * nb /\ t * nb \in Nat /\ nt * nb = nb * nt
    BY <1>3, Apart
  <2>4. z = t * nb + b /\ y = nb * nt
    BY <1>1
  <2> QED BY <1>3, <2>1, <2>2, <2>3, <2>4
<1>5. k * c \in 0 .. d - 1
  <2>1. k \in Nat /\ k < n
    BY <1>1, <1>2
  <2>2. k * c + c <= n * c /\ k * c \in Nat /\ n * c \in Nat
    BY <1>2, <2>1, Apart
  <2> QED BY <1>2, <2>2
<1>6. PICK v, f : v = x * y + z /\ f = k * c
  OBVIOUS
<1>7. v \in Nat /\ f \in 0 .. d - 1 /\ a = v * d + f
  <2>1. k \in Nat
    BY <1>1, <1>2
  <2> QED BY <1>1, <1>4, <1>5, <1>6, <2>1, ObjectInBags
<1>8. a \div d = v /\ a % d = f
  BY <1>2, <1>7, Division
<1>9. v \div y = x /\ v % y = z
  BY <1>4, <1>6, Division
<1>10. HeapIndex(a) = x
  BY <1>1, <1>8, <1>9 DEF HeapIndex
<1>11. x \div s = j /\ x % s = i
  <2>1. x = j * s + i
    BY <1>1, <1>3
  <2> QED BY <1>3, <2>1, Division
<1>12. f \div c = k
  <2>1. (k * c + 0) \div c = k
    BY <1>1, <1>2, Division
  <2> QED BY <1>2, <1>5, <1>6, <2>1
<1>13. BagOf(a) = bag
  <2>1. v % nb = b
    <3>1. v = (x * nt + t) * nb + b
      <4>1. x * y = (x * nt) * nb
        BY <1>1, <1>3, <1>4
      <4>2. PICK w : w = x * nt
        OBVIOUS
      <4>3. w \in Nat /\ (w + t) * nb = w * nb + t * nb
        BY <1>3, <1>4, <4>2
      <4> QED BY <1>1, <1>3, <1>6, <4>1, <4>2, <4>3
    <3>2. x * nt + t \in Nat
      BY <1>3, <1>4
    <3> QED BY <1>3, <3>1, <3>2, Division
  <2> QED BY <1>1, <1>8, <2>1 DEF BagOf
<1>14. ThreadOf(a) = thread
  <2>1. PICK h, m, g : h = HeapSize /\ m = ThreadSize /\ g = b * d + f
    OBVIOUS
  <2>2. h = y * d /\ m = nb * d /\ m \in Nat \ {0} /\ h \in Nat \ {0}
    <3>1. h = y * d /\ h \in Nat \ {0}
      BY <1>1, <2>1, ItemShape
    <3>2. m = d * nb
      BY <1>1, <2>1 DEF ThreadSize
    <3> QED BY <1>2, <1>3, <3>1, <3>2, Product
  <2>3. g \in 0 .. m - 1
    <3>1. PICK X, Y : X = b * d /\ Y = nb * d
      OBVIOUS
    <3>2. X + d <= Y /\ X \in Nat /\ Y \in Nat
      BY <1>2, <1>3, <3>1, Apart
    <3>3. g = X + f /\ m = Y /\ f \in Nat /\ f < d
      BY <1>2, <1>7, <2>1, <2>2, <3>1
    <3> QED BY <1>2, <3>2, <3>3
  <2>4. z * d + f = t * m + g
    <3>1. z * d = t * (nb * d) + b * d
      BY <1>1, <1>2, <1>3
    <3> QED BY <1>2, <1>3, <1>7, <2>1, <2>2, <3>1
  <2>5. z * d + f \in 0 .. h - 1
    <3>1. PICK X, Y : X = z * d /\ Y = y * d
      OBVIOUS
    <3>2. X + d <= Y /\ X \in Nat /\ Y \in Nat
      BY <1>2, <1>4, <3>1, Apart
    <3>3. z * d + f = X + f /\ h = Y /\ f \in Nat /\ f < d
      BY <1>2, <1>7, <2>2, <3>1
    <3> QED BY <1>2, <3>2, <3>3
  <2>6. a = x * h + (z * d + f)
    <3>1. v * d = x * (y * d) + z * d
      BY <1>2, <1>4, <1>6
    <3> QED BY <1>2, <1>4, <1>7, <2>2, <3>1
  <2>7. PICK r : r = z * d + f
    OBVIOUS
  <2>8. a % h = r
    BY <1>4, <2>2, <2>5, <2>6, <2>7, Division
  <2>9. r \div m = t
    <3>1. r = t * m + g
      BY <2>4, <2>7
    <3>2. t \in Nat /\ m \in Nat \ {0} /\ g \in 0 .. m - 1
      BY <1>3, <2>2, <2>3
    <3>3. (t * m + g) \div m = t
      BY <3>2, Division
    <3> QED BY <3>1, <3>3
  <2> QED BY <1>1, <2>1, <2>8, <2>9 DEF ThreadOf
<1>15. SetItemOf(a) = setItem
  BY <1>1, <1>10, <1>11 DEF SetItemOf
<1> QED BY <1>1, <1>6, <1>8, <1>10, <1>11, <1>12, <1>13, <1>14, <1>15

\* getShadowObjectInfo: given nothing but the address, free finds the thread,
\* the bag and the set item that malloc took the object from.
THEOREM OwnerFound == Spec => []LookupFindsOwner
<1>1. IInv => LookupFindsOwner
  <2> SUFFICES ASSUME IInv, NEW p \in handed
               PROVE  ThreadOf(p) = thread /\ BagOf(p) = bag /\ SetItemOf(p) = setItem
    BY DEF LookupFindsOwner
  <2>1. PICK j \in Nat, k \in 0 .. NumObjects(bag) - 1 : p = ObjectAt(j, k)
    BY DEF IInv, HandedBefore
  <2> QED BY <2>1, AddressParts DEF IInv
<1> QED BY <1>1, Invariance, PTL

-----------------------------------------------------------------------------
(***************************************************************************)
(* Guard pages                                                             *)
(***************************************************************************)

\* The guard of a bag begins behind its last object and ends with the bag, or
\* with the last bag of the thread: within one heap.
LEMMA GuardExtent ==
  ASSUME ItemFixed, NEW start \in Nat
  PROVE  /\ GuardBytes(start, bag) =
              start + NumObjects(bag) * ClassSize(bag) ..
                start + (IF bag = LastUsableBag THEN NumBags - bag ELSE 1) * bagSize - 1
         /\ (IF bag = LastUsableBag THEN NumBags - bag ELSE 1) * bagSize <= HeapSize
         /\ (IF bag = LastUsableBag THEN NumBags - bag ELSE 1) * bagSize \in Nat
<1>1. PICK c, n, d, g, m, nb, nt :
        /\ c = ClassSize(bag) /\ n = NumObjects(bag) /\ d = bagSize /\ g = GuardOffset(bag)
        /\ nb = NumBags /\ nt = NumThreads
        /\ m = IF bag = LastUsableBag THEN NumBags - bag ELSE 1
  OBVIOUS
<1>2. /\ c \in Nat \ {0} /\ n \in Nat \ {0} /\ d \in Nat \ {0} /\ g \in Nat
      /\ n * c + g = d /\ nb \in Nat \ {0} /\ nt \in Nat \ {0} /\ bag \in 0 .. nb - 1
  BY <1>1, ItemShape, LayoutAssumption DEF Shape
<1>3. m \in 1 .. nb
  BY <1>1, <1>2
<1>4. GuardSize(bag) = g + (m - 1) * d
  <2>1. CASE bag = LastUsableBag
    <3>1. m - 1 = nb - bag - 1
      BY <1>1, <1>2, <2>1
    <3> QED BY <1>1, <2>1, <3>1, Geometry DEF ItemFixed
  <2>2. CASE bag # LastUsableBag
    <3>1. m = 1 /\ (1 - 1) * d = 0
      BY <1>1, <1>2, <2>2
    <3>2. GuardSize(bag) = g
      BY <1>1, <2>2, Geometry DEF ItemFixed
    <3> QED BY <1>2, <3>1, <3>2
  <2> QED BY <2>1, <2>2
<1>5. (m - 1) * d = m * d - d /\ m * d \in Nat /\ n * c \in Nat
  BY <1>2, <1>3
<1>6. m * d <= HeapSize
  <2>1. m * d <= nb * d
    <3>1. CASE m = nb
      BY <1>2, <3>1
    <3>2. CASE m < nb
      <4>1. m * d + d <= nb * d /\ nb * d \in Nat
        BY <1>2, <1>3, <3>2, Apart
      <4> QED BY <1>2, <1>5, <4>1
    <3> QED BY <1>2, <1>3, <3>1, <3>2
  <2>2. PICK x : x = nb * d
    OBVIOUS
  <2>3. x \in Nat /\ x <= x * nt /\ x * nt \in Nat
    BY <1>2, <2>2, Product
  <2>4. HeapSize = x * nt
    <3>1. HeapSize = (nb * nt) * d /\ (nb * nt) * d = (nb * d) * nt
      BY <1>1, <1>2, ItemShape
    <3> QED BY <2>2, <3>1
  <2> QED BY <1>5, <2>1, <2>2, <2>3, <2>4
<1>7. GuardBytes(start, bag) = start + n * c .. start + m * d - 1
  <2>1. GuardBytes(start, bag) =
          start + d - g .. start + d - g + GuardSize(bag) - 1
    BY <1>1 DEF GuardBytes
  <2>2. start + d - g = start + n * c
    BY <1>2, <1>5
  <2>3. start + d - g + GuardSize(bag) - 1 = start + m * d - 1
    BY <1>2, <1>4, <1>5
  <2> QED BY <2>1, <2>2, <2>3
<1> QED BY <1>1, <1>5, <1>6, <1>7

\* Objects of one bag lie within it, and bags of one set item at least the
\* size of a heap apart.
LEMMA ObjectsOfBag ==
  ASSUME ItemFixed, NEW i \in Nat, NEW j \in Nat, NEW k \in 0 .. NumObjects(bag) - 1
  PROVE  /\ ObjectAt(j, k) \in Nat /\ ObjectAt(j, 0) \in Nat
         /\ ObjectAt(j, k) = ObjectAt(j, 0) + k * ClassSize(bag)
         /\ ObjectAt(j, 0) <= ObjectAt(j, k)
         /\ ObjectAt(j, k) + ClassSize(bag)
              <= ObjectAt(j, 0) + NumObjects(bag) * ClassSize(bag)
         /\ i < j => ObjectAt(i, 0) + HeapSize <= ObjectAt(j, 0)
<1>1. PICK c, n, h, s, x, o :
        /\ c = ClassSize(bag) /\ n = NumObjects(bag) /\ h = HeapSize /\ s = BagSetSize
        /\ x = setItem + j * s /\ o = StartOffset(thread, bag)
  OBVIOUS
<1>2. /\ c \in Nat /\ n \in Nat /\ h \in Nat /\ s \in Nat \ {0} /\ setItem \in Nat
      /\ o \in Nat /\ x \in Nat
  <2>1. /\ c \in Nat /\ n \in Nat /\ h \in Nat /\ s \in Nat \ {0} /\ setItem \in Nat
        /\ o \in Nat
    BY <1>1, ItemShape, LayoutAssumption DEF Shape, ItemFixed
  <2>2. j * s \in Nat
    BY <2>1
  <2> QED BY <1>1, <2>1, <2>2
<1>3. k \in Nat /\ k < n
  BY <1>1, <1>2
<1>4. k * c + c <= n * c /\ k * c \in Nat /\ n * c \in Nat /\ x * h \in Nat /\ 0 * c = 0
  BY <1>2, <1>3, Apart
<1>5. ObjectAt(j, k) = x * h + o + k * c /\ ObjectAt(j, 0) = x * h + o
  <2>1. ObjectAt(j, k) = x * h + o + k * c /\ ObjectAt(j, 0) = x * h + o + 0 * c
    BY <1>1 DEF ObjectAt
  <2> QED BY <1>2, <1>4, <2>1
<1>6. ASSUME i < j PROVE ObjectAt(i, 0) + h <= x * h + o
  <2>1. PICK y : y = setItem + i * s
    OBVIOUS
  <2>2. ObjectAt(i, 0) = y * h + o
    <3>1. ObjectAt(i, 0) = y * h + o + 0 * c
      BY <1>1, <2>1 DEF ObjectAt
    <3>2. y * h \in Nat
      BY <1>2, <2>1
    <3> QED BY <1>2, <1>4, <3>1, <3>2
  <2>3. y \in Nat /\ y < x
    <3>1. i * s + s <= j * s /\ i * s \in Nat /\ j * s \in Nat
      BY <1>2, <1>6, Apart
    <3> QED BY <1>1, <1>2, <2>1, <3>1
  <2>4. y * h + h <= x * h /\ y * h \in Nat
    BY <1>2, <2>3, Apart
  <2> QED BY <1>2, <1>4, <2>2, <2>4
<1> QED BY <1>1, <1>2, <1>4, <1>5, <1>6

\* incrementBumpPointer / setGuardPage / tryRandomGuardPage: no byte of an
\* object that was handed out lies in a guard page, be the guard set before
\* or after.
THEOREM AllAccessible == Spec => []ObjectsAccessible
<1>1. IInv => ObjectsAccessible
  <2> SUFFICES ASSUME IInv, NEW a \in UNION {Bytes(p) : p \in handed}, a \in Protected
               PROVE  FALSE
    BY DEF ObjectsAccessible
  <2>0. PICK p \in handed : a \in Bytes(p)
    OBVIOUS
  <2>1. ItemFixed
    BY DEF IInv
  <2>2. PICK j \in Nat, k \in 0 .. NumObjects(bag) - 1 : p = ObjectAt(j, k)
    BY DEF IInv, HandedBefore
  <2>3. PICK c, n, u : c = ClassSize(bag) /\ n = NumObjects(bag) /\ u = GuardUnit(bag)
    OBVIOUS
  <2>4. c \in Nat /\ n \in Nat /\ u \in Nat /\ p \in Nat /\ a \in p .. p + c - 1
    <3>1. c \in Nat /\ n \in Nat
      BY <2>1, <2>3, ItemShape DEF Shape
    <3>2. PICK w \in Nat : u = w * c
      BY <2>1, <2>3, ItemShape DEF Shape
    <3>3. p \in Nat
      BY <2>1, <2>2, ObjectsOfBag
    <3>4. w * c \in Nat
      BY <3>1
    <3> QED BY <2>0, <2>3, <3>1, <3>2, <3>3, <3>4 DEF Bytes
  <2>5. CASE a \in UNION {GuardBytes(start, bag) : start \in bagGuards}
    <3>1. PICK start \in bagGuards : a \in GuardBytes(start, bag)
      BY <2>5
    <3>2. PICK i \in Nat : start = ObjectAt(i, 0)
      BY DEF IInv, PositionExact, PointsAt
    <3>3. PICK m, x, y, h :
            /\ m = (IF bag = LastUsableBag THEN NumBags - bag ELSE 1) * bagSize
            /\ x = n * c /\ y = ObjectAt(j, 0) /\ h = HeapSize
      OBVIOUS
    <3>4. y \in Nat /\ p + c <= y + x /\ y <= p /\ x \in Nat /\ h \in Nat
      <4>1. y \in Nat /\ p + c <= y + x /\ y <= p
        BY <2>1, <2>2, <2>3, <3>3, ObjectsOfBag
      <4>2. x \in Nat
        BY <2>4, <3>3
      <4>3. h \in Nat
        BY <2>1, <3>3, ItemShape
      <4> QED BY <4>1, <4>2, <4>3
    <3>5. start \in Nat
      <4>1. 0 \in 0 .. NumObjects(bag) - 1
        BY <2>2, <2>3, <2>4
      <4> QED BY <2>1, <3>2, <4>1, ObjectsOfBag
    <3>6. a \in start + x .. start + m - 1 /\ m <= h /\ m \in Nat
      BY <2>1, <2>3, <3>1, <3>3, <3>5, GuardExtent
    <3>7. CASE i < j
      <4>1. start + h <= y
        BY <2>1, <2>2, <3>2, <3>3, <3>7, ObjectsOfBag
      <4> QED BY <2>4, <3>4, <3>5, <3>6, <4>1
    <3>8. CASE i = j
      BY <2>4, <3>2, <3>3, <3>4, <3>5, <3>6, <3>8
    <3>9. CASE j < i
      <4>1. 0 \in 0 .. NumObjects(bag) - 1
        BY <2>2, <2>3, <2>4
      <4>2. y + h <= start
        BY <2>1, <3>2, <3>3, <3>9, <4>1, ObjectsOfBag
      <4> QED BY <2>4, <3>4, <3>5, <3>6, <4>2
    <3> QED BY <3>7, <3>8, <3>9
  <2>6. CASE a \in UNION {guard .. guard + GuardUnit(bag) - 1 : guard \in randomGuards}
    <3>1. PICK r \in randomGuards : a \in r .. r + u - 1
      BY <2>3, <2>6
    <3>2. PICK i \in Nat, l \in 0 .. NumObjects(bag) - 1 : r = ObjectAt(i, l)
      BY DEF IInv, GuardsBefore
    <3>3. r \in Nat
      BY <2>1, <3>2, ObjectsOfBag
    <3>4. p + c <= r \/ r + u <= p
      BY <2>3 DEF IInv, GuardsApart
    <3> QED BY <2>4, <3>1, <3>3, <3>4
  <2> QED BY <2>5, <2>6 DEF Protected
<1> QED BY <1>1, Invariance, PTL

\* setGuardPage: writing past the last object of a bag meets a guard, in every
\* heap objects were handed out from, and behind the last usable bag the guard goes
\* on up to the bags of the next thread.
THEOREM EndsGuarded == Spec => []BagEndsGuarded
<1> DEFINE start(p)  == p - (p % bagSize)
           next(p)   == IF bag = LastUsableBag
                          THEN HeapIndex(p) * HeapSize + StartOffset(thread + 1, 0)
                          ELSE start(p) + bagSize
           behind(p) == start(p) + NumObjects(bag) * ClassSize(bag) .. next(p) - 1
<1>1. ASSUME IInv, NEW p \in handed PROVE behind(p) \subseteq Protected
  <2>1. ItemFixed
    BY <1>1 DEF IInv
  <2>2. PICK j \in Nat, k \in 0 .. NumObjects(bag) - 1 :
          p = ObjectAt(j, k) /\ ObjectAt(j, 0) \in bagGuards
    BY <1>1 DEF IInv, HandedBefore
  <2>3. PICK y, d, h, t, nb, b, m, x, z :
          /\ y = ObjectAt(j, 0) /\ d = bagSize /\ h = HeapSize /\ t = thread
          /\ nb = NumBags /\ b = bag
          /\ m = IF bag = LastUsableBag THEN NumBags - bag ELSE 1
          /\ x = setItem + j * BagSetSize /\ z = k * ClassSize(bag)
    OBVIOUS
  <2>4. /\ y \in Nat /\ p = y + z /\ p \in Nat /\ h \in Nat /\ d \in Nat
        /\ t \in Nat /\ nb \in Nat /\ b \in 0 .. nb - 1 /\ x \in Nat
    <3>1. y \in Nat /\ p = y + z /\ p \in Nat
      BY <2>1, <2>2, <2>3, ObjectsOfBag
    <3>2. h \in Nat /\ d \in Nat /\ t \in Nat /\ nb \in Nat /\ b \in 0 .. nb - 1
      BY <2>1, <2>3, ItemShape, LayoutAssumption DEF Shape, ItemFixed
    <3>3. x \in Nat
      BY <2>1, <2>3, ObjectInBags
    <3> QED BY <3>1, <3>2, <3>3
  <2>5. start(p) = y
    <3>1. p % bagSize = z
      BY <2>1, <2>2, <2>3, AddressParts
    <3>2. z \in Nat
      <4>1. ClassSize(bag) \in Nat /\ k \in Nat
        BY <2>1, ItemShape DEF Shape
      <4> QED BY <2>3, <4>1
    <3> QED BY <2>4, <3>1, <3>2
  <2>6. next(p) = y + m * d
    <3>1. CASE bag = LastUsableBag
      <4>1. next(p) = x * h + (t + 1) * (d * nb) + 0 * d
        <5>1. HeapIndex(p) = x
          BY <2>1, <2>2, <2>3, AddressParts
        <5>2. StartOffset(thread + 1, 0) = (t + 1) * (d * nb) + 0 * d
          BY <2>3 DEF StartOffset, ThreadSize
        <5>3. x * h \in Nat /\ (t + 1) * (d * nb) \in Nat /\ 0 * d = 0
          BY <2>4
        <5> QED BY <2>3, <3>1, <5>1, <5>2, <5>3
      <4>2. y = x * h + (t * nb + b) * d
        <5>1. ObjectAt(j, 0) = x * h + (t * nb + b) * d + 0 * ClassSize(bag)
          BY <2>1, <2>3, ItemShape DEF ObjectAt
        <5>2. 0 * ClassSize(bag) = 0
          <6>1. ClassSize(bag) \in Nat
            BY <2>1, ItemShape DEF Shape
          <6> QED BY <6>1
        <5>3. x * h \in Nat /\ (t * nb + b) * d \in Nat
          BY <2>4
        <5> QED BY <2>3, <5>1, <5>2, <5>3
      <4>3. (t * nb + b) * d + (nb - b) * d = (t + 1) * (d * nb)
        BY <2>4
      <4>4. m = nb - b
        BY <2>3, <3>1
      <4>5. x * h \in Nat /\ (t * nb + b) * d \in Nat /\ (nb - b) * d \in Nat /\ 0 * d = 0
        BY <2>4
      <4> QED BY <4>1, <4>2, <4>3, <4>4, <4>5
    <3>2. CASE bag # LastUsableBag
      <4>1. next(p) = start(p) + bagSize
        BY <3>2
      <4>2. m = 1
        BY <2>3, <3>2
      <4>3. 1 * d = d
        BY <2>4
      <4> HIDE DEF start, next
      <4> QED BY <2>3, <2>5, <4>1, <4>2, <4>3
    <3> QED BY <3>1, <3>2
  <2>7. GuardBytes(y, bag) = y + NumObjects(bag) * ClassSize(bag) .. y + m * d - 1
    BY <2>1, <2>3, <2>4, GuardExtent
  <2>8. behind(p) = GuardBytes(y, bag)
    <3>1. behind(p) = start(p) + NumObjects(bag) * ClassSize(bag) .. next(p) - 1
      OBVIOUS
    <3> HIDE DEF behind, start, next
    <3>2. PICK v, w, e, f :
            v = start(p) /\ w = next(p) /\ e = m * d /\ f = NumObjects(bag) * ClassSize(bag)
      OBVIOUS
    <3>3. v = y /\ w = y + e /\ e \in Nat
      BY <2>1, <2>3, <2>4, <2>5, <2>6, <3>2, GuardExtent
    <3>4. behind(p) = v + f .. w - 1
      BY <3>1, <3>2
    <3>5. w - 1 = y + e - 1
      BY <2>4, <3>3
    <3> QED BY <2>7, <3>2, <3>3, <3>4, <3>5
  <2>9. y \in bagGuards
    BY <2>2, <2>3
  <2> HIDE DEF behind
  <2> QED BY <2>8, <2>9 DEF Protected
<1>2. IInv => BagEndsGuarded
  <2> SUFFICES ASSUME IInv PROVE UNION {behind(p) : p \in handed} \subseteq Protected
    BY DEF BagEndsGuarded
  <2> HIDE DEF behind
  <2> QED BY <1>1
<1> HIDE DEF behind
<1> QED BY <1>2, Invariance, PTL

-----------------------------------------------------------------------------
(***************************************************************************)
(* Shadow memory                                                           *)
(***************************************************************************)

\* Partial sums: there is a function that satisfies the recursive definition.
IsSum(f, N, g) == f = [n \in 0 .. N |-> IF n = 0 THEN 0 ELSE f[n-1] + g[n-1]]

\* Partial sums exist.
LEMMA SumExists ==
  ASSUME NEW N \in Nat, NEW g
  PROVE  \E f : IsSum(f, N, g)
<1> DEFINE Exists(m) == \E f : IsSum(f, m, g)
<1>1. Exists(0)
  <2>1. PICK f : f = [n \in 0 .. 0 |-> 0]
    OBVIOUS
  <2>2. f = [n \in 0 .. 0 |-> IF n = 0 THEN 0 ELSE f[n-1] + g[n-1]]
    BY <2>1
  <2> QED BY <2>2 DEF IsSum
<1>2. ASSUME NEW m \in 0 .. N - 1, Exists(m) PROVE Exists(m + 1)
  <2>1. PICK f : f = [n \in 0 .. m |-> IF n = 0 THEN 0 ELSE f[n-1] + g[n-1]]
    BY <1>2 DEF IsSum
  <2>2. PICK h : h = [n \in 0 .. m + 1 |-> IF n = m + 1 THEN f[m] + g[m] ELSE f[n]]
    OBVIOUS
  <2>3. ASSUME NEW n \in 0 .. m + 1 PROVE h[n] = IF n = 0 THEN 0 ELSE h[n-1] + g[n-1]
    <3>1. CASE n = m + 1
      BY <2>2, <3>1
    <3>2. CASE n \in 0 .. m
      <4>1. h[n] = f[n] /\ (n # 0 => h[n-1] = f[n-1])
        BY <2>2, <3>2
      <4>2. f[n] = IF n = 0 THEN 0 ELSE f[n-1] + g[n-1]
        BY <2>1, <3>2
      <4> QED BY <4>1, <4>2
    <3> QED BY <3>1, <3>2
  <2>4. h = [n \in 0 .. m + 1 |-> IF n = 0 THEN 0 ELSE h[n-1] + g[n-1]]
    BY <2>2, <2>3
  <2> QED BY <2>4 DEF IsSum
<1>3. 0 \in {m \in Nat : Exists(m)}
  BY <1>1
<1>4. \A m \in 0 .. N - 1 : m \in {k \in Nat : Exists(k)} => m + 1 \in {k \in Nat : Exists(k)}
  BY <1>2
<1>5. Exists(N)
  <2> HIDE DEF Exists
  <2>1. 0 .. N \subseteq {k \in Nat : Exists(k)}
    BY <1>3, <1>4, InductionUpTo
  <2> QED BY <2>1
<1> QED BY <1>5

\* The recursive definition has a meaning.
LEMMA ObjectsBelowIs ==
  /\ ObjectsBelow[0] = 0
  /\ \A b \in 0 .. NumBags - 1 : ObjectsBelow[b + 1] = ObjectsBelow[b] + NumObjects(b)
<1>1. NumBags \in Nat
  BY LayoutAssumption
<1>2. PICK g : g = [b \in 0 .. NumBags |-> NumObjects(b)]
  OBVIOUS
<1>3. PICK f : f = [b \in 0 .. NumBags |-> IF b = 0 THEN 0 ELSE f[b-1] + g[b-1]]
  BY <1>1, SumExists DEF IsSum
<1>4. f = [b \in 0 .. NumBags |-> IF b = 0 THEN 0 ELSE f[b-1] + NumObjects(b-1)]
  <2>1. ASSUME NEW b \in 0 .. NumBags
        PROVE  f[b] = IF b = 0 THEN 0 ELSE f[b-1] + NumObjects(b-1)
    <3>1. f[b] = IF b = 0 THEN 0 ELSE f[b-1] + g[b-1]
      BY <1>3
    <3>2. CASE b = 0
      BY <3>1, <3>2
    <3>3. CASE b # 0
      <4>1. b - 1 \in 0 .. NumBags
        BY <1>1, <3>3
      <4> QED BY <1>2, <3>1, <3>3, <4>1
    <3> QED BY <3>2, <3>3
  <2>2. f = [b \in 0 .. NumBags |-> f[b]]
    BY <1>3
  <2> QED BY <2>1, <2>2
<1>5. ObjectsBelow =
        [b \in 0 .. NumBags |-> IF b = 0 THEN 0 ELSE ObjectsBelow[b-1] + NumObjects(b-1)]
  BY <1>4 DEF ObjectsBelow
<1>6. ObjectsBelow[0] = 0
  BY <1>1, <1>5
<1>7. ASSUME NEW b \in 0 .. NumBags - 1
      PROVE  ObjectsBelow[b + 1] = ObjectsBelow[b] + NumObjects(b)
  <2>1. b + 1 \in 0 .. NumBags /\ b + 1 # 0 /\ (b + 1) - 1 = b
    BY <1>1
  <2> QED BY <1>5, <2>1
<1> QED BY <1>6, <1>7

\* The objects of a bag are some of its thread's, behind those of the bags below.
LEMMA ObjectsCounted ==
  ASSUME ItemFixed
  PROVE  /\ ObjectsBelow[bag] \in Nat /\ ObjectsPerThread \in Nat
         /\ ObjectsBelow[bag] + NumObjects(bag) <= ObjectsPerThread
<1>1. PICK m, l, p, s \in Nat : Exponents(m, l, p, s)
  BY ExponentsExist DEF ItemFixed
<1>2. PICK v, y, f :
        v = NumUsableBags /\ y = bag /\ f = ObjectsBelow
  OBVIOUS
<1>3. v \in Nat /\ UsableBags = 0 .. v - 1 /\ v <= NumBags /\ y \in 0 .. v - 1
  <2>1. v = l - m + 1 /\ UsableBags = 0 .. l - m
    BY <1>1, <1>2, UsableBagsAre
  <2>2. m <= l /\ l - m < NumBags /\ NumBags \in Nat
    BY <1>1, LayoutAssumption DEF Exponents
  <2>3. v \in Nat /\ v - 1 = l - m /\ v <= NumBags
    BY <2>1, <2>2
  <2>4. y \in UsableBags
    BY <1>2 DEF ItemFixed
  <2> QED BY <2>1, <2>3, <2>4
<1>4. \A b \in 0 .. v - 1 : NumObjects(b) \in Nat
  BY <1>3, Geometry DEF ItemFixed, Shape
<1>5. f[0] = 0 /\ \A b \in 0 .. v - 1 : f[b + 1] = f[b] + NumObjects(b)
  BY <1>2, <1>3, ObjectsBelowIs, LayoutAssumption
<1> DEFINE Counted(top) == {i \in Nat : i <= top => f[i] \in Nat}
           Good == {i \in Nat : y < i => f[y] + NumObjects(y) <= f[i]}
<1>6. \A i \in 0 .. v : f[i] \in Nat
  <2>1. 0 \in Counted(v)
    BY <1>3, <1>5
  <2>2. \A b \in 0 .. v - 1 : b \in Counted(v) => b + 1 \in Counted(v)
    BY <1>3, <1>4, <1>5
  <2>3. 0 .. v \subseteq Counted(v)
    <3> HIDE DEF Counted
    <3> QED BY <1>3, <2>1, <2>2, InductionUpTo
  <2> QED BY <1>3, <2>3
<1>7. 0 .. v \subseteq Good
  <2>1. 0 \in Good
    BY <1>3
  <2>2. \A b \in 0 .. v - 1 : b \in Good => b + 1 \in Good
    <3> SUFFICES ASSUME NEW b \in 0 .. v - 1, b \in Good, y < b + 1
                 PROVE  f[y] + NumObjects(y) <= f[b + 1]
      BY <1>3
    <3>1. PICK z, x : z = NumObjects(b) /\ x = NumObjects(y)
      OBVIOUS
    <3>2. /\ z \in Nat /\ x \in Nat /\ f[b + 1] = f[b] + z
          /\ f[b] \in Nat /\ f[y] \in Nat /\ b \in Nat /\ y \in Nat
      BY <1>3, <1>4, <1>5, <1>6, <3>1
    <3>3. CASE y = b
      BY <3>1, <3>2, <3>3
    <3>4. CASE y < b
      BY <3>1, <3>2, <3>4
    <3> QED BY <3>2, <3>3, <3>4
  <2>3. 0 .. v \subseteq Good
    <3> HIDE DEF Good
    <3> QED BY <1>3, <2>1, <2>2, InductionUpTo
  <2> QED BY <2>3
<1>8. f[y] \in Nat /\ f[v] \in Nat
  BY <1>3, <1>6
<1>9. f[y] + NumObjects(y) <= f[v]
  <2>1. v \in Good /\ y < v
    BY <1>3, <1>7
  <2> QED BY <2>1
<1> QED BY <1>2, <1>8, <1>9 DEF ObjectsPerThread

\* The shadow word of object k of the bag in heap x.
WordOf(x, k) ==
  x * ShadowMemSizePerHeapCeil + StartShadowMemOffset(thread, bag) + k * InfoSize

\* The words of one heap fit in the power of two it has.
LEMMA WordsFit ==
  ASSUME ItemFixed, NEW k \in 0 .. NumObjects(bag) - 1
  PROVE  /\ ShadowMemSizePerHeapCeil \in Nat \ {0}
         /\ StartShadowMemOffset(thread, bag) \in Nat
         /\ StartShadowMemOffset(thread, bag) + k * InfoSize
              \in 0 .. ShadowMemSizePerHeapCeil - 1
<1>1. PICK n, o, q, i, t, nt, s, c :
        /\ n = NumObjects(bag) /\ o = ObjectsBelow[bag] /\ q = ObjectsPerThread
        /\ i = InfoSize /\ t = thread /\ nt = NumThreads
        /\ s = ShadowMemSizePerHeap /\ c = ShadowMemSizePerHeapCeil
  OBVIOUS
<1>2. /\ n \in Nat \ {0} /\ o \in Nat /\ q \in Nat /\ o + n <= q
      /\ i \in Nat \ {0} /\ nt \in Nat \ {0} /\ t \in 0 .. nt - 1
  BY <1>1, ObjectsCounted, ItemShape, LayoutAssumption DEF Shape, ItemFixed
<1>3. s = (nt * q) * i
  BY <1>1 DEF ShadowMemSizePerHeap
<1>4. PICK z : z = t * q + o + k
  OBVIOUS
<1>5. z \in Nat /\ z < nt * q /\ nt * q \in Nat
  <2>1. t * q + q <= nt * q /\ t * q \in Nat /\ nt * q \in Nat
    BY <1>2, Apart
  <2>2. k \in Nat /\ k < n
    BY <1>1, <1>2
  <2> QED BY <1>2, <1>4, <2>1, <2>2
<1>6. z * i + i <= s /\ z * i \in Nat /\ s \in Nat
  <2>1. PICK x : x = nt * q
    OBVIOUS
  <2>2. z * i + i <= x * i /\ z * i \in Nat /\ x * i \in Nat
    BY <1>2, <1>5, <2>1, Apart
  <2> QED BY <1>3, <2>1, <2>2
<1>7. c \in Nat \ {0} /\ s - 1 < c
  <2>1. s - 1 \in Nat
    BY <1>2, <1>6
  <2> QED BY <1>1, <2>1, Ceiling DEF ShadowMemSizePerHeapCeil
<1>8. StartShadowMemOffset(thread, bag) = (t * q + o) * i /\ (t * q + o) * i \in Nat
  <2>1. t * q \in Nat
    BY <1>2
  <2> QED BY <1>1, <1>2, <2>1 DEF StartShadowMemOffset
<1>9. (t * q + o) * i + k * i = z * i
  <2>1. PICK x : x = t * q + o
    OBVIOUS
  <2>2. x \in Nat /\ k \in Nat
    BY <1>1, <1>2, <2>1
  <2>3. (x + k) * i = x * i + k * i
    BY <1>2, <2>2
  <2> QED BY <1>4, <2>1, <2>3
<1> QED BY <1>1, <1>2, <1>6, <1>7, <1>8, <1>9

\* Heap, number and address are found again.
LEMMA WordParts ==
  ASSUME ItemFixed, NEW x \in Nat, NEW k \in 0 .. NumObjects(bag) - 1,
         NEW w, w = WordOf(x, k)
  PROVE  /\ ShadowHeap(w) = x
         /\ ShadowObjectIndex(w, thread, bag) = k
         /\ AddrFromShadow(w, thread, bag) =
              x * HeapSize + StartOffset(thread, bag) + k * ClassSize(bag)
<1>1. PICK c, o, i, r :
        /\ c = ShadowMemSizePerHeapCeil /\ o = StartShadowMemOffset(thread, bag)
        /\ i = InfoSize /\ r = o + k * i
  OBVIOUS
<1>2. c \in Nat \ {0} /\ o \in Nat /\ r \in 0 .. c - 1 /\ i \in Nat \ {0}
  BY <1>1, WordsFit, LayoutAssumption
<1>3. k \in Nat /\ k * i \in Nat
  BY <1>2, ItemShape DEF Shape
<1>4. w = x * c + r
  <2>1. w = x * c + o + k * i
    BY <1>1 DEF WordOf
  <2>2. x * c \in Nat
    BY <1>2
  <2> QED BY <1>1, <1>2, <1>3, <2>1, <2>2
<1>5. w \div c = x /\ w % c = r
  BY <1>2, <1>4, Division
<1>6. ShadowHeap(w) = x
  BY <1>1, <1>5 DEF ShadowHeap
<1>7. ShadowObjectIndex(w, thread, bag) = k
  <2>1. r - o = k * i + 0 /\ 0 \in 0 .. i - 1
    BY <1>1, <1>2, <1>3
  <2>2. (k * i + 0) \div i = k
    BY <1>2, <1>3, <2>1, Division
  <2> QED BY <1>1, <1>5, <2>1, <2>2 DEF ShadowObjectIndex
<1> QED BY <1>6, <1>7 DEF AddrFromShadow

\* getShadowObjectInfo gives an object its own word.
LEMMA ShadowIs ==
  ASSUME ItemFixed, NEW j \in Nat, NEW k \in 0 .. NumObjects(bag) - 1,
         NEW a, a = ObjectAt(j, k)
  PROVE  Shadow(a, thread, bag) = WordOf(setItem + j * BagSetSize, k)
BY AddressParts DEF Shadow, WordOf

\* getAddrFromShadowInfo: it undoes getShadowObjectInfo, so that the object
\* malloc takes off a free list is the one free has put there; and the shadow
\* word is one of the bag's own.
THEOREM ShadowUndone == Spec => []ShadowRoundTrip
<1>1. ASSUME IInv, NEW p \in handed
      PROVE  /\ AddrFromShadow(Shadow(p, thread, bag), thread, bag) = p
             /\ ShadowObjectIndex(Shadow(p, thread, bag), thread, bag)
                  \in 0 .. NumObjects(bag) - 1
  <2>1. ItemFixed
    BY <1>1 DEF IInv
  <2>2. PICK j \in Nat, k \in 0 .. NumObjects(bag) - 1 : p = ObjectAt(j, k)
    BY <1>1 DEF IInv, HandedBefore
  <2>3. PICK x, w : x = setItem + j * BagSetSize /\ w = Shadow(p, thread, bag)
    OBVIOUS
  <2>4. x \in Nat /\ w = WordOf(x, k)
    <3>1. k \in Nat
      BY <2>1, ItemShape DEF Shape
    <3> QED BY <2>1, <2>2, <2>3, <3>1, ShadowIs, ObjectInBags
  <2>5. /\ ShadowObjectIndex(w, thread, bag) = k
        /\ AddrFromShadow(w, thread, bag) =
             x * HeapSize + StartOffset(thread, bag) + k * ClassSize(bag)
    BY <2>1, <2>4, WordParts
  <2> QED BY <2>2, <2>3, <2>5 DEF ObjectAt
<1>2. IInv => ShadowRoundTrip
  BY <1>1 DEF ShadowRoundTrip
<1> QED BY <1>2, Invariance, PTL

\* Objects of a set item have the numbers 0, 1, ... and a word leads to them.
LEMMA NumberOfWord ==
  ASSUME ItemFixed, NEW j \in Nat, NEW k \in 0 .. NumObjects(bag) - 1,
         NEW w, w = WordOf(setItem + j * BagSetSize, k)
  PROVE  Number(AddrFromShadow(w, thread, bag)) = j * NumObjects(bag) + k
<1>1. PICK x, a : x = setItem + j * BagSetSize /\ a = AddrFromShadow(w, thread, bag)
  OBVIOUS
<1>2. k \in Nat
  BY ItemShape DEF Shape
<1>3. x \in Nat
  BY <1>1, <1>2, ObjectInBags
<1>4. a = x * HeapSize + StartOffset(thread, bag) + k * ClassSize(bag)
  BY <1>1, <1>3, WordParts
<1>5. a = ObjectAt(j, k)
  BY <1>1, <1>4 DEF ObjectAt
<1>6. HeapIndex(a) \div BagSetSize = j /\ (a % bagSize) \div ClassSize(bag) = k
  BY <1>5, AddressParts
<1> QED BY <1>1, <1>6 DEF Number

\* Where the two directions of getNextCanaryNeighbor lead.
LEMMA NeighborWords ==
  ASSUME ItemFixed, NEW j \in Nat, NEW k \in 0 .. NumObjects(bag) - 1,
         NEW w, w = WordOf(setItem + j * BagSetSize, k)
  PROVE  /\ k # 0 => LeftNeighbor(w, thread, bag) =
                       {WordOf(setItem + j * BagSetSize, k - 1)}
         /\ k = 0 /\ j = 0 => LeftNeighbor(w, thread, bag) = {}
         /\ k = 0 /\ j # 0 => LeftNeighbor(w, thread, bag) =
              {WordOf(setItem + (j - 1) * BagSetSize, NumObjects(bag) - 1)}
         /\ k # NumObjects(bag) - 1 => RightNeighbor(w, thread, bag) =
              {WordOf(setItem + j * BagSetSize, k + 1)}
         /\ k = NumObjects(bag) - 1 => RightNeighbor(w, thread, bag) =
              {WordOf(setItem + (j + 1) * BagSetSize, 0)}
<1>1. PICK n, c, o, i, s, t, x :
        /\ n = NumObjects(bag) /\ c = ShadowMemSizePerHeapCeil
        /\ o = StartShadowMemOffset(thread, bag) /\ i = InfoSize
        /\ s = BagSetSize /\ t = setItem /\ x = setItem + j * BagSetSize
  OBVIOUS
<1>2. /\ n \in Nat \ {0} /\ c \in Nat \ {0} /\ o \in Nat /\ i \in Nat \ {0}
      /\ s \in Nat \ {0} /\ t \in 0 .. s - 1 /\ k \in 0 .. n - 1
  BY <1>1, WordsFit, ItemShape, LayoutAssumption DEF Shape, ItemFixed
<1>3. x \in Nat /\ x * c \in Nat /\ k * i \in Nat /\ c * s \in Nat
  <2>1. j * s \in Nat
    BY <1>2
  <2>2. x \in Nat
    BY <1>1, <1>2, <2>1
  <2> QED BY <1>2, <2>2
<1>4. w = x * c + o + k * i
  BY <1>1 DEF WordOf
<1>5. ShadowHeap(w) = x /\ ShadowObjectIndex(w, thread, bag) = k
  BY <1>1, <1>3, WordParts
<1>6. \A y, z : WordOf(y, z) = y * c + o + z * i
  BY <1>1 DEF WordOf
<1>7. NextShadowHeapObjectOffset(bag) = c * s - (n - 1) * i
  BY <1>1 DEF NextShadowHeapObjectOffset
<1>8. k # 0 => LeftNeighbor(w, thread, bag) = {WordOf(x, k - 1)}
  <2>1. (k - 1) * i = k * i - i
    BY <1>2
  <2>2. w - i = x * c + o + (k - 1) * i
    BY <1>2, <1>3, <1>4, <2>1
  <2> QED BY <1>1, <1>5, <1>6, <2>2 DEF LeftNeighbor
<1>9. k = 0 /\ j = 0 => LeftNeighbor(w, thread, bag) = {}
  <2>1. j = 0 => x < s
    BY <1>1, <1>2
  <2> QED BY <1>1, <1>5, <2>1 DEF LeftNeighbor
<1>10. ASSUME k = 0, j # 0
       PROVE  LeftNeighbor(w, thread, bag) = {WordOf(t + (j - 1) * s, n - 1)}
  <2>1. s <= s * j /\ j * s = s * j /\ (j - 1) * s = j * s - s
    BY <1>2, <1>10, Product
  <2>2. ~ (x < s) /\ t + (j - 1) * s = x - s
    BY <1>1, <1>2, <2>1
  <2>3. (x - s) * c = x * c - c * s
    BY <1>2, <1>3
  <2>4. (n - 1) * i \in Nat
    BY <1>2
  <2>5. w - (c * s - (n - 1) * i) = (x - s) * c + o + (n - 1) * i
    BY <1>2, <1>3, <1>4, <1>10, <2>3, <2>4
  <2>6. LeftNeighbor(w, thread, bag) = {w - NextShadowHeapObjectOffset(bag)}
    BY <1>1, <1>5, <1>10, <2>2 DEF LeftNeighbor
  <2> QED BY <1>6, <1>7, <2>2, <2>5, <2>6
<1>11. k # n - 1 => RightNeighbor(w, thread, bag) = {WordOf(x, k + 1)}
  <2>1. (k + 1) * i = k * i + i
    BY <1>2
  <2>2. w + i = x * c + o + (k + 1) * i
    BY <1>2, <1>3, <1>4, <2>1
  <2> QED BY <1>1, <1>5, <1>6, <2>2 DEF RightNeighbor
<1>12. ASSUME k = n - 1
       PROVE  RightNeighbor(w, thread, bag) = {WordOf(t + (j + 1) * s, 0)}
  <2>1. t + (j + 1) * s = x + s
    BY <1>1, <1>2
  <2>2. (x + s) * c = x * c + c * s
    BY <1>2, <1>3
  <2>3. w + (c * s - (n - 1) * i) = (x + s) * c + o + 0 * i
    BY <1>2, <1>3, <1>4, <1>12, <2>2
  <2>4. RightNeighbor(w, thread, bag) = {w + NextShadowHeapObjectOffset(bag)}
    BY <1>1, <1>5, <1>12 DEF RightNeighbor
  <2> QED BY <1>6, <1>7, <2>1, <2>3, <2>4
<1> QED BY <1>1, <1>8, <1>9, <1>10, <1>11, <1>12

\* getNextCanaryNeighbor: its two directions lead to the objects with the next
\* lower and the next higher number, across heaps too, and only the first
\* object of a set item has none on its left.
THEOREM NeighborsFound == Spec => []NeighborsAdjacent
<1> DEFINE numbers(shadows) == {Number(AddrFromShadow(s, thread, bag)) : s \in shadows}
<1>1. ASSUME IInv, NEW p \in handed
      PROVE  /\ numbers(LeftNeighbor(Shadow(p, thread, bag), thread, bag))
                  = {Number(p) - 1} \ {-1}
             /\ numbers(RightNeighbor(Shadow(p, thread, bag), thread, bag))
                  = {Number(p) + 1}
  <2>1. ItemFixed
    BY <1>1 DEF IInv
  <2>2. PICK j \in Nat, k \in 0 .. NumObjects(bag) - 1 : p = ObjectAt(j, k)
    BY <1>1 DEF IInv, HandedBefore
  <2>3. PICK w, n, m, s, t :
          /\ w = Shadow(p, thread, bag) /\ n = NumObjects(bag) /\ m = Number(p)
          /\ s = BagSetSize /\ t = setItem
    OBVIOUS
  <2>4. n \in Nat \ {0} /\ k \in 0 .. n - 1
    BY <2>1, <2>3, ItemShape DEF Shape
  <2>5. w = WordOf(t + j * s, k)
    BY <2>1, <2>2, <2>3, ShadowIs
  <2>6. m = j * n + k
    BY <2>1, <2>2, <2>3, AddressParts DEF Number
  <2>7. /\ \A y \in Nat, z \in 0 .. n - 1 :
             Number(AddrFromShadow(WordOf(t + y * s, z), thread, bag)) = y * n + z
    BY <2>1, <2>3, NumberOfWord
  <2>8. numbers(LeftNeighbor(w, thread, bag)) = {m - 1} \ {-1}
    <3>1. CASE k # 0
      <4>1. LeftNeighbor(w, thread, bag) = {WordOf(t + j * s, k - 1)}
        BY <2>1, <2>3, <2>5, <3>1, NeighborWords
      <4>2. numbers(LeftNeighbor(w, thread, bag)) = {j * n + (k - 1)}
        BY <2>4, <2>7, <3>1, <4>1
      <4>3. j * n \in Nat
        BY <2>4
      <4> QED BY <2>4, <2>6, <3>1, <4>2, <4>3
    <3>2. CASE k = 0 /\ j = 0
      <4>1. LeftNeighbor(w, thread, bag) = {}
        BY <2>1, <2>3, <2>5, <3>2, NeighborWords
      <4>2. m = 0
        BY <2>4, <2>6, <3>2
      <4> QED BY <4>1, <4>2
    <3>3. CASE k = 0 /\ j # 0
      <4>1. LeftNeighbor(w, thread, bag) = {WordOf(t + (j - 1) * s, n - 1)}
        BY <2>1, <2>3, <2>5, <3>3, NeighborWords
      <4>2. numbers(LeftNeighbor(w, thread, bag)) = {(j - 1) * n + (n - 1)}
        BY <2>4, <2>7, <3>3, <4>1
      <4>3. (j - 1) * n = j * n - n /\ j * n \in Nat /\ n <= n * j /\ n * j = j * n
        BY <2>4, <3>3, Product
      <4> QED BY <2>4, <2>6, <3>3, <4>2, <4>3
    <3> QED BY <3>1, <3>2, <3>3
  <2>9. numbers(RightNeighbor(w, thread, bag)) = {m + 1}
    <3>1. CASE k # n - 1
      <4>1. RightNeighbor(w, thread, bag) = {WordOf(t + j * s, k + 1)}
        BY <2>1, <2>3, <2>5, <3>1, NeighborWords
      <4>2. numbers(RightNeighbor(w, thread, bag)) = {j * n + (k + 1)}
        BY <2>4, <2>7, <3>1, <4>1
      <4>3. j * n \in Nat
        BY <2>4
      <4> QED BY <2>4, <2>6, <4>2, <4>3
    <3>2. CASE k = n - 1
      <4>1. RightNeighbor(w, thread, bag) = {WordOf(t + (j + 1) * s, 0)}
        BY <2>1, <2>3, <2>5, <3>2, NeighborWords
      <4>2. numbers(RightNeighbor(w, thread, bag)) = {(j + 1) * n + 0}
        BY <2>4, <2>7, <4>1
      <4>3. (j + 1) * n = j * n + n /\ j * n \in Nat
        BY <2>4
      <4> QED BY <2>4, <2>6, <3>2, <4>2, <4>3
    <3> QED BY <3>1, <3>2
  <2> QED BY <2>3, <2>8, <2>9
<1>2. IInv => NeighborsAdjacent
  BY <1>1 DEF NeighborsAdjacent
<1> QED BY <1>2, Invariance, PTL

-----------------------------------------------------------------------------
(***************************************************************************)
(* The abstract numbering                                                  *)
(***************************************************************************)

\* The number of an object counts the objects of the bags before its own.
LEMMA NumberOfObject ==
  ASSUME ItemFixed, NEW j \in Nat, NEW k \in 0 .. NumObjects(bag) - 1,
         NEW a, a = ObjectAt(j, k)
  PROVE  Number(a) = j * NumObjects(bag) + k
BY AddressParts DEF Number

\* Numbers depend on nothing but the bag set item, which no step changes.
LEMMA NumbersKept ==
  ASSUME UNCHANGED <<bagSize, thread, bag, setItem>>
  PROVE  /\ \A a : Number(a)' = Number(a)
         /\ \A a : position' = a => Number(position)' = Number(a)
BY LayoutKept DEF Number, HeapIndex

\* A random guard covers the objects of one page, or one object.
LEMMA ObjectsPerPage ==
  ASSUME ItemFixed, NEW w \in Nat \ {0}, GuardUnit(bag) = w * ClassSize(bag)
  PROVE  /\ GuardUnit(bag) \div ClassSize(bag) = w
         /\ ClassSize(bag) \in ClassSizes
         /\ w = IF ClassSize(bag) < PageSize THEN PageSize \div ClassSize(bag) ELSE 1
<1>1. PICK c, e, u : c = ClassSize(bag) /\ e = PageSize /\ u = GuardUnit(bag)
  OBVIOUS
<1>2. c \in Nat \ {0} /\ e \in Nat \ {0} /\ u = IF c > e THEN c ELSE e
  BY <1>1, ItemShape, LayoutAssumption DEF Shape, GuardUnit
<1>3. u \div c = w
  <2>1. (w * c + 0) \div c = w
    BY <1>2, Division
  <2>2. w * c + 0 = w * c
    BY <1>2
  <2>3. u = w * c
    BY <1>1
  <2> QED BY <2>1, <2>2, <2>3
<1>4. w = IF c < e THEN e \div c ELSE 1
  <2>1. CASE c < e
    <3>1. u = e
      BY <1>2, <2>1
    <3> QED BY <1>3, <2>1, <3>1
  <2>2. CASE ~ (c < e)
    <3>1. w * c = 1 * c
      BY <1>1, <1>2, <2>2
    <3>2. 1 < w => 1 * c + c <= w * c
      BY <1>2, Apart
    <3> QED BY <1>2, <2>2, <3>1, <3>2
  <2> QED BY <2>1, <2>2
<1>5. c \in ClassSizes
  <2>1. bag \in 0 .. NumBags
    BY ItemShape, LayoutAssumption
  <2> QED BY <1>1, <2>1 DEF ClassSizes, ClassSize
<1> QED BY <1>1, <1>3, <1>4, <1>5

\* The first position is number 0.
LEMMA NumbersInit == Init => Numbers!Init
<1> SUFFICES ASSUME Init PROVE Numbers!Init
  OBVIOUS
<1>1. ItemFixed /\ PositionExact
  BY InitInvariant DEF IInv
<1>2. PICK w \in Nat \ {0} : GuardUnit(bag) = w * ClassSize(bag)
  BY <1>1, ItemShape DEF Shape
<1>3. ClassSize(bag) \in ClassSizes
  BY <1>1, <1>2, ObjectsPerPage
<1>4. Number(position) = 0
  <2>1. PICK n, c, h, o : n = NumObjects(bag) /\ c = ClassSize(bag) /\ h = HeapSize
                          /\ o = StartOffset(thread, bag)
    OBVIOUS
  <2>2. /\ n \in Nat \ {0} /\ c \in Nat /\ h \in Nat /\ o \in Nat
        /\ setItem \in Nat /\ BagSetSize \in Nat
    BY <1>1, <2>1, ItemShape, LayoutAssumption DEF Shape, ItemFixed
  <2>3. position = ObjectAt(0, 0)
    <3>1. ObjectAt(0, 0) = (setItem + 0 * BagSetSize) * h + o + 0 * c
      BY <2>1 DEF ObjectAt
    <3>2. setItem + 0 * BagSetSize = setItem /\ 0 * c = 0 /\ setItem * h \in Nat
      BY <2>2
    <3>3. position = o + setItem * h
      BY <2>1 DEF Init
    <3> QED BY <2>2, <3>1, <3>2, <3>3
  <2>4. 0 \in 0 .. NumObjects(bag) - 1 /\ 0 * n + 0 = 0
    BY <2>1, <2>2
  <2> QED BY <1>1, <2>1, <2>3, <2>4, NumberOfObject
<1>5. SkippedNumbers = {}
  BY DEF Init, SkippedNumbers
<1> QED BY <1>3, <1>4, <1>5 DEF Numbers!Init

\* An allocation takes the next number.
LEMMA TakeStep ==
  ASSUME IInv, Allocate PROVE Numbers!Take
<1>1. PICK j, j2 \in Nat, k, k2 \in 0 .. NumObjects(bag) - 1 :
        /\ PointsAt(position, lastofCurBag, bagGuards, j, k)
        /\ PointsAt(After.position, After.last, After.starts, j2, k2)
        /\ j2 * NumObjects(bag) + k2 = j * NumObjects(bag) + k + 1
  BY AfterIs
<1>2. PICK p, q : p = position /\ q = After.position
  OBVIOUS
<1>3. p = ObjectAt(j, k) /\ q = ObjectAt(j2, k2)
  BY <1>1, <1>2 DEF PointsAt
<1>4. Number(p) = j * NumObjects(bag) + k /\ Number(q) = j2 * NumObjects(bag) + k2
  BY <1>3, NumberOfObject DEF IInv
<1>5. UNCHANGED <<bagSize, thread, bag, setItem>> /\ randomGuards' = randomGuards
      /\ position' = q
  BY <1>2 DEF Allocate, Move
<1>6. Number(position)' = Number(position) + 1
  BY <1>1, <1>2, <1>4, <1>5, NumbersKept
<1>7. ClassSize(bag)' = ClassSize(bag) /\ GuardUnit(bag)' = GuardUnit(bag)
  BY <1>5, LayoutKept
<1>8. SkippedNumbers' = SkippedNumbers
  BY <1>5, <1>7, NumbersKept DEF SkippedNumbers
<1> QED BY <1>6, <1>7, <1>8 DEF Numbers!Take

\* An allocation that ends a bag takes a number and skips to the next bag.
LEMMA SkipStep ==
  ASSUME IInv, AllocateAndGuard PROVE Numbers!TakeAndSkip
<1>1. PICK j, j1 \in Nat, k, k1 \in 0 .. NumObjects(bag) - 1 :
        /\ PointsAt(position, lastofCurBag, bagGuards, j, k)
        /\ PointsAt(After.position, After.last, After.starts, j1, k1)
        /\ j1 * NumObjects(bag) + k1 = j * NumObjects(bag) + k + 1
  BY AfterIs
<1>2. PICK p, a, last, starts, new :
        /\ p = position /\ a = After.position
        /\ last = After.last /\ starts = After.starts /\ new = Skipped
  OBVIOUS
<1>3. PICK j2 \in Nat, k2 \in 0 .. NumObjects(bag) - 1, w \in Nat \ {0} :
        /\ PointsAt(new.position, new.last, new.starts, j2, k2)
        /\ GuardUnit(bag) = w * ClassSize(bag)
        /\ (j1 * NumObjects(bag) + k1) % w = 0
        /\ j2 * NumObjects(bag) + k2 = j1 * NumObjects(bag) + k1 + w
  <2>1. PointsAt(a, last, starts, j1, k1) /\ a % PageSize = 0
    BY <1>1, <1>2 DEF AllocateAndGuard
  <2>2. new = Incremented(a + GuardUnit(bag) - ClassSize(bag), last, starts)
    BY <1>2 DEF Skipped
  <2> QED BY <2>1, <2>2, SkippedIs DEF IInv
<1>4. PICK q : q = new.position
  OBVIOUS
<1>5. p = ObjectAt(j, k) /\ a = ObjectAt(j1, k1) /\ q = ObjectAt(j2, k2)
  BY <1>1, <1>2, <1>3, <1>4 DEF PointsAt
<1>6. /\ Number(p) = j * NumObjects(bag) + k
      /\ Number(a) = j1 * NumObjects(bag) + k1
      /\ Number(q) = j2 * NumObjects(bag) + k2
  BY <1>5, NumberOfObject DEF IInv
<1>7. UNCHANGED <<bagSize, thread, bag, setItem>> /\ randomGuards' = randomGuards \cup {a}
      /\ position' = q
  BY <1>2, <1>4 DEF AllocateAndGuard, Move
<1>8. PICK m : m = Number(position) + 1
  OBVIOUS
<1>9. Number(a) = m /\ m % w = 0
  BY <1>1, <1>2, <1>3, <1>6, <1>8
<1>10. Number(position)' = m + w
  BY <1>3, <1>6, <1>7, <1>9, NumbersKept
<1>11. ClassSize(bag)' = ClassSize(bag) /\ GuardUnit(bag)' = GuardUnit(bag)
  BY <1>7, LayoutKept
<1>12. /\ GuardUnit(bag) \div ClassSize(bag) = w
       /\ ClassSize(bag) \in ClassSizes
       /\ w = IF ClassSize(bag) < PageSize THEN PageSize \div ClassSize(bag) ELSE 1
  BY <1>3, ObjectsPerPage DEF IInv
<1>13. SkippedNumbers' = SkippedNumbers \cup (m .. m + w - 1)
  <2>1. SkippedNumbers = UNION {Number(g) .. Number(g) + w - 1 : g \in randomGuards}
    BY <1>12 DEF SkippedNumbers
  <2>2. SkippedNumbers' = UNION {Number(g) .. Number(g) + w - 1 : g \in randomGuards'}
    BY <1>7, <1>11, <1>12, NumbersKept DEF SkippedNumbers
  <2> QED BY <1>7, <1>9, <2>1, <2>2
<1>14. [c \in ClassSizes |-> IF c < PageSize THEN PageSize \div c ELSE 1][ClassSize(bag)] = w
  BY <1>12
<1> QED BY <1>8, <1>9, <1>10, <1>11, <1>13, <1>14 DEF Numbers!TakeAndSkip

\* Read as numbers, the addresses the bump pointer hands out are consecutive,
\* within a bag and from one heap to the next; a random guard page skips the
\* numbers of one page.  BibopHeap rests on this numbering.
THEOREM PointerIsNumbering == Spec => RefinesObjectNumbers
<1>1. IInv /\ [Next]_vars => [Numbers!Next]_(Numbers!numbering)
  <2> SUFFICES ASSUME IInv, [Next]_vars PROVE [Numbers!Next]_(Numbers!numbering)
    OBVIOUS
  <2>1. CASE Allocate
    BY <2>1, TakeStep DEF Numbers!Next
  <2>2. CASE AllocateAndGuard
    BY <2>2, SkipStep DEF Numbers!Next
  <2>3. CASE UNCHANGED vars
    <3>1. /\ UNCHANGED <<bagSize, thread, bag, setItem>>
          /\ position' = position /\ randomGuards' = randomGuards
      BY <2>3 DEF vars
    <3>2. Number(position)' = Number(position) /\ ClassSize(bag)' = ClassSize(bag)
      BY <3>1, LayoutKept, NumbersKept
    <3>3. SkippedNumbers' = SkippedNumbers
      BY <3>1, LayoutKept, NumbersKept DEF SkippedNumbers
    <3> QED BY <3>2, <3>3 DEF Numbers!numbering
  <2> QED BY <2>1, <2>2, <2>3 DEF Next
<1> QED BY <1>1, NumbersInit, Invariance, PTL DEF Spec, RefinesObjectNumbers, Numbers!Spec
=============================================================================
