---------------------------- MODULE RandomNumbers ----------------------------
(***************************************************************************)
(* The random numbers of a build with SSE2RNG (rng/sse2rng.c) and what     *)
(* allocateSmallObject makes of one.  Each thread has a seed of four words *)
(* in a 128-bit register.  The multiplication of SSE2 multiplies two words *)
(* at a time, the ones with even numbers, and makes 64 bits of each, so    *)
(* that rand_sse multiplies twice and puts the halves together again.      *)
(* The theorems say that this amounts to four generators next to each      *)
(* other, whatever the seed.                                               *)
(***************************************************************************)
EXTENDS Integers, TLAPS

CONSTANT Threads

Two16 == 65536
Two32 == Two16 * Two16

Word     == 0 .. Two32 - 1
Register == Word \X Word \X Word \X Word

mult == <<214013, 17405, 214013, 69069>>
gadd == <<2531011, 10395331, 13737667, 1>>

\* _mm_shuffle_epi32 with _MM_SHUFFLE(2, 3, 0, 1): neighbours change places.
Shuffle(r) == <<r[2], r[1], r[4], r[3]>>

\* _mm_mul_epu32: the 64-bit products of two of the words, low half first.
Mul(r, s) ==
  <<(r[1] * s[1]) % Two32, (r[1] * s[1]) \div Two32,
    (r[3] * s[3]) % Two32, (r[3] * s[3]) \div Two32>>

\* _mm_and_si128 with {0xFFFFFFFF, 0, 0xFFFFFFFF, 0}.
And(r) == <<r[1], 0, r[3], 0>>

\* _mm_or_si128 of registers no word of which is used in both.
OrWord(v, w) == IF w = 0 THEN v ELSE w
Or(r, s) == <<OrWord(r[1], s[1]), OrWord(r[2], s[2]), OrWord(r[3], s[3]), OrWord(r[4], s[4])>>

\* _mm_add_epi32.
Add(r, s) ==
  <<(r[1] + s[1]) % Two32, (r[2] + s[2]) % Two32,
    (r[3] + s[3]) % Two32, (r[4] + s[4]) % Two32>>

\* The seed after rand_sse.
NewSeed(seed) ==
  Add(Or(And(Mul(seed, mult)), Shuffle(And(Mul(Shuffle(seed), Shuffle(mult))))),
      gadd)

\* What a word of the seed shows: _mm_srai_epi32 by 16, which keeps the sign,
\* and the mask 0x00007FFF.
Signed(w) == IF w < Two32 \div 2 THEN w ELSE w - Two32
Result(w) == (Signed(w) \div Two16) % 32768

RNG_MAX == 32768

-----------------------------------------------------------------------------
VARIABLES
  curSeed,   \* cur_seed of every thread
  randNum    \* randNum[0] of the code, the number the last getRandomNumber returned

vars == <<curSeed, randNum>>

Init ==
  /\ curSeed = [t \in Threads |-> <<0, 0, 0, 0>>]
  /\ randNum = [t \in Threads |-> 0]

\* srand_sse, at the start of a thread.
Srand(t) ==
  /\ \E seed \in Word :
       LET after == (seed + 1) % Two32
       IN curSeed' = [curSeed EXCEPT ![t] = <<after, seed, after, seed>>]
  /\ UNCHANGED randNum

\* getRandomNumber.
GetRandomNumber(t) ==
  /\ curSeed' = [curSeed EXCEPT ![t] = NewSeed(curSeed[t])]
  /\ randNum' = [randNum EXCEPT ![t] = Result(NewSeed(curSeed[t])[1])]

Next == \E t \in Threads : Srand(t) \/ GetRandomNumber(t)

Spec == Init /\ [][Next]_vars

\* What allocateSmallObject makes of a number: the set item, and whether the
\* free list is bypassed.
NumBagSetItem(n)  == n % 4
UseBumpPointer(n) == n % 32 = 0

-----------------------------------------------------------------------------
\* The types of the variables; every number is one RNG_MAX allows for, which
\* the comparison with RANDOM_GUARD_RAND_CUTOFF depends on.
TypeOK ==
  /\ curSeed \in [Threads -> Register]
  /\ randNum \in [Threads -> 0 .. RNG_MAX - 1]

\* The linear congruential generator of word number l.
LCG(l, w) == (w * mult[l] + gadd[l]) % Two32

\* rand_sse: one step of a generator in every word, and in no other thread.
FourGenerators ==
  [][\A t \in Threads : GetRandomNumber(t) =>
       /\ \A l \in 1 .. 4 : curSeed'[t][l] = LCG(l, curSeed[t][l])
       /\ randNum'[t] = (LCG(1, curSeed[t][1]) \div Two16) % RNG_MAX
       /\ \A u \in Threads \ {t} : curSeed'[u] = curSeed[u]]_vars

\* Words are natural numbers below the word size, zero is one, and what is
\* left modulo the word size is one.
LEMMA Words ==
  /\ 0 \in Word
  /\ \A w \in Word : w \in Nat
  /\ \A x \in Nat : x % Two32 \in Word
<1>1. Two32 \in Nat /\ Two32 > 0
  BY SMT DEF Two16, Two32
<1> QED BY <1>1, SMT DEF Word

\* A sum modulo the word size does not depend on the size of a summand.
LEMMA SumModWord ==
  ASSUME NEW x \in Nat, NEW y \in Nat
  PROVE  ((x % Two32) + y) % Two32 = (x + y) % Two32
  BY SMT DEF Two16, Two32

\* The bits 16 to 30 of a word, taken from the signed or the unsigned one.
LEMMA SignMasked ==
  ASSUME NEW w \in Word
  PROVE  Result(w) = (w \div Two16) % RNG_MAX /\ Result(w) \in 0 .. RNG_MAX - 1
<1> DEFINE h == w \div Two16
<1>1. w \in Int
  BY Words
<1>2. h \in Int
  BY <1>1, SMT DEF Two16
<1>3. (w - Two32) \div Two16 = h - Two16
  BY <1>1, SMT DEF Two16, Two32
<1>4. Signed(w) = w \/ Signed(w) = w - Two32
  BY DEF Signed
<1>5. Result(w) = h % 32768 \/ Result(w) = (h - Two16) % 32768
  BY ONLY <1>3, <1>4 DEF Result
<1> HIDE DEF h
<1>6. (h - Two16) % 32768 = h % 32768 /\ h % 32768 \in 0 .. 32767
  BY <1>2, SMT DEF Two16
<1>7. Result(w) = h % 32768
  BY <1>5, <1>6, SMT
<1>8. Result(w) = h % RNG_MAX
  BY <1>7 DEF RNG_MAX
<1>9. Result(w) \in 0 .. RNG_MAX - 1
  BY <1>2, <1>6, <1>7, SMT DEF RNG_MAX
<1> QED BY <1>8, <1>9 DEF h

\* The constants are numbers.
LEMMA ConstantsNat ==
  ASSUME NEW l \in 1 .. 4
  PROVE  mult[l] \in Nat /\ gadd[l] \in Nat
<1>1. l = 1 \/ l = 2 \/ l = 3 \/ l = 4
  BY SMT
<1>2. /\ mult[1] = 214013 /\ mult[2] = 17405 /\ mult[3] = 214013 /\ mult[4] = 69069
      /\ gadd[1] = 2531011 /\ gadd[2] = 10395331 /\ gadd[3] = 13737667 /\ gadd[4] = 1
  BY SMT DEF mult, gadd
<1> QED BY <1>1, <1>2, SMT

\* What a generator yields is a word.
LEMMA LCGWord ==
  ASSUME NEW l \in 1 .. 4, NEW w \in Word
  PROVE  LCG(l, w) \in Word
<1>1. w \in Nat /\ mult[l] \in Nat /\ gadd[l] \in Nat
  BY ConstantsNat, Words
<1>2. w * mult[l] + gadd[l] \in Nat
  BY <1>1, SMT
<1> QED BY <1>2, Words DEF LCG

\* One word of the sum of a masked product and an empty word.
LEMMA LaneOfSum ==
  ASSUME NEW l \in 1 .. 4, NEW w \in Word
  PROVE  /\ (OrWord((w * mult[l]) % Two32, 0) + gadd[l]) % Two32 = LCG(l, w)
         /\ (OrWord(0, (w * mult[l]) % Two32) + gadd[l]) % Two32 = LCG(l, w)
<1> DEFINE x == w * mult[l]
           y == gadd[l]
<1>1. x \in Nat /\ y \in Nat
  <2>1. w \in Nat /\ mult[l] \in Nat /\ gadd[l] \in Nat
    BY ConstantsNat, Words
  <2> QED BY <2>1, SMT
<1>2. OrWord(x % Two32, 0) = x % Two32 /\ OrWord(0, x % Two32) = x % Two32
  BY DEF OrWord
<1>3. ((x % Two32) + y) % Two32 = (x + y) % Two32
  BY <1>1, SumModWord
<1> QED BY <1>2, <1>3 DEF LCG

\* rand_sse: the two multiplications put together are one step of a generator
\* in every word.
LEMMA LaneStep ==
  ASSUME NEW s \in Register
  PROVE  /\ NewSeed(s) \in Register
         /\ \A l \in 1 .. 4 : NewSeed(s)[l] = LCG(l, s[l])
<1> DEFINE p(l) == (s[l] * mult[l]) % Two32
<1>1. \A l \in 1 .. 4 : s[l] \in Word
  BY DEF Register
<1>2. And(Mul(s, mult)) = <<p(1), 0, p(3), 0>>
  BY DEF And, Mul
<1>3. Shuffle(And(Mul(Shuffle(s), Shuffle(mult)))) = <<0, p(2), 0, p(4)>>
  BY DEF And, Mul, Shuffle
<1>4. NewSeed(s) = <<(OrWord(p(1), 0) + gadd[1]) % Two32, (OrWord(0, p(2)) + gadd[2]) % Two32,
                     (OrWord(p(3), 0) + gadd[3]) % Two32, (OrWord(0, p(4)) + gadd[4]) % Two32>>
  BY <1>2, <1>3 DEF NewSeed, Add, Or
<1>5. NewSeed(s) = <<LCG(1, s[1]), LCG(2, s[2]), LCG(3, s[3]), LCG(4, s[4])>>
  BY <1>1, <1>4, LaneOfSum
<1> QED BY <1>1, <1>5, LCGWord DEF Register

\* Seeds are registers and the numbers drawn are below RNG_MAX.
THEOREM TypeCorrect == Spec => []TypeOK
<1>1. Init => TypeOK
  <2>1. 0 \in Word /\ 0 \in 0 .. RNG_MAX - 1
    BY Words, SMT DEF RNG_MAX
  <2> QED BY <2>1 DEF Init, TypeOK, Register
<1>2. TypeOK /\ [Next]_vars => TypeOK'
  <2> SUFFICES ASSUME TypeOK, [Next]_vars PROVE TypeOK'
    OBVIOUS
  <2>1. ASSUME NEW t \in Threads, Srand(t) PROVE TypeOK'
    <3>1. PICK seed \in Word : LET after == (seed + 1) % Two32
            IN curSeed' = [curSeed EXCEPT ![t] = <<after, seed, after, seed>>]
      BY <2>1 DEF Srand
    <3>2. (seed + 1) % Two32 \in Word
      <4>1. seed + 1 \in Nat
        BY Words, SMT
      <4> QED BY <4>1, Words
    <3> QED BY <2>1, <3>1, <3>2 DEF Srand, TypeOK, Register
  <2>2. ASSUME NEW t \in Threads, GetRandomNumber(t) PROVE TypeOK'
    <3>1. curSeed[t] \in Register
      BY DEF TypeOK
    <3>2. NewSeed(curSeed[t]) \in Register
      BY <3>1, LaneStep
    <3>3. Result(NewSeed(curSeed[t])[1]) \in 0 .. RNG_MAX - 1
      BY <3>2, SignMasked DEF Register
    <3> QED BY <2>2, <3>2, <3>3 DEF GetRandomNumber, TypeOK
  <2>3. CASE UNCHANGED vars
    BY <2>3 DEF vars, TypeOK
  <2> QED BY <2>1, <2>2, <2>3 DEF Next
<1> QED BY <1>1, <1>2, PTL DEF Spec

\* rand_sse: in every thread four independent linear congruential generators,
\* of which getRandomNumber shows bits 16 to 30 of the first.
THEOREM FourGeneratorsHold == Spec => FourGenerators
<1>1. ASSUME TypeOK, NEW t \in Threads, GetRandomNumber(t)
      PROVE  /\ \A l \in 1 .. 4 : curSeed'[t][l] = LCG(l, curSeed[t][l])
             /\ randNum'[t] = (LCG(1, curSeed[t][1]) \div Two16) % RNG_MAX
             /\ \A u \in Threads \ {t} : curSeed'[u] = curSeed[u]
  <2>1. curSeed[t] \in Register
    BY <1>1 DEF TypeOK
  <2>2. /\ curSeed'[t] = NewSeed(curSeed[t])
        /\ \A u \in Threads \ {t} : curSeed'[u] = curSeed[u]
        /\ randNum'[t] = Result(NewSeed(curSeed[t])[1])
    BY <1>1 DEF GetRandomNumber, TypeOK
  <2>3. \A l \in 1 .. 4 : NewSeed(curSeed[t])[l] = LCG(l, curSeed[t][l])
    BY <2>1, LaneStep
  <2>4. NewSeed(curSeed[t])[1] \in Word
    BY <2>1, LaneStep DEF Register
  <2>5. randNum'[t] = (LCG(1, curSeed[t][1]) \div Two16) % RNG_MAX
    BY <2>2, <2>3, <2>4, SignMasked
  <2> QED BY <2>2, <2>3, <2>5
<1>2. TypeOK /\ [Next]_vars =>
        [\A t \in Threads : GetRandomNumber(t) =>
           /\ \A l \in 1 .. 4 : curSeed'[t][l] = LCG(l, curSeed[t][l])
           /\ randNum'[t] = (LCG(1, curSeed[t][1]) \div Two16) % RNG_MAX
           /\ \A u \in Threads \ {t} : curSeed'[u] = curSeed[u]]_vars
  BY <1>1
<1>3. Spec => []TypeOK
  BY TypeCorrect
<1> QED BY <1>2, <1>3, PTL DEF Spec, FourGenerators

\* allocateSmallObject: one number decides both, so that the free list is only
\* ever bypassed in set item 0.
THEOREM BypassOnlyFirstItem ==
  ASSUME NEW n \in 0 .. RNG_MAX - 1, UseBumpPointer(n)
  PROVE  NumBagSetItem(n) = 0
<1>1. n \in Int
  <2>1. RNG_MAX - 1 \in Int
    BY SMT DEF RNG_MAX
  <2> QED BY <2>1, SMT
<1>2. n % 32 = 0
  BY DEF UseBumpPointer
<1> QED BY <1>1, <1>2, SMT DEF NumBagSetItem
=============================================================================
