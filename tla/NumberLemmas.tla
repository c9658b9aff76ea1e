----------------------------- MODULE NumberLemmas -----------------------------
(***************************************************************************)
(* Facts about natural numbers, finite sets and walks along links that the *)
(* proofs about several components rest on.                                *)
(***************************************************************************)
EXTENDS Integers, FiniteSets, FiniteSetTheorems, WellFoundedInduction, TLAPS

\* A set of natural numbers has a least element.
LEMMA Least ==
  ASSUME NEW S, S \subseteq Nat, S # {}
  PROVE  \E i \in S : \A j \in S : i <= j
<1>1. PICK i \in S : \A j \in S : ~ <<j, i>> \in OpToRel(<, Nat)
  BY NatLessThanWellFounded, WFMin
<1>2. ASSUME NEW j \in S PROVE i <= j
  <2>1. ~ <<j, i>> \in {ss \in Nat \X Nat : ss[1] < ss[2]}
    BY <1>1 DEF OpToRel
  <2> QED BY <2>1
<1> QED BY <1>2

\* Induction up to a bound, for a set of numbers: it has every number up to
\* N if it has 0 and with each number below N the next.
LEMMA InductionUpTo ==
  ASSUME NEW N \in Nat, NEW S, 0 \in S,
         \A n \in 0 .. N - 1 : n \in S => n + 1 \in S
  PROVE  0 .. N \subseteq S
<1> SUFFICES ASSUME NEW k \in 0 .. N, k \notin S PROVE FALSE
  OBVIOUS
<1>1. {n \in 0 .. N : n \notin S} # {} /\ {n \in 0 .. N : n \notin S} \subseteq Nat
  OBVIOUS
<1>2. PICK m \in {n \in 0 .. N : n \notin S} :
        \A n \in {n \in 0 .. N : n \notin S} : m <= n
  BY <1>1, Least
<1>3. m # 0 /\ m \in Nat
  BY <1>2
<1>4. m - 1 \in 0 .. N - 1 /\ m - 1 \in S
  BY <1>2, <1>3
<1> QED BY <1>2, <1>3, <1>4

\* A walk of N steps along links: there is a function that satisfies the
\* recursive definition.
IsWalk(g, N, first, link) == g = [n \in 0 .. N |-> IF n = 0 THEN first ELSE link[g[n-1]]]

\* There is a walk of every length.
LEMMA WalkExists ==
  ASSUME NEW N \in Nat, NEW first, NEW link
  PROVE  \E g : IsWalk(g, N, first, link)
<1> DEFINE Exists(m) ==
      \E g : g = [n \in 0 .. m |-> IF n = 0 THEN first ELSE link[g[n-1]]]
<1>1. Exists(0)
  <2>1. [n \in 0 .. 0 |-> first] =
          [n \in 0 .. 0 |-> IF n = 0 THEN first ELSE link[[k \in 0 .. 0 |-> first][n-1]]]
    OBVIOUS
  <2> QED BY <2>1
<1>2. ASSUME NEW m \in 0 .. N - 1, Exists(m) PROVE Exists(m + 1)
  <2>1. PICK g : g = [n \in 0 .. m |-> IF n = 0 THEN first ELSE link[g[n-1]]]
    BY <1>2
  <2>2. PICK h : h = [n \in 0 .. m + 1 |-> IF n = m + 1 THEN link[g[m]] ELSE g[n]]
    OBVIOUS
  <2>3. ASSUME NEW n \in 0 .. m + 1 PROVE h[n] = IF n = 0 THEN first ELSE link[h[n-1]]
    <3>1. CASE n = m + 1
      BY <2>2, <3>1
    <3>2. CASE n \in 0 .. m
      <4>1. h[n] = g[n] /\ (n # 0 => h[n-1] = g[n-1])
        BY <2>2, <3>2
      <4>2. g[n] = IF n = 0 THEN first ELSE link[g[n-1]]
        BY <2>1, <3>2
      <4> QED BY <4>1, <4>2
    <3> QED BY <3>1, <3>2
  <2>4. h = [n \in 0 .. m + 1 |-> IF n = 0 THEN first ELSE link[h[n-1]]]
    BY <2>2, <2>3
  <2> QED BY <2>4
<1>3. 0 \in {m \in Nat : Exists(m)}
  BY <1>1
<1>4. \A m \in 0 .. N - 1 : m \in {k \in Nat : Exists(k)} => m + 1 \in {k \in Nat : Exists(k)}
  BY <1>2
<1>5. Exists(N)
  <2> HIDE DEF Exists
  <2>1. 0 .. N \subseteq {k \in Nat : Exists(k)}
    BY <1>3, <1>4, InductionUpTo
  <2> QED BY <2>1
<1> QED BY <1>5 DEF IsWalk
\* A walk along links that lead from each node of a set to another one or to
\* the header, no two to the same one, and out of every part of the set: it
\* meets every node once and ends at the header.
LEMMA WalkOfRing ==
  ASSUME NEW N, IsFiniteSet(N), NEW h, h \notin N, NEW next, NEW prev,
         \A n \in N \cup {h} : next[n] \in N \cup {h} /\ prev[next[n]] = n,
         \A S \in SUBSET N : S # {} => \E n \in S : next[n] \notin S,
         NEW c \in Nat, c = Cardinality(N),
         NEW w, w[0] = next[h], \A n \in 1 .. c : w[n] = next[w[n-1]]
  PROVE  /\ {w[n] : n \in 0 .. c - 1} = N
         /\ \A i, j \in 0 .. c - 1 : w[i] = w[j] => i = j
         /\ w[c] = h
<1> DEFINE Met(m) == {w[i] : i \in 0 .. m - 1}
           Good(m) == /\ Met(m) \subseteq N
                      /\ IsFiniteSet(Met(m)) /\ Cardinality(Met(m)) = m
                      /\ \A i, j \in 0 .. m - 1 : w[i] = w[j] => i = j
                      /\ w[m] \in N \cup {h}
                      /\ \A i \in 0 .. m : prev[w[i]] = IF i = 0 THEN h ELSE w[i-1]
<1>1. Good(0)
  <2>1. Met(0) = {}
    OBVIOUS
  <2>2. IsFiniteSet(Met(0)) /\ Cardinality(Met(0)) = 0
    BY <2>1, FS_EmptySet
  <2>3. w[0] \in N \cup {h} /\ prev[w[0]] = h
    OBVIOUS
  <2> QED BY <2>1, <2>2, <2>3
<1>2. ASSUME NEW m \in 0 .. c, Good(m) PROVE w[m] \notin Met(m)
  <2> SUFFICES ASSUME NEW i \in 0 .. m - 1, w[m] = w[i] PROVE FALSE
    OBVIOUS
  <2>1. prev[w[m]] = w[m-1] /\ w[m-1] \in Met(m) /\ m - 1 \in 0 .. m - 1
    BY <1>2
  <2>2. w[m-1] # h
    BY <1>2, <2>1
  <2>3. i # 0 /\ w[m-1] = w[i-1]
    BY <1>2, <2>1, <2>2
  <2>4. i - 1 \in 0 .. m - 1 /\ i - 1 # m - 1
    BY <2>3
  <2> QED BY <1>2, <2>1, <2>3, <2>4
<1>3. ASSUME NEW m \in 0 .. c - 1, Good(m) PROVE w[m] # h
  <2> SUFFICES ASSUME w[m] = h PROVE FALSE
    OBVIOUS
  <2>1. N \ Met(m) # {}
    BY <1>3
  <2>2. PICK n \in N \ Met(m) : next[n] \notin N \ Met(m)
    BY <2>1
  <2>3. next[n] \in Met(m) \cup {w[m]}
    BY <2>2
  <2>4. PICK i \in 0 .. m : next[n] = w[i]
    BY <2>3
  <2>5. n = IF i = 0 THEN h ELSE w[i-1]
    BY <1>3, <2>2, <2>4
  <2>6. i # 0 => w[i-1] \in Met(m)
    BY <2>4
  <2> QED BY <2>2, <2>5, <2>6
<1>4. ASSUME NEW m \in 0 .. c - 1, Good(m) PROVE Good(m + 1)
  <2>1. w[m] \in N /\ w[m] \notin Met(m)
    BY <1>2, <1>3, <1>4
  <2>2. Met(m + 1) = Met(m) \cup {w[m]}
    <3>1. 0 .. m + 1 - 1 = 0 .. m - 1 \cup {m}
      OBVIOUS
    <3> QED BY <3>1
  <2>3. IsFiniteSet(Met(m + 1)) /\ Cardinality(Met(m + 1)) = m + 1
    <3>1. IsFiniteSet(Met(m)) /\ Cardinality(Met(m)) = m
      BY <1>4
    <3> HIDE DEF Met
    <3> QED BY <2>1, <2>2, <3>1, FS_AddElement
  <2>4. \A i, j \in 0 .. m + 1 - 1 : w[i] = w[j] => i = j
    <3>1. \A i \in 0 .. m - 1 : w[i] # w[m]
      BY <2>1
    <3> QED BY <1>4, <3>1
  <2>5. w[m+1] = next[w[m]] /\ w[m+1] \in N \cup {h} /\ prev[w[m+1]] = w[m]
    <3>1. m + 1 \in 1 .. c /\ m + 1 - 1 = m
      OBVIOUS
    <3> QED BY <2>1, <3>1
  <2>6. \A i \in 0 .. m + 1 : prev[w[i]] = IF i = 0 THEN h ELSE w[i-1]
    BY <1>4, <2>5
  <2>7. Met(m + 1) \subseteq N
    BY <1>4, <2>1, <2>2
  <2> HIDE DEF Met
  <2> QED BY <2>3, <2>4, <2>5, <2>6, <2>7
<1>5. Good(c)
  <2> HIDE DEF Good
  <2>1. 0 .. c \subseteq {m \in Nat : Good(m)}
    <3>1. 0 \in {m \in Nat : Good(m)}
      BY <1>1
    <3>2. \A m \in 0 .. c - 1 : m \in {k \in Nat : Good(k)} => m + 1 \in {k \in Nat : Good(k)}
      BY <1>4
    <3> QED BY <3>1, <3>2, InductionUpTo
  <2> QED BY <2>1
<1>6. Met(c) = N
  BY <1>5, FS_Subset
<1>7. w[c] = h
  BY <1>2, <1>5, <1>6
<1> QED BY <1>5, <1>6, <1>7

\* n different things are n in number.
LEMMA DistinctCount ==
  ASSUME NEW n \in Nat, NEW q, \A j, k \in 1 .. n : q[j] = q[k] => j = k
  PROVE  /\ IsFiniteSet({q[k] : k \in 1 .. n})
         /\ Cardinality({q[k] : k \in 1 .. n}) = n
<1>1. PICK T : T = {q[k] : k \in 1 .. n}
  OBVIOUS
<1>2. PICK f : f = [k \in 1 .. n |-> q[k]]
  OBVIOUS
<1>3. f \in Bijection(1 .. n, T)
  BY <1>1, <1>2 DEF Bijection, Injection, Surjection, IsInjective
<1>4. IsFiniteSet(1 .. n) /\ Cardinality(1 .. n) = n
  <2>1. 1 \in Int /\ n \in Int
    OBVIOUS
  <2>2. IsFiniteSet(1 .. n) /\ Cardinality(1 .. n) = IF 1 > n THEN 0 ELSE n - 1 + 1
    BY <2>1, FS_Interval
  <2> QED BY <2>2
<1>5. IsFiniteSet(T) /\ Cardinality(T) = n
  BY <1>3, <1>4, FS_Bijection DEF ExistsBijection
<1> QED BY <1>1, <1>5

\* The powers of two, which are the numbers of subsets of finite sets.
LEMMA PowerDoubles ==
  ASSUME NEW n \in Nat
  PROVE  2 ^ n \in Nat /\ 2 ^ (n + 1) = 2 * 2 ^ n
<1>1. PICK S, x, U : S = 1 .. n /\ x = n + 1 /\ U = 1 .. n + 1
  OBVIOUS
<1>2. IsFiniteSet(S) /\ Cardinality(S) = n /\ x \notin S /\ U = S \cup {x}
  <2>1. 1 \in Int /\ n \in Int
    OBVIOUS
  <2>2. IsFiniteSet(1 .. n) /\ Cardinality(1 .. n) = IF 1 > n THEN 0 ELSE n - 1 + 1
    BY <2>1, FS_Interval
  <2>3. n = IF 1 > n THEN 0 ELSE n - 1 + 1
    OBVIOUS
  <2>4. IsFiniteSet(S) /\ Cardinality(S) = n
    BY <1>1, <2>2, <2>3
  <2>5. x \notin S /\ U = S \cup {x}
    BY <1>1
  <2> QED BY <2>4, <2>5
<1>3. IsFiniteSet(U) /\ Cardinality(U) = n + 1
  BY <1>2, FS_AddElement
<1>4. PICK A, B, f :
        /\ A = SUBSET S /\ B = {a \cup {x} : a \in SUBSET S}
        /\ f = [a \in SUBSET S |-> a \cup {x}]
  OBVIOUS
<1>5. SUBSET U = A \cup B
  <2>1. ASSUME NEW v \in SUBSET U PROVE v \in A \cup B
    <3>1. CASE x \in v
      <4>1. v \ {x} \in SUBSET S /\ v = (v \ {x}) \cup {x}
        BY <1>2, <3>1
      <4> QED BY <1>4, <4>1
    <3>2. CASE x \notin v
      BY <1>2, <1>4, <3>2
    <3> QED BY <3>1, <3>2
  <2>2. ASSUME NEW v \in A \cup B PROVE v \in SUBSET U
    BY <1>2, <1>4
  <2> QED BY <2>1, <2>2
<1>6. A \cap B = {}
  BY <1>2, <1>4
<1>7. f \in Bijection(A, B)
  <2>1. ASSUME NEW a \in A, NEW b \in A, f[a] = f[b] PROVE a = b
    <3>1. a \cup {x} = b \cup {x}
      BY <1>4, <2>1
    <3>2. x \notin a /\ x \notin b
      BY <1>2, <1>4
    <3>3. \A e : e \in a <=> e \in b
      BY <3>1, <3>2
    <3> QED BY <3>3
  <2>2. \A b \in B : \E a \in A : f[a] = b
    BY <1>4
  <2>3. f \in [A -> B]
    BY <1>4
  <2> QED BY <2>1, <2>2, <2>3 DEF Bijection, Injection, Surjection, IsInjective
<1>8. IsFiniteSet(A) /\ Cardinality(A) = 2 ^ n
  BY <1>2, <1>4, FS_SUBSET
<1>9. IsFiniteSet(B) /\ Cardinality(B) = 2 ^ n
  BY <1>7, <1>8, FS_Bijection DEF ExistsBijection
<1>10. Cardinality(SUBSET U) = 2 ^ (n + 1)
  BY <1>3, FS_SUBSET
<1>11. Cardinality(A \cup B) = Cardinality(A) + Cardinality(B) - Cardinality(A \cap B)
  BY <1>8, <1>9, FS_Union
<1>12. Cardinality(A \cap B) = 0
  BY <1>6, FS_EmptySet
<1>13. Cardinality(A) \in Nat
  BY <1>8, FS_CardinalityType
<1>14. 2 ^ n \in Nat
  BY <1>8, <1>13
<1>15. 2 ^ (n + 1) = 2 * 2 ^ n
  <2>1. PICK p, q : p = 2 ^ (n + 1) /\ q = 2 ^ n
    OBVIOUS
  <2>2. Cardinality(A \cup B) = p
    BY <1>5, <1>10, <2>1
  <2>3. Cardinality(A) = q /\ Cardinality(B) = q /\ q \in Nat
    BY <1>8, <1>9, <1>14, <2>1
  <2>4. p = q + q - 0
    BY <1>11, <1>12, <2>2, <2>3
  <2>5. p = 2 * q
    BY <2>3, <2>4
  <2> QED BY <2>1, <2>5
<1> QED BY <1>14, <1>15

\* They grow faster than their exponents.
LEMMA PowerBounds ==
  ASSUME NEW n \in Nat
  PROVE  2 ^ n \in Nat /\ n < 2 ^ n
<1> DEFINE Good == {k \in Nat : 2 ^ k \in Nat /\ k < 2 ^ k}
<1>1. 0 \in Good
  OBVIOUS
<1>2. \A k \in 0 .. n - 1 : k \in Good => k + 1 \in Good
  <2> SUFFICES ASSUME NEW k \in 0 .. n - 1, k \in Good PROVE k + 1 \in Good
    OBVIOUS
  <2>1. 2 ^ (k + 1) = 2 * 2 ^ k
    BY PowerDoubles
  <2> QED BY <2>1
<1>3. 0 .. n \subseteq Good
  <2> HIDE DEF Good
  <2> QED BY <1>1, <1>2, InductionUpTo
<1> QED BY <1>3

\* A quotient and a remainder are found again.
LEMMA Division ==
  ASSUME NEW d \in Nat \ {0}, NEW q \in Nat, NEW r \in 0 .. d - 1
  PROVE  (q * d + r) \div d = q /\ (q * d + r) % d = r
OBVIOUS

\* Multiples of a number are at least that number apart.
LEMMA Apart ==
  ASSUME NEW d \in Nat, NEW i \in Nat, NEW j \in Nat, i < j
  PROVE  i * d + d <= j * d
<1>1. PICK k \in Nat : j = i + 1 + k
  <2>1. j - i - 1 \in Nat /\ j = i + 1 + (j - i - 1)
    OBVIOUS
  <2> QED BY <2>1
<1>2. j * d = i * d + d + k * d
  BY <1>1
<1>3. k * d \in Nat
  OBVIOUS
<1>4. i * d \in Nat
  OBVIOUS
<1> QED BY <1>2, <1>3, <1>4

\* Powers of two multiply by adding the exponents.
LEMMA PowerAdds ==
  ASSUME NEW m \in Nat, NEW n \in Nat
  PROVE  2 ^ (m + n) = 2 ^ m * 2 ^ n
<1> DEFINE Good == {k \in Nat : 2 ^ (m + k) = 2 ^ m * 2 ^ k}
<1>1. 0 \in Good
  BY PowerBounds
<1>2. \A k \in 0 .. n - 1 : k \in Good => k + 1 \in Good
  <2> SUFFICES ASSUME NEW k \in 0 .. n - 1, k \in Good PROVE k + 1 \in Good
    OBVIOUS
  <2>1. 2 ^ (k + 1) = 2 * 2 ^ k
    BY PowerDoubles
  <2>2. 2 ^ (m + k + 1) = 2 * 2 ^ (m + k)
    BY PowerDoubles
  <2>3. PICK a, b, c : a = 2 ^ m /\ b = 2 ^ k /\ c = 2 ^ (m + k)
    OBVIOUS
  <2>4. a \in Nat /\ b \in Nat /\ c = a * b
    BY <2>3, PowerBounds
  <2>5. 2 * c = a * (2 * b)
    BY <2>4
  <2>6. m + (k + 1) = m + k + 1
    OBVIOUS
  <2> QED BY <2>1, <2>2, <2>3, <2>5, <2>6
<1>3. 0 .. n \subseteq Good
  <2> HIDE DEF Good
  <2> QED BY <1>1, <1>2, InductionUpTo
<1> QED BY <1>3

\* One power divides another if its exponent is not greater.
LEMMA PowerOrder ==
  ASSUME NEW m \in Nat, NEW n \in Nat
  PROVE  /\ m <= n => 2 ^ n = 2 ^ m * 2 ^ (n - m) /\ 2 ^ (n - m) \in Nat \ {0}
         /\ m < n => 2 * 2 ^ m <= 2 ^ n
         /\ m < n <=> 2 ^ m < 2 ^ n
<1>1. ASSUME m <= n PROVE 2 ^ n = 2 ^ m * 2 ^ (n - m) /\ 2 ^ (n - m) \in Nat \ {0}
  <2>1. n - m \in Nat /\ n = m + (n - m)
    BY <1>1
  <2> QED BY <2>1, PowerAdds, PowerBounds
<1>2. ASSUME NEW i \in Nat, NEW j \in Nat, i < j PROVE 2 * 2 ^ i <= 2 ^ j
  <2>1. j - i - 1 \in Nat /\ j = i + 1 + (j - i - 1)
    BY <1>2
  <2>2. 2 ^ j = 2 ^ (i + 1) * 2 ^ (j - i - 1)
    BY <2>1, PowerAdds
  <2>3. PICK a, b : a = 2 ^ (i + 1) /\ b = 2 ^ (j - i - 1)
    OBVIOUS
  <2>4. a \in Nat /\ b \in Nat \ {0}
    BY <2>1, <2>3, PowerBounds
  <2>5. a <= a * b
    BY <2>4
  <2>6. 2 ^ (i + 1) = 2 * 2 ^ i
    BY PowerDoubles
  <2> QED BY <2>2, <2>3, <2>5, <2>6
<1>3. 2 ^ m \in Nat \ {0} /\ 2 ^ n \in Nat \ {0}
  BY PowerBounds
<1>4. m < n => 2 * 2 ^ m <= 2 ^ n
  BY <1>2
<1>5. n < m => 2 * 2 ^ n <= 2 ^ m
  BY <1>2
<1>6. m < n => 2 ^ m < 2 ^ n
  BY <1>3, <1>4
<1>7. 2 ^ m < 2 ^ n => m < n
  <2>1. CASE n < m
    BY <1>3, <1>5, <2>1
  <2>2. CASE n = m
    BY <1>3, <2>2
  <2> QED BY <2>1, <2>2
<1> QED BY <1>1, <1>4, <1>6, <1>7
=============================================================================
