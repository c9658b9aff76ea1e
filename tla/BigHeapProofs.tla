---------------------------- MODULE BigHeapProofs ----------------------------
(***************************************************************************)
(* Proofs about BigHeap, for any number of threads, addresses, buckets and *)
(* chunks of memory.                                                       *)
(*                                                                         *)
(* The invariant describes the hash map by its entries that are in use: to *)
(* whom each belongs, and how it is linked to its neighbours.  What a walk *)
(* along a bucket meets follows from that (WalkExact).                     *)
(***************************************************************************)
EXTENDS BigHeap, NumberLemmas

\* The steps of a call that holds the lock.
Critical == {"link", "count", "unlink", "release", "discount"}

\* The steps of a call whose object has no entry, and of one whose object has
\* an entry with the status of the call.
Unlisted  == {"lock", "link", "discount", "unmap"}
WithEntry == {"count", "describe", "erase lock", "unlink", "release"}

\* Entries that are allocated.
Used == inUse \cap Entries

\* The entries of the list of a bucket, and with them its header.
Linked(b) ==
  {e \in Used : /\ Bucket[key[e]] = b
                /\ \A t \in Threads : pc[t] = "release" => node[t] # e}
Ring(b) == Linked(b) \cup {b}

\* A thread at a step, with an object of a bucket.
At(steps, b) == \E t \in Threads : pc[t] \in steps /\ BucketOf(t) = b

\* The critical sections.
Locked == \A t \in Threads : pc[t] \in Critical <=> globalLock = t

\* A call has an object; it has a status unless it is looking for it.
Locals ==
  \A t \in Threads :
    /\ obj[t] = NULL <=> pc[t] = "idle"
    /\ status[t] = NULL <=> pc[t] \in {"idle"} \cup FindSteps

\* Each mapping has one owner: the application, nobody (the object was freed
\* in vain), or the call that is about it.
Ownership ==
  /\ \A a \in mapped : a \in live \cup ignored \/ \E t \in Threads : obj[t] = a
  /\ live \cup ignored \subseteq mapped
  /\ live \cap ignored = {}
  /\ \A t \in Threads : pc[t] # "idle" =>
       /\ obj[t] \in mapped \ (live \cup ignored)
       /\ \A u \in Threads \ {t} : obj[u] # obj[t]

\* A status belongs to one call ...
StatusesOwned ==
  \A t \in Threads : status[t] # NULL =>
    /\ status[t] \in inUse
    /\ \A u \in Threads \ {t} : status[u] # status[t]

\* ... or to one entry, or to the entry a call is putting in or taking out.
EntriesOwned ==
  \A e \in Used :
    /\ key[e] \in mapped
    /\ value[e] \in inUse \cap Statuses
    /\ \A f \in Used \ {e} : key[f] # key[e] /\ value[f] # value[e]
    /\ \A t \in Threads : key[e] = obj[t] => pc[t] \notin Unlisted
    /\ \A t \in Threads :
         status[t] = value[e] <=> key[e] = obj[t] /\ pc[t] \in WithEntry

\* Every mapping has an entry but on the way in and on the way out.
Listed ==
  \A a \in mapped :
    \/ \E t \in Threads : obj[t] = a /\ pc[t] \in Unlisted
    \/ \E e \in Used : key[e] = a

\* The entry at hand is that of the object; headers have no key.
EntryAtHand ==
  /\ \A t \in Threads : pc[t] \in {"count", "release"} =>
       node[t] \in Used /\ key[node[t]] = obj[t]
  /\ \A b \in Buckets : key[b] = NULL

\* A status says where its object is, from the end of the call that made it.
Described ==
  /\ \A e \in Used :
       \/ start[value[e]] = key[e]
       \/ \E t \in Threads : pc[t] \in {"count", "describe"} /\ obj[t] = key[e]
  /\ \A t \in Threads : pc[t] \in EraseSteps => start[status[t]] = obj[t]

\* The list of a bucket as each node sees it.  Between the two halves of an
\* insertion the header's link back is behind.
Links(b) ==
  /\ \A n \in Ring(b) :
       /\ next[n] \in Ring(b) /\ prev[n] \in Ring(b)
       /\ \/ prev[next[n]] = n
          \/ \E t \in Threads : pc[t] = "count" /\ BucketOf(t) = b /\ node[t] = n
       /\ next[prev[n]] = n \/ (n = b /\ At({"count"}, b))
  /\ \A t \in Threads : pc[t] = "count" /\ BucketOf(t) = b =>
       /\ next[node[t]] = b
       /\ prev[node[t]] = prev[b]
       /\ next[prev[b]] = node[t]

\* It is one ring: every set of its entries is left somewhere.
OneRing(b) ==
  \A S \in SUBSET Linked(b) : S # {} => \E n \in S : next[n] \notin S

\* What the count says between the steps of insert and erase.
Counted(b) ==
  Cardinality(Linked(b)) =
    IF At({"count"}, b) THEN count[b] + 1
    ELSE IF At({"release", "discount"}, b) THEN count[b] - 1
    ELSE count[b]

Shape ==
  /\ IsFiniteSet(Used)
  /\ \A b \in Buckets : Links(b) /\ OneRing(b) /\ Counted(b)

TableInv ==
  /\ TypeOK
  /\ Locked
  /\ Locals
  /\ Ownership
  /\ StatusesOwned
  /\ EntriesOwned
  /\ Listed
  /\ EntryAtHand
  /\ Described
  /\ Shape
-----------------------------------------------------------------------------
(***************************************************************************)
(* Walks                                                                   *)
(***************************************************************************)
LEMMA Basics ==
  /\ Buckets \cap Entries = {}
  /\ Entries \cap Statuses = {}
  /\ NULL \notin Addresses /\ NULL \notin Buckets /\ NULL \notin Entries
  /\ NULL \notin Statuses /\ NULL \notin Threads
  /\ \A a \in Addresses : Bucket[a] \in Buckets
BY BigHeapConstants DEF Nodes

\* The walk down a bucket starts at its head and follows next.
LEMMA WalkIs ==
  ASSUME TypeOK, NEW b \in Buckets
  PROVE  /\ Walk(b)[0] = next[b]
         /\ \A n \in 1 .. count[b] : Walk(b)[n] = next[Walk(b)[n-1]]
<1>1. PICK at : at = Walk(b)
  OBVIOUS
<1>2. PICK link : link = next
  OBVIOUS
<1>3. PICK N : N = count[b]
  OBVIOUS
<1>4. PICK first : first = next[b]
  OBVIOUS
<1>5. N \in Nat
  BY <1>3 DEF TypeOK
<1>6. at = CHOOSE g : g = [n \in 0 .. N |-> IF n = 0 THEN first ELSE link[g[n-1]]]
  BY <1>1, <1>2, <1>3, <1>4 DEF Walk
<1>7. at = [n \in 0 .. N |-> IF n = 0 THEN first ELSE link[at[n-1]]]
  <2>1. \E g : g = [n \in 0 .. N |-> IF n = 0 THEN first ELSE link[g[n-1]]]
    <3>1. \E g : IsWalk(g, N, first, link)
      BY <1>5, WalkExists
    <3> QED BY <3>1 DEF IsWalk
  <2> QED BY <1>6, <2>1, Zenon
<1>8. at[0] = first /\ \A n \in 1 .. N : at[n] = link[at[n-1]]
  BY <1>5, <1>7
<1> QED BY <1>1, <1>2, <1>3, <1>4, <1>8

\* A walk along a list nobody is changing.
LEMMA WalkExact ==
  ASSUME TypeOK, Shape, NEW b \in Buckets,
         ~ At({"count", "release", "discount"}, b)
  PROVE  /\ Met(b) = Linked(b)
         /\ count[b] = Cardinality(Linked(b))
         /\ Walk(b)[count[b]] = b
         /\ \A n \in Ring(b) : prev[next[n]] = n
<1>1. IsFiniteSet(Linked(b)) /\ count[b] \in Nat
  BY FS_Subset DEF Shape, Linked, TypeOK
<1>2. b \notin Linked(b)
  BY Basics DEF Linked, Used
<1>3. count[b] = Cardinality(Linked(b))
  BY DEF Shape, Counted, At
<1>4. \A n \in Linked(b) \cup {b} : next[n] \in Linked(b) \cup {b} /\ prev[next[n]] = n
  <2> SUFFICES ASSUME NEW n \in Ring(b) PROVE next[n] \in Ring(b) /\ prev[next[n]] = n
    BY DEF Ring
  <2> QED BY DEF Shape, Links, At
<1>5. \A S \in SUBSET Linked(b) : S # {} => \E n \in S : next[n] \notin S
  BY DEF Shape, OneRing
<1>6. /\ {Walk(b)[n] : n \in 0 .. count[b] - 1} = Linked(b)
      /\ Walk(b)[count[b]] = b
  BY <1>1, <1>2, <1>3, <1>4, <1>5, WalkIs, WalkOfRing
<1> QED BY <1>3, <1>4, <1>6 DEF Met, Ring
-----------------------------------------------------------------------------
(***************************************************************************)
(* The invariant                                                           *)
(***************************************************************************)
LEMMA InitIInv == Init => TableInv
<1> SUFFICES ASSUME Init PROVE TableInv
  OBVIOUS
<1> USE Basics DEF Init
<1>1. TypeOK
  BY DEF TypeOK, Nodes, Steps
<1>2. Locked /\ Locals /\ StatusesOwned
  BY DEF Locked, Locals, Critical, StatusesOwned, FindSteps
<1>3. Used = {} /\ \A b \in Buckets : Linked(b) = {} /\ Ring(b) = {b}
  BY DEF Used, Linked, Ring
<1>4. Ownership
  BY DEF Ownership, MappingsOwned
<1>5. EntriesOwned /\ Listed /\ EntryAtHand /\ Described
  BY <1>3 DEF EntriesOwned, Listed, EntryAtHand, Described, EraseSteps, Nodes
<1>6. ASSUME NEW b \in Buckets PROVE Links(b) /\ OneRing(b) /\ Counted(b)
  <2>1. Links(b) /\ OneRing(b)
    BY <1>3 DEF Links, OneRing, Nodes
  <2>2. Cardinality(Linked(b)) = 0
    BY <1>3, FS_EmptySet
  <2> QED BY <2>1, <2>2 DEF Counted, At
<1>7. Shape
  BY <1>3, <1>6, FS_EmptySet DEF Shape
<1> QED BY <1>1, <1>2, <1>4, <1>5, <1>7 DEF TableInv

\* A step of one thread leaves the others where they are.
LEMMA OthersUntouched ==
  ASSUME TypeOK, NEW t \in Threads, Malloc(t) \/ Free(t), NEW u \in Threads \ {t}
  PROVE  /\ pc'[u] = pc[u] /\ obj'[u] = obj[u] /\ status'[u] = status[u]
         /\ caller'[u] = caller[u] /\ node'[u] = node[u] /\ left'[u] = left[u]
BY DEF TypeOK, Goto, Leave, Found, chunks, links, walk, held, Malloc, Free, Find,
       MallocCall, Acquire, InsertLink, InsertCount, MallocReturn, FindFirst,
       FindCount, FindMatch, FindNext, FindFreed, FindEnd, FreeCall, FreeIgnored,
       FreeRejected, EraseUnlink, EraseRelease, EraseCount, Unmap

\* Every step keeps the bucket lock with the thread whose program counter is inside.
LEMMA LockedStep ==
  ASSUME TypeOK, Locked, NEW t \in Threads, Malloc(t) \/ Free(t)
  PROVE  Locked'
<1>1. \A u \in Threads \ {t} : pc'[u] = pc[u]
  BY OthersUntouched
<1>2. \/ globalLock' = globalLock /\ (pc'[t] \in Critical <=> pc[t] \in Critical)
      \/ globalLock = NULL /\ globalLock' = t /\ pc'[t] \in Critical
      \/ pc[t] \in Critical /\ globalLock' = NULL /\ pc'[t] \notin Critical
  <2> USE DEF TypeOK, Critical, Goto, Leave
  <2>1. CASE MallocCall(t) \/ InsertLink(t) \/ MallocReturn(t)
    BY <2>1 DEF MallocCall, InsertLink, MallocReturn
  <2>2. CASE Acquire(t, "lock", "link") \/ Acquire(t, "erase lock", "unlink")
    BY <2>2 DEF Acquire
  <2>3. CASE InsertCount(t) \/ EraseCount(t)
    BY <2>3 DEF InsertCount, EraseCount
  <2>4. CASE Find(t)
    BY <2>4 DEF Find, FindFirst, FindCount, FindMatch, Found, FindNext, FindFreed, FindEnd
  <2>5. CASE FreeCall(t) \/ FreeIgnored(t) \/ FreeRejected(t)
    BY <2>5 DEF FreeCall, FreeIgnored, FreeRejected
  <2>6. CASE EraseUnlink(t) \/ EraseRelease(t) \/ Unmap(t)
    BY <2>6 DEF EraseUnlink, EraseRelease, Unmap
  <2> QED BY <2>1, <2>2, <2>3, <2>4, <2>5, <2>6 DEF Malloc, Free
<1> QED BY <1>1, <1>2, Basics DEF Locked
\* One thread at a time is inside.
LEMMA Alone ==
  ASSUME Locked, NEW t \in Threads, pc[t] \in Critical, NEW u \in Threads \ {t}
  PROVE  pc[u] \notin Critical
BY DEF Locked

\* A call has an object.
LEMMA Objects ==
  ASSUME TypeOK, Locals, NEW t \in Threads, pc[t] # "idle"
  PROVE  obj[t] \in Addresses /\ BucketOf(t) \in Buckets
BY Basics DEF TypeOK, Locals, BucketOf

\* What a free unlinks is the entry of its object.
LEMMA UnlinksOwn ==
  ASSUME TableInv, NEW t \in Threads, pc[t] = "unlink", NEW e \in EntriesOf(obj[t])
  PROVE  e \in Linked(BucketOf(t)) /\ e \in Used /\ key[e] = obj[t]
<1>1. BucketOf(t) \in Buckets
  BY Objects DEF TableInv
<1>2. \A u \in Threads : pc[u] \notin {"count", "release", "discount"}
  BY Alone DEF TableInv, Critical
<1>3. ~ At({"count", "release", "discount"}, BucketOf(t))
  BY <1>2 DEF At
<1>4. Met(BucketOf(t)) = Linked(BucketOf(t))
  BY <1>1, <1>3, WalkExact DEF TableInv
<1> QED BY <1>4 DEF EntriesOf, BucketOf, Linked

\* A step to another program counter keeps the type of pc.
LEMMA GotoType ==
  ASSUME TypeOK, NEW t \in Threads, NEW step \in Steps, Goto(t, step)
  PROVE  pc' \in [Threads -> Steps]
BY DEF TypeOK, Goto

\* A return keeps the types of pc and of the argument.
LEMMA LeaveType ==
  ASSUME TypeOK, NEW t \in Threads, Leave(t)
  PROVE  /\ pc' \in [Threads -> Steps]
         /\ obj' \in [Threads -> Addresses \cup {NULL}]
         /\ status' \in [Threads -> Statuses \cup {NULL}]
         /\ caller' \in [Threads -> Callers \cup {NULL}]
         /\ node' \in [Threads -> Nodes \cup {NULL}]
         /\ left' \in [Threads -> Nat]
<1>1. pc' \in [Threads -> Steps]
  BY GotoType DEF Leave, Steps
<1> QED BY <1>1 DEF TypeOK, Leave

\* Every step keeps the type invariant.
LEMMA TypeStep ==
  ASSUME TableInv, NEW t \in Threads, Malloc(t) \/ Free(t)
  PROVE  TypeOK'
<1> USE Basics
<1>1. TypeOK /\ Locals
  BY DEF TableInv
<1>2. CASE MallocCall(t)
  <2>1. pc' \in [Threads -> Steps]
    BY <1>1, <1>2, GotoType DEF MallocCall, Steps, MallocSteps
  <2>2. PICK a \in Addresses \ mapped, s \in Statuses \ inUse :
          /\ mapped' = mapped \cup {a}
          /\ inUse' = inUse \cup {s}
          /\ obj' = [obj EXCEPT ![t] = a]
          /\ status' = [status EXCEPT ![t] = s]
    BY <1>2 DEF MallocCall
  <2>3. mapped' \subseteq Addresses /\ inUse' \subseteq Entries \cup Statuses
    BY <1>1, <2>2 DEF TypeOK
  <2>4. obj' \in [Threads -> Addresses \cup {NULL}] /\ status' \in [Threads -> Statuses \cup {NULL}]
    BY <1>1, <2>2 DEF TypeOK
  <2> QED BY <1>1, <1>2, <2>1, <2>3, <2>4 DEF MallocCall, TypeOK, held, links, walk
<1>3. CASE Acquire(t, "lock", "link") \/ Acquire(t, "erase lock", "unlink")
  <2>1. pc' \in [Threads -> Steps]
    BY <1>1, <1>3, GotoType DEF Acquire, Steps, MallocSteps, EraseSteps
  <2> QED BY <1>1, <1>3, <2>1 DEF Acquire, TypeOK, held, links, chunks, walk
<1>4. CASE InsertLink(t)
  <2>1. pc' \in [Threads -> Steps] /\ pc[t] # "idle"
    BY <1>1, <1>4, GotoType DEF InsertLink, Steps, MallocSteps
  <2>2. BucketOf(t) \in Nodes /\ obj[t] \in Addresses
    BY <1>1, <2>1, Objects DEF Nodes
  <2>3. PICK e \in Entries \ inUse :
          /\ inUse' = inUse \cup {e}
          /\ key' = [key EXCEPT ![e] = obj[t]]
          /\ value' = [value EXCEPT ![e] = status[t]]
          /\ next' = [next EXCEPT ![e] = BucketOf(t), ![prev[BucketOf(t)]] = e]
          /\ prev' = [prev EXCEPT ![e] = prev[BucketOf(t)]]
          /\ node' = [node EXCEPT ![t] = e]
    BY <1>4 DEF InsertLink
  <2>4. e \in Nodes /\ inUse' \subseteq Entries \cup Statuses
    BY <1>1, <2>3 DEF Nodes, TypeOK
  <2>5. /\ next' \in [Nodes -> Nodes] /\ prev' \in [Nodes -> Nodes]
        /\ node' \in [Threads -> Nodes \cup {NULL}]
    BY <1>1, <2>2, <2>3, <2>4 DEF TypeOK
  <2>6. key' \in [Nodes -> Addresses \cup {NULL}] /\ value' \in [Nodes -> Statuses \cup {NULL}]
    BY <1>1, <2>2, <2>3, <2>4 DEF TypeOK
  <2> QED BY <1>1, <1>4, <2>1, <2>4, <2>5, <2>6 DEF InsertLink, TypeOK, held
<1>5. CASE InsertCount(t)
  <2>1. pc' \in [Threads -> Steps] /\ pc[t] # "idle"
    BY <1>1, <1>5, GotoType DEF InsertCount, Steps, MallocSteps
  <2>2. BucketOf(t) \in Buckets /\ BucketOf(t) \in Nodes /\ node[t] \in Nodes
    BY <1>1, <1>5, <2>1, Objects DEF InsertCount, TableInv, EntryAtHand, Used, Nodes
  <2>3. prev' \in [Nodes -> Nodes]
    BY <1>1, <1>5, <2>2 DEF InsertCount, TypeOK
  <2>4. count' \in [Buckets -> Nat]
    <3>1. count \in [Buckets -> Nat] /\ count[BucketOf(t)] \in Nat
      BY <1>1, <2>2 DEF TypeOK
    <3>2. count[BucketOf(t)] + 1 \in Nat
      BY <3>1
    <3>3. count' = [count EXCEPT ![BucketOf(t)] = count[BucketOf(t)] + 1]
      BY <1>5 DEF InsertCount
    <3> QED BY <3>1, <3>2, <3>3
  <2> QED BY <1>1, <1>5, <2>1, <2>3, <2>4 DEF InsertCount, TypeOK, held, chunks
<1>6. CASE MallocReturn(t)
  <2>1. obj[t] \in Addresses
    BY <1>1, <1>6, Objects DEF MallocReturn
  <2> QED BY <1>1, <1>6, <2>1, LeaveType DEF MallocReturn, TypeOK, links
<1>7. CASE FindFirst(t) \/ FindCount(t)
  <2>1. pc' \in [Threads -> Steps] /\ pc[t] # "idle"
    BY <1>1, <1>7, GotoType DEF FindFirst, FindCount, Steps, FindSteps
  <2>2. BucketOf(t) \in Buckets /\ BucketOf(t) \in Nodes
    BY <1>1, <2>1, Objects DEF Nodes
  <2>3. node' \in [Threads -> Nodes \cup {NULL}]
    BY <1>1, <1>7, <2>2 DEF FindFirst, FindCount, TypeOK
  <2>4. left' \in [Threads -> Nat]
    <3>1. left \in [Threads -> Nat] /\ count[BucketOf(t)] \in Nat
      BY <1>1, <2>2 DEF TypeOK
    <3>2. left' = left \/ left' = [left EXCEPT ![t] = count[BucketOf(t)]]
      BY <1>7 DEF FindFirst, FindCount
    <3> QED BY <3>1, <3>2
  <2> QED BY <1>1, <1>7, <2>1, <2>3, <2>4 DEF FindFirst, FindCount, TypeOK, held, links, chunks
<1>8. CASE FindMatch(t)
  <2>1. node[t] \in Nodes
    BY <1>1, <1>8 DEF FindMatch, Sees, TypeOK, Nodes
  <2>2. pc' \in [Threads -> Steps]
    BY <1>1, <1>8, GotoType DEF FindMatch, Found, Steps, FindSteps, EraseSteps
  <2>3. caller' \in [Threads -> Callers \cup {NULL}]
    BY <1>1, <1>8 DEF FindMatch, Found, TypeOK, Callers
  <2>5. status' \in [Threads -> Statuses \cup {NULL}]
    <3>1. status \in [Threads -> Statuses \cup {NULL}] /\ value[node[t]] \in Statuses \cup {NULL}
      BY <1>1, <2>1 DEF TypeOK
    <3>2. status' = status \/ status' = [status EXCEPT ![t] = value[node[t]]]
      BY <1>8 DEF FindMatch, Found
    <3> QED BY <3>1, <3>2
  <2>4. node' \in [Threads -> Nodes \cup {NULL}] /\ left' \in [Threads -> Nat]
    BY <1>1, <1>8 DEF FindMatch, Found, TypeOK
  <2> QED BY <1>1, <1>8, <2>2, <2>3, <2>4, <2>5 DEF FindMatch, TypeOK, held, links, chunks
<1>9. CASE FindNext(t)
  <2>1. node[t] \in Nodes /\ left[t] \in Nat /\ left[t] > 0
    BY <1>1, <1>9 DEF FindNext, Sees, TypeOK, Nodes
  <2>2. node' \in [Threads -> Nodes \cup {NULL}]
    BY <1>1, <1>9, <2>1 DEF FindNext, TypeOK
  <2>3. left' \in [Threads -> Nat]
    <3>1. left \in [Threads -> Nat]
      BY <1>1 DEF TypeOK
    <3>2. left[t] - 1 \in Nat
      BY <2>1
    <3>3. left' = [left EXCEPT ![t] = left[t] - 1]
      BY <1>9 DEF FindNext
    <3> QED BY <3>1, <3>2, <3>3
  <2> QED BY <1>1, <1>9, <2>2, <2>3 DEF FindNext, TypeOK, held, links, chunks
<1>10. CASE FindFreed(t) \/ FindEnd(t)
  <2>1. FindEnd(t) => pc' \in [Threads -> Steps]
    BY <1>1, GotoType DEF FindEnd, Steps, FindSteps
  <2> QED BY <1>1, <1>10, <2>1 DEF FindFreed, FindEnd, TypeOK, held, links, chunks, walk
<1>11. CASE FreeCall(t)
  <2>1. pc' \in [Threads -> Steps]
    BY <1>1, <1>11, GotoType DEF FreeCall, Steps, FindSteps
  <2>2. caller' \in [Threads -> Callers \cup {NULL}]
    BY <1>1, <1>11 DEF FreeCall, TypeOK, Callers
  <2> QED BY <1>1, <1>11, <2>1, <2>2 DEF FreeCall, TypeOK, links, chunks
<1>12. CASE FreeIgnored(t)
  <2>1. obj[t] \in Addresses
    BY <1>1, <1>12, Objects DEF FreeIgnored
  <2> QED BY <1>1, <1>12, <2>1, LeaveType DEF FreeIgnored, TypeOK, links, chunks
<1>13. CASE FreeRejected(t)
  BY <1>1, <1>13 DEF FreeRejected, TypeOK, held, links, chunks, walk
<1>14. CASE EraseUnlink(t)
  <2>1. PICK e \in EntriesOf(obj[t]) :
          /\ next' = [next EXCEPT ![prev[e]] = next[e], ![e] = e]
          /\ prev' = [prev EXCEPT ![next[e]] = prev[e], ![e] = e]
          /\ node' = [node EXCEPT ![t] = e]
    BY <1>14 DEF EraseUnlink
  <2>2. e \in Nodes
    BY <1>14, <2>1, UnlinksOwn DEF EraseUnlink, Used, Nodes
  <2>3. pc' \in [Threads -> Steps]
    BY <1>1, <1>14, GotoType DEF EraseUnlink, Steps, EraseSteps
  <2>4. /\ next' \in [Nodes -> Nodes] /\ prev' \in [Nodes -> Nodes]
        /\ node' \in [Threads -> Nodes \cup {NULL}]
    BY <1>1, <2>1, <2>2 DEF TypeOK
  <2> QED BY <1>1, <1>14, <2>3, <2>4 DEF EraseUnlink, TypeOK, held, chunks
<1>15. CASE EraseRelease(t)
  <2>1. pc' \in [Threads -> Steps]
    BY <1>1, <1>15, GotoType DEF EraseRelease, Steps, EraseSteps
  <2> QED BY <1>1, <1>15, <2>1 DEF EraseRelease, TypeOK, held, links
<1>16. CASE EraseCount(t)
  <2>1. pc' \in [Threads -> Steps] /\ pc[t] # "idle"
    BY <1>1, <1>16, GotoType DEF EraseCount, Steps, EraseSteps
  <2>2. BucketOf(t) \in Buckets
    BY <1>1, <2>1, Objects
  <2>3. At({"release", "discount"}, BucketOf(t)) /\ ~ At({"count"}, BucketOf(t))
    BY <1>16, Alone DEF EraseCount, At, TableInv, Critical
  <2>4. Cardinality(Linked(BucketOf(t))) = count[BucketOf(t)] - 1
    BY <2>2, <2>3 DEF TableInv, Shape, Counted
  <2>5. Cardinality(Linked(BucketOf(t))) \in Nat
    BY FS_Subset, FS_CardinalityType DEF TableInv, Shape, Linked
  <2>6. count[BucketOf(t)] - 1 \in Nat
    BY <2>4, <2>5
  <2>7. count' \in [Buckets -> Nat]
    BY <1>1, <1>16, <2>2, <2>6 DEF EraseCount, TypeOK
  <2> QED BY <1>1, <1>16, <2>1, <2>7 DEF EraseCount, TypeOK, held, chunks, walk
<1>17. CASE Unmap(t)
  BY <1>1, <1>17, LeaveType DEF Unmap, TypeOK, held, links
<1> QED BY <1>2, <1>3, <1>4, <1>5, <1>6, <1>7, <1>8, <1>9, <1>10, <1>11, <1>12, <1>13,
           <1>14, <1>15, <1>16, <1>17 DEF Malloc, Free, Find

\* What a walk finds is an entry that exists.
LEMMA MatchesUsed ==
  ASSUME TypeOK, Locals, EntryAtHand, NEW t \in Threads,
         pc[t] # "idle", Sees(t), Matches(t)
  PROVE  node[t] \in Used /\ key[node[t]] = obj[t]
<1>1. key[node[t]] \in Addresses
  BY Objects DEF Matches
<1>2. node[t] \notin Buckets
  BY <1>1, Basics DEF EntryAtHand
<1>3. node[t] \in inUse /\ node[t] \in Nodes \cup {NULL} /\ inUse \subseteq Entries \cup Statuses
  BY <1>2 DEF Sees, TypeOK
<1> QED BY <1>2, <1>3, Basics DEF Nodes, Used, Matches

\* Every step keeps what the local variables of its thread promise at its program counter.
LEMMA LocalsStep ==
  ASSUME TypeOK, Locals, EntryAtHand, EntriesOwned, NEW t \in Threads, Malloc(t) \/ Free(t)
  PROVE  Locals'
<1>1. \A u \in Threads \ {t} : pc'[u] = pc[u] /\ obj'[u] = obj[u] /\ status'[u] = status[u]
  BY OthersUntouched
<1>2. /\ obj'[t] = NULL <=> pc'[t] = "idle"
      /\ status'[t] = NULL <=> pc'[t] \in {"idle"} \cup FindSteps
  <2> USE Basics DEF FindSteps
  <2>1. TypeOK /\ (obj[t] = NULL <=> pc[t] = "idle")
          /\ (status[t] = NULL <=> pc[t] \in {"idle"} \cup FindSteps)
    BY DEF Locals
  <2>2. ASSUME NEW step, Goto(t, step) PROVE pc'[t] = step
    BY <2>1, <2>2 DEF TypeOK, Goto
  <2>3. CASE MallocCall(t)
    <3>1. PICK a \in Addresses \ mapped, s \in Statuses \ inUse :
            obj' = [obj EXCEPT ![t] = a] /\ status' = [status EXCEPT ![t] = s]
      BY <2>3 DEF MallocCall
    <3>2. obj'[t] = a /\ status'[t] = s
      BY <2>1, <3>1 DEF TypeOK
    <3> QED BY <2>2, <2>3, <3>2 DEF MallocCall
  <2>4. CASE Acquire(t, "lock", "link") \/ Acquire(t, "erase lock", "unlink")
    BY <2>1, <2>2, <2>4 DEF Acquire
  <2>5. CASE Leave(t)
    BY <2>1, <2>2, <2>5 DEF Leave, TypeOK
  <2>6. CASE InsertLink(t) \/ InsertCount(t)
    BY <2>1, <2>2, <2>6 DEF InsertLink, InsertCount
  <2>7. CASE FindFirst(t) \/ FindCount(t) \/ FindNext(t) \/ FindFreed(t) \/ FindEnd(t)
    BY <2>1, <2>2, <2>7 DEF FindFirst, FindCount, FindNext, FindFreed, FindEnd, walk
  <2>8. CASE FindMatch(t)
    <3>1. obj'[t] = obj[t] /\ pc[t] = "walk"
      BY <2>8 DEF FindMatch
    <3>2. obj[t] # NULL /\ obj[t] \in Addresses
      BY <2>1, <3>1 DEF TypeOK
    <3>3. node[t] \in Used
      BY <2>8, MatchesUsed DEF FindMatch
    <3>4. value[node[t]] # NULL
      BY <3>3 DEF EntriesOwned
    <3>5. CASE caller[t] = "isLargeObject"
      BY <2>1, <2>2, <2>8, <3>1, <3>5 DEF FindMatch, Found
    <3>6. CASE caller[t] # "isLargeObject"
      <4>1. status'[t] = value[node[t]]
        BY <2>1, <2>8, <3>6 DEF FindMatch, Found, TypeOK
      <4> QED BY <2>1, <2>2, <2>8, <3>1, <3>4, <3>6, <4>1 DEF FindMatch, Found
    <3> QED BY <3>5, <3>6
  <2>9. CASE FreeCall(t)
    <3>1. PICK a \in live : obj' = [obj EXCEPT ![t] = a]
      BY <2>9 DEF FreeCall
    <3>2. obj'[t] \in Addresses
      BY <2>1, <3>1 DEF TypeOK
    <3> QED BY <2>1, <2>2, <2>9, <3>2 DEF FreeCall
  <2>10. CASE FreeRejected(t)
    BY <2>1, <2>10 DEF FreeRejected
  <2>11. CASE EraseUnlink(t) \/ EraseRelease(t) \/ EraseCount(t)
    BY <2>1, <2>2, <2>11 DEF EraseUnlink, EraseRelease, EraseCount
  <2> QED BY <2>3, <2>4, <2>5, <2>6, <2>7, <2>8, <2>9, <2>10, <2>11
          DEF Malloc, Free, Find, MallocReturn, FreeIgnored, Unmap
<1> QED BY <1>1, <1>2 DEF Locals

\* A step that hands no object over.
LEMMA OwnershipQuiet ==
  ASSUME Ownership, UNCHANGED <<mapped, live, ignored, obj>>,
         \A u \in Threads : pc'[u] = "idle" <=> pc[u] = "idle"
  PROVE  Ownership'
BY DEF Ownership

\* Every step keeps each mapping with its one owner.
LEMMA OwnershipStep ==
  ASSUME TableInv, TypeOK', Locals', NEW t \in Threads, Malloc(t) \/ Free(t)
  PROVE  Ownership'
<1>1. TypeOK /\ Locals /\ Ownership
  BY DEF TableInv
<1>2. \A u \in Threads \ {t} : pc'[u] = pc[u] /\ obj'[u] = obj[u]
  BY <1>1, OthersUntouched
<1>9. \A u, v \in Threads : u # v /\ obj[u] = obj[v] => obj[u] = NULL
  BY <1>1 DEF Ownership, Locals
<1>10. \A u \in Threads : pc'[u] # "idle" <=> obj'[u] # NULL
  BY DEF Locals
<1>3. CASE MallocCall(t)
  <2>1. PICK a \in Addresses \ mapped : mapped' = mapped \cup {a} /\ obj' = [obj EXCEPT ![t] = a]
    BY <1>3 DEF MallocCall
  <2>2. live' = live /\ ignored' = ignored /\ obj'[t] = a /\ obj[t] \notin mapped
    <3>1. obj[t] = NULL
      BY <1>1, <1>3 DEF MallocCall, Locals
    <3>2. obj[t] \notin mapped
      BY <1>1, <3>1, Basics DEF TypeOK
    <3> QED BY <1>1, <1>3, <2>1, <3>2 DEF MallocCall, TypeOK, held
  <2>3. \A x \in mapped' : x \in live' \cup ignored' \/ \E u \in Threads : obj'[u] = x
    BY <1>1, <1>2, <2>1, <2>2 DEF Ownership
  <2>4. live' \cup ignored' \subseteq mapped' /\ live' \cap ignored' = {}
    BY <1>1, <1>2, <2>1, <2>2 DEF Ownership
  <2>5. \A u \in Threads : pc'[u] # "idle" => obj'[u] \in mapped' \ (live' \cup ignored')
    BY <1>1, <1>2, <2>1, <2>2 DEF Ownership
  <2>6. \A u \in Threads : pc'[u] # "idle" => \A v \in Threads \ {u} : obj'[v] # obj'[u]
    BY <1>1, <1>2, <1>9, <1>10, <2>1, <2>2 DEF Ownership
  <2> QED BY <2>3, <2>4, <2>5, <2>6 DEF Ownership
<1>4. CASE MallocReturn(t)
  <2>1. live' = live \cup {obj[t]} /\ ignored' = ignored /\ mapped' = mapped
    BY <1>4 DEF MallocReturn
  <2>2. pc[t] # "idle" /\ pc'[t] = "idle" /\ obj'[t] = NULL
    BY <1>1, <1>4 DEF MallocReturn, Leave, Goto, TypeOK
  <2>3. \A x \in mapped' : x \in live' \cup ignored' \/ \E u \in Threads : obj'[u] = x
    BY <1>1, <1>2, <2>1, <2>2 DEF Ownership
  <2>4. live' \cup ignored' \subseteq mapped' /\ live' \cap ignored' = {}
    BY <1>1, <1>2, <2>1, <2>2 DEF Ownership
  <2>5. \A u \in Threads : pc'[u] # "idle" => obj'[u] \in mapped' \ (live' \cup ignored')
    BY <1>1, <1>2, <2>1, <2>2 DEF Ownership
  <2>6. \A u \in Threads : pc'[u] # "idle" => \A v \in Threads \ {u} : obj'[v] # obj'[u]
    BY <1>1, <1>2, <1>9, <1>10, <2>1, <2>2 DEF Ownership
  <2> QED BY <2>3, <2>4, <2>5, <2>6 DEF Ownership
<1>5. CASE FreeCall(t)
  <2>1. PICK a \in live : live' = live \ {a} /\ obj' = [obj EXCEPT ![t] = a]
    BY <1>5 DEF FreeCall
  <2>2. mapped' = mapped /\ ignored' = ignored /\ obj'[t] = a /\ obj[t] \notin mapped
    <3>1. obj[t] = NULL
      BY <1>1, <1>5 DEF FreeCall, Locals
    <3>2. obj[t] \notin mapped
      BY <1>1, <3>1, Basics DEF TypeOK
    <3> QED BY <1>1, <1>5, <2>1, <3>2 DEF FreeCall, TypeOK, held
  <2>3. \A x \in mapped' : x \in live' \cup ignored' \/ \E u \in Threads : obj'[u] = x
    BY <1>1, <1>2, <2>1, <2>2 DEF Ownership
  <2>4. live' \cup ignored' \subseteq mapped' /\ live' \cap ignored' = {}
    BY <1>1, <1>2, <2>1, <2>2 DEF Ownership
  <2>5. \A u \in Threads : pc'[u] # "idle" => obj'[u] \in mapped' \ (live' \cup ignored')
    BY <1>1, <1>2, <2>1, <2>2 DEF Ownership
  <2>6. \A u \in Threads : pc'[u] # "idle" => \A v \in Threads \ {u} : obj'[v] # obj'[u]
    BY <1>1, <1>2, <1>9, <1>10, <2>1, <2>2 DEF Ownership
  <2> QED BY <2>3, <2>4, <2>5, <2>6 DEF Ownership
<1>6. CASE FreeIgnored(t)
  <2>1. ignored' = ignored \cup {obj[t]} /\ live' = live /\ mapped' = mapped
    BY <1>6 DEF FreeIgnored
  <2>2. pc[t] # "idle" /\ pc'[t] = "idle" /\ obj'[t] = NULL
    BY <1>1, <1>6 DEF FreeIgnored, Leave, Goto, TypeOK
  <2>3. \A x \in mapped' : x \in live' \cup ignored' \/ \E u \in Threads : obj'[u] = x
    BY <1>1, <1>2, <2>1, <2>2 DEF Ownership
  <2>4. live' \cup ignored' \subseteq mapped' /\ live' \cap ignored' = {}
    BY <1>1, <1>2, <2>1, <2>2 DEF Ownership
  <2>5. \A u \in Threads : pc'[u] # "idle" => obj'[u] \in mapped' \ (live' \cup ignored')
    BY <1>1, <1>2, <2>1, <2>2 DEF Ownership
  <2>6. \A u \in Threads : pc'[u] # "idle" => \A v \in Threads \ {u} : obj'[v] # obj'[u]
    BY <1>1, <1>2, <1>9, <1>10, <2>1, <2>2 DEF Ownership
  <2> QED BY <2>3, <2>4, <2>5, <2>6 DEF Ownership
<1>7. CASE Unmap(t)
  <2>1. mapped' = mapped \ {obj[t]} /\ ignored' = ignored /\ live' = live
    BY <1>7 DEF Unmap, held, TableInv, Described, EraseSteps
  <2>2. pc[t] # "idle" /\ pc'[t] = "idle" /\ obj'[t] = NULL
    BY <1>1, <1>7 DEF Unmap, Leave, Goto, TypeOK
  <2>3. \A x \in mapped' : x \in live' \cup ignored' \/ \E u \in Threads : obj'[u] = x
    BY <1>1, <1>2, <2>1, <2>2 DEF Ownership
  <2>4. live' \cup ignored' \subseteq mapped' /\ live' \cap ignored' = {}
    BY <1>1, <1>2, <2>1, <2>2 DEF Ownership
  <2>5. \A u \in Threads : pc'[u] # "idle" => obj'[u] \in mapped' \ (live' \cup ignored')
    BY <1>1, <1>2, <2>1, <2>2 DEF Ownership
  <2>6. \A u \in Threads : pc'[u] # "idle" => \A v \in Threads \ {u} : obj'[v] # obj'[u]
    BY <1>1, <1>2, <1>9, <1>10, <2>1, <2>2 DEF Ownership
  <2> QED BY <2>3, <2>4, <2>5, <2>6 DEF Ownership
<1>8. CASE ~ (MallocCall(t) \/ MallocReturn(t) \/ FreeCall(t) \/ FreeIgnored(t) \/ Unmap(t))
  <2>1. UNCHANGED <<mapped, live, ignored, obj>>
    BY <1>8 DEF Malloc, Free, Find, Acquire, InsertLink, InsertCount, FindFirst, FindCount,
                FindMatch, FindNext, FindFreed, FindEnd, FreeRejected, EraseUnlink,
                EraseRelease, EraseCount, held
  <2>2. pc'[t] = "idle" <=> pc[t] = "idle"
    BY <1>1, <2>1 DEF Locals
  <2> QED BY <1>1, <1>2, <2>1, <2>2, OwnershipQuiet
<1> QED BY <1>3, <1>4, <1>5, <1>6, <1>7, <1>8

\* Statuses and entries, when no chunk is taken, given back or written.
LEMMA EntriesQuiet ==
  ASSUME StatusesOwned, EntriesOwned, Listed, Described,
         UNCHANGED <<mapped, inUse, key, value, start, obj, status>>,
         \A u \in Threads : /\ pc'[u] \in Unlisted <=> pc[u] \in Unlisted
                            /\ pc'[u] \in WithEntry <=> pc[u] \in WithEntry
                            /\ pc'[u] \in {"count", "describe"} <=> pc[u] \in {"count", "describe"}
                            /\ pc'[u] \in EraseSteps => pc[u] \in EraseSteps
  PROVE  StatusesOwned' /\ EntriesOwned' /\ Listed' /\ Described'
<1>1. Used' = Used
  BY DEF Used
<1>2. StatusesOwned'
  BY DEF StatusesOwned
<1>3. EntriesOwned'
  BY <1>1 DEF EntriesOwned
<1>4. Listed'
  BY <1>1 DEF Listed
<1>5. Described'
  BY <1>1 DEF Described
<1> QED BY <1>2, <1>3, <1>4, <1>5

\* What the steps below use of the invariant.
LEMMA Facts ==
  ASSUME TableInv
  PROVE  /\ TypeOK /\ Locals /\ Ownership /\ StatusesOwned /\ EntriesOwned /\ Listed
         /\ EntryAtHand /\ Described
         /\ \A u, v \in Threads : u # v /\ obj[u] = obj[v] => obj[u] = NULL
         /\ \A u, v \in Threads : u # v /\ status[u] = status[v] => status[u] = NULL
         /\ \A e \in Used : /\ key[e] # NULL /\ key[e] \in mapped
                            /\ value[e] # NULL /\ value[e] \in inUse \cap Statuses
                            /\ e \in Nodes /\ e \in Entries
         /\ \A u \in Threads : pc[u] = "idle" => obj[u] = NULL /\ status[u] = NULL
<1>1. \A u, v \in Threads : u # v /\ obj[u] = obj[v] => obj[u] = NULL
  BY DEF TableInv, Ownership, Locals
<1>2. \A u, v \in Threads : u # v /\ status[u] = status[v] => status[u] = NULL
  BY DEF TableInv, StatusesOwned
<1>3. \A e \in Used : key[e] # NULL /\ value[e] # NULL
  <2>1. NULL \notin mapped /\ NULL \notin Statuses
    BY Basics DEF TableInv, TypeOK
  <2> QED BY <2>1 DEF TableInv, EntriesOwned
<1>4. \A e \in Used : key[e] \in mapped /\ value[e] \in inUse \cap Statuses
  BY DEF TableInv, EntriesOwned
<1>5. \A u \in Threads : pc[u] = "idle" => obj[u] = NULL /\ status[u] = NULL
  BY DEF TableInv, Locals
<1> QED BY <1>1, <1>2, <1>3, <1>4, <1>5 DEF TableInv, Used, Nodes

\* A mapping and a status chunk of a new object belong to nobody else.
LEMMA MallocCallEntries ==
  ASSUME TableInv, NEW t \in Threads, MallocCall(t)
  PROVE  StatusesOwned' /\ EntriesOwned' /\ Listed' /\ Described'
<1>1. PICK a \in Addresses \ mapped, s \in Statuses \ inUse :
        /\ mapped' = mapped \cup {a}
        /\ inUse' = inUse \cup {s}
        /\ obj' = [obj EXCEPT ![t] = a]
        /\ status' = [status EXCEPT ![t] = s]
  BY DEF MallocCall
<1>2. UNCHANGED <<key, value, start>> /\ pc[t] = "idle"
  BY DEF MallocCall
<1>3. \A u \in Threads \ {t} : pc'[u] = pc[u] /\ obj'[u] = obj[u] /\ status'[u] = status[u]
  BY Facts, OthersUntouched DEF Malloc
<1>4. obj'[t] = a /\ status'[t] = s /\ pc'[t] = "lock"
  BY <1>1, Facts DEF MallocCall, TypeOK, Goto
<1>5. Used' = Used
  BY <1>1, Basics DEF Used
<1>6. \A e \in Used : key[e] # a /\ value[e] # s
  BY <1>1, Facts
<1>7. StatusesOwned'
  BY <1>1, <1>3, <1>4, Facts DEF StatusesOwned
<1>8. EntriesOwned'
  <2>1. ASSUME NEW e \in Used
        PROVE  /\ key'[e] \in mapped' /\ value'[e] \in inUse' \cap Statuses
               /\ \A f \in Used \ {e} : key'[f] # key'[e] /\ value'[f] # value'[e]
    BY <1>1, <1>2, Facts DEF EntriesOwned
  <2>2. ASSUME NEW e \in Used, NEW u \in Threads \ {t}
        PROVE  /\ key'[e] = obj'[u] => pc'[u] \notin Unlisted
               /\ status'[u] = value'[e] <=> key'[e] = obj'[u] /\ pc'[u] \in WithEntry
    BY <1>2, <1>3, Facts DEF EntriesOwned
  <2>3. ASSUME NEW e \in Used PROVE key'[e] # obj'[t] /\ status'[t] # value'[e]
    BY <1>2, <1>4, <1>6
  <2> QED BY <1>5, <2>1, <2>2, <2>3 DEF EntriesOwned
<1>9. Listed'
  BY <1>1, <1>2, <1>3, <1>4, <1>5, Facts DEF Listed, Unlisted
<1>10. Described'
  <2>1. ASSUME NEW e \in Used
        PROVE  \/ start'[value'[e]] = key'[e]
               \/ \E u \in Threads : pc'[u] \in {"count", "describe"} /\ obj'[u] = key'[e]
    BY <1>2, <1>3, Facts DEF Described
  <2>2. ASSUME NEW u \in Threads, pc'[u] \in EraseSteps PROVE start'[status'[u]] = obj'[u]
    BY <1>2, <1>3, <1>4, <2>2, Facts DEF Described, EraseSteps
  <2> QED BY <1>5, <2>1, <2>2 DEF Described
<1> QED BY <1>7, <1>8, <1>9, <1>10

\* The entry that insert links was free, and describes the object at hand.
LEMMA InsertLinkEntries ==
  ASSUME TableInv, NEW t \in Threads, InsertLink(t)
  PROVE  StatusesOwned' /\ EntriesOwned' /\ Listed' /\ Described' /\ EntryAtHand'
<1>1. PICK e \in Entries \ inUse :
        /\ inUse' = inUse \cup {e}
        /\ key' = [key EXCEPT ![e] = obj[t]]
        /\ value' = [value EXCEPT ![e] = status[t]]
        /\ node' = [node EXCEPT ![t] = e]
  BY DEF InsertLink
<1>2. UNCHANGED <<mapped, start, obj, status>> /\ pc[t] = "link"
  BY DEF InsertLink
<1>3. \A u \in Threads \ {t} : pc'[u] = pc[u] /\ node'[u] = node[u]
  BY Facts, OthersUntouched DEF Malloc
<1>4. pc'[t] = "count" /\ node'[t] = e
  BY <1>1, Facts DEF InsertLink, TypeOK, Goto
<1>5. e \in Nodes /\ e \notin Buckets /\ e \notin Used /\ Used' = Used \cup {e}
  BY <1>1, Basics DEF Used, Nodes
<1>6. /\ key'[e] = obj[t] /\ value'[e] = status[t]
      /\ \A f \in Nodes \ {e} : key'[f] = key[f] /\ value'[f] = value[f]
  BY <1>1, <1>5, Facts DEF TypeOK
<1>7. \A f \in Used : f # e /\ f \in Nodes /\ key'[f] = key[f] /\ value'[f] = value[f]
  BY <1>5, <1>6, Facts
<1>8. obj[t] \in mapped /\ status[t] \in inUse \cap Statuses /\ status[t] # NULL /\ obj[t] # NULL
  <2>1. status[t] # NULL /\ obj[t] # NULL
    BY <1>2, Facts DEF Locals, FindSteps
  <2>2. obj[t] \in mapped
    BY <1>2, Facts DEF Ownership
  <2>3. status[t] \in inUse \cap Statuses
    BY <2>1, Facts DEF StatusesOwned, TypeOK
  <2> QED BY <2>1, <2>2, <2>3
<1>9. \A f \in Used : key[f] # obj[t] /\ value[f] # status[t]
  <2>1. pc[t] \in Unlisted /\ pc[t] \notin WithEntry
    BY <1>2 DEF Unlisted, WithEntry
  <2> QED BY <2>1, Facts DEF EntriesOwned
<1>10. StatusesOwned'
  BY <1>1, <1>2, Facts DEF StatusesOwned
<1>11. EntriesOwned'
  <2>1. ASSUME NEW f \in Used'
        PROVE  /\ key'[f] \in mapped' /\ value'[f] \in inUse' \cap Statuses
               /\ \A g \in Used' \ {f} : key'[g] # key'[f] /\ value'[g] # value'[f]
    BY <1>1, <1>2, <1>5, <1>6, <1>7, <1>8, <1>9, Facts DEF EntriesOwned
  <2>2. ASSUME NEW u \in Threads
        PROVE  /\ key'[e] = obj'[u] => pc'[u] \notin Unlisted
               /\ status'[u] = value'[e] <=> key'[e] = obj'[u] /\ pc'[u] \in WithEntry
    <3>1. CASE u = t
      <4>1. key'[e] = obj'[u] /\ status'[u] = value'[e]
        BY <1>2, <1>6, <3>1
      <4>2. pc'[u] \notin Unlisted /\ pc'[u] \in WithEntry
        BY <1>4, <3>1 DEF Unlisted, WithEntry
      <4> QED BY <4>1, <4>2
    <3>2. CASE u # t
      <4>1. pc[t] # "idle"
        BY <1>2
      <4>2. obj[u] # obj[t] /\ status[u] # status[t]
        BY <1>8, <3>2, <4>1, Facts DEF Ownership, StatusesOwned
      <4>3. key'[e] # obj'[u] /\ status'[u] # value'[e]
        BY <1>2, <1>6, <4>2
      <4> QED BY <4>3
    <3> QED BY <3>1, <3>2
  <2>3. ASSUME NEW f \in Used, NEW u \in Threads
        PROVE  /\ key'[f] = obj'[u] => pc'[u] \notin Unlisted
               /\ status'[u] = value'[f] <=> key'[f] = obj'[u] /\ pc'[u] \in WithEntry
    BY <1>2, <1>3, <1>7, <1>9, Facts DEF EntriesOwned
  <2> QED BY <1>5, <2>1, <2>2, <2>3 DEF EntriesOwned
<1>12. Listed'
  <2> SUFFICES ASSUME NEW a \in mapped
               PROVE  \/ \E u \in Threads : obj'[u] = a /\ pc'[u] \in Unlisted
                      \/ \E f \in Used' : key'[f] = a
    BY <1>2 DEF Listed
  <2>1. CASE a = obj[t]
    BY <1>5, <1>6, <2>1
  <2>2. CASE a # obj[t]
    BY <1>2, <1>3, <1>5, <1>7, <2>2, Facts DEF Listed
  <2> QED BY <2>1, <2>2
<1>13. Described'
  <2>1. ASSUME NEW f \in Used
        PROVE  \/ start'[value'[f]] = key'[f]
               \/ \E u \in Threads : pc'[u] \in {"count", "describe"} /\ obj'[u] = key'[f]
    BY <1>2, <1>3, <1>7, <1>9, Facts DEF Described
  <2>2. ASSUME NEW u \in Threads, pc'[u] \in EraseSteps PROVE start'[status'[u]] = obj'[u]
    BY <1>2, <1>3, <1>4, <2>2, Facts DEF Described, EraseSteps
  <2> QED BY <1>2, <1>4, <1>5, <1>6, <2>1, <2>2 DEF Described
<1>14. EntryAtHand'
  <2>1. ASSUME NEW b \in Buckets PROVE key'[b] = NULL
    BY <1>5, <1>6, Facts DEF EntryAtHand, Nodes
  <2>2. ASSUME NEW u \in Threads, pc'[u] \in {"count", "release"}
        PROVE  node'[u] \in Used' /\ key'[node'[u]] = obj'[u]
    BY <1>2, <1>3, <1>4, <1>5, <1>6, <1>7, <2>2, Facts DEF EntryAtHand
  <2> QED BY <2>1, <2>2 DEF EntryAtHand
<1> QED BY <1>10, <1>11, <1>12, <1>13, <1>14

\* The end of a call, for its thread.
LEMMA Left ==
  ASSUME TypeOK, NEW t \in Threads, Leave(t)
  PROVE  pc'[t] = "idle" /\ obj'[t] = NULL /\ status'[t] = NULL
BY DEF TypeOK, Leave, Goto

\* What malloc fills in when the entry is visible is its own status.
LEMMA MallocReturnEntries ==
  ASSUME TableInv, NEW t \in Threads, MallocReturn(t)
  PROVE  StatusesOwned' /\ EntriesOwned' /\ Listed' /\ Described'
<1>1. UNCHANGED <<mapped, inUse, key, value>> /\ pc[t] = "describe"
  BY DEF MallocReturn
<1>2. \A u \in Threads \ {t} : pc'[u] = pc[u] /\ obj'[u] = obj[u] /\ status'[u] = status[u]
  BY Facts, OthersUntouched DEF Malloc
<1>3. pc'[t] = "idle" /\ obj'[t] = NULL /\ status'[t] = NULL
  BY Facts, Left DEF MallocReturn
<1>4. Used' = Used
  BY <1>1 DEF Used
<1>5. status[t] # NULL /\ status[t] \in Statuses
  BY <1>1, Facts DEF Locals, FindSteps, TypeOK
<1>6. start'[status[t]] = obj[t] /\ \A s \in Statuses \ {status[t]} : start'[s] = start[s]
  BY <1>5, Facts DEF MallocReturn, TypeOK
<1>7. StatusesOwned'
  BY <1>1, <1>2, <1>3, Facts DEF StatusesOwned
<1>8. EntriesOwned'
  <2>1. ASSUME NEW e \in Used
        PROVE  /\ key'[e] \in mapped' /\ value'[e] \in inUse' \cap Statuses
               /\ \A f \in Used \ {e} : key'[f] # key'[e] /\ value'[f] # value'[e]
    BY <1>1, Facts DEF EntriesOwned
  <2>2. ASSUME NEW e \in Used, NEW u \in Threads \ {t}
        PROVE  /\ key'[e] = obj'[u] => pc'[u] \notin Unlisted
               /\ status'[u] = value'[e] <=> key'[e] = obj'[u] /\ pc'[u] \in WithEntry
    BY <1>1, <1>2, Facts DEF EntriesOwned
  <2>3. ASSUME NEW e \in Used PROVE key'[e] # obj'[t] /\ status'[t] # value'[e]
    BY <1>1, <1>3, Facts
  <2> QED BY <1>4, <2>1, <2>2, <2>3 DEF EntriesOwned
<1>9. Listed'
  <2>1. pc[t] \notin Unlisted
    BY <1>1 DEF Unlisted
  <2> QED BY <1>1, <1>2, <1>4, <2>1, Facts DEF Listed
<1>10. Described'
  <2>1. ASSUME NEW e \in Used
        PROVE  \/ start'[value'[e]] = key'[e]
               \/ \E u \in Threads : pc'[u] \in {"count", "describe"} /\ obj'[u] = key'[e]
    <3>1. CASE value[e] = status[t]
      <4>1. key[e] = obj[t]
        BY <3>1, Facts DEF EntriesOwned
      <4> QED BY <1>1, <1>6, <3>1, <4>1
    <3>2. CASE value[e] # status[t]
      <4>1. start'[value'[e]] = start[value[e]]
        BY <1>1, <1>6, <3>2, Facts
      <4>2. obj[t] # key[e]
        BY <1>1, <3>2, Facts DEF EntriesOwned, WithEntry
      <4> QED BY <1>1, <1>2, <4>1, <4>2, Facts DEF Described
    <3> QED BY <3>1, <3>2
  <2>2. ASSUME NEW u \in Threads, pc'[u] \in EraseSteps PROVE start'[status'[u]] = obj'[u]
    <3>1. u # t /\ pc[u] \in EraseSteps
      BY <1>2, <1>3, <2>2 DEF EraseSteps
    <3>2. status[u] # NULL
      BY <3>1, Facts DEF Locals, EraseSteps, FindSteps
    <3>3. status[u] \in Statuses /\ status[u] # status[t]
      BY <3>1, <3>2, Facts DEF TypeOK
    <3> QED BY <1>2, <1>6, <3>1, <3>3, Facts DEF Described
  <2> QED BY <1>4, <2>1, <2>2 DEF Described
<1> QED BY <1>7, <1>8, <1>9, <1>10

\* find hands out the status of the object that is being freed.
LEMMA FindMatchEntries ==
  ASSUME TableInv, NEW t \in Threads, FindMatch(t)
  PROVE  StatusesOwned' /\ EntriesOwned' /\ Listed' /\ Described'
<1>1. UNCHANGED <<mapped, inUse, key, value, start, obj>> /\ pc[t] = "walk"
  BY DEF FindMatch, chunks
<1>2. \A u \in Threads \ {t} : pc'[u] = pc[u] /\ status'[u] = status[u]
  BY Facts, OthersUntouched DEF Free, Find
<1>3. Used' = Used
  BY <1>1 DEF Used
<1>4. CASE caller[t] = "isLargeObject"
  <2>1. status' = status /\ pc'[t] = "first"
    BY <1>4, Facts DEF FindMatch, Found, Goto, TypeOK
  <2>2. ASSUME NEW u \in Threads
        PROVE  /\ pc'[u] \in Unlisted <=> pc[u] \in Unlisted
               /\ pc'[u] \in WithEntry <=> pc[u] \in WithEntry
               /\ pc'[u] \in {"count", "describe"} <=> pc[u] \in {"count", "describe"}
               /\ pc'[u] \in EraseSteps => pc[u] \in EraseSteps
    BY <1>1, <1>2, <2>1 DEF Unlisted, WithEntry, EraseSteps
  <2> QED BY <1>1, <2>1, <2>2, Facts, EntriesQuiet
<1>5. CASE caller[t] # "isLargeObject"
  <2>1. PICK n \in Used : n = node[t] /\ key[n] = obj[t]
    BY <1>1, Facts, MatchesUsed DEF FindMatch
  <2>2. status'[t] = value[n] /\ pc'[t] = "erase lock"
    BY <1>5, <2>1, Facts DEF FindMatch, Found, Goto, TypeOK
  <2>3. \A u \in Threads \ {t} : status[u] # value[n]
    BY <2>1, Facts DEF EntriesOwned
  <2>4. StatusesOwned'
    <3>1. value[n] \in inUse
      BY <2>1, Facts
    <3>2. ASSUME NEW u \in Threads, status'[u] # NULL PROVE status'[u] \in inUse
      BY <1>2, <2>2, <3>1, <3>2, Facts DEF StatusesOwned
    <3>3. ASSUME NEW u, NEW v \in Threads \ {u}, u \in Threads, status'[u] # NULL
          PROVE  status'[v] # status'[u]
      BY <1>2, <2>2, <2>3, <3>3, Facts
    <3> QED BY <1>1, <3>2, <3>3 DEF StatusesOwned
  <2>5. EntriesOwned'
    <3>1. ASSUME NEW e \in Used
          PROVE  /\ key'[e] \in mapped' /\ value'[e] \in inUse' \cap Statuses
                 /\ \A f \in Used \ {e} : key'[f] # key'[e] /\ value'[f] # value'[e]
      BY <1>1, Facts DEF EntriesOwned
    <3>2. ASSUME NEW e \in Used, NEW u \in Threads \ {t}
          PROVE  /\ key'[e] = obj'[u] => pc'[u] \notin Unlisted
                 /\ status'[u] = value'[e] <=> key'[e] = obj'[u] /\ pc'[u] \in WithEntry
      BY <1>1, <1>2, Facts DEF EntriesOwned
    <3>3. ASSUME NEW e \in Used
          PROVE  /\ pc'[t] \notin Unlisted
                 /\ status'[t] = value'[e] <=> key'[e] = obj'[t] /\ pc'[t] \in WithEntry
      <4>1. pc'[t] \notin Unlisted /\ pc'[t] \in WithEntry
        BY <2>2 DEF Unlisted, WithEntry
      <4>2. value[n] = value[e] <=> n = e
        BY <2>1, Facts DEF EntriesOwned
      <4>3. key[e] = obj[t] <=> n = e
        BY <2>1, Facts DEF EntriesOwned
      <4> QED BY <1>1, <2>2, <4>1, <4>2, <4>3
    <3> QED BY <1>3, <3>1, <3>2, <3>3 DEF EntriesOwned
  <2>6. Listed'
    <3>1. pc[t] \notin Unlisted
      BY <1>1 DEF Unlisted
    <3> QED BY <1>1, <1>2, <1>3, <3>1, Facts DEF Listed
  <2>7. Described'
    <3>1. ASSUME NEW e \in Used
          PROVE  \/ start'[value'[e]] = key'[e]
                 \/ \E u \in Threads : pc'[u] \in {"count", "describe"} /\ obj'[u] = key'[e]
      BY <1>1, <1>2, Facts DEF Described
    <3>2. start[value[n]] = obj[t]
      BY <1>1, <2>1, Facts DEF Described
    <3>3. ASSUME NEW u \in Threads, pc'[u] \in EraseSteps PROVE start'[status'[u]] = obj'[u]
      BY <1>1, <1>2, <2>2, <3>2, <3>3, Facts DEF Described
    <3> QED BY <1>3, <3>1, <3>3 DEF Described
  <2> QED BY <2>4, <2>5, <2>6, <2>7
<1> QED BY <1>4, <1>5

\* A free begins, or comes to nothing.
LEMMA FreeEntries ==
  ASSUME TableInv, NEW t \in Threads, FreeCall(t) \/ FreeIgnored(t)
  PROVE  StatusesOwned' /\ EntriesOwned' /\ Listed' /\ Described'
<1>1. UNCHANGED <<mapped, inUse, key, value, start>> /\ pc[t] \in {"idle", "absent"}
  BY DEF FreeCall, FreeIgnored, chunks
<1>2. \A u \in Threads \ {t} : pc'[u] = pc[u] /\ obj'[u] = obj[u] /\ status'[u] = status[u]
  BY Facts, OthersUntouched DEF Free
<1>3. status'[t] = NULL /\ pc'[t] \in {"idle", "first"}
  BY Facts, Left DEF FreeCall, FreeIgnored, Goto, TypeOK
<1>4. Used' = Used
  BY <1>1 DEF Used
<1>5. StatusesOwned'
  BY <1>1, <1>2, <1>3, Facts DEF StatusesOwned
<1>6. EntriesOwned'
  <2>1. ASSUME NEW e \in Used
        PROVE  /\ key'[e] \in mapped' /\ value'[e] \in inUse' \cap Statuses
               /\ \A f \in Used \ {e} : key'[f] # key'[e] /\ value'[f] # value'[e]
    BY <1>1, Facts DEF EntriesOwned
  <2>2. ASSUME NEW e \in Used, NEW u \in Threads \ {t}
        PROVE  /\ key'[e] = obj'[u] => pc'[u] \notin Unlisted
               /\ status'[u] = value'[e] <=> key'[e] = obj'[u] /\ pc'[u] \in WithEntry
    BY <1>1, <1>2, Facts DEF EntriesOwned
  <2>3. ASSUME NEW e \in Used
        PROVE  pc'[t] \notin Unlisted /\ pc'[t] \notin WithEntry /\ status'[t] # value'[e]
    BY <1>1, <1>3, Facts DEF Unlisted, WithEntry
  <2> QED BY <1>4, <2>1, <2>2, <2>3 DEF EntriesOwned
<1>7. Listed'
  <2>1. pc[t] \notin Unlisted
    BY <1>1 DEF Unlisted
  <2> QED BY <1>1, <1>2, <1>4, <2>1, Facts DEF Listed
<1>8. Described'
  <2>1. ASSUME NEW e \in Used
        PROVE  \/ start'[value'[e]] = key'[e]
               \/ \E u \in Threads : pc'[u] \in {"count", "describe"} /\ obj'[u] = key'[e]
    BY <1>1, <1>2, Facts DEF Described
  <2>2. ASSUME NEW u \in Threads, pc'[u] \in EraseSteps PROVE start'[status'[u]] = obj'[u]
    BY <1>1, <1>2, <1>3, <2>2, Facts DEF Described, EraseSteps
  <2> QED BY <1>4, <2>1, <2>2 DEF Described
<1> QED BY <1>5, <1>6, <1>7, <1>8

\* erase gives back the entry it has unlinked, and no other.
LEMMA EraseReleaseEntries ==
  ASSUME TableInv, NEW t \in Threads, EraseRelease(t)
  PROVE  StatusesOwned' /\ EntriesOwned' /\ Listed' /\ Described'
<1>1. UNCHANGED <<mapped, key, value, start, obj, status>> /\ pc[t] = "release"
  BY DEF EraseRelease
<1>2. \A u \in Threads \ {t} : pc'[u] = pc[u]
  BY Facts, OthersUntouched DEF Free
<1>3. pc'[t] = "discount"
  BY Facts DEF EraseRelease, Goto, TypeOK
<1>4. node[t] \in Used /\ key[node[t]] = obj[t] /\ inUse' = inUse \ {node[t]}
  BY <1>1, Facts DEF EraseRelease, EntryAtHand
<1>5. Used' = Used \ {node[t]}
  BY <1>4 DEF Used
<1>6. \A s \in inUse \cap Statuses : s \in inUse'
  BY <1>4, Facts, Basics
<1>7. \A f \in Used' : f \in Used /\ key[f] # obj[t] /\ value[f] # status[t]
  BY <1>4, <1>5, Facts DEF EntriesOwned
<1>8. StatusesOwned'
  BY <1>1, <1>6, Facts DEF StatusesOwned, TypeOK
<1>9. EntriesOwned'
  <2>1. ASSUME NEW e \in Used'
        PROVE  /\ key'[e] \in mapped' /\ value'[e] \in inUse' \cap Statuses
               /\ \A f \in Used' \ {e} : key'[f] # key'[e] /\ value'[f] # value'[e]
    BY <1>1, <1>6, <1>7, Facts DEF EntriesOwned
  <2>2. ASSUME NEW e \in Used', NEW u \in Threads
        PROVE  /\ key'[e] = obj'[u] => pc'[u] \notin Unlisted
               /\ status'[u] = value'[e] <=> key'[e] = obj'[u] /\ pc'[u] \in WithEntry
    BY <1>1, <1>2, <1>7, Facts DEF EntriesOwned
  <2> QED BY <2>1, <2>2 DEF EntriesOwned
<1>10. Listed'
  <2> SUFFICES ASSUME NEW a \in mapped
               PROVE  \/ \E u \in Threads : obj[u] = a /\ pc'[u] \in Unlisted
                      \/ \E f \in Used' : key[f] = a
    BY <1>1 DEF Listed
  <2>1. CASE a = obj[t]
    BY <1>3, <2>1 DEF Unlisted
  <2>2. CASE a # obj[t]
    BY <1>2, <1>4, <1>5, <2>2, Facts DEF Listed
  <2> QED BY <2>1, <2>2
<1>11. Described'
  <2>1. ASSUME NEW e \in Used'
        PROVE  \/ start'[value'[e]] = key'[e]
               \/ \E u \in Threads : pc'[u] \in {"count", "describe"} /\ obj'[u] = key'[e]
    BY <1>1, <1>2, <1>7, Facts DEF Described
  <2>2. ASSUME NEW u \in Threads, pc'[u] \in EraseSteps PROVE start'[status'[u]] = obj'[u]
    BY <1>1, <1>2, <1>3, <2>2, Facts DEF Described, EraseSteps
  <2> QED BY <2>1, <2>2 DEF Described
<1> QED BY <1>8, <1>9, <1>10, <1>11

\* What is unmapped has no entry any more.
LEMMA UnmapEntries ==
  ASSUME TableInv, NEW t \in Threads, Unmap(t)
  PROVE  StatusesOwned' /\ EntriesOwned' /\ Listed' /\ Described'
<1>1. UNCHANGED <<key, value, start>> /\ pc[t] = "unmap"
  BY DEF Unmap
<1>2. \A u \in Threads \ {t} : pc'[u] = pc[u] /\ obj'[u] = obj[u] /\ status'[u] = status[u]
  BY Facts, OthersUntouched DEF Free
<1>3. pc'[t] = "idle" /\ obj'[t] = NULL /\ status'[t] = NULL
  BY Facts, Left DEF Unmap
<1>4. mapped' = mapped \ {obj[t]} /\ inUse' = inUse \ {status[t]}
  BY <1>1, Facts DEF Unmap, Described, EraseSteps
<1>5. status[t] \in Statuses
  BY <1>1, Facts DEF Locals, FindSteps, TypeOK
<1>6. Used' = Used
  BY <1>4, <1>5, Basics DEF Used
<1>7. \A f \in Used : key[f] # obj[t] /\ value[f] # status[t]
  <2>1. pc[t] \in Unlisted /\ pc[t] \notin WithEntry
    BY <1>1 DEF Unlisted, WithEntry
  <2> QED BY <2>1, Facts DEF EntriesOwned
<1>8. StatusesOwned'
  BY <1>2, <1>3, <1>4, Facts DEF StatusesOwned
<1>9. EntriesOwned'
  <2>1. ASSUME NEW e \in Used
        PROVE  /\ key'[e] \in mapped' /\ value'[e] \in inUse' \cap Statuses
               /\ \A f \in Used \ {e} : key'[f] # key'[e] /\ value'[f] # value'[e]
    BY <1>1, <1>4, <1>7, Facts DEF EntriesOwned
  <2>2. ASSUME NEW e \in Used, NEW u \in Threads \ {t}
        PROVE  /\ key'[e] = obj'[u] => pc'[u] \notin Unlisted
               /\ status'[u] = value'[e] <=> key'[e] = obj'[u] /\ pc'[u] \in WithEntry
    BY <1>1, <1>2, Facts DEF EntriesOwned
  <2>3. ASSUME NEW e \in Used PROVE key'[e] # obj'[t] /\ status'[t] # value'[e]
    BY <1>1, <1>3, Facts
  <2> QED BY <1>6, <2>1, <2>2, <2>3 DEF EntriesOwned
<1>10. Listed'
  BY <1>1, <1>2, <1>4, <1>6, Facts DEF Listed
<1>11. Described'
  <2>1. ASSUME NEW e \in Used
        PROVE  \/ start'[value'[e]] = key'[e]
               \/ \E u \in Threads : pc'[u] \in {"count", "describe"} /\ obj'[u] = key'[e]
    BY <1>1, <1>2, Facts DEF Described
  <2>2. ASSUME NEW u \in Threads, pc'[u] \in EraseSteps PROVE start'[status'[u]] = obj'[u]
    BY <1>1, <1>2, <1>3, <2>2, Facts DEF Described, EraseSteps
  <2> QED BY <1>6, <2>1, <2>2 DEF Described
<1> QED BY <1>8, <1>9, <1>10, <1>11

\* Every step keeps the relation of objects, entries and statuses.
LEMMA EntriesStep ==
  ASSUME TableInv, NEW t \in Threads, Malloc(t) \/ Free(t)
  PROVE  StatusesOwned' /\ EntriesOwned' /\ Listed' /\ Described'
<1>1. CASE MallocCall(t) \/ InsertLink(t) \/ MallocReturn(t)
  BY <1>1, MallocCallEntries, InsertLinkEntries, MallocReturnEntries
<1>2. CASE FindMatch(t) \/ FreeCall(t) \/ FreeIgnored(t)
  BY <1>2, FindMatchEntries, FreeEntries
<1>3. CASE EraseRelease(t) \/ Unmap(t)
  BY <1>3, EraseReleaseEntries, UnmapEntries
<1>4. CASE ~ (\/ MallocCall(t) \/ InsertLink(t) \/ MallocReturn(t) \/ FindMatch(t)
              \/ FreeCall(t) \/ FreeIgnored(t) \/ EraseRelease(t) \/ Unmap(t))
  <2>1. UNCHANGED <<mapped, inUse, key, value, start, obj, status>>
    BY <1>4 DEF Malloc, Free, Find, Acquire, InsertCount, FindFirst, FindCount, FindNext,
                FindFreed, FindEnd, FreeRejected, EraseUnlink, EraseCount, chunks
  <2>2. /\ pc'[t] \in Unlisted <=> pc[t] \in Unlisted
        /\ pc'[t] \in WithEntry <=> pc[t] \in WithEntry
        /\ pc'[t] \in {"count", "describe"} <=> pc[t] \in {"count", "describe"}
        /\ pc'[t] \in EraseSteps => pc[t] \in EraseSteps
    <3> USE Facts DEF Unlisted, WithEntry, EraseSteps, Goto, TypeOK
    <3>1. CASE Acquire(t, "lock", "link") \/ Acquire(t, "erase lock", "unlink")
      BY <3>1 DEF Acquire
    <3>2. CASE InsertCount(t)
      BY <3>2 DEF InsertCount
    <3>3. CASE FindFirst(t) \/ FindCount(t) \/ FindNext(t) \/ FindFreed(t) \/ FindEnd(t)
      BY <3>3 DEF FindFirst, FindCount, FindNext, FindFreed, FindEnd
    <3>4. CASE FreeRejected(t)
      BY <3>4 DEF FreeRejected
    <3>5. CASE EraseUnlink(t) \/ EraseCount(t)
      BY <3>5 DEF EraseUnlink, EraseCount
    <3> QED BY <1>4, <3>1, <3>2, <3>3, <3>4, <3>5 DEF Malloc, Free, Find
  <2>3. \A u \in Threads \ {t} : pc'[u] = pc[u]
    BY Facts, OthersUntouched
  <2> QED BY <2>1, <2>2, <2>3, Facts, EntriesQuiet
<1> QED BY <1>1, <1>2, <1>3, <1>4

\* Every step keeps the entry at hand of a thread between its two updates of a bucket.
LEMMA EntryAtHandStep ==
  ASSUME TableInv, NEW t \in Threads, Malloc(t) \/ Free(t)
  PROVE  EntryAtHand'
<1>1. CASE InsertLink(t)
  BY <1>1, InsertLinkEntries
<1>2. CASE ~ InsertLink(t)
  <2>1. key' = key
    BY <1>2 DEF Malloc, Free, Find, MallocCall, Acquire, InsertCount, MallocReturn, FindFirst,
                FindCount, FindMatch, FindNext, FindFreed, FindEnd, FreeCall, FreeIgnored,
                FreeRejected, EraseUnlink, EraseRelease, EraseCount, Unmap, chunks
  <2>2. \A u \in Threads \ {t} : pc'[u] = pc[u] /\ obj'[u] = obj[u] /\ node'[u] = node[u]
    BY Facts, OthersUntouched
  <2>3. ASSUME NEW u \in Threads \ {t}, pc[u] \in {"count", "release"} PROVE node[u] \in Used'
    <3>1. node[u] \in Used /\ key[node[u]] = obj[u]
      BY <2>3, Facts DEF EntryAtHand
    <3>2. CASE EraseRelease(t)
      <4>1. pc[t] \in Critical /\ pc[u] \in Critical
        BY <2>3, <3>2 DEF EraseRelease, Critical
      <4> QED BY <4>1, Alone DEF TableInv
    <3>3. CASE Unmap(t)
      <4>1. inUse' = inUse \ {status[t]} /\ status[t] \in Statuses \cup {NULL}
        BY <3>3, Facts DEF Unmap, TypeOK
      <4> QED BY <3>1, <4>1, Basics DEF Used
    <3>4. CASE ~ (EraseRelease(t) \/ Unmap(t))
      <4>1. inUse \subseteq inUse'
        BY <1>2, <3>4 DEF Malloc, Free, Find, MallocCall, Acquire, InsertCount, MallocReturn,
                FindFirst, FindCount, FindMatch, FindNext, FindFreed, FindEnd, FreeCall,
                FreeIgnored, FreeRejected, EraseUnlink, EraseCount, chunks
      <4> QED BY <3>1, <4>1 DEF Used
    <3> QED BY <3>2, <3>3, <3>4
  <2>4. ASSUME pc'[t] \in {"count", "release"}
        PROVE  node'[t] \in Used' /\ key[node'[t]] = obj'[t]
    <3>1. CASE EraseUnlink(t)
      <4>1. PICK e \in EntriesOf(obj[t]) : node' = [node EXCEPT ![t] = e]
        BY <3>1 DEF EraseUnlink
      <4>2. e \in Used /\ key[e] = obj[t]
        BY <3>1, <4>1, UnlinksOwn DEF EraseUnlink
      <4>3. node'[t] = e /\ obj' = obj /\ inUse' = inUse
        BY <3>1, <4>1, Facts DEF EraseUnlink, TypeOK, chunks
      <4> QED BY <4>2, <4>3 DEF Used
    <3>2. CASE ~ EraseUnlink(t)
      <4>1. \/ pc' = pc /\ (FreeRejected(t) \/ FindNext(t) \/ FindFreed(t))
            \/ pc'[t] \notin {"count", "release"}
        BY <1>2, <3>2, Facts DEF TypeOK, Goto, Leave, Found, Malloc, Free, Find,
                MallocCall, Acquire, InsertCount, MallocReturn,
                FindFirst, FindCount, FindMatch, FindNext, FindFreed, FindEnd, FreeCall,
                FreeIgnored, FreeRejected, EraseRelease, EraseCount, Unmap
      <4> QED BY <2>4, <4>1 DEF FreeRejected, FindNext, FindFreed
    <3> QED BY <3>1, <3>2
  <2>5. ASSUME NEW u \in Threads \ {t}, pc'[u] \in {"count", "release"}
        PROVE  node'[u] \in Used' /\ key[node'[u]] = obj'[u]
    BY <2>2, <2>3, <2>5, Facts DEF EntryAtHand
  <2> QED BY <2>1, <2>4, <2>5, Facts DEF EntryAtHand
<1> QED BY <1>1, <1>2

\* The steps between the two halves of a change of a list.
Halfway == {"count", "release", "discount"}

\* A bucket that a step does not touch.
LEMMA BucketUntouched ==
  ASSUME NEW b \in Buckets, Links(b), OneRing(b), Counted(b),
         Linked(b)' = Linked(b), count'[b] = count[b],
         \A n \in Ring(b) : next'[n] = next[n] /\ prev'[n] = prev[n],
         \A u \in Threads :
           \/ pc'[u] = pc[u] /\ obj'[u] = obj[u] /\ node'[u] = node[u]
           \/ pc[u] = "release" /\ pc'[u] = "discount" /\ obj'[u] = obj[u]
           \/ /\ ~ (pc[u] \in Halfway /\ BucketOf(u) = b)
              /\ ~ (pc'[u] \in Halfway /\ BucketOf(u)' = b)
  PROVE  Links(b)' /\ OneRing(b)' /\ Counted(b)'
<1>1. Ring(b)' = Ring(b) /\ b \in Ring(b)
  BY DEF Ring
<1>2. \A u \in Threads : pc'[u] \in Halfway /\ BucketOf(u)' = b <=> pc[u] \in Halfway /\ BucketOf(u) = b
  BY DEF BucketOf, Halfway
<1>3. \A u \in Threads : pc[u] = "count" /\ BucketOf(u) = b => pc'[u] = pc[u] /\ node'[u] = node[u]
  BY DEF Halfway
<1>4. \A u \in Threads : pc'[u] = "count" /\ BucketOf(u)' = b <=> pc[u] = "count" /\ BucketOf(u) = b
  BY <1>2, <1>3 DEF Halfway
<1>10. \A u \in Threads : /\ pc'[u] \in {"release", "discount"} /\ BucketOf(u)' = b
                         <=> pc[u] \in {"release", "discount"} /\ BucketOf(u) = b
  BY <1>2, <1>4 DEF Halfway
<1>5. At({"count"}, b)' = At({"count"}, b)
  BY <1>4 DEF At
<1>6. At({"release", "discount"}, b)' = At({"release", "discount"}, b)
  BY <1>10 DEF At
<1>7. Links(b)'
  <2>1. ASSUME NEW n \in Ring(b)
        PROVE  /\ next'[n] \in Ring(b) /\ prev'[n] \in Ring(b)
               /\ \/ prev'[next'[n]] = n
                  \/ \E t \in Threads : pc'[t] = "count" /\ BucketOf(t)' = b /\ node'[t] = n
               /\ next'[prev'[n]] = n \/ (n = b /\ At({"count"}, b)')
    <3>1. next[n] \in Ring(b) /\ prev[n] \in Ring(b)
      BY DEF Links
    <3>2. prev'[next'[n]] = prev[next[n]] /\ next'[prev'[n]] = next[prev[n]]
      BY <3>1
    <3>3. ASSUME NEW t \in Threads, pc[t] = "count" /\ BucketOf(t) = b /\ node[t] = n
          PROVE  pc'[t] = "count" /\ BucketOf(t)' = b /\ node'[t] = n
      BY <1>3, <1>4, <3>3 DEF Halfway
    <3> QED BY <1>5, <3>1, <3>2, <3>3 DEF Links
  <2>2. ASSUME NEW t \in Threads, pc'[t] = "count" /\ BucketOf(t)' = b
        PROVE  next'[node'[t]] = b /\ prev'[node'[t]] = prev'[b] /\ next'[prev'[b]] = node'[t]
    <3>1. pc[t] = "count" /\ BucketOf(t) = b /\ node'[t] = node[t]
      BY <1>3, <1>4, <2>2 DEF Halfway
    <3>2. prev[b] \in Ring(b) /\ next[prev[b]] = node[t] /\ next[prev[b]] \in Ring(b)
      BY <1>1, <3>1 DEF Links
    <3> QED BY <1>1, <3>1, <3>2 DEF Links
  <2> QED BY <1>1, <2>1, <2>2 DEF Links
<1>8. OneRing(b)'
  BY DEF OneRing, Ring
<1>9. Counted(b)'
  BY <1>5, <1>6 DEF Counted
<1> QED BY <1>7, <1>8, <1>9

\* Different buckets have no node in common.
LEMMA RingsApart ==
  ASSUME NEW b \in Buckets, NEW c \in Buckets, b # c
  PROVE  Ring(b) \cap Ring(c) = {}
BY Basics DEF Ring, Linked, Used

\* A step that updates no list leaves every bucket as it is.
LEMMA ShapeQuiet ==
  ASSUME TableInv, NEW t \in Threads, Malloc(t) \/ Free(t),
         ~ (InsertLink(t) \/ InsertCount(t) \/ EraseUnlink(t) \/ EraseRelease(t) \/ EraseCount(t))
  PROVE  Shape'
<1>1. UNCHANGED <<next, prev, count, key>>
  BY DEF Malloc, Free, Find, MallocCall, Acquire, MallocReturn, FindFirst, FindCount, FindMatch,
         FindNext, FindFreed, FindEnd, FreeCall, FreeIgnored, FreeRejected, Unmap, links, chunks
<1>2. \A u \in Threads \ {t} : pc'[u] = pc[u] /\ obj'[u] = obj[u] /\ node'[u] = node[u]
  BY Facts, OthersUntouched
<1>3. pc[t] \notin Halfway /\ pc'[t] \notin Halfway
  BY Facts DEF Malloc, Free, Find, MallocCall, Acquire, MallocReturn, FindFirst, FindCount,
         FindMatch, FindNext, FindFreed, FindEnd, FreeCall, FreeIgnored, FreeRejected, Unmap,
         Halfway, TypeOK, Goto, Leave, Found
<1>4. Used' = Used
  <2>1. CASE MallocCall(t)
    BY <2>1, Basics DEF MallocCall, Used
  <2>2. CASE Unmap(t)
    <3>1. inUse' = inUse \ {status[t]} /\ status[t] \in Statuses \cup {NULL}
      BY <2>2, Facts DEF Unmap, TypeOK
    <3> QED BY <3>1, Basics DEF Used
  <2>3. CASE ~ (MallocCall(t) \/ Unmap(t))
    <3>1. inUse' = inUse
      BY <2>3 DEF Malloc, Free, Find, Acquire, MallocReturn, FindFirst, FindCount, FindMatch,
         FindNext, FindFreed, FindEnd, FreeCall, FreeIgnored, FreeRejected, chunks
    <3> QED BY <3>1 DEF Used
  <2> QED BY <2>1, <2>2, <2>3
<1>5. ASSUME NEW b \in Buckets PROVE Linked(b)' = Linked(b)
  BY <1>1, <1>2, <1>3, <1>4 DEF Linked, Halfway
<1>6. ASSUME NEW b \in Buckets PROVE Links(b)' /\ OneRing(b)' /\ Counted(b)'
  BY <1>1, <1>2, <1>3, <1>5, BucketUntouched DEF TableInv, Shape
<1> QED BY <1>4, <1>6 DEF TableInv, Shape

\* What a thread inside a critical section can rely on.
LEMMA Inside ==
  ASSUME TableInv, NEW t \in Threads, pc[t] \in Critical, Malloc(t) \/ Free(t)
  PROVE  /\ \A u \in Threads \ {t} : pc[u] \notin Halfway /\ pc'[u] \notin Halfway
         /\ \A u \in Threads \ {t} : pc'[u] = pc[u] /\ obj'[u] = obj[u] /\ node'[u] = node[u]
         /\ obj[t] \in Addresses /\ BucketOf(t) \in Buckets
<1>1. \A u \in Threads \ {t} : pc'[u] = pc[u] /\ obj'[u] = obj[u] /\ node'[u] = node[u]
  BY Facts, OthersUntouched
<1>2. \A u \in Threads \ {t} : pc[u] \notin Halfway
  BY Alone DEF TableInv, Critical, Halfway
<1>3. obj[t] \in Addresses /\ BucketOf(t) \in Buckets
  BY Facts, Objects DEF Critical
<1> QED BY <1>1, <1>2, <1>3

\* insert counts the entry it has put at the head.
LEMMA InsertCountShape ==
  ASSUME TableInv, NEW t \in Threads, InsertCount(t)
  PROVE  Shape'
<1>1. PICK b \in Buckets : b = BucketOf(t)
  BY Inside DEF InsertCount, Critical, Malloc
<1>2. PICK e \in Linked(b) : e = node[t]
  <2>1. node[t] \in Used /\ key[node[t]] = obj[t]
    BY Facts DEF InsertCount, EntryAtHand
  <2>2. \A u \in Threads : pc[u] # "release"
    BY Inside DEF InsertCount, Critical, Malloc, Halfway
  <2> QED BY <1>1, <2>1, <2>2 DEF Linked, BucketOf
<1>3. \A u \in Threads \ {t} : /\ pc[u] \notin Halfway /\ pc'[u] \notin Halfway
                               /\ pc'[u] = pc[u] /\ obj'[u] = obj[u] /\ node'[u] = node[u]
  BY Inside DEF InsertCount, Critical, Malloc
<1>4. /\ UNCHANGED <<next, key, inUse, obj>> /\ pc[t] = "count" /\ pc'[t] = "describe"
      /\ prev' = [prev EXCEPT ![b] = e] /\ count' = [count EXCEPT ![b] = @ + 1]
  BY <1>1, <1>2, Facts DEF InsertCount, Goto, TypeOK, chunks
<1>5. Used' = Used /\ \A c \in Buckets : Linked(c)' = Linked(c) /\ Ring(c)' = Ring(c)
  <2>1. Used' = Used
    BY <1>4 DEF Used
  <2>2. \A u \in Threads : pc[u] # "release" /\ pc'[u] # "release"
    BY <1>3, <1>4 DEF Halfway
  <2>3. ASSUME NEW c \in Buckets PROVE Linked(c)' = Linked(c)
    BY <1>4, <2>1, <2>2 DEF Linked
  <2> QED BY <2>1, <2>3 DEF Ring
<1>6. \A n \in Nodes \ {b} : prev'[n] = prev[n]
  BY <1>4, Facts DEF TypeOK
<1>7. prev'[b] = e /\ count'[b] = count[b] + 1
  BY <1>4, Facts DEF TypeOK, Nodes
<1>8. ASSUME NEW c \in Buckets, c # b PROVE Links(c)' /\ OneRing(c)' /\ Counted(c)'
  <2>1. \A n \in Ring(c) : next'[n] = next[n] /\ prev'[n] = prev[n]
    <3>1. Ring(c) \subseteq Nodes
      BY DEF Ring, Linked, Used, Nodes
    <3>2. b \notin Ring(c)
      BY <1>8, RingsApart DEF Ring
    <3> QED BY <1>4, <1>6, <3>1, <3>2
  <2>2. count'[c] = count[c]
    BY <1>4, <1>8, Facts DEF TypeOK
  <2>3. \A u \in Threads :
           \/ pc'[u] = pc[u] /\ obj'[u] = obj[u] /\ node'[u] = node[u]
           \/ /\ ~ (pc[u] \in Halfway /\ BucketOf(u) = c)
              /\ ~ (pc'[u] \in Halfway /\ BucketOf(u)' = c)
    BY <1>1, <1>3, <1>4, <1>8 DEF BucketOf
  <2> QED BY <1>5, <2>1, <2>2, <2>3, BucketUntouched DEF TableInv, Shape
<1>9. Links(b)'
  <2>1. next[e] = b /\ prev[e] = prev[b] /\ next[prev[b]] = e
    BY <1>1, <1>2, <1>4 DEF TableInv, Shape, Links
  <2>2. \A u \in Threads : pc'[u] # "count"
    BY <1>3, <1>4 DEF Halfway
  <2>3. ASSUME NEW n \in Ring(b)
        PROVE  /\ next[n] \in Ring(b) /\ prev'[n] \in Ring(b)
               /\ prev'[next[n]] = n /\ next[prev'[n]] = n
    <3>1. /\ next[n] \in Ring(b) /\ prev[n] \in Ring(b)
          /\ prev[next[n]] = n \/ n = e
          /\ next[prev[n]] = n \/ n = b
      BY <1>2, <1>3 DEF TableInv, Shape, Links, Halfway
    <3>2. Ring(b) \subseteq Nodes /\ b \notin Linked(b) /\ e \in Ring(b)
      BY Basics DEF Ring, Linked, Used, Nodes
    <3>3. CASE n = e
      BY <1>6, <1>7, <2>1, <3>1, <3>2, <3>3
    <3>4. CASE n # e
      <4>1. next[n] # b
        BY <1>2, <2>1, <3>1, <3>2, <3>4
      <4> QED BY <1>6, <1>7, <2>1, <3>1, <3>2, <3>4, <4>1
    <3> QED BY <3>3, <3>4
  <2> QED BY <1>4, <1>5, <2>2, <2>3 DEF Links
<1>10. OneRing(b)'
  BY <1>4, <1>5 DEF OneRing, TableInv, Shape
<1>11. Counted(b)'
  <2>1. At({"count"}, b) /\ ~ At({"count"}, b)' /\ ~ At({"release", "discount"}, b)'
    BY <1>1, <1>3, <1>4 DEF At, Halfway
  <2>2. Cardinality(Linked(b)) = count[b] + 1
    BY <2>1 DEF TableInv, Shape, Counted
  <2> QED BY <1>5, <1>7, <2>1, <2>2 DEF Counted
<1> QED BY <1>5, <1>8, <1>9, <1>10, <1>11 DEF TableInv, Shape

\* insert puts the entry in front of the list.
LEMMA InsertLinkShape ==
  ASSUME TableInv, NEW t \in Threads, InsertLink(t)
  PROVE  Shape'
<1>1. PICK b \in Buckets : b = BucketOf(t)
  BY Inside DEF InsertLink, Critical, Malloc
<1>2. PICK e \in Entries \ inUse :
        /\ inUse' = inUse \cup {e}
        /\ key' = [key EXCEPT ![e] = obj[t]]
        /\ next' = [next EXCEPT ![e] = b, ![prev[b]] = e]
        /\ prev' = [prev EXCEPT ![e] = prev[b]]
        /\ node' = [node EXCEPT ![t] = e]
  BY <1>1 DEF InsertLink
<1>3. \A u \in Threads \ {t} : /\ pc[u] \notin Halfway /\ pc'[u] \notin Halfway
                               /\ pc'[u] = pc[u] /\ obj'[u] = obj[u] /\ node'[u] = node[u]
  BY Inside DEF InsertLink, Critical, Malloc
<1>4. /\ UNCHANGED <<count, obj>> /\ pc[t] = "link" /\ pc'[t] = "count" /\ node'[t] = e
  <2>1. pc \in [Threads -> Steps] /\ DOMAIN node = Threads
    BY Facts DEF TypeOK
  <2>2. UNCHANGED <<count, obj>> /\ pc[t] = "link" /\ pc' = [pc EXCEPT ![t] = "count"]
    BY DEF InsertLink, Goto
  <2> QED BY <1>2, <2>1, <2>2
<1>5. Used' = Used \cup {e} /\ e \notin Used /\ e \in Nodes /\ e \notin Buckets
  BY <1>2, Basics DEF Used, Nodes
<1>6. key'[e] = obj[t] /\ \A f \in Used : key'[f] = key[f]
  BY <1>2, <1>5, Facts DEF TypeOK
<1>7. \A u \in Threads : pc[u] # "release" /\ pc'[u] # "release"
  BY <1>3, <1>4 DEF Halfway
<1>8. Linked(b)' = Linked(b) \cup {e} /\ e \notin Linked(b)
  BY <1>1, <1>5, <1>6, <1>7 DEF Linked, BucketOf
<1>9. ASSUME NEW c \in Buckets, c # b PROVE Linked(c)' = Linked(c)
  BY <1>1, <1>5, <1>6, <1>7, <1>9 DEF Linked, BucketOf
<1>10. \A c \in Buckets : Ring(c) \subseteq Nodes /\ e \notin Ring(c)
  BY <1>5 DEF Ring, Linked, Used, Nodes
<1>11. PICK last \in Ring(b) : last = prev[b] /\ next[last] = b
  <2>1. prev[b] \in Ring(b) /\ (next[prev[b]] = b \/ At({"count"}, b))
    BY DEF TableInv, Shape, Links, Ring
  <2>2. ~ At({"count"}, b)
    BY <1>3, <1>4 DEF At, Halfway
  <2> QED BY <2>1, <2>2
<1>12. /\ next'[e] = b /\ next'[last] = e /\ \A n \in Nodes \ {e, last} : next'[n] = next[n]
       /\ prev'[e] = last /\ \A n \in Nodes \ {e} : prev'[n] = prev[n]
  BY <1>2, <1>5, <1>10, <1>11, Facts DEF TypeOK
<1>13. ASSUME NEW c \in Buckets, c # b PROVE Links(c)' /\ OneRing(c)' /\ Counted(c)'
  <2>1. \A n \in Ring(c) : next'[n] = next[n] /\ prev'[n] = prev[n]
    BY <1>10, <1>11, <1>12, <1>13, RingsApart
  <2>2. \A u \in Threads :
           \/ pc'[u] = pc[u] /\ obj'[u] = obj[u] /\ node'[u] = node[u]
           \/ /\ ~ (pc[u] \in Halfway /\ BucketOf(u) = c)
              /\ ~ (pc'[u] \in Halfway /\ BucketOf(u)' = c)
    BY <1>1, <1>3, <1>4, <1>13 DEF BucketOf
  <2> QED BY <1>4, <1>9, <1>13, <2>1, <2>2, BucketUntouched DEF TableInv, Shape
<1>14. ASSUME NEW n \in Ring(b)
       PROVE  /\ next[n] \in Ring(b) /\ prev[n] \in Ring(b)
              /\ prev[next[n]] = n /\ next[prev[n]] = n
  BY <1>3, <1>4 DEF TableInv, Shape, Links, At, Halfway
<1>15. Ring(b)' = Ring(b) \cup {e}
  BY <1>8 DEF Ring
<1>16. Links(b)'
  <2>1. pc'[t] = "count" /\ BucketOf(t)' = b /\ At({"count"}, b)'
    BY <1>1, <1>4 DEF BucketOf, At
  <2>2. b \in Ring(b) /\ b # e /\ last # e
    BY <1>10 DEF Ring
  <2>3. ASSUME NEW n \in Ring(b)
        PROVE  /\ next'[n] \in Ring(b)' /\ prev'[n] \in Ring(b)'
               /\ prev'[next'[n]] = n
               /\ next'[prev'[n]] = n \/ n = b
    <3>1. n \in Nodes /\ next[n] \in Nodes /\ prev[n] \in Nodes /\ n # e /\ next[n] # e /\ prev[n] # e
      BY <1>10, <1>14
    <3>2. prev'[n] = prev[n]
      BY <1>12, <3>1
    <3>3. prev[n] = last => n = b
      BY <1>11, <1>14
    <3>4. n # last => next'[n] = next[n]
      BY <1>12, <3>1
    <3>5. prev'[next'[n]] = n
      BY <1>12, <1>14, <3>1, <3>4
    <3>6. next'[prev[n]] = n \/ n = b
      BY <1>12, <1>14, <3>1, <3>3
    <3> QED BY <1>12, <1>14, <1>15, <3>2, <3>4, <3>5, <3>6
  <2>4. next'[e] = b /\ prev'[e] = prev'[b] /\ next'[prev'[b]] = e
    BY <1>10, <1>11, <1>12, <2>2
  <2>5. \A u \in Threads : pc'[u] = "count" => u = t
    BY <1>3 DEF Halfway
  <2>6. /\ next'[e] \in Ring(b)' /\ prev'[e] \in Ring(b)'
        /\ next'[prev'[e]] = e
    BY <1>12, <1>15, <2>2
  <2> QED BY <1>4, <1>15, <2>1, <2>3, <2>4, <2>5, <2>6 DEF Links
<1>17. OneRing(b)'
  <2> SUFFICES ASSUME NEW S \in SUBSET (Linked(b) \cup {e}), S # {}
               PROVE  \E n \in S : next'[n] \notin S
    BY <1>8 DEF OneRing
  <2>1. b \notin S
    BY Basics, <1>5 DEF Linked, Used
  <2>2. CASE e \in S
    BY <1>12, <2>1, <2>2
  <2>3. CASE e \notin S
    <3>1. PICK n \in S : next[n] \notin S
      BY <2>3 DEF TableInv, Shape, OneRing
    <3>2. n \in Nodes /\ n # e
      BY <2>3, <1>10 DEF Ring
    <3> QED BY <1>12, <2>3, <3>1, <3>2
  <2> QED BY <2>2, <2>3
<1>18. IsFiniteSet(Used)' /\ Cardinality(Linked(b)') = Cardinality(Linked(b)) + 1
  <2>1. IsFiniteSet(Used) /\ IsFiniteSet(Linked(b))
    BY FS_Subset DEF TableInv, Shape, Linked
  <2> QED BY <1>5, <1>8, <2>1, FS_AddElement
<1>19. Counted(b)'
  <2>1. ~ At({"count"}, b) /\ ~ At({"release", "discount"}, b) /\ At({"count"}, b)'
    BY <1>1, <1>3, <1>4 DEF At, Halfway, BucketOf
  <2>2. Cardinality(Linked(b)) = count[b]
    BY <2>1 DEF TableInv, Shape, Counted
  <2> QED BY <1>4, <1>18, <2>1, <2>2 DEF Counted
<1> QED BY <1>13, <1>16, <1>17, <1>18, <1>19 DEF Shape

\* erase takes an entry out of the middle, the head or the end of a list.
LEMMA EraseUnlinkShape ==
  ASSUME TableInv, NEW t \in Threads, EraseUnlink(t)
  PROVE  Shape'
<1>1. PICK b \in Buckets : b = BucketOf(t)
  BY Inside DEF EraseUnlink, Critical, Free
<1>2. PICK e \in EntriesOf(obj[t]) :
        /\ next' = [next EXCEPT ![prev[e]] = next[e], ![e] = e]
        /\ prev' = [prev EXCEPT ![next[e]] = prev[e], ![e] = e]
        /\ node' = [node EXCEPT ![t] = e]
  BY DEF EraseUnlink
<1>3. \A u \in Threads \ {t} : /\ pc[u] \notin Halfway /\ pc'[u] \notin Halfway
                               /\ pc'[u] = pc[u] /\ obj'[u] = obj[u] /\ node'[u] = node[u]
  BY Inside DEF EraseUnlink, Critical, Free
<1>4. /\ UNCHANGED <<count, obj, key, inUse>> /\ pc[t] = "unlink" /\ pc'[t] = "release" /\ node'[t] = e
  BY <1>2, Facts DEF EraseUnlink, Goto, TypeOK, chunks
<1>5. Used' = Used /\ e \in Linked(b)
  BY <1>1, <1>2, <1>4, UnlinksOwn DEF Used
<1>6. \A u \in Threads : pc[u] # "release" /\ (pc'[u] = "release" <=> u = t)
  BY <1>3, <1>4 DEF Halfway
<1>7. Linked(b)' = Linked(b) \ {e}
  BY <1>4, <1>5, <1>6 DEF Linked
<1>8. \A c \in Buckets : Ring(c) \subseteq Nodes /\ c \notin Linked(c)
  BY Basics DEF Ring, Linked, Used, Nodes
<1>9. ASSUME NEW c \in Buckets, c # b PROVE Linked(c)' = Linked(c)
  <2>1. e \notin Linked(c)
    BY <1>5, <1>9, RingsApart DEF Ring
  <2> QED BY <1>4, <1>5, <1>6, <2>1 DEF Linked
<1>10. ASSUME NEW n \in Ring(b)
       PROVE  /\ next[n] \in Ring(b) /\ prev[n] \in Ring(b)
              /\ prev[next[n]] = n /\ next[prev[n]] = n
  BY <1>3, <1>4 DEF TableInv, Shape, Links, At, Halfway
<1>11. PICK before \in Ring(b), after \in Ring(b) : before = prev[e] /\ after = next[e]
  BY <1>5, <1>10 DEF Ring
<1>12. before # e /\ after # e
  <2>1. next[e] # e
    <3>1. {e} \in SUBSET Linked(b) /\ {e} # {}
      BY <1>5
    <3> QED BY <3>1 DEF TableInv, Shape, OneRing
  <2> QED BY <1>5, <1>10, <1>11, <2>1 DEF Ring
<1>13. /\ next'[before] = after /\ \A n \in Nodes \ {e, before} : next'[n] = next[n]
       /\ prev'[after] = before /\ \A n \in Nodes \ {e, after} : prev'[n] = prev[n]
  BY <1>2, <1>8, <1>11, <1>12, Facts DEF TypeOK
<1>14. ASSUME NEW c \in Buckets, c # b PROVE Links(c)' /\ OneRing(c)' /\ Counted(c)'
  <2>1. \A n \in Ring(c) : next'[n] = next[n] /\ prev'[n] = prev[n]
    <3>1. e \notin Ring(c) /\ before \notin Ring(c) /\ after \notin Ring(c)
      BY <1>5, <1>11, <1>14, RingsApart DEF Ring
    <3> QED BY <1>8, <1>13, <3>1
  <2>2. \A u \in Threads :
           \/ pc'[u] = pc[u] /\ obj'[u] = obj[u] /\ node'[u] = node[u]
           \/ /\ ~ (pc[u] \in Halfway /\ BucketOf(u) = c)
              /\ ~ (pc'[u] \in Halfway /\ BucketOf(u)' = c)
    BY <1>1, <1>3, <1>4, <1>14 DEF BucketOf
  <2> QED BY <1>4, <1>9, <1>14, <2>1, <2>2, BucketUntouched DEF TableInv, Shape
<1>15. Ring(b)' = Ring(b) \ {e}
  BY <1>5, <1>7, <1>8 DEF Ring
<1>16. Links(b)'
  <2>1. ASSUME NEW n \in Ring(b) \ {e}
        PROVE  /\ next'[n] \in Ring(b) \ {e} /\ prev'[n] \in Ring(b) \ {e}
               /\ prev'[next'[n]] = n /\ next'[prev'[n]] = n
    <3>1. /\ n \in Nodes /\ next[n] \in Nodes /\ prev[n] \in Nodes
          /\ next[n] \in Ring(b) /\ prev[n] \in Ring(b) /\ prev[next[n]] = n /\ next[prev[n]] = n
      BY <1>8, <1>10
    <3>2. /\ next[n] = e => n = before
          /\ prev[n] = e => n = after
          /\ next[n] = after => n = e
          /\ prev[n] = before => n = e
      BY <1>5, <1>10, <1>11, <3>1 DEF Ring
    <3>3. next'[n] \in Ring(b) \ {e} /\ prev'[next'[n]] = n
      <4>1. CASE n = before
        BY <1>11, <1>12, <1>13, <4>1
      <4>2. CASE n # before
        BY <1>13, <3>1, <3>2, <4>2
      <4> QED BY <4>1, <4>2
    <3>4. prev'[n] \in Ring(b) \ {e} /\ next'[prev'[n]] = n
      <4>1. CASE n = after
        BY <1>11, <1>12, <1>13, <4>1
      <4>2. CASE n # after
        BY <1>13, <3>1, <3>2, <4>2
      <4> QED BY <4>1, <4>2
    <3> QED BY <3>3, <3>4
  <2>2. \A u \in Threads : pc'[u] # "count"
    BY <1>3, <1>4 DEF Halfway
  <2> QED BY <1>15, <2>1, <2>2 DEF Links
<1>17. OneRing(b)'
  <2> SUFFICES ASSUME NEW S \in SUBSET (Linked(b) \ {e}), S # {}
               PROVE  \E n \in S : next'[n] \notin S
    BY <1>7 DEF OneRing
  <2>1. \A n \in S : n \in Nodes /\ n # e
    BY <1>8 DEF Ring
  <2>2. CASE before \in S
    <3>1. S \cup {e} \in SUBSET Linked(b)
      BY <1>5
    <3>2. PICK n \in S \cup {e} : next[n] \notin S \cup {e}
      BY <3>1 DEF TableInv, Shape, OneRing
    <3>3. n # before
      BY <1>5, <1>10, <1>11, <3>2 DEF Ring
    <3>4. CASE n = e
      BY <1>11, <1>13, <2>2, <3>2, <3>4
    <3>5. CASE n # e
      BY <1>13, <2>1, <3>2, <3>3, <3>5
    <3> QED BY <3>4, <3>5
  <2>3. CASE before \notin S
    <3>1. PICK n \in S : next[n] \notin S
      BY DEF TableInv, Shape, OneRing
    <3> QED BY <1>13, <2>1, <2>3, <3>1
  <2> QED BY <2>2, <2>3
<1>18. Cardinality(Linked(b)') = Cardinality(Linked(b)) - 1
  <2>1. IsFiniteSet(Linked(b))
    BY FS_Subset DEF TableInv, Shape, Linked
  <2> QED BY <1>5, <1>7, <2>1, FS_RemoveElement
<1>19. Counted(b)'
  <2>1. /\ ~ At({"count"}, b) /\ ~ At({"release", "discount"}, b)
        /\ ~ At({"count"}, b)' /\ At({"release", "discount"}, b)'
    BY <1>1, <1>3, <1>4 DEF At, Halfway, BucketOf
  <2>2. Cardinality(Linked(b)) = count[b]
    BY <2>1 DEF TableInv, Shape, Counted
  <2> QED BY <1>4, <1>18, <2>1, <2>2 DEF Counted
<1> QED BY <1>5, <1>14, <1>16, <1>17, <1>19 DEF TableInv, Shape

\* The release of an entry changes no list.
LEMMA EraseReleaseShape ==
  ASSUME TableInv, NEW t \in Threads, EraseRelease(t)
  PROVE  Shape'
<1>1. UNCHANGED <<next, prev, count, key, obj>> /\ pc[t] = "release" /\ pc'[t] = "discount"
  BY Facts DEF EraseRelease, links, Goto, TypeOK
<1>2. \A u \in Threads \ {t} : /\ pc[u] \notin Halfway /\ pc'[u] \notin Halfway
                               /\ pc'[u] = pc[u] /\ obj'[u] = obj[u] /\ node'[u] = node[u]
  BY Inside DEF EraseRelease, Critical, Free
<1>3. Used' = Used \ {node[t]}
  BY DEF EraseRelease, Used
<1>4. \A u \in Threads : pc'[u] # "release" /\ (pc[u] = "release" <=> u = t)
  BY <1>1, <1>2 DEF Halfway
<1>5. ASSUME NEW b \in Buckets PROVE Linked(b)' = Linked(b)
  BY <1>1, <1>3, <1>4 DEF Linked
<1>6. ASSUME NEW b \in Buckets PROVE Links(b)' /\ OneRing(b)' /\ Counted(b)'
  BY <1>1, <1>2, <1>5, BucketUntouched DEF TableInv, Shape
<1>7. IsFiniteSet(Used)'
  BY <1>3, FS_Subset DEF TableInv, Shape
<1> QED BY <1>6, <1>7 DEF Shape

\* erase counts the entry out that it has unlinked.
LEMMA EraseCountShape ==
  ASSUME TableInv, NEW t \in Threads, EraseCount(t)
  PROVE  Shape'
<1>1. PICK b \in Buckets : b = BucketOf(t)
  BY Inside DEF EraseCount, Critical, Free
<1>2. /\ UNCHANGED <<next, prev, key, inUse, obj, node>> /\ pc[t] = "discount" /\ pc'[t] = "unmap"
      /\ count' = [count EXCEPT ![b] = @ - 1]
  BY <1>1, Facts DEF EraseCount, Goto, TypeOK, chunks, walk
<1>3. \A u \in Threads \ {t} : /\ pc[u] \notin Halfway /\ pc'[u] \notin Halfway
                               /\ pc'[u] = pc[u] /\ obj'[u] = obj[u] /\ node'[u] = node[u]
  BY Inside DEF EraseCount, Critical, Free
<1>4. Used' = Used
  BY <1>2 DEF Used
<1>5. \A u \in Threads : pc[u] # "release" /\ pc'[u] # "release"
  BY <1>2, <1>3 DEF Halfway
<1>6. ASSUME NEW c \in Buckets PROVE Linked(c)' = Linked(c)
  BY <1>2, <1>4, <1>5 DEF Linked
<1>7. ASSUME NEW c \in Buckets, c # b PROVE Links(c)' /\ OneRing(c)' /\ Counted(c)'
  <2>1. count'[c] = count[c]
    BY <1>2, <1>7, Facts DEF TypeOK
  <2>2. \A u \in Threads :
           \/ pc'[u] = pc[u] /\ obj'[u] = obj[u] /\ node'[u] = node[u]
           \/ /\ ~ (pc[u] \in Halfway /\ BucketOf(u) = c)
              /\ ~ (pc'[u] \in Halfway /\ BucketOf(u)' = c)
    BY <1>1, <1>2, <1>3, <1>7 DEF BucketOf
  <2> QED BY <1>2, <1>6, <2>1, <2>2, BucketUntouched DEF TableInv, Shape
<1>8. Links(b)'
  <2>1. \A u \in Threads : pc[u] # "count" /\ pc'[u] # "count"
    BY <1>2, <1>3 DEF Halfway
  <2>2. Ring(b)' = Ring(b)
    BY <1>6 DEF Ring
  <2>3. ~ At({"count"}, b)
    BY <2>1 DEF At
  <2>4. \A n \in Ring(b) : /\ next[n] \in Ring(b) /\ prev[n] \in Ring(b)
                           /\ prev[next[n]] = n /\ next[prev[n]] = n
    BY <2>1, <2>3 DEF TableInv, Shape, Links
  <2> QED BY <1>2, <2>1, <2>2, <2>4 DEF Links
<1>9. OneRing(b)'
  BY <1>2, <1>6 DEF OneRing, TableInv, Shape
<1>10. Counted(b)'
  <2>1. /\ ~ At({"count"}, b) /\ At({"release", "discount"}, b)
        /\ ~ At({"count"}, b)' /\ ~ At({"release", "discount"}, b)'
    BY <1>1, <1>2, <1>3 DEF At, Halfway
  <2>2. Cardinality(Linked(b)) = count[b] - 1
    BY <2>1 DEF TableInv, Shape, Counted
  <2>3. count'[b] = count[b] - 1
    BY <1>2, Facts DEF TypeOK
  <2> QED BY <1>6, <2>1, <2>2, <2>3 DEF Counted
<1> QED BY <1>4, <1>7, <1>8, <1>9, <1>10 DEF TableInv, Shape

-----------------------------------------------------------------------------
(***************************************************************************)
(* The theorems                                                            *)
(***************************************************************************)
LEMMA NextIInv ==
  ASSUME TableInv, [Next]_vars
  PROVE  TableInv'
<1>1. CASE UNCHANGED vars
  <2> USE <1>1 DEF vars
  <2>1. TypeOK' /\ Locked' /\ Locals' /\ Ownership' /\ StatusesOwned'
    BY DEF TableInv, TypeOK, Locked, Locals, Ownership, StatusesOwned
  <2>2. Used' = Used /\ \A b \in Buckets : Linked(b)' = Linked(b) /\ Ring(b)' = Ring(b)
    BY DEF Used, Linked, Ring
  <2>3. EntriesOwned' /\ Listed' /\ EntryAtHand' /\ Described'
    BY <2>2 DEF TableInv, EntriesOwned, Listed, EntryAtHand, Described
  <2>4. ASSUME NEW b \in Buckets PROVE Links(b)' /\ OneRing(b)' /\ Counted(b)'
    BY <2>2, BucketUntouched DEF TableInv, Shape
  <2> QED BY <2>1, <2>2, <2>3, <2>4 DEF TableInv, Shape
<1>2. ASSUME NEW t \in Threads, Malloc(t) \/ Free(t) PROVE TableInv'
  <2>1. TypeOK'
    BY <1>2, TypeStep
  <2>2. Locked'
    BY <1>2, LockedStep DEF TableInv
  <2>3. Locals'
    BY <1>2, LocalsStep DEF TableInv
  <2>4. Ownership'
    BY <1>2, <2>1, <2>3, OwnershipStep
  <2>5. StatusesOwned' /\ EntriesOwned' /\ Listed' /\ Described' /\ EntryAtHand'
    BY <1>2, EntriesStep, EntryAtHandStep
  <2>6. Shape'
    BY <1>2, ShapeQuiet, InsertLinkShape, InsertCountShape, EraseUnlinkShape,
       EraseReleaseShape, EraseCountShape
  <2> QED BY <2>1, <2>2, <2>3, <2>4, <2>5, <2>6 DEF TableInv
<1> QED BY <1>1, <1>2 DEF Next

\* The invariant that the properties follow from.
THEOREM Invariance == Spec => []TableInv
BY InitIInv, NextIInv, PTL DEF Spec

\* The types of the variables: among others, no count of a bucket and no count
\* down of a walk gets below zero.
THEOREM TypeCorrect == Spec => []TypeOK
<1>1. TableInv => TypeOK
  BY DEF TableInv
<1> QED BY <1>1, Invariance, PTL

\* deallocateToBigHeap unmaps the object it is called with and no other.
THEOREM MappingsExclusive == Spec => []MappingsOwned
<1>1. TableInv => MappingsOwned
  <2> SUFFICES ASSUME TableInv PROVE MappingsOwned
    OBVIOUS
  <2>1. \A a \in mapped, t \in Threads : obj[t] = a => pc[t] # "idle"
    BY Basics DEF TableInv, Locals, TypeOK
  <2> QED BY <2>1 DEF TableInv, Ownership, MappingsOwned
<1> QED BY <1>1, Invariance, PTL

\* insert and erase of the hash map: between the critical sections a walk from
\* the header of a bucket meets each object that is known, once, and nothing
\* else, and the count of the bucket says how many.
THEOREM TableKept == Spec => []TableExact
<1>1. TableInv => TableExact
  <2> SUFFICES ASSUME TableInv, globalLock = NULL, NEW b \in Buckets,
                      NEW known, known = {a \in Addresses : Bucket[a] = b /\ Known(a)}
               PROVE  /\ Met(b) \subseteq Entries \cap inUse
                      /\ {key[e] : e \in Met(b)} = known
                      /\ Cardinality(Met(b)) = Cardinality(known)
                      /\ count[b] = Cardinality(known)
                      /\ Walk(b)[count[b]] = b
                      /\ \A n \in Met(b) \cup {b} : prev[next[n]] = n
    BY DEF TableExact
  <2>1. \A t \in Threads : pc[t] \notin Critical
    BY Basics DEF TableInv, Locked
  <2>2. /\ Met(b) = Linked(b)
        /\ count[b] = Cardinality(Linked(b))
        /\ Walk(b)[count[b]] = b
        /\ \A n \in Ring(b) : prev[next[n]] = n
    <3>1. ~ At({"count", "release", "discount"}, b)
      BY <2>1 DEF At, Critical
    <3> QED BY <3>1, WalkExact DEF TableInv
  <2>3. Linked(b) = {e \in Used : Bucket[key[e]] = b}
    BY <2>1 DEF Linked, Critical
  <2>4. ASSUME NEW e \in Used PROVE Known(key[e]) /\ key[e] \in Addresses
    <3>1. key[e] \in mapped /\ key[e] \in Addresses
      BY Facts DEF TypeOK
    <3>2. ASSUME NEW t \in Threads, obj[t] = key[e]
          PROVE  pc[t] \in {"describe", "erase lock"} \cup FindSteps
      <4>1. pc[t] \notin Unlisted /\ pc[t] \notin Critical /\ pc[t] # "idle" /\ pc[t] \in Steps
        BY <2>1, <3>2, Facts DEF EntriesOwned, TypeOK
      <4> QED BY <4>1 DEF Unlisted, Critical, Steps, MallocSteps, EraseSteps
    <3> QED BY <3>1, <3>2, Facts DEF Known, Ownership
  <2>5. ASSUME NEW a \in Addresses, Known(a) PROVE \E e \in Used : key[e] = a
    <3>1. a \in mapped
      <4>1. ASSUME NEW t \in Threads, obj[t] = a PROVE a \in mapped
        BY <4>1, Facts, Basics DEF Ownership
      <4> QED BY <2>5, <4>1, Facts DEF Known, Ownership
    <3>2. ASSUME NEW t \in Threads, obj[t] = a PROVE pc[t] \notin Unlisted
      <4>1. PICK u \in Threads : /\ obj[u] = a
                                 /\ pc[u] \in {"describe", "erase lock"} \cup FindSteps
        BY <2>5, <3>2, Facts, Basics DEF Known, Ownership
      <4>2. t = u
        <5>1. a # NULL
          BY Basics
        <5> QED BY <3>2, <4>1, <5>1, Facts
      <4> QED BY <4>1, <4>2 DEF Unlisted, FindSteps
    <3> QED BY <3>1, <3>2, Facts DEF Listed
  <2>6. {key[e] : e \in Linked(b)} = known
    BY <2>3, <2>4, <2>5
  <2>7. Cardinality(Linked(b)) = Cardinality(known)
    <3>1. IsFiniteSet(Linked(b))
      BY <2>3, FS_Subset DEF TableInv, Shape
    <3>2. [e \in Linked(b) |-> key[e]] \in Bijection(Linked(b), known)
      <4>1. \A e, f \in Linked(b) : key[e] = key[f] => e = f
        BY <2>3, Facts DEF EntriesOwned
      <4> QED BY <2>6, <4>1 DEF Bijection, Injection, Surjection, IsInjective
    <3> QED BY <3>1, <3>2, FS_Bijection DEF ExistsBijection
  <2> QED BY <2>2, <2>3, <2>6, <2>7 DEF Used, Ring
<1> QED BY <1>1, Invariance, PTL
=============================================================================
