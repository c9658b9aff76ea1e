------------------------------- MODULE BigHeap -------------------------------
(***************************************************************************)
(* The heap of large objects (bigheap.hh) and the hash map that knows them *)
(* (hashmap.hh, list.hh).                                                  *)
(*                                                                         *)
(* Each object is a mapping of its own.  The map leads from its address to *)
(* an entry and from there to its bigObjectStatus.  insert and erase run   *)
(* under the global lock of the heap; find, which free calls twice, walks  *)
(* the list of the address's bucket without it, so the walk of one thread  *)
(* interleaves with the changes of the others, access by access.           *)
(***************************************************************************)
EXTENDS Integers, FiniteSets

CONSTANTS
  Threads,
  Addresses,  \* where mmap may put a large object
  Bucket,     \* Bucket[a]: the bucket hashIndex() computes for an address
  Entries,    \* chunks of the C library's heap used for struct Entry
  Statuses,   \* chunks of that heap used for bigObjectStatus
  NULL

Buckets == {Bucket[a] : a \in Addresses}

\* The list header of a bucket is a node of its circular list.
Nodes == Buckets \cup Entries

ASSUME BigHeapConstants ==
  /\ Bucket \in [Addresses -> Buckets]
  /\ Entries \cap (Buckets \cup Statuses) = {}
  /\ NULL \notin Addresses \cup Nodes \cup Statuses \cup Threads

VARIABLES
  mapped,     \* addresses of the mappings that exist
  live,       \* objects the application holds
  ignored,    \* objects whose free came to nothing
  globalLock, \* holder of _spin_lock, or NULL
  next, prev, \* the links of every node
  key,        \* key of every entry; NULL in the header of a bucket
  value,      \* value of every entry
  count,      \* count of every bucket
  inUse,      \* entries and statuses that are allocated
  start,      \* objStatus->start of every status
  pc,         \* next shared access of every thread
  obj,        \* the object its call is about
  status,     \* objStatus of that call
  caller,     \* the function that calls find, or NULL
  node,       \* entry: where the walk of the bucket is, or the entry at hand
  left,       \* the count down of that walk
  halted      \* "no", or why the process is over

chunks == <<key, value, inUse, start>>
links  == <<next, prev, count>>
walk   == <<caller, node, left>>
held   == <<live, ignored>>
vars   == <<mapped, live, ignored, globalLock, next, prev, key, value, count,
            inUse, start, pc, obj, status, caller, node, left, halted>>

MallocSteps == {"lock", "link", "count", "describe"}
FindSteps   == {"first", "size", "walk", "absent"}
EraseSteps  == {"erase lock", "unlink", "release", "discount", "unmap"}
Steps       == {"idle"} \cup MallocSteps \cup FindSteps \cup EraseSteps

\* A free looks its object up twice.
Callers == {"isLargeObject", "deallocateToBigHeap"}

Goto(t, step) == pc' = [pc EXCEPT ![t] = step]
BucketOf(t)   == Bucket[obj[t]]

\* The end of a call: its local variables go out of scope.
Leave(t) ==
  /\ Goto(t, "idle")
  /\ obj' = [obj EXCEPT ![t] = NULL]
  /\ status' = [status EXCEPT ![t] = NULL]
  /\ caller' = [caller EXCEPT ![t] = NULL]
  /\ node' = [node EXCEPT ![t] = NULL]
  /\ left' = [left EXCEPT ![t] = 0]

\* initBigHeap(): every list is empty, its header linked to itself.
Init ==
  /\ mapped = {}
  /\ live = {}
  /\ ignored = {}
  /\ globalLock = NULL
  /\ next = [n \in Nodes |-> n]
  /\ prev = [n \in Nodes |-> n]
  /\ key = [n \in Nodes |-> NULL]
  /\ value = [n \in Nodes |-> NULL]
  /\ count = [b \in Buckets |-> 0]
  /\ inUse = {}
  /\ start = [s \in Statuses |-> NULL]
  /\ pc = [t \in Threads |-> "idle"]
  /\ obj = [t \in Threads |-> NULL]
  /\ status = [t \in Threads |-> NULL]
  /\ caller = [t \in Threads |-> NULL]
  /\ node = [t \in Threads |-> NULL]
  /\ left = [t \in Threads |-> 0]
  /\ halted = "no"

-----------------------------------------------------------------------------
(***************************************************************************)
(* allocateAtBigHeap                                                       *)
(***************************************************************************)

\* A status is allocated and the object is mapped.
MallocCall(t) ==
  /\ pc[t] = "idle"
  /\ \E a \in Addresses \ mapped, s \in Statuses \ inUse :
       /\ mapped' = mapped \cup {a}
       /\ inUse' = inUse \cup {s}
       /\ obj' = [obj EXCEPT ![t] = a]
       /\ status' = [status EXCEPT ![t] = s]
  /\ Goto(t, "lock")
  /\ UNCHANGED <<held, globalLock, links, key, value, start, walk, halted>>

\* acquireGlobalLock
Acquire(t, from, to) ==
  /\ pc[t] = from
  /\ globalLock = NULL
  /\ globalLock' = t
  /\ Goto(t, to)
  /\ UNCHANGED <<mapped, held, links, chunks, obj, status, walk, halted>>

\* insertEntry: a new entry is filled in, and the old tail linked to it, which
\* shows it to a walk ...
InsertLink(t) ==
  /\ pc[t] = "link"
  /\ LET head == BucketOf(t)
     IN \E e \in Entries \ inUse :
          /\ inUse' = inUse \cup {e}
          /\ key' = [key EXCEPT ![e] = obj[t]]
          /\ value' = [value EXCEPT ![e] = status[t]]
          /\ next' = [next EXCEPT ![e] = head, ![prev[head]] = e]
          /\ prev' = [prev EXCEPT ![e] = prev[head]]
          /\ node' = [node EXCEPT ![t] = e]
  /\ Goto(t, "count")
  /\ UNCHANGED <<mapped, held, globalLock, count, start, obj, status, caller,
                 left, halted>>

\* ... then the header's link back and the count; releaseGlobalLock.
InsertCount(t) ==
  /\ pc[t] = "count"
  /\ prev' = [prev EXCEPT ![BucketOf(t)] = node[t]]
  /\ count' = [count EXCEPT ![BucketOf(t)] = @ + 1]
  /\ globalLock' = NULL
  /\ node' = [node EXCEPT ![t] = NULL]
  /\ Goto(t, "describe")
  /\ UNCHANGED <<mapped, held, next, chunks, obj, status, caller, left,
                 halted>>

\* The status is filled in last, and the object is returned.
MallocReturn(t) ==
  /\ pc[t] = "describe"
  /\ start' = [start EXCEPT ![status[t]] = obj[t]]
  /\ live' = live \cup {obj[t]}
  /\ Leave(t)
  /\ UNCHANGED <<mapped, ignored, globalLock, links, key, value, inUse,
                 halted>>

-----------------------------------------------------------------------------
(***************************************************************************)
(* HashMap::find, without the lock                                         *)
(***************************************************************************)

\* getEntry: the first entry ...
FindFirst(t) ==
  /\ pc[t] = "first"
  /\ node' = [node EXCEPT ![t] = next[BucketOf(t)]]
  /\ Goto(t, "size")
  /\ UNCHANGED <<mapped, held, globalLock, links, chunks, obj, status, caller,
                 left, halted>>

\* ... and how many to look at.
FindCount(t) ==
  /\ pc[t] = "size"
  /\ left' = [left EXCEPT ![t] = count[BucketOf(t)]]
  /\ Goto(t, "walk")
  /\ UNCHANGED <<mapped, held, globalLock, links, chunks, obj, status, caller,
                 node, halted>>

Sees(t)    == left[t] > 0 /\ node[t] \in Buckets \cup inUse

\* Mutant: the keys are not compared.
MatchesAny(t) == node[t] \in Entries

Matches(t) == key[node[t]] = obj[t]

\* What the caller does with an entry that was found: look it up again, or
\* take its value and go on to erase it.
Found(t) ==
  /\ IF caller[t] = "isLargeObject"
       THEN /\ caller' = [caller EXCEPT ![t] = "deallocateToBigHeap"]
            /\ Goto(t, "first")
            /\ UNCHANGED status
       ELSE /\ status' = [status EXCEPT ![t] = value[node[t]]]
            /\ Goto(t, "erase lock")
            /\ UNCHANGED caller
  /\ node' = [node EXCEPT ![t] = NULL]
  /\ left' = [left EXCEPT ![t] = 0]

FindMatch(t) ==
  /\ pc[t] = "walk"
  /\ Sees(t) /\ Matches(t)
  /\ Found(t)
  /\ UNCHANGED <<mapped, held, globalLock, links, chunks, obj, halted>>

FindNext(t) ==
  /\ pc[t] = "walk"
  /\ Sees(t) /\ ~Matches(t)
  /\ node' = [node EXCEPT ![t] = next[@]]
  /\ left' = [left EXCEPT ![t] = @ - 1]
  /\ UNCHANGED <<mapped, held, globalLock, links, chunks, pc, obj, status,
                 caller, halted>>

\* The walk looks at an entry another thread has freed since: what happens
\* next is undefined.
FindFreed(t) ==
  /\ pc[t] = "walk"
  /\ left[t] > 0 /\ node[t] \in Entries \ inUse
  /\ halted' = "use after free"
  /\ UNCHANGED <<mapped, held, globalLock, links, chunks, pc, obj, status,
                 walk>>

\* getEntry returns NULL, and find false.
FindEnd(t) ==
  /\ pc[t] = "walk"
  /\ left[t] = 0
  /\ Goto(t, "absent")
  /\ UNCHANGED <<mapped, held, globalLock, links, chunks, obj, status, walk,
                 halted>>

-----------------------------------------------------------------------------
(***************************************************************************)
(* xxfree of a large object the application holds: isLargeObject, then     *)
(* deallocateToBigHeap                                                     *)
(***************************************************************************)
FreeCall(t) ==
  /\ pc[t] = "idle"
  /\ \E a \in live :
       /\ live' = live \ {a}
       /\ obj' = [obj EXCEPT ![t] = a]
  /\ caller' = [caller EXCEPT ![t] = "isLargeObject"]
  /\ Goto(t, "first")
  /\ UNCHANGED <<mapped, ignored, globalLock, links, chunks, status, node,
                 left,
                 halted>>

\* isLargeObject says no: "invalid free", and the object is never freed.
FreeIgnored(t) ==
  /\ pc[t] = "absent" /\ caller[t] = "isLargeObject"
  /\ ignored' = ignored \cup {obj[t]}
  /\ Leave(t)
  /\ UNCHANGED <<mapped, live, globalLock, links, chunks, halted>>

\* deallocateToBigHeap does not find it: "invalid or double free".
FreeRejected(t) ==
  /\ pc[t] = "absent" /\ caller[t] = "deallocateToBigHeap"
  /\ halted' = "invalid free"
  /\ UNCHANGED <<mapped, held, globalLock, links, chunks, pc, obj, status,
                 walk>>

\* HashMap::erase under the lock: getEntry and listRemoveNode, which links the
\* removed entry to itself.

\* The nodes a walk of count steps meets in a bucket that nobody changes, and
\* the node that follows them.
Walk(b) ==
  LET at[n \in 0 .. count[b]] == IF n = 0 THEN next[b] ELSE next[at[n-1]]
  IN at
Met(b) == {Walk(b)[n] : n \in 0 .. count[b] - 1}

EntriesOf(a) == {e \in Met(Bucket[a]) : key[e] = a}

\* Mutant: the neighbour behind the removed entry keeps its link to it.
EraseUnlinkForward(t) ==
  /\ pc[t] = "unlink"
  /\ \E e \in EntriesOf(obj[t]) :
       /\ next' = [next EXCEPT ![prev[e]] = next[e], ![e] = e]
       /\ prev' = [prev EXCEPT ![e] = e]
       /\ node' = [node EXCEPT ![t] = e]
  /\ Goto(t, "release")
  /\ UNCHANGED <<mapped, held, globalLock, count, chunks, obj, status, caller,
                 left, halted>>

EraseUnlink(t) ==
  /\ pc[t] = "unlink"
  /\ \E e \in EntriesOf(obj[t]) :
       /\ next' = [next EXCEPT ![prev[e]] = next[e], ![e] = e]
       /\ prev' = [prev EXCEPT ![next[e]] = prev[e], ![e] = e]
       /\ node' = [node EXCEPT ![t] = e]
  /\ Goto(t, "release")
  /\ UNCHANGED <<mapped, held, globalLock, count, chunks, obj, status, caller,
                 left, halted>>

\* SourceHeap::deallocate of the entry.
EraseRelease(t) ==
  /\ pc[t] = "release"
  /\ inUse' = inUse \ {node[t]}
  /\ node' = [node EXCEPT ![t] = NULL]
  /\ Goto(t, "discount")
  /\ UNCHANGED <<mapped, held, globalLock, links, key, value, start, obj,
                 status,
                 caller, left, halted>>

\* Mutant: the entry is counted out twice.
EraseCountTwice(t) ==
  /\ pc[t] = "discount"
  /\ count' = [count EXCEPT ![BucketOf(t)] = @ - 2]
  /\ globalLock' = NULL
  /\ Goto(t, "unmap")
  /\ UNCHANGED <<mapped, held, next, prev, chunks, obj, status, walk, halted>>

EraseCount(t) ==
  /\ pc[t] = "discount"
  /\ count' = [count EXCEPT ![BucketOf(t)] = @ - 1]
  /\ globalLock' = NULL
  /\ Goto(t, "unmap")
  /\ UNCHANGED <<mapped, held, next, prev, chunks, obj, status, walk, halted>>

\* mmapDeallocate of what the status says, and the end of the status.
Unmap(t) ==
  /\ pc[t] = "unmap"
  /\ mapped' = mapped \ {start[status[t]]}
  /\ inUse' = inUse \ {status[t]}
  /\ Leave(t)
  /\ UNCHANGED <<held, globalLock, links, key, value, start, halted>>

-----------------------------------------------------------------------------
Malloc(t) ==
  \/ MallocCall(t) \/ Acquire(t, "lock", "link") \/ InsertLink(t) \/ InsertCount(t)
  \/ MallocReturn(t)

Find(t) ==
  \/ FindFirst(t) \/ FindCount(t) \/ FindMatch(t)
  \/ FindNext(t) \/ FindFreed(t) \/ FindEnd(t)

Free(t) ==
  \/ FreeCall(t) \/ Find(t) \/ FreeIgnored(t) \/ FreeRejected(t)
  \/ Acquire(t, "erase lock", "unlink") \/ EraseUnlink(t)
  \/ EraseRelease(t) \/ EraseCount(t) \/ Unmap(t)

Next == halted = "no" /\ \E t \in Threads : Malloc(t) \/ Free(t)

Spec == Init /\ [][Next]_vars
-----------------------------------------------------------------------------
(***************************************************************************)
(* Properties                                                              *)
(***************************************************************************)

\* From the insertion of its entry to the removal of it, an object is known
\* to the map.
Known(a) ==
  \/ a \in live \cup ignored
  \/ \E t \in Threads :
       obj[t] = a /\ pc[t] \in {"describe", "erase lock"} \cup FindSteps

\* The types of the variables.
TypeOK ==
  /\ mapped \subseteq Addresses
  /\ live \subseteq Addresses
  /\ ignored \subseteq Addresses
  /\ globalLock \in Threads \cup {NULL}
  /\ next \in [Nodes -> Nodes]
  /\ prev \in [Nodes -> Nodes]
  /\ key \in [Nodes -> Addresses \cup {NULL}]
  /\ value \in [Nodes -> Statuses \cup {NULL}]
  /\ count \in [Buckets -> Nat]
  /\ inUse \subseteq Entries \cup Statuses
  /\ start \in [Statuses -> Addresses \cup {NULL}]
  /\ pc \in [Threads -> Steps]
  /\ obj \in [Threads -> Addresses \cup {NULL}]
  /\ status \in [Threads -> Statuses \cup {NULL}]
  /\ caller \in [Threads -> Callers \cup {NULL}]
  /\ node \in [Threads -> Nodes \cup {NULL}]
  /\ left \in [Threads -> Nat]
  /\ halted \in {"no", "use after free", "invalid free"}

\* insert / erase under the global lock: whenever it is free, a walk of count
\* steps through a bucket meets one entry for each object known to the map,
\* and nothing else, and ends at the header; the links back agree.
TableExact ==
  globalLock = NULL =>
    \A b \in Buckets :
      LET known == {a \in Addresses : Bucket[a] = b /\ Known(a)}
      IN /\ Met(b) \subseteq Entries \cap inUse
         /\ {key[e] : e \in Met(b)} = known
         /\ Cardinality(Met(b)) = Cardinality(known)
         /\ count[b] = Cardinality(known)
         /\ Walk(b)[count[b]] = b
         /\ \A n \in Met(b) \cup {b} : prev[next[n]] = n

\* allocateAtBigHeap / deallocateToBigHeap: the mappings are those of the
\* objects somebody owns, each of them with one owner.  A free takes away the
\* mapping of its own object and no other, although it found the status
\* without the lock and mappings are used again at once.
MappingsOwned ==
  /\ mapped = live \cup ignored \cup {obj[t] : t \in {u \in Threads : pc[u] # "idle"}}
  /\ \A t \in Threads : pc[t] # "idle" =>
       /\ obj[t] \notin live \cup ignored
       /\ \A u \in Threads \ {t} : obj[u] # obj[t]

\* HashMap::find: it finds an entry that exists; no object the application
\* frees is taken for an unknown one.
FindsExisting ==
  \A t \in Threads : pc[t] = "absent" => ~Known(obj[t])
=============================================================================
