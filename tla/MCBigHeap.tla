------------------------------ MODULE MCBigHeap ------------------------------
(***************************************************************************)
(* Instances of BigHeap for TLC.                                           *)
(***************************************************************************)
EXTENDS BigHeapProofs, TLC

CONSTANTS
  SharedBucket, OtherBucket,
  Colliding  \* the addresses that share a bucket

\* Two buckets: one for the colliding addresses and one for the others.
TwoBuckets ==
  [a \in Addresses |-> IF a \in Colliding THEN SharedBucket ELSE OtherBucket]

Symmetry ==
  Permutations(Threads) \cup Permutations(Entries) \cup Permutations(Statuses)
    \cup Permutations(Colliding)
=============================================================================
