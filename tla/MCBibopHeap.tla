----------------------------- MODULE MCBibopHeap -----------------------------
(***************************************************************************)
(* Instances of BibopHeap and of the inductive invariant of its proofs for *)
(* TLC.                                                                    *)
(***************************************************************************)
EXTENDS BibopHeapProofs, TLC

\* Every thread has an index of its own; the index is named after its thread.
OwnIndex == [t \in Threads |-> t]

\* The threads that only free are interchangeable.
Symmetry == Permutations(Threads \ Allocators)
=============================================================================
