---------------------------- MODULE MCSharedIndex ----------------------------
(***************************************************************************)
(* An instance of BibopHeap for threads that getThreadIndex does not tell  *)
(* apart, because their stacks lie outside the customized area.            *)
(***************************************************************************)
EXTENDS BibopHeap

\* Index 0, for every one of them.
ForeignIndex == [t \in Threads |-> 0]
=============================================================================
