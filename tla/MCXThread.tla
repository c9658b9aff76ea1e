------------------------------ MODULE MCXThread ------------------------------
(***************************************************************************)
(* Instances of XThread for TLC.                                           *)
(***************************************************************************)
EXTENDS XThread, TLC

\* The threads other than the initial one are interchangeable.
Symmetry == Permutations(Threads \ {Main})
=============================================================================
