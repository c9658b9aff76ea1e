------------------------------ MODULE MCFrontEnd ------------------------------
(***************************************************************************)
(* FrontEnd for TLC, with the invariant of its proofs.                     *)
(***************************************************************************)
EXTENDS FrontEndProofs
===============================================================================
