---------------------------- MODULE ObjectNumbers ----------------------------
(***************************************************************************)
(* What the rest of the heap relies on from a bump pointer: objects come   *)
(* with consecutive numbers, except that at a page boundary the objects of *)
(* a page may be skipped for good.  Module BibopHeap numbers the objects   *)
(* of an item like this.                                                   *)
(***************************************************************************)
EXTENDS Integers

CONSTANT PagesAt  \* PagesAt[size]: objects per page, by class size

VARIABLES
  size,    \* the class size, fixed
  number,  \* number of the next object
  skipped  \* numbers inside random guard pages

numbering == <<size, number, skipped>>

Init ==
  /\ size \in DOMAIN PagesAt
  /\ number = 0
  /\ skipped = {}

Take ==
  /\ number' = number + 1
  /\ UNCHANGED <<size, skipped>>

TakeAndSkip ==
  LET n == number + 1
      k == PagesAt[size]
  IN /\ n % k = 0
     /\ number' = n + k
     /\ skipped' = skipped \cup n .. n + k - 1
     /\ UNCHANGED size

Next == Take \/ TakeAndSkip

Spec == Init /\ [][Next]_numbering
=============================================================================
