------------------------------- MODULE FifoPool -------------------------------
(***************************************************************************)
(* What the small-object heap promises, without threads, locks, links or   *)
(* shadow words.  Every item has a pool of objects: a queue of freed       *)
(* objects, handed out again in the order they were freed, and a supply of *)
(* unused ones, taken in order, from which a page may be skipped.          *)
(***************************************************************************)
EXTENDS Integers, Sequences

CONSTANTS
  Items,        \* the pools
  PageObjects,  \* objects in a page
  MaxObjects    \* bound: objects a pool can supply

VARIABLES
  queue,     \* the freed objects of every pool, oldest first
  position,  \* number of the next unused object of every pool
  out        \* objects given out and not yet freed

vars == <<queue, position, out>>

Init ==
  /\ queue = [i \in Items |-> <<>>]
  /\ position = [i \in Items |-> 0]
  /\ out = {}

\* Hand out the object that was freed first.
Reuse(i) ==
  /\ queue[i] # <<>>
  /\ out' = out \cup {Head(queue[i])}
  /\ queue' = [queue EXCEPT ![i] = Tail(@)]
  /\ UNCHANGED position

\* Hand out an unused object; a page that begins right after it may be lost.
Extend(i) ==
  /\ position[i] < MaxObjects
  /\ out' = out \cup {<<i[1], i[2], position[i]>>}
  /\ \E skipped \in {0, PageObjects} :
       position' = [position EXCEPT ![i] = @ + 1 + skipped]
  /\ UNCHANGED queue

\* Take an object back, behind all those freed before it.
Return(o) ==
  /\ out' = out \ {o}
  /\ queue' = [queue EXCEPT ![<<o[1], o[2]>>] = Append(@, o)]
  /\ UNCHANGED position

Next ==
  \/ \E i \in Items : Reuse(i) \/ Extend(i)
  \/ \E o \in out : Return(o)

Spec == Init /\ [][Next]_vars
=============================================================================
