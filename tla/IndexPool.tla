------------------------------ MODULE IndexPool ------------------------------
(***************************************************************************)
(* What the thread table promises, without locks, counters or a map: a     *)
(* pool of entries, each of which has one owner at a time.  An entry comes *)
(* back when its owner is joined, and never does when its owner is         *)
(* detached.  A request is refused only when no entry can be given out.    *)
(***************************************************************************)
EXTENDS Integers

CONSTANTS
  Entries,   \* the entries of the pool
  Clients    \* those that may own one

VARIABLES
  owners,    \* the owners of every entry: one or none
  lost,      \* the entries that do not come back
  refused    \* has a request been refused?

vars == <<owners, lost, refused>>

Free == {i \in Entries \ lost : owners[i] = {}}

Init ==
  /\ \E i \in Entries, c \in Clients :
       owners = [j \in Entries |-> IF j = i THEN {c} ELSE {}]
  /\ lost = {}
  /\ refused = FALSE

\* A client is given an entry.
Take(c) ==
  /\ \E i \in Free : owners' = [owners EXCEPT ![i] = {c}]
  /\ UNCHANGED <<lost, refused>>

\* The owner of an entry is gone; the entry can be given out again unless it
\* was lost.
Give(i) ==
  /\ owners[i] # {}
  /\ owners' = [owners EXCEPT ![i] = {}]
  /\ UNCHANGED <<lost, refused>>

\* The entry of an owner, who may be gone with that, is lost.
Lose(i) ==
  /\ owners[i] # {}
  /\ lost' = lost \cup {i}
  /\ owners' \in {owners, [owners EXCEPT ![i] = {}]}
  /\ UNCHANGED refused

\* A request finds no entry.
Refuse ==
  /\ Free = {}
  /\ refused' = TRUE
  /\ UNCHANGED <<owners, lost>>

Next ==
  \/ \E c \in Clients : Take(c)
  \/ \E i \in Entries : Give(i) \/ Lose(i)
  \/ Refuse

Spec == Init /\ [][Next]_vars
=============================================================================
