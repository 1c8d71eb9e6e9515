---------------------------- MODULE IndexedFifo ----------------------------
(***************************************************************************)
(* What a queue with stable indices promises its user: elements leave in   *)
(* the order they came, and each is found under the index it was given,    *)
(* the number of pushes before it (modulo the width of the index).  An     *)
(* element is represented by that index.                                   *)
(***************************************************************************)
EXTENDS Naturals, Sequences

CONSTANTS Word

VARIABLES first,    \* the index of the oldest element
          elements  \* the elements, oldest first

vars == <<first, elements>>

Index(k) == (first + k) % Word

Init == first \in 0..(Word - 1) /\ elements = <<>>

\* One push.
Add == /\ elements' = Append(elements, Index(Len(elements)))
       /\ first' = first

Remove == /\ elements # <<>>
          /\ elements' = Tail(elements)
          /\ first' = Index(1)

\* The queue is replaced by a new one.
Clear == elements' = <<>> /\ first' = 0

Next == Add \/ Remove \/ Clear

Spec == Init /\ [][Next]_vars
=============================================================================
