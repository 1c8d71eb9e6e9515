--------------------------- MODULE MCSocketEvents ---------------------------
(***************************************************************************)
(* Instances of SocketEvents.  The first queue of a table holds one item,  *)
(* so the second channel already lives in another queue.                   *)
(***************************************************************************)
EXTENDS SocketEvents

OneFailure == {"epoll_ctl"}

TwoHandles == {0, 1}

Symmetry == Permutations(Sockets)
=============================================================================
