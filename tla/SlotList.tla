------------------------------ MODULE SlotList ------------------------------
(***************************************************************************)
(* The list of queues in which the socket keeps its channels               *)
(* (m_lst_channels) and the event handler its slots (m_ids).  A full last  *)
(* queue is never grown: a queue of twice the size that continues its      *)
(* indices is appended, so that an item never moves while it is in use.    *)
(* Closed items at the front are popped, and a queue left empty is erased  *)
(* unless it is the last, which knows the next index.                      *)
(***************************************************************************)
EXTENDS Queue, Sequences, SequencesExt

\* The queue of list L that holds an id.
Holds(L, id) == \E n \in DOMAIN L : valid_index(L[n], id)

Holder(L, id) == Min({n \in DOMAIN L : valid_index(L[n], id)})

Item(L, id) == At(L[Holder(L, id)], id)

SetItem(L, id, item) ==
    [L EXCEPT ![Holder(L, id)].m_vec_queue[id % Capacity(L[Holder(L, id)])] =
        item]

NextId(L) == end_index(L[Len(L)])

WithRoom(L, capacity) ==
    IF L = <<>> THEN <<NewQueue(capacity, 0, 0)>>
    ELSE IF full(L[Len(L)])
         THEN Append(L, NewQueue(L[Len(L)].m_i_size * 2, NextId(L), 0))
         ELSE L

AddItem(L, item) == [L EXCEPT ![Len(L)] = push(@, item)]

\* All items that are in use or wait behind one that is.
Ids(L) == UNION {LiveIndices(L[n]) : n \in DOMAIN L}

OpenIds(L) == {id \in Ids(L) : ~Item(L, id).m_closed}

-----------------------------------------------------------------------------

\* How many closed items are at the front.
ClosedFirst(q) ==
    Min({k \in 0..q.m_i_size :
           k = q.m_i_size \/ ~At(q, (begin_index(q) + k) % Word).m_closed})

(***************************************************************************)
(* pop() for each of them: the start moves on, round the buffer once at    *)
(* most, and the slots it leaves are Unset.                                *)
(***************************************************************************)
PopClosed(q) ==
    LET cap   == Capacity(q)
        count == ClosedFirst(q)
        start == q.m_i_start + count
        left  == {(q.m_i_start + k) % cap : k \in 0..(count - 1)}
    IN [m_i_start   |-> start % cap,
        m_i_size    |-> q.m_i_size - count,
        m_i_loops   |-> (q.m_i_loops + start \div cap) % Word,
        m_vec_queue |-> [slot \in DOMAIN q.m_vec_queue |->
                            IF slot \in left THEN Unset
                            ELSE q.m_vec_queue[slot]]]

\* The last queue is erased like any other, and the next index with it.
EraseAnyEmpty(L, n) == IF empty(L[n]) THEN RemoveAt(L, n) ELSE L

EraseIfEmpty(L, n) ==
    IF empty(L[n]) /\ n # Len(L) THEN RemoveAt(L, n) ELSE L

Prune(L, id) ==
    LET n == Holder(L, id)
    IN EraseIfEmpty([L EXCEPT ![n] = PopClosed(@)], n)
=============================================================================
