----------------------------- MODULE RingQueue -----------------------------
(***************************************************************************)
(* One beltpp::queue<T> and the calls the socket library makes on it:      *)
(*   push and pop (the channel and event tables, the send stream),         *)
(*   reserve + get_free_range + push of the chunk recv() wrote in place    *)
(*   (the receive stream), and assignment of an empty queue (a deleted     *)
(*   channel's streams).                                                   *)
(* The element pushed is the index its owner is told it will have          *)
(* (add_channel: "id = end_index()" and then push).                        *)
(***************************************************************************)
EXTENDS Queue, Sequences

CONSTANTS InitialShapes,  \* the <<capacity, end_index>> of a new queue
          MaxCapacity     \* bound: no larger buffer is allocated

ASSUME CapacityAssumption == MaxCapacity \in PowersOfTwo \ {Word}
ASSUME ShapesAssumption == InitialShapes \subseteq (0..MaxCapacity) \X Size

VARIABLES queue,    \* the queue
          chunk,    \* p_buffer[index] and on: received, and not yet pushed
          aborted   \* an assertion has failed or terminate() was called

vars == <<queue, chunk, aborted>>

NoChunk == [slot |-> 0, left |-> 0]

Init ==
    /\ \E shape \in InitialShapes : queue = NewQueue(shape[1], shape[2], 0)
    /\ chunk = NoChunk
    /\ aborted = FALSE

\* The owner calls the queue, and no loop of pushes is running.
Ready == ~aborted /\ chunk.left = 0

\* bound
Fits == full(queue) => GrownSize(queue) <= MaxCapacity

PushOf(element) ==
    /\ Fits
    /\ aborted' = PushAborts(queue)
    /\ queue' = IF PushAborts(queue) THEN queue ELSE push(queue, element)

Push == Ready /\ PushOf(end_index(queue)) /\ UNCHANGED chunk

Pop ==
    /\ Ready
    /\ ~empty(queue)
    /\ queue' = pop(queue)
    /\ UNCHANGED <<chunk, aborted>>

\* recv() writes res elements from slot begin on.
Filled(q, begin, res) ==
    [q EXCEPT !.m_vec_queue =
        [slot \in DOMAIN @ |->
            IF slot \in begin..(begin + res - 1)
            THEN (end_index(q) + slot - begin) % Word
            ELSE @[slot]]]

(***************************************************************************)
(* socket_ex::receive: reserve(), get_free_range(), and recv() fills some  *)
(* slots of the range, or none when it would block, fails or has reached   *)
(* the end.                                                                *)
(***************************************************************************)
Receive ==
    /\ Ready
    /\ Fits
    /\ aborted' = PushAborts(queue)
    /\ IF PushAborts(queue) THEN UNCHANGED <<queue, chunk>>
       ELSE LET r     == reserve(queue)
                begin == Min(FreeRange(r))
            IN \E res \in 0..Cardinality(FreeRange(r)) :
                 /\ queue' = Filled(r, begin, res)
                 /\ chunk' = IF res = 0 THEN NoChunk ELSE [slot |-> begin, left |-> res]

\* push(p_buffer[index])
PushReceived ==
    /\ ~aborted /\ chunk.left > 0
    /\ PushOf(queue.m_vec_queue[chunk.slot])
    /\ chunk' = IF chunk.left = 1 THEN NoChunk
                ELSE [slot |-> chunk.slot + 1, left |-> chunk.left - 1]

\* delete_channel: m_receive_stream = beltpp::queue<char>().
Reset ==
    /\ Ready
    /\ queue' = NewQueue(0, 0, 0)
    /\ UNCHANGED <<chunk, aborted>>

Next == Push \/ Pop \/ Receive \/ PushReceived \/ Reset

Spec == Init /\ [][Next]_vars

-----------------------------------------------------------------------------

TypeOK ==
    /\ queue.m_i_start \in Size
    /\ queue.m_i_size \in Size
    /\ queue.m_i_loops \in Size
    /\ \E cap \in {0} \cup PowersOfTwo :
          /\ cap <= MaxCapacity
          /\ queue.m_vec_queue \in [0..(cap - 1) -> Size \cup {Unset}]
    /\ queue.m_i_size <= Capacity(queue)
    /\ queue.m_i_start = 0 \/ queue.m_i_start < Capacity(queue)
    /\ aborted \in BOOLEAN
    /\ chunk \in [slot : Size, left : Size]

(***************************************************************************)
(* operator[] finds under every index the element that was pushed when     *)
(* end_index() returned it, and no other index is valid: also after the    *)
(* buffer has grown in mid-round, been written by recv() in place, and     *)
(* after the index has overflowed (queue::operator[], valid_index).        *)
(***************************************************************************)
IndexFindsElement ==
    \A index \in Size :
        /\ valid_index(queue, index) <=> index \in LiveIndices(queue)
        /\ valid_index(queue, index) => At(queue, index) = index

(***************************************************************************)
(* What recv() has written lies where the next pushes put their elements,  *)
(* in a buffer that those pushes do not replace while it is read.          *)
(***************************************************************************)
ReceivedInPlace ==
    \A k \in 0..(chunk.left - 1) :
        /\ queue.m_i_size + k < Capacity(queue)
        /\ chunk.slot + k = (queue.m_i_start + queue.m_i_size + k) % Capacity(queue)
        /\ queue.m_vec_queue[chunk.slot + k] = (end_index(queue) + k) % Word

(* reserve() breaks its assertions only when the index that comes next is  *)
(* 0 although elements precede it: after Word pushes.                      *)
AbortsAtOverflow == aborted => ~empty(queue) /\ end_index(queue) = 0

(* What the indices of a queue lead to, in turn.                           *)
ElementsOf(q) == [k \in 1..q.m_i_size |-> At(q, (begin_index(q) + k - 1) % Word)]

(***************************************************************************)
(* The ring buffer implements the indexed FIFO: a growing buffer, a wrap   *)
(* of the start and an overflow of the index are invisible to the user.    *)
(***************************************************************************)
Fifo == INSTANCE IndexedFifo WITH
    first    <- begin_index(queue),
    elements <- ElementsOf(queue)

IsIndexedFifo == Fifo!Spec

(* The queue's fields are in range, its indices find their elements, also  *)
(* those that are received and not yet pushed, and the assertions hold     *)
(* short of an overflow (valid_index, operator[], reserve).                *)
QueueConsistent ==
    TypeOK /\ IndexFindsElement /\ ReceivedInPlace /\ AbortsAtOverflow
=============================================================================
