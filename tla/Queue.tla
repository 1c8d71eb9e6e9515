------------------------------- MODULE Queue -------------------------------
(***************************************************************************)
(* The values of beltpp::queue<T> (belt.pp/queue.hpp): a ring buffer whose *)
(* elements are addressed by an index that grows by one with every push    *)
(* and never changes while the element is queued, also when the buffer is  *)
(* replaced by a larger one.  size_t arithmetic is modulo Word, and the    *)
(* code relies on that ("we allow end_index to overflow here").            *)
(***************************************************************************)
EXTENDS Integers, FiniteSets, FiniteSetsExt

CONSTANTS Word,         \* number of values of size_t, a power of two
          MinReserve,   \* the default argument of reserve(), 64 in the code
          Unset         \* a default constructed element

ASSUME WordAssumption == \E k \in 1..Word : Word = 2^k
ASSUME ReserveAssumption == MinReserve \in 1..(Word - 1)

Size == 0..(Word - 1)

\* Subtraction of two size_t values.
Minus(a, b) == (a + Word - b) % Word

Capacity(q) == Cardinality(DOMAIN q.m_vec_queue)

begin_index(q) == (q.m_i_start + q.m_i_loops * Capacity(q)) % Word

end_index(q) == (q.m_i_size + q.m_i_start + q.m_i_loops * Capacity(q)) % Word

empty(q) == q.m_i_size = 0

full(q) == q.m_i_size = Capacity(q)

\* The divisors of a power of two.
PowersOfTwo == {p \in 1..Word : Word % p = 0}

next2pow(number) == Min({p \in PowersOfTwo : number <= p})

capacity2pow(capacity) == IF capacity = 0 THEN 0 ELSE next2pow(capacity)

(***************************************************************************)
(* queue(capacity, end_index, size): start and loops are chosen so that    *)
(* the indices of the new queue end at end_index -- unless that is 0.      *)
(***************************************************************************)
NewQueue(capacity, endIndex, size) ==
    LET cap    == capacity2pow(capacity)
        placed == cap # 0 /\ endIndex # 0
        start  == IF placed THEN Minus(endIndex, size) % cap ELSE 0
    IN [m_i_start   |-> start,
        m_i_size    |-> size,
        m_i_loops   |-> IF placed
                        THEN Minus(Minus(endIndex, start), size) \div cap
                        ELSE 0,
        m_vec_queue |-> [slot \in 0..(cap - 1) |-> Unset]]

\* The test written without the overflow of end_index in mind.
valid_index_flat(q, index) == begin_index(q) <= index /\ index < end_index(q)

valid_index(q, index) ==
    LET first == begin_index(q)
        last  == end_index(q)
    IN \/ first < last /\ first <= index /\ index < last
       \/ first > last /\ (first <= index \/ index < last)

\* operator[]; the code terminates when valid_index(q, index) is false.
At(q, index) == q.m_vec_queue[index % Capacity(q)]

-----------------------------------------------------------------------------

(***************************************************************************)
(* reserve(min_size): nothing unless the buffer is full, else a buffer of  *)
(* at least twice the size, to which the elements move under their index.  *)
(***************************************************************************)
GrownSize(q) ==
    LET newsize == IF empty(q) THEN MinReserve ELSE q.m_i_size
    IN Min({n \in {newsize * p : p \in PowersOfTwo \ {1}} : MinReserve <= n})

Grown(q) == NewQueue(GrownSize(q), end_index(q), q.m_i_size)

\* The two assertions of reserve(); without them, the first element would
\* find no valid index in the new buffer and the code terminates as well.
GrowthKeepsIndices(q) ==
    /\ end_index(Grown(q)) = end_index(q)
    /\ begin_index(Grown(q)) = begin_index(q)

LiveIndices(q) == {(begin_index(q) + k) % Word : k \in 0..(q.m_i_size - 1)}

\* The buffer grows but the elements stay in the slots they had.
reserve_same_slots(q) ==
    IF ~full(q) THEN q
    ELSE [Grown(q) EXCEPT !.m_vec_queue =
             [slot \in DOMAIN @ |->
                 IF slot < Capacity(q) THEN q.m_vec_queue[slot] ELSE Unset]]

reserve(q) ==
    IF ~full(q) THEN q
    ELSE LET cap       == Capacity(Grown(q))
             age(slot) == (slot + (cap - (begin_index(q) % cap))) % cap
         IN [Grown(q) EXCEPT !.m_vec_queue =
                [slot \in DOMAIN @ |->
                    IF age(slot) < q.m_i_size
                    THEN At(q, (begin_index(q) + age(slot)) % Word)
                    ELSE Unset]]

\* push() reserves first, and reserve() must not break its assertions.
PushAborts(q) == full(q) /\ ~GrowthKeepsIndices(q)

push(q, element) ==
    LET r     == reserve(q)
        i_end == IF r.m_i_start + r.m_i_size >= Capacity(r)
                 THEN r.m_i_start + r.m_i_size - Capacity(r)
                 ELSE r.m_i_start + r.m_i_size
    IN [r EXCEPT !.m_vec_queue[i_end] = element, !.m_i_size = @ + 1]

\* The code leaves the old element in its slot, where no index reaches it
\* until a push or recv() overwrites it: here the slot is Unset at once.
pop(q) ==
    LET r == [q EXCEPT !.m_i_size = @ - 1,
                       !.m_vec_queue[q.m_i_start] = Unset]
    IN IF q.m_i_start + 1 = Capacity(q)
       THEN [r EXCEPT !.m_i_start = 0, !.m_i_loops = (@ + 1) % Word]
       ELSE [r EXCEPT !.m_i_start = @ + 1]

(***************************************************************************)
(* get_free_range: the contiguous free slots that the next pushes will use *)
(* in turn.  The socket lets recv() write there before it pushes.          *)
(***************************************************************************)
FreeRange(q) ==
    LET i_free == q.m_i_start + q.m_i_size
    IN IF i_free >= Capacity(q)
       THEN (i_free - Capacity(q))..(q.m_i_start - 1)
       ELSE i_free..(Capacity(q) - 1)

=============================================================================
