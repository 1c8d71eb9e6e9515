------------------- MODULE IndexedStructures_proofs -------------------
(***************************************************************************)
(* Proofs about the two structures that keep their elements in a vector    *)
(* and find them by indices.                                               *)
(*                                                                         *)
(* beltpp::queue<T>, for every width of size_t, every default reservation  *)
(* and every largest buffer: the arithmetic of the ring, what each         *)
(* function of the queue keeps, and that it implements IndexedFifo.        *)
(*                                                                         *)
(* The expression tree of the parser framework, for any texts, pieces and  *)
(* limits: that its links make one tree, what a limit refuses, and that    *)
(* the pieces in which a text arrives do not matter.                       *)
(***************************************************************************)
EXTENDS RingQueue, Parser, FiniteSetTheorems, SequenceTheorems, WellFoundedInduction, TLAPS

(* The buffers there may be, and the queues that have one of c elements.   *)
Capacities == {c \in {0} \cup PowersOfTwo : c <= MaxCapacity}

Queues(c) ==
    [m_i_start : Size, m_i_size : 0..c, m_i_loops : Size,
     m_vec_queue : [0..(c - 1) -> Size \cup {Unset}]]

Formed(q, c) ==
    c \in Capacities /\ q \in Queues(c) /\ (q.m_i_start = 0 \/ q.m_i_start < c)

(* The index and the slot of the element after k others.                   *)
First(q, c)    == (q.m_i_start + q.m_i_loops * c) % Word
Index(q, c, k) == (First(q, c) + k) % Word
Slot(q, c, k)  == IF q.m_i_start + k < c THEN q.m_i_start + k ELSE q.m_i_start + k - c

(* The first n elements, of which all but the queue's await their push,    *)
(* are in their slots.                                                     *)
Written(q, c, n) ==
    n <= c /\ \A k \in 0..(n - 1) : q.m_vec_queue[Slot(q, c, k)] = Index(q, c, k)

-----------------------------------------------------------------------------
(* What size_t is.                                                         *)
LEMMA Width == Word \in Nat /\ Word >= 2 /\ MinReserve \in 1..(Word - 1) /\ 0 \in Size
<1>1. PICK k \in 1..Word : Word = 2^k
  BY WordAssumption
<1>2. MinReserve \in 1..(Word - 1)
  BY ReserveAssumption
<1>3. 1..Word # {} /\ 1..(Word - 1) # {}
  BY <1>1, <1>2
<1>4. QED
  BY <1>1, <1>2, <1>3 DEF Size

(* Quotient and remainder.                                                 *)
LEMMA DivMod ==
    ASSUME NEW a \in Int, NEW b \in Nat \ {0}
    PROVE  a \div b \in Int /\ (a % b) \in 0..(b - 1) /\ a = b * (a \div b) + (a % b)
OBVIOUS

(* A multiple of b is at least b away from 0, or is 0.                     *)
LEMMA Multiple ==
    ASSUME NEW b \in Nat \ {0}, NEW k \in Int
    PROVE  b * k \in Int /\ (k >= 1 => b * k >= b) /\ (k <= -1 => b * k <= -b)
OBVIOUS

(* Quotient and remainder are unique.                                      *)
LEMMA ModIs ==
    ASSUME NEW a \in Int, NEW b \in Nat \ {0}, NEW k \in Int, NEW r \in 0..(b - 1),
           a = b * k + r
    PROVE  a % b = r /\ a \div b = k
<1> DEFINE q == a \div b
           s == a % b
<1>1. q \in Int /\ s \in 0..(b - 1) /\ a = b * q + s
  BY DivMod
<1> HIDE DEF q, s
<1>2. k - q \in Int /\ b * (k - q) = s - r
  BY <1>1
<1>3. k - q = 0
  BY <1>1, <1>2, Multiple
<1>4. QED
  BY <1>1, <1>2, <1>3 DEF q, s

(* A term may be reduced before it is added.                               *)
LEMMA ModOfSum ==
    ASSUME NEW a \in Int, NEW c \in Int, NEW w \in Nat \ {0}
    PROVE  ((a % w) + c) % w = (a + c) % w
<1> DEFINE k == a \div w
           r == a % w
           l == (r + c) \div w
           s == (r + c) % w
<1>1. k \in Int /\ r \in 0..(w - 1) /\ a = w * k + r
  BY DivMod
<1> HIDE DEF k, r
<1>2. l \in Int /\ s \in 0..(w - 1) /\ r + c = w * l + s
  <2>1. r + c \in Int
    BY <1>1
  <2>2. QED
    BY <2>1, DivMod
<1> HIDE DEF l, s
<1>3. a + c = w * (k + l) + s /\ k + l \in Int /\ a + c \in Int
  BY <1>1, <1>2
<1>4. (a + c) % w = s
  BY <1>2, <1>3, ModIs
<1>5. QED
  BY <1>4 DEF s, r

(* Overflow does not change the place in a buffer whose size divides Word. *)
LEMMA ModOfPart ==
    ASSUME NEW a \in Int, NEW w \in Nat \ {0}, NEW c \in Nat \ {0}, w % c = 0
    PROVE  (a % w) % c = a % c
<1> DEFINE m == w \div c
           k == a \div w
           r == a % w
           l == r \div c
           s == r % c
<1>1. m \in Int /\ w = c * m
  BY DivMod
<1>2. k \in Int /\ r \in 0..(w - 1) /\ a = w * k + r
  BY DivMod
<1> HIDE DEF m, k, r
<1>3. l \in Int /\ s \in 0..(c - 1) /\ r = c * l + s
  BY <1>2, DivMod
<1> HIDE DEF l, s
<1>4. m * k + l \in Int /\ c * (m * k + l) = (c * m) * k + c * l
  BY <1>1, <1>2, <1>3
<1>5. a = c * (m * k + l) + s
  BY <1>1, <1>2, <1>3, <1>4
<1>6. a % c = s
  BY <1>3, <1>4, <1>5, ModIs
<1>7. QED
  BY <1>6 DEF s, r

(* A number below twice the modulus.                                       *)
LEMMA ModOnce ==
    ASSUME NEW w \in Nat \ {0}, NEW a \in 0..(w + w - 1)
    PROVE  a % w = IF a < w THEN a ELSE a - w
<1>1. CASE a < w
  <2>1. PICK k \in Int : k = 0
    OBVIOUS
  <2>2. a = w * k + a /\ a \in 0..(w - 1)
    BY <1>1, <2>1
  <2>3. QED
    BY <1>1, <2>2, ModIs
<1>2. CASE a >= w
  <2>1. PICK k \in Int : k = 1
    OBVIOUS
  <2>2. a = w * k + (a - w) /\ a - w \in 0..(w - 1)
    BY <1>2, <2>1
  <2>3. QED
    BY <1>2, <2>2, ModIs
<1>3. QED
  BY <1>1, <1>2

(* A set of numbers has a least one, which Min names.                      *)
LEMMA MinIs ==
    ASSUME NEW S, S \subseteq Nat, S # {}
    PROVE  Min(S) \in S /\ \A y \in S : Min(S) <= y
<1>1. PICK x \in S : \A y \in S : <<y, x>> \notin OpToRel(<, Nat)
  BY NatLessThanWellFounded, WFMin
<1>2. ASSUME NEW y \in S PROVE x <= y
  <2>1. x \in Nat /\ y \in Nat
    OBVIOUS
  <2>2. ~ (y < x)
    BY <1>1, <2>1 DEF OpToRel
  <2>3. QED
    BY <2>1, <2>2
<1>3. QED
  BY <1>2 DEF Min

-----------------------------------------------------------------------------
(* The size of the buffer.                                                 *)
LEMMA CapacityIs ==
    ASSUME NEW c, NEW q, Formed(q, c)
    PROVE  /\ c \in Nat /\ c <= MaxCapacity /\ MaxCapacity \in Nat /\ MaxCapacity < Word
           /\ Capacity(q) = c
<1>1. Word \in Nat /\ MaxCapacity \in 1..Word /\ MaxCapacity # Word
  BY Width, CapacityAssumption DEF PowersOfTwo
<1>2. c \in Nat /\ c <= MaxCapacity
  BY <1>1 DEF Formed, Capacities, PowersOfTwo
<1>3. DOMAIN q.m_vec_queue = 0..(c - 1)
  BY DEF Formed, Queues
<1>4. Cardinality(0..(c - 1)) = c
  BY <1>2, FS_Interval
<1>5. QED
  BY <1>1, <1>2, <1>3, <1>4 DEF Capacity

(* The fields of a queue.                                                  *)
LEMMA Fields ==
    ASSUME NEW c, NEW q, Formed(q, c)
    PROVE  /\ q.m_i_start \in Nat /\ q.m_i_start < Word /\ q.m_i_loops \in Nat
           /\ q.m_i_loops < Word /\ q.m_i_size \in 0..c
           /\ q.m_i_start * 1 = q.m_i_start /\ q.m_i_loops * c \in Nat
           /\ q.m_i_start = 0 \/ q.m_i_start < c
           /\ q.m_vec_queue \in [0..(c - 1) -> Size \cup {Unset}]
<1>1. c \in Nat
  BY CapacityIs
<1>2. /\ q.m_i_start \in Size /\ q.m_i_size \in 0..c /\ q.m_i_loops \in Size
      /\ q.m_vec_queue \in [0..(c - 1) -> Size \cup {Unset}]
      /\ q.m_i_start = 0 \/ q.m_i_start < c
  BY DEF Formed, Queues
<1>3. q.m_i_loops * c \in Nat
  BY <1>1, <1>2, Width DEF Size
<1>4. QED
  BY <1>1, <1>2, <1>3, Width DEF Size

(* begin_index() and end_index().                                          *)
LEMMA IndicesOf ==
    ASSUME NEW c, NEW q, Formed(q, c)
    PROVE  /\ First(q, c) \in Size /\ begin_index(q) = First(q, c)
           /\ end_index(q) = Index(q, c, q.m_i_size)
           /\ \A k \in Int : Index(q, c, k) \in Size
<1> DEFINE a == q.m_i_start + q.m_i_loops * c
<1>1. a \in Int /\ q.m_i_size \in Int /\ Word \in Nat \ {0} /\ Capacity(q) = c
  BY Fields, CapacityIs, Width
<1>2. First(q, c) = a % Word /\ begin_index(q) = a % Word
  BY <1>1 DEF First, begin_index
<1>3. q.m_i_size + q.m_i_start + q.m_i_loops * Capacity(q) = a + q.m_i_size
  BY Fields, CapacityIs
<1>4. end_index(q) = (a + q.m_i_size) % Word
  BY <1>3 DEF end_index
<1> HIDE DEF a
<1>5. ((a % Word) + q.m_i_size) % Word = (a + q.m_i_size) % Word
  BY <1>1, ModOfSum
<1>6. (a % Word) \in Size
  BY <1>1, DivMod DEF Size
<1>7. \A k \in Int : Index(q, c, k) \in Size
  <2> TAKE k \in Int
  <2>1. (a % Word) + k \in Int
    BY <1>1, DivMod
  <2>2. QED
    BY <1>1, <1>2, <2>1, DivMod DEF Index, Size
<1>8. QED
  BY <1>2, <1>4, <1>5, <1>6, <1>7 DEF Index

(* An index finds its slot, whatever has overflowed.                       *)
LEMMA SlotOf ==
    ASSUME NEW c, NEW q, Formed(q, c), NEW k \in 0..(c - 1)
    PROVE  Index(q, c, k) % c = Slot(q, c, k) /\ Slot(q, c, k) \in 0..(c - 1)
<1> DEFINE s == q.m_i_start
           l == q.m_i_loops
           a == s + l * c
<1>1. /\ c \in Nat \ {0} /\ Word \in Nat \ {0} /\ s \in 0..(c - 1) /\ l \in Int /\ a \in Int
      /\ k \in Int
  BY Fields, CapacityIs, Width, SMTT(30)
<1>2. Word % c = 0
  BY <1>1 DEF Formed, Capacities, PowersOfTwo
<1>3. Index(q, c, k) = ((a % Word) + k) % Word
  BY DEF Index, First
<1> HIDE DEF s, l, a
<1>4. Index(q, c, k) = (a + k) % Word
  BY <1>1, <1>3, ModOfSum
<1>5. ((a + k) % Word) % c = (a + k) % c
  <2>1. a + k \in Int
    BY <1>1
  <2>2. QED
    BY <1>1, <1>2, <2>1, ModOfPart
<1>6. CASE s + k < c
  <2>1. a + k = c * l + (s + k) /\ s + k \in 0..(c - 1) /\ a + k \in Int
    BY <1>1, <1>6 DEF a
  <2>2. (a + k) % c = s + k
    BY <1>1, <2>1, ModIs
  <2>3. QED
    BY <1>4, <1>5, <1>6, <2>1, <2>2 DEF Slot, s
<1>7. CASE s + k >= c
  <2>1. a + k = c * (l + 1) + (s + k - c) /\ s + k - c \in 0..(c - 1)
    BY <1>1, <1>7 DEF a
  <2>2. a + k \in Int /\ l + 1 \in Int
    BY <1>1
  <2>3. (a + k) % c = s + k - c
    BY <1>1, <2>1, <2>2, ModIs
  <2>4. ~ (s + k < c)
    BY <1>1, <1>7
  <2>5. Slot(q, c, k) = s + k - c
    BY <2>4 DEF Slot, s
  <2>6. QED
    BY <1>4, <1>5, <2>1, <2>3, <2>5
<1>8. QED
  BY <1>1, <1>6, <1>7

(* Different elements have different slots.                                *)
LEMMA SlotsDiffer ==
    ASSUME NEW c, NEW q, Formed(q, c), NEW i \in 0..(c - 1), NEW j \in 0..(c - 1), i # j
    PROVE  Slot(q, c, i) # Slot(q, c, j)
BY Fields, CapacityIs DEF Slot

(* Different elements have different indices.                              *)
LEMMA IndicesDiffer ==
    ASSUME NEW c, NEW q, Formed(q, c), NEW i \in 0..c, NEW j \in 0..c, i # j
    PROVE  Index(q, c, i) # Index(q, c, j)
<1> DEFINE f == First(q, c)
<1>1. f \in 0..(Word - 1) /\ Word \in Nat \ {0}
  BY IndicesOf, Width DEF Size
<1>2. c \in Nat /\ c < Word
  BY CapacityIs, Width
<1>3. Index(q, c, i) = (f + i) % Word /\ Index(q, c, j) = (f + j) % Word
  BY DEF Index
<1> HIDE DEF f
<1>4. f + i \in 0..(Word + Word - 1) /\ f + j \in 0..(Word + Word - 1)
  BY <1>1, <1>2
<1>5. /\ (f + i) % Word = IF f + i < Word THEN f + i ELSE f + i - Word
      /\ (f + j) % Word = IF f + j < Word THEN f + j ELSE f + j - Word
  <2>1. Word \in Nat \ {0}
    BY <1>1
  <2>2. PICK a, b : a = f + i /\ b = f + j
    OBVIOUS
  <2>3. a \in 0..(Word + Word - 1) /\ b \in 0..(Word + Word - 1)
    BY <1>4, <2>2
  <2>4. a % Word = IF a < Word THEN a ELSE a - Word
    BY <2>1, <2>3, ModOnce
  <2>5. b % Word = IF b < Word THEN b ELSE b - Word
    BY <2>1, <2>3, ModOnce
  <2>6. QED
    BY <1>1, <1>2, <2>1, <2>2, <2>3, <2>4, <2>5
<1>6. QED
  BY <1>1, <1>2, <1>3, <1>5

-----------------------------------------------------------------------------
(* A quotient is a number that is not larger.                              *)
LEMMA Quotient ==
    ASSUME NEW a \in Nat, NEW b \in Nat \ {0}
    PROVE  a \div b \in 0..a
<1> DEFINE k == a \div b
           r == a % b
<1>1. k \in Int /\ r \in 0..(b - 1) /\ a = b * k + r
  BY DivMod
<1> HIDE DEF k, r
<1>2. b * k \in Int /\ (k <= -1 => b * k <= -b)
  BY <1>1, Multiple
<1>3. k >= 0
  BY <1>1, <1>2
<1>4. b * k >= k
  <2>1. b - 1 \in Nat /\ (b - 1) * k >= 0
    BY <1>1, <1>3
  <2>2. b * k = (b - 1) * k + k
    BY <1>1
  <2>3. QED
    BY <1>1, <1>2, <2>1, <2>2
<1>5. k <= a
  BY <1>1, <1>2, <1>4
<1>6. QED
  BY <1>1, <1>3, <1>5 DEF k

(* The divisors of Word.                                                   *)
LEMMA Divisors ==
    /\ PowersOfTwo \subseteq Nat \ {0} /\ Word \in PowersOfTwo \ {1}
    /\ \A p \in PowersOfTwo : Word % p = 0 /\ p <= Word
<1>1. Word \in 1..Word /\ Word % Word = 0
  <2>1. PICK k \in Int, r \in Int : k = 1 /\ r = 0
    OBVIOUS
  <2>2. Word \in Nat \ {0} /\ r \in 0..(Word - 1) /\ Word = Word * k + r
    BY <2>1, Width
  <2>3. Word % Word = r
    BY <2>2, ModIs
  <2>4. QED
    BY <2>1, <2>2, <2>3
<1>2. QED
  BY <1>1, Width DEF PowersOfTwo

(* The buffer for a number of elements.                                    *)
LEMMA BufferFor ==
    ASSUME NEW n \in 0..MaxCapacity
    PROVE  /\ capacity2pow(n) \in Capacities /\ n <= capacity2pow(n)
           /\ n # 0 => capacity2pow(n) \in Nat \ {0}
<1>1. MaxCapacity \in PowersOfTwo /\ MaxCapacity \in Nat
  BY CapacityAssumption, Divisors
<1>2. CASE n = 0
  BY <1>1, <1>2 DEF capacity2pow, Capacities
<1>3. CASE n # 0
  <2> DEFINE S == {p \in PowersOfTwo : n <= p}
  <2>0. n <= MaxCapacity /\ PowersOfTwo \subseteq Nat
    BY Divisors
  <2>1. S \subseteq Nat /\ MaxCapacity \in S
    BY <1>1, <2>0
  <2>2. Min(S) \in S /\ \A y \in S : Min(S) <= y
    BY <2>1, MinIs
  <2>3. capacity2pow(n) = Min(S)
    BY <1>3 DEF capacity2pow, next2pow
  <2>4. QED
    BY <1>1, <2>1, <2>2, <2>3, Divisors DEF Capacities
<1>4. QED
  BY <1>2, <1>3

(* Subtraction of two sizes is a size.                                     *)
LEMMA MinusIs ==
    ASSUME NEW a \in Int, NEW b \in Int PROVE Minus(a, b) \in Size
<1>1. a + Word - b \in Int /\ Word \in Nat \ {0}
  BY Width
<1>2. QED
  BY <1>1, DivMod DEF Minus, Size

(* A new queue of s elements, wherever its indices end.                    *)
LEMMA NewIsFormed ==
    ASSUME NEW n \in 0..MaxCapacity, NEW e \in Size, NEW s \in 0..capacity2pow(n)
    PROVE  /\ Formed(NewQueue(n, e, s), capacity2pow(n))
           /\ NewQueue(n, e, s).m_i_size = s
           /\ DOMAIN NewQueue(n, e, s).m_vec_queue = 0..(capacity2pow(n) - 1)
<1> DEFINE d      == capacity2pow(n)
           placed == d # 0 /\ e # 0
           start  == IF placed THEN Minus(e, s) % d ELSE 0
           loops  == IF placed THEN Minus(Minus(e, start), s) \div d ELSE 0
<1>1. d \in Capacities /\ d \in Nat /\ s \in Int /\ e \in Int
  <2>1. d \in Capacities
    BY BufferFor
  <2>2. s \in 0..d /\ e \in 0..(Word - 1)
    BY DEF Size
  <2> HIDE DEF d
  <2>3. d \in Nat
    BY <2>1, Divisors DEF Capacities
  <2>4. s \in Int /\ e \in Int
    BY <2>2, <2>3, Width
  <2>5. QED
    BY <2>1, <2>3, <2>4
<1>2. start \in Size /\ (start = 0 \/ start < d)
  <2>1. CASE placed
    <3>1. Minus(e, s) \in Size
      BY <1>1, MinusIs
    <3>2. PICK m \in Size : m = Minus(e, s)
      BY <3>1
    <3>3. m \in Nat /\ d \in Nat \ {0}
      BY <1>1, <2>1, <3>2, Width DEF Size
    <3> HIDE DEF d
    <3>4. (m % d) \in 0..(d - 1)
      BY <3>3, DivMod
    <3>5. d < Word
      BY <1>1, CapacityAssumption, Divisors, Width DEF Capacities
    <3>6. QED
      BY <1>1, <2>1, <3>2, <3>4, <3>5, Width DEF Size
  <2>2. CASE ~ placed
    BY <2>2, Width
  <2>3. QED
    BY <2>1, <2>2
<1> HIDE DEF start
<1>3. loops \in Size
  <2>1. CASE placed
    <3>1. start \in Int
      BY <1>2, Width DEF Size
    <3>2. Minus(e, start) \in Size
      BY <1>1, <3>1, MinusIs
    <3>3. Minus(e, start) \in Int
      BY <3>2, Width DEF Size
    <3>4. Minus(Minus(e, start), s) \in Size
      BY <1>1, <3>3, MinusIs
    <3>5. PICK m \in Size : m = Minus(Minus(e, start), s)
      BY <3>4
    <3>6. m \in Nat /\ d \in Nat \ {0}
      BY <1>1, <2>1, Width DEF Size
    <3>7. m \div d \in 0..m
      BY <3>6, Quotient
    <3>8. QED
      BY <2>1, <3>5, <3>6, <3>7, Width DEF Size
  <2>2. CASE ~ placed
    BY <2>2, Width
  <2>3. QED
    BY <2>1, <2>2
<1>4. NewQueue(n, e, s) =
        [m_i_start |-> start, m_i_size |-> s, m_i_loops |-> loops,
         m_vec_queue |-> [slot \in 0..(d - 1) |-> Unset]]
  BY DEF NewQueue, start
<1> HIDE DEF loops, d
<1>5. NewQueue(n, e, s) \in Queues(d)
  BY <1>2, <1>3, <1>4 DEF Queues, d
<1>6. QED
  BY <1>1, <1>2, <1>4, <1>5 DEF Formed, d

(* A full queue grows by one element at least.                             *)
LEMMA GrownSizeIs ==
    ASSUME NEW c, NEW q, Formed(q, c)
    PROVE  GrownSize(q) \in Nat \ {0} /\ GrownSize(q) > q.m_i_size
<1> DEFINE m == IF empty(q) THEN MinReserve ELSE q.m_i_size
           S == {k \in {m * p : p \in PowersOfTwo \ {1}} : MinReserve <= k}
<1>1. q.m_i_size \in Nat /\ Word \in Nat /\ MinReserve \in 1..(Word - 1)
  BY Fields, CapacityIs, Width
<1>2. m \in Nat \ {0} /\ q.m_i_size <= m
  BY <1>1 DEF empty
<1>3. GrownSize(q) = Min(S)
  BY DEF GrownSize
<1> HIDE DEF m
<1>4. ASSUME NEW p \in PowersOfTwo \ {1} PROVE m * p \in Nat /\ m * p > m
  <2>1. p \in Nat /\ p >= 2
    BY Divisors
  <2>2. PICK l \in Nat : p = 2 + l
    <3>1. p - 2 \in Nat /\ p = 2 + (p - 2)
      BY <2>1
    <3>2. QED
      BY <3>1
  <2>3. m * p = m + m + m * l /\ m * l \in Nat
    BY <1>2, <2>2
  <2>4. QED
    BY <1>2, <2>3
<1>5. S \subseteq Nat /\ S # {}
  <2>1. Word \in PowersOfTwo \ {1}
    BY Divisors
  <2>2. m * Word \in Nat /\ m * Word >= Word
    <3>1. PICK l \in Nat : m = l + 1
      <4>1. m - 1 \in Nat /\ m = (m - 1) + 1
        BY <1>2
      <4>2. QED
        BY <4>1
    <3>2. m * Word = l * Word + Word /\ l * Word \in Nat
      BY <1>1, <3>1
    <3>3. QED
      BY <1>1, <3>2
  <2>3. m * Word \in S
    BY <1>1, <2>1, <2>2
  <2>4. QED
    BY <1>4, <2>3
<1>6. Min(S) \in S
  BY <1>5, MinIs
<1>7. PICK p \in PowersOfTwo \ {1} : Min(S) = m * p
  BY <1>6
<1>8. QED
  BY <1>1, <1>2, <1>3, <1>4, <1>7

(* Subtraction borrows at most once.                                       *)
LEMMA MinusOnce ==
    ASSUME NEW a \in Size, NEW b \in 0..Word
    PROVE  Minus(a, b) = IF b <= a THEN a - b ELSE a + Word - b
<1>1. Word \in Nat \ {0} /\ a \in 0..(Word - 1)
  BY Width DEF Size
<1>2. PICK x : x = a + Word - b
  OBVIOUS
<1>3. x \in 0..(Word + Word - 1)
  BY <1>1, <1>2
<1>4. Minus(a, b) = x % Word
  BY <1>2 DEF Minus
<1>5. x % Word = IF x < Word THEN x ELSE x - Word
  BY <1>1, <1>3, ModOnce
<1>6. QED
  BY <1>1, <1>2, <1>3, <1>4, <1>5

(* A buffer that is made for elements from index f on has them there,      *)
(* unless their indices end at 0 (queue::queue).                           *)
LEMMA PlacedAt ==
    ASSUME NEW n \in 0..MaxCapacity, n # 0, NEW f \in Size, NEW s \in 0..capacity2pow(n),
           NEW e \in Size, e = (f + s) % Word, e # 0
    PROVE  First(NewQueue(n, e, s), capacity2pow(n)) = f
<1> DEFINE d == capacity2pow(n)
           r == NewQueue(n, e, s)
<1>1. d \in Nat \ {0} /\ d \in Capacities
  BY BufferFor
<1>2. r.m_i_start = Minus(e, s) % d /\ r.m_i_loops = Minus(Minus(e, r.m_i_start), s) \div d
  BY <1>1 DEF NewQueue
<1>3. First(r, d) = (r.m_i_start + r.m_i_loops * d) % Word
  BY DEF First
<1>4. s \in 0..d
  OBVIOUS
<1> HIDE DEF d, r
<1>5. /\ Word \in Nat \ {0} /\ e \in 0..(Word - 1) /\ f \in 0..(Word - 1) /\ s \in Nat
      /\ s < Word
  <2>1. d <= MaxCapacity /\ MaxCapacity < Word /\ MaxCapacity \in Nat
    BY <1>1, CapacityAssumption, Divisors, Width DEF Capacities
  <2>2. QED
    BY <1>1, <1>4, <2>1, Width DEF Size
<1>6. e = IF f + s < Word THEN f + s ELSE f + s - Word
  <2>1. PICK a : a = f + s
    OBVIOUS
  <2>2. a \in 0..(Word + Word - 1)
    BY <1>5, <2>1
  <2>3. a % Word = IF a < Word THEN a ELSE a - Word
    BY <1>5, <2>2, ModOnce
  <2>4. QED
    BY <1>5, <2>1, <2>2, <2>3
<1>7. Minus(e, s) = f
  <2>1. s \in 0..Word
    BY <1>5
  <2>2. Minus(e, s) = IF s <= e THEN e - s ELSE e + Word - s
    BY <2>1, MinusOnce
  <2>3. QED
    BY <1>5, <1>6, <2>2
<1>8. PICK t : t = r.m_i_start
  OBVIOUS
<1>9. t = f % d
  BY <1>2, <1>7, <1>8
<1>10. PICK k : k = f \div d
  OBVIOUS
<1>11. k \in Int /\ t \in 0..(d - 1) /\ f = d * k + t
  <2>1. f \in Int /\ d \in Nat \ {0}
    BY <1>1, <1>5
  <2>2. (f \div d) \in Int /\ (f % d) \in 0..(d - 1) /\ f = d * (f \div d) + (f % d)
    BY <2>1, DivMod
  <2>3. QED
    BY <1>9, <1>10, <2>2
<1>12. d * k \in Nat /\ t \in Nat /\ t <= f
  <2>1. k \in 0..f
    BY <1>1, <1>5, <1>10, Quotient
  <2>2. d * k \in Nat
    BY <1>1, <1>5, <2>1
  <2>3. QED
    BY <1>1, <1>11, <2>2
<1>13. Minus(Minus(e, t), s) = f - t
  <2>1. t \in 0..Word /\ s \in 0..Word
    BY <1>5, <1>12
  <2>2. Minus(e, t) = IF t <= e THEN e - t ELSE e + Word - t
    BY <2>1, MinusOnce
  <2>3. PICK x : x = Minus(e, t)
    OBVIOUS
  <2>4. x \in Size
    BY <1>5, <1>12, <2>2, <2>3 DEF Size
  <2>5. Minus(x, s) = IF s <= x THEN x - s ELSE x + Word - s
    BY <2>1, <2>4, MinusOnce
  <2>6. QED
    BY <1>5, <1>6, <1>12, <2>2, <2>3, <2>5
<1>14. r.m_i_loops = k
  <2>1. PICK y \in Nat, z \in Int : y = d * k /\ z = 0
    BY <1>12
  <2>2. f - t = y
    BY <1>11, <1>12, <2>1, <1>5
  <2>3. /\ y = d * k + z /\ z \in 0..(d - 1) /\ k \in Int /\ y \in Int
        /\ d \in Nat \ {0}
    BY <1>1, <1>11, <2>1
  <2>4. y \div d = k
    BY <2>3, ModIs
  <2>5. QED
    BY <1>2, <1>8, <1>13, <2>2, <2>4
<1>15. t + k * d = f
  BY <1>1, <1>11
<1>16. f % Word = f
  <2>1. f \in 0..(Word + Word - 1) /\ Word \in Nat \ {0} /\ f < Word
    BY <1>5
  <2>2. QED
    BY <2>1, ModOnce
<1>17. QED
  BY <1>3, <1>8, <1>14, <1>15, <1>16 DEF d, r

(* The buffer of a queue that grows.                                       *)
LEMMA GrownIs ==
    ASSUME NEW c, NEW q, Formed(q, c), GrownSize(q) <= MaxCapacity
    PROVE  /\ Formed(Grown(q), capacity2pow(GrownSize(q)))
           /\ Grown(q).m_i_size = q.m_i_size
           /\ q.m_i_size < capacity2pow(GrownSize(q))
<1> DEFINE n == GrownSize(q)
           e == end_index(q)
           s == q.m_i_size
<1>1. n \in Nat \ {0} /\ n > s /\ n \in 0..MaxCapacity
  BY GrownSizeIs, CapacityIs
<1>2. n <= capacity2pow(n) /\ capacity2pow(n) \in Nat \ {0}
  BY <1>1, BufferFor
<1>3. s \in Int /\ e \in Size /\ s \in Nat
  BY Fields, CapacityIs, IndicesOf
<1>4. s \in 0..capacity2pow(n) /\ s < capacity2pow(n)
  BY <1>1, <1>2, <1>3
<1>5. Grown(q) = NewQueue(n, e, s)
  BY DEF Grown
<1> HIDE DEF n, e, s
<1>6. Formed(NewQueue(n, e, s), capacity2pow(n)) /\ NewQueue(n, e, s).m_i_size = s
  BY <1>1, <1>3, <1>4, NewIsFormed
<1>7. QED
  BY <1>4, <1>5, <1>6 DEF n, e, s

(* The assertions of reserve() hold unless the index has just overflowed.  *)
LEMMA GrowthKeeps ==
    ASSUME NEW c, NEW q, Formed(q, c), GrownSize(q) <= MaxCapacity,
           end_index(q) # 0 \/ q.m_i_size = 0
    PROVE  GrowthKeepsIndices(q)
<1> DEFINE n == GrownSize(q)
           d == capacity2pow(n)
           r == Grown(q)
           e == end_index(q)
           f == First(q, c)
           s == q.m_i_size
<1>1. Formed(r, d) /\ r.m_i_size = s /\ s < d
  BY GrownIs
<1>2. f \in Size /\ begin_index(q) = f /\ e = Index(q, c, s) /\ e \in Size /\ s \in Int /\ s \in Nat
  BY IndicesOf, Fields, CapacityIs
<1>3. begin_index(r) = First(r, d) /\ end_index(r) = Index(r, d, s)
  BY <1>1, IndicesOf
<1>4. n \in 0..MaxCapacity /\ n # 0
  BY GrownSizeIs, CapacityIs
<1>5. r = NewQueue(n, e, s) /\ d = capacity2pow(n) /\ e = (f + s) % Word
  BY <1>2 DEF Grown, Index
<1>6. Index(r, d, s) = (First(r, d) + s) % Word
  BY DEF Index
<1>7. First(r, d) = f => GrowthKeepsIndices(q)
  BY <1>2, <1>3, <1>5, <1>6 DEF GrowthKeepsIndices
<1>8. d \in Nat
  BY <1>1, CapacityIs
<1> HIDE DEF n, r, e, f, s, d
<1>9. CASE e # 0
  <2>1. s \in 0..capacity2pow(n)
    BY <1>1, <1>2, <1>5, <1>8
  <2>2. First(NewQueue(n, e, s), capacity2pow(n)) = f
    BY <1>2, <1>4, <1>5, <1>9, <2>1, PlacedAt
  <2>3. QED
    BY <1>5, <1>7, <2>2
<1>10. CASE e = 0
  <2>1. s = 0
    BY <1>10 DEF e, s
  <2>2. f = 0
    <3>1. f \in 0..(Word - 1) /\ Word \in Nat \ {0} /\ f + s = f
      BY <1>2, <2>1, Width DEF Size
    <3>2. f \in 0..(Word + Word - 1)
      BY <3>1
    <3>3. f % Word = f
      BY <3>1, <3>2, ModOnce
    <3>4. QED
      BY <1>5, <1>10, <3>1, <3>3
  <2>3. r.m_i_start = 0 /\ r.m_i_loops = 0
    BY <1>5, <1>10 DEF NewQueue
  <2>4. First(r, d) = 0
    <3>1. First(r, d) = (r.m_i_start + r.m_i_loops * d) % Word
      BY DEF First
    <3>2. r.m_i_start + r.m_i_loops * d = 0
      BY <1>8, <2>3
    <3>3. PICK z \in Int : z = 0
      OBVIOUS
    <3>4. Word \in Nat \ {0} /\ z \in 0..(Word + Word - 1) /\ z < Word
      BY <3>3, Width
    <3>5. z % Word = z
      BY <3>4, ModOnce
    <3>6. QED
      BY <3>1, <3>2, <3>3, <3>5
  <2>5. QED
    BY <1>7, <2>2, <2>4
<1>11. QED
  BY <1>9, <1>10

-----------------------------------------------------------------------------
(* The first index, reduced to the buffer, is where the queue starts.      *)
LEMMA StartOf ==
    ASSUME NEW c, NEW q, Formed(q, c), c # 0
    PROVE  First(q, c) % c = q.m_i_start /\ q.m_i_start \in 0..(c - 1)
<1>1. c \in Nat /\ q.m_i_start \in Nat /\ q.m_i_start < c
  BY CapacityIs, Fields
<1>2. PICK k : k = 0
  OBVIOUS
<1>3. k \in 0..(c - 1)
  BY <1>1, <1>2
<1>4. Index(q, c, k) % c = Slot(q, c, k)
  BY <1>3, SlotOf
<1>5. Slot(q, c, k) = q.m_i_start
  BY <1>1, <1>2 DEF Slot
<1>6. Index(q, c, k) = First(q, c)
  <2>1. PICK f : f = First(q, c)
    OBVIOUS
  <2>2. f \in 0..(Word - 1) /\ Word \in Nat \ {0}
    BY <2>1, IndicesOf, Width DEF Size
  <2>3. f \in 0..(Word + Word - 1) /\ f < Word /\ f + k = f
    BY <1>2, <2>2
  <2>4. f % Word = f
    BY <2>2, <2>3, ModOnce
  <2>5. QED
    BY <2>1, <2>3, <2>4 DEF Index
<1>7. QED
  BY <1>1, <1>4, <1>5, <1>6

(* operator[] finds what is written.                                       *)
LEMMA AtFinds ==
    ASSUME NEW c, NEW q, Formed(q, c), NEW n \in Nat, Written(q, c, n), NEW k \in 0..(n - 1)
    PROVE  At(q, Index(q, c, k)) = Index(q, c, k)
<1>1. k \in 0..(c - 1) /\ Capacity(q) = c
  BY CapacityIs DEF Written
<1>2. Index(q, c, k) % c = Slot(q, c, k)
  BY <1>1, SlotOf
<1>3. QED
  BY <1>1, <1>2 DEF At, Written

(* reserve() of a full queue keeps elements and indices and makes room.    *)
LEMMA ReserveKeeps ==
    ASSUME NEW c, NEW q, Formed(q, c), Written(q, c, q.m_i_size), full(q),
           GrownSize(q) <= MaxCapacity, GrowthKeepsIndices(q)
    PROVE  LET d == capacity2pow(GrownSize(q))
               r == reserve(q)
           IN /\ Formed(r, d) /\ r.m_i_size = q.m_i_size /\ q.m_i_size < d
              /\ First(r, d) = First(q, c) /\ Written(r, d, q.m_i_size)
<1> DEFINE d == capacity2pow(GrownSize(q))
           g == Grown(q)
           r == reserve(q)
           f == First(q, c)
           s == q.m_i_size
           age(slot) == (slot + (d - (f % d))) % d
<1>1. Formed(g, d) /\ g.m_i_size = s /\ s < d
  BY GrownIs
<1>2. begin_index(q) = f /\ begin_index(g) = First(g, d) /\ f \in Size
  BY <1>1, IndicesOf
<1>3. First(g, d) = f
  BY <1>2 DEF GrowthKeepsIndices
<1>4. s \in Nat /\ d \in Nat \ {0} /\ c \in Nat
  BY <1>1, Fields, CapacityIs
<1>5. Capacity(g) = d /\ DOMAIN g.m_vec_queue = 0..(d - 1)
  BY <1>1, CapacityIs DEF Formed, Queues
<1>6. r = [g EXCEPT !.m_vec_queue =
             [slot \in 0..(d - 1) |->
                IF age(slot) < s THEN At(q, (f + age(slot)) % Word) ELSE Unset]]
  BY <1>2, <1>5 DEF reserve
<1>7. g.m_i_start \in 0..(d - 1) /\ f % d = g.m_i_start
  BY <1>1, <1>3, <1>4, StartOf
<1>8. ASSUME NEW k \in 0..(s - 1)
      PROVE  (f + k) % Word \in Size /\ At(q, (f + k) % Word) = (f + k) % Word
  <2>1. At(q, Index(q, c, k)) = Index(q, c, k)
    BY <1>4, AtFinds
  <2>2. Index(q, c, k) \in Size
    BY <1>4, IndicesOf
  <2>3. QED
    BY <2>1, <2>2 DEF Index
<1> DEFINE v == [slot \in 0..(d - 1) |->
                   IF age(slot) < s THEN At(q, (f + age(slot)) % Word) ELSE Unset]
<1> HIDE DEF d, g, r, f, s
<1>9. ASSUME NEW slot \in 0..(d - 1) PROVE age(slot) \in 0..(d - 1)
  <2>1. PICK x : x = slot + (d - (f % d))
    OBVIOUS
  <2>2. x \in Int
    BY <1>4, <1>7, <2>1
  <2>3. (x % d) \in 0..(d - 1)
    BY <1>4, <2>2, DivMod
  <2>4. QED
    BY <2>1, <2>3
<1>10. v \in [0..(d - 1) -> Size \cup {Unset}]
  <2>1. ASSUME NEW slot \in 0..(d - 1), age(slot) < s
        PROVE  At(q, (f + age(slot)) % Word) \in Size
    <3>1. PICK k : k = age(slot)
      OBVIOUS
    <3>2. k \in 0..(s - 1)
      BY <1>4, <1>9, <2>1, <3>1
    <3>3. QED
      BY <1>8, <3>1, <3>2
  <2> HIDE DEF age
  <2>2. QED
    BY <2>1
<1>11. r = [g EXCEPT !.m_vec_queue = v]
  BY <1>6
<1>12. ASSUME NEW k \in 0..(s - 1) PROVE v[Slot(g, d, k)] = (f + k) % Word
  <2>1. k \in 0..(d - 1) /\ k < s
    BY <1>1, <1>4
  <2>2. PICK slot : slot = Slot(g, d, k)
    OBVIOUS
  <2>3. slot = IF g.m_i_start + k < d THEN g.m_i_start + k ELSE g.m_i_start + k - d
    BY <2>2 DEF Slot
  <2>4. slot \in 0..(d - 1)
    BY <1>4, <1>7, <2>1, <2>3
  <2>5. PICK x : x = slot + (d - (f % d))
    OBVIOUS
  <2>6. x = k \/ x = k + d
    BY <1>4, <1>7, <2>1, <2>3, <2>5
  <2>7. x \in 0..(d + d - 1) /\ d \in Nat \ {0}
    BY <1>4, <2>1, <2>6
  <2>8. x % d = IF x < d THEN x ELSE x - d
    BY <2>7, ModOnce
  <2>9. x % d = k
    BY <1>4, <2>1, <2>6, <2>8
  <2>10. age(slot) = k
    BY <2>5, <2>9
  <2>11. v[slot] = IF age(slot) < s THEN At(q, (f + age(slot)) % Word) ELSE Unset
    BY <2>4
  <2> HIDE DEF age, v
  <2>12. QED
    BY <1>8, <2>1, <2>2, <2>10, <2>11
<1> HIDE DEF age, v
<1>13. g \in Queues(d) /\ d \in Capacities /\ (g.m_i_start = 0 \/ g.m_i_start < d)
  BY <1>1 DEF Formed
<1>14. /\ r \in Queues(d) /\ r.m_i_start = g.m_i_start /\ r.m_i_loops = g.m_i_loops
       /\ r.m_i_size = s /\ r.m_vec_queue = v
  BY <1>1, <1>10, <1>11, <1>13 DEF Queues
<1>15. Formed(r, d)
  BY <1>13, <1>14 DEF Formed
<1>16. First(r, d) = f
  BY <1>3, <1>14 DEF First
<1>17. Written(r, d, s)
  BY <1>1, <1>4, <1>12, <1>14, <1>16 DEF Written, Index, Slot
<1>18. QED
  BY <1>1, <1>14, <1>15, <1>16, <1>17 DEF d, g, r, f, s

(* A push into a buffer that has room.                                     *)
LEMMA PushKeeps ==
    ASSUME NEW d, NEW q, NEW r, reserve(q) = r, Formed(r, d), r.m_i_size < d,
           NEW n \in Nat, r.m_i_size <= n, Written(r, d, n),
           NEW e, e = Index(r, d, r.m_i_size)
    PROVE  LET p == push(q, e)
           IN /\ Formed(p, d) /\ p.m_i_size = r.m_i_size + 1
              /\ p.m_i_start = r.m_i_start /\ p.m_i_loops = r.m_i_loops
              /\ Written(p, d, IF r.m_i_size < n THEN n ELSE n + 1)
<1> DEFINE s == r.m_i_size
           i == Slot(r, d, s)
           p == push(q, e)
<1>1. d \in Nat /\ Capacity(r) = d /\ s \in Nat /\ r.m_i_start \in Nat
  BY CapacityIs, Fields
<1>2. s \in 0..(d - 1)
  BY <1>1
<1>3. i \in 0..(d - 1)
  BY <1>2, SlotOf
<1>4. p = [r EXCEPT !.m_vec_queue[i] = e, !.m_i_size = @ + 1]
  <2>1. i = IF r.m_i_start + r.m_i_size >= Capacity(r)
            THEN r.m_i_start + r.m_i_size - Capacity(r) ELSE r.m_i_start + r.m_i_size
    BY <1>1 DEF Slot
  <2> HIDE DEF i
  <2>2. QED
    BY <2>1 DEF push
<1> HIDE DEF i, p
<1>5. r \in Queues(d) /\ e \in Size
  BY <1>1, IndicesOf DEF Formed
<1>6. /\ p \in Queues(d) /\ p.m_i_size = s + 1 /\ p.m_i_start = r.m_i_start
      /\ p.m_i_loops = r.m_i_loops /\ p.m_vec_queue = [r.m_vec_queue EXCEPT ![i] = e]
  <2>1. PICK v : v = [r.m_vec_queue EXCEPT ![i] = e]
    OBVIOUS
  <2>2. r.m_vec_queue \in [0..(d - 1) -> Size \cup {Unset}]
    BY Fields
  <2>3. v \in [0..(d - 1) -> Size \cup {Unset}]
    BY <1>5, <2>1, <2>2
  <2>4. PICK t : t = s + 1
    OBVIOUS
  <2>5. t \in 0..d
    BY <1>1, <1>2, <2>4
  <2>6. p = [r EXCEPT !.m_vec_queue = v, !.m_i_size = t]
    BY <1>4, <2>1, <2>4
  <2>7. /\ p \in Queues(d) /\ p.m_i_size = t /\ p.m_i_start = r.m_i_start
        /\ p.m_i_loops = r.m_i_loops /\ p.m_vec_queue = v
    BY <1>5, <2>3, <2>5, <2>6 DEF Queues
  <2>8. QED
    BY <2>1, <2>4, <2>7
<1>7. Formed(p, d)
  BY <1>6 DEF Formed
<1>8. \A k : Slot(p, d, k) = Slot(r, d, k) /\ Index(p, d, k) = Index(r, d, k)
  BY <1>6 DEF Slot, Index, First
<1>9. ASSUME NEW k \in 0..(d - 1), k < n \/ k = s
      PROVE  p.m_vec_queue[Slot(p, d, k)] = Index(p, d, k)
  <2>1. Slot(r, d, k) \in 0..(d - 1)
    BY SlotOf
  <2>2. r.m_vec_queue \in [0..(d - 1) -> Size \cup {Unset}]
    BY Fields
  <2>3. CASE k = s
    BY <1>3, <1>6, <1>8, <2>2, <2>3 DEF i
  <2>4. CASE k # s
    <3>1. Slot(r, d, k) # i
      BY <1>2, <2>4, SlotsDiffer DEF i
    <3>2. p.m_vec_queue[Slot(r, d, k)] = r.m_vec_queue[Slot(r, d, k)]
      BY <1>6, <2>1, <2>2, <3>1
    <3>3. k \in 0..(n - 1)
      BY <1>1, <1>9, <2>4
    <3>4. r.m_vec_queue[Slot(r, d, k)] = Index(r, d, k)
      BY <3>3 DEF Written
    <3>5. QED
      BY <1>8, <3>2, <3>4
  <2>5. QED
    BY <2>3, <2>4
<1>10. Written(p, d, IF s < n THEN n ELSE n + 1)
  <2>1. n <= d
    BY DEF Written
  <2>2. CASE s < n
    BY <1>1, <1>9, <2>1, <2>2 DEF Written
  <2>3. CASE ~ (s < n)
    <3>1. n = s
      BY <1>1, <2>3
    <3>2. QED
      BY <1>1, <1>2, <1>9, <2>3, <3>1 DEF Written
  <2>4. QED
    BY <2>2, <2>3
<1>11. QED
  BY <1>6, <1>7, <1>10 DEF p

(* A factor may be reduced before the product is.                          *)
LEMMA ModOfProduct ==
    ASSUME NEW a \in Int, NEW c \in Int, NEW w \in Nat \ {0}
    PROVE  ((a % w) * c) % w = (a * c) % w
<1> DEFINE k == a \div w
           r == a % w
           l == (r * c) \div w
           s == (r * c) % w
<1>1. k \in Int /\ r \in 0..(w - 1) /\ a = w * k + r
  BY DivMod
<1> HIDE DEF k, r
<1>2. l \in Int /\ s \in 0..(w - 1) /\ r * c = w * l + s
  <2>1. r * c \in Int
    BY <1>1
  <2>2. QED
    BY <2>1, DivMod
<1> HIDE DEF l, s
<1>3. a * c = w * (k * c + l) + s /\ k * c + l \in Int /\ a * c \in Int
  <2>1. a * c = (w * k) * c + r * c
    BY <1>1
  <2>2. k * c \in Int /\ w * (k * c) = (w * k) * c /\ a * c \in Int
    BY <1>1
  <2>3. w * (k * c + l) = w * (k * c) + w * l
    BY <1>2, <2>2
  <2>4. QED
    BY <1>1, <1>2, <2>1, <2>2, <2>3
<1>4. (a * c) % w = s
  BY <1>2, <1>3, ModIs
<1>5. QED
  BY <1>4 DEF s, r

(* The indices after the one after k others.                               *)
LEMMA IndexAfter ==
    ASSUME NEW c, NEW q, Formed(q, c), NEW k \in Int, NEW j \in Int
    PROVE  (Index(q, c, k) + j) % Word = Index(q, c, k + j)
<1> DEFINE f == First(q, c)
<1>1. f \in Int /\ Word \in Nat \ {0}
  BY IndicesOf, Width DEF Size
<1>2. Index(q, c, k) = (f + k) % Word /\ Index(q, c, k + j) = (f + (k + j)) % Word
  BY DEF Index
<1> HIDE DEF f
<1>3. PICK a : a = f + k
  OBVIOUS
<1>4. a \in Int
  BY <1>1, <1>3
<1>5. ((a % Word) + j) % Word = (a + j) % Word
  BY <1>1, <1>4, ModOfSum
<1>6. a + j = f + (k + j)
  BY <1>1, <1>3
<1>7. QED
  BY <1>2, <1>3, <1>5, <1>6

(* pop() removes the first element and leaves the others.                  *)
LEMMA PopKeeps ==
    ASSUME NEW c, NEW q, Formed(q, c), Written(q, c, q.m_i_size), ~ empty(q)
    PROVE  LET p == pop(q)
           IN /\ Formed(p, c) /\ p.m_i_size = q.m_i_size - 1
              /\ Written(p, c, q.m_i_size - 1)
              /\ First(p, c) = Index(q, c, 1)
<1> DEFINE s == q.m_i_start
           l == q.m_i_loops
           n == q.m_i_size
           p == pop(q)
<1>1. /\ c \in Nat /\ Capacity(q) = c /\ n \in 1..c /\ s \in 0..(c - 1) /\ l \in Int
      /\ Word \in Nat \ {0} /\ s \in Size /\ c < Word
  BY Fields, CapacityIs, Width DEF empty, Size
<1>2. PICK v : v = [q.m_vec_queue EXCEPT ![s] = Unset]
  OBVIOUS
<1>3. q.m_vec_queue \in [0..(c - 1) -> Size \cup {Unset}] /\ q \in Queues(c) /\ c \in Capacities
  BY DEF Formed, Queues
<1>4. PICK t, u, m : /\ t = IF s + 1 = c THEN 0 ELSE s + 1
                     /\ u = IF s + 1 = c THEN (l + 1) % Word ELSE l
                     /\ m = n - 1
  OBVIOUS
<1>5. p = [q EXCEPT !.m_i_size = m, !.m_vec_queue = v, !.m_i_start = t, !.m_i_loops = u]
  <2>1. q \in Queues(c)
    BY <1>3
  <2>2. CASE s + 1 = c
    BY <1>1, <1>2, <1>4, <2>1, <2>2 DEF pop, Queues
  <2>3. CASE s + 1 # c
    BY <1>1, <1>2, <1>4, <2>1, <2>3 DEF pop, Queues
  <2>4. QED
    BY <2>2, <2>3
<1>6. v \in [0..(c - 1) -> Size \cup {Unset}]
  BY <1>2, <1>3
<1>7. t \in Size /\ t < c /\ m \in 0..c /\ u \in Size
  <2>1. (l + 1) \in Int
    BY <1>1
  <2>2. ((l + 1) % Word) \in Size
    BY <1>1, <2>1, DivMod DEF Size
  <2>3. t \in Size /\ t < c
    BY <1>1, <1>4 DEF Size
  <2>4. l \in Size
    BY DEF Formed, Queues
  <2>5. QED
    BY <1>1, <1>4, <2>2, <2>3, <2>4
<1> HIDE DEF s, l, n, p
<1>8. /\ p \in Queues(c) /\ p.m_i_size = m /\ p.m_i_start = t /\ p.m_i_loops = u
      /\ p.m_vec_queue = v
  BY <1>3, <1>5, <1>6, <1>7 DEF Queues
<1>9. Formed(p, c)
  BY <1>3, <1>7, <1>8 DEF Formed
<1>10. First(p, c) = Index(q, c, 1)
  <2>1. First(q, c) = (s + l * c) % Word /\ Index(q, c, 1) = (First(q, c) + 1) % Word
    BY DEF First, Index, s, l
  <2>2. First(p, c) = (t + u * c) % Word
    BY <1>8 DEF First
  <2>3. PICK a, b : a = s + l * c /\ b = 1
    OBVIOUS
  <2>4. a \in Int /\ b \in Int
    BY <1>1, <2>3
  <2>5. ((a % Word) + b) % Word = (a + b) % Word
    BY <1>1, <2>4, ModOfSum
  <2>6. Index(q, c, 1) = (s + l * c + 1) % Word
    BY <2>1, <2>3, <2>5
  <2>7. CASE s + 1 = c
    <3>1. PICK x \in Int : x = l + 1
      BY <1>1
    <3>2. ((x % Word) * c) % Word = (x * c) % Word
      <4>1. x \in Int /\ c \in Int /\ Word \in Nat \ {0}
        BY <1>1, <3>1
      <4>2. QED
        BY <4>1, ModOfProduct
    <3>3. x * c = s + l * c + 1
      BY <1>1, <2>7, <3>1
    <3>4. t = 0 /\ u = x % Word
      BY <1>4, <2>7, <3>1
    <3>5. t + u * c = (x % Word) * c
      BY <1>1, <1>7, <3>4 DEF Size
    <3>6. QED
      BY <2>2, <2>6, <3>2, <3>3, <3>5
  <2>8. CASE s + 1 # c
    <3>1. t + u * c = s + l * c + 1
      BY <1>1, <1>4, <2>8
    <3>2. QED
      BY <2>2, <2>6, <3>1
  <2>9. QED
    BY <2>7, <2>8
<1>11. ASSUME NEW k \in 0..(m - 1) PROVE p.m_vec_queue[Slot(p, c, k)] = Index(p, c, k)
  <2>1. PICK j : j = k + 1
    OBVIOUS
  <2>2. j \in 0..(n - 1) /\ j \in 0..(c - 1) /\ k \in Int /\ j # 0
    BY <1>1, <1>4, <1>7, <2>1
  <2>3. Slot(q, c, j) \in 0..(c - 1) /\ q.m_vec_queue[Slot(q, c, j)] = Index(q, c, j)
    BY <2>2, SlotOf DEF Written, n
  <2>4. Slot(p, c, k) = Slot(q, c, j)
    BY <1>1, <1>4, <1>8, <2>1, <2>2 DEF Slot, s
  <2>5. Index(p, c, k) = Index(q, c, j)
    <3>1. PICK i \in Int : i = 1
      OBVIOUS
    <3>2. (Index(q, c, i) + k) % Word = Index(q, c, i + k)
      BY <2>2, IndexAfter
    <3>3. i + k = j
      BY <2>1, <2>2, <3>1
    <3>4. Index(p, c, k) = (First(p, c) + k) % Word
      BY DEF Index
    <3>5. QED
      BY <1>10, <3>1, <3>2, <3>3, <3>4
  <2>6. Slot(q, c, j) # s
    BY <1>1, <2>2 DEF Slot, s
  <2>7. QED
    BY <1>2, <1>3, <1>8, <2>3, <2>4, <2>5, <2>6
<1>12. Written(p, c, m)
  BY <1>1, <1>4, <1>7, <1>11 DEF Written
<1>13. QED
  BY <1>4, <1>8, <1>9, <1>10, <1>12 DEF p, n

(* The free range is where the next elements go, and recv() fills it with  *)
(* them.                                                                   *)
LEMMA FilledKeeps ==
    ASSUME NEW d, NEW r, Formed(r, d), r.m_i_size < d, Written(r, d, r.m_i_size)
    PROVE  LET b == Min(FreeRange(r))
           IN /\ b = Slot(r, d, r.m_i_size) /\ Cardinality(FreeRange(r)) \in Nat
              /\ b + Cardinality(FreeRange(r)) <= d
              /\ r.m_i_size + Cardinality(FreeRange(r)) <= d
              /\ \A res \in 0..Cardinality(FreeRange(r)) :
                    LET p == Filled(r, b, res)
                    IN /\ Formed(p, d) /\ p.m_i_size = r.m_i_size
                       /\ p.m_i_start = r.m_i_start /\ p.m_i_loops = r.m_i_loops
                       /\ Written(p, d, r.m_i_size + res)
<1> DEFINE s == r.m_i_start
           n == r.m_i_size
           i == Slot(r, d, n)
           j == IF s + n >= d THEN s ELSE d
           b == Min(FreeRange(r))
           m == Cardinality(FreeRange(r))
<1>1. /\ d \in Nat /\ Capacity(r) = d /\ n \in 0..(d - 1) /\ s \in 0..(d - 1)
      /\ Word \in Nat \ {0} /\ d < Word
  BY Fields, CapacityIs, Width
<1>2. i = (IF s + n >= d THEN s + n - d ELSE s + n) /\ i \in 0..(d - 1)
  BY <1>1 DEF Slot
<1>3. FreeRange(r) = i..(j - 1)
  BY <1>1, <1>2 DEF FreeRange
<1> HIDE DEF i
<1>4. j \in 0..d /\ i < j /\ n + (j - i) <= d
  BY <1>1, <1>2
<1> HIDE DEF j
<1>5. b = i
  <2>1. i..(j - 1) \subseteq Nat /\ i \in i..(j - 1)
    BY <1>1, <1>2, <1>4
  <2>2. Min(i..(j - 1)) \in i..(j - 1) /\ \A y \in i..(j - 1) : Min(i..(j - 1)) <= y
    BY <2>1, MinIs
  <2>3. QED
    BY <1>2, <1>3, <1>4, <2>1, <2>2
<1>6. m = j - i
  <2>1. i \in Int /\ j - 1 \in Int
    BY <1>2, <1>4
  <2>2. Cardinality(i..(j - 1)) = IF i > j - 1 THEN 0 ELSE j - 1 - i + 1
    BY <2>1, FS_Interval
  <2>3. QED
    BY <1>2, <1>3, <1>4, <2>2
<1>7. m \in Nat /\ b + m <= d /\ n + m <= d
  BY <1>1, <1>2, <1>4, <1>5, <1>6
<1> HIDE DEF b, m
<1>8. ASSUME NEW res \in 0..m
      PROVE  LET p == Filled(r, b, res)
             IN /\ Formed(p, d) /\ p.m_i_size = r.m_i_size
                /\ p.m_i_start = r.m_i_start /\ p.m_i_loops = r.m_i_loops
                /\ Written(p, d, r.m_i_size + res)
  <2> DEFINE p == Filled(r, b, res)
             put(slot) == (end_index(r) + slot - b) % Word
  <2>1. PICK v : v = [slot \in 0..(d - 1) |->
                        IF slot \in b..(b + res - 1) THEN put(slot) ELSE r.m_vec_queue[slot]]
    OBVIOUS
  <2>2. r.m_vec_queue \in [0..(d - 1) -> Size \cup {Unset}] /\ r \in Queues(d) /\ d \in Capacities
    BY DEF Formed, Queues
  <2>3. p = [r EXCEPT !.m_vec_queue = v]
    BY <2>1, <2>2 DEF Filled, Queues
  <2>4. end_index(r) = Index(r, d, n) /\ end_index(r) \in 0..(Word - 1)
    BY <1>1, IndicesOf DEF Size
  <2>5. \A slot \in 0..(d - 1) : put(slot) \in Size
    <3> TAKE slot \in 0..(d - 1)
    <3>1. PICK x : x = end_index(r) + slot - b
      OBVIOUS
    <3>2. x \in Int
      BY <1>1, <1>2, <1>5, <2>4, <3>1
    <3>3. (x % Word) \in Size
      BY <1>1, <3>2, DivMod DEF Size
    <3>4. QED
      BY <3>1, <3>3
  <2>6. ASSUME NEW k \in 0..(res - 1) PROVE b + k \in 0..(d - 1) /\ put(b + k) = Index(r, d, n + k)
    <3>1. k \in Int /\ n \in Int /\ b \in 0..(d - 1) /\ b + k \in 0..(d - 1) /\ end_index(r) \in Int
      BY <1>1, <1>2, <1>5, <1>7, <2>4
    <3>2. (Index(r, d, n) + k) % Word = Index(r, d, n + k)
      BY <3>1, IndexAfter
    <3>3. end_index(r) + (b + k) - b = end_index(r) + k
      BY <3>1, <1>1
    <3>4. QED
      BY <2>4, <3>1, <3>2, <3>3
  <2> HIDE DEF put, p
  <2>7. v \in [0..(d - 1) -> Size \cup {Unset}]
    BY <2>1, <2>2, <2>5
  <2>8. /\ p \in Queues(d) /\ p.m_i_size = n /\ p.m_i_start = s /\ p.m_i_loops = r.m_i_loops
        /\ p.m_vec_queue = v
    BY <2>2, <2>3, <2>7 DEF Queues
  <2>9. Formed(p, d)
    BY <1>1, <2>2, <2>8 DEF Formed
  <2>10. \A k : Slot(p, d, k) = Slot(r, d, k) /\ Index(p, d, k) = Index(r, d, k)
    BY <2>8 DEF Slot, Index, First
  <2>11. ASSUME NEW k \in 0..(n - 1)
         PROVE  p.m_vec_queue[Slot(p, d, k)] = Index(p, d, k)
    <3>1. k \in 0..(d - 1)
      BY <1>1
    <3>2. Slot(r, d, k) \in 0..(d - 1)
      BY <3>1, SlotOf
    <3>3. Slot(r, d, k) \notin b..(b + res - 1)
      <4>1. Slot(r, d, k) = IF s + k < d THEN s + k ELSE s + k - d
        BY DEF Slot
      <4>2. b + res <= j
        BY <1>1, <1>2, <1>4, <1>5, <1>6
      <4>3. QED
        BY <1>1, <1>2, <1>4, <1>5, <3>1, <4>1, <4>2 DEF j
    <3>4. v[Slot(r, d, k)] = r.m_vec_queue[Slot(r, d, k)]
      BY <2>1, <3>2, <3>3
    <3>5. r.m_vec_queue[Slot(r, d, k)] = Index(r, d, k)
      BY DEF Written
    <3>6. QED
      BY <2>8, <2>10, <3>4, <3>5
  <2>12. ASSUME NEW k \in 0..(res - 1)
         PROVE  p.m_vec_queue[Slot(p, d, n + k)] = Index(p, d, n + k)
    <3>1. Slot(r, d, n + k) = b + k
      <4>1. Slot(r, d, n + k) = IF s + (n + k) < d THEN s + (n + k) ELSE s + (n + k) - d
        BY DEF Slot
      <4>2. b + k < j /\ k \in Nat
        BY <1>1, <1>2, <1>4, <1>5, <1>6, <1>7
      <4>3. QED
        BY <1>1, <1>2, <1>4, <1>5, <4>1, <4>2 DEF j
    <3>2. b + k \in 0..(d - 1) /\ put(b + k) = Index(r, d, n + k)
      BY <2>6
    <3>3. b + k \in b..(b + res - 1)
      BY <1>1, <1>2, <1>5, <1>7
    <3>4. v[b + k] = put(b + k)
      BY <2>1, <3>2, <3>3
    <3>5. QED
      BY <2>8, <2>10, <3>1, <3>2, <3>4
  <2>13. Written(p, d, n + res)
    <3>1. PICK t : t = n + res
      OBVIOUS
    <3>2. t <= d
      BY <1>1, <1>7, <3>1
    <3>3. ASSUME NEW k \in 0..(t - 1)
          PROVE  p.m_vec_queue[Slot(p, d, k)] = Index(p, d, k)
      <4>1. CASE k < n
        BY <1>1, <1>7, <2>11, <3>1, <4>1
      <4>2. CASE k >= n
        <5>1. PICK l : l = k - n
          OBVIOUS
        <5>2. l \in 0..(res - 1) /\ n + l = k
          BY <1>1, <1>7, <3>1, <4>2, <5>1
        <5>3. QED
          BY <2>12, <5>2
      <4>3. QED
        BY <1>1, <1>7, <3>1, <4>1, <4>2
    <3>4. Written(p, d, t)
      BY <3>2, <3>3 DEF Written
    <3>5. QED
      BY <3>1, <3>4
  <2>14. QED
    BY <2>8, <2>9, <2>13 DEF p
<1>9. QED
  BY <1>5, <1>7, <1>8 DEF b, m, i

(* The valid indices are those of the elements.                            *)
LEMMA ValidIndices ==
    ASSUME NEW c, NEW q, Formed(q, c), NEW i \in Size
    PROVE  valid_index(q, i) <=> \E k \in 0..(q.m_i_size - 1) : i = Index(q, c, k)
<1> DEFINE f == First(q, c)
           n == q.m_i_size
<1>1. begin_index(q) = f /\ end_index(q) = Index(q, c, n) /\ f \in Size
  BY IndicesOf
<1>2. /\ Word \in Nat \ {0} /\ n \in Nat /\ n < Word /\ f \in 0..(Word - 1) /\ i \in 0..(Word - 1)
  BY <1>1, Fields, CapacityIs, Width DEF Size
<1>3. \A k : Index(q, c, k) = (f + k) % Word
  BY DEF Index
<1>4. valid_index(q, i) <=>
        \/ f < Index(q, c, n) /\ f <= i /\ i < Index(q, c, n)
        \/ f > Index(q, c, n) /\ (f <= i \/ i < Index(q, c, n))
  BY <1>1 DEF valid_index
<1> HIDE DEF f, n
<1>5. ASSUME NEW k \in 0..n
      PROVE  Index(q, c, k) = IF f + k < Word THEN f + k ELSE f + k - Word
  <2>1. PICK a : a = f + k
    OBVIOUS
  <2>2. a \in 0..(Word + Word - 1)
    BY <1>2, <2>1
  <2>3. a % Word = IF a < Word THEN a ELSE a - Word
    BY <1>2, <2>2, ModOnce
  <2>4. QED
    BY <1>2, <1>3, <2>1, <2>2, <2>3
<1>6. Index(q, c, n) = IF f + n < Word THEN f + n ELSE f + n - Word
  BY <1>2, <1>5
<1>7. ASSUME NEW k \in 0..(n - 1), i = Index(q, c, k) PROVE valid_index(q, i)
  <2>1. i = IF f + k < Word THEN f + k ELSE f + k - Word
    BY <1>2, <1>5, <1>7
  <2>2. QED
    BY <1>2, <1>4, <1>6, <2>1
<1>8. ASSUME valid_index(q, i) PROVE \E k \in 0..(n - 1) : i = Index(q, c, k)
  <2>1. PICK k : k = IF f <= i THEN i - f ELSE i + Word - f
    OBVIOUS
  <2>2. k \in 0..(n - 1)
    BY <1>2, <1>4, <1>6, <1>8, <2>1
  <2>3. i = IF f + k < Word THEN f + k ELSE f + k - Word
    BY <1>2, <2>1, <2>2
  <2>4. Index(q, c, k) = IF f + k < Word THEN f + k ELSE f + k - Word
    BY <1>2, <1>5, <2>2
  <2>5. QED
    BY <2>2, <2>3, <2>4
<1>9. QED
  BY <1>7, <1>8 DEF n

-----------------------------------------------------------------------------
(* The queue has a buffer of c elements, and what is written in it begins  *)
(* with the queue's elements and goes on with those yet to be pushed.      *)
Holding(q, c, ch) ==
    /\ Formed(q, c) /\ Written(q, c, q.m_i_size + ch.left)
    /\ ch.left > 0 => ch.slot = Slot(q, c, q.m_i_size) /\ ch.slot + ch.left <= c

QueueInv ==
    /\ \E c \in Capacities : Holding(queue, c, chunk)
    /\ chunk \in [slot : Size, left : Size]
    /\ aborted \in BOOLEAN /\ AbortsAtOverflow

(* A push at the end, with or without growth, when the element is the one  *)
(* that is due.                                                            *)
LEMMA PushOfStep ==
    ASSUME NEW c \in Capacities, Holding(queue, c, chunk), AbortsAtOverflow,
           chunk \in [slot : Size, left : Size], ~ aborted,
           NEW e, e = Index(queue, c, queue.m_i_size), PushOf(e)
    PROVE  \/ aborted' /\ queue' = queue /\ AbortsAtOverflow' /\ full(queue)
           \/ /\ ~ aborted' /\ AbortsAtOverflow'
              /\ \E d \in Capacities :
                    /\ Formed(queue', d) /\ queue'.m_i_size = queue.m_i_size + 1
                    /\ First(queue', d) = First(queue, c)
                    /\ chunk.left = 0 => Written(queue', d, queue.m_i_size + 1)
                    /\ chunk.left > 0 =>
                          /\ d = c /\ queue'.m_i_start = queue.m_i_start
                          /\ Written(queue', d, queue.m_i_size + chunk.left)
<1> DEFINE n == queue.m_i_size
           l == chunk.left
<1>1. /\ Formed(queue, c) /\ Written(queue, c, n + l) /\ n \in 0..c /\ l \in Nat /\ c \in Nat
      /\ Capacity(queue) = c
  BY Fields, CapacityIs, Width DEF Holding, Size
<1>2. /\ full(queue) => GrownSize(queue) <= MaxCapacity
      /\ aborted' = PushAborts(queue)
      /\ queue' = IF PushAborts(queue) THEN queue ELSE push(queue, e)
  BY DEF PushOf, Fits
<1>3. full(queue) <=> n = c
  BY <1>1 DEF full
<1>4. CASE PushAborts(queue)
  <2>1. full(queue) /\ ~ GrowthKeepsIndices(queue)
    BY <1>4 DEF PushAborts
  <2>2. GrownSize(queue) <= MaxCapacity
    BY <1>2, <2>1
  <2>3. end_index(queue) = 0 /\ n # 0
    BY <1>1, <2>1, <2>2, GrowthKeeps
  <2>4. queue' = queue
    BY <1>2, <1>4
  <2>5. AbortsAtOverflow'
    BY <2>3, <2>4 DEF AbortsAtOverflow, empty
  <2>6. QED
    BY <1>2, <1>4, <2>1, <2>4, <2>5
<1>5. CASE ~ PushAborts(queue) /\ full(queue)
  <2> DEFINE d == capacity2pow(GrownSize(queue))
             r == reserve(queue)
  <2>1. GrowthKeepsIndices(queue) /\ GrownSize(queue) <= MaxCapacity
    BY <1>2, <1>5 DEF PushAborts
  <2>2. l = 0 /\ n + l = n
    BY <1>1, <1>3, <1>5 DEF Written
  <2>3. Written(queue, c, n)
    BY <1>1, <2>2
  <2>4. /\ Formed(r, d) /\ r.m_i_size = n /\ n < d /\ First(r, d) = First(queue, c)
        /\ Written(r, d, n)
    BY <1>1, <1>5, <2>1, <2>3, ReserveKeeps
  <2>5. e = Index(r, d, n)
    BY <2>4 DEF Index
  <2> HIDE DEF r, d
  <2>6. PICK p : p = push(queue, e)
    OBVIOUS
  <2>7. /\ Formed(p, d) /\ p.m_i_size = n + 1 /\ p.m_i_start = r.m_i_start
        /\ p.m_i_loops = r.m_i_loops /\ Written(p, d, IF n < n THEN n ELSE n + 1)
    <3>1. r.m_i_size <= n /\ n \in Nat
      BY <1>1, <2>4
    <3>2. reserve(queue) = r
      BY DEF r
    <3>3. e = Index(r, d, r.m_i_size) /\ r.m_i_size < d
      BY <2>4, <2>5
    <3>4. QED
      BY <2>4, <2>6, <3>1, <3>2, <3>3, PushKeeps
  <2>8. First(p, d) = First(queue, c) /\ d \in Capacities
    BY <2>4, <2>7 DEF First, Formed
  <2>9. Written(p, d, n + 1)
    BY <1>1, <2>7
  <2>10. queue' = p /\ ~ aborted'
    BY <1>2, <1>5, <2>6
  <2>11. AbortsAtOverflow'
    BY <2>10 DEF AbortsAtOverflow
  <2> HIDE DEF n, l
  <2>12. QED
    BY <2>2, <2>7, <2>8, <2>9, <2>10, <2>11 DEF n, l
<1>6. CASE ~ full(queue)
  <2>1. reserve(queue) = queue /\ n < c /\ ~ PushAborts(queue)
    BY <1>1, <1>3, <1>6 DEF reserve, PushAborts
  <2>2. PICK p : p = push(queue, e)
    OBVIOUS
  <2>3. PICK m : m = n + l
    OBVIOUS
  <2>4. m \in Nat /\ n <= m
    BY <1>1, <2>3
  <2>5. Written(queue, c, m)
    BY <1>1, <2>3
  <2>6. /\ Formed(p, c) /\ p.m_i_size = n + 1 /\ p.m_i_start = queue.m_i_start
        /\ p.m_i_loops = queue.m_i_loops /\ Written(p, c, IF n < m THEN m ELSE m + 1)
    BY <1>1, <2>1, <2>2, <2>4, <2>5, PushKeeps
  <2>7. First(p, c) = First(queue, c)
    BY <2>6 DEF First
  <2>8. (l = 0 => Written(p, c, n + 1)) /\ (l > 0 => Written(p, c, n + l))
    BY <1>1, <2>3, <2>6
  <2>9. queue' = p /\ ~ aborted'
    BY <1>2, <2>1, <2>2
  <2>10. AbortsAtOverflow'
    BY <2>9 DEF AbortsAtOverflow
  <2> HIDE DEF n, l
  <2>11. QED
    BY <2>6, <2>7, <2>8, <2>9, <2>10 DEF n, l
<1>7. QED
  BY <1>4, <1>5, <1>6

-----------------------------------------------------------------------------
(* Successive indices, which the elements of IndexedFifo are.              *)
Indices(f, n) == [k \in 1..n |-> (f + (k - 1)) % Word]

(* They are a sequence.                                                    *)
LEMMA IndicesAre ==
    ASSUME NEW f \in Size, NEW n \in Nat
    PROVE  /\ Indices(f, n) \in Seq(Size) /\ Len(Indices(f, n)) = n
           /\ \A k \in 1..n : Indices(f, n)[k] = (f + (k - 1)) % Word
<1>1. \A k \in 1..n : (f + (k - 1)) % Word \in Size
  <2> TAKE k \in 1..n
  <2>1. PICK a : a = f + (k - 1)
    OBVIOUS
  <2>2. a \in Int /\ Word \in Nat \ {0}
    BY <2>1, Width DEF Size
  <2>3. (a % Word) \in Size
    BY <2>2, DivMod DEF Size
  <2>4. QED
    BY <2>1, <2>3
<1>2. Indices(f, n) \in [1..n -> Size]
  BY <1>1 DEF Indices
<1>3. Indices(f, n) \in Seq(Size) /\ Len(Indices(f, n)) = n
  BY <1>2, IsASeq
<1>4. QED
  BY <1>3 DEF Indices

(* One more, and one fewer in front.                                       *)
LEMMA IndicesMove ==
    ASSUME NEW f \in Size, NEW n \in Nat
    PROVE  /\ Append(Indices(f, n), (f + n) % Word) = Indices(f, n + 1)
           /\ n > 0 => /\ Indices(f, n) # <<>>
                       /\ Tail(Indices(f, n)) = Indices((f + 1) % Word, n - 1)
<1> DEFINE s == Indices(f, n)
<1>1. s \in Seq(Size) /\ Len(s) = n /\ \A k \in 1..n : s[k] = (f + (k - 1)) % Word
  BY IndicesAre
<1>2. f \in Int /\ Word \in Nat \ {0} /\ Size = 0..(Word - 1)
  BY Width DEF Size
<1>3. Append(s, (f + n) % Word) = Indices(f, n + 1)
  <2>1. PICK m : m = n + 1
    OBVIOUS
  <2>2. PICK e : e = (f + n) % Word
    OBVIOUS
  <2>3. e \in Size
    <3>1. PICK a : a = f + n
      OBVIOUS
    <3>2. a \in Int
      BY <1>2, <3>1
    <3>3. (a % Word) \in 0..(Word - 1)
      BY <1>2, <3>2, DivMod
    <3>4. QED
      BY <1>2, <2>2, <3>1, <3>3
  <2> DEFINE t == Indices(f, m)
             u == Append(s, e)
  <2>4. m \in Nat /\ t \in Seq(Size) /\ Len(t) = m /\ \A k \in 1..m : t[k] = (f + (k - 1)) % Word
    <3>1. m \in Nat
      BY <2>1
    <3>2. QED
      BY <3>1, IndicesAre
  <2> HIDE DEF s, t
  <2>5. u \in Seq(Size) /\ Len(u) = n + 1 /\ u[n + 1] = e /\ \A k \in 1..n : u[k] = s[k]
    BY <1>1, <2>3, AppendProperties
  <2> HIDE DEF u
  <2>6. ASSUME NEW k \in 1..m PROVE u[k] = t[k]
    <3>1. CASE k \in 1..n
      BY <1>1, <2>4, <2>5, <3>1
    <3>2. CASE k = m
      <4>1. m - 1 = n
        BY <2>1
      <4>2. QED
        BY <2>1, <2>2, <2>4, <2>5, <3>2, <4>1
    <3>3. QED
      BY <2>1, <3>1, <3>2
  <2>7. Len(u) = Len(t) /\ \A k \in 1..Len(u) : u[k] = t[k]
    BY <2>1, <2>4, <2>5, <2>6
  <2>8. u = t
    BY <2>4, <2>5, <2>7, SeqEqual
  <2>9. QED
    BY <2>1, <2>2, <2>8 DEF s, t, u
<1>4. ASSUME n > 0
      PROVE  s # <<>> /\ Tail(s) = Indices((f + 1) % Word, n - 1)
  <2>1. PICK m : m = n - 1
    OBVIOUS
  <2>2. PICK g : g = (f + 1) % Word
    OBVIOUS
  <2>3. g \in Size
    <3>1. PICK a : a = f + 1
      OBVIOUS
    <3>2. a \in Int
      BY <1>2, <3>1
    <3>3. (a % Word) \in 0..(Word - 1)
      BY <1>2, <3>2, DivMod
    <3>4. QED
      BY <1>2, <2>2, <3>1, <3>3
  <2> DEFINE t == Indices(g, m)
             u == Tail(s)
  <2>4. m \in Nat /\ t \in Seq(Size) /\ Len(t) = m /\ \A k \in 1..m : t[k] = (g + (k - 1)) % Word
    <3>1. m \in Nat
      BY <1>4, <2>1
    <3>2. QED
      BY <2>3, <3>1, IndicesAre
  <2> HIDE DEF s, t
  <2>5. s # <<>>
    BY <1>1, <1>4, EmptySeq
  <2>6. u \in Seq(Size) /\ Len(u) = n - 1 /\ \A k \in 1..(n - 1) : u[k] = s[k + 1]
    BY <1>1, <2>5, HeadTailProperties
  <2> HIDE DEF u
  <2>7. ASSUME NEW k \in 1..m PROVE u[k] = t[k]
    <3>1. k \in 1..(n - 1) /\ k + 1 \in 1..n
      BY <2>1
    <3>2. u[k] = (f + ((k + 1) - 1)) % Word
      BY <1>1, <2>6, <3>1
    <3>3. PICK a, b : a = f + 1 /\ b = k - 1
      OBVIOUS
    <3>4. a \in Int /\ b \in Int
      BY <1>2, <3>3
    <3>5. ((a % Word) + b) % Word = (a + b) % Word
      BY <1>2, <3>4, ModOfSum
    <3>6. a + b = f + ((k + 1) - 1)
      BY <1>2, <3>3
    <3>7. t[k] = (g + b) % Word
      BY <2>4, <3>3
    <3>8. g = a % Word
      BY <2>2, <3>3
    <3>9. QED
      BY <3>2, <3>5, <3>6, <3>7, <3>8
  <2>8. Len(u) = Len(t) /\ \A k \in 1..Len(u) : u[k] = t[k]
    BY <2>1, <2>4, <2>6, <2>7
  <2>9. u = t
    BY <2>4, <2>6, <2>8, SeqEqual
  <2>10. QED
    BY <2>1, <2>2, <2>5, <2>9 DEF s, t, u
<1>5. QED
  BY <1>3, <1>4

(* What a queue shows of itself.                                           *)
LEMMA ElementsAre ==
    ASSUME NEW c, NEW q, Formed(q, c), NEW n \in Nat, q.m_i_size <= n, Written(q, c, n)
    PROVE  /\ begin_index(q) = First(q, c) /\ First(q, c) \in Size /\ q.m_i_size \in Nat
           /\ ElementsOf(q) = Indices(First(q, c), q.m_i_size)
<1> DEFINE f == First(q, c)
           m == q.m_i_size
<1>1. begin_index(q) = f /\ f \in Size /\ m \in Nat
  BY IndicesOf, Fields, CapacityIs
<1>2. \A k : Index(q, c, k) = (f + k) % Word
  BY DEF Index
<1> HIDE DEF f, m
<1>3. ASSUME NEW k \in 1..m PROVE At(q, (f + k - 1) % Word) = (f + (k - 1)) % Word
  <2>1. PICK j : j = k - 1
    OBVIOUS
  <2>2. j \in 0..(n - 1) /\ f + k - 1 = f + j
    BY <1>1, <2>1, Width DEF Size, m
  <2>3. At(q, Index(q, c, j)) = Index(q, c, j)
    BY <2>2, AtFinds
  <2>4. QED
    BY <1>2, <2>1, <2>2, <2>3
<1>4. ElementsOf(q) = [k \in 1..m |-> At(q, (f + k - 1) % Word)]
  BY <1>1 DEF ElementsOf, m
<1>5. ElementsOf(q) = Indices(f, m)
  BY <1>3, <1>4 DEF Indices
<1>6. QED
  BY <1>1, <1>5 DEF f, m

(* What the queue shows while the invariant holds.                         *)
LEMMA Showing ==
    ASSUME NEW c, Holding(queue, c, chunk), chunk \in [slot : Size, left : Size]
    PROVE  /\ begin_index(queue) = First(queue, c) /\ First(queue, c) \in Size
           /\ queue.m_i_size \in Nat
           /\ ElementsOf(queue) = Indices(First(queue, c), queue.m_i_size)
<1>1. Formed(queue, c) /\ chunk.left \in Nat /\ queue.m_i_size \in Nat
  BY Fields, CapacityIs, Width DEF Holding, Size
<1>2. PICK n : n = queue.m_i_size + chunk.left
  OBVIOUS
<1>3. n \in Nat /\ queue.m_i_size <= n /\ Written(queue, c, n)
  BY <1>1, <1>2 DEF Holding
<1>4. QED
  BY <1>1, <1>3, ElementsAre

(* IndexedFifo takes a step, or none.                                      *)
FifoStep == Fifo!Next \/ UNCHANGED <<begin_index(queue), ElementsOf(queue)>>

(* A queue that is replaced while nothing is to be pushed.                 *)
LEMMA NextQueue ==
    ASSUME NEW d, Formed(queue', d), Written(queue', d, queue'.m_i_size), chunk.left = 0,
           chunk \in [slot : Size, left : Size], chunk' = chunk,
           ~ aborted', aborted' \in BOOLEAN
    PROVE  /\ QueueInv'
           /\ begin_index(queue') = First(queue', d) /\ First(queue', d) \in Size
           /\ queue'.m_i_size \in Nat
           /\ ElementsOf(queue') = Indices(First(queue', d), queue'.m_i_size)
<1>1. queue'.m_i_size \in Nat /\ d \in Capacities
  BY Fields, CapacityIs DEF Formed
<1>2. PICK n : n = queue'.m_i_size
  OBVIOUS
<1>3. n + chunk'.left = n
  BY <1>1, <1>2
<1>4. Holding(queue', d, chunk')
  BY <1>2, <1>3 DEF Holding
<1>5. QueueInv'
  <2>1. AbortsAtOverflow'
    BY DEF AbortsAtOverflow
  <2>2. chunk' \in [slot : Size, left : Size]
    OBVIOUS
  <2>3. QED
    BY <1>1, <1>4, <2>1, <2>2 DEF QueueInv
<1>6. n \in Nat /\ n <= n /\ queue'.m_i_size <= n /\ Written(queue', d, n)
  BY <1>1, <1>2
<1>7. QED
  BY <1>5, <1>6, ElementsAre

(* A new queue.                                                            *)
LEMMA NewHolds ==
    ASSUME NEW n \in 0..MaxCapacity, NEW e \in Size
    PROVE  LET q == NewQueue(n, e, 0)
           IN /\ Formed(q, capacity2pow(n)) /\ Written(q, capacity2pow(n), 0)
              /\ q.m_i_size = 0
<1>1. PICK z \in Int : z = 0
  OBVIOUS
<1>2. n <= capacity2pow(n) /\ capacity2pow(n) \in Capacities
  BY BufferFor
<1>3. capacity2pow(n) \in Nat
  <2>1. ASSUME NEW d \in Capacities PROVE d \in Nat
    BY Divisors DEF Capacities
  <2>2. QED
    BY <1>2, <2>1
<1>4. z \in 0..capacity2pow(n)
  BY <1>1, <1>3
<1>5. Formed(NewQueue(n, e, z), capacity2pow(n)) /\ NewQueue(n, e, z).m_i_size = z
  BY <1>4, NewIsFormed
<1>6. Written(NewQueue(n, e, z), capacity2pow(n), 0)
  BY <1>3 DEF Written
<1>7. QED
  BY <1>1, <1>5, <1>6

(* The initial states.                                                     *)
LEMMA QueueInit == ASSUME Init PROVE QueueInv /\ Fifo!Init
<1>1. PICK shape \in InitialShapes : queue = NewQueue(shape[1], shape[2], 0)
  BY DEF Init
<1>2. PICK n \in 0..MaxCapacity, e \in Size : n = shape[1] /\ e = shape[2]
  BY <1>1, ShapesAssumption
<1>3. PICK c : c = capacity2pow(n)
  OBVIOUS
<1>4. Formed(queue, c) /\ Written(queue, c, 0) /\ queue.m_i_size = 0
  BY <1>1, <1>2, <1>3, NewHolds
<1>5. chunk = NoChunk /\ aborted = FALSE
  BY DEF Init
<1>6. chunk.left = 0 /\ chunk \in [slot : Size, left : Size]
  BY <1>5, Width DEF NoChunk
<1>7. Holding(queue, c, chunk)
  <2>1. queue.m_i_size + chunk.left = 0
    BY <1>4, <1>6
  <2>2. QED
    BY <1>4, <1>6, <2>1 DEF Holding
<1>8. c \in Capacities
  BY <1>4 DEF Formed
<1>9. QueueInv
  BY <1>5, <1>6, <1>7, <1>8 DEF QueueInv, AbortsAtOverflow
<1>10. begin_index(queue) \in Size /\ ElementsOf(queue) = <<>>
  <2>1. begin_index(queue) = First(queue, c) /\ First(queue, c) \in Size
    BY <1>6, <1>7, Showing
  <2>2. ElementsOf(queue) = <<>>
    BY <1>4 DEF ElementsOf
  <2>3. QED
    BY <2>1, <2>2
<1>11. QED
  BY <1>9, <1>10 DEF Fifo!Init, Size

(* A push adds the element.                                                *)
LEMMA PushStep == ASSUME QueueInv, Push PROVE QueueInv' /\ FifoStep
<1>1. PICK c \in Capacities : Holding(queue, c, chunk)
  BY DEF QueueInv
<1>2. /\ chunk \in [slot : Size, left : Size] /\ AbortsAtOverflow /\ ~ aborted /\ chunk.left = 0
      /\ PushOf(end_index(queue)) /\ chunk' = chunk
  BY DEF QueueInv, Push, Ready
<1>3. Formed(queue, c)
  BY <1>1 DEF Holding
<1>4. PICK e : e = end_index(queue)
  OBVIOUS
<1>5. e = Index(queue, c, queue.m_i_size) /\ PushOf(e)
  BY <1>2, <1>3, <1>4, IndicesOf
<1>6. \/ aborted' /\ queue' = queue /\ AbortsAtOverflow' /\ full(queue)
      \/ /\ ~ aborted' /\ AbortsAtOverflow'
         /\ \E d \in Capacities :
               /\ Formed(queue', d) /\ queue'.m_i_size = queue.m_i_size + 1
               /\ First(queue', d) = First(queue, c)
               /\ chunk.left = 0 => Written(queue', d, queue.m_i_size + 1)
               /\ chunk.left > 0 =>
                     /\ d = c /\ queue'.m_i_start = queue.m_i_start
                     /\ Written(queue', d, queue.m_i_size + chunk.left)
  BY <1>1, <1>2, <1>5, PushOfStep
<1>7. CASE aborted' /\ queue' = queue /\ AbortsAtOverflow'
  <2>1. aborted' \in BOOLEAN
    BY <1>5 DEF PushOf, PushAborts, full
  <2>2. QueueInv'
    BY <1>1, <1>2, <1>7, <2>1 DEF QueueInv
  <2>3. QED
    BY <1>7, <2>2 DEF FifoStep
<1>8. ASSUME ~ aborted', NEW d \in Capacities, Formed(queue', d),
             queue'.m_i_size = queue.m_i_size + 1, First(queue', d) = First(queue, c),
             Written(queue', d, queue.m_i_size + 1)
      PROVE  QueueInv' /\ FifoStep
  <2> DEFINE f == First(queue, c)
             n == queue.m_i_size
  <2>1. /\ begin_index(queue) = f /\ f \in Size /\ n \in Nat
        /\ ElementsOf(queue) = Indices(f, n)
    BY <1>1, <1>2, Showing
  <2>2. Written(queue', d, queue'.m_i_size)
    BY <1>8
  <2>3. /\ QueueInv'
        /\ begin_index(queue') = First(queue', d)
        /\ ElementsOf(queue') = Indices(First(queue', d), queue'.m_i_size)
    <3>1. aborted' \in BOOLEAN
      BY <1>5 DEF PushOf, PushAborts, full
    <3>2. QED
      BY <1>2, <1>8, <2>2, <3>1, NextQueue
  <2>4. begin_index(queue') = f /\ ElementsOf(queue') = Indices(f, n + 1)
    BY <1>8, <2>3
  <2> HIDE DEF f, n
  <2>5. Append(Indices(f, n), (f + n) % Word) = Indices(f, n + 1) /\ Len(Indices(f, n)) = n
    BY <2>1, IndicesMove, IndicesAre
  <2>6. Fifo!Add
    BY <2>1, <2>4, <2>5 DEF Fifo!Add, Fifo!Index
  <2>7. QED
    BY <2>3, <2>6 DEF FifoStep, Fifo!Next
<1>9. QED
  BY <1>2, <1>6, <1>7, <1>8

(* A pop removes the oldest.                                               *)
LEMMA PopStep == ASSUME QueueInv, Pop PROVE QueueInv' /\ FifoStep
<1>1. PICK c \in Capacities : Holding(queue, c, chunk)
  BY DEF QueueInv
<1>2. /\ chunk \in [slot : Size, left : Size] /\ ~ aborted /\ chunk.left = 0
      /\ ~ empty(queue) /\ queue' = pop(queue) /\ chunk' = chunk /\ ~ aborted'
      /\ aborted' \in BOOLEAN
  BY DEF QueueInv, Pop, Ready
<1> DEFINE f == First(queue, c)
           n == queue.m_i_size
<1>3. /\ begin_index(queue) = f /\ f \in Size /\ n \in Nat
      /\ ElementsOf(queue) = Indices(f, n)
  BY <1>1, <1>2, Showing
<1>4. Formed(queue, c) /\ Written(queue, c, n)
  <2>1. n + chunk.left = n
    BY <1>2, <1>3
  <2>2. QED
    BY <1>1, <2>1 DEF Holding
<1>5. /\ Formed(queue', c) /\ queue'.m_i_size = n - 1 /\ Written(queue', c, n - 1)
      /\ First(queue', c) = Index(queue, c, 1)
  BY <1>2, <1>4, PopKeeps
<1>6. Written(queue', c, queue'.m_i_size)
  BY <1>5
<1>7. /\ QueueInv'
      /\ begin_index(queue') = First(queue', c)
      /\ ElementsOf(queue') = Indices(First(queue', c), queue'.m_i_size)
  BY <1>2, <1>5, <1>6, NextQueue
<1>8. n > 0
  BY <1>2, <1>3 DEF empty
<1>9. First(queue', c) = (f + 1) % Word
  BY <1>5 DEF Index
<1> HIDE DEF f, n
<1>10. Indices(f, n) # <<>> /\ Tail(Indices(f, n)) = Indices((f + 1) % Word, n - 1)
  BY <1>3, <1>8, IndicesMove
<1>11. Fifo!Remove
  BY <1>3, <1>5, <1>7, <1>9, <1>10 DEF Fifo!Remove, Fifo!Index
<1>12. QED
  BY <1>7, <1>11 DEF FifoStep, Fifo!Next

(* The queue is replaced.                                                  *)
LEMMA ResetStep == ASSUME QueueInv, Reset PROVE QueueInv' /\ FifoStep
<1>1. /\ chunk \in [slot : Size, left : Size] /\ ~ aborted' /\ chunk.left = 0
      /\ aborted' \in BOOLEAN /\ queue' = NewQueue(0, 0, 0) /\ chunk' = chunk
  BY DEF QueueInv, Reset, Ready
<1>2. PICK n \in 0..MaxCapacity, e \in Size : n = 0 /\ e = 0
  BY Width, CapacityAssumption, Divisors
<1>3. PICK c : c = capacity2pow(n)
  OBVIOUS
<1>4. Formed(queue', c) /\ Written(queue', c, 0) /\ queue'.m_i_size = 0
  BY <1>1, <1>2, <1>3, NewHolds
<1>5. Written(queue', c, queue'.m_i_size)
  BY <1>4
<1>6. QueueInv' /\ begin_index(queue') = First(queue', c)
  BY <1>1, <1>4, <1>5, NextQueue
<1>7. c = 0
  BY <1>2, <1>3 DEF capacity2pow
<1>8. queue'.m_i_start = 0 /\ queue'.m_i_loops = 0
  BY <1>1 DEF NewQueue, capacity2pow
<1>9. First(queue', c) = 0
  <2>1. PICK z \in Int : z = 0
    OBVIOUS
  <2>2. queue'.m_i_start + queue'.m_i_loops * c = z
    BY <1>7, <1>8, <2>1
  <2>3. First(queue', c) = z % Word
    BY <2>2 DEF First
  <2>4. z \in 0..(Word + Word - 1) /\ Word \in Nat \ {0} /\ z < Word
    BY <2>1, Width
  <2>5. z % Word = z
    BY <2>4, ModOnce
  <2>6. QED
    BY <2>1, <2>3, <2>5
<1>10. ElementsOf(queue') = <<>>
  BY <1>4 DEF ElementsOf
<1>11. Fifo!Clear
  BY <1>6, <1>9, <1>10 DEF Fifo!Clear
<1>12. QED
  BY <1>6, <1>11 DEF FifoStep, Fifo!Next

(* recv() writes, but the queue shows what it did.                         *)
LEMMA ReceiveStep == ASSUME QueueInv, Receive PROVE QueueInv' /\ FifoStep
<1>1. PICK c \in Capacities : Holding(queue, c, chunk)
  BY DEF QueueInv
<1>2. /\ chunk \in [slot : Size, left : Size] /\ ~ aborted /\ chunk.left = 0
      /\ full(queue) => GrownSize(queue) <= MaxCapacity
      /\ aborted' = PushAborts(queue)
  BY DEF QueueInv, Receive, Ready, Fits
<1>3. aborted' \in BOOLEAN
  BY <1>2 DEF PushAborts, full
<1> DEFINE f == First(queue, c)
           n == queue.m_i_size
           r == reserve(queue)
           b == Min(FreeRange(r))
           m == Cardinality(FreeRange(r))
<1>4. /\ begin_index(queue) = f /\ f \in Size /\ n \in Nat
      /\ ElementsOf(queue) = Indices(f, n)
  BY <1>1, <1>2, Showing
<1>5. Formed(queue, c) /\ Written(queue, c, n)
  <2>1. n + chunk.left = n
    BY <1>2, <1>4
  <2>2. QED
    BY <1>1, <2>1 DEF Holding
<1>6. CASE PushAborts(queue)
  <2>1. queue' = queue /\ chunk' = chunk
    BY <1>6 DEF Receive
  <2>2. full(queue) /\ ~ GrowthKeepsIndices(queue) /\ GrownSize(queue) <= MaxCapacity
    BY <1>2, <1>6 DEF PushAborts
  <2>3. end_index(queue) = 0 /\ n # 0
    BY <1>5, <2>2, GrowthKeeps
  <2>4. AbortsAtOverflow'
    BY <2>1, <2>3 DEF AbortsAtOverflow, empty
  <2>5. QueueInv'
    BY <1>1, <1>2, <1>3, <2>1, <2>4 DEF QueueInv
  <2>6. QED
    BY <2>1, <2>5 DEF FifoStep
<1>7. CASE ~ PushAborts(queue)
  <2>1. PICK d \in Capacities :
           /\ Formed(r, d) /\ r.m_i_size = n /\ n < d /\ First(r, d) = f /\ Written(r, d, n)
    <3>1. CASE full(queue)
      <4>1. GrowthKeepsIndices(queue) /\ GrownSize(queue) <= MaxCapacity
        BY <1>2, <1>7, <3>1 DEF PushAborts
      <4>2. PICK d : d = capacity2pow(GrownSize(queue))
        OBVIOUS
      <4>3. Formed(r, d) /\ r.m_i_size = n /\ n < d /\ First(r, d) = f /\ Written(r, d, n)
        BY <1>5, <3>1, <4>1, <4>2, ReserveKeeps
      <4>4. QED
        BY <4>3 DEF Formed
    <3>2. CASE ~ full(queue)
      <4>1. r = queue /\ n # Capacity(queue)
        BY <3>2 DEF reserve, full
      <4>2. n < c
        BY <1>5, <4>1, Fields, CapacityIs
      <4>3. QED
        BY <1>5, <4>1, <4>2
    <3>3. QED
      BY <3>1, <3>2
  <2>2. PICK res \in 0..m :
           /\ queue' = Filled(r, b, res)
           /\ chunk' = IF res = 0 THEN NoChunk ELSE [slot |-> b, left |-> res]
    BY <1>7 DEF Receive
  <2> HIDE DEF r, b, m, f, n
  <2>3. Formed(r, d) /\ r.m_i_size < d /\ Written(r, d, r.m_i_size)
    BY <2>1
  <2>4. /\ b = Slot(r, d, r.m_i_size) /\ m \in Nat /\ b + m <= d /\ r.m_i_size + m <= d
        /\ Formed(queue', d) /\ queue'.m_i_size = r.m_i_size
        /\ queue'.m_i_start = r.m_i_start /\ queue'.m_i_loops = r.m_i_loops
        /\ Written(queue', d, r.m_i_size + res)
    BY <2>2, <2>3, FilledKeeps DEF b, m
  <2>5. d \in Nat /\ d < Word /\ b \in 0..(d - 1)
    <3>1. d \in Nat /\ d <= MaxCapacity /\ MaxCapacity \in Nat /\ MaxCapacity < Word
      BY <2>3, CapacityIs
    <3>2. r.m_i_size \in 0..(d - 1)
      BY <1>4, <2>1, <3>1
    <3>3. Slot(r, d, r.m_i_size) \in 0..(d - 1)
      BY <2>3, <3>2, SlotOf
    <3>4. QED
      BY <2>4, <3>1, <3>3, Width
  <2>6. chunk' \in [slot : Size, left : Size] /\ chunk'.left = res
        /\ (res > 0 => chunk'.slot = b)
    <3>1. CASE res = 0
      BY <2>2, <3>1, Width DEF NoChunk
    <3>2. CASE res # 0
      <4>1. b \in Size /\ res \in Size
        BY <2>4, <2>5, Width DEF Size
      <4>2. QED
        BY <2>2, <3>2, <4>1
    <3>3. QED
      BY <3>1, <3>2
  <2>7. Slot(queue', d, queue'.m_i_size) = b
    BY <2>4 DEF Slot
  <2>8. Holding(queue', d, chunk')
    <3>1. res > 0 => b + res <= d
      BY <2>4, <2>5
    <3>2. Written(queue', d, queue'.m_i_size + chunk'.left)
      BY <2>4, <2>6
    <3>3. QED
      BY <2>4, <2>6, <2>7, <3>1, <3>2 DEF Holding
  <2>9. QueueInv'
    BY <1>2, <1>3, <1>7, <2>6, <2>8 DEF QueueInv, AbortsAtOverflow
  <2>10. First(queue', d) = f
    BY <2>1, <2>4 DEF First
  <2>11. /\ begin_index(queue') = First(queue', d)
         /\ ElementsOf(queue') = Indices(First(queue', d), queue'.m_i_size)
    <3>1. PICK t : t = r.m_i_size + res
      OBVIOUS
    <3>2. t \in Nat /\ queue'.m_i_size <= t /\ Written(queue', d, t)
      BY <1>4, <2>1, <2>4, <3>1
    <3>3. QED
      BY <2>4, <3>2, ElementsAre
  <2>12. QED
    BY <1>4, <2>1, <2>4, <2>9, <2>10, <2>11 DEF FifoStep
<1>8. QED
  BY <1>6, <1>7

(* A received element that is pushed is the one that is due.               *)
LEMMA PushReceivedStep == ASSUME QueueInv, PushReceived PROVE QueueInv' /\ FifoStep
<1>1. PICK c \in Capacities : Holding(queue, c, chunk)
  BY DEF QueueInv
<1>2. /\ chunk \in [slot : Size, left : Size] /\ AbortsAtOverflow /\ ~ aborted /\ chunk.left > 0
      /\ PushOf(queue.m_vec_queue[chunk.slot])
      /\ chunk' = IF chunk.left = 1 THEN NoChunk
                  ELSE [slot |-> chunk.slot + 1, left |-> chunk.left - 1]
  BY DEF QueueInv, PushReceived
<1> DEFINE f == First(queue, c)
           n == queue.m_i_size
           l == chunk.left
           e == queue.m_vec_queue[chunk.slot]
<1>3. /\ begin_index(queue) = f /\ f \in Size /\ n \in Nat
      /\ ElementsOf(queue) = Indices(f, n)
  BY <1>1, <1>2, Showing
<1>4. /\ Formed(queue, c) /\ Written(queue, c, n + l) /\ chunk.slot = Slot(queue, c, n)
      /\ chunk.slot + l <= c
  BY <1>1, <1>2 DEF Holding
<1>5. c \in Nat /\ Capacity(queue) = c /\ c < Word /\ l \in Nat /\ n + l <= c
  BY <1>2, <1>4, CapacityIs, Width DEF Size, Written
<1>6. e = Index(queue, c, n)
  BY <1>2, <1>3, <1>4, <1>5 DEF Written
<1>7. ~ full(queue)
  BY <1>2, <1>3, <1>5 DEF full
<1>8. PushOf(e)
  BY <1>2
<1> HIDE DEF e
<1>9. \/ aborted' /\ queue' = queue /\ AbortsAtOverflow' /\ full(queue)
      \/ /\ ~ aborted' /\ AbortsAtOverflow'
         /\ \E d \in Capacities :
               /\ Formed(queue', d) /\ queue'.m_i_size = queue.m_i_size + 1
               /\ First(queue', d) = First(queue, c)
               /\ chunk.left = 0 => Written(queue', d, queue.m_i_size + 1)
               /\ chunk.left > 0 =>
                     /\ d = c /\ queue'.m_i_start = queue.m_i_start
                     /\ Written(queue', d, queue.m_i_size + chunk.left)
  BY <1>1, <1>2, <1>6, <1>8, PushOfStep
<1>10. /\ ~ aborted' /\ Formed(queue', c) /\ queue'.m_i_size = n + 1
       /\ First(queue', c) = f /\ queue'.m_i_start = queue.m_i_start
       /\ Written(queue', c, n + l)
  BY <1>2, <1>7, <1>9
<1>11. aborted' \in BOOLEAN
  BY <1>8 DEF PushOf, PushAborts, full
<1>12. chunk.slot \in Nat /\ queue.m_i_start \in Nat
  BY <1>2, <1>4, Fields, Width DEF Size
<1>13. /\ chunk' \in [slot : Size, left : Size] /\ chunk'.left = l - 1
       /\ l - 1 > 0 => chunk'.slot = chunk.slot + 1
  <2>1. CASE l = 1
    <3>1. chunk' = NoChunk
      BY <1>2, <2>1
    <3>2. QED
      BY <2>1, <3>1, Width DEF NoChunk
  <2>2. CASE l # 1
    <3>1. chunk.slot + 1 \in Size /\ l - 1 \in Size
      BY <1>2, <1>4, <1>5, <1>12, <2>2, Width DEF Size
    <3>2. chunk' = [slot |-> chunk.slot + 1, left |-> l - 1]
      BY <1>2, <2>2
    <3>3. QED
      BY <3>1, <3>2
  <2>3. QED
    BY <2>1, <2>2
<1>14. Holding(queue', c, chunk')
  <2>1. queue'.m_i_size + chunk'.left = n + l
    BY <1>3, <1>5, <1>10, <1>13
  <2>2. Written(queue', c, queue'.m_i_size + chunk'.left)
    BY <1>10, <2>1
  <2>3. ASSUME chunk'.left > 0
        PROVE  chunk'.slot = Slot(queue', c, queue'.m_i_size) /\ chunk'.slot + chunk'.left <= c
    <3>1. chunk'.slot = chunk.slot + 1 /\ chunk'.left = l - 1 /\ l > 1
      BY <1>5, <1>13, <2>3
    <3>2. chunk.slot = IF queue.m_i_start + n < c THEN queue.m_i_start + n
                       ELSE queue.m_i_start + n - c
      BY <1>4 DEF Slot
    <3>3. Slot(queue', c, queue'.m_i_size) =
            IF queue.m_i_start + (n + 1) < c THEN queue.m_i_start + (n + 1)
            ELSE queue.m_i_start + (n + 1) - c
      BY <1>10 DEF Slot
    <3>4. QED
      BY <1>3, <1>4, <1>5, <1>12, <3>1, <3>2, <3>3
  <2>4. QED
    BY <1>10, <2>2, <2>3 DEF Holding
<1>15. QueueInv'
  BY <1>9, <1>10, <1>11, <1>13, <1>14 DEF QueueInv, AbortsAtOverflow
<1>16. /\ begin_index(queue') = First(queue', c)
       /\ ElementsOf(queue') = Indices(First(queue', c), queue'.m_i_size)
  <2>1. PICK t : t = n + l
    OBVIOUS
  <2>2. t \in Nat /\ queue'.m_i_size <= t /\ Written(queue', c, t)
    BY <1>2, <1>3, <1>5, <1>10, <2>1
  <2>3. QED
    BY <1>10, <2>2, ElementsAre
<1> HIDE DEF f, n
<1>17. Append(Indices(f, n), (f + n) % Word) = Indices(f, n + 1) /\ Len(Indices(f, n)) = n
  BY <1>3, IndicesMove, IndicesAre
<1>18. Fifo!Add
  BY <1>3, <1>10, <1>16, <1>17 DEF Fifo!Add, Fifo!Index
<1>19. QED
  BY <1>15, <1>18 DEF FifoStep, Fifo!Next

(* Every step keeps the invariant and is one of IndexedFifo, or none.      *)
LEMMA QueueStep == ASSUME QueueInv, [Next]_vars PROVE QueueInv' /\ FifoStep
<1>1. CASE UNCHANGED vars
  <2>1. queue' = queue /\ chunk' = chunk /\ aborted' = aborted
    BY <1>1 DEF vars
  <2>2. QueueInv'
    BY <2>1 DEF QueueInv, AbortsAtOverflow
  <2>3. QED
    BY <2>1, <2>2 DEF FifoStep
<1>2. QED
  BY <1>1, PushStep, PopStep, ReceiveStep, PushReceivedStep, ResetStep DEF Next

(* The types.                                                              *)
LEMMA QueueInvTypes == ASSUME QueueInv PROVE TypeOK
<1>1. PICK c \in Capacities : Holding(queue, c, chunk)
  BY DEF QueueInv
<1>2. Formed(queue, c)
  BY <1>1 DEF Holding
<1>3. /\ c \in {0} \cup PowersOfTwo /\ c <= MaxCapacity /\ c \in Nat /\ c < Word
      /\ Capacity(queue) = c
  BY <1>2, CapacityIs, Width DEF Capacities
<1>4. /\ queue.m_i_start \in Size /\ queue.m_i_size \in 0..c /\ queue.m_i_loops \in Size
      /\ queue.m_vec_queue \in [0..(c - 1) -> Size \cup {Unset}]
      /\ queue.m_i_start = 0 \/ queue.m_i_start < c
  BY <1>2 DEF Formed, Queues
<1>5. queue.m_i_size \in Size /\ queue.m_i_size <= Capacity(queue)
  BY <1>3, <1>4, Width DEF Size
<1>6. \E cap \in {0} \cup PowersOfTwo :
         cap <= MaxCapacity /\ queue.m_vec_queue \in [0..(cap - 1) -> Size \cup {Unset}]
  BY <1>3, <1>4
<1>7. QED
  BY <1>3, <1>4, <1>5, <1>6 DEF TypeOK, QueueInv

(* Indices find elements, and only elements have one.                      *)
LEMMA QueueInvIndices == ASSUME QueueInv PROVE IndexFindsElement
<1>1. PICK c \in Capacities : Holding(queue, c, chunk)
  BY DEF QueueInv
<1> DEFINE f == First(queue, c)
           n == queue.m_i_size
           l == chunk.left
<1>2. Formed(queue, c) /\ Written(queue, c, n + l) /\ chunk \in [slot : Size, left : Size]
  BY <1>1 DEF Holding, QueueInv
<1>3. begin_index(queue) = f /\ n \in Nat /\ l \in Nat
  BY <1>1, <1>2, Showing, Width DEF Size
<1>4. LiveIndices(queue) = {Index(queue, c, k) : k \in 0..(n - 1)}
  BY <1>3 DEF LiveIndices, Index
<1>5. ASSUME NEW i \in Size
      PROVE  /\ valid_index(queue, i) <=> i \in LiveIndices(queue)
             /\ valid_index(queue, i) => At(queue, i) = i
  <2>1. valid_index(queue, i) <=> \E k \in 0..(n - 1) : i = Index(queue, c, k)
    BY <1>2, ValidIndices
  <2>2. ASSUME NEW k \in 0..(n - 1), i = Index(queue, c, k) PROVE At(queue, i) = i
    <3>1. PICK m : m = n + l
      OBVIOUS
    <3>2. m \in Nat /\ k \in 0..(m - 1) /\ Written(queue, c, m)
      BY <1>2, <1>3, <3>1
    <3>3. At(queue, Index(queue, c, k)) = Index(queue, c, k)
      BY <1>2, <3>2, AtFinds
    <3>4. QED
      BY <2>2, <3>3
  <2> HIDE DEF n
  <2>3. QED
    BY <1>4, <2>1, <2>2
<1>6. QED
  BY <1>5 DEF IndexFindsElement

(* What was received lies where the pushes go.                             *)
LEMMA QueueInvReceived == ASSUME QueueInv PROVE ReceivedInPlace
<1>1. PICK c \in Capacities : Holding(queue, c, chunk)
  BY DEF QueueInv
<1> DEFINE n == queue.m_i_size
           l == chunk.left
<1>2. Formed(queue, c) /\ Written(queue, c, n + l) /\ chunk \in [slot : Size, left : Size]
  BY <1>1 DEF Holding, QueueInv
<1>3. n \in Nat /\ l \in Nat /\ c \in Nat /\ Capacity(queue) = c /\ n + l <= c
  BY <1>1, <1>2, Showing, CapacityIs, Width DEF Size, Written
<1>4. ASSUME NEW k \in 0..(l - 1)
      PROVE  /\ n + k < Capacity(queue)
             /\ chunk.slot + k = (queue.m_i_start + n + k) % Capacity(queue)
             /\ queue.m_vec_queue[chunk.slot + k] = (end_index(queue) + k) % Word
  <2>1. chunk.slot = Slot(queue, c, n) /\ chunk.slot + l <= c
    BY <1>1, <1>3 DEF Holding
  <2>2. PICK j : j = n + k
    OBVIOUS
  <2>3. j \in 0..(c - 1) /\ j \in 0..((n + l) - 1) /\ c \in Nat \ {0} /\ k \in Int /\ n \in Int
    BY <1>3, <2>2
  <2>4. queue.m_i_start \in 0..(c - 1)
    BY <1>2, <2>3, Fields
  <2>5. chunk.slot + k = Slot(queue, c, j)
    BY <1>3, <2>1, <2>2, <2>3, <2>4 DEF Slot
  <2>6. (queue.m_i_start + n + k) % c = Slot(queue, c, j)
    <3>1. PICK a : a = queue.m_i_start + n + k
      OBVIOUS
    <3>2. a \in 0..(c + c - 1) /\ a = queue.m_i_start + j
      BY <1>3, <2>2, <2>3, <2>4, <3>1
    <3>3. a % c = IF a < c THEN a ELSE a - c
      BY <2>3, <3>2, ModOnce
    <3>4. Slot(queue, c, j) = IF a < c THEN a ELSE a - c
      BY <2>3, <2>4, <3>2 DEF Slot
    <3>5. QED
      BY <3>1, <3>3, <3>4
  <2>7. queue.m_vec_queue[Slot(queue, c, j)] = Index(queue, c, j)
    BY <1>2, <2>3 DEF Written
  <2>8. end_index(queue) = Index(queue, c, n)
    BY <1>2, IndicesOf
  <2>9. (Index(queue, c, n) + k) % Word = Index(queue, c, n + k)
    BY <1>2, <2>3, IndexAfter
  <2>10. QED
    BY <1>3, <2>2, <2>3, <2>5, <2>6, <2>7, <2>8, <2>9
<1>5. QED
  BY <1>4 DEF ReceivedInPlace

(* The ring buffer is a FIFO whose elements keep their index: growth, the  *)
(* wrap of the start and the overflow of the index do not show, and what   *)
(* recv() wrote in place is pushed as it was written (belt.pp/queue.hpp).  *)
THEOREM QueueRefinement == Spec => IsIndexedFifo
<1>1. Init => QueueInv /\ Fifo!Init
  BY QueueInit
<1>2. QueueInv /\ [Next]_vars => QueueInv' /\ FifoStep
  BY QueueStep
<1>3. FifoStep => [Fifo!Next]_(Fifo!vars)
  BY DEF FifoStep, Fifo!vars
<1>4. QED
  BY <1>1, <1>2, <1>3, PTL DEF Spec, IsIndexedFifo, Fifo!Spec

(* The fields are in range, each index finds the element that was pushed   *)
(* under it and no other is valid, recv() writes where the next pushes go, *)
(* and the assertions of reserve() hold until the index overflows to 0     *)
(* under a queue that is not empty.                                        *)
THEOREM QueueCorrect == Spec => []QueueConsistent
<1>1. Init => QueueInv
  BY QueueInit
<1>2. QueueInv /\ [Next]_vars => QueueInv'
  BY QueueStep
<1>3. QueueInv => QueueConsistent
  BY QueueInvTypes, QueueInvIndices, QueueInvReceived DEF QueueInv, QueueConsistent
<1>4. QED
  BY <1>1, <1>2, <1>3, PTL DEF Spec

-----------------------------------------------------------------------------
(* The nodes and trees there may be, and a node that is to be placed.      *)
Names ==
    {"discard", "binary_operator_plus", "binary_operator_minus", "number",
     "binary_operator_multiply", "binary_operator_divide", "binary_operator_power", "bracket",
     "unary_operator_plus", "operator_comma", "scope_brace", "scope_bracket", "operator_colon",
     "value_string", "value_number", "value_bool", "value_null"}

Nodes ==
    [rtt : Names, union_is_value : BOOLEAN, priority : Nat, right : 0..1,
     property : {0, 1, 2, 4, 8}, children_count : Nat, last_child : Nat,
     previous_peer : Nat, start : Nat, size : Nat]

Trees == [node_address : Seq(Nat), memory : Seq(Nodes), expression_string : Seq(Int)]

Fresh(node) ==
    /\ node \in Nodes /\ node.property # 2
    /\ node.children_count = 0 /\ node.last_child = None /\ node.previous_peer = None

Addresses(t) == 1..Len(t.memory)

(* The links of one node: K gives the children of each address.            *)
LinksOf(t, K, a) ==
    /\ K[a] \in Seq(Addresses(t)) /\ Len(K[a]) <= Len(t.memory)
    /\ t.memory[a].children_count = Len(K[a])
    /\ t.memory[a].last_child = IF K[a] = <<>> THEN None ELSE K[a][Len(K[a])]
    /\ t.memory[a].previous_peer \in 0..Len(t.memory)
    /\ \A i \in 1..Len(K[a]) :
           t.memory[K[a][i]].previous_peer = IF i = 1 THEN None ELSE K[a][i - 1]

(* A node is the child of one node and once.                               *)
Once(t, K) ==
    \A p, q \in Addresses(t) : \A i \in 1..Len(K[p]), j \in 1..Len(K[q]) :
        K[p][i] = K[q][j] => p = q /\ i = j

(* Every node but the root is a child.                                     *)
Children_(t, K) == {a \in Addresses(t) : \E p \in Addresses(t) : \E i \in 1..Len(K[p]) : K[p][i] = a}

Rooted(t, K) ==
    \A a \in Addresses(t) : a \in Children_(t, K) <=> a # t.node_address[1]

Links(t, K) ==
    /\ K \in [Addresses(t) -> Seq(Addresses(t))]
    /\ \A a \in Addresses(t) : LinksOf(t, K, a)
    /\ Once(t, K) /\ Rooted(t, K)

(* The path goes from the root along last children and does not meet itself. *)
Path(t) ==
    /\ t.node_address \in Seq(Addresses(t))
    /\ \A i, j \in 1..Depth(t) : t.node_address[i] = t.node_address[j] => i = j
    /\ \A i \in 2..Depth(t) : t.memory[t.node_address[i - 1]].last_child = t.node_address[i]
    /\ t.memory # <<>> => t.node_address # <<>>

Tied(t) == t \in Trees /\ Path(t) /\ \E K : Links(t, K)

(* What is not on the path is complete.                                    *)
OffPath(t, a) == \A i \in 1..Depth(t) : t.node_address[i] # a

Whole(t) == \A a \in Addresses(t) : OffPath(t, a) => Complete(t.memory[a])

\* The nodes of the path beyond the i-th are complete.
WholeBeyond(t, i) == \A j \in (i + 1)..Depth(t) : Complete(Item2(t, j))

-----------------------------------------------------------------------------
(* The tree t with another node at one address, and a shorter path.        *)
LEMMA ExtendIs ==
    ASSUME NEW t \in Trees, Path(t), NEW i \in 1..Depth(t), NEW o, Fresh(o),
           SameAgain(t, i, o)
    PROVE  LET u == Extend(t, i, o)  a == t.node_address[i] IN
           /\ u \in Trees
           /\ u.node_address = SubSeq(t.node_address, 1, i)
           /\ u.expression_string = t.expression_string
           /\ Len(u.memory) = Len(t.memory)
           /\ \A b \in Addresses(t) :
                  /\ b # a => u.memory[b] = t.memory[b]
                  /\ u.memory[b].children_count = t.memory[b].children_count
                  /\ u.memory[b].last_child = t.memory[b].last_child
                  /\ u.memory[b].previous_peer = t.memory[b].previous_peer
<1> DEFINE u == Extend(t, i, o)
           a == t.node_address[i]
           n == t.memory[a]
           m == [n EXCEPT !.right = o.right, !.property = PropertyCombine(n.property, o.property)]
<1>1. a \in Addresses(t) /\ t.memory \in Seq(Nodes) /\ n \in Nodes
  BY DEF Path, Trees, Addresses, Depth
<1>2. PropertyCombine(n.property, o.property) \in {0, 1, 2, 4, 8}
  <2>1. n.property \in {0, 1, 2, 4, 8} /\ o.property \in {0, 1, 4, 8}
    BY <1>1 DEF Nodes, Fresh
  <2>2. PropertyCheck(n.property, o.property)
    BY DEF SameAgain, Item2
  <2>3. QED
    BY <2>1, <2>2 DEF PropertyCheck, PropertyCombine
<1>3. m \in Nodes /\ o.right \in 0..1
  <2>1. o.right \in 0..1
    BY DEF Fresh, Nodes
  <2>2. QED
    BY <1>1, <1>2, <2>1 DEF Nodes
<1>4. u = [t EXCEPT !.node_address = SubSeq(@, 1, i), !.memory = [t.memory EXCEPT ![a] = m]]
  BY <1>1, ZenonT(60) DEF Extend, Trees, Nodes
<1>5. [t.memory EXCEPT ![a] = m] \in Seq(Nodes) /\ Len([t.memory EXCEPT ![a] = m]) = Len(t.memory)
  BY <1>1, <1>3, ExceptSeq DEF Addresses
<1>6. SubSeq(t.node_address, 1, i) \in Seq(Nat)
  BY DEF Trees, Depth
<1>7. /\ u.node_address = SubSeq(t.node_address, 1, i)
      /\ u.memory = [t.memory EXCEPT ![a] = m]
      /\ u.expression_string = t.expression_string
      /\ u \in Trees
  BY <1>4, <1>5, <1>6 DEF Trees
<1>8. \A b \in Addresses(t) : u.memory[b] = IF b = a THEN m ELSE t.memory[b]
  BY <1>1, <1>7 DEF Addresses
<1>9. m.children_count = n.children_count /\ m.last_child = n.last_child
      /\ m.previous_peer = n.previous_peer
  BY <1>1 DEF Nodes
<1>10. QED
  BY <1>5, <1>7, <1>8, <1>9

(* What a node is complete by has not changed.                             *)
SameState(m, n) ==
    m.union_is_value = n.union_is_value /\ m.right = n.right /\ m.property = n.property

(* One more node, between the node at i and the one above it.              *)
LEMMA InsertIs ==
    ASSUME NEW t \in Trees, Path(t), NEW i \in 1..Depth(t), NEW o, Fresh(o)
    PROVE  LET u == Insert(t, i, o)  old == t.node_address[i]  new == Len(t.memory) + 1 IN
           /\ u \in Trees
           /\ u.node_address = Append(SubSeq(t.node_address, 1, i - 1), new)
           /\ u.expression_string = t.expression_string
           /\ Len(u.memory) = new
           /\ u.memory[new] \in Nodes /\ SameState(u.memory[new], o)
           /\ u.memory[new].children_count = 1 /\ u.memory[new].last_child = old
           /\ u.memory[new].previous_peer = t.memory[old].previous_peer
           /\ \A b \in Addresses(t) :
                  /\ SameState(u.memory[b], t.memory[b])
                  /\ u.memory[b].children_count = t.memory[b].children_count
                  /\ u.memory[b].last_child =
                         IF i # 1 /\ b = t.node_address[i - 1] THEN new ELSE t.memory[b].last_child
                  /\ u.memory[b].previous_peer =
                         IF b = old THEN None ELSE t.memory[b].previous_peer
<1> DEFINE u    == Insert(t, i, o)
           old  == t.node_address[i]
           new  == Len(t.memory) + 1
           node == [o EXCEPT !.last_child = old, !.children_count = 1,
                             !.previous_peer = t.memory[old].previous_peer]
           n    == [t.memory[old] EXCEPT !.previous_peer = None]
           freed == [t.memory EXCEPT ![old] = n]
           top  == t.node_address[i - 1]
           m    == [freed[top] EXCEPT !.last_child = new]
           above == IF i = 1 THEN freed ELSE [freed EXCEPT ![top] = m]
<1>1. old \in Addresses(t) /\ t.memory \in Seq(Nodes) /\ t.memory[old] \in Nodes /\ new \in Nat
  BY DEF Path, Trees, Addresses, Depth
<1>2. node \in Nodes /\ n \in Nodes /\ old \in Nat
  <2>1. old \in Nat /\ t.memory[old].previous_peer \in Nat /\ 0 \in Nat /\ 1 \in Nat
    <3>1. t.memory[old].previous_peer \in Nat
      BY <1>1 DEF Nodes
    <3>2. QED
      BY <1>1, <3>1 DEF Addresses
  <2>2. o \in Nodes
    BY DEF Fresh
  <2>3. node \in Nodes
    BY <2>1, <2>2 DEF Nodes
  <2>4. n \in Nodes
    BY <1>1, <2>1 DEF Nodes, None
  <2>5. QED
    BY <2>1, <2>3, <2>4
<1>3. freed \in Seq(Nodes) /\ Len(freed) = Len(t.memory)
      /\ \A b \in Addresses(t) : freed[b] = IF b = old THEN n ELSE t.memory[b]
  BY <1>1, <1>2, ExceptSeq DEF Addresses
<1>4. above \in Seq(Nodes) /\ Len(above) = Len(t.memory)
      /\ \A b \in Addresses(t) : above[b] = IF i # 1 /\ b = top THEN m ELSE freed[b]
  <2>1. CASE i = 1
    BY <2>1, <1>3
  <2>2. CASE i # 1
    <3>1. top \in Addresses(t)
      BY <2>2 DEF Path, Depth
    <3>2. m \in Nodes
      <4>1. freed[top] \in Nodes
        BY <3>1, <1>3 DEF Addresses
      <4>2. QED
        BY <4>1, <1>1 DEF Nodes
    <3>3. above = [freed EXCEPT ![top] = m] /\ top \in 1..Len(freed)
      BY <2>2, <3>1, <1>3 DEF Addresses
    <3> HIDE DEF above, freed, m, top
    <3>4. /\ above \in Seq(Nodes) /\ Len(above) = Len(freed)
          /\ \A b \in 1..Len(freed) : above[b] = IF b = top THEN m ELSE freed[b]
      BY <3>2, <3>3, <1>3, ExceptSeq
    <3>5. QED
      BY <2>2, <3>4, <1>3 DEF Addresses
  <2>3. QED
    BY <2>1, <2>2
<1>5. u = [t EXCEPT !.node_address = Append(SubSeq(@, 1, i - 1), new), !.memory = Append(above, node)]
  BY DEF Insert
<1>6. SubSeq(t.node_address, 1, i - 1) \in Seq(Nat)
  BY DEF Trees, Depth
<1>7. /\ u.node_address = Append(SubSeq(t.node_address, 1, i - 1), new)
      /\ u.memory = Append(above, node)
      /\ u.expression_string = t.expression_string
      /\ u \in Trees
  <2>1. Append(SubSeq(t.node_address, 1, i - 1), new) \in Seq(Nat)
    BY <1>1, <1>6
  <2> HIDE DEF above, node, u
  <2>2. Append(above, node) \in Seq(Nodes)
    BY <1>2, <1>4
  <2>3. QED
    BY <1>5, <2>1, <2>2 DEF Trees
<1> HIDE DEF u, node, above
<1>8. /\ Len(u.memory) = new /\ u.memory[new] = node
      /\ \A b \in Addresses(t) : u.memory[b] = above[b]
  BY <1>2, <1>4, <1>7 DEF Addresses
<1>9. /\ SameState(node, o) /\ node.children_count = 1 /\ node.last_child = old
      /\ node.previous_peer = t.memory[old].previous_peer
  BY DEF node, SameState, Fresh, Nodes
<1>10. ASSUME NEW b \in Addresses(t)
       PROVE  /\ SameState(above[b], t.memory[b])
              /\ above[b].children_count = t.memory[b].children_count
              /\ above[b].last_child = IF i # 1 /\ b = top THEN new ELSE t.memory[b].last_child
              /\ above[b].previous_peer = IF b = old THEN None ELSE t.memory[b].previous_peer
  <2>1. t.memory[b] \in Nodes /\ freed[b] \in Nodes
    BY <1>1, <1>3 DEF Addresses
  <2> HIDE DEF freed
  <2>2. SameState(n, t.memory[old]) /\ n.children_count = t.memory[old].children_count
        /\ n.last_child = t.memory[old].last_child /\ n.previous_peer = None
    BY <1>1 DEF Nodes, SameState
  <2>3. /\ SameState(freed[b], t.memory[b])
        /\ freed[b].children_count = t.memory[b].children_count
        /\ freed[b].last_child = t.memory[b].last_child
        /\ freed[b].previous_peer = IF b = old THEN None ELSE t.memory[b].previous_peer
    BY <1>3, <2>2 DEF SameState
  <2>4. i # 1 /\ b = top => /\ SameState(m, freed[b])
                            /\ m.children_count = freed[b].children_count
                            /\ m.last_child = new /\ m.previous_peer = freed[b].previous_peer
    BY <2>1 DEF Nodes, SameState
  <2>5. QED
    BY <1>4, <2>3, <2>4 DEF SameState
<1>11. \A b \in Addresses(t) :
          /\ SameState(u.memory[b], t.memory[b])
          /\ u.memory[b].children_count = t.memory[b].children_count
          /\ u.memory[b].last_child = IF i # 1 /\ b = top THEN new ELSE t.memory[b].last_child
          /\ u.memory[b].previous_peer = IF b = old THEN None ELSE t.memory[b].previous_peer
  BY <1>8, <1>10
<1>12. QED
  <2> HIDE DEF node
  <2>1. QED
    BY <1>2, <1>7, <1>8, <1>9, <1>11 DEF u

(* One more node, the next child of the node at i.                         *)
LEMMA AppendIs ==
    ASSUME NEW t \in Trees, Path(t), NEW i \in 1..Depth(t), NEW node, Fresh(node),
           Item2(t, i).right > 0
    PROVE  LET u == AppendChild(t, i, node)  parent == t.node_address[i]  new == Len(t.memory) + 1 IN
           /\ u \in Trees
           /\ u.node_address = Append(SubSeq(t.node_address, 1, i), new)
           /\ u.expression_string = t.expression_string
           /\ Len(u.memory) = new
           /\ u.memory[new] \in Nodes /\ SameState(u.memory[new], node)
           /\ u.memory[new].children_count = 0 /\ u.memory[new].last_child = None
           /\ u.memory[new].previous_peer = t.memory[parent].last_child
           /\ \A b \in Addresses(t) :
                  /\ b # parent => u.memory[b] = t.memory[b]
                  /\ u.memory[b].children_count =
                         IF b = parent THEN t.memory[b].children_count + 1
                                       ELSE t.memory[b].children_count
                  /\ u.memory[b].last_child = IF b = parent THEN new ELSE t.memory[b].last_child
                  /\ u.memory[b].previous_peer = t.memory[b].previous_peer
<1> DEFINE u      == AppendChild(t, i, node)
           parent == t.node_address[i]
           new    == Len(t.memory) + 1
           n      == t.memory[parent]
           child  == [node EXCEPT !.previous_peer = n.last_child]
           m      == [n EXCEPT !.last_child = new, !.children_count = @ + 1, !.right = @ - 1]
           grown  == [t.memory EXCEPT ![parent] = m]
<1>1. parent \in Addresses(t) /\ t.memory \in Seq(Nodes) /\ n \in Nodes /\ new \in Nat
  BY DEF Path, Trees, Addresses, Depth
<1>2. n.right \in 0..1 /\ n.right > 0 /\ n.children_count \in Nat /\ n.last_child \in Nat
  BY <1>1 DEF Item2, Nodes
<1>3. m \in Nodes /\ child \in Nodes
  <2>1. n.right - 1 \in 0..1 /\ n.children_count + 1 \in Nat
    BY <1>2
  <2>2. node \in Nodes
    BY DEF Fresh
  <2>3. m \in Nodes
    BY <1>1, <2>1 DEF Nodes
  <2>4. child \in Nodes
    BY <1>2, <2>2 DEF Nodes
  <2>5. QED
    BY <2>3, <2>4
<1>4. grown \in Seq(Nodes) /\ Len(grown) = Len(t.memory)
      /\ \A b \in Addresses(t) : grown[b] = IF b = parent THEN m ELSE t.memory[b]
  BY <1>1, <1>3, ExceptSeq DEF Addresses
<1>5. u = [t EXCEPT !.node_address = Append(SubSeq(@, 1, i), new), !.memory = Append(grown, child)]
  <2>1. [t.memory EXCEPT ![parent].last_child = new, ![parent].children_count = @ + 1,
                         ![parent].right = @ - 1] = grown
    BY <1>1 DEF Nodes, Addresses
  <2>2. QED
    BY <2>1 DEF AppendChild
<1>6. SubSeq(t.node_address, 1, i) \in Seq(Nat)
  BY DEF Trees, Depth
<1>7. /\ u.node_address = Append(SubSeq(t.node_address, 1, i), new)
      /\ u.memory = Append(grown, child)
      /\ u.expression_string = t.expression_string
      /\ u \in Trees
  <2>1. Append(SubSeq(t.node_address, 1, i), new) \in Seq(Nat)
    BY <1>1, <1>6
  <2>2. Append(grown, child) \in Seq(Nodes)
    BY <1>3, <1>4
  <2> HIDE DEF grown, child, u
  <2>3. QED
    BY <1>5, <2>1, <2>2 DEF Trees
<1> HIDE DEF u, grown
<1>8. /\ Len(u.memory) = new /\ u.memory[new] = child
      /\ \A b \in Addresses(t) : u.memory[b] = grown[b]
  BY <1>3, <1>4, <1>7 DEF Addresses
<1>9. /\ SameState(child, node) /\ child.children_count = 0 /\ child.last_child = None
      /\ child.previous_peer = n.last_child
  BY DEF SameState, Fresh, Nodes
<1>10. m.last_child = new /\ m.children_count = n.children_count + 1
       /\ m.previous_peer = n.previous_peer
  BY <1>1 DEF Nodes
<1>11. QED
  <2> HIDE DEF child, m
  <2>1. QED
    BY <1>3, <1>4, <1>7, <1>8, <1>9, <1>10 DEF u

-----------------------------------------------------------------------------
(* The links are those of a tree after each change.                        *)

(* What is on the path has an address and, below the root, a last child.   *)
LEMMA OnPath ==
    ASSUME NEW t \in Trees, Path(t), NEW K, Links(t, K), NEW i \in 1..Depth(t)
    PROVE  /\ t.node_address[i] \in Addresses(t) /\ Depth(t) \in Nat
           /\ i # 1 => LET top == t.node_address[i - 1] IN
                         /\ top \in Addresses(t)
                         /\ Len(K[top]) >= 1 /\ K[top][Len(K[top])] = t.node_address[i]
<1>1. Depth(t) \in Nat /\ \A j \in 1..Depth(t) : t.node_address[j] \in Addresses(t)
  BY DEF Path, Depth
<1>2. ASSUME i # 1
      PROVE  LET top == t.node_address[i - 1] IN
               /\ top \in Addresses(t)
               /\ Len(K[top]) >= 1 /\ K[top][Len(K[top])] = t.node_address[i]
  <2> DEFINE top == t.node_address[i - 1]
  <2>1. i - 1 \in 1..Depth(t) /\ i \in 2..Depth(t)
    BY <1>1, <1>2
  <2>2. top \in Addresses(t) /\ t.memory[top].last_child = t.node_address[i]
    BY <1>1, <2>1 DEF Path
  <2>3. LinksOf(t, K, top)
    BY <2>2 DEF Links
  <2>4. t.node_address[i] # None
    BY <1>1 DEF Addresses, None
  <2>5. K[top] # <<>> /\ K[top] \in Seq(Addresses(t)) /\ K[top][Len(K[top])] = t.node_address[i]
    BY <2>2, <2>3, <2>4 DEF LinksOf
  <2>6. QED
    BY <2>2, <2>5
<1>3. QED
  BY <1>1, <1>2

(* The root is no child, and what is on the path is the last of its parent. *)
LEMMA PathChild ==
    ASSUME NEW t \in Trees, Path(t), NEW K, Links(t, K), NEW i \in 1..Depth(t),
           NEW p \in Addresses(t), NEW j \in 1..Len(K[p]), K[p][j] = t.node_address[i]
    PROVE  i # 1 /\ p = t.node_address[i - 1] /\ j = Len(K[p])
<1>1. t.node_address[i] \in Addresses(t)
  BY OnPath
<1>2. t.node_address[i] \in Children_(t, K)
  BY <1>1 DEF Children_
<1>3. t.node_address[i] # t.node_address[1]
  BY <1>1, <1>2 DEF Links, Rooted
<1>4. i # 1
  BY <1>3
<1> DEFINE top == t.node_address[i - 1]
<1>5. top \in Addresses(t) /\ Len(K[top]) >= 1 /\ K[top][Len(K[top])] = t.node_address[i]
  BY <1>4, OnPath
<1>6. Len(K[top]) \in 1..Len(K[top])
  <2>1. K[top] \in Seq(Addresses(t))
    BY <1>5 DEF Links
  <2>2. QED
    BY <2>1, <1>5
<1>7. p = top /\ j = Len(K[top])
  BY <1>5, <1>6 DEF Links, Once
<1>8. QED
  BY <1>4, <1>7

(* A path that is cut is a path still.                                     *)
LEMMA CutPath ==
    ASSUME NEW t \in Trees, Path(t), NEW u \in Trees, NEW i \in 1..Depth(t),
           u.node_address = SubSeq(t.node_address, 1, i), Len(u.memory) = Len(t.memory),
           \A b \in Addresses(t) : u.memory[b].last_child = t.memory[b].last_child
    PROVE  Path(u) /\ Depth(u) = i /\ \A j \in 1..i : u.node_address[j] = t.node_address[j]
<1>1. Depth(t) \in Nat /\ t.node_address \in Seq(Addresses(t))
  BY DEF Path, Depth
<1>2. Depth(u) = i /\ \A j \in 1..i : u.node_address[j] = t.node_address[j]
  BY <1>1 DEF Depth
<1>3. u.node_address \in Seq(Addresses(u))
  BY <1>1 DEF Addresses, Depth
<1>4. \A j, k \in 1..i : u.node_address[j] = u.node_address[k] => j = k
  BY <1>1, <1>2 DEF Path
<1>5. \A j \in 2..i : u.memory[u.node_address[j - 1]].last_child = u.node_address[j]
  <2> TAKE j \in 2..i
  <2>1. j \in 2..Depth(t) /\ j - 1 \in 1..i /\ j \in 1..i /\ j - 1 \in 1..Depth(t)
    BY <1>1
  <2>2. t.node_address[j - 1] \in Addresses(t)
    BY <1>1, <2>1 DEF Depth
  <2>3. QED
    BY <2>1, <2>2, <1>2 DEF Path
<1>6. u.node_address # <<>>
  BY <1>2 DEF Depth
<1>7. QED
  BY <1>2, <1>3, <1>4, <1>5, <1>6 DEF Path

(* With the same links and the same root it is the same tree.              *)
LEMMA SameLinks ==
    ASSUME NEW t \in Trees, NEW u \in Trees, NEW K, Links(t, K), Len(u.memory) = Len(t.memory),
           u.node_address[1] = t.node_address[1],
           \A b \in Addresses(t) :
               /\ u.memory[b].children_count = t.memory[b].children_count
               /\ u.memory[b].last_child = t.memory[b].last_child
               /\ u.memory[b].previous_peer = t.memory[b].previous_peer
    PROVE  Links(u, K)
<1>1. Addresses(u) = Addresses(t) /\ K \in [Addresses(t) -> Seq(Addresses(t))]
  BY DEF Addresses, Links
<1>2. ASSUME NEW a \in Addresses(u) PROVE LinksOf(u, K, a)
  <2>1. a \in Addresses(t) /\ LinksOf(t, K, a)
    BY <1>1, <1>2 DEF Links
  <2>2. \A j \in 1..Len(K[a]) : K[a][j] \in Addresses(t)
    BY <1>1, <2>1
  <2>3. QED
    BY <1>1, <2>1, <2>2 DEF LinksOf
<1>3. Once(u, K)
  BY <1>1 DEF Once, Links
<1>4. Rooted(u, K)
  BY <1>1 DEF Rooted, Links, Children_
<1>5. QED
  BY <1>1, <1>2, <1>3, <1>4 DEF Links

LEMMA ExtendTies ==
    ASSUME NEW t, Tied(t), NEW i \in 1..Depth(t), NEW o, Fresh(o), SameAgain(t, i, o)
    PROVE  Tied(Extend(t, i, o)) /\ Depth(Extend(t, i, o)) = i
<1> DEFINE u == Extend(t, i, o)
<1>1. t \in Trees /\ Path(t)
  BY DEF Tied
<1>2. PICK K : Links(t, K)
  BY DEF Tied
<1>3. /\ u \in Trees
      /\ u.node_address = SubSeq(t.node_address, 1, i)
      /\ Len(u.memory) = Len(t.memory)
      /\ \A b \in Addresses(t) :
             /\ u.memory[b].children_count = t.memory[b].children_count
             /\ u.memory[b].last_child = t.memory[b].last_child
             /\ u.memory[b].previous_peer = t.memory[b].previous_peer
  BY <1>1, ExtendIs
<1> HIDE DEF u
<1>4. Path(u) /\ Depth(u) = i /\ \A j \in 1..i : u.node_address[j] = t.node_address[j]
  BY <1>1, <1>3, CutPath
<1>5. 1 \in 1..i
  BY <1>1 DEF Depth, Trees
<1>6. Links(u, K)
  BY <1>1, <1>2, <1>3, <1>4, <1>5, SameLinks
<1>7. QED
  BY <1>3, <1>4, <1>6 DEF Tied, u

(* A path that is cut and goes on to a new node is a path.                 *)
LEMMA LongerPath ==
    ASSUME NEW t \in Trees, Path(t), NEW u \in Trees, NEW k \in 0..Depth(t),
           u.node_address = Append(SubSeq(t.node_address, 1, k), Len(t.memory) + 1),
           Len(u.memory) = Len(t.memory) + 1,
           \A b \in Addresses(t) :
               u.memory[b].last_child = IF k # 0 /\ b = t.node_address[k] THEN Len(t.memory) + 1
                                        ELSE t.memory[b].last_child
    PROVE  /\ Path(u) /\ Depth(u) = k + 1 /\ u.node_address[k + 1] = Len(t.memory) + 1
           /\ \A j \in 1..k : u.node_address[j] = t.node_address[j]
<1> DEFINE new == Len(t.memory) + 1
<1>1. /\ Depth(t) \in Nat /\ t.node_address \in Seq(Addresses(t)) /\ Len(t.memory) \in Nat
      /\ \A j \in 1..Depth(t) : t.node_address[j] \in Addresses(t)
  BY SMTT(30) DEF Path, Depth, Trees
<1>2. SubSeq(t.node_address, 1, k) \in Seq(Addresses(t)) /\ Len(SubSeq(t.node_address, 1, k)) = k
      /\ \A j \in 1..k : SubSeq(t.node_address, 1, k)[j] = t.node_address[j]
  BY <1>1 DEF Depth
<1>3. /\ Depth(u) = k + 1 /\ u.node_address[k + 1] = new
      /\ \A j \in 1..k : u.node_address[j] = t.node_address[j]
  BY <1>1, <1>2 DEF Depth
<1>4. \A j \in 1..(k + 1) : u.node_address[j] \in Addresses(u)
  <2> TAKE j \in 1..(k + 1)
  <2>1. CASE j = k + 1
    BY <2>1, <1>1, <1>3 DEF Addresses
  <2>2. CASE j \in 1..k
    <3>1. u.node_address[j] = t.node_address[j] /\ t.node_address[j] \in Addresses(t)
      BY <2>2, <1>1, <1>3
    <3>2. QED
      BY <3>1, <1>1 DEF Addresses
  <2>3. QED
    BY <2>1, <2>2
<1>5. u.node_address \in Seq(Addresses(u))
  <2>1. u.node_address \in Seq(Nat) /\ Len(u.node_address) = k + 1
    BY <1>3 DEF Trees, Depth
  <2>2. QED
    BY <2>1, <1>4
<1>6. ASSUME NEW i \in 1..(k + 1), NEW j \in 1..(k + 1), u.node_address[i] = u.node_address[j]
      PROVE  i = j
  <2>1. \A m \in 1..k : u.node_address[m] # new
    <3> TAKE m \in 1..k
    <3>1. m \in 1..Depth(t)
      BY <1>1
    <3>2. t.node_address[m] \in 1..Len(t.memory)
      BY <3>1, <1>1 DEF Addresses
    <3>3. QED
      BY <3>2, <1>1, <1>3
  <2>2. CASE i = k + 1 \/ j = k + 1
    BY <2>1, <2>2, <1>3, <1>6
  <2>3. CASE i \in 1..k /\ j \in 1..k
    <3>1. i \in 1..Depth(t) /\ j \in 1..Depth(t) /\ t.node_address[i] = t.node_address[j]
      BY <2>3, <1>1, <1>3, <1>6
    <3>2. QED
      BY <3>1 DEF Path
  <2>4. QED
    BY <2>2, <2>3
<1>7. ASSUME NEW j \in 2..(k + 1)
      PROVE  u.memory[u.node_address[j - 1]].last_child = u.node_address[j]
  <2> DEFINE b == t.node_address[j - 1]
  <2>1. j - 1 \in 1..k /\ j - 1 \in 1..Depth(t) /\ k # 0 /\ k \in 1..Depth(t)
    BY <1>1
  <2>2. b \in Addresses(t) /\ u.node_address[j - 1] = b
    BY <2>1, <1>1, <1>3
  <2>3. CASE j = k + 1
    BY <2>1, <2>2, <2>3, <1>3
  <2>4. CASE j # k + 1
    <3>1. j \in 2..Depth(t) /\ j \in 1..k /\ j - 1 # k
      BY <2>4, <1>1
    <3>2. b # t.node_address[k]
      BY <3>1, <2>1 DEF Path
    <3>3. t.memory[b].last_child = t.node_address[j]
      BY <3>1 DEF Path
    <3>4. QED
      BY <3>1, <3>2, <3>3, <2>2, <1>3
  <2>5. QED
    BY <2>3, <2>4
<1>8. QED
  <2>1. u.node_address # <<>>
    BY <1>1, <1>3 DEF Depth
  <2>2. QED
    BY <2>1, <1>3, <1>5, <1>6, <1>7 DEF Path

(* A new root above the root.                                              *)
LEMMA InsertAtRoot ==
    ASSUME NEW t, Tied(t), NEW o, Fresh(o), Depth(t) >= 1
    PROVE  Tied(Insert(t, 1, o)) /\ Depth(Insert(t, 1, o)) = 1
<1> DEFINE u   == Insert(t, 1, o)
           old == t.node_address[1]
           new == Len(t.memory) + 1
<1>1. t \in Trees /\ Path(t) /\ 1 \in 1..Depth(t) /\ Depth(t) \in Nat /\ Len(t.memory) \in Nat
  BY DEF Tied, Depth, Trees
<1>2. PICK K : Links(t, K)
  BY DEF Tied
<1> DEFINE L == [a \in 1..new |-> IF a = new THEN <<old>> ELSE K[a]]
<1>3. /\ u \in Trees /\ Len(u.memory) = new
      /\ u.node_address = Append(SubSeq(t.node_address, 1, 0), new)
      /\ u.memory[new].children_count = 1 /\ u.memory[new].last_child = old
      /\ u.memory[new].previous_peer = t.memory[old].previous_peer
      /\ \A b \in Addresses(t) :
             /\ u.memory[b].children_count = t.memory[b].children_count
             /\ u.memory[b].last_child = t.memory[b].last_child
             /\ u.memory[b].previous_peer = IF b = old THEN None ELSE t.memory[b].previous_peer
  BY <1>1, InsertIs
<1> HIDE DEF u
<1>4. Path(u) /\ Depth(u) = 1 /\ u.node_address[1] = new
  <2>1. 0 \in 0..Depth(t)
    BY <1>1
  <2>2. \A b \in Addresses(t) :
            u.memory[b].last_child = IF 0 # 0 /\ b = t.node_address[0] THEN Len(t.memory) + 1
                                     ELSE t.memory[b].last_child
    BY <1>3
  <2>3. Path(u) /\ Depth(u) = 0 + 1 /\ u.node_address[0 + 1] = Len(t.memory) + 1
    BY <1>1, <1>3, <2>1, <2>2, LongerPath, ZenonT(60)
  <2>4. QED
    BY <2>3
<1>5. old \in Addresses(t) /\ old # new
  BY <1>1, <1>2, OnPath DEF Addresses
<1>6. /\ Addresses(u) = 1..new /\ Addresses(t) \subseteq Addresses(u)
      /\ \A a \in Addresses(u) : a = new \/ a \in Addresses(t)
      /\ new \notin Addresses(t) /\ new \in Addresses(u)
  BY <1>1, <1>3 DEF Addresses
<1>7. /\ L[new] = <<old>> /\ \A a \in Addresses(t) : L[a] = K[a]
  BY <1>5, <1>6
<1>8. /\ \A a \in Addresses(t) : K[a] \in Seq(Addresses(t)) /\ LinksOf(t, K, a)
      /\ \A a \in Addresses(t) : \A j \in 1..Len(K[a]) : K[a][j] \in Addresses(t)
  BY <1>2 DEF Links
<1>9. \A p \in Addresses(t) : \A j \in 1..Len(K[p]) : K[p][j] # old
  BY <1>1, <1>2, PathChild
<1>10. L \in [Addresses(u) -> Seq(Addresses(u))]
  <2>1. \A a \in Addresses(u) : L[a] \in Seq(Addresses(u))
    <3> TAKE a \in Addresses(u)
    <3>1. CASE a = new
      <4>1. <<old>> \in Seq(Addresses(u))
        BY <1>5, <1>6
      <4>2. QED
        BY <3>1, <4>1, <1>7
    <3>2. CASE a \in Addresses(t)
      <4>1. K[a] \in Seq(Addresses(t))
        BY <3>2, <1>8
      <4>2. K[a] \in Seq(Addresses(u))
        BY <4>1, <1>6
      <4>3. QED
        BY <3>2, <4>2, <1>7
    <3>3. QED
      BY <3>1, <3>2, <1>6
  <2>2. QED
    BY <2>1, <1>6
<1> HIDE DEF L
<1>11. ASSUME NEW a \in Addresses(u) PROVE LinksOf(u, L, a)
  <2>1. CASE a = new
    <3>1. L[a] \in Seq(Addresses(u)) /\ Len(L[a]) = 1 /\ L[a] # <<>> /\ L[a][1] = old
      <4>1. Len(<<old>>) = 1 /\ <<old>> # <<>> /\ <<old>>[1] = old
        OBVIOUS
      <4>2. L[a] = <<old>> /\ L[a] \in Seq(Addresses(u))
        BY <2>1, <1>7, <1>10
      <4>3. QED
        BY <4>1, <4>2
    <3>2. t.memory[old].previous_peer \in 0..Len(t.memory)
      BY <1>5, <1>8 DEF LinksOf
    <3>3. u.memory[a].previous_peer \in 0..Len(u.memory)
      BY <2>1, <3>2, <1>1, <1>3
    <3>4. u.memory[L[a][1]].previous_peer = None
      BY <3>1, <1>3, <1>5
    <3>5. \A j \in 1..Len(L[a]) :
              u.memory[L[a][j]].previous_peer = IF j = 1 THEN None ELSE L[a][j - 1]
      BY <3>1, <3>4
    <3>6. Len(L[a]) <= Len(u.memory) /\ L[a][Len(L[a])] = old
      BY <3>1, <1>1, <1>3
    <3>7. u.memory[a].children_count = Len(L[a]) /\ u.memory[a].last_child = old
      BY <2>1, <3>1, <1>3
    <3>8. QED
      BY <3>1, <3>3, <3>5, <3>6, <3>7 DEF LinksOf
  <2>2. CASE a \in Addresses(t)
    <3>1. LinksOf(t, K, a) /\ L[a] = K[a] /\ L[a] \in Seq(Addresses(u))
      BY <2>2, <1>7, <1>8, <1>10
    <3>2. \A j \in 1..Len(K[a]) : u.memory[K[a][j]].previous_peer = t.memory[K[a][j]].previous_peer
      BY <2>2, <1>3, <1>8, <1>9
    <3>3. u.memory[a].previous_peer \in 0..Len(u.memory)
      <4>1. t.memory[a].previous_peer \in 0..Len(t.memory)
        BY <3>1 DEF LinksOf
      <4>2. QED
        BY <4>1, <2>2, <1>1, <1>3 DEF None
    <3>4. QED
      BY <2>2, <3>1, <3>2, <3>3, <1>1, <1>3 DEF LinksOf
  <2>3. QED
    BY <2>1, <2>2, <1>6
<1>12. Once(u, L)
  <2> SUFFICES ASSUME NEW p \in Addresses(u), NEW q \in Addresses(u),
                      NEW i \in 1..Len(L[p]), NEW j \in 1..Len(L[q]), L[p][i] = L[q][j]
               PROVE  p = q /\ i = j
    BY DEF Once
  <2>1. CASE p = new /\ q = new
    BY <2>1, <1>7
  <2>2. CASE p \in Addresses(t) /\ q \in Addresses(t)
    <3>1. L[p] = K[p] /\ L[q] = K[q] /\ Once(t, K)
      BY <2>2, <1>2, <1>7 DEF Links
    <3>2. QED
      BY <2>2, <3>1 DEF Once
  <2>3. CASE p = new /\ q \in Addresses(t)
    <3>1. L[p] = <<old>> /\ L[q] = K[q]
      BY <2>3, <1>7
    <3>2. L[p][i] = old
      BY <3>1
    <3>3. QED
      BY <2>3, <3>1, <3>2, <1>9
  <2>4. CASE p \in Addresses(t) /\ q = new
    <3>1. L[q] = <<old>> /\ L[p] = K[p]
      BY <2>4, <1>7
    <3>2. L[q][j] = old
      BY <3>1
    <3>3. QED
      BY <2>4, <3>1, <3>2, <1>9
  <2>5. QED
    BY <2>1, <2>2, <2>3, <2>4, <1>6
<1>13. Rooted(u, L)
  <2> SUFFICES ASSUME NEW a \in Addresses(u) PROVE a \in Children_(u, L) <=> a # new
    BY <1>4 DEF Rooted
  <2>1. CASE a = new
    <3>1. \A p \in Addresses(u) : \A j \in 1..Len(L[p]) : L[p][j] # new
      <4> TAKE p \in Addresses(u)
      <4>1. CASE p = new
        BY <4>1, <1>5, <1>7
      <4>2. CASE p \in Addresses(t)
        BY <4>2, <1>6, <1>7, <1>8
      <4>3. QED
        BY <4>1, <4>2, <1>6
    <3>2. QED
      BY <2>1, <3>1 DEF Children_
  <2>2. CASE a = old
    <3>1. 1 \in 1..Len(L[new]) /\ L[new][1] = old
      BY <1>7
    <3>2. QED
      BY <2>2, <3>1, <1>5, <1>6 DEF Children_
  <2>3. CASE a \in Addresses(t) /\ a # old
    <3>1. PICK p \in Addresses(t) : \E j \in 1..Len(K[p]) : K[p][j] = a
      BY <2>3, <1>2 DEF Links, Rooted, Children_
    <3>2. QED
      BY <2>3, <3>1, <1>6, <1>7 DEF Children_
  <2>4. QED
    BY <2>1, <2>2, <2>3, <1>6
<1>14. Links(u, L)
  BY <1>10, <1>11, <1>12, <1>13 DEF Links
<1>15. QED
  BY <1>3, <1>4, <1>14 DEF Tied, u

(* A new node between a node of the path and the one above it.             *)
LEMMA InsertBelow ==
    ASSUME NEW t, Tied(t), NEW o, Fresh(o), NEW i \in 2..Depth(t)
    PROVE  Tied(Insert(t, i, o)) /\ Depth(Insert(t, i, o)) = i
<1> DEFINE u   == Insert(t, i, o)
           old == t.node_address[i]
           top == t.node_address[i - 1]
           new == Len(t.memory) + 1
<1>1. /\ t \in Trees /\ Path(t) /\ i \in 1..Depth(t) /\ Depth(t) \in Nat /\ Len(t.memory) \in Nat
      /\ i # 1 /\ i - 1 \in 1..Depth(t)
  BY DEF Tied, Depth, Trees
<1>2. PICK K : Links(t, K)
  BY DEF Tied
<1> DEFINE c == Len(K[top])
           L == [a \in 1..new |-> IF a = new THEN <<old>>
                                  ELSE IF a = top THEN [K[top] EXCEPT ![c] = new] ELSE K[a]]
<1>3. /\ u \in Trees /\ Len(u.memory) = new
      /\ u.node_address = Append(SubSeq(t.node_address, 1, i - 1), new)
      /\ u.memory[new].children_count = 1 /\ u.memory[new].last_child = old
      /\ u.memory[new].previous_peer = t.memory[old].previous_peer
      /\ \A b \in Addresses(t) :
             /\ u.memory[b].children_count = t.memory[b].children_count
             /\ u.memory[b].last_child = IF b = top THEN new ELSE t.memory[b].last_child
             /\ u.memory[b].previous_peer = IF b = old THEN None ELSE t.memory[b].previous_peer
  BY <1>1, InsertIs
<1> HIDE DEF u
<1>4. Path(u) /\ Depth(u) = i /\ u.node_address[1] = t.node_address[1]
  <2>1. i - 1 \in 0..Depth(t) /\ i - 1 # 0
    BY <1>1
  <2>2. /\ Path(u) /\ Depth(u) = (i - 1) + 1
        /\ \A j \in 1..(i - 1) : u.node_address[j] = t.node_address[j]
    BY <1>1, <1>3, <2>1, LongerPath
  <2>3. 1 \in 1..(i - 1)
    BY <1>1
  <2>4. QED
    BY <2>2, <2>3, <1>1
<1>5. /\ old \in Addresses(t) /\ top \in Addresses(t)
      /\ c \in Nat /\ c >= 1 /\ c \in 1..Len(K[top]) /\ K[top][c] = old /\ K[top] \in Seq(Addresses(t))
  <2>1. /\ old \in Addresses(t) /\ top \in Addresses(t) /\ c >= 1 /\ K[top][c] = old
    BY <1>1, <1>2, OnPath
  <2>2. K[top] \in Seq(Addresses(t))
    BY <2>1, <1>2 DEF Links
  <2>3. QED
    BY <2>1, <2>2
<1>6. /\ Addresses(u) = 1..new /\ Addresses(t) \subseteq Addresses(u)
      /\ \A a \in Addresses(u) : a = new \/ a \in Addresses(t)
      /\ new \notin Addresses(t) /\ new \in Addresses(u)
  BY <1>1, <1>3 DEF Addresses
<1>7. L[new] = <<old>> /\ L[top] = [K[top] EXCEPT ![c] = new]
      /\ \A a \in Addresses(t) : a # top => L[a] = K[a]
  BY <1>5, <1>6
<1>8. /\ \A a \in Addresses(t) : K[a] \in Seq(Addresses(t)) /\ LinksOf(t, K, a)
      /\ \A a \in Addresses(t) : \A j \in 1..Len(K[a]) : K[a][j] \in Addresses(t)
  BY <1>2 DEF Links
<1>9. \A p \in Addresses(t) : \A j \in 1..Len(K[p]) : K[p][j] = old => p = top /\ j = c
  BY <1>1, <1>2, PathChild
<1>10. L \in [Addresses(u) -> Seq(Addresses(u))]
  <2>1. \A a \in Addresses(u) : L[a] \in Seq(Addresses(u))
    <3> TAKE a \in Addresses(u)
    <3>1. CASE a = new
      <4>1. <<old>> \in Seq(Addresses(u))
        BY <1>5, <1>6
      <4>2. QED
        BY <3>1, <4>1, <1>7
    <3>2. ASSUME a \in Addresses(t) PROVE K[a] \in Seq(Addresses(u))
      <4>1. K[a] \in Seq(Addresses(t))
        BY <3>2, <1>8
      <4>2. QED
        BY <4>1, <1>6
    <3>3. CASE a \in Addresses(t) /\ a # top
      BY <3>2, <3>3, <1>7
    <3>4. CASE a = top
      <4>1. K[top] \in Seq(Addresses(u))
        BY <3>2, <3>4, <1>5
      <4>2. [K[top] EXCEPT ![c] = new] \in Seq(Addresses(u))
        BY <4>1, <1>5, <1>6, ExceptSeq
      <4>3. QED
        BY <3>4, <4>2, <1>7
    <3>5. QED
      BY <3>1, <3>3, <3>4, <1>6
  <2>2. QED
    BY <2>1, <1>6
<1>11. \A a \in Addresses(t) :
           /\ Len(L[a]) = Len(K[a])
           /\ \A j \in 1..Len(K[a]) : L[a][j] = IF a = top /\ j = c THEN new ELSE K[a][j]
  <2> HIDE DEF L
  <2> TAKE a \in Addresses(t)
  <2>1. CASE a # top
    <3>1. L[a] = K[a]
      BY <2>1, <1>7
    <3>2. QED
      BY <2>1, <3>1
  <2>2. CASE a = top
    <3>1. K[top] \in Seq(Nat) /\ new \in Nat
      BY <1>1, <1>5 DEF Addresses
    <3>2. /\ Len([K[top] EXCEPT ![c] = new]) = Len(K[top])
          /\ \A j \in 1..Len(K[top]) :
                 [K[top] EXCEPT ![c] = new][j] = IF j = c THEN new ELSE K[top][j]
      BY <3>1, <1>5, ExceptSeq
    <3>3. QED
      BY <2>2, <3>2, <1>7
  <2>3. QED
    BY <2>1, <2>2
<1> HIDE DEF L
<1>12. ASSUME NEW a \in Addresses(u) PROVE LinksOf(u, L, a)
  <2>1. CASE a = new
    <3>1. L[a] \in Seq(Addresses(u)) /\ Len(L[a]) = 1 /\ L[a] # <<>> /\ L[a][1] = old
      <4>1. Len(<<old>>) = 1 /\ <<old>> # <<>> /\ <<old>>[1] = old
        OBVIOUS
      <4>2. L[a] = <<old>> /\ L[a] \in Seq(Addresses(u))
        BY <2>1, <1>7, <1>10
      <4>3. QED
        BY <4>1, <4>2
    <3>2. t.memory[old].previous_peer \in 0..Len(t.memory)
      BY <1>5, <1>8 DEF LinksOf
    <3>3. u.memory[a].previous_peer \in 0..Len(u.memory)
      BY <2>1, <3>2, <1>1, <1>3
    <3>4. u.memory[L[a][1]].previous_peer = None
      BY <3>1, <1>3, <1>5
    <3>5. \A j \in 1..Len(L[a]) :
              u.memory[L[a][j]].previous_peer = IF j = 1 THEN None ELSE L[a][j - 1]
      BY <3>1, <3>4
    <3>6. Len(L[a]) <= Len(u.memory) /\ L[a][Len(L[a])] = old
      BY <3>1, <1>1, <1>3
    <3>7. u.memory[a].children_count = Len(L[a]) /\ u.memory[a].last_child = old
      BY <2>1, <3>1, <1>3
    <3>8. QED
      BY <3>1, <3>3, <3>5, <3>6, <3>7 DEF LinksOf
  <2>2. CASE a \in Addresses(t)
    <3>1. /\ LinksOf(t, K, a) /\ L[a] \in Seq(Addresses(u)) /\ K[a] \in Seq(Addresses(t))
          /\ Len(L[a]) = Len(K[a]) /\ Len(L[a]) \in Nat
      BY <2>2, <1>6, <1>8, <1>10, <1>11
    <3>2. ASSUME NEW j \in 1..Len(L[a])
          PROVE  u.memory[L[a][j]].previous_peer = IF j = 1 THEN None ELSE L[a][j - 1]
      <4>1. j \in 1..Len(K[a]) /\ K[a][j] \in Addresses(t)
        BY <2>2, <3>1, <1>8
      <4>2. t.memory[K[a][j]].previous_peer = IF j = 1 THEN None ELSE K[a][j - 1]
        BY <3>1, <4>1 DEF LinksOf
      <4>3. u.memory[L[a][j]].previous_peer = t.memory[K[a][j]].previous_peer
        <5>1. CASE a = top /\ j = c
          BY <5>1, <2>2, <4>1, <1>3, <1>5, <1>11
        <5>2. CASE ~ (a = top /\ j = c)
          <6>1. L[a][j] = K[a][j] /\ K[a][j] # old
            BY <5>2, <2>2, <4>1, <1>9, <1>11
          <6>2. QED
            BY <6>1, <4>1, <1>3
        <5>3. QED
          BY <5>1, <5>2
      <4>4. j # 1 => L[a][j - 1] = K[a][j - 1]
        <5>1. ASSUME j # 1 PROVE L[a][j - 1] = K[a][j - 1]
          <6>1. j - 1 \in 1..Len(K[a]) /\ (a = top => j - 1 # c)
            BY <4>1, <5>1, <3>1, <1>5
          <6>2. QED
            BY <6>1, <2>2, <1>11
        <5>2. QED
          BY <5>1
      <4>5. QED
        BY <4>2, <4>3, <4>4
    <3>3. u.memory[a].previous_peer \in 0..Len(u.memory)
      <4>1. t.memory[a].previous_peer \in 0..Len(t.memory)
        BY <3>1 DEF LinksOf
      <4>2. QED
        BY <4>1, <2>2, <1>1, <1>3, SMTT(30) DEF None
    <3>4. u.memory[a].children_count = Len(L[a]) /\ Len(L[a]) <= Len(u.memory)
      <4>1. t.memory[a].children_count = Len(K[a]) /\ Len(K[a]) <= Len(t.memory)
        BY <3>1 DEF LinksOf
      <4>2. QED
        BY <4>1, <2>2, <3>1, <1>1, <1>3
    <3>5. u.memory[a].last_child = IF L[a] = <<>> THEN None ELSE L[a][Len(L[a])]
      <4>1. CASE a = top
        BY <4>1, <2>2, <3>1, <1>3, <1>5, <1>11, SMTT(30)
      <4>2. CASE a # top
        <5>1. L[a] = K[a] /\ t.memory[a].last_child = IF K[a] = <<>> THEN None ELSE K[a][Len(K[a])]
          BY <4>2, <2>2, <3>1, <1>7 DEF LinksOf
        <5>2. QED
          BY <5>1, <4>2, <2>2, <1>3
      <4>3. QED
        BY <4>1, <4>2
    <3>6. QED
      BY <3>1, <3>2, <3>3, <3>4, <3>5 DEF LinksOf
  <2>3. QED
    BY <2>1, <2>2, <1>6
<1>13. Once(u, L)
  <2> SUFFICES ASSUME NEW p \in Addresses(u), NEW q \in Addresses(u),
                      NEW k \in 1..Len(L[p]), NEW j \in 1..Len(L[q]), L[p][k] = L[q][j]
               PROVE  p = q /\ k = j
    BY DEF Once
  <2>1. CASE p = new /\ q = new
    BY <2>1, <1>7
  <2>2. CASE p \in Addresses(t) /\ q \in Addresses(t)
    <3>1. /\ k \in 1..Len(K[p]) /\ L[p][k] = IF p = top /\ k = c THEN new ELSE K[p][k]
          /\ j \in 1..Len(K[q]) /\ L[q][j] = IF q = top /\ j = c THEN new ELSE K[q][j]
          /\ K[p][k] \in Addresses(t) /\ K[q][j] \in Addresses(t) /\ Once(t, K)
      BY <2>2, <1>2, <1>8, <1>11 DEF Links
    <3>2. CASE (p = top /\ k = c) \/ (q = top /\ j = c)
      BY <3>1, <3>2, <1>6
    <3>3. CASE ~ (p = top /\ k = c) /\ ~ (q = top /\ j = c)
      <4>1. L[p][k] = K[p][k] /\ L[q][j] = K[q][j]
        BY <3>1, <3>3
      <4>2. K[p][k] = K[q][j]
        BY <4>1
      <4>3. QED
        BY <2>2, <3>1, <4>2 DEF Once
    <3>4. QED
      BY <3>2, <3>3
  <2>3. \A r \in Addresses(t) : \A m \in 1..Len(L[r]) : L[r][m] # old
    <3> TAKE r \in Addresses(t)
    <3> TAKE m \in 1..Len(L[r])
    <3>1. m \in 1..Len(K[r]) /\ L[r][m] = IF r = top /\ m = c THEN new ELSE K[r][m]
      BY <1>11
    <3>2. QED
      BY <3>1, <1>5, <1>6, <1>9
  <2>4. \A m \in 1..Len(L[new]) : L[new][m] = old
    BY <1>7
  <2>5. CASE p = new /\ q \in Addresses(t)
    BY <2>3, <2>4, <2>5
  <2>6. CASE p \in Addresses(t) /\ q = new
    BY <2>3, <2>4, <2>6
  <2>7. QED
    BY <2>1, <2>2, <2>5, <2>6, <1>6
<1>14. Rooted(u, L)
  <2> SUFFICES ASSUME NEW a \in Addresses(u) PROVE a \in Children_(u, L) <=> a # t.node_address[1]
    BY <1>4 DEF Rooted
  <2>1. t.node_address[1] \in Addresses(t) /\ t.node_address[1] # old
    <3>1. 1 \in 1..Depth(t)
      BY <1>1
    <3>2. QED
      BY <3>1, <1>1, <1>2, OnPath DEF Path
  <2>2. CASE a = new
    <3>1. c \in 1..Len(L[top]) /\ L[top][c] = new
      BY <1>5, <1>11
    <3>2. QED
      BY <2>1, <2>2, <3>1, <1>5, <1>6 DEF Children_
  <2>3. CASE a = old
    <3>1. 1 \in 1..Len(L[new]) /\ L[new][1] = old
      BY <1>7
    <3>2. QED
      BY <2>1, <2>3, <3>1, <1>5, <1>6 DEF Children_
  <2>4. CASE a \in Addresses(t) /\ a # old
    <3>1. a \in Children_(t, K) <=> a # t.node_address[1]
      BY <2>4, <1>2 DEF Links, Rooted
    <3>2. ASSUME a \in Children_(t, K) PROVE a \in Children_(u, L)
      <4>1. PICK p \in Addresses(t) : \E j \in 1..Len(K[p]) : K[p][j] = a
        BY <3>2 DEF Children_
      <4>2. PICK j \in 1..Len(K[p]) : K[p][j] = a
        BY <4>1
      <4>3. ~ (p = top /\ j = c)
        BY <4>2, <2>4, <1>5
      <4>4. j \in 1..Len(L[p]) /\ L[p][j] = a
        BY <4>2, <4>3, <1>11
      <4>5. QED
        BY <4>4, <1>6 DEF Children_
    <3>3. ASSUME a \in Children_(u, L) PROVE a \in Children_(t, K)
      <4>1. PICK p \in Addresses(u) : \E j \in 1..Len(L[p]) : L[p][j] = a
        BY <3>3 DEF Children_
      <4>2. PICK j \in 1..Len(L[p]) : L[p][j] = a
        BY <4>1
      <4>3. p # new
        BY <4>2, <2>4, <1>7
      <4>4. p \in Addresses(t)
        BY <4>3, <1>6
      <4>5. j \in 1..Len(K[p]) /\ K[p][j] = a
        BY <4>2, <4>4, <2>4, <1>6, <1>11
      <4>6. QED
        BY <2>4, <4>4, <4>5 DEF Children_
    <3>4. QED
      BY <3>1, <3>2, <3>3
  <2>5. QED
    BY <2>2, <2>3, <2>4, <1>6
<1>15. Links(u, L)
  BY <1>10, <1>12, <1>13, <1>14 DEF Links
<1>16. QED
  BY <1>3, <1>4, <1>15 DEF Tied, u

(* A new node in the place of one of the path.                             *)
LEMMA InsertTies ==
    ASSUME NEW t, Tied(t), NEW o, Fresh(o), NEW i \in 1..Depth(t)
    PROVE  Tied(Insert(t, i, o)) /\ Depth(Insert(t, i, o)) = i
<1>1. Depth(t) \in Nat
  BY DEF Tied, Trees, Depth
<1>2. CASE i = 1
  BY <1>1, <1>2, InsertAtRoot
<1>3. CASE i # 1
  <2>1. i \in 2..Depth(t)
    BY <1>1, <1>3
  <2>2. QED
    BY <2>1, InsertBelow
<1>4. QED
  BY <1>2, <1>3

(* A new last child of a node of the path.                                 *)
LEMMA AppendTies ==
    ASSUME NEW t, Tied(t), NEW node, Fresh(node), NEW i \in 1..Depth(t), Item2(t, i).right > 0
    PROVE  Tied(AppendChild(t, i, node)) /\ Depth(AppendChild(t, i, node)) = i + 1
<1> DEFINE u      == AppendChild(t, i, node)
           parent == t.node_address[i]
           new    == Len(t.memory) + 1
<1>1. /\ t \in Trees /\ Path(t) /\ Depth(t) \in Nat /\ Len(t.memory) \in Nat
      /\ i \in 0..Depth(t) /\ i # 0 /\ 1 \in 1..i
  BY DEF Tied, Depth, Trees
<1>2. PICK K : Links(t, K)
  BY DEF Tied
<1> DEFINE c == Len(K[parent])
           L == [a \in 1..new |-> IF a = new THEN <<>>
                                  ELSE IF a = parent THEN Append(K[parent], new) ELSE K[a]]
<1>3. /\ u \in Trees /\ Len(u.memory) = new
      /\ u.node_address = Append(SubSeq(t.node_address, 1, i), new)
      /\ u.memory[new].children_count = 0 /\ u.memory[new].last_child = None
      /\ u.memory[new].previous_peer = t.memory[parent].last_child
      /\ \A b \in Addresses(t) :
             /\ u.memory[b].children_count =
                    IF b = parent THEN t.memory[b].children_count + 1
                                  ELSE t.memory[b].children_count
             /\ u.memory[b].last_child = IF b = parent THEN new ELSE t.memory[b].last_child
             /\ u.memory[b].previous_peer = t.memory[b].previous_peer
  BY <1>1, AppendIs
<1> HIDE DEF u
<1>4. Path(u) /\ Depth(u) = i + 1 /\ u.node_address[1] = t.node_address[1]
  <2>1. \A b \in Addresses(t) :
            u.memory[b].last_child = IF i # 0 /\ b = t.node_address[i] THEN Len(t.memory) + 1
                                     ELSE t.memory[b].last_child
    BY <1>1, <1>3
  <2>2. /\ u.node_address = Append(SubSeq(t.node_address, 1, i), Len(t.memory) + 1)
        /\ Len(u.memory) = Len(t.memory) + 1
    BY <1>3
  <2>3. /\ Path(u) /\ Depth(u) = i + 1
        /\ \A j \in 1..i : u.node_address[j] = t.node_address[j]
    BY <1>1, <1>3, <2>1, <2>2, LongerPath, ZenonT(60)
  <2>4. QED
    BY <1>1, <2>3
<1>5. /\ parent \in Addresses(t) /\ K[parent] \in Seq(Addresses(t)) /\ c \in Nat
  <2>1. parent \in Addresses(t)
    BY <1>1, <1>2, OnPath
  <2>2. K[parent] \in Seq(Addresses(t))
    BY <2>1, <1>2 DEF Links
  <2>3. QED
    BY <2>1, <2>2
<1>6. /\ Addresses(u) = 1..new /\ Addresses(t) \subseteq Addresses(u)
      /\ \A a \in Addresses(u) : a = new \/ a \in Addresses(t)
      /\ new \notin Addresses(t) /\ new \in Addresses(u)
  <2>1. Len(t.memory) \in Nat /\ Len(u.memory) = Len(t.memory) + 1
    BY <1>1, <1>3
  <2>2. QED
    BY <2>1 DEF Addresses
<1>7. L[new] = <<>> /\ L[parent] = Append(K[parent], new)
      /\ \A a \in Addresses(t) : a # parent => L[a] = K[a]
  BY <1>5, <1>6
<1>8. /\ \A a \in Addresses(t) : K[a] \in Seq(Addresses(t)) /\ LinksOf(t, K, a)
      /\ \A a \in Addresses(t) : \A j \in 1..Len(K[a]) : K[a][j] \in Addresses(t)
  BY <1>2 DEF Links
<1>9. L \in [Addresses(u) -> Seq(Addresses(u))]
  <2>1. \A a \in Addresses(u) : L[a] \in Seq(Addresses(u))
    <3> TAKE a \in Addresses(u)
    <3>1. CASE a = new
      BY <3>1, <1>7, SMTT(30)
    <3>2. ASSUME a \in Addresses(t) PROVE K[a] \in Seq(Addresses(u))
      <4>1. K[a] \in Seq(Addresses(t))
        BY <3>2, <1>8
      <4>2. QED
        BY <4>1, <1>6
    <3>3. CASE a \in Addresses(t) /\ a # parent
      BY <3>2, <3>3, <1>7
    <3>4. CASE a = parent
      <4>1. K[parent] \in Seq(Addresses(u))
        BY <3>2, <3>4, <1>5
      <4>2. Append(K[parent], new) \in Seq(Addresses(u))
        BY <4>1, <1>6
      <4>3. QED
        BY <3>4, <4>2, <1>7
    <3>5. QED
      BY <3>1, <3>3, <3>4, <1>6
  <2>2. QED
    BY <2>1, <1>6
<1>10. \A a \in Addresses(t) :
           /\ Len(L[a]) = IF a = parent THEN Len(K[a]) + 1 ELSE Len(K[a])
           /\ \A j \in 1..Len(K[a]) : L[a][j] = K[a][j]
           /\ a = parent => L[a][c + 1] = new
  <2> HIDE DEF L
  <2> TAKE a \in Addresses(t)
  <2>1. CASE a # parent
    <3>1. L[a] = K[a]
      BY <2>1, <1>7
    <3>2. QED
      BY <2>1, <3>1
  <2>2. CASE a = parent
    <3>1. K[parent] \in Seq(Nat) /\ new \in Nat
      BY <1>1, <1>5 DEF Addresses
    <3>2. /\ Len(Append(K[parent], new)) = c + 1
          /\ \A j \in 1..c : Append(K[parent], new)[j] = K[parent][j]
          /\ Append(K[parent], new)[c + 1] = new
      BY <3>1
    <3>3. QED
      BY <2>2, <3>2, <1>7
  <2>3. QED
    BY <2>1, <2>2
<1> HIDE DEF L
<1>11. ASSUME NEW a \in Addresses(u) PROVE LinksOf(u, L, a)
  <2>1. CASE a = new
    <3>1. L[a] = <<>> /\ L[a] \in Seq(Addresses(u)) /\ Len(L[a]) = 0
      BY <2>1, <1>7, <1>9
    <3>2. t.memory[parent].last_child \in 0..Len(t.memory)
      <4>1. LinksOf(t, K, parent)
        BY <1>5, <1>8
      <4>2. CASE K[parent] = <<>>
        BY <4>1, <4>2, <1>1 DEF LinksOf, None
      <4>3. CASE K[parent] # <<>>
        <5>1. c \in 1..c
          BY <4>3, <1>5
        <5>2. K[parent][c] \in Addresses(t)
          BY <5>1, <1>5
        <5>3. QED
          BY <4>1, <4>3, <5>2 DEF LinksOf, Addresses
      <4>4. QED
        BY <4>2, <4>3
    <3>3. u.memory[a].previous_peer \in 0..Len(u.memory)
      BY <2>1, <3>2, <1>1, <1>3
    <3>4. QED
      BY <2>1, <3>1, <3>3, <1>1, <1>3 DEF LinksOf
  <2>2. CASE a \in Addresses(t)
    <3>1. /\ LinksOf(t, K, a) /\ L[a] \in Seq(Addresses(u)) /\ K[a] \in Seq(Addresses(t))
          /\ Len(K[a]) \in Nat
          /\ Len(L[a]) = IF a = parent THEN Len(K[a]) + 1 ELSE Len(K[a])
      BY <2>2, <1>6, <1>8, <1>9, <1>10
    <3>2. ASSUME NEW j \in 1..Len(K[a])
          PROVE  u.memory[L[a][j]].previous_peer = IF j = 1 THEN None ELSE L[a][j - 1]
      <4>1. K[a][j] \in Addresses(t) /\ L[a][j] = K[a][j]
        BY <2>2, <1>8, <1>10
      <4>2. t.memory[K[a][j]].previous_peer = IF j = 1 THEN None ELSE K[a][j - 1]
        BY <3>1 DEF LinksOf
      <4>3. u.memory[L[a][j]].previous_peer = t.memory[K[a][j]].previous_peer
        BY <4>1, <1>3
      <4>4. j # 1 => L[a][j - 1] = K[a][j - 1]
        <5>1. ASSUME j # 1 PROVE L[a][j - 1] = K[a][j - 1]
          <6>1. j - 1 \in 1..Len(K[a])
            BY <5>1, <3>1
          <6>2. QED
            BY <6>1, <2>2, <1>10
        <5>2. QED
          BY <5>1
      <4>5. QED
        BY <4>2, <4>3, <4>4
    <3>3. a = parent => u.memory[L[a][c + 1]].previous_peer = IF c + 1 = 1 THEN None ELSE L[a][c]
      <4>1. ASSUME a = parent
            PROVE  u.memory[L[a][c + 1]].previous_peer = IF c + 1 = 1 THEN None ELSE L[a][c]
        <5>1. u.memory[L[a][c + 1]].previous_peer = t.memory[parent].last_child
          BY <4>1, <2>2, <1>3, <1>10
        <5>2. t.memory[parent].last_child = IF K[parent] = <<>> THEN None ELSE K[parent][c]
          BY <4>1, <3>1 DEF LinksOf
        <5>3. K[parent] = <<>> <=> c = 0
          BY <1>5
        <5>4. c # 0 => L[a][c] = K[a][c]
          <6>1. a \in Addresses(t) /\ c \in Nat /\ c = Len(K[a])
            BY <4>1, <2>2, <1>5
          <6>2. c # 0 => c \in 1..Len(K[a])
            BY <6>1
          <6> HIDE DEF L
          <6>3. QED
            BY <6>1, <6>2, <1>10
        <5>5. QED
          BY <4>1, <5>1, <5>2, <5>3, <5>4, <1>5
      <4>2. QED
        BY <4>1
    <3>4. \A j \in 1..Len(L[a]) :
              u.memory[L[a][j]].previous_peer = IF j = 1 THEN None ELSE L[a][j - 1]
      <4> TAKE j \in 1..Len(L[a])
      <4>1. CASE j \in 1..Len(K[a])
        BY <3>2, <4>1
      <4>2. CASE a = parent /\ j = c + 1
        <5>1. j - 1 = c
          BY <4>2, <1>5
        <5>2. QED
          BY <3>3, <4>2, <5>1
      <4>3. QED
        BY <3>1, <4>1, <4>2
    <3>5. u.memory[a].previous_peer \in 0..Len(u.memory)
      <4>1. t.memory[a].previous_peer \in 0..Len(t.memory)
        BY <3>1 DEF LinksOf
      <4>2. QED
        BY <4>1, <2>2, <1>1, <1>3
    <3>6. u.memory[a].children_count = Len(L[a]) /\ Len(L[a]) <= Len(u.memory)
      <4>1. t.memory[a].children_count = Len(K[a]) /\ Len(K[a]) <= Len(t.memory)
        BY <3>1 DEF LinksOf
      <4>2. QED
        BY <4>1, <2>2, <3>1, <1>1, <1>3
    <3>7. u.memory[a].last_child = IF L[a] = <<>> THEN None ELSE L[a][Len(L[a])]
      <4>1. CASE a = parent
        <5>1. Len(L[a]) = c + 1 /\ L[a] # <<>> /\ L[a][c + 1] = new
          BY <4>1, <2>2, <3>1, <1>5, <1>10
        <5>2. QED
          BY <5>1, <4>1, <2>2, <1>3
      <4>2. CASE a # parent
        <5>1. L[a] = K[a] /\ t.memory[a].last_child = IF K[a] = <<>> THEN None ELSE K[a][Len(K[a])]
          BY <4>2, <2>2, <3>1, <1>7 DEF LinksOf
        <5>2. QED
          BY <5>1, <4>2, <2>2, <1>3
      <4>3. QED
        BY <4>1, <4>2
    <3>8. QED
      BY <3>1, <3>4, <3>5, <3>6, <3>7 DEF LinksOf
  <2>3. QED
    BY <2>1, <2>2, <1>6
<1>12. ASSUME NEW p \in Addresses(u), NEW k \in 1..Len(L[p])
       PROVE  /\ p \in Addresses(t)
              /\ \/ k \in 1..Len(K[p]) /\ L[p][k] = K[p][k] /\ K[p][k] \in Addresses(t)
                 \/ p = parent /\ k = c + 1 /\ L[p][k] = new
  <2>1. p # new
    BY <1>7
  <2>2. p \in Addresses(t)
    BY <2>1, <1>6
  <2>3. Len(K[p]) \in Nat /\ Len(L[p]) = IF p = parent THEN Len(K[p]) + 1 ELSE Len(K[p])
    BY <2>2, <1>8, <1>10
  <2>4. CASE k \in 1..Len(K[p])
    BY <2>2, <2>4, <1>8, <1>10
  <2>5. CASE k \notin 1..Len(K[p])
    <3>1. p = parent /\ k = c + 1
      BY <2>3, <2>5
    <3>2. QED
      BY <2>2, <3>1, <1>10
  <2>6. QED
    BY <2>4, <2>5
<1>13. Once(u, L)
  <2> SUFFICES ASSUME NEW p \in Addresses(u), NEW q \in Addresses(u),
                      NEW k \in 1..Len(L[p]), NEW j \in 1..Len(L[q]), L[p][k] = L[q][j]
               PROVE  p = q /\ k = j
    BY DEF Once
  <2>1. Once(t, K)
    BY <1>2 DEF Links
  <2>2. /\ p \in Addresses(t)
        /\ \/ k \in 1..Len(K[p]) /\ L[p][k] = K[p][k] /\ K[p][k] \in Addresses(t)
           \/ p = parent /\ k = c + 1 /\ L[p][k] = new
    BY <1>12
  <2>3. /\ q \in Addresses(t)
        /\ \/ j \in 1..Len(K[q]) /\ L[q][j] = K[q][j] /\ K[q][j] \in Addresses(t)
           \/ q = parent /\ j = c + 1 /\ L[q][j] = new
    BY <1>12
  <2>4. CASE L[p][k] = new
    BY <2>2, <2>3, <2>4, <1>6
  <2>5. CASE L[p][k] # new
    <3>1. k \in 1..Len(K[p]) /\ j \in 1..Len(K[q]) /\ K[p][k] = K[q][j]
      BY <2>2, <2>3, <2>5
    <3>2. QED
      BY <2>1, <2>2, <2>3, <3>1 DEF Once
  <2>6. QED
    BY <2>4, <2>5
<1>14. Rooted(u, L)
  <2> SUFFICES ASSUME NEW a \in Addresses(u) PROVE a \in Children_(u, L) <=> a # t.node_address[1]
    BY <1>4 DEF Rooted
  <2>1. t.node_address[1] \in Addresses(t)
    <3>1. 1 \in 1..Depth(t)
      BY <1>1
    <3>2. QED
      BY <3>1, <1>1, <1>2, OnPath
  <2>2. CASE a = new
    <3>1. c + 1 \in 1..Len(L[parent]) /\ L[parent][c + 1] = new
      BY <1>5, <1>10
    <3>2. QED
      BY <2>1, <2>2, <3>1, <1>5, <1>6 DEF Children_
  <2>3. CASE a \in Addresses(t)
    <3>1. a \in Children_(t, K) <=> a # t.node_address[1]
      BY <2>3, <1>2 DEF Links, Rooted
    <3>2. ASSUME a \in Children_(t, K) PROVE a \in Children_(u, L)
      <4>1. PICK p \in Addresses(t) : \E j \in 1..Len(K[p]) : K[p][j] = a
        BY <3>2 DEF Children_
      <4>2. PICK j \in 1..Len(K[p]) : K[p][j] = a
        BY <4>1
      <4>3. Len(K[p]) \in Nat /\ Len(L[p]) = IF p = parent THEN Len(K[p]) + 1 ELSE Len(K[p])
        BY <1>8, <1>10
      <4>4. j \in 1..Len(L[p]) /\ L[p][j] = a
        BY <4>2, <4>3, <1>10
      <4>5. QED
        BY <4>4, <1>6 DEF Children_
    <3>3. ASSUME a \in Children_(u, L) PROVE a \in Children_(t, K)
      <4>1. PICK p \in Addresses(u) : \E j \in 1..Len(L[p]) : L[p][j] = a
        BY <3>3 DEF Children_
      <4>2. PICK j \in 1..Len(L[p]) : L[p][j] = a
        BY <4>1
      <4>3. p \in Addresses(t) /\ j \in 1..Len(K[p]) /\ K[p][j] = a
        BY <4>2, <2>3, <1>6, <1>12
      <4>4. QED
        BY <2>3, <4>3 DEF Children_
    <3>4. QED
      BY <3>1, <3>2, <3>3
  <2>4. QED
    BY <2>2, <2>3, <1>6
<1>15. Links(u, L)
  BY <1>9, <1>11, <1>13, <1>14 DEF Links
<1>16. QED
  BY <1>3, <1>4, <1>15 DEF Tied, u

-----------------------------------------------------------------------------
(* What leaves the path is complete, and stays so.                         *)

LEMMA StaysWhole ==
    ASSUME NEW t \in Trees, Path(t), Whole(t), NEW k \in 0..Depth(t), WholeBeyond(t, k),
           NEW u \in Trees, k <= Depth(u),
           \A j \in 1..k : u.node_address[j] = t.node_address[j],
           \A a \in Addresses(u) : a \in Addresses(t) \/ ~OffPath(u, a),
           \A b \in Addresses(t) :
               (\A j \in 1..k : t.node_address[j] # b) => SameState(u.memory[b], t.memory[b])
    PROVE  Whole(u)
<1> SUFFICES ASSUME NEW a \in Addresses(u), OffPath(u, a) PROVE Complete(u.memory[a])
  BY DEF Whole
<1>1. a \in Addresses(t) /\ Depth(u) \in Nat /\ Depth(t) \in Nat
  BY DEF Depth, Trees
<1>2. \A j \in 1..k : t.node_address[j] # a
  BY <1>1 DEF OffPath
<1>3. SameState(u.memory[a], t.memory[a])
  BY <1>1, <1>2
<1>4. Complete(t.memory[a])
  <2>1. CASE OffPath(t, a)
    BY <2>1, <1>1 DEF Whole
  <2>2. CASE ~OffPath(t, a)
    <3>1. PICK j \in 1..Depth(t) : t.node_address[j] = a
      BY <2>2 DEF OffPath
    <3>2. j \in (k + 1)..Depth(t)
      BY <3>1, <1>1, <1>2
    <3>3. QED
      BY <3>1, <3>2 DEF WholeBeyond, Item2
  <2>3. QED
    BY <2>1, <2>2
<1>5. QED
  BY <1>3, <1>4 DEF SameState, Complete

LEMMA ExtendWhole ==
    ASSUME NEW t, Tied(t), Whole(t), NEW i \in 1..Depth(t), WholeBeyond(t, i),
           NEW o, Fresh(o), SameAgain(t, i, o)
    PROVE  Whole(Extend(t, i, o))
<1> DEFINE u == Extend(t, i, o)
<1>1. t \in Trees /\ Path(t) /\ Depth(t) \in Nat /\ i \in 0..Depth(t)
  BY DEF Tied, Trees, Depth
<1>2. /\ u \in Trees
      /\ u.node_address = SubSeq(t.node_address, 1, i)
      /\ Len(u.memory) = Len(t.memory)
      /\ \A b \in Addresses(t) : b # t.node_address[i] => u.memory[b] = t.memory[b]
  BY <1>1, ExtendIs
<1>3. Depth(u) = i
  BY ExtendTies
<1> HIDE DEF u
<1>4. \A j \in 1..i : u.node_address[j] = t.node_address[j]
  BY <1>1, <1>2 DEF Depth, Trees
<1>5. \A a \in Addresses(u) : a \in Addresses(t)
  BY <1>2 DEF Addresses
<1>6. \A b \in Addresses(t) :
          (\A j \in 1..i : t.node_address[j] # b) => SameState(u.memory[b], t.memory[b])
  <2> SUFFICES ASSUME NEW b \in Addresses(t), \A j \in 1..i : t.node_address[j] # b
               PROVE  u.memory[b] = t.memory[b]
    BY DEF SameState
  <2>1. i \in 1..i
    BY <1>1
  <2>2. QED
    BY <2>1, <1>2
<1>7. Whole(u)
  BY <1>1, <1>2, <1>3, <1>4, <1>5, <1>6, StaysWhole
<1>8. QED
  BY <1>7 DEF u

LEMMA InsertWhole ==
    ASSUME NEW t, Tied(t), Whole(t), NEW i \in 1..Depth(t), WholeBeyond(t, i),
           Complete(Item2(t, i)), NEW o, Fresh(o)
    PROVE  Whole(Insert(t, i, o))
<1> DEFINE u == Insert(t, i, o)
           new == Len(t.memory) + 1
<1>1. /\ t \in Trees /\ Path(t) /\ Depth(t) \in Nat /\ i - 1 \in 0..Depth(t)
      /\ i \in 1..i /\ Len(t.memory) \in Nat
  BY DEF Tied, Trees, Depth
<1>2. /\ u \in Trees
      /\ u.node_address = Append(SubSeq(t.node_address, 1, i - 1), new)
      /\ Len(u.memory) = new
      /\ \A b \in Addresses(t) : SameState(u.memory[b], t.memory[b])
  BY <1>1, InsertIs
<1>3. Depth(u) = i
  BY InsertTies
<1> HIDE DEF u
<1>4. u.node_address[i] = new /\ \A j \in 1..(i - 1) : u.node_address[j] = t.node_address[j]
  BY <1>1, <1>2, SMTT(30) DEF Depth, Trees
<1>5. \A a \in Addresses(u) : a \in Addresses(t) \/ ~OffPath(u, a)
  <2> TAKE a \in Addresses(u)
  <2>1. a = new \/ a \in Addresses(t)
    BY <1>1, <1>2 DEF Addresses
  <2>2. QED
    BY <2>1, <1>1, <1>3, <1>4 DEF OffPath
<1>6. WholeBeyond(t, i - 1)
  <2> SUFFICES ASSUME NEW j \in i..Depth(t) PROVE Complete(Item2(t, j))
    BY DEF WholeBeyond
  <2>1. j = i \/ j \in (i + 1)..Depth(t)
    BY <1>1
  <2>2. QED
    BY <2>1 DEF WholeBeyond
<1>7. i - 1 <= Depth(u)
  BY <1>3
<1>8. Whole(u)
  BY <1>1, <1>2, <1>4, <1>5, <1>6, <1>7, StaysWhole
<1>9. QED
  BY <1>8 DEF u

LEMMA AppendWhole ==
    ASSUME NEW t, Tied(t), Whole(t), NEW i \in 1..Depth(t), WholeBeyond(t, i),
           NEW node, Fresh(node), Item2(t, i).right > 0
    PROVE  Whole(AppendChild(t, i, node))
<1> DEFINE u == AppendChild(t, i, node)
           new == Len(t.memory) + 1
<1>1. /\ t \in Trees /\ Path(t) /\ Depth(t) \in Nat /\ i \in 0..Depth(t)
      /\ i \in 1..i /\ i + 1 \in 1..(i + 1) /\ Len(t.memory) \in Nat
  BY DEF Tied, Trees, Depth
<1>2. /\ u \in Trees
      /\ u.node_address = Append(SubSeq(t.node_address, 1, i), new)
      /\ Len(u.memory) = new
      /\ \A b \in Addresses(t) : b # t.node_address[i] => u.memory[b] = t.memory[b]
  BY <1>1, AppendIs
<1>3. Depth(u) = i + 1
  BY AppendTies
<1> HIDE DEF u
<1>4. u.node_address[i + 1] = new /\ \A j \in 1..i : u.node_address[j] = t.node_address[j]
  BY <1>1, <1>2 DEF Depth, Trees
<1>5. \A a \in Addresses(u) : a \in Addresses(t) \/ ~OffPath(u, a)
  <2> TAKE a \in Addresses(u)
  <2>1. a = new \/ a \in Addresses(t)
    BY <1>1, <1>2 DEF Addresses
  <2>2. QED
    BY <2>1, <1>1, <1>3, <1>4 DEF OffPath
<1>6. \A b \in Addresses(t) :
          (\A j \in 1..i : t.node_address[j] # b) => SameState(u.memory[b], t.memory[b])
  <2> SUFFICES ASSUME NEW b \in Addresses(t), \A j \in 1..i : t.node_address[j] # b
               PROVE  u.memory[b] = t.memory[b]
    BY DEF SameState
  <2>1. QED
    BY <1>1, <1>2
<1>7. i <= Depth(u)
  BY <1>1, <1>3
<1>8. Whole(u)
  BY <1>1, <1>2, <1>4, <1>5, <1>6, <1>7, StaysWhole
<1>9. QED
  BY <1>8 DEF u

-----------------------------------------------------------------------------
(* Where parse_helper places a token.                                      *)

(* A set of numbers has a least one.                                       *)
LEMMA Least ==
    ASSUME NEW N, N \subseteq Nat, N # {}
    PROVE  \E n \in N : \A k \in N : n <= k
<1>1. PICK n \in N : \A k \in N : <<k, n>> \notin OpToRel(<, Nat)
  BY NatLessThanWellFounded, WFMin
<1>2. ASSUME NEW k \in N PROVE n <= k
  <2>1. n \in Nat /\ k \in Nat
    OBVIOUS
  <2>2. ~ (k < n)
    BY <1>1, <2>1 DEF OpToRel
  <2>3. QED
    BY <2>1, <2>2
<1>3. QED
  BY <1>2

(* And one with an end a greatest, which Max names.                        *)
LEMMA MaxIs ==
    ASSUME NEW n \in Nat, NEW S, S \subseteq 0..n, S # {}
    PROVE  Max(S) \in S /\ \A y \in S : Max(S) >= y
<1> DEFINE N == {n - x : x \in S}
<1>1. PICK k \in N : \A j \in N : k <= j
  <2>1. N \subseteq Nat
    OBVIOUS
  <2>2. PICK x \in S : n - x \in N
    OBVIOUS
  <2> HIDE DEF N
  <2>3. QED
    BY <2>1, <2>2, Least
<1>2. PICK x \in S : k = n - x
  BY <1>1
<1>3. ASSUME NEW y \in S PROVE x >= y
  <2>1. n - y \in N
    OBVIOUS
  <2>2. x \in 0..n /\ y \in 0..n
    OBVIOUS
  <2> HIDE DEF N
  <2>3. n - x <= n - y
    BY <1>1, <1>2, <2>1
  <2>4. QED
    BY <2>2, <2>3
<1>4. QED
  BY <1>3 DEF Max

LEMMA LowestIs ==
    ASSUME NEW n \in Nat, NEW S, S \subseteq 1..n
    PROVE  /\ Lowest(S) \in 0..n
           /\ Lowest(S) # 0 => Lowest(S) \in S
           /\ \A y \in S : Lowest(S) >= y
<1>1. CASE S = {}
  BY <1>1 DEF Lowest
<1>2. CASE S # {}
  <2>1. S \subseteq 0..n
    OBVIOUS
  <2>2. Max(S) \in S /\ \A y \in S : Max(S) >= y
    BY <1>2, <2>1, MaxIs
  <2>3. Lowest(S) = Max(S) /\ Max(S) \in 1..n
    BY <1>2, <2>2 DEF Lowest
  <2>4. QED
    BY <2>2, <2>3
<1>3. QED
  BY <1>1, <1>2

(* The scans end at a node of the path with nothing incomplete beyond it.  *)
LEMMA ScanUpIs ==
    ASSUME NEW t \in Trees, NEW act
    PROVE  ScanUp(t, act) \in 0..Depth(t) /\ WholeBeyond(t, ScanUp(t, act)) /\ Depth(t) \in Nat
<1> DEFINE S == {i \in 1..Depth(t) :
                    LET node == Item2(t, i) IN
                    \/ ~Complete(node)
                    \/ ~node.union_is_value /\ \E o \in act : node.priority < o.priority}
<1>1. Depth(t) \in Nat
  BY DEF Trees, Depth
<1>2. ScanUp(t, act) = Lowest(S)
  BY DEF ScanUp
<1>3. S \subseteq 1..Depth(t) /\ \A j \in 1..Depth(t) : ~Complete(Item2(t, j)) => j \in S
  OBVIOUS
<1> HIDE DEF S
<1>4. Lowest(S) \in 0..Depth(t) /\ \A y \in S : Lowest(S) >= y
  BY <1>1, <1>3, LowestIs
<1>5. WholeBeyond(t, ScanUp(t, act))
  <2> SUFFICES ASSUME NEW j \in (Lowest(S) + 1)..Depth(t) PROVE Complete(Item2(t, j))
    BY <1>2 DEF WholeBeyond
  <2>1. j \in 1..Depth(t) /\ ~ (Lowest(S) >= j)
    BY <1>1, <1>4
  <2>2. QED
    BY <2>1, <1>3, <1>4
<1>6. QED
  BY <1>1, <1>2, <1>4, <1>5

LEMMA CurrentIs ==
    ASSUME NEW t \in Trees, NEW act, Depth(t) # 0
    PROVE  /\ Current(t, act) \in 0..Depth(t)
           /\ act # {} => Current(t, act) # 0
           /\ WholeBeyond(t, Current(t, act))
<1> DEFINE top   == ScanUp(t, act)
           child == IF top = Depth(t) THEN top ELSE top + 1
           S     == {i \in 1..child : ~Complete(Item2(t, i))}
           open  == Lowest(S)
<1>1. top \in 0..Depth(t) /\ WholeBeyond(t, top) /\ Depth(t) \in Nat
  BY ScanUpIs
<1>2. child \in 1..Depth(t) /\ child >= top
  <2> HIDE DEF top
  <2>1. QED
    BY <1>1
<1>3. Current(t, act) = IF act = {} THEN top
                        ELSE IF open # 0 /\ \E o \in act : Item2(t, open).rtt = o.rtt THEN open
                        ELSE child
  BY DEF Current
<1> HIDE DEF top, child
<1>4. WholeBeyond(t, child)
  BY <1>1, <1>2 DEF WholeBeyond
<1>5. S \subseteq 1..child /\ \A j \in 1..child : ~Complete(Item2(t, j)) => j \in S
  OBVIOUS
<1> HIDE DEF S
<1>6. Lowest(S) \in 0..child /\ \A y \in S : Lowest(S) >= y
  <2>1. child \in Nat
    BY <1>1, <1>2
  <2>2. QED
    BY <2>1, <1>5, LowestIs
<1>7. WholeBeyond(t, Lowest(S))
  <2> SUFFICES ASSUME NEW j \in (Lowest(S) + 1)..Depth(t) PROVE Complete(Item2(t, j))
    BY DEF WholeBeyond
  <2>1. CASE j \in 1..child
    <3>1. ~ (Lowest(S) >= j)
      BY <1>2, <1>6, <2>1
    <3>2. QED
      BY <2>1, <3>1, <1>5, <1>6
  <2>2. CASE j \notin 1..child
    <3>1. j \in (child + 1)..Depth(t)
      BY <2>2, <1>2, <1>6
    <3>2. QED
      BY <3>1, <1>4 DEF WholeBeyond
  <2>3. QED
    BY <2>1, <2>2
<1>8. QED
  BY <1>1, <1>2, <1>3, <1>4, <1>6, <1>7

(* What parse_helper gives: a tree that is one, and whole beside its path, *)
(* with the text it had and no fewer nodes.                                *)
Kept(t, u) ==
    /\ Tied(u) /\ Whole(u) /\ u.expression_string = t.expression_string
    /\ Len(u.memory) >= Len(t.memory)

LEMMA PlaceOperatorIs ==
    ASSUME NEW t, Tied(t), Whole(t), NEW i \in 1..Depth(t), WholeBeyond(t, i), NEW o, Fresh(o)
    PROVE  LET placed == PlaceOperator(t, i, o) IN
           /\ placed.success \in BOOLEAN /\ Kept(t, placed.tree)
           /\ WholeBeyond(placed.tree, i) /\ i \in 1..Depth(placed.tree)
<1>1. t \in Trees /\ Path(t) /\ Depth(t) \in Nat /\ Len(t.memory) \in Nat
  BY DEF Tied, Trees, Depth
<1>2. \A u : Depth(u) = i => WholeBeyond(u, i) /\ i \in 1..Depth(u)
  BY <1>1 DEF WholeBeyond
<1>3. CASE SameAgain(t, i, o)
  <2>1. /\ Extend(t, i, o).expression_string = t.expression_string
        /\ Len(Extend(t, i, o).memory) = Len(t.memory)
    BY <1>1, <1>3, ExtendIs
  <2>2. Tied(Extend(t, i, o)) /\ Depth(Extend(t, i, o)) = i
    BY <1>3, ExtendTies
  <2>3. Whole(Extend(t, i, o))
    BY <1>3, ExtendWhole
  <2>4. PlaceOperator(t, i, o) = [success |-> TRUE, tree |-> Extend(t, i, o)]
    BY <1>3 DEF PlaceOperator
  <2>5. QED
    BY <1>1, <1>2, <2>1, <2>2, <2>3, <2>4 DEF Kept
<1>4. CASE ~SameAgain(t, i, o) /\ Complete(Item2(t, i))
  <2>1. /\ Insert(t, i, o).expression_string = t.expression_string
        /\ Len(Insert(t, i, o).memory) = Len(t.memory) + 1
    BY <1>1, InsertIs
  <2>2. Tied(Insert(t, i, o)) /\ Depth(Insert(t, i, o)) = i
    BY InsertTies
  <2>3. Whole(Insert(t, i, o))
    BY <1>4, InsertWhole
  <2>4. PlaceOperator(t, i, o) = [success |-> TRUE, tree |-> Insert(t, i, o)]
    BY <1>4 DEF PlaceOperator
  <2>5. QED
    BY <1>1, <1>2, <2>1, <2>2, <2>3, <2>4 DEF Kept
<1>5. CASE ~SameAgain(t, i, o) /\ ~Complete(Item2(t, i))
  <2>1. PlaceOperator(t, i, o) = [success |-> FALSE, tree |-> t]
    BY <1>5 DEF PlaceOperator
  <2>2. QED
    BY <2>1, <1>1 DEF Kept
<1>6. QED
  BY <1>3, <1>4, <1>5

LEMMA PlaceValueIs ==
    ASSUME NEW t, NEW placed, placed.success \in BOOLEAN, Kept(t, placed.tree),
           NEW i \in 0..Depth(placed.tree), WholeBeyond(placed.tree, i), NEW node, Fresh(node),
           Len(t.memory) \in Nat
    PROVE  LET result == PlaceValue(placed, i, node) IN
           result.success \in BOOLEAN /\ Kept(t, result.tree)
<1> DEFINE u == placed.tree
<1>1. u \in Trees /\ Path(u) /\ Depth(u) \in Nat /\ Len(u.memory) \in Nat /\ Tied(u) /\ Whole(u)
  BY DEF Kept, Tied, Trees, Depth
<1>2. CASE i # 0 /\ Item2(u, i).right > 0
  <2>1. i \in 1..Depth(u)
    BY <1>1, <1>2
  <2>2. /\ AppendChild(u, i, node).expression_string = u.expression_string
        /\ Len(AppendChild(u, i, node).memory) = Len(u.memory) + 1
    BY <1>1, <1>2, <2>1, AppendIs
  <2>3. Tied(AppendChild(u, i, node))
    BY <1>1, <1>2, <2>1, AppendTies
  <2>4. Whole(AppendChild(u, i, node))
    BY <1>1, <1>2, <2>1, AppendWhole
  <2>5. PlaceValue(placed, i, node) = [success |-> TRUE, tree |-> AppendChild(u, i, node)]
    BY <1>2 DEF PlaceValue
  <2>6. u.expression_string = t.expression_string /\ Len(u.memory) >= Len(t.memory)
    BY DEF Kept
  <2>7. QED
    BY <1>1, <2>2, <2>3, <2>4, <2>5, <2>6 DEF Kept
<1>3. CASE ~ (i # 0 /\ Item2(u, i).right > 0)
  BY <1>3 DEF PlaceValue
<1>4. QED
  BY <1>2, <1>3

(* The first value is the root.                                            *)
LEMMA FirstIs ==
    ASSUME NEW t, Tied(t), Whole(t), t.node_address = <<>>, NEW node, Fresh(node)
    PROVE  Kept(t, [t EXCEPT !.node_address = <<1>>, !.memory = Append(@, node)])
<1> DEFINE u == [t EXCEPT !.node_address = <<1>>, !.memory = Append(@, node)]
           L == [a \in {1} |-> <<>>]
<1>1. t \in Trees /\ t.memory = <<>>
  BY DEF Tied, Path
<1>2. node \in Nodes
  BY DEF Fresh
<1>3. Append(t.memory, node) = <<node>> /\ <<node>> \in Seq(Nodes) /\ <<1>> \in Seq(Nat)
  BY <1>1, <1>2
<1>4. /\ u \in Trees /\ u.memory = <<node>> /\ u.node_address = <<1>>
      /\ u.expression_string = t.expression_string
  BY <1>1, <1>3 DEF Trees
<1> HIDE DEF u
<1>5. Len(<<node>>) = 1 /\ <<node>>[1] = node /\ Len(<<1>>) = 1 /\ <<1>>[1] = 1
  OBVIOUS
<1>6. Addresses(u) = {1} /\ Depth(u) = 1 /\ Len(u.memory) = 1
  BY <1>4, <1>5 DEF Addresses, Depth
<1>7. Path(u)
  BY <1>4, <1>5, <1>6 DEF Path
<1>8. L[1] = <<>> /\ L \in [Addresses(u) -> Seq(Addresses(u))]
  BY <1>6
<1> HIDE DEF L
<1>9. u.memory[1].children_count = 0 /\ u.memory[1].last_child = None
      /\ u.memory[1].previous_peer = None
  BY <1>4, <1>5 DEF Fresh
<1>10. LinksOf(u, L, 1)
  BY <1>6, <1>8, <1>9 DEF LinksOf, None
<1>11. Once(u, L) /\ Rooted(u, L)
  BY <1>4, <1>5, <1>6, <1>8 DEF Once, Rooted, Children_
<1>12. Tied(u)
  BY <1>4, <1>6, <1>7, <1>8, <1>10, <1>11 DEF Tied, Links
<1>13. Whole(u)
  BY <1>4, <1>5, <1>6 DEF Whole, OffPath
<1>14. Kept(t, u)
  BY <1>1, <1>4, <1>6, <1>12, <1>13 DEF Kept
<1>15. QED
  BY <1>14 DEF u

LEMMA HelperIs ==
    ASSUME NEW t, Tied(t), Whole(t), NEW node, Fresh(node), NEW place,
           NEW default, \A o \in default : Fresh(OperatorNode(o))
    PROVE  LET result == parse_helper(t, node, place, default) IN
           result.success \in BOOLEAN /\ Kept(t, result.tree)
<1> DEFINE act    == IF place = "operator" THEN {node} ELSE {OperatorNode(o) : o \in default}
           i      == Current(t, act)
           o      == CHOOSE m \in act : TRUE
           placed == IF act = {} THEN [success |-> FALSE, tree |-> t]
                     ELSE PlaceOperator(t, i, o)
           first  == [t EXCEPT !.node_address = <<1>>, !.memory = Append(@, node)]
<1>1. t \in Trees /\ Depth(t) \in Nat /\ Len(t.memory) \in Nat /\ Kept(t, t)
  BY DEF Tied, Trees, Depth, Kept
<1>2. parse_helper(t, node, place, default) =
          IF place = "discard" THEN [success |-> TRUE, tree |-> t]
          ELSE IF t.node_address = <<>>
          THEN IF place = "operator" THEN [success |-> FALSE, tree |-> t]
               ELSE [success |-> TRUE, tree |-> first]
          ELSE IF place = "operator" THEN placed ELSE PlaceValue(placed, i, node)
  BY DEF parse_helper
<1>3. \A m \in act : Fresh(m)
  OBVIOUS
<1>4. CASE place = "discard" \/ t.node_address = <<>>
  <2>1. t.node_address = <<>> => Kept(t, first)
    BY FirstIs
  <2> HIDE DEF first
  <2>2. \/ parse_helper(t, node, place, default) \in
               {[success |-> TRUE, tree |-> t], [success |-> FALSE, tree |-> t]}
        \/ /\ t.node_address = <<>>
           /\ parse_helper(t, node, place, default) = [success |-> TRUE, tree |-> first]
    BY <1>2, <1>4
  <2> DEFINE result == parse_helper(t, node, place, default)
  <2> HIDE DEF result
  <2>3. \/ result = [success |-> TRUE, tree |-> t]
        \/ result = [success |-> FALSE, tree |-> t]
        \/ t.node_address = <<>> /\ result = [success |-> TRUE, tree |-> first]
    BY <2>2 DEF result
  <2>4. result.success \in BOOLEAN /\ (result.tree = t \/ (result.tree = first /\ t.node_address = <<>>))
    <3>1. CASE result = [success |-> TRUE, tree |-> t]
      BY <3>1
    <3>2. CASE result = [success |-> FALSE, tree |-> t]
      BY <3>2
    <3>3. CASE t.node_address = <<>> /\ result = [success |-> TRUE, tree |-> first]
      BY <3>3
    <3>4. QED
      BY <2>3, <3>1, <3>2, <3>3
  <2>5. result.success \in BOOLEAN /\ Kept(t, result.tree)
    BY <1>1, <2>1, <2>4
  <2>6. QED
    BY <2>5 DEF result
<1>5. CASE place # "discard" /\ t.node_address # <<>>
  <2> HIDE DEF act
  <2>1. Depth(t) # 0
    BY <1>1, <1>5 DEF Depth, Trees
  <2>2. i \in 0..Depth(t) /\ (act # {} => i # 0) /\ WholeBeyond(t, i)
    BY <1>1, <2>1, CurrentIs
  <2>3. act # {} => Fresh(o)
    BY <1>3
  <2> HIDE DEF i, o
  <2>4. placed.success \in BOOLEAN /\ Kept(t, placed.tree)
        /\ WholeBeyond(placed.tree, i) /\ i \in 0..Depth(placed.tree)
    <3>1. CASE act = {}
      <4>1. placed = [success |-> FALSE, tree |-> t]
        BY <3>1
      <4> HIDE DEF placed
      <4>2. placed.success = FALSE /\ placed.tree = t
        BY <4>1
      <4>3. QED
        BY <4>2, <1>1, <2>2
    <3>2. CASE act # {}
      <4>1. i \in 1..Depth(t) /\ placed = PlaceOperator(t, i, o)
        BY <3>2, <1>1, <2>2
      <4> HIDE DEF placed
      <4>2. /\ placed.success \in BOOLEAN /\ Kept(t, placed.tree)
            /\ WholeBeyond(placed.tree, i) /\ i \in 1..Depth(placed.tree)
        BY <3>2, <4>1, <2>2, <2>3, PlaceOperatorIs
      <4>3. QED
        BY <4>2
    <3>3. QED
      BY <3>1, <3>2
  <2> HIDE DEF placed
  <2>5. /\ PlaceValue(placed, i, node).success \in BOOLEAN
        /\ Kept(t, PlaceValue(placed, i, node).tree)
    <3>1. Len(t.memory) \in Nat
      BY <1>1
    <3>2. QED
      BY <3>1, <2>4, PlaceValueIs
  <2>6. QED
    BY <1>2, <1>5, <2>4, <2>5
<1>6. QED
  BY <1>4, <1>5

(* The text of the values can grow.                                        *)
LEMMA TextIs ==
    ASSUME NEW t, Tied(t), Whole(t), NEW e \in Seq(Int)
    PROVE  LET u == [t EXCEPT !.expression_string = e] IN
           /\ Tied(u) /\ Whole(u) /\ u.expression_string = e
           /\ Len(u.memory) = Len(t.memory) /\ u.node_address = t.node_address
<1> DEFINE u == [t EXCEPT !.expression_string = e]
<1>1. t \in Trees /\ Path(t)
  BY DEF Tied
<1>2. /\ u \in Trees /\ u.memory = t.memory /\ u.node_address = t.node_address
      /\ u.expression_string = e
  BY <1>1 DEF Trees
<1> HIDE DEF u
<1>3. PICK K : Links(t, K)
  BY DEF Tied
<1>4. Addresses(u) = Addresses(t) /\ Depth(u) = Depth(t)
  BY <1>2 DEF Addresses, Depth
<1>5. Path(u)
  BY <1>1, <1>2, <1>4 DEF Path
<1>6. Links(u, K)
  <2>1. u.node_address[1] = t.node_address[1] /\ Len(u.memory) = Len(t.memory)
    BY <1>2
  <2>2. QED
    BY <1>1, <1>2, <1>3, <2>1, SameLinks
<1>7. Whole(u)
  BY <1>2, <1>4 DEF Whole, OffPath
<1>8. QED
  BY <1>2, <1>5, <1>6, <1>7 DEF Tied, u

-----------------------------------------------------------------------------
(* What the lexers read.                                                   *)

LEMMA OutcomeIs ==
    ASSUME NEW parsed, NEW n, Outcome(parsed, n).code = "success"
    PROVE  Outcome(parsed, n).size = n /\ n # 0 /\ parsed
<1>1. Error.code = "error" /\ Attempt.code = "attempt" /\ Success(n).size = n
  BY DEF Error, Attempt, Success
<1>2. Outcome(parsed, n) = IF ~parsed THEN Error ELSE IF n = 0 THEN Attempt ELSE Success(n)
  BY DEF Outcome
<1>3. QED
  BY <1>1, <1>2

\* What the recursive functions of CheckNumber and ReadString are up to n.
NumberRun(s, n, f) ==
    f = [k \in 0..n |-> IF k = 0 THEN NumberStart ELSE NumberStep(f[k - 1], s[k])]

StringRun(s, n, f) ==
    f = [k \in 0..n |-> IF k = 0 THEN StringStart ELSE StringStep(f[k - 1], s[k])]

LEMMA NumberRunExists ==
    ASSUME NEW s, NEW n \in Nat
    PROVE  \E f : NumberRun(s, n, f)
<1> DEFINE N == {k \in 0..n : ~ \E f : NumberRun(s, k, f)}
<1>1. SUFFICES ASSUME N # {} PROVE FALSE
  OBVIOUS
<1>2. PICK k \in N : \A j \in N : k <= j
  <2>1. N \subseteq Nat
    OBVIOUS
  <2> HIDE DEF N
  <2>2. QED
    BY <1>1, <2>1, Least
<1>3. k # 0
  <2>1. NumberRun(s, 0, [j \in 0..0 |-> NumberStart])
    BY DEF NumberRun
  <2>2. QED
    BY <2>1
<1>4. k - 1 \in 0..n /\ k - 1 \notin N
  <2>1. k \in 0..n
    BY <1>2
  <2>2. k - 1 \in 0..n /\ ~ (k <= k - 1)
    BY <1>3, <2>1
  <2> HIDE DEF N
  <2>3. QED
    BY <1>2, <2>2
<1>5. PICK g : NumberRun(s, k - 1, g)
  BY <1>4
<1> DEFINE f == [i \in 0..k |-> IF i = k THEN NumberStep(g[k - 1], s[k]) ELSE g[i]]
<1>6. ASSUME NEW i \in 0..k
      PROVE  f[i] = IF i = 0 THEN NumberStart ELSE NumberStep(f[i - 1], s[i])
  <2>0. k \in Nat /\ k >= 1
    BY <1>3
  <2>1. CASE i = k
    <3>1. f[k - 1] = g[k - 1]
      BY <2>0
    <3>2. QED
      BY <2>0, <2>1, <3>1
  <2>2. CASE i # k
    <3>1. i \in 0..(k - 1) /\ f[i] = g[i]
      BY <2>0, <2>2
    <3>2. g[i] = IF i = 0 THEN NumberStart ELSE NumberStep(g[i - 1], s[i])
      BY <1>5, <3>1 DEF NumberRun
    <3>3. i # 0 => f[i - 1] = g[i - 1]
      BY <2>0, <2>2
    <3>4. QED
      BY <3>1, <3>2, <3>3
  <2>3. QED
    BY <2>1, <2>2
<1>7. NumberRun(s, k, f)
  BY <1>6 DEF NumberRun
<1>8. QED
  BY <1>7

LEMMA StringRunExists ==
    ASSUME NEW s, NEW n \in Nat
    PROVE  \E f : StringRun(s, n, f)
<1> DEFINE N == {k \in 0..n : ~ \E f : StringRun(s, k, f)}
<1>1. SUFFICES ASSUME N # {} PROVE FALSE
  OBVIOUS
<1>2. PICK k \in N : \A j \in N : k <= j
  <2>1. N \subseteq Nat
    OBVIOUS
  <2> HIDE DEF N
  <2>2. QED
    BY <1>1, <2>1, Least
<1>3. k # 0
  <2>1. StringRun(s, 0, [j \in 0..0 |-> StringStart])
    BY DEF StringRun
  <2>2. QED
    BY <2>1
<1>4. k - 1 \in 0..n /\ k - 1 \notin N
  <2>1. k \in 0..n
    BY <1>2
  <2>2. k - 1 \in 0..n /\ ~ (k <= k - 1)
    BY <1>3, <2>1
  <2> HIDE DEF N
  <2>3. QED
    BY <1>2, <2>2
<1>5. PICK g : StringRun(s, k - 1, g)
  BY <1>4
<1> DEFINE f == [i \in 0..k |-> IF i = k THEN StringStep(g[k - 1], s[k]) ELSE g[i]]
<1>6. ASSUME NEW i \in 0..k
      PROVE  f[i] = IF i = 0 THEN StringStart ELSE StringStep(f[i - 1], s[i])
  <2>0. k \in Nat /\ k >= 1
    BY <1>3
  <2>1. CASE i = k
    <3>1. f[k - 1] = g[k - 1]
      BY <2>0
    <3>2. QED
      BY <2>0, <2>1, <3>1
  <2>2. CASE i # k
    <3>1. i \in 0..(k - 1) /\ f[i] = g[i]
      BY <2>0, <2>2
    <3>2. g[i] = IF i = 0 THEN StringStart ELSE StringStep(g[i - 1], s[i])
      BY <1>5, <3>1 DEF StringRun
    <3>3. i # 0 => f[i - 1] = g[i - 1]
      BY <2>0, <2>2
    <3>4. QED
      BY <3>1, <3>2, <3>3
  <2>3. QED
    BY <2>1, <2>2
<1>7. StringRun(s, k, f)
  BY <1>6 DEF StringRun
<1>8. QED
  BY <1>7

(* A number does not end beyond what was looked at.                        *)
NumberAt(m, n) ==
    /\ m \in [state : 0..6, hex : BOOLEAN, dot : BOOLEAN, taken : Nat,
              number_end : Nat, stopped : BOOLEAN]
    /\ m.taken <= n /\ m.number_end <= n

LEMMA NumberStepIs ==
    ASSUME NEW n \in Nat, NEW m, NumberAt(m, n), NEW c
    PROVE  NumberAt(NumberStep(m, c), n + 1)
<1> DEFINE goes(state) == [m EXCEPT !.state = state, !.taken = @ + 1]
           ends(state) == [goes(state) EXCEPT !.number_end = m.taken + 1]
<1>1. /\ m \in [state : 0..6, hex : BOOLEAN, dot : BOOLEAN, taken : Nat,
                number_end : Nat, stopped : BOOLEAN]
      /\ m.taken \in Nat /\ m.taken <= n /\ m.number_end \in Nat /\ m.number_end <= n
      /\ m.stopped \in BOOLEAN /\ m.taken + 1 \in Nat /\ m.state \in 0..6
  BY DEF NumberAt
<1>2. NumberAt(m, n + 1)
  BY <1>1 DEF NumberAt
<1>3. NumberAt([m EXCEPT !.stopped = TRUE], n + 1)
  <2>1. [m EXCEPT !.stopped = TRUE] \in [state : 0..6, hex : BOOLEAN, dot : BOOLEAN, taken : Nat,
                                        number_end : Nat, stopped : BOOLEAN]
    BY <1>1
  <2>2. /\ [m EXCEPT !.stopped = TRUE].taken = m.taken
        /\ [m EXCEPT !.stopped = TRUE].number_end = m.number_end
    BY <1>1
  <2>3. QED
    BY <1>1, <2>1, <2>2 DEF NumberAt
<1>4. ASSUME NEW k \in 0..6
      PROVE  /\ NumberAt(goes(k), n + 1) /\ NumberAt([goes(k) EXCEPT !.hex = TRUE], n + 1)
             /\ NumberAt(ends(k), n + 1)
             /\ NumberAt([goes(k) EXCEPT !.dot = TRUE], n + 1)
             /\ NumberAt([ends(k) EXCEPT !.dot = TRUE], n + 1)
  <2>1. NumberAt(goes(k), n + 1)
    <3>1. goes(k) \in [state : 0..6, hex : BOOLEAN, dot : BOOLEAN, taken : Nat,
                       number_end : Nat, stopped : BOOLEAN]
      BY <1>1
    <3>2. goes(k).taken = m.taken + 1 /\ goes(k).number_end = m.number_end
      BY <1>1
    <3> HIDE DEF goes
    <3>3. QED
      BY <1>1, <3>1, <3>2 DEF NumberAt
  <2>2. NumberAt(ends(k), n + 1)
    <3>1. m.taken + 1 <= n + 1
      BY <1>1
    <3> HIDE DEF goes
    <3>2. QED
      BY <1>1, <2>1, <3>1 DEF NumberAt
  <2> HIDE DEF goes, ends
  <2>3. QED
    BY <2>1, <2>2 DEF NumberAt
<1>5. \/ NumberStep(m, c) \in {m, [m EXCEPT !.stopped = TRUE]}
      \/ NumberStep(m, c) \in {goes(1), ends(2), [goes(3) EXCEPT !.hex = TRUE],
                               [goes(3) EXCEPT !.dot = TRUE], [ends(4) EXCEPT !.dot = TRUE],
                               ends(4), goes(5), goes(6), ends(m.state)}
  <2>1. CASE m.stopped
    BY <2>1, <1>1 DEF NumberStep
  <2>2. CASE m.stopped = FALSE
    BY <2>2, <1>1, ZenonT(30) DEF NumberStep
  <2>3. QED
    BY <1>1, <2>1, <2>2
<1> HIDE DEF goes, ends
<1>6. CASE NumberStep(m, c) \in {m, [m EXCEPT !.stopped = TRUE]}
  <2>1. NumberStep(m, c) = m \/ NumberStep(m, c) = [m EXCEPT !.stopped = TRUE]
    BY <1>6
  <2>2. QED
    BY <2>1, <1>2, <1>3, Zenon
<1>7. CASE NumberStep(m, c) \in {goes(1), ends(2), [goes(3) EXCEPT !.hex = TRUE],
                               [goes(3) EXCEPT !.dot = TRUE], [ends(4) EXCEPT !.dot = TRUE],
                               ends(4), goes(5), goes(6), ends(m.state)}
  <2>1. 1 \in 0..6 /\ 2 \in 0..6 /\ 3 \in 0..6 /\ 4 \in 0..6 /\ 5 \in 0..6 /\ 6 \in 0..6
    OBVIOUS
  <2>2. QED
    BY <2>1, <1>1, <1>4, <1>7, Zenon
<1>8. QED
  BY <1>5, <1>6, <1>7

LEMMA NumberRunIs ==
    ASSUME NEW s, NEW n \in Nat, NEW f, NumberRun(s, n, f)
    PROVE  NumberAt(f[n], n)
<1> DEFINE N == {k \in 0..n : ~NumberAt(f[k], k)}
<1>1. SUFFICES ASSUME N # {} PROVE FALSE
  OBVIOUS
<1>2. PICK k \in N : \A j \in N : k <= j
  <2>1. N \subseteq Nat
    OBVIOUS
  <2> HIDE DEF N
  <2>2. QED
    BY <1>1, <2>1, Least
<1>3. k \in 0..n /\ ~NumberAt(f[k], k)
  BY <1>2
<1>4. f[k] = IF k = 0 THEN NumberStart ELSE NumberStep(f[k - 1], s[k])
  BY <1>3 DEF NumberRun
<1>5. k # 0
  <2>1. NumberAt(NumberStart, 0)
    BY DEF NumberAt, NumberStart
  <2>2. QED
    BY <2>1, <1>3, <1>4
<1>6. k - 1 \in Nat /\ k - 1 \in 0..n /\ k - 1 \notin N
  <2>1. k - 1 \in Nat /\ k - 1 \in 0..n /\ ~ (k <= k - 1)
    BY <1>3, <1>5
  <2> HIDE DEF N
  <2>2. QED
    BY <1>2, <2>1
<1>7. NumberAt(f[k - 1], k - 1)
  BY <1>6
<1>8. NumberAt(NumberStep(f[k - 1], s[k]), (k - 1) + 1)
  BY <1>6, <1>7, NumberStepIs
<1>9. (k - 1) + 1 = k
  BY <1>3
<1>10. QED
  BY <1>3, <1>4, <1>5, <1>8, <1>9

LEMMA NumberIs ==
    ASSUME NEW s, Len(s) \in Nat, ReadNumber(s).code = "success"
    PROVE  ReadNumber(s).size \in 1..Len(s)
<1> DEFINE run == CHOOSE f : NumberRun(s, Len(s), f)
           m   == run[Len(s)]
<1>1. NumberRun(s, Len(s), run)
  BY NumberRunExists
<1>2. NumberAt(m, Len(s))
  BY <1>1, NumberRunIs
<1>3. ReadNumber(s) = IF m.number_end = 0 THEN Outcome(~m.stopped, 0)
                      ELSE Outcome(TRUE, IF ~TRUE \/ ~ ~m.stopped THEN m.number_end ELSE 0)
  BY DEF ReadNumber, CheckNumber, NumberRun
<1> HIDE DEF m
<1>4. m.number_end \in Nat /\ m.number_end <= Len(s)
  BY <1>2 DEF NumberAt
<1>5. ReadNumber(s).size \in {0, m.number_end} /\ ReadNumber(s).size # 0
  BY <1>3, OutcomeIs
<1>6. QED
  BY <1>4, <1>5

\* Nor a string.
StringAt(m, n) ==
    /\ m \in [at : {"open", "plain", "escape", "hex", "closed", "bad"}, hex : Int, size : Nat]
    /\ m.size <= n

LEMMA StringStepIs ==
    ASSUME NEW n \in Nat, NEW m, StringAt(m, n), NEW c
    PROVE  StringAt(StringStep(m, c), n + 1)
<1> DEFINE goes(at) == [m EXCEPT !.at = at, !.size = @ + 1]
           Ats == {"open", "plain", "escape", "hex", "closed", "bad"}
<1>1. /\ m \in [at : Ats, hex : Int, size : Nat]
      /\ m.size \in Nat /\ m.size <= n /\ m.at \in Ats /\ m.hex \in Int
  BY DEF StringAt
<1>2. StringAt(m, n + 1)
  BY <1>1 DEF StringAt
<1>3. StringAt([m EXCEPT !.at = "bad"], n + 1)
  <2>1. [m EXCEPT !.at = "bad"] \in [at : Ats, hex : Int, size : Nat]
    BY <1>1
  <2>2. [m EXCEPT !.at = "bad"].size = m.size
    BY <1>1
  <2>3. QED
    BY <1>1, <2>1, <2>2 DEF StringAt
<1>4. ASSUME NEW at \in Ats, NEW h \in Int
      PROVE  StringAt(goes(at), n + 1) /\ StringAt([goes(at) EXCEPT !.hex = h], n + 1)
             /\ goes(at).hex = m.hex
  <2>0. m.size + 1 \in Nat /\ at \in Ats
    BY <1>1
  <2>1. goes(at) \in [at : Ats, hex : Int, size : Nat]
    <3> HIDE DEF Ats
    <3>1. QED
      BY <1>1, <2>0
  <2>2. goes(at).size = m.size + 1 /\ goes(at).hex = m.hex
    BY <1>1
  <2> HIDE DEF goes
  <2>3. StringAt(goes(at), n + 1)
    BY <1>1, <2>1, <2>2 DEF StringAt
  <2>4. [goes(at) EXCEPT !.hex = h] \in [at : Ats, hex : Int, size : Nat]
    BY <2>1
  <2>5. [goes(at) EXCEPT !.hex = h].size = goes(at).size
    BY <2>1
  <2>6. StringAt([goes(at) EXCEPT !.hex = h], n + 1)
    BY <1>1, <2>2, <2>4, <2>5 DEF StringAt
  <2>7. QED
    BY <2>2, <2>3, <2>6
<1>5. \/ StringStep(m, c) \in {m, [m EXCEPT !.at = "bad"]}
      \/ StringStep(m, c) \in {goes("plain"), goes("closed"), goes("escape")}
      \/ StringStep(m, c) = [goes("hex") EXCEPT !.hex = 4]
      \/ \E at \in {"plain", "hex"} : StringStep(m, c) = [goes(at) EXCEPT !.hex = @ - 1]
  <2>1. CASE m.at \in {"closed", "bad"}
    BY <2>1, <1>1 DEF StringStep
  <2>2. CASE m.at = "open"
    BY <2>2, <1>1, ZenonT(30) DEF StringStep
  <2>3. CASE m.at = "plain"
    BY <2>3, <1>1, ZenonT(30) DEF StringStep
  <2>4. CASE m.at = "escape"
    BY <2>4, <1>1, ZenonT(30) DEF StringStep
  <2>5. CASE m.at = "hex"
    BY <2>5, <1>1, ZenonT(30) DEF StringStep
  <2>6. QED
    BY <1>1, <2>1, <2>2, <2>3, <2>4, <2>5
<1>6. \A at \in {"plain", "hex"} : StringAt([goes(at) EXCEPT !.hex = @ - 1], n + 1)
  <2> TAKE at \in {"plain", "hex"}
  <2>1. at \in Ats /\ m.hex - 1 \in Int
    BY <1>1
  <2>2. goes(at).hex = m.hex
    BY <2>1, <1>4
  <2> HIDE DEF goes
  <2>3. [goes(at) EXCEPT !.hex = @ - 1] = [goes(at) EXCEPT !.hex = m.hex - 1]
    BY <2>2
  <2>4. QED
    BY <2>1, <2>3, <1>4
<1>7. /\ StringAt(goes("plain"), n + 1) /\ StringAt(goes("closed"), n + 1)
      /\ StringAt(goes("escape"), n + 1) /\ StringAt([goes("hex") EXCEPT !.hex = 4], n + 1)
  <2>1. "plain" \in Ats /\ "closed" \in Ats /\ "escape" \in Ats /\ "hex" \in Ats /\ 4 \in Int
    OBVIOUS
  <2> HIDE DEF goes, Ats
  <2>2. QED
    BY <2>1, <1>4
<1> HIDE DEF goes
<1>8. QED
  BY <1>2, <1>3, <1>5, <1>6, <1>7, Zenon

LEMMA StringRunIs ==
    ASSUME NEW s, NEW n \in Nat, NEW f, StringRun(s, n, f)
    PROVE  StringAt(f[n], n)
<1> DEFINE N == {k \in 0..n : ~StringAt(f[k], k)}
<1>1. SUFFICES ASSUME N # {} PROVE FALSE
  OBVIOUS
<1>2. PICK k \in N : \A j \in N : k <= j
  <2>1. N \subseteq Nat
    OBVIOUS
  <2> HIDE DEF N
  <2>2. QED
    BY <1>1, <2>1, Least
<1>3. k \in 0..n /\ ~StringAt(f[k], k)
  BY <1>2
<1>4. f[k] = IF k = 0 THEN StringStart ELSE StringStep(f[k - 1], s[k])
  BY <1>3 DEF StringRun
<1>5. k # 0
  <2>1. StringAt(StringStart, 0)
    BY DEF StringAt, StringStart
  <2>2. QED
    BY <2>1, <1>3, <1>4
<1>6. k - 1 \in Nat /\ k - 1 \in 0..n /\ k - 1 \notin N
  <2>1. k - 1 \in Nat /\ k - 1 \in 0..n /\ ~ (k <= k - 1)
    BY <1>3, <1>5
  <2> HIDE DEF N
  <2>2. QED
    BY <1>2, <2>1
<1>7. StringAt(f[k - 1], k - 1)
  BY <1>6
<1>8. StringAt(StringStep(f[k - 1], s[k]), (k - 1) + 1)
  BY <1>6, <1>7, StringStepIs
<1>9. (k - 1) + 1 = k
  BY <1>3
<1>10. QED
  BY <1>3, <1>4, <1>5, <1>8, <1>9

LEMMA StringIs ==
    ASSUME NEW s, Len(s) \in Nat, ReadString(s).code = "success"
    PROVE  ReadString(s).size \in 1..Len(s)
<1> DEFINE run == CHOOSE f : StringRun(s, Len(s), f)
           m   == run[Len(s)]
<1>1. StringRun(s, Len(s), run)
  BY StringRunExists
<1>2. StringAt(m, Len(s))
  BY <1>1, StringRunIs
<1>3. ReadString(s) = Outcome(m.at # "bad", IF m.at = "closed" THEN m.size ELSE 0)
  BY DEF ReadString, StringRun
<1> HIDE DEF m
<1>4. m.size \in Nat /\ m.size <= Len(s)
  BY <1>2 DEF StringAt
<1>5. ReadString(s).size \in {0, m.size} /\ ReadString(s).size # 0
  BY <1>3, OutcomeIs
<1>6. QED
  BY <1>4, <1>5

LEMMA WhiteSpaceIs ==
    ASSUME NEW s, Len(s) \in Nat, ReadWhiteSpace(s).code = "success"
    PROVE  ReadWhiteSpace(s).size \in 1..Len(s)
<1> DEFINE blank == {n \in 1..Len(s) : \A i \in 1..n : s[i] \in standard_white_space_set}
<1>1. ReadWhiteSpace(s) = Outcome(blank # {}, Cardinality(blank))
  BY DEF ReadWhiteSpace
<1>2. blank \in SUBSET (1..Len(s))
  OBVIOUS
<1> HIDE DEF blank
<1>3. IsFiniteSet(1..Len(s)) /\ Cardinality(1..Len(s)) = Len(s)
  BY FS_Interval, SMTT(30)
<1>4. IsFiniteSet(blank) /\ Cardinality(blank) <= Len(s) /\ Cardinality(blank) \in Nat
  BY <1>2, <1>3, FS_Subset, FS_CardinalityType
<1>5. ReadWhiteSpace(s).size = Cardinality(blank) /\ Cardinality(blank) # 0
  BY <1>1, OutcomeIs
<1>6. QED
  BY <1>4, <1>5

LEMMA StrtodIs ==
    ASSUME NEW s, Len(s) \in Nat, ReadStrtod(s).code = "success"
    PROVE  ReadStrtod(s).size \in 1..Len(s)
<1> DEFINE S == {0} \cup {n \in 1..Len(s) : IsNumber(SubSeq(s, 1, n))}
<1>1. Strtod(s) = Max(S) /\ S \subseteq 0..Len(s) /\ S # {}
  BY DEF Strtod
<1> HIDE DEF S
<1>2. Max(S) \in 0..Len(s)
  BY <1>1, MaxIs
<1>3. ReadStrtod(s).size = Strtod(s) /\ Strtod(s) # 0
  BY OutcomeIs DEF ReadStrtod
<1>4. QED
  BY <1>1, <1>2, <1>3

LEMMA CheckIs ==
    ASSUME NEW s, Len(s) \in Nat, NEW word, Len(word) \in Nat, Check(s, word).code = "success"
    PROVE  Check(s, word).size = Len(word) /\ Len(word) <= Len(s)
<1>1. IsPrefix(word, s)
  <2>1. Outcome(IsPrefix(s, word), 0).code # "success"
    BY OutcomeIs
  <2>2. QED
    BY <2>1 DEF Check
<1>2. Check(s, word).size = Len(word)
  BY <1>1 DEF Check, Success
<1>3. QED
  BY <1>1, <1>2 DEF IsPrefix

LEMMA WordIs ==
    ASSUME NEW s, Len(s) \in Nat
    PROVE  /\ ReadBool(s).code = "success" => ReadBool(s).size \in 1..Len(s)
           /\ ReadNull(s).code = "success" => ReadNull(s).size \in 1..Len(s)
<1>1. ASSUME NEW w, Len(w) \in Nat, Len(w) # 0, Check(s, Spelled(w)).code = "success"
      PROVE  Check(s, Spelled(w)).size \in 1..Len(s)
  <2>1. Len(Spelled(w)) = Len(w)
    BY <1>1 DEF Spelled
  <2>2. QED
    BY <1>1, <2>1, CheckIs
<1>2. Len(<<"t", "r", "u", "e">>) = 4
  OBVIOUS
<1>3. Len(<<"f", "a", "l", "s", "e">>) = 5
  OBVIOUS
<1>4. Len(<<"n", "u", "l", "l">>) = 4
  OBVIOUS
<1>5. QED
  BY <1>1, <1>2, <1>3, <1>4 DEF ReadBool, ReadNull

(* What a lexer reads is at least one character and no more than there is. *)
LEMMA ReadIs ==
    ASSUME NEW s, Len(s) \in Nat, Len(s) # 0, NEW lexer, Read(lexer, s).code = "success"
    PROVE  Read(lexer, s).size \in 1..Len(s)
<1>1. CASE lexer = "discard"
  BY <1>1, WhiteSpaceIs DEF Read
<1>2. CASE lexer = "number"
  BY <1>2, StrtodIs DEF Read
<1>3. CASE lexer = "value_number"
  BY <1>3, NumberIs DEF Read
<1>4. CASE lexer = "value_string"
  BY <1>4, StringIs DEF Read
<1>5. CASE lexer = "value_bool"
  BY <1>5, WordIs DEF Read
<1>6. CASE lexer = "value_null"
  BY <1>6, WordIs DEF Read
<1>7. CASE lexer \notin {"discard", "number", "value_number", "value_string", "value_bool", "value_null"}
  <2>1. Read(lexer, s) = ReadOperator(lexer, s)
    BY <1>7 DEF Read
  <2>2. Read(lexer, s).size = 1
    BY <2>1, OutcomeIs DEF ReadOperator
  <2>3. QED
    BY <2>2
<1>8. QED
  BY <1>1, <1>2, <1>3, <1>4, <1>5, <1>6, <1>7

\* What every operator has.
OperatorFields(o) ==
    /\ o.lexer \in Names /\ o.priority \in Nat /\ o.right \in 0..1
    /\ o.property \in {0, 1, 4, 8}

LEMMA OperatorsAre ==
    ASSUME NEW o \in Operators
    PROVE  OperatorFields(o)
<1>2. CASE o \in BinaryOperators
  BY <1>2 DEF BinaryOperators, Operator, OperatorFields, Names
<1>3. CASE o \in PrefixAndBrackets
  BY <1>3 DEF PrefixAndBrackets, Operator, OperatorFields, Names
<1>4. CASE o \in JsonOperators
  <2>1. ASSUME NEW lexer \in Names, NEW symbol, NEW priority \in Nat, NEW place,
               NEW right \in 0..1, NEW property \in {0, 1, 4, 8}
        PROVE  OperatorFields(Operator(lexer, symbol, priority, place, right, property))
    BY DEF Operator, OperatorFields
  <2>2. /\ "operator_comma" \in Names /\ "operator_colon" \in Names
        /\ "scope_brace" \in Names /\ "scope_bracket" \in Names
    BY DEF Names
  <2>3. /\ 1 \in Nat /\ 2 \in Nat /\ 3 \in Nat /\ 4 \in Nat /\ 0 \in 0..1 /\ 1 \in 0..1
        /\ 0 \in {0, 1, 4, 8} /\ 1 \in {0, 1, 4, 8} /\ 4 \in {0, 1, 4, 8} /\ 8 \in {0, 1, 4, 8}
    OBVIOUS
  <2>4. QED
    BY <1>4, <2>1, <2>2, <2>3, Zenon DEF JsonOperators
<1>5. QED
  BY <1>2, <1>3, <1>4 DEF Operators, MathOperators

LEMMA OperatorNodeIs ==
    ASSUME NEW o \in Operators
    PROVE  Fresh(OperatorNode(o))
<1>1. /\ o.lexer \in Names /\ o.priority \in Nat /\ o.right \in 0..1
      /\ o.property \in {0, 1, 4, 8}
  BY OperatorsAre DEF OperatorFields
<1>2. OperatorNode(o) \in Nodes
  BY <1>1 DEF OperatorNode, Nodes, None
<1>3. QED
  BY <1>1, <1>2 DEF OperatorNode, Fresh

LEMMA ValueNodeIs ==
    ASSUME NEW lexer \in Names, NEW start \in Nat, NEW size \in Nat
    PROVE  Fresh(ValueNode(lexer, start, size))
<1>1. ValueNode(lexer, start, size) \in Nodes
  BY DEF ValueNode, Nodes, None
<1>2. QED
  BY <1>1 DEF ValueNode, Fresh

-----------------------------------------------------------------------------
(* child() gives the children the links have.                              *)

\* What the recursive function of Child is.
Back(t, a, f) ==
    f = [n \in 0..t.memory[a].children_count |->
            IF n = 0 THEN t.memory[a].last_child ELSE t.memory[f[n - 1]].previous_peer]

LEMMA ChildIs ==
    ASSUME NEW t \in Trees, NEW K, Links(t, K), NEW a \in Addresses(t), NEW i \in 1..Len(K[a])
    PROVE  Child(t, a, i) = K[a][i]
<1> DEFINE c == Len(K[a])
           g == [n \in 0..c |-> IF n < c THEN K[a][c - n] ELSE None]
           f == CHOOSE h : Back(t, a, h)
<1>1. LinksOf(t, K, a)
  BY DEF Links
<1>2. /\ K[a] \in Seq(Addresses(t)) /\ c \in Nat /\ t.memory[a].children_count = c
      /\ t.memory[a].last_child = IF c = 0 THEN None ELSE K[a][c]
      /\ \A j \in 1..c : t.memory[K[a][j]].previous_peer = IF j = 1 THEN None ELSE K[a][j - 1]
  <2>1. K[a] \in Seq(Addresses(t)) /\ c \in Nat /\ (K[a] = <<>> <=> c = 0)
    BY <1>1 DEF LinksOf
  <2>2. QED
    BY <1>1, <2>1 DEF LinksOf
<1>3. ASSUME NEW n \in 0..c
      PROVE  g[n] = IF n = 0 THEN t.memory[a].last_child ELSE t.memory[g[n - 1]].previous_peer
  <2>1. CASE n = 0
    BY <2>1, <1>2
  <2>2. CASE n # 0
    <3>1. n - 1 \in 0..c /\ n - 1 < c /\ c - (n - 1) \in 1..c /\ n \in 0..c
      BY <2>2, <1>2
    <3>2. g[n - 1] = K[a][c - (n - 1)]
      BY <3>1
    <3>3. t.memory[g[n - 1]].previous_peer =
              IF c - (n - 1) = 1 THEN None ELSE K[a][(c - (n - 1)) - 1]
      <4> HIDE DEF g
      <4>1. QED
        BY <3>1, <3>2, <1>2
    <3>4. (c - (n - 1) = 1 <=> n = c) /\ (c - (n - 1)) - 1 = c - n
      BY <1>2
    <3>5. g[n] = IF n < c THEN K[a][c - n] ELSE None
      OBVIOUS
    <3> HIDE DEF g
    <3>6. n < c <=> n # c
      BY <1>2
    <3>7. QED
      BY <2>2, <3>3, <3>4, <3>5, <3>6
  <2>3. QED
    BY <2>1, <2>2
<1>4. Back(t, a, g)
  <2>1. g = [n \in 0..c |-> IF n = 0 THEN t.memory[a].last_child
                            ELSE t.memory[g[n - 1]].previous_peer]
    <3> DEFINE h == [n \in 0..c |-> IF n = 0 THEN t.memory[a].last_child
                                    ELSE t.memory[g[n - 1]].previous_peer]
    <3>1. \A n \in 0..c : g[n] = h[n]
      <4> TAKE n \in 0..c
      <4>1. h[n] = IF n = 0 THEN t.memory[a].last_child ELSE t.memory[g[n - 1]].previous_peer
        OBVIOUS
      <4> HIDE DEF g, h
      <4>2. QED
        BY <4>1, <1>3
    <3>2. g = [n \in 0..c |-> g[n]] /\ h = [n \in 0..c |-> h[n]]
      OBVIOUS
    <3> HIDE DEF g, h
    <3>3. g = h
      BY <3>1, <3>2
    <3>4. QED
      BY <3>3 DEF h
  <2> HIDE DEF g
  <2>2. QED
    BY <2>1, <1>2 DEF Back
<1>5. Back(t, a, f)
  <2> HIDE DEF g
  <2>1. QED
    BY <1>4
<1> HIDE DEF f
<1>6. \A n \in 0..c : f[n] = g[n]
  <2> DEFINE N == {n \in 0..c : f[n] # g[n]}
  <2>1. SUFFICES ASSUME N # {} PROVE FALSE
    OBVIOUS
  <2>2. PICK k \in N : \A j \in N : k <= j
    <3>1. N \subseteq Nat
      OBVIOUS
    <3> HIDE DEF N
    <3>2. QED
      BY <2>1, <3>1, Least
  <2>3. k \in 0..c /\ f[k] # g[k]
    BY <2>2
  <2>4. f[k] = IF k = 0 THEN t.memory[a].last_child ELSE t.memory[f[k - 1]].previous_peer
    BY <1>2, <1>5, <2>3 DEF Back
  <2>5. g[k] = IF k = 0 THEN t.memory[a].last_child ELSE t.memory[g[k - 1]].previous_peer
    BY <1>3, <2>3
  <2> HIDE DEF g
  <2>6. k # 0
    BY <2>3, <2>4, <2>5
  <2>7. k - 1 \in 0..c /\ ~ (k <= k - 1)
    BY <2>3, <2>6, <1>2
  <2>8. k - 1 \notin N
    <3> HIDE DEF N
    <3>1. QED
      BY <2>2, <2>7
  <2>9. f[k - 1] = g[k - 1]
    BY <2>7, <2>8
  <2>10. QED
    BY <2>3, <2>4, <2>5, <2>6, <2>9
<1>7. Child(t, a, i) = f[c - i]
  BY <1>2 DEF Child, Back, f
<1>8. c - i \in 0..c /\ c - i < c /\ c - (c - i) = i
  BY <1>2
<1>9. g[c - i] = K[a][i]
  BY <1>8
<1>10. QED
  BY <1>6, <1>7, <1>8, <1>9

LEMMA ChildrenAre ==
    ASSUME NEW t \in Trees, NEW K, Links(t, K), NEW a \in Addresses(t)
    PROVE  Children(t, a) = K[a]
<1>1. LinksOf(t, K, a) /\ K[a] \in Seq(Addresses(t))
  BY DEF Links
<1>2. t.memory[a].children_count = Len(K[a])
  BY <1>1 DEF LinksOf
<1>3. Children(t, a) = [i \in 1..Len(K[a]) |-> Child(t, a, i)]
  BY <1>2 DEF Children
<1>4. Children(t, a) = [i \in 1..Len(K[a]) |-> K[a][i]]
  BY <1>3, ChildIs
<1>5. K[a] = [i \in 1..Len(K[a]) |-> K[a][i]]
  BY <1>1
<1>6. QED
  BY <1>4, <1>5

(* So the properties of the links that are checked follow.                 *)
LEMMA Linked ==
    ASSUME Tied(tree), phase \notin {"done", "error"} => Whole(tree)
    PROVE  TreeIsLinked
<1> DEFINE all      == 1..Len(tree.memory)
           path     == ToSet(tree.node_address)
           children == [a \in all |-> Children(tree, a)]
           Times(a) == {c \in all \X all : /\ c[2] \in DOMAIN children[c[1]]
                                           /\ children[c[1]][c[2]] = a}
<1>1. tree \in Trees /\ Path(tree) /\ all = Addresses(tree)
  BY DEF Tied, Addresses
<1>2. PICK K : Links(tree, K)
  BY DEF Tied
<1>3. \A a \in all : children[a] = K[a]
  BY <1>1, <1>2, ChildrenAre
<1>4. \A a \in all : /\ K[a] \in Seq(all) /\ LinksOf(tree, K, a) /\ DOMAIN K[a] = 1..Len(K[a])
                     /\ Len(K[a]) \in Nat /\ Len(K[a]) <= Len(tree.memory)
  <2> TAKE a \in all
  <2>1. LinksOf(tree, K, a) /\ K[a] \in Seq(all)
    BY <1>1, <1>2 DEF Links
  <2>2. Len(K[a]) <= Len(tree.memory)
    BY <2>1 DEF LinksOf
  <2>3. QED
    BY <2>1, <2>2
<1>5. ASSUME NEW a \in all PROVE Cardinality(Times(a)) = IF a = tree.node_address[1] THEN 0 ELSE 1
  <2>1. a \in Children_(tree, K) <=> a # tree.node_address[1]
    BY <1>1, <1>2 DEF Links, Rooted
  <2>2. \A c \in Times(a) : /\ c[1] \in all /\ c[2] \in all /\ c = <<c[1], c[2]>>
                            /\ c[2] \in 1..Len(K[c[1]]) /\ K[c[1]][c[2]] = a
    <3> TAKE c \in Times(a)
    <3>1. c[1] \in all /\ c[2] \in all /\ c = <<c[1], c[2]>>
      OBVIOUS
    <3>2. c[2] \in DOMAIN children[c[1]] /\ children[c[1]][c[2]] = a
      OBVIOUS
    <3> HIDE DEF all, children
    <3>3. QED
      BY <3>1, <3>2, <1>3, <1>4
  <2>3. CASE a = tree.node_address[1]
    <3>1. Times(a) = {}
      <4>1. ASSUME NEW c \in Times(a) PROVE FALSE
        <5>1. a \in Children_(tree, K)
          BY <2>2, <1>1 DEF Children_
        <5>2. QED
          BY <5>1, <2>1, <2>3
      <4> HIDE DEF Times
      <4>2. QED
        BY <4>1
    <3> HIDE DEF Times
    <3>2. QED
      BY <3>1, <2>3, FS_EmptySet
  <2>4. CASE a # tree.node_address[1]
    <3>1. PICK p \in all : \E i \in 1..Len(K[p]) : K[p][i] = a
      BY <2>1, <2>4, <1>1 DEF Children_
    <3>2. PICK i \in 1..Len(K[p]) : K[p][i] = a
      BY <3>1
    <3>3. i \in all
      BY <1>4, <3>1, <3>2
    <3>4. <<p, i>> \in Times(a)
      <4>1. i \in DOMAIN children[p] /\ children[p][i] = a
        BY <3>1, <3>2, <1>3, <1>4
      <4>2. <<p, i>> \in all \X all /\ <<p, i>>[1] = p /\ <<p, i>>[2] = i
        BY <3>1, <3>3
      <4> HIDE DEF all, children
      <4>3. QED
        BY <4>1, <4>2
    <3>5. ASSUME NEW c \in Times(a) PROVE c = <<p, i>>
      <4>1. /\ c[1] \in all /\ c = <<c[1], c[2]>>
            /\ c[2] \in 1..Len(K[c[1]]) /\ K[c[1]][c[2]] = a
        BY <2>2
      <4>2. Once(tree, K)
        BY <1>2 DEF Links
      <4> HIDE DEF Times
      <4>3. c[1] = p /\ c[2] = i
        BY <4>1, <4>2, <3>1, <3>2, <1>1, SMTT(30) DEF Once
      <4>4. QED
        BY <4>1, <4>3
    <3>6. Times(a) = {<<p, i>>}
      <4> HIDE DEF Times
      <4>1. QED
        BY <3>4, <3>5
    <3> HIDE DEF Times
    <3>7. Cardinality(Times(a)) = 1
      BY <3>6, FS_Singleton
    <3>8. QED
      BY <3>7, <2>4
  <2>5. QED
    BY <2>3, <2>4
<1>6. ASSUME NEW a \in all, children[a] # <<>>
      PROVE  tree.memory[children[a][1]].previous_peer = None
  <2>1. K[a] # <<>> /\ children[a] = K[a]
    BY <1>3, <1>6
  <2>2. 1 \in 1..Len(K[a])
    BY <2>1, <1>4
  <2>3. tree.memory[K[a][1]].previous_peer = None
    BY <2>2, <1>4 DEF LinksOf
  <2>4. QED
    BY <2>1, <2>3
<1>7. \A i \in 2..Depth(tree) : Item2(tree, i - 1).last_child = tree.node_address[i]
  BY <1>1 DEF Path, Item2
<1>8. phase \notin {"done", "error"} => \A a \in all \ path : Complete(tree.memory[a])
  <2> SUFFICES ASSUME phase \notin {"done", "error"}, NEW a \in all \ path
               PROVE  Complete(tree.memory[a])
    OBVIOUS
  <2>1. OffPath(tree, a)
    BY <1>1 DEF OffPath, Depth, ToSet, Path
  <2>2. QED
    BY <2>1, <1>1 DEF Whole
<1> HIDE DEF all, path, children
<1>9. \A a \in all : Cardinality(Times(a)) = IF a = tree.node_address[1] THEN 0 ELSE 1
  BY <1>5
<1>10. QED
  BY <1>6, <1>7, <1>8, <1>9 DEF TreeIsLinked, all, path, children

(* Back at the root it is the same tree.                                   *)
LEMMA AtRootTied ==
    ASSUME NEW t, Tied(t)
    PROVE  /\ Tied(AtRoot(t)) /\ AtRoot(t).memory = t.memory
           /\ AtRoot(t).expression_string = t.expression_string
<1>1. CASE Depth(t) > 1
  <2> DEFINE u == [t EXCEPT !.node_address = SubSeq(@, 1, 1)]
  <2>1. t \in Trees /\ Path(t) /\ 1 \in 1..Depth(t) /\ 1 \in 1..1
    BY <1>1 DEF Tied, Depth, Trees
  <2>2. SubSeq(t.node_address, 1, 1) \in Seq(Nat)
    BY <2>1 DEF Trees, Depth
  <2>3. /\ u \in Trees /\ u.node_address = SubSeq(t.node_address, 1, 1)
        /\ u.memory = t.memory /\ u.expression_string = t.expression_string
    BY <2>1, <2>2 DEF Trees
  <2>4. AtRoot(t) = u
    BY <1>1 DEF AtRoot
  <2> HIDE DEF u
  <2>5. Path(u) /\ u.node_address[1] = t.node_address[1]
    BY <2>1, <2>3, CutPath
  <2>6. PICK K : Links(t, K)
    BY DEF Tied
  <2>7. Links(u, K)
    BY <2>1, <2>3, <2>5, <2>6, SameLinks
  <2>8. QED
    BY <2>3, <2>4, <2>5, <2>7 DEF Tied
<1>2. CASE ~ (Depth(t) > 1)
  BY <1>2 DEF AtRoot
<1>3. QED
  BY <1>1, <1>2

LEMMA EmptyTied == Tied(EmptyTree) /\ Whole(EmptyTree)
<1>1. /\ EmptyTree \in Trees /\ EmptyTree.memory = <<>> /\ EmptyTree.node_address = <<>>
      /\ EmptyTree.expression_string = <<>>
  BY DEF EmptyTree, Trees
<1>2. Addresses(EmptyTree) = {} /\ Depth(EmptyTree) = 0
  BY <1>1 DEF Addresses, Depth
<1>3. Path(EmptyTree)
  BY <1>1, <1>2 DEF Path
<1> DEFINE K == [a \in {} |-> <<>>]
<1>4. K \in [Addresses(EmptyTree) -> Seq(Addresses(EmptyTree))]
  BY <1>2
<1> HIDE DEF K
<1>5. Links(EmptyTree, K)
  BY <1>2, <1>4 DEF Links, Once, Rooted
<1>6. QED
  BY <1>1, <1>2, <1>3, <1>5 DEF Tied, Whole

-----------------------------------------------------------------------------
(* The inductive invariant.                                                *)

\* The rest is the end of the text.
Ending(s, r) ==
    /\ s \in Seq(Int) /\ r \in Seq(Int) /\ Len(r) <= Len(s)
    /\ \A i \in 1..Len(r) : r[i] = s[Len(s) - Len(r) + i]

\* There is something to parse while it is parsed, and nothing is left of a
\* text parsed at one go that is over.
TextOK ==
    /\ source \in Sources /\ mode \in {"stream", "again", "full"}
    /\ phase \in {"waiting", "arrived", "parsing", "done", "error"}
    /\ pieces \in 0..MaxFragments[source]
    /\ index \in 1..Len(LexersOf) + 1
    /\ Ending(text, rest)
    /\ phase \in {"arrived", "parsing"} => rest # <<>>
    /\ mode = "full" /\ phase = "waiting" => rest = <<>>
    /\ Grammar_ = "math" => mode = "full" /\ (phase = "error" => rest = <<>>)

TreeOK == Tied(tree) /\ (phase \notin {"done", "error"} => Whole(tree))

LEMMA EndingTail ==
    ASSUME NEW s, NEW r, Ending(s, r), NEW n \in 0..Len(r)
    PROVE  Ending(s, SubSeq(r, n + 1, Len(r))) /\ Len(SubSeq(r, n + 1, Len(r))) = Len(r) - n
<1> DEFINE q == SubSeq(r, n + 1, Len(r))
<1>1. s \in Seq(Int) /\ r \in Seq(Int) /\ Len(r) \in Nat /\ Len(s) \in Nat /\ Len(r) <= Len(s)
  BY DEF Ending
<1>2. q \in Seq(Int) /\ Len(q) = Len(r) - n /\ \A i \in 1..(Len(r) - n) : q[i] = r[n + i]
  BY <1>1
<1> HIDE DEF q
<1>3. ASSUME NEW i \in 1..Len(q) PROVE q[i] = s[Len(s) - Len(q) + i]
  <2>0. Len(r) \in Nat /\ Len(s) \in Nat /\ n \in 0..Len(r) /\ Len(q) = Len(r) - n /\ i \in 1..Len(q)
    BY <1>1, <1>2
  <2>1. n + i \in 1..Len(r) /\ Len(s) - Len(r) + (n + i) = Len(s) - Len(q) + i
    BY <2>0
  <2>2. r[n + i] = s[Len(s) - Len(r) + (n + i)]
    BY <2>1 DEF Ending
  <2>3. QED
    BY <2>1, <2>2, <1>2
<1>4. Len(q) <= Len(s)
  <2>1. Len(r) \in Nat /\ Len(s) \in Nat /\ n \in 0..Len(r) /\ Len(q) = Len(r) - n /\ Len(r) <= Len(s)
    BY <1>1, <1>2
  <2>2. QED
    BY <2>1
<1>5. Ending(s, q)
  BY <1>1, <1>2, <1>3, <1>4 DEF Ending
<1>6. QED
  BY <1>2, <1>5 DEF q

LEMMA EndingMore ==
    ASSUME NEW s, NEW r, Ending(s, r), NEW f \in Seq(Int)
    PROVE  Ending(s \o f, r \o f) /\ Len(r \o f) = Len(r) + Len(f)
<1>1. /\ s \in Seq(Int) /\ r \in Seq(Int) /\ Len(r) \in Nat /\ Len(s) \in Nat /\ Len(f) \in Nat
      /\ Len(r) <= Len(s)
  BY DEF Ending
<1> DEFINE a == s \o f
           b == r \o f
<1>2. /\ a \in Seq(Int) /\ Len(a) = Len(s) + Len(f)
      /\ \A i \in 1..Len(a) : a[i] = IF i <= Len(s) THEN s[i] ELSE f[i - Len(s)]
  BY <1>1
<1>3. /\ b \in Seq(Int) /\ Len(b) = Len(r) + Len(f)
      /\ \A i \in 1..Len(b) : b[i] = IF i <= Len(r) THEN r[i] ELSE f[i - Len(r)]
  BY <1>1
<1> HIDE DEF a, b
<1>4. ASSUME NEW i \in 1..Len(b) PROVE b[i] = a[Len(a) - Len(b) + i]
  <2> DEFINE j == Len(s) - Len(r) + i
  <2>1. /\ Len(a) - Len(b) + i = j /\ j \in 1..Len(a) /\ (i <= Len(r) <=> j <= Len(s))
        /\ i - Len(r) = j - Len(s)
    <3>1. /\ Len(r) \in Nat /\ Len(s) \in Nat /\ Len(f) \in Nat /\ Len(r) <= Len(s)
          /\ Len(a) = Len(s) + Len(f) /\ Len(b) = Len(r) + Len(f) /\ i \in 1..Len(b)
      BY <1>1, <1>2, <1>3
    <3>2. QED
      BY <3>1, SMTT(30)
  <2>2. i <= Len(r) => r[i] = s[j]
    BY <1>1, <1>3 DEF Ending
  <2> HIDE DEF j
  <2>3. QED
    BY <2>1, <2>2, <1>2, <1>3
<1>5. Ending(a, b)
  BY <1>1, <1>2, <1>3, <1>4 DEF Ending
<1>6. QED
  BY <1>3, <1>5 DEF a, b

LEMMA EndingSub ==
    ASSUME NEW s, NEW r, Ending(s, r)
    PROVE  r = SubSeq(s, Len(s) - Len(r) + 1, Len(s))
<1> DEFINE q == SubSeq(s, Len(s) - Len(r) + 1, Len(s))
           d == Len(s) - Len(r)
<1>1. s \in Seq(Int) /\ r \in Seq(Int) /\ Len(r) \in Nat /\ Len(s) \in Nat /\ d \in 0..Len(s)
  BY DEF Ending
<1>2. q \in Seq(Int) /\ Len(q) = Len(r) /\ \A i \in 1..Len(r) : q[i] = s[d + i]
  <2>1. q = SubSeq(s, d + 1, Len(s)) /\ Len(s) - d = Len(r)
    BY <1>1
  <2> HIDE DEF d, q
  <2>2. QED
    BY <1>1, <2>1
<1>3. \A i \in 1..Len(r) : r[i] = s[d + i]
  BY DEF Ending
<1> HIDE DEF q, d
<1>4. \A i \in 1..Len(r) : r[i] = q[i]
  BY <1>2, <1>3
<1>5. q = [i \in 1..Len(q) |-> q[i]] /\ r = [i \in 1..Len(r) |-> r[i]]
  BY <1>1, <1>2
<1>6. QED
  BY <1>2, <1>4, <1>5 DEF q

-----------------------------------------------------------------------------
(* Every step keeps it.                                                    *)

LEMMA SmallestIs ==
    ASSUME NEW S, S \subseteq Nat, S # {}
    PROVE  Min(S) \in S /\ \A y \in S : Min(S) <= y
<1>1. PICK x \in S : \A y \in S : x <= y
  BY Least
<1>2. QED
  BY <1>1 DEF Min

LEMMA LexersAre ==
    ASSUME source \in Sources
    PROVE  /\ Grammar_ \in {"math", "json"} /\ Len(LexersOf) = 9 /\ DOMAIN LexersOf = 1..9
           /\ \A i \in 1..9 : LexersOf[i] \in Names
           /\ \A o \in DefaultOperator[Grammar_] : Fresh(OperatorNode(o))
<1>1. Grammar_ \in {"math", "json"}
  BY LimitAssumption DEF Grammar_
<1>2. CASE Grammar_ = "math"
  <2>1. LexersOf = <<"discard", "binary_operator_plus", "binary_operator_minus", "number",
                     "binary_operator_multiply", "binary_operator_divide",
                     "binary_operator_power", "bracket", "unary_operator_plus">>
    BY <1>2 DEF LexersOf, Lexers
  <2>2. Len(LexersOf) = 9 /\ DOMAIN LexersOf = 1..9 /\ \A i \in 1..9 : LexersOf[i] \in Names
    BY <2>1 DEF Names
  <2>3. DefaultOperator[Grammar_] = {o \in MathOperators : o.lexer = "binary_operator_multiply"}
    BY <1>2 DEF DefaultOperator
  <2>4. \A o \in DefaultOperator[Grammar_] : o \in Operators
    BY <2>3 DEF Operators
  <2>5. QED
    BY <1>1, <2>2, <2>4, OperatorNodeIs
<1>3. CASE Grammar_ = "json"
  <2>1. LexersOf = <<"operator_comma", "scope_brace", "scope_bracket", "operator_colon",
                     "value_string", "value_number", "value_bool", "value_null", "discard">>
    BY <1>3 DEF LexersOf, Lexers
  <2>2. Len(LexersOf) = 9 /\ DOMAIN LexersOf = 1..9 /\ \A i \in 1..9 : LexersOf[i] \in Names
    BY <2>1 DEF Names
  <2>3. DefaultOperator[Grammar_] = {}
    BY <1>3 DEF DefaultOperator
  <2>4. QED
    BY <1>1, <2>2, <2>3
<1>4. QED
  BY <1>1, <1>2, <1>3

LEMMA TokenIs ==
    ASSUME NEW lexer \in Names, NEW size \in Nat, Tied(tree)
    PROVE  Fresh(Token(lexer, size))
<1>1. CASE Reading(lexer, rest) # {}
  <2>1. PICK o \in Reading(lexer, rest) : Token(lexer, size) = OperatorNode(o)
    BY <1>1 DEF Token
  <2>2. o \in Operators
    BY DEF Reading
  <2>3. QED
    BY <2>1, <2>2, OperatorNodeIs
<1>2. CASE Reading(lexer, rest) = {}
  <2>1. Len(tree.expression_string) \in Nat
    BY DEF Tied, Trees
  <2>2. QED
    BY <1>2, <2>1, ValueNodeIs DEF Token
<1>3. QED
  BY <1>1, <1>2

(* What the next lexer reads and where it is placed.                       *)
LEMMA TriedIs ==
    ASSUME TextOK, TreeOK, phase = "parsing", Successes # {}
    PROVE  LET i      == Min(Successes)
               lexer  == LexersOf[i]
               size   == Read(lexer, rest).size
               place  == PlaceAs(lexer, rest)
               result == parse_helper(tree, Token(lexer, size), place, DefaultOperator[Grammar_])
           IN  /\ i \in index..9 /\ i \in 1..9 /\ Read(lexer, rest).code = "success"
               /\ size \in 1..Len(rest)
               /\ result.success \in BOOLEAN /\ Kept(tree, result.tree)
<1> DEFINE i      == Min(Successes)
           lexer  == LexersOf[i]
           size   == Read(lexer, rest).size
<1>1. source \in Sources /\ rest \in Seq(Int) /\ rest # <<>> /\ Tied(tree) /\ Whole(tree)
  BY DEF TextOK, TreeOK, Ending
<1>2. Len(LexersOf) = 9 /\ index \in 1..10
  <2>1. Len(LexersOf) = 9
    BY <1>1, LexersAre
  <2>2. QED
    BY <2>1 DEF TextOK
<1>3. Successes \subseteq Nat /\ \A k \in Successes : k \in index..9 /\ k \in 1..9
                                  /\ Read(LexersOf[k], rest).code = "success"
  BY <1>2 DEF Successes
<1>4. i \in index..9 /\ i \in 1..9 /\ Read(lexer, rest).code = "success"
  BY <1>3, SmallestIs
<1> HIDE DEF i
<1>5. lexer \in Names /\ \A o \in DefaultOperator[Grammar_] : Fresh(OperatorNode(o))
  BY <1>1, <1>4, LexersAre
<1>6. Len(rest) \in Nat /\ Len(rest) # 0
  BY <1>1
<1> HIDE DEF lexer
<1>7. size \in 1..Len(rest)
  BY <1>4, <1>6, ReadIs
<1>8. Fresh(Token(lexer, size))
  BY <1>1, <1>5, <1>7, TokenIs
<1> HIDE DEF size
<1>9. LET result == parse_helper(tree, Token(lexer, size), PlaceAs(lexer, rest),
                                 DefaultOperator[Grammar_]) IN
      result.success \in BOOLEAN /\ Kept(tree, result.tree)
  BY <1>1, <1>5, <1>8, HelperIs
<1>10. QED
  BY <1>4, <1>7, <1>9 DEF i, lexer, size

LEMMA InitOK == ParserInit => TextOK /\ TreeOK
<1> SUFFICES ASSUME ParserInit PROVE TextOK /\ TreeOK
  OBVIOUS
<1> USE DEF ParserInit
<1>1. source \in Sources /\ MaxFragments[source] \in Nat /\ Grammar_ \in {"math", "json"}
      /\ Len(LexersOf) = 9
  BY LexersAre, LimitAssumption
<1>2. Ending(text, rest)
  BY DEF Ending
<1>3. TextOK
  BY <1>1, <1>2 DEF TextOK, Grammar_
<1>4. TreeOK
  BY EmptyTied DEF TreeOK
<1>5. QED
  BY <1>3, <1>4

LEMMA ArrivesOK ==
    ASSUME TextOK, TreeOK, NEW f \in Fragments[source], Arrives(f)
    PROVE  TextOK' /\ TreeOK'
<1>1. f \in Seq(Int) /\ f # <<>> /\ source \in Sources /\ MaxFragments[source] \in Nat
  BY LimitAssumption DEF TextOK
<1>2. Ending(text \o f, rest \o f) /\ rest \o f # <<>>
  <2>1. Ending(text, rest) /\ Len(rest) \in Nat /\ Len(f) \in Nat /\ Len(f) # 0
    BY <1>1 DEF TextOK, Ending
  <2>2. Ending(text \o f, rest \o f) /\ Len(rest \o f) = Len(rest) + Len(f)
    BY <1>1, <2>1, EndingMore
  <2>3. QED
    BY <2>1, <2>2
<1>3. pieces' \in 0..MaxFragments[source]
  BY <1>1 DEF Arrives, Growing, TextOK
<1>4. LexersOf' = LexersOf /\ Grammar_' = Grammar_ /\ source' = source /\ mode' = mode
      /\ index' = index
  BY DEF Arrives, LexersOf, Grammar_
<1>5. CASE phase = "error"
  <2>1. Grammar_ = "math" /\ rest = <<>> /\ rest' = <<>> /\ phase' = "error" /\ text' = text \o f
    BY <1>5 DEF Arrives, TextOK
  <2>2. Ending(text', rest')
    BY <1>1, <2>1 DEF Ending, TextOK
  <2>3. QED
    BY <1>3, <1>4, <1>5, <2>1, <2>2 DEF TextOK, TreeOK, Arrives
<1>6. CASE phase # "error"
  <2>1. rest' = rest \o f /\ phase' = "arrived" /\ text' = text \o f
    BY <1>6 DEF Arrives
  <2>2. phase \in {"waiting", "arrived"}
    BY <1>6 DEF Arrives
  <2>3. TextOK'
    BY <1>2, <1>3, <1>4, <2>1 DEF TextOK
  <2>4. TreeOK'
    BY <2>1, <2>2 DEF TreeOK, Arrives
  <2>5. QED
    BY <2>3, <2>4
<1>7. QED
  BY <1>5, <1>6

LEMMA EndsOK == TextOK /\ TreeOK /\ Ends => TextOK' /\ TreeOK'
<1> SUFFICES ASSUME TextOK, TreeOK, Ends PROVE TextOK' /\ TreeOK'
  OBVIOUS
<1>1. MaxFragments[source] \in Nat
  BY LimitAssumption DEF TextOK
<1>2. TextOK'
  BY <1>1 DEF TextOK, Ends, LexersOf, Grammar_, Ending
<1>3. QED
  BY <1>2 DEF TreeOK, Ends

LEMMA CallOK == TextOK /\ TreeOK /\ Call => TextOK' /\ TreeOK'
<1> SUFFICES ASSUME TextOK, TreeOK, Call PROVE TextOK' /\ TreeOK'
  OBVIOUS
<1>1. Len(LexersOf) = 9
  BY LexersAre DEF TextOK
<1>2. TextOK'
  BY <1>1 DEF TextOK, Call, LexersOf, Grammar_, Ending
<1>3. QED
  BY <1>2 DEF TreeOK, Call

LEMMA TryOK == TextOK /\ TreeOK /\ Try => TextOK' /\ TreeOK'
<1> SUFFICES ASSUME TextOK, TreeOK, Try PROVE TextOK' /\ TreeOK'
  OBVIOUS
<1> DEFINE i      == Min(Successes)
           lexer  == LexersOf[i]
           size   == Read(lexer, rest).size
           place  == PlaceAs(lexer, rest)
           result == parse_helper(tree, Token(lexer, size), place, DefaultOperator[Grammar_])
           over   == IF result.success THEN Exceeded(result.tree, size) ELSE {}
           taken  == result.success /\ over = {}
<1>1. phase = "parsing" /\ Successes # {}
  BY DEF Try, Tried, Placed, Taken, NotTaken
<1>2. i \in 1..9 /\ size \in 1..Len(rest) /\ Kept(tree, result.tree)
  BY <1>1, TriedIs
<1>3. Len(LexersOf) = 9 /\ Grammar_ \in {"math", "json"}
  BY LexersAre DEF TextOK
<1>4. UNCHANGED <<source, text, pieces, mode, streamed>>
  BY DEF Try, Tried, Placed, Taken, NotTaken
<1>5. taken =>
        /\ tree' = [result.tree EXCEPT !.expression_string = @ \o SubSeq(rest, 1, size)]
        /\ rest' = SubSeq(rest, size + 1, Len(rest))
        /\ index' = 1
        /\ phase' = IF Len(rest) = size THEN "waiting"
                    ELSE IF Grammar_ = "math" THEN "arrived" ELSE "parsing"
  BY DEF Try, Tried, Placed, Taken, NotTaken
<1>6. ~taken => tree' = result.tree /\ index' = i + 1 /\ UNCHANGED <<rest, phase>>
  BY DEF Try, Tried, Placed, Taken, NotTaken
<1> HIDE DEF i, size, result, taken
<1>7. CASE taken
  <2>1. Ending(text, rest) /\ rest \in Seq(Int) /\ Len(rest) \in Nat
    BY DEF TextOK, Ending
  <2>2. Ending(text, rest') /\ Len(rest') = Len(rest) - size
    <3>1. size \in 0..Len(rest) /\ rest' = SubSeq(rest, size + 1, Len(rest))
      BY <1>2, <1>5, <1>7, <2>1
    <3>2. QED
      BY <2>1, <3>1, EndingTail
  <2>3. rest' = <<>> <=> Len(rest) = size
    <3>1. rest' \in Seq(Int) /\ size \in Nat
      BY <2>2, <1>2 DEF Ending
    <3>2. QED
      BY <2>1, <2>2, <3>1
  <2>4. TextOK'
    BY <1>1, <1>3, <1>4, <1>5, <1>7, <2>2, <2>3 DEF TextOK, LexersOf, Grammar_
  <2>5. SubSeq(rest, 1, size) \in Seq(Int) /\ result.tree.expression_string \in Seq(Int)
    BY <1>2, <2>1 DEF Kept, Tied, Trees
  <2>6. tree' = [result.tree EXCEPT !.expression_string =
                     result.tree.expression_string \o SubSeq(rest, 1, size)]
    BY <1>2, <1>5, <1>7 DEF Kept, Tied, Trees
  <2> DEFINE e == result.tree.expression_string \o SubSeq(rest, 1, size)
  <2>7. Tied(tree') /\ Whole(tree')
    <3>1. e \in Seq(Int)
      BY <2>5
    <3>2. Tied(result.tree) /\ Whole(result.tree)
      BY <1>2 DEF Kept
    <3> HIDE DEF e
    <3>3. tree' = [result.tree EXCEPT !.expression_string = e]
      BY <2>6 DEF e
    <3>4. QED
      BY <3>1, <3>2, <3>3, TextIs
  <2>8. QED
    BY <2>4, <2>7 DEF TreeOK
<1>8. CASE ~taken
  <2>1. index' \in 1..10 /\ UNCHANGED <<source, text, pieces, mode, rest, phase>>
    BY <1>2, <1>4, <1>6, <1>8
  <2>2. LexersOf' = LexersOf /\ Grammar_' = Grammar_ /\ index' \in 1..Len(LexersOf) + 1
    BY <2>1, <1>3 DEF LexersOf, Grammar_
  <2>3. TextOK'
    BY <2>1, <2>2 DEF TextOK
  <2>4. TreeOK'
    BY <1>2, <1>6, <1>8 DEF Kept, TreeOK
  <2>5. QED
    BY <2>3, <2>4
<1>9. QED
  BY <1>7, <1>8

LEMMA GiveUpOK == TextOK /\ TreeOK /\ GiveUp => TextOK' /\ TreeOK'
<1> SUFFICES ASSUME TextOK, TreeOK, GiveUp PROVE TextOK' /\ TreeOK'
  OBVIOUS
<1>1. Len(LexersOf) = 9 /\ Grammar_ \in {"math", "json"}
  BY LexersAre DEF TextOK
<1>2. /\ phase = "parsing" /\ index' = 1 /\ UNCHANGED <<source, text, pieces, mode>>
      /\ LexersOf' = LexersOf /\ Grammar_' = Grammar_
  BY DEF GiveUp, LexersOf, Grammar_
<1>3. rest \in Seq(Int) /\ rest # <<>> /\ Len(rest) \in Nat /\ Len(rest) # 0
  BY <1>2 DEF TextOK, Ending
<1>4. CASE NotYet
  <2>1. phase' = "waiting" /\ UNCHANGED <<rest, tree>>
    BY <1>4 DEF GiveUp
  <2>2. mode # "full"
    BY <1>3, <1>4 DEF NotYet, Limit
  <2>3. TextOK'
    BY <1>1, <1>2, <2>1, <2>2 DEF TextOK
  <2>4. QED
    BY <1>2, <2>1, <2>3 DEF TreeOK
<1>5. CASE ~NotYet
  <2>1. phase' = "error" /\ rest' = <<>> /\ tree' = IF mode = "full" THEN AtRoot(tree) ELSE tree
    BY <1>5 DEF GiveUp
  <2>2. Ending(text, <<>>)
    BY DEF TextOK, Ending
  <2>3. TextOK'
    BY <1>1, <1>2, <2>1, <2>2 DEF TextOK
  <2>4. Tied(tree')
    BY <2>1, AtRootTied DEF TreeOK
  <2>5. QED
    BY <2>1, <2>3, <2>4 DEF TreeOK
<1>6. QED
  BY <1>4, <1>5

LEMMA ReturnOK == TextOK /\ TreeOK /\ Return => TextOK' /\ TreeOK'
<1> SUFFICES ASSUME TextOK, TreeOK, Return PROVE TextOK' /\ TreeOK'
  OBVIOUS
<1>1. /\ phase = "waiting" /\ phase' \in {"done", "error"}
      /\ UNCHANGED <<source, text, pieces, rest, index, mode>>
      /\ tree' = IF mode = "full" THEN AtRoot(tree) ELSE tree
      /\ LexersOf' = LexersOf /\ Grammar_' = Grammar_
  BY DEF Return, LexersOf, Grammar_
<1>2. TextOK'
  BY <1>1 DEF TextOK
<1>3. Tied(tree')
  BY <1>1, AtRootTied DEF TreeOK
<1>4. QED
  BY <1>1, <1>2, <1>3 DEF TreeOK

LEMMA AtOneGoOK ==
    ASSUME TextOK, TreeOK, NEW m \in {"again", "full"}, AtOneGo(m)
    PROVE  TextOK' /\ TreeOK'
<1>1. Len(LexersOf) = 9
  BY LexersAre DEF TextOK
<1>2. /\ mode = "stream" /\ text # <<>> /\ mode' = m /\ tree' = EmptyTree /\ rest' = text
      /\ phase' = "parsing" /\ index' = 1 /\ UNCHANGED <<source, text, pieces>>
      /\ LexersOf' = LexersOf /\ Grammar_' = Grammar_
  BY DEF AtOneGo, LexersOf, Grammar_
<1>3. Ending(text, text)
  BY DEF TextOK, Ending
<1>4. Grammar_ # "math"
  BY <1>2 DEF TextOK
<1>5. TextOK'
  BY <1>1, <1>2, <1>3, <1>4 DEF TextOK
<1>6. TreeOK'
  BY <1>2, EmptyTied DEF TreeOK
<1>7. QED
  BY <1>5, <1>6

LEMMA StepOK == TextOK /\ TreeOK /\ [ParserNext]_parserVars => TextOK' /\ TreeOK'
<1> SUFFICES ASSUME TextOK, TreeOK, [ParserNext]_parserVars PROVE TextOK' /\ TreeOK'
  OBVIOUS
<1>1. ASSUME NEW f \in Fragments[source], Arrives(f) PROVE TextOK' /\ TreeOK'
  BY <1>1, ArrivesOK
<1>2. CASE Ends
  BY <1>2, EndsOK
<1>3. CASE Call
  BY <1>3, CallOK
<1>4. CASE Try
  BY <1>4, TryOK
<1>5. CASE GiveUp
  BY <1>5, GiveUpOK
<1>6. CASE Return
  BY <1>6, ReturnOK
<1>7. ASSUME NEW m \in {"again", "full"}, AtOneGo(m) PROVE TextOK' /\ TreeOK'
  BY <1>7, AtOneGoOK
<1>8. CASE UNCHANGED parserVars
  BY <1>8 DEF parserVars, TextOK, TreeOK, LexersOf, Grammar_, Ending
<1>9. QED
  BY <1>1, <1>2, <1>3, <1>4, <1>5, <1>6, <1>7, <1>8 DEF ParserNext

LEMMA TypesOK == TextOK /\ TreeOK => ParserTypeOK
<1> SUFFICES ASSUME TextOK, TreeOK PROVE ParserTypeOK
  OBVIOUS
<1>1. rest = SubSeq(text, Len(text) - Len(rest) + 1, Len(text))
  BY EndingSub DEF TextOK
<1>2. PICK K : Links(tree, K)
  BY DEF TreeOK, Tied
<1>3. ASSUME NEW a \in 1..Len(tree.memory)
      PROVE  LET node == tree.memory[a] IN
             /\ node.right \in 0..1 /\ node.property \in {0, 1, 2, 4, 8}
             /\ {node.last_child, node.previous_peer} \subseteq 0..Len(tree.memory)
  <2>1. a \in Addresses(tree) /\ tree.memory \in Seq(Nodes)
    BY <1>3 DEF TreeOK, Tied, Trees, Addresses
  <2>2. tree.memory[a] \in Nodes
    BY <2>1, <1>3
  <2>3. tree.memory[a].right \in 0..1 /\ tree.memory[a].property \in {0, 1, 2, 4, 8}
    BY <2>2 DEF Nodes
  <2>4. LinksOf(tree, K, a) /\ K[a] \in Seq(Addresses(tree))
    BY <1>2, <2>1 DEF Links
  <2>5. tree.memory[a].last_child \in 0..Len(tree.memory)
    <3>1. CASE K[a] = <<>>
      BY <2>1, <2>4, <3>1 DEF LinksOf, None
    <3>2. CASE K[a] # <<>>
      <4>1. K[a][Len(K[a])] \in Addresses(tree)
        BY <2>4, <3>2
      <4>2. QED
        BY <2>4, <3>2, <4>1 DEF LinksOf, Addresses
    <3>3. QED
      BY <3>1, <3>2
  <2>6. tree.memory[a].previous_peer \in 0..Len(tree.memory)
    BY <2>4 DEF LinksOf
  <2>7. QED
    BY <2>3, <2>5, <2>6
<1>4. QED
  BY <1>1, <1>3 DEF ParserTypeOK, TextOK

(* However operators are inserted above what was placed before, the links  *)
(* make one tree, the path follows the last children, and what has left    *)
(* the path is complete: for all texts, pieces and limits.                 *)
THEOREM TreeStaysConsistent == ParserSpec => []TreeConsistent
<1>1. ParserInit => TextOK /\ TreeOK
  BY InitOK
<1>2. TextOK /\ TreeOK /\ [ParserNext]_parserVars => (TextOK /\ TreeOK)'
  BY StepOK
<1>3. TextOK /\ TreeOK => TreeConsistent
  BY TypesOK, Linked DEF TreeConsistent, TreeOK
<1>4. QED
  BY <1>1, <1>2, <1>3, PTL DEF ParserSpec

-----------------------------------------------------------------------------
(* A character begins the token of one json lexer at most.                 *)

JsonNames ==
    {"operator_comma", "scope_brace", "scope_bracket", "operator_colon", "value_string",
     "value_number", "value_bool", "value_null", "discard"}

Owner(c) ==
    IF c = 44 THEN "operator_comma"
    ELSE IF c \in {123, 125} THEN "scope_brace"
    ELSE IF c \in {91, 93} THEN "scope_bracket"
    ELSE IF c = 58 THEN "operator_colon"
    ELSE IF c = 34 THEN "value_string"
    ELSE IF c \in {43, 45, 46} \cup 48..57 THEN "value_number"
    ELSE IF c \in {102, 116} THEN "value_bool"
    ELSE IF c = 110 THEN "value_null"
    ELSE IF c \in {9, 10, 13, 32} THEN "discard"
    ELSE "none"

LEMMA OwnerIs ==
    ASSUME NEW c \in Int
    PROVE  /\ c = 34 => Owner(c) = "value_string"
           /\ c \in {43, 45, 46} \cup 48..57 => Owner(c) = "value_number"
           /\ c \in {102, 116} => Owner(c) = "value_bool"
           /\ c = 110 => Owner(c) = "value_null"
           /\ c \in {9, 10, 13, 32} => Owner(c) = "discard"
<1>1. c = 34 => Owner(c) = "value_string"
  BY DEF Owner
<1>2. c \in {43, 45, 46} \cup 48..57 => Owner(c) = "value_number"
  BY DEF Owner
<1>3. c \in {102, 116} => Owner(c) = "value_bool"
  BY DEF Owner
<1>4. c = 110 => Owner(c) = "value_null"
  BY DEF Owner
<1>5. c \in {9, 10, 13, 32} => Owner(c) = "discard"
  BY DEF Owner
<1>6. QED
  BY <1>1, <1>2, <1>3, <1>4, <1>5

\* The operator o is one of the lexer, with this code.
IsOf(o, lexer, code) == o.lexer = lexer /\ o.symbol = code

LEMMA JsonSymbols ==
    ASSUME NEW o \in JsonOperators
    PROVE  o.lexer = Owner(o.symbol)
<1>1. ASSUME NEW lexer, NEW symbol, NEW priority, NEW place, NEW right, NEW property
      PROVE  IsOf(Operator(lexer, symbol, priority, place, right, property), lexer, Ch[symbol])
  BY DEF Operator, IsOf
<1>2. \/ IsOf(o, "operator_comma", Ch[","]) \/ IsOf(o, "operator_colon", Ch[":"])
      \/ IsOf(o, "scope_brace", Ch["{"]) \/ IsOf(o, "scope_brace", Ch["}"])
      \/ IsOf(o, "scope_bracket", Ch["["]) \/ IsOf(o, "scope_bracket", Ch["]"])
  BY <1>1, Zenon DEF JsonOperators
<1>3. Ch[","] = 44
  BY Zenon DEF Ch, Characters
<1>4. Ch[":"] = 58
  BY Zenon DEF Ch, Characters
<1>5. Ch["{"] = 123
  BY Zenon DEF Ch, Characters
<1>6. Ch["}"] = 125
  BY Zenon DEF Ch, Characters
<1>7. Ch["["] = 91
  BY Zenon DEF Ch, Characters
<1>8. Ch["]"] = 93
  BY Zenon DEF Ch, Characters
<1>9. \/ IsOf(o, "operator_comma", 44) \/ IsOf(o, "operator_colon", 58)
      \/ IsOf(o, "scope_brace", 123) \/ IsOf(o, "scope_brace", 125)
      \/ IsOf(o, "scope_bracket", 91) \/ IsOf(o, "scope_bracket", 93)
  BY <1>2, <1>3, <1>4, <1>5, <1>6, <1>7, <1>8, Zenon
<1>10. QED
  BY <1>9 DEF IsOf, Owner

LEMMA ReadingStarts ==
    ASSUME NEW s, NEW lexer \in JsonNames, Reading(lexer, s) # {}
    PROVE  lexer = Owner(s[1])
<1>1. PICK o \in Operators : o.lexer = lexer /\ o.symbol = s[1]
  BY DEF Reading
<1>2. o \notin BinaryOperators
  <2>1. \A p \in BinaryOperators : p.lexer \in
            {"binary_operator_plus", "binary_operator_minus", "binary_operator_multiply",
             "binary_operator_divide", "binary_operator_power"}
    BY DEF BinaryOperators, Operator
  <2>2. QED
    BY <1>1, <2>1 DEF JsonNames
<1>3. o \notin PrefixAndBrackets
  <2>1. \A p \in PrefixAndBrackets : p.lexer \in {"unary_operator_plus", "bracket"}
    BY DEF PrefixAndBrackets, Operator
  <2>2. QED
    BY <1>1, <2>1 DEF JsonNames
<1>4. o \in JsonOperators
  BY <1>2, <1>3 DEF Operators, MathOperators
<1>5. QED
  BY <1>1, <1>4, JsonSymbols

LEMMA OutcomeNotError ==
    ASSUME NEW parsed, NEW n, Outcome(parsed, n).code # "error"
    PROVE  parsed
<1>1. Error.code = "error"
  BY DEF Error
<1>2. QED
  BY <1>1 DEF Outcome

LEMMA WhiteSpaceStarts ==
    ASSUME NEW s \in Seq(Int), s # <<>>, ReadWhiteSpace(s).code # "error"
    PROVE  Owner(s[1]) = "discard"
<1>1. PICK n \in 1..Len(s) : \A i \in 1..n : s[i] \in standard_white_space_set
  BY OutcomeNotError DEF ReadWhiteSpace
<1>2. 1 \in 1..n
  BY <1>1
<1>3. s[1] \in standard_white_space_set
  BY <1>1, <1>2
<1>4. Ch[" "] = 32
  BY Zenon DEF Ch, Characters
<1>5. Ch["\t"] = 9
  BY Zenon DEF Ch, Characters
<1>6. Ch["\r"] = 13
  BY Zenon DEF Ch, Characters
<1>7. Ch["\n"] = 10
  BY Zenon DEF Ch, Characters
<1>8. standard_white_space_set = {32, 9, 13, 10}
  BY <1>4, <1>5, <1>6, <1>7, Zenon DEF standard_white_space_set
<1>9. s[1] \in Int /\ s[1] \in {9, 10, 13, 32}
  BY <1>3, <1>8
<1>10. QED
  BY <1>9, OwnerIs

LEMMA CheckStarts ==
    ASSUME NEW s \in Seq(Int), s # <<>>, NEW w, Len(w) \in Nat, Len(w) # 0,
           Check(s, Spelled(w)).code # "error"
    PROVE  s[1] = Ch[w[1]]
<1> DEFINE word == Spelled(w)
<1>1. word = [i \in 1..Len(w) |-> Ch[w[i]]] /\ Len(word) = Len(w) /\ word[1] = Ch[w[1]]
  BY DEF Spelled
<1>2. Len(s) \in Nat /\ Len(s) # 0 /\ Len(word) \in Nat /\ Len(word) # 0
  BY <1>1
<1> HIDE DEF word
<1>3. IsPrefix(word, s) \/ IsPrefix(s, word)
  BY OutcomeNotError DEF Check, word
<1>4. \A a, b : IsPrefix(a, b) /\ Len(a) \in Nat /\ Len(a) # 0 => a[1] = b[1]
  <2> SUFFICES ASSUME NEW a, NEW b, IsPrefix(a, b), Len(a) \in Nat, Len(a) # 0
               PROVE  a[1] = b[1]
    OBVIOUS
  <2>1. SubSeq(a, 1, Len(a)) = SubSeq(b, 1, Len(a))
    BY DEF IsPrefix
  <2>2. SubSeq(a, 1, Len(a))[1] = a[1] /\ SubSeq(b, 1, Len(a))[1] = b[1]
    BY DEF SubSeq
  <2>3. QED
    BY <2>1, <2>2
<1>5. QED
  BY <1>1, <1>2, <1>3, <1>4

LEMMA WordStarts ==
    ASSUME NEW s \in Seq(Int), s # <<>>
    PROVE  /\ ReadBool(s).code # "error" => Owner(s[1]) = "value_bool"
           /\ ReadNull(s).code # "error" => Owner(s[1]) = "value_null"
<1>1. /\ Len(<<"t", "r", "u", "e">>) = 4 /\ <<"t", "r", "u", "e">>[1] = "t"
  OBVIOUS
<1>2. Len(<<"f", "a", "l", "s", "e">>) = 5 /\ <<"f", "a", "l", "s", "e">>[1] = "f"
  OBVIOUS
<1>3. Len(<<"n", "u", "l", "l">>) = 4 /\ <<"n", "u", "l", "l">>[1] = "n"
  OBVIOUS
<1>4. Ch["t"] = 116
  BY Zenon DEF Ch, Characters
<1>5. Ch["f"] = 102
  BY Zenon DEF Ch, Characters
<1>6. Ch["n"] = 110
  BY Zenon DEF Ch, Characters
<1>7. Check(s, Spelled(<<"t", "r", "u", "e">>)).code # "error" => s[1] = 116
  BY <1>1, <1>4, CheckStarts
<1>8. Check(s, Spelled(<<"f", "a", "l", "s", "e">>)).code # "error" => s[1] = 102
  BY <1>2, <1>5, CheckStarts
<1>9. Check(s, Spelled(<<"n", "u", "l", "l">>)).code # "error" => s[1] = 110
  BY <1>3, <1>6, CheckStarts
<1>10. ReadBool(s).code # "error" => s[1] \in {102, 116}
  <2>1. ReadBool(s) \in {Check(s, Spelled(<<"t", "r", "u", "e">>)),
                         Check(s, Spelled(<<"f", "a", "l", "s", "e">>))}
    BY DEF ReadBool
  <2>2. QED
    BY <2>1, <1>7, <1>8
<1>11. ReadNull(s).code # "error" => s[1] = 110
  BY <1>9 DEF ReadNull
<1>12. s[1] \in Int
  OBVIOUS
<1>13. QED
  BY <1>10, <1>11, <1>12, OwnerIs

(* What has stopped stays so.                                              *)
LEMMA NumberStarts ==
    ASSUME NEW s \in Seq(Int), s # <<>>, ReadNumber(s).code # "error"
    PROVE  Owner(s[1]) = "value_number"
<1> DEFINE n   == Len(s)
           run == CHOOSE f : NumberRun(s, n, f)
           c   == s[1]
           X   == [NumberStart EXCEPT !.stopped = TRUE]
           N   == {k \in 1..n : run[k] # X}
<1>1. n \in Nat /\ n # 0 /\ c \in Int
  OBVIOUS
<1>2. SUFFICES ASSUME c \notin {43, 45, 46} \cup 48..57 PROVE FALSE
  BY <1>1, OwnerIs
<1>3. NumberRun(s, n, run)
  BY <1>1, NumberRunExists
<1>4. ReadNumber(s) = IF run[n].number_end = 0 THEN Outcome(~run[n].stopped, 0)
                      ELSE Outcome(TRUE, IF ~TRUE \/ ~ ~run[n].stopped THEN run[n].number_end ELSE 0)
  BY DEF ReadNumber, CheckNumber, NumberRun
<1> HIDE DEF run
<1>5. \A k \in 0..n : run[k] = IF k = 0 THEN NumberStart ELSE NumberStep(run[k - 1], s[k])
  BY <1>3 DEF NumberRun
<1>6. NumberStep(NumberStart, c) = X
  <2>1. Ch["0"] = 48
    BY Zenon DEF Ch, Characters
  <2>2. Ch["9"] = 57
    BY Zenon DEF Ch, Characters
  <2>3. Ch["+"] = 43
    BY Zenon DEF Ch, Characters
  <2>4. Ch["-"] = 45
    BY Zenon DEF Ch, Characters
  <2>5. Ch["."] = 46
    BY Zenon DEF Ch, Characters
  <2>6. c \notin {Ch["-"], Ch["+"]} /\ c # Ch["0"] /\ c # Ch["."] /\ ~IsDigit(c, FALSE)
    BY <1>1, <1>2, <2>1, <2>2, <2>3, <2>4, <2>5 DEF IsDigit
  <2>7. /\ NumberStart.stopped = FALSE /\ NumberStart.state = 0 /\ NumberStart.hex = FALSE
        /\ NumberStart.state # 2 /\ NumberStart.state # 4 /\ NumberStart.state # 5
        /\ NumberStart.state # 6
    BY DEF NumberStart
  <2>8. NumberStart.state \notin {5, 6}
    BY <2>7
  <2>9. QED
    BY <2>6, <2>7, <2>8, Zenon DEF NumberStep
<1>7. X.stopped /\ X.number_end = 0
  BY DEF NumberStart
<1>8. \A d : NumberStep(X, d) = X
  <2> HIDE DEF X
  <2>1. QED
    BY <1>7 DEF NumberStep
<1>9. run[n] = X
  <2>0. SUFFICES ASSUME run[n] # X PROVE FALSE
    OBVIOUS
  <2>1. N # {}
    <3>1. n \in 1..n
      BY <1>1
    <3> HIDE DEF X
    <3>2. QED
      BY <3>1, <2>0
  <2>2. PICK k \in N : \A j \in N : k <= j
    <3>1. N \subseteq Nat
      OBVIOUS
    <3> HIDE DEF N
    <3>2. QED
      BY <2>1, <3>1, Least
  <2>3. k \in 1..n /\ run[k] # X
    BY <2>2
  <2> HIDE DEF X
  <2>4. run[k] = NumberStep(run[k - 1], s[k])
    BY <1>1, <1>5, <2>3
  <2>5. CASE k = 1
    <3>1. run[0] = NumberStart
      BY <1>1, <1>5
    <3>2. QED
      BY <2>3, <2>4, <2>5, <3>1, <1>6
  <2>6. CASE k # 1
    <3>1. k - 1 \in 1..n /\ ~ (k <= k - 1)
      BY <1>1, <2>3, <2>6
    <3>2. k - 1 \notin N
      <4> HIDE DEF N
      <4>1. QED
        BY <2>2, <3>1
    <3>3. run[k - 1] = X
      BY <3>1, <3>2
    <3>4. QED
      BY <2>3, <2>4, <3>3, <1>8
  <2>7. QED
    BY <2>5, <2>6
<1> HIDE DEF X
<1>10. ReadNumber(s) = Outcome(FALSE, 0)
  BY <1>4, <1>7, <1>9
<1>11. QED
  BY <1>10, OutcomeNotError

LEMMA StringStarts ==
    ASSUME NEW s \in Seq(Int), s # <<>>, ReadString(s).code # "error"
    PROVE  Owner(s[1]) = "value_string"
<1> DEFINE n   == Len(s)
           run == CHOOSE f : StringRun(s, n, f)
           c   == s[1]
           N   == {k \in 1..n : run[k].at # "bad"}
<1>1. n \in Nat /\ n # 0 /\ c \in Int
  OBVIOUS
<1>2. SUFFICES ASSUME c # 34 PROVE FALSE
  BY <1>1, OwnerIs
<1>3. StringRun(s, n, run)
  BY <1>1, StringRunExists
<1>4. ReadString(s) = Outcome(run[n].at # "bad", IF run[n].at = "closed" THEN run[n].size ELSE 0)
  BY DEF ReadString, StringRun
<1> HIDE DEF run
<1>5. \A k \in 0..n : run[k] = IF k = 0 THEN StringStart ELSE StringStep(run[k - 1], s[k])
  BY <1>3 DEF StringRun
<1>6. StringStep(StringStart, c).at = "bad"
  <2>1. Ch["\""] = 34
    BY Zenon DEF Ch, Characters
  <2>2. c # Ch["\""]
    BY <1>2, <2>1
  <2>3. StringStart.at = "open" /\ StringStart.at \notin {"closed", "bad"}
    BY DEF StringStart
  <2>4. StringStep(StringStart, c) = [StringStart EXCEPT !.at = "bad"]
    BY <2>2, <2>3 DEF StringStep
  <2>5. QED
    BY <2>4 DEF StringStart
<1>7. \A m, d : m.at = "bad" => StringStep(m, d) = m
  BY DEF StringStep
<1>8. run[n].at = "bad"
  <2>1. SUFFICES ASSUME N # {} PROVE FALSE
    BY <1>1
  <2>2. PICK k \in N : \A j \in N : k <= j
    <3>1. N \subseteq Nat
      OBVIOUS
    <3> HIDE DEF N
    <3>2. QED
      BY <2>1, <3>1, Least
  <2>3. k \in 1..n /\ run[k].at # "bad"
    BY <2>2
  <2>4. run[k] = StringStep(run[k - 1], s[k])
    BY <1>1, <1>5, <2>3
  <2>5. CASE k = 1
    <3>1. run[0] = StringStart
      BY <1>1, <1>5
    <3>2. QED
      BY <2>3, <2>4, <2>5, <3>1, <1>6
  <2>6. CASE k # 1
    <3>1. k - 1 \in 1..n /\ ~ (k <= k - 1)
      BY <1>1, <2>3, <2>6
    <3>2. k - 1 \notin N
      <4> HIDE DEF N
      <4>1. QED
        BY <2>2, <3>1
    <3>3. run[k - 1].at = "bad"
      BY <3>1, <3>2
    <3>4. QED
      BY <2>3, <2>4, <3>3, <1>7
  <2>7. QED
    BY <2>5, <2>6
<1>9. QED
  BY <1>4, <1>8, OutcomeNotError

(* So of a text at most one json lexer reads more than an error.           *)
LEMMA OneOwner ==
    ASSUME NEW s \in Seq(Int), s # <<>>, NEW lexer \in JsonNames, Read(lexer, s).code # "error"
    PROVE  lexer = Owner(s[1])
<1>1. CASE lexer = "discard"
  BY <1>1, WhiteSpaceStarts DEF Read
<1>2. CASE lexer = "value_number"
  BY <1>2, NumberStarts DEF Read
<1>3. CASE lexer = "value_string"
  BY <1>3, StringStarts DEF Read
<1>4. CASE lexer = "value_bool"
  BY <1>4, WordStarts DEF Read
<1>5. CASE lexer = "value_null"
  BY <1>5, WordStarts DEF Read
<1>6. CASE lexer \in {"operator_comma", "scope_brace", "scope_bracket", "operator_colon"}
  <2>1. Read(lexer, s) = ReadOperator(lexer, s)
    BY <1>6 DEF Read
  <2>2. Reading(lexer, s) # {}
    BY <2>1, OutcomeNotError DEF ReadOperator
  <2>3. QED
    BY <2>2, ReadingStarts
<1>7. QED
  BY <1>1, <1>2, <1>3, <1>4, <1>5, <1>6 DEF JsonNames

-----------------------------------------------------------------------------
(* What a limit has refused.                                               *)

\* Of the rest one lexer reads a token, and has been tried.
OneReads ==
    \E j \in 1..9 : /\ j < index /\ Read(LexersOf[j], rest).code = "success"
                    /\ \A k \in 1..9 : k # j => Read(LexersOf[k], rest).code = "error"

RefusedOK ==
    /\ refused \subseteq {"depth", "size", "buffer", "not_yet"}
    /\ "not_yet" \in refused => phase = "error"
    /\ Grammar_ = "json" /\ refused # {} =>
           phase = "error" \/ (phase = "parsing" /\ OneReads)
    /\ Grammar_ = "math" /\ "size" \in refused =>
           \/ phase = "error"
           \/ phase \in {"arrived", "parsing"} /\ Len(tree.memory) > SizeLimit[source]
    /\ Grammar_ = "math" /\ "buffer" \in refused =>
           \/ phase = "error"
           \/ /\ phase \in {"arrived", "parsing"}
              /\ Len(tree.expression_string) + Len(rest) > BufferLimit[source]

LEMMA ReadCodes ==
    ASSUME NEW lexer, NEW s
    PROVE  Read(lexer, s).code \in {"error", "attempt", "success"}
<1>1. \A p, n : Outcome(p, n).code \in {"error", "attempt", "success"}
  BY DEF Outcome, Error, Attempt, Success
<1>2. \A w : Check(s, w).code \in {"error", "attempt", "success"}
  BY <1>1 DEF Check, Success
<1>3. ReadBool(s).code \in {"error", "attempt", "success"}
  BY <1>2 DEF ReadBool
<1>4. ReadNull(s).code \in {"error", "attempt", "success"}
  BY <1>2 DEF ReadNull
<1>5. ReadNumber(s).code \in {"error", "attempt", "success"}
  BY <1>1 DEF ReadNumber, CheckNumber
<1>6. ReadString(s).code \in {"error", "attempt", "success"}
  BY <1>1 DEF ReadString
<1>7. ReadWhiteSpace(s).code \in {"error", "attempt", "success"}
  BY <1>1 DEF ReadWhiteSpace
<1>8. /\ ReadStrtod(s).code \in {"error", "attempt", "success"}
      /\ ReadOperator(lexer, s).code \in {"error", "attempt", "success"}
  BY <1>1 DEF ReadStrtod, ReadOperator
<1>9. QED
  BY <1>3, <1>4, <1>5, <1>6, <1>7, <1>8, Zenon DEF Read

LEMMA OnlyOneReads ==
    ASSUME source \in Sources, Grammar_ = "json", rest \in Seq(Int), rest # <<>>,
           NEW j \in 1..9, Read(LexersOf[j], rest).code # "error", NEW k \in 1..9, k # j
    PROVE  Read(LexersOf[k], rest).code = "error"
<1>1. LexersOf = <<"operator_comma", "scope_brace", "scope_bracket", "operator_colon",
                   "value_string", "value_number", "value_bool", "value_null", "discard">>
  BY DEF LexersOf, Lexers
<1>2. LexersOf[j] \in JsonNames /\ LexersOf[k] \in JsonNames /\ LexersOf[j] # LexersOf[k]
  BY <1>1 DEF JsonNames
<1>3. LexersOf[j] = Owner(rest[1])
  BY <1>2, OneOwner
<1>4. QED
  BY <1>2, <1>3, OneOwner

(* The text of the values and the nodes that a token leaves.               *)
LEMMA ExceededIs ==
    ASSUME NEW t, NEW size
    PROVE  /\ Exceeded(t, size) \subseteq {"depth", "size", "buffer"}
           /\ "size" \in Exceeded(t, size) <=> Len(t.memory) > SizeLimit[source]
           /\ "buffer" \in Exceeded(t, size) <=>
                  Len(t.expression_string) + size > BufferLimit[source]
BY DEF Exceeded

LEMMA OverTyped ==
    ASSUME TextOK, TreeOK
    PROVE  /\ source \in Sources /\ Grammar_ \in {"math", "json"}
           /\ SizeLimit[source] \in Nat /\ BufferLimit[source] \in Nat
           /\ rest \in Seq(Int) /\ Len(rest) \in Nat
           /\ Len(tree.memory) \in Nat /\ tree.expression_string \in Seq(Int)
           /\ Len(tree.expression_string) \in Nat
<1>1. source \in Sources /\ rest \in Seq(Int)
  BY DEF TextOK, Ending
<1>2. tree.memory \in Seq(Nodes) /\ tree.expression_string \in Seq(Int)
  BY DEF TreeOK, Tied, Trees
<1>3. QED
  BY <1>1, <1>2, LexersAre, LimitAssumption

(* While a limit has refused the token that the json text begins with, no  *)
(* lexer is left that reads it.                                            *)
LEMMA NoneReads ==
    ASSUME TextOK, OneReads
    PROVE  Successes = {} /\ ~MayGoOn
<1>1. Len(LexersOf) = 9 /\ DOMAIN LexersOf = 1..9 /\ index \in Nat
  BY LexersAre DEF TextOK
<1>2. PICK j \in 1..9 : /\ j < index /\ Read(LexersOf[j], rest).code = "success"
                        /\ \A k \in 1..9 : k # j => Read(LexersOf[k], rest).code = "error"
  BY DEF OneReads
<1>3. \A k \in 1..9 : Read(LexersOf[k], rest).code \in {"success", "error"}
  BY <1>2
<1>4. \A k \in 1..9 : Read(LexersOf[k], rest).code = "success" => k < index
  BY <1>2
<1>5. Successes = {}
  <2>1. \A k \in index..Len(LexersOf) : k \in 1..9 /\ ~(k < index)
    BY <1>1 DEF TextOK
  <2>2. QED
    BY <1>4, <2>1 DEF Successes
<1>6. QED
  BY <1>1, <1>3, <1>5 DEF MayGoOn

LEMMA RefusedTry ==
    ASSUME TextOK, TreeOK, RefusedOK, Try
    PROVE  RefusedOK'
<1> DEFINE i      == Min(Successes)
           lexer  == LexersOf[i]
           size   == Read(lexer, rest).size
           place  == PlaceAs(lexer, rest)
           result == parse_helper(tree, Token(lexer, size), place, DefaultOperator[Grammar_])
           over   == IF result.success THEN Exceeded(result.tree, size) ELSE {}
           taken  == result.success /\ over = {}
<1>1. phase = "parsing" /\ Successes # {}
  BY DEF Try, Tried, Placed, Taken, NotTaken
<1>2. /\ i \in index..9 /\ i \in 1..9 /\ Read(LexersOf[i], rest).code = "success"
      /\ size \in 1..Len(rest) /\ Kept(tree, result.tree) /\ result.success \in BOOLEAN
  BY <1>1, TriedIs
<1>3. taken =>
        /\ tree' = [result.tree EXCEPT !.expression_string = @ \o SubSeq(rest, 1, size)]
        /\ rest' = SubSeq(rest, size + 1, Len(rest))
        /\ phase' = IF Len(rest) = size THEN "waiting"
                    ELSE IF Grammar_ = "math" THEN "arrived" ELSE "parsing"
        /\ refused' = refused
  BY DEF Try, Tried, Placed, Taken, NotTaken
<1>4. ~taken => /\ tree' = result.tree /\ index' = i + 1 /\ refused' = refused \cup over
                /\ UNCHANGED <<rest, phase>>
  BY DEF Try, Tried, Placed, Taken, NotTaken
<1>5. source' = source /\ Grammar_' = Grammar_ /\ LexersOf' = LexersOf
  BY DEF Try, LexersOf, Grammar_
<1>6. /\ over \subseteq {"depth", "size", "buffer"}
      /\ "size" \in over => Len(result.tree.memory) > SizeLimit[source]
      /\ "buffer" \in over => Len(result.tree.expression_string) + size > BufferLimit[source]
      /\ taken => /\ ~(Len(result.tree.memory) > SizeLimit[source])
                  /\ ~(Len(result.tree.expression_string) + size > BufferLimit[source])
  BY ExceededIs
<1>7. /\ Len(result.tree.memory) \in Nat /\ Len(result.tree.memory) >= Len(tree.memory)
      /\ result.tree.expression_string = tree.expression_string
      /\ result.tree \in Trees
  BY <1>2 DEF Kept, Tied, Trees
<1>8. taken \in BOOLEAN
  OBVIOUS
<1> HIDE DEF i, size, result, over, taken
<1> DEFINE m == Len(tree.memory)
           n == Len(result.tree.memory)
           e == Len(tree.expression_string)
           r == Len(rest)
<1>9. /\ SizeLimit[source] \in Nat /\ BufferLimit[source] \in Nat
      /\ m \in Nat /\ n \in Nat /\ n >= m /\ e \in Nat /\ r \in Nat /\ size \in 1..r
      /\ rest \in Seq(Int) /\ tree.expression_string \in Seq(Int)
      /\ Grammar_ \in {"math", "json"} /\ source \in Sources
  BY <1>2, <1>7, OverTyped
<1>10. "not_yet" \notin refused
  BY <1>1 DEF RefusedOK
<1>11. CASE Grammar_ = "json"
  <2>1. refused = {}
    <3>1. refused # {} => OneReads
      BY <1>1, <1>11 DEF RefusedOK
    <3>2. QED
      BY <1>1, <3>1, NoneReads
  <2>2. CASE taken
    BY <1>3, <1>5, <1>11, <2>1, <2>2 DEF RefusedOK
  <2>3. CASE ~taken
    <3>1. refused' = over /\ phase' = "parsing" /\ rest' = rest /\ index' = i + 1
      BY <1>1, <1>4, <2>1, <2>3
    <3>2. i \in 1..9 /\ i < index'
      BY <1>2, <3>1
    <3>3. rest # <<>>
      BY <1>1 DEF TextOK
    <3>4. \A k \in 1..9 : k # i => Read(LexersOf[k], rest).code = "error"
      BY <1>2, <1>9, <1>11, <3>3, OnlyOneReads
    <3>5. OneReads'
      BY <1>2, <1>5, <3>1, <3>2, <3>4 DEF OneReads
    <3>6. QED
      BY <1>5, <1>6, <1>11, <3>1, <3>5 DEF RefusedOK
  <2>4. QED
    BY <2>2, <2>3
<1>12. CASE Grammar_ = "math"
  <2>1. "size" \in refused => m > SizeLimit[source]
    BY <1>1, <1>12 DEF RefusedOK
  <2>2. "buffer" \in refused => e + r > BufferLimit[source]
    BY <1>1, <1>12 DEF RefusedOK
  <2>3. CASE taken
    <3>1. refused' = refused /\ ~(n > SizeLimit[source]) /\ ~(e + size > BufferLimit[source])
      BY <1>3, <1>6, <1>7, <2>3
    <3>2. "size" \notin refused
      <4> HIDE DEF m, n
      <4>1. QED
        BY <1>9, <2>1, <3>1
    <3>3. "buffer" \in refused =>
              /\ phase' = "arrived"
              /\ Len(tree'.expression_string) + Len(rest') > BufferLimit[source]
      <4> SUFFICES ASSUME "buffer" \in refused
                   PROVE  /\ phase' = "arrived"
                          /\ Len(tree'.expression_string) + Len(rest') > BufferLimit[source]
        OBVIOUS
      <4>1. e + r > BufferLimit[source] /\ size # r
        <5> HIDE DEF e, r
        <5>1. QED
          BY <1>9, <2>2, <3>1
      <4>2. phase' = "arrived"
        BY <1>3, <1>12, <2>3, <4>1
      <4>3. tree'.expression_string = tree.expression_string \o SubSeq(rest, 1, size)
        BY <1>3, <1>7, <2>3 DEF Trees
      <4>4. SubSeq(rest, 1, size) \in Seq(Int) /\ Len(SubSeq(rest, 1, size)) = size
        BY <1>9
      <4>5. Len(tree'.expression_string) = e + size
        <5> DEFINE q == SubSeq(rest, 1, size)
        <5> HIDE DEF q
        <5>1. QED
          BY <1>9, <4>3, <4>4 DEF q
      <4>6. Len(rest') = r - size
        <5>1. rest' = SubSeq(rest, size + 1, Len(rest))
          BY <1>3, <2>3
        <5>2. size \in 0..Len(rest) /\ Ending(text, rest)
          BY <1>9 DEF TextOK
        <5>3. QED
          BY <5>1, <5>2, EndingTail
      <4>7. e + size + (r - size) = e + r
        <5> HIDE DEF e, r
        <5>1. QED
          BY <1>9
      <4>8. QED
        BY <4>1, <4>2, <4>5, <4>6, <4>7
    <3>4. QED
      BY <1>5, <1>10, <1>12, <3>1, <3>2, <3>3 DEF RefusedOK
  <2>4. CASE ~taken
    <3>1. /\ refused' = refused \cup over /\ phase' = "parsing" /\ rest' = rest
          /\ tree' = result.tree
      BY <1>1, <1>4, <2>4
    <3>2. "size" \in refused' => Len(tree'.memory) > SizeLimit[source]
      <4>1. "size" \in refused \/ "size" \in over => n > SizeLimit[source]
        <5> HIDE DEF m
        <5>1. QED
          BY <1>6, <1>9, <2>1
      <4>2. QED
        BY <3>1, <4>1
    <3>3. "buffer" \in refused' =>
              Len(tree'.expression_string) + Len(rest') > BufferLimit[source]
      <4>1. "buffer" \in over => e + size > BufferLimit[source]
        BY <1>6, <1>7
      <4>2. "buffer" \in refused \/ "buffer" \in over => e + r > BufferLimit[source]
        <5> HIDE DEF e, r
        <5>1. QED
          BY <1>9, <2>2, <4>1
      <4>3. QED
        BY <1>7, <3>1, <4>2
    <3>4. refused' \subseteq {"depth", "size", "buffer", "not_yet"} /\ "not_yet" \notin refused'
      BY <1>6, <1>10, <3>1 DEF RefusedOK
    <3>5. QED
      BY <1>5, <1>12, <3>1, <3>2, <3>3, <3>4 DEF RefusedOK
  <2>5. QED
    BY <2>3, <2>4
<1>13. QED
  BY <1>9, <1>11, <1>12

LEMMA RefusedArrives ==
    ASSUME TextOK, TreeOK, RefusedOK, NEW f \in Fragments[source], Arrives(f)
    PROVE  RefusedOK'
<1>1. f \in Seq(Int) /\ Len(f) \in Nat
  BY LimitAssumption DEF TextOK
<1>2. source' = source /\ Grammar_' = Grammar_ /\ tree' = tree /\ refused' = refused
  BY DEF Arrives, Grammar_
<1>3. CASE phase = "error"
  <2>1. phase' = "error"
    BY <1>3 DEF Arrives
  <2>2. QED
    BY <1>2, <2>1 DEF RefusedOK
<1>4. CASE phase # "error"
  <2>1. rest' = rest \o f /\ phase' = "arrived" /\ phase \in {"waiting", "arrived"}
    BY <1>4 DEF Arrives
  <2>2. Len(rest') >= Len(rest) /\ Len(rest') \in Nat
    <3>1. rest \in Seq(Int) /\ Len(rest) \in Nat
      BY OverTyped
    <3>2. Len(rest') = Len(rest) + Len(f)
      BY <1>1, <2>1, <3>1
    <3>3. QED
      BY <1>1, <3>1, <3>2
  <2>3. Grammar_ = "json" => refused = {}
    BY <2>1 DEF RefusedOK
  <2>4. "not_yet" \notin refused
    BY <2>1 DEF RefusedOK
  <2>5. Grammar_ = "math" /\ "size" \in refused => Len(tree.memory) > SizeLimit[source]
    BY <2>1 DEF RefusedOK
  <2>6. Grammar_ = "math" /\ "buffer" \in refused =>
            Len(tree.expression_string) + Len(rest') > BufferLimit[source]
    <3>1. Grammar_ = "math" /\ "buffer" \in refused =>
              Len(tree.expression_string) + Len(rest) > BufferLimit[source]
      BY <2>1 DEF RefusedOK
    <3> DEFINE e == Len(tree.expression_string)
               r == Len(rest)
               q == Len(rest')
    <3>2. e \in Nat /\ r \in Nat /\ q \in Nat /\ q >= r /\ BufferLimit[source] \in Nat
      BY <2>2, OverTyped
    <3> HIDE DEF e, r, q
    <3>3. e + r > BufferLimit[source] => e + q > BufferLimit[source]
      BY <3>2
    <3>4. QED
      BY <3>1, <3>3 DEF e, r, q
  <2>7. QED
    BY <1>2, <2>1, <2>3, <2>4, <2>5, <2>6 DEF RefusedOK
<1>5. QED
  BY <1>3, <1>4

LEMMA RefusedGiveUp ==
    ASSUME TextOK, TreeOK, RefusedOK, GiveUp
    PROVE  RefusedOK'
<1>1. phase = "parsing" /\ source' = source /\ Grammar_' = Grammar_
  BY DEF GiveUp, Grammar_
<1>2. CASE NotYet
  <2>1. phase' = "waiting" /\ refused' = refused
    BY <1>2 DEF GiveUp
  <2>2. Grammar_ = "json"
    <3>1. Len(rest) # 0 /\ Len(rest) \in Nat
      BY <1>1 DEF TextOK, Ending
    <3>2. mode # "full"
      BY <1>2, <3>1 DEF NotYet, Limit
    <3>3. QED
      BY <3>2, OverTyped DEF TextOK
  <2>3. refused = {}
    <3>1. refused # {} => OneReads
      BY <1>1, <2>2 DEF RefusedOK
    <3>2. QED
      BY <1>2, <3>1, NoneReads DEF NotYet
  <2>4. QED
    BY <1>1, <2>1, <2>2, <2>3 DEF RefusedOK
<1>3. CASE ~NotYet
  <2>1. phase' = "error" /\ refused' \in {refused, refused \cup {"not_yet"}}
    BY <1>3 DEF GiveUp
  <2>2. refused' \subseteq {"depth", "size", "buffer", "not_yet"}
    BY <2>1 DEF RefusedOK
  <2>3. QED
    BY <2>1, <2>2 DEF RefusedOK
<1>4. QED
  BY <1>2, <1>3

LEMMA RefusedStep ==
    ASSUME TextOK, TreeOK, RefusedOK, [ParserNext]_parserVars
    PROVE  RefusedOK'
<1>1. ASSUME NEW f \in Fragments[source], Arrives(f) PROVE RefusedOK'
  BY <1>1, RefusedArrives
<1>2. CASE Ends
  BY <1>2 DEF Ends, RefusedOK, Grammar_, OneReads, LexersOf
<1>3. CASE Call
  <2>1. phase = "arrived" /\ phase' = "parsing" /\ UNCHANGED <<source, rest, tree, refused>>
    BY <1>3 DEF Call
  <2>2. Grammar_' = Grammar_
    BY <2>1 DEF Grammar_
  <2>3. Grammar_ = "json" => refused = {}
    BY <2>1 DEF RefusedOK
  <2>4. QED
    BY <2>1, <2>2, <2>3 DEF RefusedOK
<1>4. CASE Try
  BY <1>4, RefusedTry
<1>5. CASE GiveUp
  BY <1>5, RefusedGiveUp
<1>6. CASE Return
  <2>1. phase = "waiting" /\ UNCHANGED <<source, rest, refused>>
    BY <1>6 DEF Return
  <2>2. Grammar_' = Grammar_
    BY <2>1 DEF Grammar_
  <2>3. /\ Grammar_ = "json" => refused = {}
        /\ Grammar_ = "math" => "size" \notin refused /\ "buffer" \notin refused
        /\ "not_yet" \notin refused
    BY <2>1 DEF RefusedOK
  <2>4. QED
    BY <2>1, <2>2, <2>3 DEF RefusedOK
<1>7. ASSUME NEW m \in {"again", "full"}, AtOneGo(m) PROVE RefusedOK'
  <2>1. refused' = {}
    BY <1>7 DEF AtOneGo
  <2>2. QED
    BY <2>1 DEF RefusedOK
<1>8. CASE UNCHANGED parserVars
  BY <1>8 DEF parserVars, RefusedOK, Grammar_, OneReads, LexersOf
<1>9. QED
  BY <1>1, <1>2, <1>3, <1>4, <1>5, <1>6, <1>7, <1>8 DEF ParserNext

(* A limit that has refused a token of a json text, or the nodes or the    *)
(* characters of a math text, has made an error of it: for all texts,      *)
(* pieces and limits.                                                      *)
THEOREM RefusalsAreErrors == ParserSpec => []RefusedIsAnError
<1>1. ParserInit => TextOK /\ TreeOK /\ RefusedOK
  <2>1. ParserInit => RefusedOK
    BY DEF ParserInit, RefusedOK
  <2>2. QED
    BY <2>1, InitOK
<1>2. TextOK /\ TreeOK /\ RefusedOK /\ [ParserNext]_parserVars => (TextOK /\ TreeOK /\ RefusedOK)'
  BY StepOK, RefusedStep
<1>3. TextOK /\ TreeOK /\ RefusedOK => RefusedIsAnError
  <2> SUFFICES ASSUME TextOK, TreeOK, RefusedOK PROVE RefusedIsAnError
    OBVIOUS
  <2>1. CASE Grammar_ = "json"
    BY <2>1 DEF RefusedOK, RefusedIsAnError
  <2>2. CASE Grammar_ = "math"
    <3> SUFFICES ASSUME refused \ {"depth"} # {} PROVE phase \in {"arrived", "parsing", "error"}
      BY <2>2 DEF RefusedIsAnError
    <3>1. PICK limit \in refused : limit # "depth"
      OBVIOUS
    <3>2. limit \in {"size", "buffer", "not_yet"}
      BY <3>1 DEF RefusedOK
    <3>3. QED
      BY <2>2, <3>1, <3>2 DEF RefusedOK
  <2>3. QED
    BY <2>1, <2>2, OverTyped
<1>4. QED
  BY <1>1, <1>2, <1>3, PTL DEF ParserSpec

-----------------------------------------------------------------------------
(* However the text is given: the trees on the way of a json text.  A      *)
(* parse in pieces leaves a trail of trees, one token or blank after the   *)
(* other; the parse of the whole text is shown to stay on it, and to stop  *)
(* where it stops.  Only white space is taken in other portions.           *)

\* What a lexer that reads n characters of r places, and what comes of it.
TokenOf(t, r, lexer, n) ==
    IF Reading(lexer, r) # {} THEN OperatorNode(CHOOSE o \in Reading(lexer, r) : TRUE)
    ELSE ValueNode(lexer, Len(t.expression_string), n)

GrownBy(t, r, lexer, n) ==
    parse_helper(t, TokenOf(t, r, lexer, n), PlaceAs(lexer, r), {})

Within(src, t, n) ==
    /\ Len(t.node_address) <= DepthLimit[src] /\ Len(t.memory) <= SizeLimit[src]
    /\ Len(t.expression_string) + n <= BufferLimit[src]

Suits(src, t, r, lexer, n) ==
    GrownBy(t, r, lexer, n).success /\ Within(src, GrownBy(t, r, lexer, n).tree, n)

After(t, r, lexer, n) ==
    [GrownBy(t, r, lexer, n).tree EXCEPT !.expression_string = @ \o SubSeq(r, 1, n)]

Reads(lexer, r) == Read(lexer, r).code = "success"

\* A blank is a step of its own, whatever white space it stands in.
Unit(lexer, r) == IF lexer = "discard" THEN 1 ELSE Read(lexer, r).size

Moves(src, t, r, u) ==
    r # <<>> /\ \E lexer \in JsonNames :
        /\ Reads(lexer, r) /\ Suits(src, t, r, lexer, Unit(lexer, r))
        /\ u = After(t, r, lexer, Unit(lexer, r))

Behind(t, s) == SubSeq(s, Len(t.expression_string) + 1, Len(s))

OnTrail(src, s, t) ==
    /\ Tied(t) /\ Whole(t) /\ Within(src, t, 0)
    /\ Len(t.expression_string) <= Len(s)

\* The trees from the empty one on, one token or blank after the other.
Trail(src, s, q, n) ==
    /\ n \in Nat \ {0} /\ q[1] = EmptyTree
    /\ \A i \in 1..n : OnTrail(src, s, q[i])
    /\ \A i \in 1..n : i < n => Moves(src, q[i], Behind(q[i], s), q[i + 1])

\* A lexer has to see more of r.
Waiting(r) == \E lexer \in JsonNames : Read(lexer, r).code = "attempt"

\* Nothing goes on from t.
Stuck(src, t, r) ==
    /\ r # <<>> /\ ~Waiting(r)
    /\ \A lexer \in JsonNames : Reads(lexer, r) => ~Suits(src, t, r, lexer, Read(lexer, r).size)

-----------------------------------------------------------------------------
(* The lexers read of a longer text what they read of its beginning.       *)

LEMMA Joined ==
    ASSUME NEW s \in Seq(Int), NEW f \in Seq(Int)
    PROVE  /\ s \o f \in Seq(Int) /\ Len(s \o f) = Len(s) + Len(f)
           /\ \A i \in 1..Len(s) : (s \o f)[i] = s[i] /\ i \in 1..Len(s \o f)
           /\ Len(s) \in Nat /\ Len(f) \in Nat /\ Len(s \o f) \in Nat
OBVIOUS

LEMMA JoinedSub ==
    ASSUME NEW s \in Seq(Int), NEW f \in Seq(Int), NEW n \in 1..Len(s)
    PROVE  SubSeq(s \o f, 1, n) = SubSeq(s, 1, n)
<1> DEFINE a == s \o f
           p == SubSeq(a, 1, n)
           q == SubSeq(s, 1, n)
<1>1. a \in Seq(Int) /\ Len(a) \in Nat /\ Len(s) \in Nat /\ Len(a) >= Len(s)
      /\ \A i \in 1..Len(s) : a[i] = s[i]
  BY Joined
<1> HIDE DEF a
<1>2. p = [i \in 1..n |-> a[i]]
  BY <1>1
<1>3. q = [i \in 1..n |-> s[i]]
  BY <1>1
<1>4. \A i \in 1..n : a[i] = s[i]
  BY <1>1
<1>5. QED
  BY <1>2, <1>3, <1>4 DEF a

\* The run over a longer text goes on from the run over its beginning.
LEMMA NumberRunsAgree ==
    ASSUME NEW s, NEW a, NEW n \in Nat, NEW m \in Nat, n <= m, \A i \in 1..n : a[i] = s[i],
           NEW f, NumberRun(s, n, f), NEW g, NumberRun(a, m, g)
    PROVE  g[n] = f[n]
<1> DEFINE N == {k \in 0..n : g[k] # f[k]}
<1>1. SUFFICES ASSUME N # {} PROVE FALSE
  OBVIOUS
<1>2. PICK k \in N : \A j \in N : k <= j
  <2>1. N \subseteq Nat
    OBVIOUS
  <2> HIDE DEF N
  <2>2. QED
    BY <1>1, <2>1, Least
<1>3. k \in 0..n /\ k \in 0..m /\ g[k] # f[k]
  BY <1>2
<1>4. /\ f[k] = IF k = 0 THEN NumberStart ELSE NumberStep(f[k - 1], s[k])
      /\ g[k] = IF k = 0 THEN NumberStart ELSE NumberStep(g[k - 1], a[k])
  BY <1>3 DEF NumberRun
<1>5. k # 0
  BY <1>3, <1>4
<1>6. k \in 1..n /\ k - 1 \in 0..n /\ k - 1 \notin N
  <2>1. k \in 1..n /\ k - 1 \in 0..n /\ ~ (k <= k - 1)
    BY <1>3, <1>5
  <2> HIDE DEF N
  <2>2. QED
    BY <1>2, <2>1
<1>7. g[k - 1] = f[k - 1] /\ a[k] = s[k]
  BY <1>6
<1>8. QED
  BY <1>3, <1>4, <1>5, <1>7

\* What has stopped stays.
LEMMA NumberRunStays ==
    ASSUME NEW a, NEW n \in Nat, NEW m \in Nat, n <= m, NEW g, NumberRun(a, m, g),
           g[n].stopped = TRUE
    PROVE  g[m] = g[n]
<1> DEFINE N == {k \in n..m : g[k] # g[n]}
<1>1. SUFFICES ASSUME N # {} PROVE FALSE
  OBVIOUS
<1>2. PICK k \in N : \A j \in N : k <= j
  <2>1. N \subseteq Nat
    OBVIOUS
  <2> HIDE DEF N
  <2>2. QED
    BY <1>1, <2>1, Least
<1>3. k \in n..m /\ k \in 0..m /\ g[k] # g[n]
  BY <1>2
<1>4. k # n
  BY <1>3
<1>5. k # 0 /\ k - 1 \in n..m /\ k - 1 \notin N
  <2>1. k # 0 /\ k - 1 \in n..m /\ ~ (k <= k - 1)
    BY <1>3, <1>4
  <2> HIDE DEF N
  <2>2. QED
    BY <1>2, <2>1
<1>6. g[k] = NumberStep(g[k - 1], a[k]) /\ g[k - 1] = g[n]
  BY <1>3, <1>5 DEF NumberRun
<1>7. NumberStep(g[n], a[k]) = g[n]
  BY DEF NumberStep
<1>8. QED
  BY <1>3, <1>6, <1>7

\* What a goes on from.
Begins(s, a) ==
    /\ Len(s) \in Nat /\ Len(a) \in Nat /\ Len(s) <= Len(a)
    /\ \A i \in 1..Len(s) : a[i] = s[i]

LEMMA NumberReadsOn ==
    ASSUME NEW s, NEW a, Begins(s, a), ReadNumber(s).code = "success"
    PROVE  ReadNumber(a) = ReadNumber(s)
<1> DEFINE n == Len(s)
           m == Len(a)
           run == CHOOSE g : NumberRun(s, n, g)
           on  == CHOOSE g : NumberRun(a, m, g)
<1>1. n \in Nat /\ m \in Nat /\ n <= m /\ \A i \in 1..n : a[i] = s[i]
  BY DEF Begins
<1>2. NumberRun(s, n, run) /\ NumberRun(a, m, on)
  BY <1>1, NumberRunExists
<1>3. ReadNumber(s) = IF run[n].number_end = 0 THEN Outcome(~run[n].stopped, 0)
                      ELSE Outcome(TRUE, IF ~TRUE \/ ~ ~run[n].stopped THEN run[n].number_end ELSE 0)
  BY DEF ReadNumber, CheckNumber, NumberRun
<1>4. ReadNumber(a) = IF on[m].number_end = 0 THEN Outcome(~on[m].stopped, 0)
                      ELSE Outcome(TRUE, IF ~TRUE \/ ~ ~on[m].stopped THEN on[m].number_end ELSE 0)
  BY DEF ReadNumber, CheckNumber, NumberRun
<1>5. NumberAt(run[n], n)
  BY <1>1, <1>2, NumberRunIs
<1> HIDE DEF n, m, run, on
<1>6. on[n] = run[n]
  BY <1>1, <1>2, NumberRunsAgree
<1>7. run[n].stopped = TRUE
  <2>1. run[n].number_end = 0 => Outcome(~run[n].stopped, 0).code # "success"
    BY OutcomeIs
  <2>2. Outcome(TRUE, 0).code # "success"
    BY OutcomeIs
  <2>3. run[n].stopped \in BOOLEAN
    BY <1>5 DEF NumberAt
  <2>4. QED
    BY <1>3, <2>1, <2>2, <2>3
<1>8. on[m] = run[n]
  BY <1>1, <1>2, <1>6, <1>7, NumberRunStays
<1>9. QED
  BY <1>3, <1>4, <1>8

LEMMA StringRunsAgree ==
    ASSUME NEW s, NEW a, NEW n \in Nat, NEW m \in Nat, n <= m, \A i \in 1..n : a[i] = s[i],
           NEW f, StringRun(s, n, f), NEW g, StringRun(a, m, g)
    PROVE  g[n] = f[n]
<1> DEFINE N == {k \in 0..n : g[k] # f[k]}
<1>1. SUFFICES ASSUME N # {} PROVE FALSE
  OBVIOUS
<1>2. PICK k \in N : \A j \in N : k <= j
  <2>1. N \subseteq Nat
    OBVIOUS
  <2> HIDE DEF N
  <2>2. QED
    BY <1>1, <2>1, Least
<1>3. k \in 0..n /\ k \in 0..m /\ g[k] # f[k]
  BY <1>2
<1>4. /\ f[k] = IF k = 0 THEN StringStart ELSE StringStep(f[k - 1], s[k])
      /\ g[k] = IF k = 0 THEN StringStart ELSE StringStep(g[k - 1], a[k])
  BY <1>3 DEF StringRun
<1>5. k # 0
  BY <1>3, <1>4
<1>6. k \in 1..n /\ k - 1 \in 0..n /\ k - 1 \notin N
  <2>1. k \in 1..n /\ k - 1 \in 0..n /\ ~ (k <= k - 1)
    BY <1>3, <1>5
  <2> HIDE DEF N
  <2>2. QED
    BY <1>2, <2>1
<1>7. g[k - 1] = f[k - 1] /\ a[k] = s[k]
  BY <1>6
<1>8. QED
  BY <1>3, <1>4, <1>5, <1>7

LEMMA StringRunStays ==
    ASSUME NEW a, NEW n \in Nat, NEW m \in Nat, n <= m, NEW g, StringRun(a, m, g),
           g[n].at = "closed"
    PROVE  g[m] = g[n]
<1> DEFINE N == {k \in n..m : g[k] # g[n]}
<1>1. SUFFICES ASSUME N # {} PROVE FALSE
  OBVIOUS
<1>2. PICK k \in N : \A j \in N : k <= j
  <2>1. N \subseteq Nat
    OBVIOUS
  <2> HIDE DEF N
  <2>2. QED
    BY <1>1, <2>1, Least
<1>3. k \in n..m /\ k \in 0..m /\ g[k] # g[n]
  BY <1>2
<1>4. k # n
  BY <1>3
<1>5. k # 0 /\ k - 1 \in n..m /\ k - 1 \notin N
  <2>1. k # 0 /\ k - 1 \in n..m /\ ~ (k <= k - 1)
    BY <1>3, <1>4
  <2> HIDE DEF N
  <2>2. QED
    BY <1>2, <2>1
<1>6. g[k] = StringStep(g[k - 1], a[k]) /\ g[k - 1] = g[n]
  BY <1>3, <1>5 DEF StringRun
<1>7. StringStep(g[n], a[k]) = g[n]
  BY DEF StringStep
<1>8. QED
  BY <1>3, <1>6, <1>7

LEMMA StringReadsOn ==
    ASSUME NEW s, NEW a, Begins(s, a), ReadString(s).code = "success"
    PROVE  ReadString(a) = ReadString(s)
<1> DEFINE n == Len(s)
           m == Len(a)
           run == CHOOSE g : StringRun(s, n, g)
           on  == CHOOSE g : StringRun(a, m, g)
<1>1. n \in Nat /\ m \in Nat /\ n <= m /\ \A i \in 1..n : a[i] = s[i]
  BY DEF Begins
<1>2. StringRun(s, n, run) /\ StringRun(a, m, on)
  BY <1>1, StringRunExists
<1>3. ReadString(s) = Outcome(run[n].at # "bad", IF run[n].at = "closed" THEN run[n].size ELSE 0)
  BY DEF ReadString, StringRun
<1>4. ReadString(a) = Outcome(on[m].at # "bad", IF on[m].at = "closed" THEN on[m].size ELSE 0)
  BY DEF ReadString, StringRun
<1> HIDE DEF n, m, run, on
<1>5. on[n] = run[n]
  BY <1>1, <1>2, StringRunsAgree
<1>6. run[n].at = "closed"
  <2>1. \A p : Outcome(p, 0).code # "success"
    BY OutcomeIs
  <2>2. QED
    BY <1>3, <2>1
<1>7. on[m] = run[n]
  BY <1>1, <1>2, <1>5, <1>6, StringRunStays
<1>8. QED
  BY <1>3, <1>4, <1>7

LEMMA PrefixIs ==
    ASSUME NEW s, Len(s) \in Nat, NEW w, Len(w) \in Nat
    PROVE  IsPrefix(w, s) <=> Len(w) <= Len(s) /\ \A i \in 1..Len(w) : s[i] = w[i]
<1>1. Len(w) \in Nat /\ Len(s) \in Nat
  OBVIOUS
<1>2. ASSUME Len(w) <= Len(s)
      PROVE  SubSeq(w, 1, Len(w)) = SubSeq(s, 1, Len(w)) <=> \A i \in 1..Len(w) : s[i] = w[i]
  <2>1. SubSeq(w, 1, Len(w)) = [i \in 1..Len(w) |-> w[i]]
    BY <1>1
  <2>2. SubSeq(s, 1, Len(w)) = [i \in 1..Len(w) |-> s[i]]
    BY <1>1, <1>2
  <2>3. QED
    BY <2>1, <2>2
<1>3. QED
  BY <1>1, <1>2 DEF IsPrefix

LEMMA CheckReadsOn ==
    ASSUME NEW s, NEW a, Begins(s, a), NEW w, Len(w) \in Nat,
           Check(s, w).code = "success"
    PROVE  Check(a, w) = Check(s, w)
<1>1. IsPrefix(w, s)
  <2>1. Outcome(IsPrefix(s, w), 0).code # "success"
    BY OutcomeIs
  <2>2. QED
    BY <2>1 DEF Check
<1>2. Len(s) \in Nat /\ Len(a) \in Nat
  BY DEF Begins
<1>6. Len(w) <= Len(s) /\ \A i \in 1..Len(w) : s[i] = w[i]
  BY <1>1, <1>2, PrefixIs
<1>3. Len(w) <= Len(a) /\ \A i \in 1..Len(w) : a[i] = w[i]
  <2>1. \A i \in 1..Len(w) : i \in 1..Len(s)
    BY <1>2, <1>6
  <2>2. QED
    BY <1>2, <1>6, <2>1 DEF Begins
<1>4. IsPrefix(w, a)
  BY <1>2, <1>3, PrefixIs
<1>5. QED
  BY <1>1, <1>4 DEF Check

LEMMA TrueStarts ==
    ASSUME NEW s \in Seq(Int), s # <<>>,
           Check(s, Spelled(<<"t", "r", "u", "e">>)).code # "error"
    PROVE  s[1] = 116
<1>1. Len(<<"t", "r", "u", "e">>) = 4 /\ <<"t", "r", "u", "e">>[1] = "t"
  OBVIOUS
<1>2. Ch["t"] = 116
  BY Zenon DEF Ch, Characters
<1>3. QED
  BY <1>1, <1>2, CheckStarts

LEMMA WordsReadOn ==
    ASSUME NEW s \in Seq(Int), s # <<>>, NEW a \in Seq(Int), Begins(s, a)
    PROVE  /\ ReadBool(s).code = "success" => ReadBool(a) = ReadBool(s)
           /\ ReadNull(s).code = "success" => ReadNull(a) = ReadNull(s)
<1> DEFINE t == Spelled(<<"t", "r", "u", "e">>)
           f == Spelled(<<"f", "a", "l", "s", "e">>)
           u == Spelled(<<"n", "u", "l", "l">>)
<1>1. Len(t) = 4
  BY DEF Spelled
<1>2. Len(f) = 5
  BY DEF Spelled
<1>3. Len(u) = 4
  BY DEF Spelled
<1>4. a # <<>> /\ a[1] = s[1]
  <2>1. Len(s) \in Nat /\ Len(s) # 0 /\ Len(a) \in Nat /\ Len(a) >= Len(s)
    BY DEF Begins
  <2>2. QED
    BY <2>1 DEF Begins
<1>5. Check(s, u).code = "success" => Check(a, u) = Check(s, u)
  BY <1>3, CheckReadsOn
<1>6. Check(s, t).code = "success" => Check(a, t) = Check(s, t)
  BY <1>1, CheckReadsOn
<1>7. Check(s, f).code = "success" => Check(a, f) = Check(s, f)
  BY <1>2, CheckReadsOn
<1>8. \A b \in Seq(Int) : b # <<>> /\ Check(b, t).code # "error" => b[1] = 116
  BY TrueStarts
<1>9. Check(s, f).code # "error" => s[1] = 102
  <2>1. Ch["f"] = 102
    BY Zenon DEF Ch, Characters
  <2>2. Len(<<"f", "a", "l", "s", "e">>) = 5 /\ <<"f", "a", "l", "s", "e">>[1] = "f"
    OBVIOUS
  <2>3. QED
    BY <2>1, <2>2, CheckStarts
<1>10. \A b : Check(b, t) = Error \/ Check(b, t).code # "error"
  <2>1. \A p, n : Outcome(p, n) = Error \/ Outcome(p, n).code # "error"
    BY DEF Outcome, Attempt, Success
  <2>2. \A n : Success(n).code # "error"
    BY DEF Success
  <2>3. QED
    BY <2>1, <2>2 DEF Check
<1>11. Error.code = "error"
  BY DEF Error
<1>12. ReadBool(s) = (IF Check(s, t) # Error THEN Check(s, t) ELSE Check(s, f))
       /\ ReadBool(a) = (IF Check(a, t) # Error THEN Check(a, t) ELSE Check(a, f))
  BY DEF ReadBool
<1>13. ReadNull(s) = Check(s, u) /\ ReadNull(a) = Check(a, u)
  BY DEF ReadNull
<1> HIDE DEF t, f, u
<1>14. ASSUME ReadBool(s).code = "success" PROVE ReadBool(a) = ReadBool(s)
  <2>1. CASE Check(s, t) # Error
    <3>1. Check(s, t).code = "success"
      BY <1>12, <1>14, <2>1
    <3>2. QED
      BY <1>6, <1>12, <2>1, <3>1
  <2>2. CASE Check(s, t) = Error
    <3>1. Check(s, f).code = "success" /\ ReadBool(s) = Check(s, f)
      BY <1>12, <1>14, <2>2
    <3>2. s[1] = 102
      BY <1>9, <3>1
    <3>3. Check(a, t) = Error
      BY <1>4, <1>8, <1>10, <3>2
    <3>4. QED
      BY <1>7, <1>12, <3>1, <3>3
  <2>3. QED
    BY <2>1, <2>2
<1>15. QED
  BY <1>5, <1>13, <1>14

\* The white space that r begins with, as far as it goes.
LEMMA BlanksAre ==
    ASSUME NEW r, Len(r) \in Nat
    PROVE  /\ Reads("discard", r) <=> Len(r) # 0 /\ r[1] \in standard_white_space_set
           /\ Reads("discard", r) =>
                 LET n == Read("discard", r).size IN
                 /\ n \in 1..Len(r) /\ \A i \in 1..n : r[i] \in standard_white_space_set
                 /\ n < Len(r) => r[n + 1] \notin standard_white_space_set
<1> DEFINE blank == {n \in 1..Len(r) : \A i \in 1..n : r[i] \in standard_white_space_set}
<1>1. Read("discard", r) = Outcome(blank # {}, Cardinality(blank))
  BY DEF Read, ReadWhiteSpace
<1>2. blank = {} => ~Reads("discard", r)
  <2>1. Outcome(FALSE, Cardinality(blank)).code # "success"
    BY OutcomeIs
  <2> HIDE DEF blank
  <2>2. QED
    BY <1>1, <2>1 DEF Reads
<1>3. blank # {} <=> Len(r) # 0 /\ r[1] \in standard_white_space_set
  <2>1. ASSUME Len(r) # 0, r[1] \in standard_white_space_set PROVE 1 \in blank
    BY <2>1
  <2>2. ASSUME NEW n \in blank PROVE Len(r) # 0 /\ r[1] \in standard_white_space_set
    <3>1. 1 \in 1..n /\ n \in 1..Len(r)
      OBVIOUS
    <3>2. QED
      BY <3>1
  <2>3. QED
    BY <2>1, <2>2
<1>4. ASSUME blank # {}
      PROVE  \E n \in 1..Len(r) :
                 /\ blank = 1..n /\ \A i \in 1..n : r[i] \in standard_white_space_set
                 /\ n < Len(r) => r[n + 1] \notin standard_white_space_set
  <2>1. PICK n \in blank : \A k \in blank : k <= n
    <3>1. blank \subseteq 0..Len(r)
      OBVIOUS
    <3> HIDE DEF blank
    <3>2. QED
      BY <1>4, <3>1, MaxIs
  <2>2. n \in 1..Len(r) /\ \A i \in 1..n : r[i] \in standard_white_space_set
    OBVIOUS
  <2>3. ASSUME n < Len(r), r[n + 1] \in standard_white_space_set PROVE FALSE
    <3>1. n + 1 \in 1..Len(r) /\ \A i \in 1..(n + 1) : i \in 1..n \/ i = n + 1
      BY <2>2, <2>3
    <3>2. n + 1 \in blank
      BY <2>2, <2>3, <3>1
    <3> HIDE DEF blank
    <3>3. n + 1 <= n
      BY <2>1, <3>2
    <3>4. QED
      BY <2>2, <3>3
  <2>4. blank = 1..n
    <3>1. ASSUME NEW k \in 1..n PROVE k \in blank
      <4>1. k \in 1..Len(r) /\ \A i \in 1..k : i \in 1..n
        BY <2>2
      <4>2. QED
        BY <2>2, <4>1
    <3>2. ASSUME NEW k \in blank PROVE k \in 1..n
      <4>1. k \in 1..Len(r) /\ k <= n
        BY <2>1
      <4>2. QED
        BY <4>1
    <3> HIDE DEF blank
    <3>3. QED
      BY <3>1, <3>2
  <2>5. QED
    BY <2>2, <2>3, <2>4
<1> HIDE DEF blank
<1>5. ASSUME blank # {}
      PROVE  /\ Reads("discard", r)
             /\ LET n == Read("discard", r).size IN
                /\ n \in 1..Len(r) /\ \A i \in 1..n : r[i] \in standard_white_space_set
                /\ n < Len(r) => r[n + 1] \notin standard_white_space_set
  <2>1. PICK n \in 1..Len(r) :
                 /\ blank = 1..n /\ \A i \in 1..n : r[i] \in standard_white_space_set
                 /\ n < Len(r) => r[n + 1] \notin standard_white_space_set
    BY <1>4, <1>5
  <2>2. Cardinality(1..n) = n
    BY FS_Interval, SMTT(30)
  <2>3. Read("discard", r) = Success(n)
    <3>1. n # 0 /\ Cardinality(blank) = n
      BY <2>1, <2>2
    <3>2. QED
      BY <1>1, <1>5, <3>1 DEF Outcome
  <2>4. Success(n).code = "success" /\ Success(n).size = n
    BY DEF Success
  <2>5. QED
    BY <2>1, <2>3, <2>4 DEF Reads
<1>6. QED
  BY <1>2, <1>3, <1>5

LEMMA HeadKept ==
    ASSUME NEW s, NEW a, Begins(s, a), Len(s) # 0
    PROVE  a[1] = s[1]
<1>1. 1 \in 1..Len(s)
  BY DEF Begins
<1>2. QED
  BY <1>1 DEF Begins

LEMMA ReadsOn ==
    ASSUME NEW s \in Seq(Int), s # <<>>, NEW a \in Seq(Int), Begins(s, a),
           NEW lexer \in JsonNames, Reads(lexer, s)
    PROVE  Reads(lexer, a) /\ Unit(lexer, a) = Unit(lexer, s)
<1>1. a[1] = s[1] /\ Len(s) # 0 /\ Len(a) # 0 /\ Len(s) \in Nat /\ Len(a) \in Nat
  <2>1. Len(s) \in Nat /\ Len(s) # 0 /\ Len(a) \in Nat /\ Len(a) >= Len(s)
    BY DEF Begins
  <2>2. QED
    BY <2>1, HeadKept
<1>2. CASE lexer = "discard"
  <2>1. Reads("discard", a)
    BY <1>1, <1>2, BlanksAre
  <2>2. QED
    BY <1>2, <2>1 DEF Unit
<1>3. CASE lexer = "value_number"
  <2>1. Read(lexer, s) = ReadNumber(s) /\ Read(lexer, a) = ReadNumber(a)
    BY <1>3 DEF Read
  <2>2. Read(lexer, a) = Read(lexer, s)
    BY <2>1, NumberReadsOn DEF Reads
  <2>3. QED
    BY <2>2 DEF Reads, Unit
<1>4. CASE lexer = "value_string"
  <2>1. Read(lexer, s) = ReadString(s) /\ Read(lexer, a) = ReadString(a)
    BY <1>4 DEF Read
  <2>2. Read(lexer, a) = Read(lexer, s)
    BY <2>1, StringReadsOn DEF Reads
  <2>3. QED
    BY <2>2 DEF Reads, Unit
<1>5. CASE lexer = "value_bool"
  <2>1. Read(lexer, s) = ReadBool(s) /\ Read(lexer, a) = ReadBool(a)
    BY <1>5 DEF Read
  <2>2. Read(lexer, a) = Read(lexer, s)
    BY <2>1, WordsReadOn DEF Reads
  <2>3. QED
    BY <2>2 DEF Reads, Unit
<1>6. CASE lexer = "value_null"
  <2>1. Read(lexer, s) = ReadNull(s) /\ Read(lexer, a) = ReadNull(a)
    BY <1>6 DEF Read
  <2>2. Read(lexer, a) = Read(lexer, s)
    BY <2>1, WordsReadOn DEF Reads
  <2>3. QED
    BY <2>2 DEF Reads, Unit
<1>7. CASE lexer \in {"operator_comma", "scope_brace", "scope_bracket", "operator_colon"}
  <2>1. Read(lexer, s) = ReadOperator(lexer, s) /\ Read(lexer, a) = ReadOperator(lexer, a)
    BY <1>7 DEF Read
  <2>2. Reading(lexer, a) = Reading(lexer, s)
    BY <1>1 DEF Reading
  <2>3. Read(lexer, a) = Read(lexer, s)
    BY <2>1, <2>2 DEF ReadOperator
  <2>4. QED
    BY <2>3 DEF Reads, Unit
<1>8. QED
  BY <1>2, <1>3, <1>4, <1>5, <1>6, <1>7 DEF JsonNames

(* What is read of r is placed the same whatever follows it.               *)
LEMMA PlacedOn ==
    ASSUME NEW src, NEW t, NEW r, NEW a, Len(r) # 0, Begins(r, a), NEW lexer, NEW n \in 1..Len(r),
           SubSeq(a, 1, n) = SubSeq(r, 1, n)
    PROVE  /\ GrownBy(t, a, lexer, n) = GrownBy(t, r, lexer, n)
           /\ Suits(src, t, a, lexer, n) <=> Suits(src, t, r, lexer, n)
           /\ After(t, a, lexer, n) = After(t, r, lexer, n)
<1>1. Reading(lexer, a) = Reading(lexer, r)
  BY HeadKept DEF Reading
<1>2. TokenOf(t, a, lexer, n) = TokenOf(t, r, lexer, n) /\ PlaceAs(lexer, a) = PlaceAs(lexer, r)
  BY <1>1 DEF TokenOf, PlaceAs
<1>3. GrownBy(t, a, lexer, n) = GrownBy(t, r, lexer, n)
  BY <1>2 DEF GrownBy
<1>4. QED
  BY <1>3 DEF Suits, After

(* Without a default operator, what is not placed leaves the tree alone.   *)
LEMMA HelperFails ==
    ASSUME NEW t, NEW node, NEW place
    PROVE  LET result == parse_helper(t, node, place, {}) IN
           /\ result.success = FALSE => result.tree = t
           /\ place = "discard" => result.success /\ result.tree = t
<1> DEFINE act    == IF place = "operator" THEN {node} ELSE {OperatorNode(o) : o \in {}}
           i      == Current(t, act)
           placed == IF act = {} THEN [success |-> FALSE, tree |-> t]
                     ELSE PlaceOperator(t, i, CHOOSE m \in act : TRUE)
           first  == [t EXCEPT !.node_address = <<1>>, !.memory = Append(@, node)]
<1>1. parse_helper(t, node, place, {}) =
          IF place = "discard" THEN [success |-> TRUE, tree |-> t]
          ELSE IF t.node_address = <<>>
          THEN IF place = "operator" THEN [success |-> FALSE, tree |-> t]
               ELSE [success |-> TRUE, tree |-> first]
          ELSE IF place = "operator" THEN placed ELSE PlaceValue(placed, i, node)
  BY DEF parse_helper
<1> HIDE DEF i, first
<1>2. placed.success = FALSE => placed.tree = t
  <2>1. \A o : PlaceOperator(t, i, o).success = FALSE => PlaceOperator(t, i, o).tree = t
    BY DEF PlaceOperator
  <2>2. QED
    BY <2>1
<1> HIDE DEF placed
<1>3. PlaceValue(placed, i, node).success = FALSE => PlaceValue(placed, i, node).tree = t
  BY <1>2 DEF PlaceValue
<1> HIDE DEF act
<1> DEFINE result == parse_helper(t, node, place, {})
<1> HIDE DEF result
<1>4. CASE place = "discard"
  <2>1. result = [success |-> TRUE, tree |-> t]
    BY <1>1, <1>4 DEF result
  <2>2. QED
    BY <1>4, <2>1 DEF result
<1>5. CASE place # "discard" /\ t.node_address = <<>>
  <2>1. result = [success |-> FALSE, tree |-> t] \/ result = [success |-> TRUE, tree |-> first]
    BY <1>1, <1>5 DEF result
  <2>2. QED
    BY <1>5, <2>1 DEF result
<1>6. CASE place # "discard" /\ t.node_address # <<>>
  <2>1. result = placed \/ result = PlaceValue(placed, i, node)
    BY <1>1, <1>6 DEF result
  <2>2. QED
    BY <1>2, <1>3, <1>6, <2>1 DEF result
<1>7. QED
  BY <1>4, <1>5, <1>6

-----------------------------------------------------------------------------
(* Trails.                                                                 *)

LEMMA BehindIs ==
    ASSUME NEW s \in Seq(Int), NEW t, Tied(t), Len(t.expression_string) <= Len(s)
    PROVE  /\ Ending(s, Behind(t, s)) /\ Behind(t, s) \in Seq(Int)
           /\ Len(Behind(t, s)) = Len(s) - Len(t.expression_string)
           /\ Len(t.expression_string) \in Nat /\ Len(s) \in Nat /\ Len(Behind(t, s)) \in Nat
<1>1. t.expression_string \in Seq(Int)
  BY DEF Tied, Trees
<1>2. Len(t.expression_string) \in Nat /\ Len(s) \in Nat
  BY <1>1
<1>3. Ending(s, s)
  BY <1>2 DEF Ending
<1>4. Len(t.expression_string) \in 0..Len(s)
  BY <1>2
<1>5. Ending(s, Behind(t, s)) /\ Len(Behind(t, s)) = Len(s) - Len(t.expression_string)
  BY <1>3, <1>4, EndingTail DEF Behind
<1> DEFINE r == Behind(t, s)
<1> HIDE DEF r
<1>6. Ending(s, r) /\ Len(r) = Len(s) - Len(t.expression_string)
  BY <1>5 DEF r
<1>7. r \in Seq(Int) /\ Len(r) \in Nat
  <2>1. r \in Seq(Int)
    BY <1>6 DEF Ending
  <2>2. QED
    BY <2>1
<1>8. QED
  BY <1>2, <1>6, <1>7 DEF r

LEMMA BehindAt ==
    ASSUME NEW s, NEW r, Ending(s, r), NEW t, Tied(t),
           Len(t.expression_string) + Len(r) = Len(s)
    PROVE  r = Behind(t, s)
<1>1. /\ Len(t.expression_string) \in Nat /\ Len(r) \in Nat /\ Len(s) \in Nat
  BY DEF Tied, Trees, Ending
<1>2. Len(s) - Len(r) + 1 = Len(t.expression_string) + 1
  <2> DEFINE e == Len(t.expression_string)
             m == Len(r)
             n == Len(s)
  <2>1. e \in Nat /\ m \in Nat /\ n \in Nat /\ e + m = n
    BY <1>1
  <2> HIDE DEF e, m, n
  <2>2. n - m + 1 = e + 1
    BY <2>1
  <2>3. QED
    BY <2>2 DEF e, m, n
<1>3. QED
  BY <1>2, EndingSub DEF Behind

LEMMA TokenOfIs ==
    ASSUME NEW t, Tied(t), NEW r, NEW lexer \in JsonNames, NEW n \in Nat
    PROVE  Fresh(TokenOf(t, r, lexer, n))
<1>1. lexer \in Names
  BY DEF JsonNames, Names
<1>2. CASE Reading(lexer, r) # {}
  <2>1. PICK o \in Reading(lexer, r) : TokenOf(t, r, lexer, n) = OperatorNode(o)
    BY <1>2 DEF TokenOf
  <2>2. o \in Operators
    BY DEF Reading
  <2>3. QED
    BY <2>1, <2>2, OperatorNodeIs
<1>3. CASE Reading(lexer, r) = {}
  <2>1. Len(t.expression_string) \in Nat
    BY DEF Tied, Trees
  <2>2. QED
    BY <1>1, <1>3, <2>1, ValueNodeIs DEF TokenOf
<1>4. QED
  BY <1>2, <1>3

LEMMA GrownIsKept ==
    ASSUME NEW t, Tied(t), Whole(t), NEW r, NEW lexer \in JsonNames, NEW n \in Nat
    PROVE  LET result == GrownBy(t, r, lexer, n) IN
           result.success \in BOOLEAN /\ Kept(t, result.tree)
<1>1. Fresh(TokenOf(t, r, lexer, n))
  BY TokenOfIs
<1>2. \A o \in {} : Fresh(OperatorNode(o))
  OBVIOUS
<1>3. QED
  BY <1>1, <1>2, HelperIs DEF GrownBy

\* A token that fits leads to a tree within the limits.
LEMMA AfterIs ==
    ASSUME NEW src \in Sources, NEW t, Tied(t), Whole(t), NEW r \in Seq(Int),
           NEW lexer \in JsonNames, NEW n \in 1..Len(r), Suits(src, t, r, lexer, n)
    PROVE  LET u == After(t, r, lexer, n) IN
           /\ Tied(u) /\ Whole(u) /\ Within(src, u, 0)
           /\ Len(u.expression_string) = Len(t.expression_string) + n
           /\ Len(t.expression_string) \in Nat
<1> DEFINE g == GrownBy(t, r, lexer, n).tree
           e == t.expression_string \o SubSeq(r, 1, n)
           u == [g EXCEPT !.expression_string = e]
<1>1. Kept(t, g)
  BY GrownIsKept
<1>2. Within(src, g, n)
  BY DEF Suits
<1> HIDE DEF g
<1>3. g.expression_string = t.expression_string /\ Tied(g) /\ Whole(g) /\ g \in Trees
      /\ t.expression_string \in Seq(Int)
  BY <1>1 DEF Kept, Tied, Trees
<1>4. e \in Seq(Int) /\ Len(e) = Len(t.expression_string) + n
  <2> DEFINE p == SubSeq(r, 1, n)
  <2>1. p \in Seq(Int) /\ Len(p) = n
    OBVIOUS
  <2> HIDE DEF p
  <2>2. t.expression_string \o p \in Seq(Int)
        /\ Len(t.expression_string \o p) = Len(t.expression_string) + n
    BY <1>3, <2>1, Joined
  <2>3. QED
    BY <2>2 DEF p
<1> HIDE DEF e
<1>5. /\ Tied(u) /\ Whole(u) /\ u.expression_string = e
      /\ Len(u.memory) = Len(g.memory) /\ u.node_address = g.node_address
  BY <1>3, <1>4, TextIs
<1>6. Len(t.expression_string) \in Nat
  BY <1>3
<1>7. After(t, r, lexer, n) = u
  <2>1. After(t, r, lexer, n) = [g EXCEPT !.expression_string = @ \o SubSeq(r, 1, n)]
    BY DEF After, g
  <2>2. QED
    BY <2>1, <1>3 DEF e
<1> HIDE DEF u
<1>8. Within(src, u, 0)
  <2>1. Len(g.expression_string) + n <= BufferLimit[src]
    BY <1>2 DEF Within
  <2>2. Len(u.expression_string) = Len(g.expression_string) + n
        /\ Len(g.expression_string) \in Nat
    BY <1>3, <1>4, <1>5, <1>6
  <2>3. Len(u.expression_string) + 0 <= BufferLimit[src]
    BY <2>1, <2>2
  <2>4. QED
    BY <1>2, <1>5, <2>3 DEF Within
<1>9. QED
  BY <1>4, <1>5, <1>6, <1>7, <1>8

LEMMA UnitIs ==
    ASSUME NEW r \in Seq(Int), Len(r) # 0, NEW lexer, Reads(lexer, r)
    PROVE  Unit(lexer, r) \in 1..Len(r) /\ Read(lexer, r).size \in 1..Len(r)
<1>1. Len(r) \in Nat
  OBVIOUS
<1>2. Read(lexer, r).size \in 1..Len(r)
  BY <1>1, ReadIs DEF Reads
<1>3. 1 \in 1..Len(r)
  BY <1>1
<1>4. QED
  BY <1>2, <1>3 DEF Unit

LEMMA MovesOn ==
    ASSUME NEW src, NEW t, NEW u, NEW r \in Seq(Int), NEW f \in Seq(Int),
           Moves(src, t, r, u)
    PROVE  Moves(src, t, r \o f, u)
<1> DEFINE a == r \o f
<1>1. PICK lexer \in JsonNames :
        /\ Reads(lexer, r) /\ Suits(src, t, r, lexer, Unit(lexer, r))
        /\ u = After(t, r, lexer, Unit(lexer, r))
  BY DEF Moves
<1>2. a \in Seq(Int) /\ Begins(r, a) /\ Len(r) # 0 /\ r # <<>> /\ a # <<>>
  <2>1. r # <<>> /\ Len(r) # 0
    BY DEF Moves
  <2>2. a \in Seq(Int) /\ Begins(r, a)
    BY Joined DEF Begins
  <2>3. Len(a) # 0
    BY <2>1, Joined
  <2>4. QED
    BY <2>1, <2>2, <2>3
<1>3. Unit(lexer, r) \in 1..Len(r)
  BY <1>1, <1>2, UnitIs
<1>4. SubSeq(a, 1, Unit(lexer, r)) = SubSeq(r, 1, Unit(lexer, r))
  BY <1>3, JoinedSub
<1> HIDE DEF a
<1>5. Reads(lexer, a) /\ Unit(lexer, a) = Unit(lexer, r)
  BY <1>1, <1>2, ReadsOn
<1>6. Suits(src, t, a, lexer, Unit(lexer, r))
      /\ After(t, a, lexer, Unit(lexer, r)) = After(t, r, lexer, Unit(lexer, r))
  BY <1>1, <1>2, <1>3, <1>4, PlacedOn
<1>7. QED
  BY <1>1, <1>2, <1>5, <1>6 DEF Moves, a

LEMMA TrailAt ==
    ASSUME NEW src, NEW s \in Seq(Int), NEW q, NEW n, Trail(src, s, q, n), NEW k \in 1..n
    PROVE  /\ OnTrail(src, s, q[k]) /\ Tied(q[k]) /\ Whole(q[k])
           /\ Ending(s, Behind(q[k], s)) /\ Behind(q[k], s) \in Seq(Int)
           /\ Len(Behind(q[k], s)) = Len(s) - Len(q[k].expression_string)
           /\ Len(q[k].expression_string) \in Nat /\ Len(s) \in Nat
           /\ Len(Behind(q[k], s)) \in Nat
<1>1. OnTrail(src, s, q[k])
  BY DEF Trail
<1>2. QED
  BY <1>1, BehindIs DEF OnTrail

\* Somebody who moves reads something.
LEMMA MovesReads ==
    ASSUME NEW src, NEW t, NEW u, NEW r \in Seq(Int), Moves(src, t, r, u)
    PROVE  r # <<>> /\ \E lexer \in JsonNames :
               /\ lexer = Owner(r[1]) /\ Reads(lexer, r) /\ Suits(src, t, r, lexer, Unit(lexer, r))
               /\ u = After(t, r, lexer, Unit(lexer, r)) /\ ~Waiting(r)
               /\ \A other \in JsonNames : Reads(other, r) => other = lexer
<1>1. PICK lexer \in JsonNames :
        /\ Reads(lexer, r) /\ Suits(src, t, r, lexer, Unit(lexer, r))
        /\ u = After(t, r, lexer, Unit(lexer, r))
  BY DEF Moves
<1>6. r # <<>>
  BY DEF Moves
<1>2. lexer = Owner(r[1])
  BY <1>1, <1>6, OneOwner DEF Reads
<1>3. \A other \in JsonNames : Read(other, r).code # "error" => other = lexer
  BY <1>2, <1>6, OneOwner
<1>4. ~Waiting(r)
  BY <1>1, <1>3 DEF Waiting, Reads
<1>5. QED
  BY <1>1, <1>2, <1>3, <1>4, <1>6 DEF Reads

LEMMA WaitingReadsNot ==
    ASSUME NEW r \in Seq(Int), r # <<>>, Waiting(r), NEW lexer \in JsonNames
    PROVE  ~Reads(lexer, r)
<1>1. PICK other \in JsonNames : Read(other, r).code = "attempt"
  BY DEF Waiting
<1>2. other = Owner(r[1])
  BY <1>1, OneOwner
<1>3. ASSUME Reads(lexer, r) PROVE FALSE
  <2>1. lexer = Owner(r[1])
    BY <1>3, OneOwner DEF Reads
  <2>2. QED
    BY <1>1, <1>2, <1>3, <2>1 DEF Reads
<1>4. QED
  BY <1>3

(* More of the text leaves a trail as it is.                               *)
LEMMA TrailOn ==
    ASSUME NEW src, NEW s \in Seq(Int), NEW f \in Seq(Int), NEW q, NEW n, Trail(src, s, q, n)
    PROVE  Trail(src, s \o f, q, n)
<1> DEFINE a == s \o f
<1>1. a \in Seq(Int) /\ Len(a) = Len(s) + Len(f) /\ Len(s) \in Nat /\ Len(f) \in Nat
  BY Joined
<1>2. n \in Nat \ {0} /\ q[1] = EmptyTree
  BY DEF Trail
<1>3. ASSUME NEW i \in 1..n PROVE OnTrail(src, a, q[i])
  <2>1. OnTrail(src, s, q[i]) /\ Len(q[i].expression_string) \in Nat
    BY TrailAt
  <2> HIDE DEF a
  <2>2. Len(q[i].expression_string) <= Len(a)
    BY <1>1, <2>1 DEF OnTrail
  <2>3. QED
    BY <2>1, <2>2 DEF OnTrail
<1>4. ASSUME NEW i \in 1..n, i < n PROVE Moves(src, q[i], Behind(q[i], a), q[i + 1])
  <2> DEFINE r == Behind(q[i], s)
  <2>1. /\ Ending(s, r) /\ r \in Seq(Int) /\ Len(r) = Len(s) - Len(q[i].expression_string)
        /\ Len(q[i].expression_string) \in Nat /\ Len(r) \in Nat /\ Tied(q[i])
    <3>1. Tied(q[i]) /\ Len(q[i].expression_string) <= Len(s)
      BY DEF Trail, OnTrail
    <3>2. QED
      BY <3>1, BehindIs
  <2>2. Moves(src, q[i], r, q[i + 1])
    BY <1>4 DEF Trail
  <2>4. Ending(a, r \o f) /\ Len(r \o f) = Len(r) + Len(f)
    BY <2>1, EndingMore
  <2> HIDE DEF r
  <2>5. Len(q[i].expression_string) + Len(r \o f) = Len(a)
    <3> HIDE DEF a
    <3>1. QED
      BY <1>1, <2>1, <2>4
  <2>6. r \o f = Behind(q[i], a)
    BY <2>1, <2>4, <2>5, BehindAt
  <2>7. Moves(src, q[i], r \o f, q[i + 1])
    BY <2>1, <2>2, MovesOn
  <2>8. QED
    BY <2>6, <2>7
<1> HIDE DEF a
<1>5. QED
  BY <1>2, <1>3, <1>4 DEF Trail, a

\* A trail comes to t.
Leads(src, s, t) == \E p, m : Trail(src, s, p, m) /\ p[m] = t

LEMMA TrailJoin ==
    ASSUME NEW src, NEW s, NEW q, NEW n, Trail(src, s, q, n), NEW m \in Nat, NEW h,
           h[0] = q[n], \A j \in 0..m : OnTrail(src, s, h[j]),
           \A j \in 1..m : Moves(src, h[j - 1], Behind(h[j - 1], s), h[j])
    PROVE  Leads(src, s, h[m])
<1> DEFINE p == [i \in 1..(n + m) |-> IF i <= n THEN q[i] ELSE h[i - n]]
<1>1. n \in Nat \ {0} /\ q[1] = EmptyTree
  BY DEF Trail
<1>2. \A i \in 1..n : i \in 1..(n + m) /\ p[i] = q[i]
  BY <1>1
<1>3. \A j \in 0..m : n + j \in 1..(n + m) /\ p[n + j] = h[j]
  <2> SUFFICES ASSUME NEW j \in 0..m PROVE n + j \in 1..(n + m) /\ p[n + j] = h[j]
    OBVIOUS
  <2>1. n + j \in 1..(n + m) /\ (n + j) - n = j /\ (n + j <= n <=> j = 0)
    BY <1>1
  <2>2. CASE j = 0
    BY <1>1, <1>2, <2>2
  <2>3. CASE j # 0
    BY <2>1, <2>3
  <2>4. QED
    BY <2>2, <2>3
<1>4. \A i \in 1..(n + m) : i \in 1..n \/ \E j \in 1..m : i = n + j
  <2> SUFFICES ASSUME NEW i \in 1..(n + m), i \notin 1..n PROVE i - n \in 1..m /\ i = n + (i - n)
    OBVIOUS
  <2>1. QED
    BY <1>1
<1> HIDE DEF p
<1>5. ASSUME NEW i \in 1..(n + m) PROVE OnTrail(src, s, p[i])
  <2>1. CASE i \in 1..n
    BY <1>2, <2>1 DEF Trail
  <2>2. ASSUME NEW j \in 1..m, i = n + j PROVE OnTrail(src, s, p[i])
    <3>1. j \in 0..m
      OBVIOUS
    <3>2. QED
      BY <1>3, <2>2, <3>1
  <2>3. QED
    BY <1>4, <2>1, <2>2
<1>6. ASSUME NEW i \in 1..(n + m), i < n + m
      PROVE  Moves(src, p[i], Behind(p[i], s), p[i + 1])
  <2>1. CASE i < n
    <3>1. i \in 1..n /\ i + 1 \in 1..n
      BY <1>1, <2>1
    <3>2. Moves(src, q[i], Behind(q[i], s), q[i + 1])
      BY <2>1, <3>1 DEF Trail
    <3>3. QED
      BY <1>2, <3>1, <3>2
  <2>2. CASE ~(i < n)
    <3> DEFINE j == i - n
    <3>1. j \in 0..m /\ j + 1 \in 1..m /\ j + 1 \in 0..m /\ i = n + j /\ i + 1 = n + (j + 1)
          /\ (j + 1) - 1 = j
      BY <1>1, <1>6, <2>2
    <3> HIDE DEF j
    <3>2. Moves(src, h[j], Behind(h[j], s), h[j + 1])
      BY <3>1
    <3>3. p[i] = h[j] /\ p[i + 1] = h[j + 1]
      BY <1>3, <3>1
    <3>4. QED
      BY <3>2, <3>3
  <2>3. QED
    BY <2>1, <2>2
<1>7. p[1] = EmptyTree /\ n + m \in Nat \ {0} /\ p[n + m] = h[m]
  <2>1. 1 \in 1..n /\ m \in 0..m
    BY <1>1
  <2>2. QED
    BY <1>1, <1>2, <1>3, <2>1
<1>8. Trail(src, s, p, n + m)
  BY <1>5, <1>6, <1>7 DEF Trail
<1>9. QED
  BY <1>7, <1>8 DEF Leads

-----------------------------------------------------------------------------
(* White space, in whatever runs it is taken.                              *)

Blanked(t, r, j) == [t EXCEPT !.expression_string = @ \o SubSeq(r, 1, j)]

LEMMA FitsBlank ==
    ASSUME NEW src, NEW t, NEW r, NEW n
    PROVE  /\ GrownBy(t, r, "discard", n).tree = t
           /\ Suits(src, t, r, "discard", n) <=> Within(src, t, n)
           /\ After(t, r, "discard", n) = Blanked(t, r, n)
<1>1. PlaceAs("discard", r) = "discard"
  BY DEF PlaceAs
<1>2. GrownBy(t, r, "discard", n).success /\ GrownBy(t, r, "discard", n).tree = t
  BY <1>1, HelperFails DEF GrownBy
<1>3. QED
  BY <1>2 DEF Suits, After, Blanked

LEMMA JoinIs ==
    ASSUME NEW x \in Seq(Int), NEW y \in Seq(Int)
    PROVE  /\ x \o y \in Seq(Int) /\ Len(x \o y) = Len(x) + Len(y)
           /\ \A i \in 1..Len(x \o y) : (x \o y)[i] = IF i <= Len(x) THEN x[i] ELSE y[i - Len(x)]
OBVIOUS

LEMMA OneMore ==
    ASSUME NEW x \in Seq(Int), NEW r \in Seq(Int), NEW j \in Nat, j < Len(r)
    PROVE  (x \o SubSeq(r, 1, j)) \o SubSeq(SubSeq(r, j + 1, Len(r)), 1, 1)
               = x \o SubSeq(r, 1, j + 1)
<1> DEFINE y == SubSeq(r, 1, j)
           v == SubSeq(r, j + 1, Len(r))
           z == SubSeq(v, 1, 1)
           w == SubSeq(r, 1, j + 1)
           a == x \o y
           b == a \o z
           c == x \o w
<1>1. Len(r) \in Nat /\ Len(x) \in Nat
  OBVIOUS
<1>2. y \in Seq(Int) /\ Len(y) = j /\ \A i \in 1..j : y[i] = r[i]
  BY <1>1
<1>3. w \in Seq(Int) /\ Len(w) = j + 1 /\ \A i \in 1..(j + 1) : w[i] = r[i]
  BY <1>1
<1>4. v \in Seq(Int) /\ Len(v) = Len(r) - j /\ v[1] = r[j + 1]
  BY <1>1
<1> HIDE DEF v
<1>5. z \in Seq(Int) /\ Len(z) = 1 /\ z[1] = r[j + 1]
  BY <1>1, <1>4
<1> HIDE DEF y, w, z
<1>6. a \in Seq(Int) /\ Len(a) = Len(x) + j
      /\ \A i \in 1..Len(a) : a[i] = IF i <= Len(x) THEN x[i] ELSE y[i - Len(x)]
  BY <1>2, JoinIs
<1>7. c \in Seq(Int) /\ Len(c) = Len(x) + (j + 1)
      /\ \A i \in 1..Len(c) : c[i] = IF i <= Len(x) THEN x[i] ELSE w[i - Len(x)]
  <2>1. w \in Seq(Int) /\ Len(w) = j + 1
    BY <1>3
  <2>2. c \in Seq(Int) /\ Len(c) = Len(x) + Len(w)
        /\ \A i \in 1..Len(c) : c[i] = IF i <= Len(x) THEN x[i] ELSE w[i - Len(x)]
    BY <2>1, JoinIs, Zenon
  <2>3. QED
    BY <2>1, <2>2, Zenon
<1> HIDE DEF a
<1>8. b \in Seq(Int) /\ Len(b) = Len(a) + 1
      /\ \A i \in 1..Len(b) : b[i] = IF i <= Len(a) THEN a[i] ELSE z[i - Len(a)]
  <2>1. a \in Seq(Int) /\ z \in Seq(Int) /\ Len(z) = 1
    BY <1>5, <1>6
  <2>2. b \in Seq(Int) /\ Len(b) = Len(a) + Len(z)
        /\ \A i \in 1..Len(b) : b[i] = IF i <= Len(a) THEN a[i] ELSE z[i - Len(a)]
    BY <2>1, JoinIs, Zenon
  <2>3. QED
    BY <2>1, <2>2, Zenon
<1> HIDE DEF b, c
<1>9. Len(b) = Len(c)
  BY <1>1, <1>6, <1>7, <1>8
<1>10. ASSUME NEW i \in 1..Len(b) PROVE b[i] = c[i]
  <2> DEFINE e == Len(x)
  <2>1. e \in Nat /\ Len(a) = e + j /\ Len(b) = e + (j + 1) /\ Len(c) = e + (j + 1)
        /\ i \in 1..(e + (j + 1))
    BY <1>1, <1>6, <1>7, <1>9
  <2> HIDE DEF e
  <2>2. CASE i <= e
    <3>1. i <= Len(a) /\ i \in 1..Len(a) /\ i \in 1..Len(c)
      BY <2>1, <2>2
    <3>2. QED
      BY <1>6, <1>7, <1>8, <2>2, <3>1 DEF e
  <2>3. CASE ~(i <= e) /\ i <= e + j
    <3>1. i <= Len(a) /\ i \in 1..Len(a) /\ i \in 1..Len(c) /\ i - e \in 1..j /\ i - e \in 1..(j + 1)
      BY <2>1, <2>3
    <3>2. a[i] = y[i - e] /\ c[i] = w[i - e] /\ b[i] = a[i]
      BY <1>6, <1>7, <1>8, <2>3, <3>1 DEF e
    <3>3. QED
      BY <1>2, <1>3, <3>1, <3>2
  <2>4. CASE i = e + (j + 1)
    <3>1. ~(i <= Len(a)) /\ i - Len(a) = 1 /\ ~(i <= e) /\ i - e = j + 1 /\ i \in 1..Len(c)
          /\ j + 1 \in 1..(j + 1)
      BY <2>1, <2>4
    <3>2. b[i] = z[1] /\ c[i] = w[j + 1]
      BY <1>7, <1>8, <3>1 DEF e
    <3>3. QED
      BY <1>3, <1>5, <3>1, <3>2
  <2>5. i <= e \/ (~(i <= e) /\ i <= e + j) \/ i = e + (j + 1)
    <3>1. e \in Nat /\ j \in Nat /\ i \in 1..(e + (j + 1))
      BY <2>1
    <3>2. QED
      BY <3>1
  <2>6. QED
    BY <2>2, <2>3, <2>4, <2>5
<1>11. b = [i \in 1..Len(b) |-> b[i]] /\ c = [i \in 1..Len(c) |-> c[i]]
  BY <1>7, <1>8
<1>12. b = c
  BY <1>9, <1>10, <1>11
<1>13. QED
  BY <1>12 DEF a, b, c, v, w, y, z

BlanksAdded(s, t, r, j) ==
    LET b == Blanked(t, r, j) IN
    /\ Tied(b) /\ Whole(b) /\ b.node_address = t.node_address
    /\ Len(b.memory) = Len(t.memory)
    /\ Len(b.expression_string) = Len(t.expression_string) + j
    /\ b.expression_string = t.expression_string \o SubSeq(r, 1, j)
    /\ Behind(b, s) = SubSeq(r, j + 1, Len(r))
    /\ Len(b.expression_string) <= Len(s)

LEMMA BlankedIs ==
    ASSUME NEW s \in Seq(Int), NEW t, Tied(t), Whole(t), Len(t.expression_string) <= Len(s),
           NEW r, r = Behind(t, s), NEW j \in 0..Len(r)
    PROVE  BlanksAdded(s, t, r, j)
<1> DEFINE e == t.expression_string \o SubSeq(r, 1, j)
           b == [t EXCEPT !.expression_string = e]
<1>1. /\ Ending(s, r) /\ r \in Seq(Int) /\ Len(r) = Len(s) - Len(t.expression_string)
      /\ Len(t.expression_string) \in Nat /\ Len(s) \in Nat /\ Len(r) \in Nat
  BY BehindIs
<1>2. t \in Trees /\ t.expression_string \in Seq(Int)
  BY DEF Tied, Trees
<1>3. SubSeq(r, 1, j) \in Seq(Int) /\ Len(SubSeq(r, 1, j)) = j
  BY <1>1
<1>4. e \in Seq(Int) /\ Len(e) = Len(t.expression_string) + j
  <2> DEFINE p == SubSeq(r, 1, j)
  <2>1. p \in Seq(Int) /\ Len(p) = j
    BY <1>3
  <2> HIDE DEF p
  <2>2. t.expression_string \o p \in Seq(Int)
        /\ Len(t.expression_string \o p) = Len(t.expression_string) + Len(p)
    BY <1>2, <2>1, JoinIs
  <2>3. QED
    BY <2>1, <2>2 DEF p
<1>5. Blanked(t, r, j) = b
  BY <1>2 DEF Blanked
<1> HIDE DEF e
<1>6. /\ Tied(b) /\ Whole(b) /\ b.expression_string = e
      /\ Len(b.memory) = Len(t.memory) /\ b.node_address = t.node_address
  BY <1>4, TextIs
<1> HIDE DEF b
<1> DEFINE v == SubSeq(r, j + 1, Len(r))
<1>7. Ending(s, v) /\ Len(v) = Len(r) - j
  BY <1>1, EndingTail
<1> HIDE DEF v
<1>8. Len(b.expression_string) + Len(v) = Len(s) /\ Len(b.expression_string) <= Len(s)
  <2> DEFINE x == Len(t.expression_string)
             m == Len(r)
             n == Len(s)
  <2>1. x \in Nat /\ m \in Nat /\ n \in Nat /\ m = n - x /\ j \in 0..m
        /\ Len(b.expression_string) = x + j /\ Len(v) = m - j
    BY <1>1, <1>4, <1>6, <1>7
  <2> HIDE DEF x, m, n
  <2>2. (x + j) + (m - j) = n /\ x + j <= n
    BY <2>1
  <2>3. QED
    BY <2>1, <2>2 DEF n
<1>9. v = Behind(b, s)
  BY <1>6, <1>7, <1>8, BehindAt
<1>10. QED
  BY <1>4, <1>5, <1>6, <1>8, <1>9 DEF v, e, BlanksAdded

LEMMA TailIs ==
    ASSUME NEW r \in Seq(Int), NEW j \in Nat, j < Len(r)
    PROVE  LET v == SubSeq(r, j + 1, Len(r)) IN
           v \in Seq(Int) /\ Len(v) = Len(r) - j /\ v # <<>> /\ v[1] = r[j + 1]
<1> DEFINE v == SubSeq(r, j + 1, Len(r))
<1>1. Len(r) \in Nat
  OBVIOUS
<1>2. v \in Seq(Int) /\ Len(v) = Len(r) - j /\ v[1] = r[j + 1]
  BY <1>1
<1>3. v # <<>>
  <2>1. Len(r) - j # 0
    BY <1>1
  <2> HIDE DEF v
  <2>2. QED
    BY <1>2, <2>1
<1>4. QED
  BY <1>2, <1>3

LEMMA BlankStep ==
    ASSUME NEW s \in Seq(Int), NEW t, Tied(t), Whole(t), Len(t.expression_string) <= Len(s),
           NEW r, r = Behind(t, s), NEW j \in 0..Len(r), j < Len(r)
    PROVE  LET b == Blanked(t, r, j) IN
           /\ Behind(b, s) # <<>> /\ Behind(b, s) \in Seq(Int)
           /\ Behind(b, s)[1] = r[j + 1]
           /\ After(b, Behind(b, s), "discard", 1) = Blanked(t, r, j + 1)
<1>0. /\ Blanked(t, r, j).expression_string = t.expression_string \o SubSeq(r, 1, j)
      /\ Behind(Blanked(t, r, j), s) = SubSeq(r, j + 1, Len(r))
  <2>1. BlanksAdded(s, t, r, j)
    BY BlankedIs
  <2>2. QED
    BY <2>1 DEF BlanksAdded
<1> DEFINE b == Blanked(t, r, j)
           v == SubSeq(r, j + 1, Len(r))
           x == t.expression_string
<1>1. r \in Seq(Int) /\ Len(r) \in Nat /\ j \in Nat
  BY BehindIs
<1>2. Behind(b, s) = v /\ b.expression_string = x \o SubSeq(r, 1, j)
  BY <1>0
<1>3. v \in Seq(Int) /\ v # <<>> /\ v[1] = r[j + 1]
  BY <1>1, TailIs
<1>4. t \in Trees /\ x \in Seq(Int)
  BY DEF Tied, Trees
<1>5. b = [t EXCEPT !.expression_string = x \o SubSeq(r, 1, j)]
  BY <1>4 DEF Blanked
<1>6. (x \o SubSeq(r, 1, j)) \o SubSeq(v, 1, 1) = x \o SubSeq(r, 1, j + 1)
  BY <1>1, <1>4, OneMore
<1>7. After(b, v, "discard", 1) = [b EXCEPT !.expression_string = @ \o SubSeq(v, 1, 1)]
  <2> HIDE DEF b, v
  <2>1. After(b, v, "discard", 1) = Blanked(b, v, 1)
    BY FitsBlank
  <2>2. QED
    BY <2>1 DEF Blanked
<1>8. Blanked(t, r, j + 1) = [t EXCEPT !.expression_string = x \o SubSeq(r, 1, j + 1)]
  BY <1>4 DEF Blanked
<1> DEFINE e == x \o SubSeq(r, 1, j)
           f == SubSeq(v, 1, 1)
           g == x \o SubSeq(r, 1, j + 1)
<1>9. [b EXCEPT !.expression_string = @ \o f] = [t EXCEPT !.expression_string = g]
  <2>1. b = [t EXCEPT !.expression_string = e] /\ e \o f = g
    BY <1>5, <1>6
  <2> HIDE DEF b, e, f, g, x, v
  <2>2. QED
    BY <1>4, <2>1 DEF Trees
<1>10. QED
  BY <1>2, <1>3, <1>7, <1>8, <1>9

\* A trail goes through the white space, or ends within it.
BlanksPassed(q, n, k, r) ==
    \E j \in 0..Read("discard", r).size :
        /\ k + j \in 1..n /\ q[k + j] = Blanked(q[k], r, j)
        /\ j = Read("discard", r).size \/ k + j = n

LEMMA BlankRun ==
    ASSUME NEW src, NEW s \in Seq(Int), NEW q, NEW n, Trail(src, s, q, n), NEW k \in 1..n,
           NEW r, r = Behind(q[k], s), Reads("discard", r)
    PROVE  BlanksPassed(q, n, k, r)
<1> DEFINE t == q[k]
           size == Read("discard", r).size
           N == {j \in 0..size : k + j \in 1..n /\ q[k + j] = Blanked(t, r, j)}
<1>1. /\ OnTrail(src, s, t) /\ Tied(t) /\ Whole(t) /\ Len(t.expression_string) <= Len(s)
      /\ r \in Seq(Int) /\ Len(r) \in Nat /\ n \in Nat
  BY TrailAt DEF OnTrail, Trail
<1>2. size \in 1..Len(r) /\ \A i \in 1..size : r[i] \in standard_white_space_set
  BY <1>1, BlanksAre
<1>3. 0 \in N
  <2>1. t \in Trees /\ t.expression_string \in Seq(Int)
    BY <1>1 DEF Tied, Trees
  <2>2. SubSeq(r, 1, 0) = <<>>
    BY <1>1
  <2>3. t.expression_string \o <<>> = t.expression_string
    BY <2>1
  <2>4. Blanked(t, r, 0) = [t EXCEPT !.expression_string = t.expression_string]
    BY <2>1, <2>2, <2>3 DEF Blanked
  <2>5. Blanked(t, r, 0) = t
    BY <2>1, <2>4 DEF Trees
  <2>6. 0 \in 0..size /\ k + 0 = k
    BY <1>2
  <2>7. QED
    BY <2>5, <2>6
<1>4. N \subseteq 0..size /\ size \in Nat
  BY <1>2
<1>5. PICK j \in N : \A i \in N : j >= i
  <2> HIDE DEF N
  <2>1. QED
    BY <1>3, <1>4, MaxIs
<1>6. j \in 0..size /\ k + j \in 1..n /\ q[k + j] = Blanked(t, r, j)
  OBVIOUS
<1>7. ASSUME j # size, k + j # n PROVE FALSE
  <2>1. j \in 0..Len(r) /\ j < Len(r) /\ j + 1 \in 0..size /\ j + 1 \in 1..size
        /\ k + j < n /\ k + (j + 1) \in 1..n /\ (k + j) + 1 = k + (j + 1)
    BY <1>1, <1>2, <1>6, <1>7
  <2> DEFINE b == q[k + j]
             v == Behind(b, s)
  <2>2. /\ v # <<>> /\ v \in Seq(Int) /\ v[1] = r[j + 1]
        /\ After(b, v, "discard", 1) = Blanked(t, r, j + 1)
    BY <1>1, <1>6, <2>1, BlankStep
  <2>3. Moves(src, b, v, q[(k + j) + 1])
    BY <1>6, <2>1 DEF Trail
  <2> HIDE DEF b, v
  <2>4. Reads("discard", v)
    <3>1. Len(v) \in Nat /\ Len(v) # 0
      BY <2>2
    <3>2. v[1] \in standard_white_space_set
      BY <1>2, <2>1, <2>2
    <3>3. QED
      BY <3>1, <3>2, BlanksAre
  <2>5. q[(k + j) + 1] = After(b, v, "discard", 1)
    <3>1. "discard" \in JsonNames
      BY DEF JsonNames
    <3>2. Unit("discard", v) = 1
      BY DEF Unit
    <3>3. QED
      BY <2>2, <2>3, <2>4, <3>1, <3>2, MovesReads
  <2>6. j + 1 \in N
    BY <2>1, <2>2, <2>5
  <2> HIDE DEF N
  <2>7. j >= j + 1
    BY <1>5, <2>6
  <2>8. QED
    BY <1>6, <2>7
<1>8. QED
  BY <1>6, <1>7 DEF BlanksPassed

-----------------------------------------------------------------------------
(* The same text once more.                                                *)

\* What the pieces have come to at the end t of their trail on s.
Verdict(src, s, t, over) ==
    IF over.ok
    THEN /\ over.tree = t /\ over.rest = Behind(t, s)
         /\ \/ over.rest = <<>>
            \/ Waiting(over.rest) /\ Len(over.rest) <= NotYetLimit[src]
    ELSE Stuck(src, t, Behind(t, s))

LEMMA LastStays ==
    ASSUME NEW src, NEW s, NEW t, NEW over, Verdict(src, s, t, over),
           NEW r \in Seq(Int), r = Behind(t, s), r # <<>>, NEW lexer \in JsonNames, Reads(lexer, r)
    PROVE  ~over.ok /\ ~Suits(src, t, r, lexer, Read(lexer, r).size)
<1>1. ~over.ok
  <2>1. over.ok => over.rest = r /\ Waiting(r)
    BY DEF Verdict
  <2>2. QED
    BY <2>1, WaitingReadsNot
<1>2. QED
  BY <1>1 DEF Verdict, Stuck

\* The white space that is left after j of size blanks is no more than that.
LEMMA BlanksLeft ==
    ASSUME NEW r \in Seq(Int), Reads("discard", r),
           NEW j \in Nat, j < Read("discard", r).size, NEW v, v = SubSeq(r, j + 1, Len(r))
    PROVE  /\ v \in Seq(Int) /\ v # <<>> /\ Reads("discard", v)
           /\ Read("discard", v).size \in Nat
           /\ Read("discard", v).size <= Read("discard", r).size - j
<1> DEFINE size == Read("discard", r).size
           left == Read("discard", v).size
<1>1. Len(r) \in Nat
  OBVIOUS
<1>2. /\ size \in 1..Len(r) /\ \A i \in 1..size : r[i] \in standard_white_space_set
      /\ size < Len(r) => r[size + 1] \notin standard_white_space_set
  BY <1>1, BlanksAre
<1>3. j < size /\ j < Len(r) /\ j + 1 \in 1..size
  BY <1>1, <1>2
<1>4. v \in Seq(Int) /\ Len(v) = Len(r) - j /\ v # <<>> /\ v[1] = r[j + 1]
  BY <1>3, TailIs
<1>5. \A i \in 1..Len(v) : v[i] = r[j + i]
  BY <1>1, <1>3
<1>6. Len(v) \in Nat /\ Len(v) # 0
  BY <1>1, <1>3, <1>4
<1>7. Reads("discard", v)
  BY <1>2, <1>3, <1>4, <1>6, BlanksAre
<1>8. left \in 1..Len(v) /\ \A i \in 1..left : v[i] \in standard_white_space_set
  BY <1>6, <1>7, BlanksAre
<1> HIDE DEF size, left
<1>9. ASSUME ~(left <= size - j) PROVE FALSE
  <2> DEFINE i == size - j + 1
             m == Len(r)
  <2>1. /\ m \in Nat /\ size \in 1..m /\ j \in Nat /\ j < size /\ Len(v) = m - j
        /\ left \in 1..(m - j) /\ ~(left <= size - j)
    BY <1>1, <1>2, <1>3, <1>4, <1>8, <1>9
  <2> HIDE DEF m
  <2>2. i \in 1..left /\ i \in 1..(m - j) /\ j + i = size + 1 /\ size < m
    BY <2>1
  <2> HIDE DEF i
  <2>3. v[i] = r[size + 1]
    BY <1>5, <2>1, <2>2
  <2>4. QED
    BY <1>2, <1>8, <2>2, <2>3 DEF m
<1>10. QED
  BY <1>4, <1>7, <1>8, <1>9 DEF size, left

\* What is left of the white space fits as well.
LEMMA LeftFits ==
    ASSUME NEW src \in Sources, NEW s \in Seq(Int), NEW t, OnTrail(src, s, t),
           NEW r, r = Behind(t, s), Reads("discard", r), Within(src, t, Read("discard", r).size),
           NEW j \in Nat, j < Read("discard", r).size
    PROVE  LET b == Blanked(t, r, j)
               v == Behind(b, s) IN
           /\ v \in Seq(Int) /\ v # <<>> /\ Reads("discard", v)
           /\ Suits(src, b, v, "discard", Read("discard", v).size)
<1> DEFINE b == Blanked(t, r, j)
           v == Behind(b, s)
           size == Read("discard", r).size
           left == Read("discard", v).size
<1>1. /\ Tied(t) /\ Whole(t) /\ Len(t.expression_string) <= Len(s) /\ r \in Seq(Int)
      /\ Len(r) \in Nat /\ Len(t.expression_string) \in Nat
  BY BehindIs DEF OnTrail
<1>2. size \in 1..Len(r)
  BY <1>1, BlanksAre
<1>3. j \in 0..Len(r)
  BY <1>1, <1>2
<1>4. BlanksAdded(s, t, r, j)
  BY <1>1, <1>3, BlankedIs
<1>5. /\ b.node_address = t.node_address /\ Len(b.memory) = Len(t.memory)
      /\ Len(b.expression_string) = Len(t.expression_string) + j
      /\ v = SubSeq(r, j + 1, Len(r))
  BY <1>4 DEF BlanksAdded
<1>6. v \in Seq(Int) /\ v # <<>> /\ Reads("discard", v) /\ left \in Nat /\ left <= size - j
  BY <1>1, <1>5, BlanksLeft
<1> HIDE DEF b, v, size, left
<1>7. Len(t.expression_string) + size <= BufferLimit[src]
      /\ Len(t.node_address) <= DepthLimit[src] /\ Len(t.memory) <= SizeLimit[src]
  BY DEF Within, size
<1>8. Len(b.expression_string) + left <= BufferLimit[src]
  <2> DEFINE x == Len(t.expression_string)
             y == Len(b.expression_string)
             z == BufferLimit[src]
  <2>1. /\ x \in Nat /\ y = x + j /\ x + size <= z /\ left <= size - j /\ left \in Nat
        /\ size \in Nat /\ z \in Nat
    BY <1>1, <1>2, <1>5, <1>6, <1>7, LimitAssumption
  <2> HIDE DEF x, y, z
  <2>2. y + left <= z
    BY <2>1
  <2>3. QED
    BY <2>2 DEF y, z
<1>9. Within(src, b, left)
  BY <1>5, <1>7, <1>8 DEF Within
<1>10. Suits(src, b, v, "discard", left)
  BY <1>9, FitsBlank
<1>11. QED
  BY <1>6, <1>10 DEF b, v, left

Reached(q, n, t) == \E m \in 1..n : q[m] = t

(* Where the whole text goes on, the pieces have gone on.                  *)
LEMMA Follow ==
    ASSUME NEW src \in Sources, NEW s \in Seq(Int), NEW q, NEW n, Trail(src, s, q, n),
           NEW over, Verdict(src, s, q[n], over), NEW k \in 1..n,
           NEW r, r = Behind(q[k], s), r # <<>>, NEW lexer \in JsonNames, Reads(lexer, r),
           Suits(src, q[k], r, lexer, Read(lexer, r).size)
    PROVE  Reached(q, n, After(q[k], r, lexer, Read(lexer, r).size))
<1> DEFINE size == Read(lexer, r).size
<1>0. n \in Nat /\ n \in 1..n
  BY DEF Trail
<1>1. /\ OnTrail(src, s, q[k]) /\ r \in Seq(Int) /\ n \in Nat /\ n \in 1..n
  BY <1>0, TrailAt
<1>2. CASE lexer # "discard"
  <2>1. k # n
    BY <1>1, LastStays
  <2>2. k < n /\ k + 1 \in 1..n
    BY <1>1, <2>1
  <2>3. Moves(src, q[k], r, q[k + 1])
    BY <2>2 DEF Trail
  <2>4. q[k + 1] = After(q[k], r, lexer, Unit(lexer, r))
    BY <1>1, <2>3, MovesReads
  <2>5. Unit(lexer, r) = size
    BY <1>2 DEF Unit
  <2>6. QED
    BY <2>2, <2>4, <2>5 DEF Reached
<1>3. CASE lexer = "discard"
  <2>1. Reads("discard", r) /\ Within(src, q[k], size) /\ size = Read("discard", r).size
    BY <1>3, FitsBlank
  <2>2. PICK j \in 0..size : /\ k + j \in 1..n /\ q[k + j] = Blanked(q[k], r, j)
                             /\ j = size \/ k + j = n
    <3>1. BlanksPassed(q, n, k, r)
      BY <2>1, BlankRun
    <3>2. QED
      BY <2>1, <3>1 DEF BlanksPassed
  <2>3. size \in Nat
    <3>1. Len(r) # 0
      BY <1>1
    <3>2. size \in 1..Len(r) /\ Len(r) \in Nat
      BY <1>1, <3>1, UnitIs
    <3>3. QED
      BY <3>2
  <2> HIDE DEF size
  <2>4. j = size
    <3> SUFFICES ASSUME j # size PROVE FALSE
      OBVIOUS
    <3> DEFINE b == Blanked(q[k], r, j)
               v == Behind(b, s)
    <3>1. j \in Nat /\ j < size /\ q[n] = b
      BY <2>2, <2>3
    <3>2. /\ v \in Seq(Int) /\ v # <<>> /\ Reads("discard", v)
          /\ Suits(src, b, v, "discard", Read("discard", v).size)
      BY <1>1, <2>1, <3>1, LeftFits
    <3>3. "discard" \in JsonNames
      BY DEF JsonNames
    <3> HIDE DEF b
    <3>4. QED
      BY <3>1, <3>2, <3>3, LastStays
  <2>5. After(q[k], r, lexer, size) = Blanked(q[k], r, size)
    BY <1>3, FitsBlank
  <2>6. QED
    BY <2>2, <2>4, <2>5 DEF size, Reached
<1>4. QED
  BY <1>2, <1>3

(* Where the whole text does not go on, the pieces have gone no further    *)
(* than into the white space.                                              *)
LEMMA Blocked ==
    ASSUME NEW src \in Sources, NEW s \in Seq(Int), NEW q, NEW n, Trail(src, s, q, n),
           NEW over, Verdict(src, s, q[n], over), NEW k \in 1..n, k # n,
           NEW r, r = Behind(q[k], s),
           \A lexer \in JsonNames :
               Reads(lexer, r) => ~Suits(src, q[k], r, lexer, Read(lexer, r).size)
    PROVE  ~over.ok
<1>0. n \in Nat /\ n \in 1..n
  BY DEF Trail
<1>1. /\ OnTrail(src, s, q[k]) /\ r \in Seq(Int) /\ n \in Nat /\ n \in 1..n
      /\ Len(q[k].expression_string) \in Nat /\ Tied(q[k]) /\ Whole(q[k])
  BY <1>0, TrailAt
<1>2. k < n
  BY <1>1
<1>3. Moves(src, q[k], r, q[k + 1])
  BY <1>2 DEF Trail
<1>4. PICK lexer \in JsonNames : Reads(lexer, r) /\ Suits(src, q[k], r, lexer, Unit(lexer, r))
  BY <1>1, <1>3, MovesReads
<1>5. lexer = "discard"
  BY <1>4 DEF Unit
<1> DEFINE size == Read("discard", r).size
<1>6. Reads("discard", r) /\ ~Within(src, q[k], size)
  BY <1>4, <1>5, FitsBlank
<1>7. PICK j \in 0..size : /\ k + j \in 1..n /\ q[k + j] = Blanked(q[k], r, j)
                           /\ j = size \/ k + j = n
  <2>1. BlanksPassed(q, n, k, r)
    BY <1>6, BlankRun
  <2>2. QED
    BY <2>1 DEF BlanksPassed
<1>8. size \in 1..Len(r) /\ Len(r) \in Nat
  BY <1>1, <1>6, BlanksAre
<1>9. BlanksAdded(s, q[k], r, j) /\ Len(q[k].expression_string) <= Len(s) /\ j \in 0..Len(r)
  <2>1. Len(q[k].expression_string) <= Len(s) /\ j \in 0..Len(r)
    BY <1>1, <1>8 DEF OnTrail
  <2>2. QED
    BY <1>1, <2>1, BlankedIs
<1> HIDE DEF size
<1>10. j # size
  <2> SUFFICES ASSUME j = size PROVE FALSE
    OBVIOUS
  <2> DEFINE b == q[k + size]
  <2>1. Within(src, b, 0)
    BY <1>7 DEF Trail, OnTrail
  <2>2. /\ b.node_address = q[k].node_address /\ Len(b.memory) = Len(q[k].memory)
        /\ Len(b.expression_string) = Len(q[k].expression_string) + size
    BY <1>7, <1>9 DEF BlanksAdded
  <2> HIDE DEF b
  <2>3. size \in Nat
    BY <1>8
  <2>4. Len(b.expression_string) + 0 = Len(q[k].expression_string) + size
    BY <1>1, <2>2, <2>3
  <2>5. Within(src, q[k], size)
    BY <2>1, <2>2, <2>4 DEF Within
  <2>6. QED
    BY <1>6, <2>5
<1>11. j \in Nat /\ j < size /\ j < Len(r) /\ q[n] = Blanked(q[k], r, j)
  BY <1>7, <1>8, <1>10
<1> DEFINE b == Blanked(q[k], r, j)
           v == Behind(b, s)
<1>12. v = SubSeq(r, j + 1, Len(r))
  BY <1>9 DEF BlanksAdded
<1>13. v \in Seq(Int) /\ v # <<>> /\ Reads("discard", v)
  BY <1>1, <1>6, <1>11, <1>12, BlanksLeft DEF size
<1>14. "discard" \in JsonNames
  BY DEF JsonNames
<1> HIDE DEF b
<1>15. q[n] = b
  BY <1>11 DEF b
<1>16. QED
  BY <1>13, <1>14, <1>15, LastStays

(* Where the pieces go on, their trail does.                               *)
LEMMA BlankTrail ==
    ASSUME NEW src \in Sources, NEW s \in Seq(Int), NEW q, NEW n, Trail(src, s, q, n),
           NEW r, r = Behind(q[n], s), Reads("discard", r),
           Within(src, q[n], Read("discard", r).size)
    PROVE  \E p, m : Trail(src, s, p, m) /\ p[m] = Blanked(q[n], r, Read("discard", r).size)
<1> DEFINE t == q[n]
           size == Read("discard", r).size
           h == [j \in 0..size |-> Blanked(t, r, j)]
<1>0. n \in Nat /\ n \in 1..n
  BY DEF Trail
<1>1. /\ OnTrail(src, s, t) /\ r \in Seq(Int) /\ Tied(t) /\ Whole(t)
      /\ Len(t.expression_string) \in Nat /\ Len(t.expression_string) <= Len(s)
      /\ Len(r) \in Nat
  BY <1>0, TrailAt DEF OnTrail
<1>2. size \in 1..Len(r) /\ size \in Nat /\ \A i \in 1..size : r[i] \in standard_white_space_set
  BY <1>1, BlanksAre
<1>3. h[0] = t
  <2>1. t \in Trees /\ t.expression_string \in Seq(Int)
    BY <1>1 DEF Tied, Trees
  <2>2. SubSeq(r, 1, 0) = <<>>
    BY <1>1
  <2>3. t.expression_string \o <<>> = t.expression_string
    BY <2>1
  <2>4. Blanked(t, r, 0) = [t EXCEPT !.expression_string = t.expression_string]
    BY <2>1, <2>2, <2>3 DEF Blanked
  <2>5. Blanked(t, r, 0) = t
    BY <2>1, <2>4 DEF Trees
  <2>6. 0 \in 0..size
    BY <1>2
  <2>7. QED
    BY <2>5, <2>6
<1>4. \A j \in 0..size : h[j] = Blanked(t, r, j) /\ j \in 0..Len(r)
  BY <1>1, <1>2
<1> HIDE DEF h, size
<1>5. /\ Len(t.expression_string) + size <= BufferLimit[src]
      /\ Len(t.node_address) <= DepthLimit[src] /\ Len(t.memory) <= SizeLimit[src]
      /\ BufferLimit[src] \in Nat
  BY LimitAssumption DEF Within, size
<1>6. ASSUME NEW j \in 0..size
      PROVE  /\ OnTrail(src, s, h[j]) /\ (j < size => Within(src, h[j], 1))
             /\ Len(h[j].expression_string) \in Nat
  <2>1. BlanksAdded(s, t, r, j)
    BY <1>1, <1>4, BlankedIs
  <2>2. /\ Tied(h[j]) /\ Whole(h[j]) /\ h[j].node_address = t.node_address
        /\ Len(h[j].memory) = Len(t.memory)
        /\ Len(h[j].expression_string) = Len(t.expression_string) + j
        /\ Len(h[j].expression_string) <= Len(s)
    BY <1>4, <2>1 DEF BlanksAdded
  <2>3. /\ Len(h[j].expression_string) + 0 <= BufferLimit[src]
        /\ j < size => Len(h[j].expression_string) + 1 <= BufferLimit[src]
        /\ Len(h[j].expression_string) \in Nat
    <3> DEFINE x == Len(t.expression_string)
               y == Len(h[j].expression_string)
               z == BufferLimit[src]
    <3>1. x \in Nat /\ y = x + j /\ j \in 0..size /\ size \in Nat /\ z \in Nat /\ x + size <= z
      BY <1>1, <1>2, <1>5, <2>2
    <3> HIDE DEF x, y, z
    <3>2. y + 0 <= z /\ (j < size => y + 1 <= z) /\ y \in Nat
      BY <3>1
    <3>3. QED
      BY <3>2 DEF y, z
  <2>4. Within(src, h[j], 0) /\ (j < size => Within(src, h[j], 1))
    BY <1>5, <2>2, <2>3 DEF Within
  <2>5. QED
    BY <2>2, <2>3, <2>4 DEF OnTrail
<1>7. ASSUME NEW j \in 1..size
      PROVE  Moves(src, h[j - 1], Behind(h[j - 1], s), h[j])
  <2> DEFINE i == j - 1
  <2>1. i \in 0..size /\ i \in 0..Len(r) /\ i < Len(r) /\ i < size /\ i + 1 = j /\ i + 1 \in 1..size
        /\ j \in 0..size
    BY <1>1, <1>2
  <2> HIDE DEF i
  <2> DEFINE b == h[i]
             v == Behind(b, s)
  <2>2. b = Blanked(t, r, i) /\ h[j] = Blanked(t, r, i + 1)
    BY <1>4, <2>1
  <2>3. /\ v # <<>> /\ v \in Seq(Int) /\ v[1] = r[i + 1]
        /\ After(b, v, "discard", 1) = Blanked(t, r, i + 1)
    BY <1>1, <2>1, <2>2, BlankStep
  <2>4. Within(src, b, 1)
    BY <1>6, <2>1
  <2> HIDE DEF b, v
  <2>5. Reads("discard", v)
    <3>1. Len(v) \in Nat /\ Len(v) # 0
      BY <2>3
    <3>2. v[1] \in standard_white_space_set
      BY <1>2, <2>1, <2>3
    <3>3. QED
      BY <3>1, <3>2, BlanksAre
  <2>6. Suits(src, b, v, "discard", 1) /\ Unit("discard", v) = 1 /\ "discard" \in JsonNames
    BY <2>4, FitsBlank DEF Unit, JsonNames
  <2>7. Moves(src, b, v, h[j])
    BY <2>2, <2>3, <2>5, <2>6 DEF Moves
  <2>8. QED
    BY <2>7 DEF b, v, i
<1>8. Leads(src, s, h[size])
  <2>1. \A j \in 0..size : OnTrail(src, s, h[j])
    BY <1>6
  <2>2. \A j \in 1..size : Moves(src, h[j - 1], Behind(h[j - 1], s), h[j])
    BY <1>7
  <2>3. QED
    BY <1>2, <1>3, <2>1, <2>2, TrailJoin
<1>9. h[size] = Blanked(t, r, size)
  BY <1>2, <1>4
<1>10. QED
  BY <1>8, <1>9 DEF size, Leads

LEMMA Advance ==
    ASSUME NEW src \in Sources, NEW s \in Seq(Int), NEW q, NEW n, Trail(src, s, q, n),
           NEW r, r = Behind(q[n], s), r # <<>>, NEW lexer \in JsonNames, Reads(lexer, r),
           Suits(src, q[n], r, lexer, Read(lexer, r).size)
    PROVE  \E p, m : Trail(src, s, p, m) /\ p[m] = After(q[n], r, lexer, Read(lexer, r).size)
<1> DEFINE t == q[n]
           size == Read(lexer, r).size
<1>0. n \in Nat /\ n \in 1..n
  BY DEF Trail
<1>1. /\ OnTrail(src, s, t) /\ r \in Seq(Int) /\ Tied(t) /\ Whole(t)
      /\ Len(r) = Len(s) - Len(t.expression_string)
      /\ Len(t.expression_string) \in Nat /\ Len(s) \in Nat /\ Len(r) \in Nat
  <2>1. OnTrail(src, s, t)
    BY <1>0 DEF Trail
  <2>2. Tied(t) /\ Whole(t) /\ Len(t.expression_string) <= Len(s)
    BY <2>1 DEF OnTrail
  <2>3. QED
    BY <2>1, <2>2, BehindIs
<1>2. size \in 1..Len(r)
  <2>1. r \in Seq(Int)
    BY <1>1
  <2>2. Len(r) # 0
    BY <2>1
  <2>3. QED
    BY <2>1, <2>2, UnitIs
<1>3. CASE lexer = "discard"
  <2>1. Reads("discard", r) /\ Within(src, t, size) /\ size = Read("discard", r).size
        /\ After(t, r, lexer, size) = Blanked(t, r, size)
    BY <1>3, FitsBlank
  <2>2. \E p, m : Trail(src, s, p, m) /\ p[m] = Blanked(t, r, Read("discard", r).size)
    BY <2>1, BlankTrail
  <2>3. QED
    BY <2>1, <2>2
<1>4. CASE lexer # "discard"
  <2> DEFINE u == After(t, r, lexer, size)
             h == [j \in 0..1 |-> IF j = 0 THEN t ELSE u]
  <2>1. /\ Tied(u) /\ Whole(u) /\ Within(src, u, 0)
        /\ Len(u.expression_string) = Len(t.expression_string) + size
    BY <1>1, <1>2, AfterIs
  <2>2. Unit(lexer, r) = size
    BY <1>4 DEF Unit
  <2>3. Moves(src, t, r, u)
    BY <2>2 DEF Moves
  <2>4. h[0] = t /\ h[1] = u
    OBVIOUS
  <2> HIDE DEF u, h, size
  <2>5. OnTrail(src, s, u)
    <3>1. Len(u.expression_string) <= Len(s)
      <4> DEFINE x == Len(t.expression_string)
                 y == Len(s)
                 z == Len(r)
      <4>1. x \in Nat /\ y \in Nat /\ z = y - x /\ size \in 1..z /\ Len(u.expression_string) = x + size
        BY <1>1, <1>2, <2>1
      <4> HIDE DEF x, y, z
      <4>2. x + size <= y
        BY <4>1
      <4>3. QED
        BY <4>1, <4>2 DEF y
    <3>2. QED
      BY <2>1, <3>1 DEF OnTrail
  <2>6. \A j \in 0..1 : OnTrail(src, s, h[j])
    <3>1. \A j \in 0..1 : j = 0 \/ j = 1
      OBVIOUS
    <3>2. QED
      BY <1>1, <2>4, <2>5, <3>1
  <2>7. \A j \in 1..1 : Moves(src, h[j - 1], Behind(h[j - 1], s), h[j])
    <3>1. \A j \in 1..1 : j = 1 /\ j - 1 = 0
      OBVIOUS
    <3>2. QED
      BY <2>3, <2>4, <3>1
  <2>8. Leads(src, s, h[1])
    BY <2>4, <2>6, <2>7, TrailJoin
  <2>9. QED
    BY <2>4, <2>8 DEF u, size, Leads
<1>5. QED
  BY <1>3, <1>4

-----------------------------------------------------------------------------
(* The invariant.                                                          *)

\* The parser has come to the tree t and has tried the lexers before index.
StandsAt(t) ==
    /\ Len(t.expression_string) + Len(rest) = Len(text)
    /\ refused = {} => tree = t
    /\ phase = "parsing" =>
           \A j \in 1..9 :
               j < index /\ Reads(LexersOf[j], rest) =>
                   ~Suits(source, t, rest, LexersOf[j], Read(LexersOf[j], rest).size)

\* What a call leaves waits for more.
Rests ==
    phase = "waiting" =>
        rest = <<>> \/ (Waiting(rest) /\ Len(rest) <= NotYetLimit[source])

InPieces ==
    /\ phase # "done"
    /\ phase # "error" => \E q, n : Trail(source, text, q, n) /\ StandsAt(q[n])
    /\ phase = "error" /\ "not_yet" \notin refused =>
           \E q, n : Trail(source, text, q, n) /\ Stuck(source, q[n], Behind(q[n], text))

OnceMore ==
    /\ phase # "arrived" /\ streamed.ok \in BOOLEAN
    /\ phase \in {"parsing", "waiting"} /\ "not_yet" \notin streamed.refused =>
           \E q, n : /\ Trail(source, text, q, n) /\ Verdict(source, text, q[n], streamed)
                     /\ \E k \in 1..n : StandsAt(q[k])
    /\ phase \in {"done", "error"} => WaysAgree

WaysOK ==
    Grammar_ = "json" =>
        /\ Rests
        /\ mode = "stream" => InPieces
        /\ mode # "stream" => OnceMore

LEMMA JsonIs ==
    ASSUME TextOK, Grammar_ = "json"
    PROVE  /\ source \in Sources /\ Len(LexersOf) = 9 /\ DOMAIN LexersOf = 1..9 /\ index \in 1..10
           /\ \A i \in 1..9 : LexersOf[i] \in JsonNames
           /\ \A lexer \in JsonNames : \E i \in 1..9 : LexersOf[i] = lexer
           /\ DefaultOperator[Grammar_] = {} /\ MayGoOn = Waiting(rest)
           /\ rest \in Seq(Int) /\ text \in Seq(Int) /\ Ending(text, rest)
           /\ NotYetLimit[source] \in Nat
<1>1. LexersOf = <<"operator_comma", "scope_brace", "scope_bracket", "operator_colon",
                   "value_string", "value_number", "value_bool", "value_null", "discard">>
  BY DEF LexersOf, Lexers
<1>2. source \in Sources /\ rest \in Seq(Int) /\ text \in Seq(Int) /\ Ending(text, rest)
  BY DEF TextOK, Ending
<1>3. Len(LexersOf) = 9 /\ DOMAIN LexersOf = 1..9
  BY <1>2, LexersAre
<1>4. \A i \in 1..9 : LexersOf[i] \in JsonNames
  BY <1>1 DEF JsonNames
<1>5. \A lexer \in JsonNames : \E i \in 1..9 : LexersOf[i] = lexer
  <2>1. /\ LexersOf[1] = "operator_comma" /\ LexersOf[2] = "scope_brace"
        /\ LexersOf[3] = "scope_bracket" /\ LexersOf[4] = "operator_colon"
        /\ LexersOf[5] = "value_string" /\ LexersOf[6] = "value_number"
        /\ LexersOf[7] = "value_bool" /\ LexersOf[8] = "value_null" /\ LexersOf[9] = "discard"
    BY <1>1
  <2>2. \A i \in {1, 2, 3, 4, 5, 6, 7, 8, 9} : i \in 1..9
    OBVIOUS
  <2> HIDE DEF LexersOf
  <2>3. QED
    BY <2>1, <2>2, Zenon DEF JsonNames
<1>6. DefaultOperator[Grammar_] = {}
  BY DEF DefaultOperator
<1>7. MayGoOn = Waiting(rest)
  BY <1>3, <1>4, <1>5 DEF MayGoOn, Waiting
<1>8. index \in 1..10 /\ NotYetLimit[source] \in Nat
  BY <1>2, <1>3, LimitAssumption DEF TextOK
<1>9. QED
  BY <1>2, <1>3, <1>4, <1>5, <1>6, <1>7, <1>8

LEMMA ExceedsIs ==
    ASSUME source \in Sources, NEW t, Tied(t), NEW n \in Nat
    PROVE  Exceeded(t, n) = {} <=> Within(source, t, n)
<1> DEFINE d == Len(t.node_address)
           m == Len(t.memory)
           e == Len(t.expression_string)
<1>1. d \in Nat /\ m \in Nat /\ e \in Nat
  BY DEF Tied, Trees
<1>2. DepthLimit[source] \in Nat /\ SizeLimit[source] \in Nat /\ BufferLimit[source] \in Nat
  BY LimitAssumption
<1>3. Exceeded(t, n) = {limit \in {"depth", "size", "buffer"} :
        \/ limit = "depth"  /\ d > DepthLimit[source]
        \/ limit = "size"   /\ m > SizeLimit[source]
        \/ limit = "buffer" /\ e + n > BufferLimit[source]}
  BY DEF Exceeded
<1>4. Within(source, t, n) <=>
        d <= DepthLimit[source] /\ m <= SizeLimit[source] /\ e + n <= BufferLimit[source]
  BY DEF Within
<1> HIDE DEF d, m, e
<1>5. Exceeded(t, n) = {} <=>
        ~(d > DepthLimit[source]) /\ ~(m > SizeLimit[source]) /\ ~(e + n > BufferLimit[source])
  BY <1>3
<1>6. QED
  BY <1>1, <1>2, <1>4, <1>5

LEMMA JsonTry ==
    ASSUME TextOK, TreeOK, RefusedOK, Grammar_ = "json", Try
    PROVE  /\ phase = "parsing" /\ refused = {} /\ rest # <<>>
           /\ UNCHANGED <<source, text, pieces, mode, streamed>>
           /\ \E i \in 1..9 :
                 LET lexer == LexersOf[i]
                     size  == Read(lexer, rest).size
                 IN  /\ Reads(lexer, rest) /\ size \in 1..Len(rest)
                     /\ \A j \in 1..9 : j < i /\ Reads(LexersOf[j], rest) => j < index
                     /\ IF Suits(source, tree, rest, lexer, size)
                        THEN /\ tree' = After(tree, rest, lexer, size)
                             /\ rest' = SubSeq(rest, size + 1, Len(rest))
                             /\ index' = 1 /\ refused' = {}
                             /\ phase' = IF Len(rest) = size THEN "waiting" ELSE "parsing"
                        ELSE /\ UNCHANGED <<rest, phase>> /\ index' = i + 1
                             /\ refused' = {} => tree' = tree
<1> DEFINE i      == Min(Successes)
           lexer  == LexersOf[i]
           size   == Read(lexer, rest).size
           result == parse_helper(tree, Token(lexer, size), PlaceAs(lexer, rest),
                                  DefaultOperator[Grammar_])
           over   == IF result.success THEN Exceeded(result.tree, size) ELSE {}
           taken  == result.success /\ over = {}
<1>1. phase = "parsing" /\ Successes # {} /\ UNCHANGED <<source, text, pieces, mode, streamed>>
  BY DEF Try
<1>2. rest # <<>> /\ refused = {}
  <2>1. refused # {} => OneReads
    BY <1>1 DEF RefusedOK
  <2>2. QED
    BY <1>1, <2>1, NoneReads DEF TextOK
<1>3. /\ i \in index..9 /\ i \in 1..9 /\ Read(LexersOf[i], rest).code = "success"
      /\ size \in 1..Len(rest) /\ Kept(tree, result.tree) /\ result.success \in BOOLEAN
  BY <1>1, TriedIs
<1>4. taken =>
        /\ tree' = [result.tree EXCEPT !.expression_string = @ \o SubSeq(rest, 1, size)]
        /\ rest' = SubSeq(rest, size + 1, Len(rest)) /\ index' = 1
        /\ phase' = IF Len(rest) = size THEN "waiting"
                    ELSE IF Grammar_ = "math" THEN "arrived" ELSE "parsing"
        /\ refused' = refused
  BY DEF Try, Tried, Placed, Taken, NotTaken
<1>5. ~taken => /\ tree' = result.tree /\ index' = i + 1 /\ refused' = refused \cup over
                /\ UNCHANGED <<rest, phase>>
  BY DEF Try, Tried, Placed, Taken, NotTaken
<1>6. result = GrownBy(tree, rest, lexer, size)
  <2>1. DefaultOperator[Grammar_] = {}
    BY JsonIs
  <2> HIDE DEF i
  <2>2. QED
    BY <2>1 DEF GrownBy, TokenOf, Token
<1>7. \A j \in 1..9 : j < i /\ Reads(LexersOf[j], rest) => j < index
  <2> SUFFICES ASSUME NEW j \in 1..9, j < i, Reads(LexersOf[j], rest), ~(j < index)
               PROVE  FALSE
    OBVIOUS
  <2>1. index \in 1..10 /\ Len(LexersOf) = 9
    BY JsonIs
  <2>2. j \in index..Len(LexersOf)
    BY <2>1
  <2>3. j \in Successes
    BY <2>2 DEF Successes, Reads
  <2>4. Successes \subseteq Nat
    BY <2>1 DEF Successes
  <2>5. i <= j
    BY <1>1, <2>3, <2>4, SmallestIs
  <2> HIDE DEF i
  <2>6. QED
    BY <1>3, <2>5
<1> HIDE DEF i, size
<1>8. taken <=> Suits(source, tree, rest, lexer, size)
  <2>1. Tied(result.tree) /\ source \in Sources /\ size \in Nat
    BY <1>3 DEF Kept, TextOK
  <2>2. taken <=> result.success /\ Exceeded(result.tree, size) = {}
    OBVIOUS
  <2> HIDE DEF result, taken
  <2>3. QED
    BY <1>6, <2>1, <2>2, ExceedsIs DEF Suits
<1>9. [result.tree EXCEPT !.expression_string = @ \o SubSeq(rest, 1, size)]
          = After(tree, rest, lexer, size)
  BY <1>6 DEF After
<1>10. refused' = {} /\ ~taken => tree' = tree
  <2> SUFFICES ASSUME refused' = {}, ~taken PROVE result.tree = tree
    BY <1>5
  <2>1. over = {}
    BY <1>5
  <2>2. result.success = FALSE
    BY <1>3, <2>1
  <2>3. DefaultOperator[Grammar_] = {}
    BY JsonIs
  <2>4. QED
    BY <2>2, <2>3, HelperFails
<1> HIDE DEF result, over, taken, lexer
<1>11. Reads(lexer, rest)
  BY <1>3 DEF Reads, lexer
<1>12. CASE taken
  <2>1. /\ tree' = After(tree, rest, lexer, size) /\ index' = 1 /\ refused' = {}
        /\ rest' = SubSeq(rest, size + 1, Len(rest))
        /\ phase' = IF Len(rest) = size THEN "waiting" ELSE "parsing"
    BY <1>2, <1>4, <1>9, <1>12
  <2>2. QED
    BY <1>1, <1>2, <1>3, <1>7, <1>8, <1>11, <1>12, <2>1 DEF lexer, size
<1>13. CASE ~taken
  <2>1. UNCHANGED <<rest, phase>> /\ index' = i + 1 /\ (refused' = {} => tree' = tree)
    BY <1>5, <1>10, <1>13
  <2>2. QED
    BY <1>1, <1>2, <1>3, <1>7, <1>8, <1>11, <1>13, <2>1 DEF lexer, size
<1>14. QED
  BY <1>12, <1>13

(* The parser stays where it is, or goes on to what it has placed.         *)
LEMMA TryAt ==
    ASSUME TextOK, TreeOK, RefusedOK, Grammar_ = "json", Try,
           NEW t, OnTrail(source, text, t), StandsAt(t)
    PROVE  /\ UNCHANGED <<source, text, mode, streamed>> /\ phase' \in {"parsing", "waiting"}
           /\ Rests' /\ rest # <<>> /\ rest = Behind(t, text)
           /\ \/ StandsAt(t)'
              \/ \E lexer \in JsonNames : \E u :
                     /\ Reads(lexer, rest) /\ Suits(source, t, rest, lexer, Read(lexer, rest).size)
                     /\ u = After(t, rest, lexer, Read(lexer, rest).size) /\ StandsAt(u)'
<1>1. /\ phase = "parsing" /\ refused = {} /\ rest # <<>>
      /\ UNCHANGED <<source, text, pieces, mode, streamed>>
  BY JsonTry
<1>2. PICK i \in 1..9 :
         LET lexer == LexersOf[i]
             size  == Read(lexer, rest).size
         IN  /\ Reads(lexer, rest) /\ size \in 1..Len(rest)
             /\ \A j \in 1..9 : j < i /\ Reads(LexersOf[j], rest) => j < index
             /\ IF Suits(source, tree, rest, lexer, size)
                THEN /\ tree' = After(tree, rest, lexer, size)
                     /\ rest' = SubSeq(rest, size + 1, Len(rest))
                     /\ index' = 1 /\ refused' = {}
                     /\ phase' = IF Len(rest) = size THEN "waiting" ELSE "parsing"
                ELSE /\ UNCHANGED <<rest, phase>> /\ index' = i + 1
                     /\ refused' = {} => tree' = tree
  BY JsonTry
<1> DEFINE lexer == LexersOf[i]
           size  == Read(lexer, rest).size
<1>3. tree = t /\ Tied(t) /\ Whole(t) /\ Len(t.expression_string) \in Nat
  <2>1. tree = t
    BY <1>1 DEF StandsAt
  <2>2. Tied(t) /\ Whole(t)
    BY DEF OnTrail
  <2>3. QED
    BY <2>1, <2>2 DEF Tied, Trees
<1>4. /\ Ending(text, rest) /\ rest \in Seq(Int) /\ lexer \in JsonNames
      /\ Len(rest) \in Nat /\ Len(text) \in Nat /\ source \in Sources
      /\ Len(t.expression_string) + Len(rest) = Len(text)
  <2>1. Ending(text, rest) /\ rest \in Seq(Int) /\ text \in Seq(Int) /\ lexer \in JsonNames
        /\ source \in Sources
    BY JsonIs
  <2>2. QED
    BY <2>1 DEF StandsAt
<1>5. rest = Behind(t, text)
  BY <1>3, <1>4, BehindAt
<1>6. LexersOf' = LexersOf /\ Grammar_' = Grammar_
  BY <1>1 DEF LexersOf, Grammar_
<1> HIDE DEF lexer, size
<1>7. Reads(lexer, rest) /\ size \in 1..Len(rest)
      /\ \A j \in 1..9 : j < i /\ Reads(LexersOf[j], rest) => j < index
  BY <1>2 DEF lexer, size
<1>8. CASE Suits(source, t, rest, lexer, size)
  <2>1. /\ tree' = After(t, rest, lexer, size) /\ rest' = SubSeq(rest, size + 1, Len(rest))
        /\ index' = 1 /\ phase' = IF Len(rest) = size THEN "waiting" ELSE "parsing"
    BY <1>2, <1>3, <1>8 DEF lexer, size
  <2>2. Len(tree'.expression_string) = Len(t.expression_string) + size
    BY <1>3, <1>4, <1>7, <1>8, <2>1, AfterIs
  <2>3. Len(rest') = Len(rest) - size /\ rest' \in Seq(Int)
    <3>1. size \in 0..Len(rest)
      BY <1>4, <1>7
    <3>2. QED
      BY <1>4, <2>1, <3>1, EndingTail DEF Ending
  <2>4. Len(tree'.expression_string) + Len(rest') = Len(text')
    <3> DEFINE x == Len(t.expression_string)
               y == Len(rest)
               z == Len(text)
    <3>1. x \in Nat /\ y \in Nat /\ z \in Nat /\ x + y = z /\ size \in 1..y
      BY <1>3, <1>4, <1>7
    <3> HIDE DEF x, y, z
    <3>2. (x + size) + (y - size) = z
      BY <3>1
    <3>3. QED
      BY <1>1, <2>2, <2>3, <3>2 DEF x, y, z
  <2>5. \A j \in 1..9 : ~(j < index')
    BY <2>1
  <2> DEFINE u == After(t, rest, lexer, size)
  <2> SUFFICES ASSUME NEW w, w = u PROVE StandsAt(w)' /\ Rests' /\ phase' \in {"parsing", "waiting"}
    BY <1>1, <1>4, <1>5, <1>7, <1>8 DEF size
  <2>6. w = tree'
    BY <2>1
  <2> HIDE DEF u
  <2>7. StandsAt(w)'
    BY <2>4, <2>5, <2>6 DEF StandsAt
  <2>8. phase' = "waiting" => rest' = <<>>
    BY <1>4, <2>1, <2>3
  <2>9. QED
    BY <2>1, <2>7, <2>8 DEF Rests
<1>9. CASE ~Suits(source, t, rest, lexer, size)
  <2>1. UNCHANGED <<rest, phase>> /\ index' = i + 1 /\ (refused' = {} => tree' = tree)
    BY <1>2, <1>3, <1>9 DEF lexer, size
  <2>2. \A j \in 1..9 : j < index' /\ Reads(LexersOf[j], rest) =>
                            ~Suits(source, t, rest, LexersOf[j], Read(LexersOf[j], rest).size)
    <3> SUFFICES ASSUME NEW j \in 1..9, j < i + 1, Reads(LexersOf[j], rest)
                 PROVE  ~Suits(source, t, rest, LexersOf[j], Read(LexersOf[j], rest).size)
      BY <2>1
    <3>1. CASE j = i
      BY <1>9, <3>1 DEF lexer, size
    <3>2. CASE j # i
      <4>1. j < i
        BY <3>2
      <4>2. j < index
        BY <1>7, <4>1
      <4>3. QED
        BY <1>1, <4>2 DEF StandsAt
    <3>3. QED
      BY <3>1, <3>2
  <2>3. StandsAt(t)'
    BY <1>1, <1>3, <1>4, <1>6, <2>1, <2>2 DEF StandsAt
  <2>4. QED
    BY <1>1, <1>5, <2>1, <2>3 DEF Rests
<1>10. QED
  BY <1>8, <1>9

\* No lexer is left: whatever reads has been refused.
LEMMA NothingFits ==
    ASSUME TextOK, Grammar_ = "json", phase = "parsing", Successes = {}, NEW t, StandsAt(t)
    PROVE  \A lexer \in JsonNames :
               Reads(lexer, rest) => ~Suits(source, t, rest, lexer, Read(lexer, rest).size)
<1> SUFFICES ASSUME NEW lexer \in JsonNames, Reads(lexer, rest)
             PROVE  ~Suits(source, t, rest, lexer, Read(lexer, rest).size)
  OBVIOUS
<1>1. PICK i \in 1..9 : LexersOf[i] = lexer
  BY JsonIs
<1>2. i < index
  <2> SUFFICES ASSUME ~(i < index) PROVE FALSE
    OBVIOUS
  <2>1. index \in 1..10 /\ Len(LexersOf) = 9
    BY JsonIs
  <2>2. i \in index..Len(LexersOf)
    BY <2>1
  <2>3. i \in Successes
    BY <1>1, <2>2 DEF Successes, Reads
  <2>4. QED
    BY <2>3
<1>3. QED
  BY <1>1, <1>2 DEF StandsAt

LEMMA StartsAt ==
    ASSUME source \in Sources
    PROVE  Trail(source, text, [i \in {1} |-> EmptyTree], 1) <=> Len(<<>>) <= Len(text)
<1> DEFINE q == [i \in {1} |-> EmptyTree]
<1>1. q[1] = EmptyTree /\ 1..1 = {1}
  OBVIOUS
<1> HIDE DEF q
<1>2. EmptyTree.expression_string = <<>> /\ EmptyTree.memory = <<>> /\ EmptyTree.node_address = <<>>
  BY DEF EmptyTree
<1>3. Within(source, EmptyTree, 0)
  <2>1. DepthLimit[source] \in Nat /\ SizeLimit[source] \in Nat /\ BufferLimit[source] \in Nat
    BY LimitAssumption
  <2>2. Len(<<>>) = 0
    OBVIOUS
  <2>3. QED
    BY <1>2, <2>1, <2>2 DEF Within
<1>4. OnTrail(source, text, EmptyTree) <=> Len(<<>>) <= Len(text)
  BY <1>2, <1>3, EmptyTied DEF OnTrail
<1>5. \A i \in 1..1 : i = 1 /\ ~(i < 1)
  OBVIOUS
<1>6. 1 \in Nat \ {0} /\ 1 \in 1..1
  OBVIOUS
<1>7. Trail(source, text, q, 1) <=> OnTrail(source, text, EmptyTree)
  BY <1>1, <1>5, <1>6 DEF Trail
<1>8. QED
  BY <1>4, <1>7 DEF q

LEMMA InitWays == ParserInit => WaysOK
<1> SUFFICES ASSUME ParserInit, Grammar_ = "json" PROVE Rests /\ mode = "stream" /\ InPieces
  BY DEF WaysOK
<1>1. /\ source \in Sources /\ mode = "stream" /\ phase = "waiting" /\ text = <<>> /\ rest = <<>>
      /\ tree = EmptyTree /\ index = 1 /\ refused = {}
  BY DEF ParserInit, Grammar_
<1>2. Trail(source, text, [i \in {1} |-> EmptyTree], 1)
  BY <1>1, StartsAt
<1>3. StandsAt([i \in {1} |-> EmptyTree][1])
  BY <1>1 DEF StandsAt, EmptyTree
<1>4. QED
  BY <1>1, <1>2, <1>3 DEF Rests, InPieces

LEMMA WaysArrives ==
    ASSUME TextOK, TreeOK, RefusedOK, WaysOK, NEW f \in Fragments[source], Arrives(f)
    PROVE  WaysOK'
<1>1. Grammar_' = Grammar_ /\ source' = source /\ UNCHANGED <<tree, index, mode, refused>>
  BY DEF Arrives, Grammar_
<1> SUFFICES ASSUME Grammar_ = "json" PROVE Rests' /\ mode' = "stream" /\ InPieces'
  BY <1>1 DEF WaysOK
<1>2. /\ mode = "stream" /\ phase \in {"waiting", "arrived"} /\ phase' = "arrived"
      /\ text' = text \o f /\ rest' = rest \o f
  BY DEF Arrives
<1>3. f \in Seq(Int) /\ text \in Seq(Int) /\ rest \in Seq(Int)
  BY JsonIs, LimitAssumption
<1>4. PICK q, n : Trail(source, text, q, n) /\ StandsAt(q[n])
  BY <1>2 DEF WaysOK, InPieces
<1>5. Trail(source, text', q, n)
  BY <1>2, <1>3, <1>4, TrailOn
<1>6. Len(text') = Len(text) + Len(f) /\ Len(rest') = Len(rest) + Len(f)
  BY <1>2, <1>3, Joined
<1>7. Len(q[n].expression_string) + Len(rest') = Len(text')
  <2> DEFINE x == Len(q[n].expression_string)
  <2>1. n \in 1..n
    BY <1>4 DEF Trail
  <2>2. x \in Nat
    BY <1>3, <1>4, <2>1, TrailAt
  <2>3. x + Len(rest) = Len(text)
    BY <1>4 DEF StandsAt
  <2>4. Len(rest) \in Nat /\ Len(text) \in Nat /\ Len(f) \in Nat
    BY <1>3
  <2> HIDE DEF x
  <2>5. x + (Len(rest) + Len(f)) = Len(text) + Len(f)
    BY <2>2, <2>3, <2>4
  <2>6. QED
    BY <1>6, <2>5 DEF x
<1>8. StandsAt(q[n])'
  BY <1>1, <1>2, <1>4, <1>7 DEF StandsAt
<1>9. QED
  BY <1>1, <1>2, <1>5, <1>8 DEF Rests, InPieces

\* What is left over after a token, if it ends the text, is nothing.
LEMMA TryRests ==
    ASSUME TextOK, TreeOK, RefusedOK, Grammar_ = "json", Try
    PROVE  /\ UNCHANGED <<source, text, mode, streamed>> /\ phase' \in {"parsing", "waiting"}
           /\ Rests'
<1>1. phase = "parsing" /\ UNCHANGED <<source, text, pieces, mode, streamed>>
  BY JsonTry
<1>2. PICK i \in 1..9 :
         LET lexer == LexersOf[i]
             size  == Read(lexer, rest).size
         IN  /\ Reads(lexer, rest) /\ size \in 1..Len(rest)
             /\ \A j \in 1..9 : j < i /\ Reads(LexersOf[j], rest) => j < index
             /\ IF Suits(source, tree, rest, lexer, size)
                THEN /\ tree' = After(tree, rest, lexer, size)
                     /\ rest' = SubSeq(rest, size + 1, Len(rest))
                     /\ index' = 1 /\ refused' = {}
                     /\ phase' = IF Len(rest) = size THEN "waiting" ELSE "parsing"
                ELSE /\ UNCHANGED <<rest, phase>> /\ index' = i + 1
                     /\ refused' = {} => tree' = tree
  BY JsonTry
<1> DEFINE size == Read(LexersOf[i], rest).size
<1>3. rest \in Seq(Int) /\ Len(rest) \in Nat
  BY JsonIs
<1>4. \/ /\ rest' = SubSeq(rest, size + 1, Len(rest))
         /\ phase' = IF Len(rest) = size THEN "waiting" ELSE "parsing"
      \/ phase' = "parsing"
  BY <1>1, <1>2
<1> HIDE DEF size
<1>5. phase' = "waiting" => rest' = <<>>
  <2> SUFFICES ASSUME phase' = "waiting" PROVE rest' = <<>>
    OBVIOUS
  <2>1. rest' = SubSeq(rest, Len(rest) + 1, Len(rest))
    BY <1>4
  <2>2. QED
    BY <1>3, <2>1
<1>6. QED
  BY <1>1, <1>4, <1>5 DEF Rests

LEMMA WaysTry ==
    ASSUME TextOK, TreeOK, RefusedOK, WaysOK, Try
    PROVE  WaysOK'
<1>1. Grammar_' = Grammar_
  BY DEF Try, Grammar_
<1> SUFFICES ASSUME Grammar_ = "json"
             PROVE  Rests' /\ (mode' = "stream" => InPieces') /\ (mode' # "stream" => OnceMore')
  BY <1>1 DEF WaysOK
<1>2. phase = "parsing" /\ source \in Sources /\ text \in Seq(Int) /\ rest \in Seq(Int)
  BY JsonIs DEF Try
<1>3. CASE mode = "stream"
  <2>1. PICK q, n : Trail(source, text, q, n) /\ StandsAt(q[n])
    BY <1>2, <1>3 DEF WaysOK, InPieces
  <2> DEFINE t == q[n]
  <2>2. n \in 1..n
    BY <2>1 DEF Trail
  <2>3. OnTrail(source, text, t)
    BY <2>1, <2>2 DEF Trail
  <2>4. /\ UNCHANGED <<source, text, mode, streamed>> /\ phase' \in {"parsing", "waiting"}
        /\ Rests' /\ rest # <<>> /\ rest = Behind(t, text)
        /\ \/ StandsAt(t)'
           \/ \E lexer \in JsonNames : \E u :
                  /\ Reads(lexer, rest) /\ Suits(source, t, rest, lexer, Read(lexer, rest).size)
                  /\ u = After(t, rest, lexer, Read(lexer, rest).size) /\ StandsAt(u)'
    BY <2>1, <2>3, TryAt
  <2>5. \E p, m : Trail(source, text, p, m) /\ StandsAt(p[m])'
    <3>1. CASE StandsAt(t)'
      BY <2>1, <3>1
    <3>2. ASSUME NEW lexer \in JsonNames, NEW u,
                 Reads(lexer, rest), Suits(source, t, rest, lexer, Read(lexer, rest).size),
                 u = After(t, rest, lexer, Read(lexer, rest).size), StandsAt(u)'
          PROVE  \E p, m : Trail(source, text, p, m) /\ StandsAt(p[m])'
      <4>1. \E p, m : Trail(source, text, p, m) /\ p[m] = u
        BY <1>2, <2>1, <2>4, <3>2, Advance
      <4>2. QED
        BY <3>2, <4>1
    <3>3. QED
      BY <2>4, <3>1, <3>2
  <2>6. InPieces'
    BY <2>4, <2>5 DEF InPieces
  <2>7. QED
    BY <1>3, <2>4, <2>6
<1>4. CASE mode # "stream"
  <2>1. /\ UNCHANGED <<source, text, mode, streamed>> /\ phase' \in {"parsing", "waiting"}
        /\ Rests'
    BY TryRests
  <2>2. OnceMore
    BY <1>4 DEF WaysOK
  <2>3. "not_yet" \notin streamed.refused =>
            \E q, n : /\ Trail(source, text, q, n) /\ Verdict(source, text, q[n], streamed)
                      /\ \E k \in 1..n : StandsAt(q[k])'
    <3> SUFFICES ASSUME "not_yet" \notin streamed.refused
                 PROVE  \E q, n : /\ Trail(source, text, q, n)
                                  /\ Verdict(source, text, q[n], streamed)
                                  /\ \E k \in 1..n : StandsAt(q[k])'
      OBVIOUS
    <3>1. PICK q, n : /\ Trail(source, text, q, n) /\ Verdict(source, text, q[n], streamed)
                      /\ \E k \in 1..n : StandsAt(q[k])
      BY <1>2, <2>2 DEF OnceMore
    <3>2. PICK k \in 1..n : StandsAt(q[k])
      BY <3>1
    <3> DEFINE t == q[k]
    <3>3. OnTrail(source, text, t)
      BY <3>1, <3>2 DEF Trail
    <3>4. /\ rest # <<>> /\ rest = Behind(t, text)
          /\ \/ StandsAt(t)'
             \/ \E lexer \in JsonNames : \E u :
                    /\ Reads(lexer, rest) /\ Suits(source, t, rest, lexer, Read(lexer, rest).size)
                    /\ u = After(t, rest, lexer, Read(lexer, rest).size) /\ StandsAt(u)'
      BY <3>2, <3>3, TryAt
    <3>5. CASE StandsAt(t)'
      BY <3>1, <3>2, <3>5
    <3>6. ASSUME NEW lexer \in JsonNames, NEW u,
                 Reads(lexer, rest), Suits(source, t, rest, lexer, Read(lexer, rest).size),
                 u = After(t, rest, lexer, Read(lexer, rest).size), StandsAt(u)'
          PROVE  \E m \in 1..n : StandsAt(q[m])'
      <4>1. /\ rest # <<>> /\ rest = Behind(q[k], text)
            /\ Suits(source, q[k], rest, lexer, Read(lexer, rest).size)
        BY <3>4, <3>6
      <4>2. Verdict(source, text, q[n], streamed) /\ source \in Sources /\ text \in Seq(Int)
            /\ Trail(source, text, q, n) /\ k \in 1..n /\ lexer \in JsonNames
        BY <1>2, <3>1, <3>2, <3>6
      <4>3. Reached(q, n, After(q[k], rest, lexer, Read(lexer, rest).size))
        BY <4>1, <4>2, <3>6, Follow
      <4>4. \E m \in 1..n : q[m] = u
        BY <3>6, <4>3 DEF Reached
      <4>5. QED
        BY <3>6, <4>4
    <3>7. QED
      BY <3>1, <3>4, <3>5, <3>6
  <2>4. OnceMore'
    BY <2>1, <2>2, <2>3 DEF OnceMore
  <2>5. QED
    BY <1>4, <2>1, <2>4
<1>5. QED
  BY <1>3, <1>4

LEMMA GivesUp ==
    ASSUME TextOK, RefusedOK, Grammar_ = "json", GiveUp
    PROVE  /\ phase = "parsing" /\ Successes = {} /\ rest # <<>> /\ rest \in Seq(Int)
           /\ UNCHANGED <<source, text, mode, streamed>>
           /\ NotYet => /\ phase' = "waiting" /\ UNCHANGED <<rest, tree, refused>>
                        /\ refused = {} /\ Waiting(rest) /\ mode # "full"
                        /\ Len(rest) <= NotYetLimit[source]
           /\ ~NotYet => /\ phase' = "error"
                         /\ "not_yet" \notin refused' => ~Waiting(rest)
                         /\ mode # "full" /\ Waiting(rest) => Len(rest) > NotYetLimit[source]
<1>1. /\ phase = "parsing" /\ Successes = {} /\ UNCHANGED <<source, text, mode, streamed>>
  BY DEF GiveUp
<1>2. rest # <<>> /\ rest \in Seq(Int) /\ Len(rest) \in Nat /\ Len(rest) # 0
  BY <1>1, JsonIs DEF TextOK
<1>3. MayGoOn = Waiting(rest) /\ NotYetLimit[source] \in Nat
  BY JsonIs
<1>4. NotYet <=> MayGoOn /\ Len(rest) <= Limit
  BY DEF NotYet
<1>5. Limit = IF mode = "full" THEN 0 ELSE NotYetLimit[source]
  BY DEF Limit
<1>6. CASE NotYet
  <2>1. phase' = "waiting" /\ UNCHANGED <<rest, tree, refused>>
    BY <1>6 DEF GiveUp
  <2>2. refused # {} => OneReads
    BY <1>1 DEF RefusedOK
  <2>3. refused = {}
    BY <1>4, <1>6, <2>2, NoneReads
  <2>4. mode # "full"
    BY <1>2, <1>4, <1>5, <1>6
  <2>5. QED
    BY <1>1, <1>2, <1>3, <1>4, <1>5, <1>6, <2>1, <2>3, <2>4
<1>7. CASE ~NotYet
  <2>1. phase' = "error" /\ refused' = IF MayGoOn THEN refused \cup {"not_yet"} ELSE refused
    BY <1>7 DEF GiveUp
  <2>2. mode # "full" /\ MayGoOn => Len(rest) > NotYetLimit[source]
    BY <1>2, <1>3, <1>4, <1>5, <1>7
  <2>3. "not_yet" \notin refused' => ~MayGoOn
    BY <2>1
  <2>4. QED
    BY <1>1, <1>2, <1>3, <1>7, <2>1, <2>2, <2>3
<1>8. QED
  BY <1>6, <1>7

LEMMA StreamGivesUp ==
    ASSUME TextOK, RefusedOK, Grammar_ = "json", GiveUp, mode = "stream", InPieces
    PROVE  InPieces'
<1>1. /\ phase = "parsing" /\ Successes = {} /\ rest # <<>> /\ rest \in Seq(Int)
      /\ UNCHANGED <<source, text, mode, streamed>>
  BY GivesUp
<1>2. PICK q, n : Trail(source, text, q, n) /\ StandsAt(q[n])
  BY <1>1 DEF InPieces
<1>3. CASE NotYet
  <2>1. phase' = "waiting" /\ UNCHANGED <<rest, tree, refused>>
    BY <1>3, GivesUp
  <2>2. StandsAt(q[n])'
    BY <1>1, <1>2, <2>1 DEF StandsAt
  <2>3. QED
    BY <1>1, <1>2, <2>1, <2>2 DEF InPieces
<1>4. CASE ~NotYet
  <2>1. phase' = "error"
    BY <1>4, GivesUp
  <2>2. "not_yet" \notin refused' => Stuck(source, q[n], Behind(q[n], text))
    <3> SUFFICES ASSUME "not_yet" \notin refused' PROVE Stuck(source, q[n], Behind(q[n], text))
      OBVIOUS
    <3>1. ~Waiting(rest)
      BY <1>4, GivesUp
    <3>2. \A lexer \in JsonNames :
              Reads(lexer, rest) => ~Suits(source, q[n], rest, lexer, Read(lexer, rest).size)
      BY <1>1, <1>2, NothingFits
    <3>3. rest = Behind(q[n], text)
      <4>1. n \in 1..n /\ text \in Seq(Int) /\ Ending(text, rest)
        BY <1>2, JsonIs DEF Trail
      <4>2. Tied(q[n])
        BY <1>2, <4>1, TrailAt
      <4>3. Len(q[n].expression_string) + Len(rest) = Len(text)
        BY <1>2 DEF StandsAt
      <4>4. QED
        BY <4>1, <4>2, <4>3, BehindAt
    <3>4. Stuck(source, q[n], rest)
      BY <1>1, <3>1, <3>2 DEF Stuck
    <3>5. QED
      BY <3>3, <3>4
  <2>3. QED
    BY <1>1, <1>2, <2>1, <2>2 DEF InPieces
<1>5. QED
  BY <1>3, <1>4

\* The whole text has come to the tree t of the trail.
LEMMA ComesTo ==
    ASSUME TextOK, Grammar_ = "json", NEW q, NEW n, Trail(source, text, q, n),
           NEW k \in 1..n, StandsAt(q[k])
    PROVE  /\ rest = Behind(q[k], text) /\ n \in 1..n /\ n \in Nat
           /\ k # n /\ rest # <<>> => ~Waiting(rest)
           /\ k # n => rest # <<>>
<1>1. /\ text \in Seq(Int) /\ Ending(text, rest) /\ rest \in Seq(Int) /\ source \in Sources
  BY JsonIs
<1>2. n \in 1..n /\ n \in Nat /\ Tied(q[k]) /\ Behind(q[k], text) \in Seq(Int)
  <2>1. n \in 1..n /\ n \in Nat
    BY DEF Trail
  <2>2. Tied(q[k]) /\ Behind(q[k], text) \in Seq(Int)
    BY <1>1, TrailAt
  <2>3. QED
    BY <2>1, <2>2
<1>3. rest = Behind(q[k], text)
  BY <1>1, <1>2, BehindAt DEF StandsAt
<1>4. k # n => ~Waiting(rest) /\ rest # <<>>
  <2> SUFFICES ASSUME k # n PROVE ~Waiting(rest) /\ rest # <<>>
    OBVIOUS
  <2>1. k < n
    BY <1>2
  <2>2. Moves(source, q[k], Behind(q[k], text), q[k + 1])
    BY <2>1 DEF Trail
  <2>3. QED
    BY <1>2, <1>3, <2>2, MovesReads
<1>5. QED
  BY <1>2, <1>3, <1>4

LEMMA OnceGivesUp ==
    ASSUME TextOK, RefusedOK, Grammar_ = "json", GiveUp, mode # "stream", OnceMore
    PROVE  OnceMore'
<1>1. /\ phase = "parsing" /\ Successes = {} /\ rest # <<>> /\ rest \in Seq(Int)
      /\ UNCHANGED <<source, text, mode, streamed>>
  BY GivesUp
<1>2. "not_yet" \notin streamed.refused =>
          \E q, n : /\ Trail(source, text, q, n) /\ Verdict(source, text, q[n], streamed)
                    /\ \E k \in 1..n : StandsAt(q[k])
  BY <1>1 DEF OnceMore
<1>3. CASE NotYet
  <2>1. phase' = "waiting" /\ UNCHANGED <<rest, tree, refused>>
    BY <1>3, GivesUp
  <2>2. \A t : StandsAt(t) => StandsAt(t)'
    BY <1>1, <2>1 DEF StandsAt
  <2>3. "not_yet" \notin streamed.refused =>
            \E q, n : /\ Trail(source, text, q, n) /\ Verdict(source, text, q[n], streamed)
                      /\ \E k \in 1..n : StandsAt(q[k])'
    BY <1>2, <2>2
  <2>4. QED
    BY <1>1, <2>1, <2>3 DEF OnceMore
<1>4. CASE ~NotYet
  <2>1. phase' = "error"
    BY <1>4, GivesUp
  <2>2. ASSUME "not_yet" \notin streamed.refused, streamed.ok
        PROVE  mode = "full" /\ streamed.rest # <<>>
    <3>1. PICK q, n : /\ Trail(source, text, q, n) /\ Verdict(source, text, q[n], streamed)
                      /\ \E k \in 1..n : StandsAt(q[k])
      BY <1>2, <2>2
    <3>2. PICK k \in 1..n : StandsAt(q[k])
      BY <3>1
    <3>3. rest = Behind(q[k], text)
      BY <3>1, <3>2, ComesTo
    <3>4. \A lexer \in JsonNames :
              Reads(lexer, rest) => ~Suits(source, q[k], rest, lexer, Read(lexer, rest).size)
      BY <1>1, <3>2, NothingFits
    <3>5. source \in Sources /\ text \in Seq(Int)
      BY JsonIs
    <3>6. k = n
      <4> SUFFICES ASSUME k # n PROVE FALSE
        OBVIOUS
      <4>1. QED
        BY <2>2, <3>1, <3>2, <3>3, <3>4, <3>5, Blocked
    <3>7. /\ streamed.rest = rest
          /\ streamed.rest = <<>> \/ (Waiting(rest) /\ Len(rest) <= NotYetLimit[source])
      BY <2>2, <3>1, <3>3, <3>6 DEF Verdict
    <3>8. mode # "full" /\ Waiting(rest) => Len(rest) > NotYetLimit[source]
      BY <1>4, GivesUp
    <3>9. NotYetLimit[source] \in Nat /\ Len(rest) \in Nat
      BY <1>1, JsonIs
    <3>10. ~(Len(rest) <= NotYetLimit[source] /\ Len(rest) > NotYetLimit[source])
      BY <3>9
    <3>11. QED
      BY <1>1, <3>7, <3>8, <3>10
  <2>3. WaysAgree'
    <3>1. PiecesDoNotMatter'
      <4>1. streamed.ok \in BOOLEAN /\ phase' # "done"
        BY <2>1 DEF OnceMore
      <4>2. mode = "again" /\ "not_yet" \notin streamed.refused => streamed.ok = FALSE
        BY <2>2, <4>1
      <4>3. QED
        BY <1>1, <4>1, <4>2 DEF PiecesDoNotMatter
    <3>2. FullAgreesWithStream'
      BY <1>1, <2>1, <2>2 DEF FullAgreesWithStream, Grammar_
    <3>3. QED
      BY <3>1, <3>2 DEF WaysAgree
  <2>4. QED
    BY <1>1, <2>1, <2>3 DEF OnceMore
<1>5. QED
  BY <1>3, <1>4

LEMMA WaysGiveUp ==
    ASSUME TextOK, TreeOK, RefusedOK, WaysOK, GiveUp
    PROVE  WaysOK'
<1>1. Grammar_' = Grammar_ /\ mode' = mode
  BY DEF GiveUp, Grammar_
<1> SUFFICES ASSUME Grammar_ = "json"
             PROVE  Rests' /\ (mode = "stream" => InPieces') /\ (mode # "stream" => OnceMore')
  BY <1>1 DEF WaysOK
<1>2. Rests'
  <2>1. UNCHANGED source
    BY GivesUp
  <2>2. phase' = "waiting" => rest' = rest /\ Waiting(rest) /\ Len(rest) <= NotYetLimit[source]
    BY GivesUp
  <2>3. QED
    BY <2>1, <2>2 DEF Rests
<1>3. mode = "stream" => InPieces'
  BY StreamGivesUp DEF WaysOK
<1>4. mode # "stream" => OnceMore'
  BY OnceGivesUp DEF WaysOK
<1>5. QED
  BY <1>2, <1>3, <1>4

LEMMA WaysReturn ==
    ASSUME TextOK, TreeOK, RefusedOK, WaysOK, Return
    PROVE  WaysOK'
<1>1. /\ phase = "waiting" /\ mode # "stream"
      /\ UNCHANGED <<source, text, rest, index, mode, streamed, refused>>
      /\ phase' = IF mode = "full" /\ ~TreeComplete(tree) THEN "error" ELSE "done"
      /\ tree' = IF mode = "full" THEN AtRoot(tree) ELSE tree
  BY DEF Return
<1>2. Grammar_' = Grammar_
  BY <1>1 DEF Grammar_
<1> SUFFICES ASSUME Grammar_ = "json" PROVE Rests' /\ OnceMore'
  BY <1>1, <1>2 DEF WaysOK
<1>3. Rests /\ OnceMore /\ refused = {}
  BY <1>1 DEF WaysOK, RefusedOK
<1>4. ASSUME "not_yet" \notin streamed.refused
      PROVE  streamed.ok /\ streamed.tree = tree /\ streamed.rest = rest
  <2>1. PICK q, n : /\ Trail(source, text, q, n) /\ Verdict(source, text, q[n], streamed)
                    /\ \E k \in 1..n : StandsAt(q[k])
    BY <1>1, <1>3, <1>4 DEF OnceMore
  <2>2. PICK k \in 1..n : StandsAt(q[k])
    BY <2>1
  <2>3. /\ rest = Behind(q[k], text)
        /\ k # n /\ rest # <<>> => ~Waiting(rest)
        /\ k # n => rest # <<>>
    BY <2>1, <2>2, ComesTo
  <2>4. rest = <<>> \/ Waiting(rest)
    BY <1>1, <1>3 DEF Rests
  <2>5. k = n
    BY <2>3, <2>4
  <2>6. streamed.ok
    BY <2>1, <2>3, <2>4, <2>5 DEF Verdict, Stuck
  <2>7. tree = q[k]
    BY <1>3, <2>2 DEF StandsAt
  <2>8. QED
    BY <2>1, <2>3, <2>5, <2>6, <2>7 DEF Verdict
<1>5. mode = "full" => rest = <<>>
  BY <1>1 DEF TextOK
<1>6. PiecesDoNotMatter'
  BY <1>1, <1>4 DEF PiecesDoNotMatter
<1>7. FullAgreesWithStream'
  BY <1>1, <1>4, <1>5 DEF FullAgreesWithStream, Grammar_
<1>8. phase' \in {"done", "error"}
  BY <1>1
<1>9. QED
  BY <1>1, <1>3, <1>6, <1>7, <1>8 DEF Rests, OnceMore, WaysAgree

LEMMA WaysEnds ==
    ASSUME WaysOK, Ends
    PROVE  WaysOK'
<1>1. phase # "parsing" /\ UNCHANGED <<source, text, rest, tree, index, phase, mode, streamed, refused>>
  BY DEF Ends
<1>2. Grammar_' = Grammar_ /\ LexersOf' = LexersOf /\ WaysAgree' = WaysAgree
  BY <1>1 DEF Grammar_, LexersOf, WaysAgree, PiecesDoNotMatter, FullAgreesWithStream
<1>3. \A t : StandsAt(t) => StandsAt(t)'
  BY <1>1, <1>2 DEF StandsAt
<1>4. InPieces => InPieces'
  BY <1>1, <1>3 DEF InPieces
<1>5. OnceMore => OnceMore'
  BY <1>1, <1>2, <1>3 DEF OnceMore
<1>6. Rests => Rests'
  BY <1>1 DEF Rests
<1>7. QED
  BY <1>1, <1>2, <1>4, <1>5, <1>6 DEF WaysOK

LEMMA WaysStays ==
    ASSUME WaysOK, UNCHANGED parserVars
    PROVE  WaysOK'
<1>1. UNCHANGED <<source, text, rest, tree, index, phase, mode, streamed, refused>>
  BY DEF parserVars
<1>2. Grammar_' = Grammar_ /\ LexersOf' = LexersOf /\ WaysAgree' = WaysAgree
  BY <1>1 DEF Grammar_, LexersOf, WaysAgree, PiecesDoNotMatter, FullAgreesWithStream
<1>3. \A t : StandsAt(t) => StandsAt(t)'
  BY <1>1, <1>2 DEF StandsAt
<1>4. InPieces => InPieces'
  BY <1>1, <1>3 DEF InPieces
<1>5. OnceMore => OnceMore'
  BY <1>1, <1>2, <1>3 DEF OnceMore
<1>6. Rests => Rests'
  BY <1>1 DEF Rests
<1>7. QED
  BY <1>1, <1>2, <1>4, <1>5, <1>6 DEF WaysOK

LEMMA WaysCall ==
    ASSUME TextOK, WaysOK, Call
    PROVE  WaysOK'
<1>1. /\ phase = "arrived" /\ phase' = "parsing" /\ index' = 1
      /\ UNCHANGED <<source, text, rest, tree, mode, streamed, refused>>
  BY DEF Call
<1>2. Grammar_' = Grammar_
  BY <1>1 DEF Grammar_
<1> SUFFICES ASSUME Grammar_ = "json"
             PROVE  Rests' /\ (mode = "stream" => InPieces') /\ mode = "stream"
  BY <1>1, <1>2 DEF WaysOK
<1>3. mode = "stream"
  BY <1>1 DEF WaysOK, OnceMore
<1>4. PICK q, n : Trail(source, text, q, n) /\ StandsAt(q[n])
  BY <1>1, <1>3 DEF WaysOK, InPieces
<1>5. StandsAt(q[n])'
  <2>1. \A j \in 1..9 : ~(j < index')
    BY <1>1
  <2>2. QED
    BY <1>1, <1>4, <2>1 DEF StandsAt
<1>6. QED
  BY <1>1, <1>3, <1>4, <1>5 DEF Rests, InPieces

LEMMA WaysAtOneGo ==
    ASSUME TextOK, TreeOK, RefusedOK, WaysOK, NEW m \in {"again", "full"}, AtOneGo(m)
    PROVE  WaysOK'
<1>1. /\ mode = "stream" /\ phase \in {"waiting", "error"}
      /\ streamed' = [tree |-> tree, rest |-> rest, ok |-> phase # "error", refused |-> refused]
      /\ mode' = m /\ tree' = EmptyTree /\ rest' = text /\ refused' = {}
      /\ phase' = "parsing" /\ index' = 1 /\ UNCHANGED <<source, text>>
  BY DEF AtOneGo
<1>2. Grammar_' = Grammar_
  BY <1>1 DEF Grammar_
<1> SUFFICES ASSUME Grammar_ = "json" PROVE Rests' /\ mode' # "stream" /\ OnceMore'
  BY <1>1, <1>2 DEF WaysOK
<1>3. Rests /\ InPieces
  BY <1>1 DEF WaysOK
<1>4. /\ streamed'.ok = (phase # "error") /\ streamed'.tree = tree /\ streamed'.rest = rest
      /\ streamed'.refused = refused
  BY <1>1
<1>5. ASSUME "not_yet" \notin refused
      PROVE  \E q, n : Trail(source, text, q, n) /\ Verdict(source, text, q[n], streamed')
  <2>1. CASE phase = "error"
    <3>1. PICK q, n : Trail(source, text, q, n) /\ Stuck(source, q[n], Behind(q[n], text))
      BY <1>3, <1>5, <2>1 DEF InPieces
    <3>2. Verdict(source, text, q[n], streamed')
      BY <1>4, <2>1, <3>1 DEF Verdict
    <3>3. QED
      BY <3>1, <3>2
  <2>2. CASE phase = "waiting"
    <3>1. PICK q, n : Trail(source, text, q, n) /\ StandsAt(q[n])
      BY <1>3, <2>2 DEF InPieces
    <3>2. refused = {}
      BY <2>2 DEF RefusedOK
    <3>3. n \in 1..n
      BY <3>1 DEF Trail
    <3>4. tree = q[n] /\ rest = Behind(q[n], text)
      BY <3>1, <3>2, <3>3, ComesTo DEF StandsAt
    <3>5. Verdict(source, text, q[n], streamed')
      BY <1>3, <1>4, <2>2, <3>4 DEF Verdict, Rests
    <3>6. QED
      BY <3>1, <3>5
  <2>3. QED
    BY <1>1, <2>1, <2>2
<1>6. StandsAt(EmptyTree)'
  <2>1. \A j \in 1..9 : ~(j < index')
    BY <1>1
  <2>2. EmptyTree.expression_string = <<>> /\ Len(<<>>) = 0
    BY DEF EmptyTree
  <2>3. Len(text) \in Nat
    BY JsonIs
  <2>4. QED
    BY <1>1, <2>1, <2>2, <2>3 DEF StandsAt
<1>7. ASSUME "not_yet" \notin refused
      PROVE  \E q, n : /\ Trail(source, text, q, n) /\ Verdict(source, text, q[n], streamed')
                       /\ \E k \in 1..n : StandsAt(q[k])'
  <2>1. PICK q, n : Trail(source, text, q, n) /\ Verdict(source, text, q[n], streamed')
    BY <1>5, <1>7
  <2>2. 1 \in 1..n /\ q[1] = EmptyTree
    BY <2>1 DEF Trail
  <2>3. QED
    BY <1>6, <2>1, <2>2
<1>8. OnceMore'
  BY <1>1, <1>4, <1>7 DEF OnceMore
<1>9. QED
  BY <1>1, <1>8 DEF Rests

LEMMA WaysStep ==
    ASSUME TextOK, TreeOK, RefusedOK, WaysOK, [ParserNext]_parserVars
    PROVE  WaysOK'
<1>1. ASSUME NEW f \in Fragments[source], Arrives(f) PROVE WaysOK'
  BY <1>1, WaysArrives
<1>2. CASE Ends
  BY <1>2, WaysEnds
<1>3. CASE Call
  BY <1>3, WaysCall
<1>4. CASE Try
  BY <1>4, WaysTry
<1>5. CASE GiveUp
  BY <1>5, WaysGiveUp
<1>6. CASE Return
  BY <1>6, WaysReturn
<1>7. ASSUME NEW m \in {"again", "full"}, AtOneGo(m) PROVE WaysOK'
  BY <1>7, WaysAtOneGo
<1>8. CASE UNCHANGED parserVars
  BY <1>8, WaysStays
<1>9. QED
  BY <1>1, <1>2, <1>3, <1>4, <1>5, <1>6, <1>7, <1>8 DEF ParserNext

(* A json text in pieces, whole, and whole to its end, comes to the same:  *)
(* parse_stream() and parse_full() agree, for all texts, pieces and limits. *)
THEOREM WaysOfParsingAgree == ParserSpec => []WaysAgree
<1>1. ParserInit => TextOK /\ TreeOK /\ RefusedOK /\ WaysOK
  <2>1. ParserInit => RefusedOK
    BY DEF ParserInit, RefusedOK
  <2>2. QED
    BY <2>1, InitOK, InitWays
<1>2. TextOK /\ TreeOK /\ RefusedOK /\ WaysOK /\ [ParserNext]_parserVars
          => (TextOK /\ TreeOK /\ RefusedOK /\ WaysOK)'
  BY StepOK, RefusedStep, WaysStep
<1>3. TextOK /\ TreeOK /\ WaysOK => WaysAgree
  <2> SUFFICES ASSUME TextOK, TreeOK, WaysOK PROVE WaysAgree
    OBVIOUS
  <2>1. CASE Grammar_ = "json" /\ mode # "stream" /\ phase \in {"done", "error"}
    BY <2>1 DEF WaysOK, OnceMore
  <2>2. CASE Grammar_ # "json"
    <3>1. Grammar_ = "math"
      BY <2>2, OverTyped
    <3>2. mode = "full"
      BY <3>1 DEF TextOK
    <3>3. QED
      BY <2>2, <3>2 DEF WaysAgree, PiecesDoNotMatter, FullAgreesWithStream
  <2>3. CASE mode = "stream" \/ phase \notin {"done", "error"}
    BY <2>3 DEF WaysAgree, PiecesDoNotMatter, FullAgreesWithStream
  <2>4. QED
    BY <2>1, <2>2, <2>3
<1>4. QED
  BY <1>1, <1>2, <1>3, PTL DEF ParserSpec
=============================================================================
