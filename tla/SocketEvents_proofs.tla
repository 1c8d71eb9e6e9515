------------------------ MODULE SocketEvents_proofs ------------------------
(***************************************************************************)
(* Proofs about the channels of the sockets and the slots of their event   *)
(* handler, for any number of sockets, descriptors, attempts and ids: what *)
(* the operations on a list of queues keep, and with them what the handlers*)
(* of socket.cpp and event_impl.hpp keep of the tables.                    *)
(***************************************************************************)
EXTENDS SocketEvents, FiniteSetTheorems, SequenceTheorems, WellFoundedInduction, TLAPS

(* The queues of a table whose items are in V.  No index reaches MaxIds,   *)
(* so none overflows.                                                      *)
Shape(c, V) ==
    [m_i_start : 0..(c - 1), m_i_size : 0..c, m_i_loops : Nat,
     m_vec_queue : [0..(c - 1) -> V \cup {Unset}]]

First(q, c) == q.m_i_start + c * q.m_i_loops

Row(q, c, V) ==
    /\ c \in PowersOfTwo /\ q \in Shape(c, V)
    /\ First(q, c) + q.m_i_size <= MaxIds
    /\ \A k \in 0..(q.m_i_size - 1) : q.m_vec_queue[(First(q, c) + k) % c] \in V

-----------------------------------------------------------------------------
(* What size_t and the bounds are.                                         *)
LEMMA Width == Word \in Nat /\ Word >= 2 /\ MaxIds \in Nat /\ 1 <= MaxIds /\ MaxIds < Word
<1>1. PICK k \in 1..Word : Word = 2^k
  BY WordAssumption
<1>2. MaxIds \in 1..(Word - 1)
  BY BoundsAssumption
<1>3. 1..Word # {} /\ 1..(Word - 1) # {}
  BY <1>1, <1>2
<1>4. QED
  BY <1>1, <1>2, <1>3

(* Quotient and remainder.                                                 *)
LEMMA DivMod ==
    ASSUME NEW a \in Int, NEW b \in Nat \ {0}
    PROVE  a \div b \in Int /\ (a % b) \in 0..(b - 1) /\ a = b * (a \div b) + (a % b)
OBVIOUS

(* A multiple of b is at least b away from 0, or is 0.                     *)
LEMMA Multiple ==
    ASSUME NEW b \in Nat \ {0}, NEW k \in Int
    PROVE  b * k \in Int /\ (k >= 1 => b * k >= b) /\ (k <= -1 => b * k <= -b)
OBVIOUS

(* Quotient and remainder are unique.                                      *)
LEMMA ModIs ==
    ASSUME NEW a \in Int, NEW b \in Nat \ {0}, NEW k \in Int, NEW r \in 0..(b - 1),
           a = b * k + r
    PROVE  a % b = r /\ a \div b = k
<1> DEFINE q == a \div b
           s == a % b
<1>1. q \in Int /\ s \in 0..(b - 1) /\ a = b * q + s
  BY DivMod
<1> HIDE DEF q, s
<1>2. k - q \in Int /\ b * (k - q) = s - r
  BY <1>1
<1>3. k - q = 0
  BY <1>1, <1>2, Multiple
<1>4. QED
  BY <1>1, <1>2, <1>3 DEF q, s

(* A multiple of the modulus may be left out.                              *)
LEMMA ModDrops ==
    ASSUME NEW b \in Nat \ {0}, NEW k \in Int, NEW a \in Int
    PROVE  (a + b * k) % b = a % b
<1> DEFINE q == a \div b
           r == a % b
<1>1. q \in Int /\ r \in 0..(b - 1) /\ a = b * q + r
  BY DivMod
<1> HIDE DEF q, r
<1>2. a + b * k = b * (q + k) + r /\ q + k \in Int /\ a + b * k \in Int
  BY <1>1
<1>3. (a + b * k) % b = r
  BY <1>1, <1>2, ModIs
<1>4. QED
  BY <1>3 DEF r

(* Numbers less than the modulus apart have different remainders.          *)
LEMMA Apart ==
    ASSUME NEW b \in Nat \ {0}, NEW i \in Int, NEW j \in Int, i < j, j < i + b
    PROVE  i % b # j % b
<1> DEFINE k == i \div b
           l == j \div b
           r == i % b
           s == j % b
<1>1. k \in Int /\ r \in 0..(b - 1) /\ i = b * k + r
  BY DivMod
<1>2. l \in Int /\ s \in 0..(b - 1) /\ j = b * l + s
  BY DivMod
<1> HIDE DEF k, l, r, s
<1>3. ASSUME r = s PROVE FALSE
  <2>1. l - k \in Int /\ b * (l - k) = j - i
    BY <1>1, <1>2, <1>3
  <2>2. QED
    BY <2>1, Multiple
<1>4. QED
  BY <1>3 DEF r, s

(* A number below the modulus is its own remainder.                        *)
LEMMA ModSmall ==
    ASSUME NEW b \in Nat \ {0}, NEW a \in 0..(b - 1) PROVE a % b = a
<1>1. PICK k \in Int : k = 0
  OBVIOUS
<1>2. a = b * k + a /\ a \in Int
  BY <1>1
<1>3. QED
  BY <1>1, <1>2, ModIs

(* A set of numbers has a least one, which Min names.                      *)
LEMMA MinIs ==
    ASSUME NEW S, S \subseteq Nat, S # {}
    PROVE  Min(S) \in S /\ \A y \in S : Min(S) <= y
<1>1. PICK x \in S : \A y \in S : <<y, x>> \notin OpToRel(<, Nat)
  BY NatLessThanWellFounded, WFMin
<1>2. ASSUME NEW y \in S PROVE x <= y
  <2>1. x \in Nat /\ y \in Nat
    OBVIOUS
  <2>2. ~ (y < x)
    BY <1>1, <2>1 DEF OpToRel
  <2>3. QED
    BY <2>1, <2>2
<1>3. QED
  BY <1>2 DEF Min

(* The divisors of Word.                                                   *)
LEMMA Divisors ==
    PowersOfTwo \subseteq Nat \ {0} /\ Word \in PowersOfTwo /\ \A p \in PowersOfTwo : p <= Word
<1>1. Word \in 1..Word /\ Word % Word = 0
  <2>1. PICK k \in Int, r \in Int : k = 1 /\ r = 0
    OBVIOUS
  <2>2. Word \in Nat \ {0} /\ r \in 0..(Word - 1) /\ Word = Word * k + r
    BY <2>1, Width
  <2>3. Word % Word = r
    BY <2>2, ModIs
  <2>4. QED
    BY <2>1, <2>2, <2>3
<1>2. QED
  BY <1>1, Width DEF PowersOfTwo

(* The buffer for a number of items.                                       *)
LEMMA BufferFor ==
    ASSUME NEW n \in 1..Word
    PROVE  capacity2pow(n) \in PowersOfTwo /\ n <= capacity2pow(n) /\ n # 0
<1> DEFINE S == {p \in PowersOfTwo : n <= p}
<1>0. n <= Word /\ n # 0 /\ PowersOfTwo \subseteq Nat
  BY Divisors, Width
<1>1. S \subseteq Nat /\ Word \in S
  BY <1>0, Divisors
<1>2. Min(S) \in S /\ \A y \in S : Min(S) <= y
  BY <1>1, MinIs
<1>3. capacity2pow(n) = Min(S)
  BY <1>0 DEF capacity2pow, next2pow
<1>4. QED
  BY <1>0, <1>1, <1>2, <1>3

(* A buffer of less than Word items is at most half of Word.               *)
LEMMA TwiceFits ==
    ASSUME NEW c \in PowersOfTwo, c < Word PROVE 2 * c \in 1..Word
<1> DEFINE k == Word \div c
<1>1. c \in Nat \ {0} /\ Word \in Int /\ Word % c = 0
  BY Divisors, Width DEF PowersOfTwo
<1>2. k \in Int /\ Word = c * k
  BY <1>1, DivMod
<1> HIDE DEF k
<1>3. k # 1 /\ ~ (k <= 0)
  BY <1>1, <1>2, Multiple, Width
<1>4. k - 2 \in Nat
  BY <1>2, <1>3
<1>5. PICK m \in Nat : m = k - 2
  BY <1>4
<1>6. c * m >= 0 /\ k = m + 2
  BY <1>1, <1>2, <1>5
<1>7. c * (m + 2) = c * m + 2 * c
  BY <1>1
<1>8. QED
  BY <1>1, <1>2, <1>6, <1>7

-----------------------------------------------------------------------------
(* The fields and indices of a queue.                                      *)
LEMMA RowIs ==
    ASSUME NEW V, NEW c, NEW q, Row(q, c, V)
    PROVE  /\ c \in Nat \ {0} /\ Capacity(q) = c /\ c <= Word
           /\ q.m_i_start \in 0..(c - 1) /\ q.m_i_size \in 0..c /\ q.m_i_loops \in Nat
           /\ First(q, c) \in Nat /\ First(q, c) + q.m_i_size <= MaxIds
           /\ First(q, c) % c = q.m_i_start
           /\ begin_index(q) = First(q, c) /\ end_index(q) = First(q, c) + q.m_i_size
<1>1. /\ c \in Nat \ {0} /\ c <= Word
      /\ q.m_i_start \in 0..(c - 1) /\ q.m_i_size \in 0..c /\ q.m_i_loops \in Nat
      /\ DOMAIN q.m_vec_queue = 0..(c - 1)
  BY Divisors DEF Row, Shape
<1>2. Capacity(q) = c
  <2>1. Cardinality(0..(c - 1)) = c
    BY <1>1, FS_Interval
  <2>2. QED
    BY <1>1, <2>1 DEF Capacity
<1>3. First(q, c) \in Nat /\ First(q, c) + q.m_i_size <= MaxIds
  <2>1. c * q.m_i_loops \in Nat
    BY <1>1
  <2>2. QED
    BY <1>1, <2>1 DEF First, Row
<1>4. First(q, c) % c = q.m_i_start
  <2>1. PICK f, l, r : f = First(q, c) /\ l = q.m_i_loops /\ r = q.m_i_start
    OBVIOUS
  <2>2. f = c * l + r /\ l \in Int /\ r \in 0..(c - 1) /\ f \in Int /\ c \in Nat \ {0}
    BY <1>1, <1>3, <2>1 DEF First
  <2>3. f % c = r
    BY <2>2, ModIs
  <2>4. QED
    BY <2>1, <2>3
<1>5. /\ q.m_i_start + q.m_i_loops * Capacity(q) = First(q, c)
      /\ q.m_i_size + q.m_i_start + q.m_i_loops * Capacity(q) = First(q, c) + q.m_i_size
  BY <1>1, <1>2 DEF First
<1>6. ASSUME NEW a \in 0..MaxIds PROVE a % Word = a
  <2>1. Word \in Nat \ {0} /\ a \in 0..(Word - 1)
    BY <1>6, Width
  <2>2. QED
    BY <2>1, ModSmall
<1>7. begin_index(q) = First(q, c)
  <2>1. PICK f : f = First(q, c)
    OBVIOUS
  <2>2. f \in 0..MaxIds
    BY <1>1, <1>3, <2>1, Width
  <2>3. QED
    BY <1>5, <1>6, <2>1, <2>2 DEF begin_index
<1>8. end_index(q) = First(q, c) + q.m_i_size
  <2>1. PICK f : f = First(q, c) + q.m_i_size
    OBVIOUS
  <2>2. f \in 0..MaxIds
    BY <1>1, <1>3, <2>1, Width
  <2>3. QED
    BY <1>5, <1>6, <2>1, <2>2 DEF end_index
<1>9. QED
  BY <1>1, <1>2, <1>3, <1>4, <1>7, <1>8

Rows(V) == {q \in UNION {Shape(c, V) : c \in PowersOfTwo} : \E c \in PowersOfTwo : Row(q, c, V)}

(* To be a queue of a table.                                               *)
LEMMA RowsAre ==
    ASSUME NEW V
    PROVE  /\ \A q, c : Row(q, c, V) => q \in Rows(V)
           /\ \A q \in Rows(V) : \E c \in PowersOfTwo : Row(q, c, V)
BY DEF Rows, Row

(* The indices of a queue are those from begin_index() up to end_index().  *)
LEMMA RowIndices ==
    ASSUME NEW V, NEW q \in Rows(V)
    PROVE  /\ begin_index(q) \in Nat /\ end_index(q) \in Nat
           /\ begin_index(q) <= end_index(q) /\ end_index(q) <= MaxIds
           /\ q.m_i_size = end_index(q) - begin_index(q)
           /\ empty(q) <=> begin_index(q) = end_index(q)
           /\ Capacity(q) \in PowersOfTwo /\ q.m_i_size <= Capacity(q)
           /\ LiveIndices(q) = begin_index(q)..(end_index(q) - 1)
           /\ \A i \in Nat : valid_index(q, i) <=> i \in LiveIndices(q)
           /\ \A i \in LiveIndices(q) : At(q, i) \in V
<1>1. PICK c \in PowersOfTwo : Row(q, c, V)
  BY RowsAre
<1> DEFINE b == begin_index(q)
           e == end_index(q)
           s == q.m_i_size
<1>2. /\ b \in Nat /\ s \in Nat /\ e = b + s /\ e <= MaxIds /\ s <= c /\ Capacity(q) = c
      /\ b = First(q, c) /\ c \in Nat \ {0}
  BY <1>1, RowIs
<1>3. \A k \in 0..(s - 1) : q.m_vec_queue[(b + k) % c] \in V
  BY <1>1, <1>2 DEF Row
<1>4. empty(q) <=> s = 0
  BY DEF empty
<1>5. LiveIndices(q) = {(b + k) % Word : k \in 0..(s - 1)}
  BY DEF LiveIndices
<1>6. \A i \in Nat : valid_index(q, i) <=> \/ b < e /\ b <= i /\ i < e
                                           \/ b > e /\ (b <= i \/ i < e)
  BY DEF valid_index
<1>7. \A i : At(q, i) = q.m_vec_queue[i % c]
  BY <1>2 DEF At
<1> HIDE DEF b, e, s
<1>8. ASSUME NEW k \in 0..(s - 1) PROVE (b + k) % Word = b + k
  <2>1. PICK a : a = b + k
    OBVIOUS
  <2>2. Word \in Nat \ {0} /\ a \in 0..(Word - 1)
    BY <1>2, <2>1, Width
  <2>3. QED
    BY <2>1, <2>2, ModSmall
<1>9. LiveIndices(q) = b..(e - 1)
  <2>1. \A k \in 0..(s - 1) : (b + k) % Word \in b..(e - 1)
    BY <1>2, <1>8
  <2>2. ASSUME NEW i \in b..(e - 1) PROVE \E k \in 0..(s - 1) : i = (b + k) % Word
    <3>1. PICK k : k = i - b
      OBVIOUS
    <3>2. k \in 0..(s - 1) /\ b + k = i
      BY <1>2, <3>1
    <3>3. QED
      BY <1>8, <3>2
  <2>3. QED
    BY <1>5, <2>1, <2>2
<1>10. ASSUME NEW i \in b..(e - 1) PROVE At(q, i) \in V
  <2>1. PICK k : k = i - b
    OBVIOUS
  <2>2. k \in 0..(s - 1) /\ b + k = i
    BY <1>2, <2>1
  <2>3. QED
    BY <1>3, <1>7, <2>2
<1>11. \A i \in Nat : valid_index(q, i) <=> i \in b..(e - 1)
  BY <1>2, <1>6
<1>12. QED
  BY <1>1, <1>2, <1>4, <1>9, <1>10, <1>11 DEF b, e, s

(* A new queue continues the indices of the one before it.                 *)
LEMMA RowNew ==
    ASSUME NEW V, NEW n \in 1..Word, NEW e \in 0..MaxIds
    PROVE  LET q == NewQueue(n, e, 0)
           IN /\ q \in Rows(V) /\ begin_index(q) = e /\ end_index(q) = e
              /\ Capacity(q) = capacity2pow(n) /\ n <= Capacity(q)
<1> DEFINE d      == capacity2pow(n)
           placed == d # 0 /\ e # 0
           start  == IF placed THEN Minus(e, 0) % d ELSE 0
           loops  == IF placed THEN Minus(Minus(e, start), 0) \div d ELSE 0
           q      == NewQueue(n, e, 0)
<1>1. d \in PowersOfTwo /\ n <= d
  BY BufferFor
<1>2. q = [m_i_start |-> start, m_i_size |-> 0, m_i_loops |-> loops,
           m_vec_queue |-> [slot \in 0..(d - 1) |-> Unset]]
  BY DEF NewQueue
<1> HIDE DEF d, q
<1>3. d \in Nat \ {0} /\ d <= Word /\ e \in Nat /\ e < Word /\ Word \in Nat \ {0}
  BY <1>1, Divisors, Width
<1>4. \A a \in 0..e : (a + Word) % Word = a
  <2> TAKE a \in 0..e
  <2>1. PICK k \in Int : k = 1
    OBVIOUS
  <2>2. a \in 0..(Word - 1) /\ a \in Int
    BY <1>3
  <2>3. (a + Word * k) % Word = a % Word /\ a % Word = a
    BY <1>3, <2>1, <2>2, ModDrops, ModSmall
  <2>4. Word * k = Word
    BY <1>3, <2>1
  <2>5. QED
    BY <2>3, <2>4
<1>5. start \in 0..(d - 1) /\ loops \in Nat /\ start + d * loops = e
  <2>1. CASE e # 0
    <3>1. Minus(e, 0) = e
      <4>1. e + Word - 0 = e + Word /\ e \in 0..e
        BY <1>3
      <4>2. QED
        BY <1>4, <4>1 DEF Minus
    <3>2. PICK k, r : k = e \div d /\ r = e % d
      OBVIOUS
    <3>3. k \in Int /\ r \in 0..(d - 1) /\ e = d * k + r
      BY <1>3, <3>2, DivMod
    <3>4. start = r
      BY <1>3, <2>1, <3>1, <3>2
    <3>5. PICK m \in Int : m = e - r
      BY <1>3, <3>3
    <3>6. m = d * k /\ m <= e
      BY <1>3, <3>3, <3>5
    <3>7. ~ (k <= -1)
      BY <1>3, <3>3, Multiple
    <3>8. m \in 0..e /\ k \in Nat
      BY <1>3, <3>3, <3>6, <3>7
    <3>9. Minus(Minus(e, start), 0) = m
      <4>1. e + Word - r = m + Word /\ m + Word - 0 = m + Word
        BY <1>3, <3>3, <3>5
      <4>2. QED
        BY <1>4, <3>1, <3>4, <3>8, <4>1 DEF Minus
    <3>10. m \div d = k
      <4>1. PICK z : z = 0
        OBVIOUS
      <4>2. m = d * k + z /\ z \in 0..(d - 1) /\ m \in Int /\ k \in Int
        BY <1>3, <3>6, <3>8, <4>1
      <4>3. QED
        BY <1>3, <4>2, ModIs
    <3>11. loops = k
      BY <1>3, <2>1, <3>9, <3>10
    <3>12. QED
      BY <1>3, <3>3, <3>4, <3>8, <3>11
  <2>2. CASE e = 0
    BY <1>3, <2>2
  <2>3. QED
    BY <2>1, <2>2
<1> HIDE DEF start, loops
<1>6. q \in Shape(d, V) /\ q.m_i_size = 0 /\ First(q, d) = e
  BY <1>2, <1>3, <1>5 DEF Shape, First
<1>7. Row(q, d, V)
  BY <1>1, <1>3, <1>6 DEF Row
<1>8. begin_index(q) = e /\ end_index(q) = e /\ Capacity(q) = d
  BY <1>3, <1>6, <1>7, RowIs
<1>9. QED
  BY <1>1, <1>7, <1>8, RowsAre DEF d, q

\* The queue with an item written anew in its slot.
Written(q, i, x) == [q EXCEPT !.m_vec_queue[i % Capacity(q)] = x]

(* An item that is written anew in its slot.                               *)
LEMMA RowSet ==
    ASSUME NEW V, NEW q \in Rows(V), NEW i \in LiveIndices(q), NEW x \in V,
           NEW r, r = Written(q, i, x)
    PROVE  /\ r \in Rows(V) /\ Capacity(r) = Capacity(q) /\ At(r, i) = x
           /\ begin_index(r) = begin_index(q) /\ end_index(r) = end_index(q)
           /\ \A j \in LiveIndices(q) \ {i} : At(r, j) = At(q, j)
<1> DEFINE b == begin_index(q)
           e == end_index(q)
<1>1. PICK c \in PowersOfTwo : Row(q, c, V)
  BY RowsAre
<1>2. /\ b \in Nat /\ e = b + q.m_i_size /\ e <= MaxIds /\ q.m_i_size \in 0..c /\ Capacity(q) = c
      /\ b = First(q, c) /\ c \in Nat \ {0}
  BY <1>1, RowIs
<1>3. LiveIndices(q) = b..(e - 1) /\ i \in b..(e - 1)
  BY RowIndices
<1> HIDE DEF b, e
<1>4. i \in Int /\ i % c \in 0..(c - 1)
  BY <1>2, <1>3, DivMod
<1>5. q \in Shape(c, V)
  BY <1>1 DEF Row
<1>6. PICK v : v = [q.m_vec_queue EXCEPT ![i % c] = x]
  OBVIOUS
<1>7. v \in [0..(c - 1) -> V \cup {Unset}] /\ \A k \in 0..(c - 1) :
        v[k] = IF k = i % c THEN x ELSE q.m_vec_queue[k]
  BY <1>4, <1>5, <1>6 DEF Shape
<1>8. r = [q EXCEPT !.m_vec_queue = v]
  BY <1>2, <1>6 DEF Written
<1>9. /\ r \in Shape(c, V) /\ r.m_vec_queue = v /\ r.m_i_size = q.m_i_size
      /\ r.m_i_start = q.m_i_start /\ r.m_i_loops = q.m_i_loops
  BY <1>5, <1>7, <1>8 DEF Shape
<1>10. ASSUME NEW j \in b..(e - 1), j # i
       PROVE  j % c # i % c
  <2>1. j \in Int /\ (i < j => j < i + c) /\ (j < i => i < j + c) /\ (i < j \/ j < i)
    BY <1>2, <1>3, <1>10
  <2>2. QED
    BY <1>2, <1>4, <2>1, Apart
<1>11. First(r, c) = b
  BY <1>2, <1>9 DEF First
<1>12. ASSUME NEW j \in b..(e - 1)
       PROVE  v[j % c] = IF j = i THEN x ELSE q.m_vec_queue[j % c]
  <2>1. j \in Int
    BY <1>2, <1>12
  <2>2. (j % c) \in 0..(c - 1)
    BY <1>2, <2>1, DivMod
  <2>3. QED
    BY <1>7, <1>10, <2>2
<1>13. \A j \in LiveIndices(q) : At(q, j) = q.m_vec_queue[j % c] /\ At(q, j) \in V
  BY <1>2, RowIndices DEF At
<1>14. ASSUME NEW k \in 0..(r.m_i_size - 1) PROVE v[(b + k) % c] \in V
  <2>1. PICK j : j = b + k
    OBVIOUS
  <2>2. j \in b..(e - 1)
    BY <1>2, <1>9, <2>1
  <2>3. QED
    BY <1>3, <1>12, <1>13, <2>1, <2>2
<1>15. Row(r, c, V)
  BY <1>1, <1>2, <1>9, <1>11, <1>14 DEF Row
<1>16. Capacity(r) = c /\ begin_index(r) = b /\ end_index(r) = e
  BY <1>2, <1>9, <1>11, <1>15, RowIs
<1>17. \A j : At(r, j) = v[j % c]
  BY <1>9, <1>16 DEF At
<1>18. QED
  BY <1>2, <1>3, <1>12, <1>13, <1>15, <1>16, <1>17, RowsAre DEF b, e

(* push() into a queue that is not full.                                   *)
LEMMA RowPush ==
    ASSUME NEW V, NEW q \in Rows(V), ~ full(q), end_index(q) < MaxIds, NEW x \in V
    PROVE  LET r == push(q, x)
           IN /\ r \in Rows(V) /\ Capacity(r) = Capacity(q)
              /\ begin_index(r) = begin_index(q) /\ end_index(r) = end_index(q) + 1
              /\ At(r, end_index(q)) = x
              /\ \A j \in LiveIndices(q) : At(r, j) = At(q, j)
<1> DEFINE r == push(q, x)
           b == begin_index(q)
           e == end_index(q)
           t == IF q.m_i_start + q.m_i_size >= Capacity(q)
                THEN q.m_i_start + q.m_i_size - Capacity(q)
                ELSE q.m_i_start + q.m_i_size
<1>1. PICK c \in PowersOfTwo : Row(q, c, V)
  BY RowsAre
<1>2. /\ b \in Nat /\ e = b + q.m_i_size /\ e <= MaxIds /\ q.m_i_size \in 0..c /\ Capacity(q) = c
      /\ b = First(q, c) /\ c \in Nat \ {0} /\ q.m_i_start \in 0..(c - 1) /\ q.m_i_loops \in Nat
  BY <1>1, RowIs
<1>3. LiveIndices(q) = b..(e - 1) /\ e < MaxIds /\ q.m_i_size < c
  <2>1. q.m_i_size # c
    BY <1>2 DEF full
  <2>2. QED
    BY <1>2, <2>1, RowIndices
<1>4. r = [q EXCEPT !.m_vec_queue[t] = x, !.m_i_size = @ + 1]
  BY DEF push, reserve
<1> HIDE DEF b, e
<1>5. t \in 0..(c - 1) /\ e % c = t
  <2>1. CASE q.m_i_start + q.m_i_size < c
    <3>1. t = q.m_i_start + q.m_i_size /\ t \in 0..(c - 1)
      BY <1>2, <2>1
    <3>2. e = c * q.m_i_loops + t
      BY <1>2, <3>1 DEF First
    <3>3. PICK l \in Int, u \in 0..(c - 1) : l = q.m_i_loops /\ u = t
      BY <1>2, <3>1
    <3>4. e \in Int /\ u \in 0..(c - 1) /\ e = c * l + u /\ c \in Nat \ {0}
      BY <1>2, <3>1, <3>2, <3>3
    <3>5. e % c = u
      BY <3>4, ModIs
    <3>6. QED
      BY <3>1, <3>3, <3>5
  <2>2. CASE q.m_i_start + q.m_i_size >= c
    <3>1. t = q.m_i_start + q.m_i_size - c /\ t \in 0..(c - 1)
      BY <1>2, <1>3, <2>2
    <3>2. PICK l \in Int, u \in 0..(c - 1) : l = q.m_i_loops + 1 /\ u = t
      BY <1>2, <3>1
    <3>3. c * l = c * q.m_i_loops + c
      BY <1>2, <3>2
    <3>4. e \in Int /\ u \in 0..(c - 1) /\ e = c * l + u /\ c \in Nat \ {0}
      BY <1>2, <3>1, <3>2, <3>3 DEF First
    <3>5. e % c = u
      BY <3>4, ModIs
    <3>6. QED
      BY <3>1, <3>2, <3>5
  <2>3. QED
    BY <1>2, <2>1, <2>2
<1> HIDE DEF t
<1>6. q \in Shape(c, V)
  BY <1>1 DEF Row
<1>7. PICK v : v = [q.m_vec_queue EXCEPT ![t] = x]
  OBVIOUS
<1>8. v \in [0..(c - 1) -> V \cup {Unset}] /\ \A k \in 0..(c - 1) :
        v[k] = IF k = t THEN x ELSE q.m_vec_queue[k]
  BY <1>5, <1>6, <1>7 DEF Shape
<1>9. PICK s : s = q.m_i_size + 1
  OBVIOUS
<1>10. r = [q EXCEPT !.m_vec_queue = v, !.m_i_size = s]
  BY <1>4, <1>7, <1>9
<1>11. s \in 0..c
  BY <1>2, <1>3, <1>9
<1>12. /\ r \in Shape(c, V) /\ r.m_vec_queue = v /\ r.m_i_size = s
       /\ r.m_i_start = q.m_i_start /\ r.m_i_loops = q.m_i_loops
  BY <1>6, <1>8, <1>10, <1>11 DEF Shape
<1> HIDE DEF r
<1>13. First(r, c) = b
  BY <1>2, <1>12 DEF First
<1>14. ASSUME NEW j \in b..(e - 1) PROVE v[j % c] = q.m_vec_queue[j % c]
  <2>1. j \in Int /\ e \in Int /\ j < e /\ e < j + c
    BY <1>2, <1>3, <1>14
  <2>2. j % c # e % c /\ j % c \in 0..(c - 1)
    BY <1>2, <2>1, Apart, DivMod
  <2>3. QED
    BY <1>5, <1>8, <2>2
<1>15. v[e % c] = x
  BY <1>5, <1>8
<1>16. \A j \in LiveIndices(q) : At(q, j) = q.m_vec_queue[j % c] /\ At(q, j) \in V
  BY <1>2, RowIndices DEF At
<1>17. ASSUME NEW k \in 0..(r.m_i_size - 1) PROVE v[(b + k) % c] \in V
  <2>1. PICK j : j = b + k
    OBVIOUS
  <2>2. j \in b..(e - 1) \/ j = e
    BY <1>2, <1>9, <1>12, <2>1
  <2>3. QED
    BY <1>3, <1>14, <1>15, <1>16, <2>1, <2>2
<1>18. First(r, c) + r.m_i_size <= MaxIds
  BY <1>2, <1>3, <1>9, <1>12, <1>13, Width
<1>19. Row(r, c, V)
  BY <1>1, <1>12, <1>13, <1>17, <1>18 DEF Row
<1>20. Capacity(r) = c /\ begin_index(r) = b /\ end_index(r) = e + 1
  <2>1. b + (q.m_i_size + 1) = e + 1
    BY <1>2
  <2>2. QED
    BY <1>9, <1>12, <1>13, <1>19, <2>1, RowIs
<1>21. \A j : At(r, j) = v[j % c]
  BY <1>12, <1>20 DEF At
<1>22. QED
  BY <1>2, <1>3, <1>14, <1>15, <1>16, <1>19, <1>20, <1>21, RowsAre DEF r, b, e

(* The closed items at the front are popped, and no other.                 *)
LEMMA RowPop ==
    ASSUME NEW V, NEW q \in Rows(V)
    PROVE  LET r == PopClosed(q)
           IN /\ r \in Rows(V) /\ Capacity(r) = Capacity(q)
              /\ end_index(r) = end_index(q) /\ begin_index(q) <= begin_index(r)
              /\ \A j \in LiveIndices(r) : At(r, j) = At(q, j)
              /\ \A j \in LiveIndices(q) \ LiveIndices(r) : At(q, j).m_closed # FALSE
<1> DEFINE r == PopClosed(q)
           b == begin_index(q)
           e == end_index(q)
           n == ClosedFirst(q)
           a == q.m_i_start + n
<1>1. PICK c \in PowersOfTwo : Row(q, c, V)
  BY RowsAre
<1>2. /\ b \in Nat /\ e = b + q.m_i_size /\ e <= MaxIds /\ q.m_i_size \in 0..c /\ Capacity(q) = c
      /\ b = First(q, c) /\ c \in Nat \ {0} /\ q.m_i_start \in 0..(c - 1) /\ q.m_i_loops \in Nat
  BY <1>1, RowIs
<1>3. LiveIndices(q) = b..(e - 1)
  BY RowIndices
<1>4. /\ n \in 0..q.m_i_size
      /\ \A k \in 0..(n - 1) : At(q, (b + k) % Word).m_closed # FALSE
  <2> DEFINE S == {k \in 0..q.m_i_size :
                     k = q.m_i_size \/ ~At(q, (begin_index(q) + k) % Word).m_closed}
  <2>1. S \subseteq Nat /\ q.m_i_size \in S
    BY <1>2
  <2>2. n = Min(S)
    BY DEF ClosedFirst
  <2>3. n \in S /\ \A y \in S : n <= y
    BY <2>1, <2>2, MinIs
  <2>4. ASSUME NEW k \in 0..(n - 1) PROVE At(q, (b + k) % Word).m_closed # FALSE
    <3>1. k \notin S /\ k \in 0..q.m_i_size
      BY <2>1, <2>3
    <3>2. QED
      BY <3>1
  <2>5. QED
    BY <2>3, <2>4
<1> HIDE DEF b, e, n
<1>5. ASSUME NEW k \in 0..(n - 1) PROVE At(q, b + k).m_closed # FALSE
  <2>1. PICK i : i = b + k
    OBVIOUS
  <2>2. i \in 0..(Word - 1) /\ Word \in Nat \ {0}
    BY <1>2, <1>4, <2>1, Width
  <2>3. i % Word = i
    BY <2>2, ModSmall
  <2>4. QED
    BY <1>4, <2>1, <2>3
<1> DEFINE left == {(q.m_i_start + k) % c : k \in 0..(n - 1)}
<1>6. r = [m_i_start |-> a % c, m_i_size |-> q.m_i_size - n,
           m_i_loops |-> (q.m_i_loops + a \div c) % Word,
           m_vec_queue |-> [slot \in DOMAIN q.m_vec_queue |->
                              IF slot \in left THEN Unset ELSE q.m_vec_queue[slot]]]
  BY <1>2 DEF PopClosed, n
<1>7. q \in Shape(c, V)
  BY <1>1 DEF Row
<1>8. PICK v : v = [slot \in 0..(c - 1) |-> IF slot \in left THEN Unset ELSE q.m_vec_queue[slot]]
  OBVIOUS
<1>9. /\ v \in [0..(c - 1) -> V \cup {Unset}]
      /\ \A k \in 0..(c - 1) : k \notin left => v[k] = q.m_vec_queue[k]
      /\ DOMAIN q.m_vec_queue = 0..(c - 1)
  BY <1>7, <1>8 DEF Shape
<1> HIDE DEF left
<1>10. PICK s, l : s = a % c /\ l = a \div c
  OBVIOUS
<1>11. s \in 0..(c - 1) /\ l \in Int /\ a = c * l + s /\ a \in Nat
  <2>1. PICK f \in Nat : f = a
    BY <1>2, <1>4
  <2>. f \in Int /\ c \in Nat \ {0}
    BY <1>2
  <2>2. f \div c \in Int /\ (f % c) \in 0..(c - 1) /\ f = c * (f \div c) + (f % c)
    BY DivMod
  <2>3. s = f % c /\ l = f \div c
    BY <1>10, <2>1
  <2>4. QED
    BY <2>1, <2>2, <2>3
<1> HIDE DEF a
<1>12. PICK m, h : h = q.m_i_loops /\ m = h + l
  OBVIOUS
<1>h. h \in Nat /\ c \in Nat \ {0} /\ a = q.m_i_start + n /\ b = q.m_i_start + c * h
  BY <1>2, <1>12 DEF First, a
<1>m. m \in Nat /\ s + c * m = b + n /\ m < Word
  <2>1. ~ (l <= -1)
    <3>1. SUFFICES ASSUME l <= -1 PROVE FALSE
      OBVIOUS
    <3>2. c * l <= -c
      BY <1>11, <1>h, <3>1, Multiple
    <3>3. QED
      BY <1>11, <1>h, <3>2
  <2>2. m \in Nat
    BY <1>11, <1>12, <1>h, <2>1
  <2>3. c * m = c * h + c * l /\ c * h \in Int /\ c * l \in Int /\ c * m \in Nat
    BY <1>11, <1>12, <1>h, <2>2
  <2>4. s + c * m = b + n
    BY <1>2, <1>4, <1>11, <1>h, <2>3
  <2>5. c * m <= MaxIds
    <3>1. b + n <= MaxIds /\ b + n \in Int
      <4>1. n \in Nat /\ n <= q.m_i_size /\ q.m_i_size \in Nat
        BY <1>2, <1>4
      <4>2. b \in Nat /\ b + q.m_i_size <= MaxIds /\ MaxIds \in Nat
        BY <1>2, Width
      <4>3. QED
        BY <4>1, <4>2
    <3>2. QED
      BY <1>11, <2>3, <2>4, <3>1, Width
  <2>6. m <= c * m
    <3>1. PICK d \in Nat : c = d + 1
      BY <1>h
    <3>2. (d + 1) * m = d * m + m /\ d * m >= 0
      BY <2>2
    <3>3. QED
      BY <2>2, <3>1, <3>2
  <2>7. QED
    BY <2>2, <2>3, <2>4, <2>5, <2>6, Width
<1>13. m % Word = m
  BY <1>m, Width, ModSmall
<1>14. PICK z : z = q.m_i_size - n
  OBVIOUS
<1>15. r = [m_i_start |-> s, m_i_size |-> z, m_i_loops |-> m, m_vec_queue |-> v]
  BY <1>6, <1>8, <1>9, <1>10, <1>12, <1>13, <1>14
<1>16. z \in 0..c /\ z \in Int /\ z = q.m_i_size - n
  BY <1>2, <1>4, <1>14
<1>17. /\ r \in Shape(c, V) /\ r.m_vec_queue = v /\ r.m_i_size = z /\ First(r, c) = b + n
  BY <1>9, <1>11, <1>m, <1>15, <1>16 DEF Shape, First
<1> HIDE DEF r
<1>18. ASSUME NEW j \in (b + n)..(e - 1) PROVE v[j % c] = q.m_vec_queue[j % c]
  <2>1. ASSUME NEW k \in 0..(n - 1) PROVE (q.m_i_start + k) % c # j % c
    <3>1. PICK i, g, y : i = b + k /\ g = q.m_i_start + k /\ y = q.m_i_loops
      OBVIOUS
    <3>2. i \in Int /\ g \in Int /\ y \in Int /\ i = g + c * y
      BY <1>2, <1>4, <3>1 DEF First
    <3>3. i % c = g % c
      BY <1>2, <3>2, ModDrops
    <3>4. j \in Int /\ i < j /\ j < i + c
      BY <1>2, <1>4, <3>1
    <3>5. i % c # j % c
      BY <1>2, <3>2, <3>4, Apart
    <3>6. QED
      BY <3>1, <3>3, <3>5
  <2>2. j \in Int
    BY <1>2, <1>4
  <2>3. j % c \in 0..(c - 1)
    BY <1>2, <2>2, DivMod
  <2>4. QED
    BY <1>9, <2>1, <2>3 DEF left
<1>19. \A j \in LiveIndices(q) : At(q, j) = q.m_vec_queue[j % c] /\ At(q, j) \in V
  BY <1>2, RowIndices DEF At
<1>20. ASSUME NEW k \in 0..(r.m_i_size - 1) PROVE v[((b + n) + k) % c] \in V
  <2>1. PICK j : j = (b + n) + k
    OBVIOUS
  <2>2. j \in (b + n)..(e - 1) /\ j \in b..(e - 1)
    BY <1>2, <1>4, <1>16, <1>17, <2>1
  <2>3. QED
    BY <1>3, <1>18, <1>19, <2>1, <2>2
<1>21. First(r, c) + r.m_i_size <= MaxIds
  BY <1>2, <1>4, <1>16, <1>17
<1>22. Row(r, c, V)
  BY <1>1, <1>17, <1>20, <1>21 DEF Row
<1>23. Capacity(r) = c /\ begin_index(r) = b + n /\ end_index(r) = e
  <2>1. (b + n) + (q.m_i_size - n) = e
    BY <1>2, <1>4
  <2>2. QED
    BY <1>16, <1>17, <1>22, <2>1, RowIs
<1>24. \A j : At(r, j) = v[j % c]
  BY <1>17, <1>23 DEF At
<1>25. r \in Rows(V) /\ LiveIndices(r) = (b + n)..(e - 1)
  <2>1. r \in Rows(V)
    BY <1>22, RowsAre
  <2>2. QED
    BY <1>23, <2>1, RowIndices
<1>26. ASSUME NEW j \in LiveIndices(r) PROVE At(r, j) = At(q, j)
  <2>1. j \in LiveIndices(q)
    BY <1>2, <1>3, <1>4, <1>25
  <2>2. QED
    BY <1>18, <1>19, <1>24, <1>25, <2>1
<1>27. ASSUME NEW j \in LiveIndices(q) \ LiveIndices(r) PROVE At(q, j).m_closed # FALSE
  <2>1. PICK k : k = j - b
    OBVIOUS
  <2>2. j \in b..(e - 1) /\ j \notin (b + n)..(e - 1)
    BY <1>3, <1>25
  <2>3. b \in Int /\ n \in Int /\ e \in Int
    BY <1>2, <1>4
  <2>4. k \in 0..(n - 1) /\ j = b + k
    BY <2>1, <2>2, <2>3
  <2>5. QED
    BY <1>5, <2>4
<1>28. b <= b + n
  BY <1>2, <1>4
<1>29. QED
  BY <1>2, <1>23, <1>25, <1>26, <1>27, <1>28 DEF r, b, e

-----------------------------------------------------------------------------
(* The lists of queues whose items are in V: the indices go up from queue  *)
(* to queue.                                                               *)
Lists(V) ==
    {L \in Seq(Rows(V)) :
       \A m, n \in DOMAIN L : m < n => end_index(L[m]) <= begin_index(L[n])}

\* The size of the buffer where an item is.
Home(L, id) == Capacity(L[Holder(L, id)])

(* An id is in one queue of the list, and so is its item.                  *)
LEMMA HolderIs ==
    ASSUME NEW V, NEW L \in Lists(V), NEW n \in DOMAIN L, NEW id \in LiveIndices(L[n])
    PROVE  /\ Holder(L, id) = n /\ Item(L, id) = At(L[n], id) /\ Item(L, id) \in V
           /\ Home(L, id) = Capacity(L[n])
           /\ id \in Ids(L) /\ id \in Nat /\ Holds(L, id)
<1>1. L \in Seq(Rows(V)) /\ DOMAIN L = 1..Len(L) /\ Len(L) \in Nat
  BY DEF Lists
<1>2. \A m \in DOMAIN L : L[m] \in Rows(V)
  BY <1>1
<1>3. id \in Nat
  BY <1>2, RowIndices
<1>4. ASSUME NEW m \in DOMAIN L, valid_index(L[m], id) PROVE m = n
  <2>1. id \in LiveIndices(L[m])
    BY <1>2, <1>3, <1>4, RowIndices
  <2>2. ASSUME NEW k \in DOMAIN L PROVE
          begin_index(L[k]) \in Nat /\ end_index(L[k]) \in Nat
    BY <1>2, RowIndices
  <2>3. /\ begin_index(L[m]) <= id /\ id < end_index(L[m])
        /\ begin_index(L[n]) <= id /\ id < end_index(L[n])
    BY <1>2, <1>3, <2>1, <2>2, RowIndices
  <2>4. m < n => end_index(L[m]) <= begin_index(L[n])
    BY DEF Lists
  <2>5. n < m => end_index(L[n]) <= begin_index(L[m])
    BY DEF Lists
  <2>6. m \in Nat /\ n \in Nat
    BY <1>1
  <2>7. QED
    BY <1>3, <2>2, <2>3, <2>4, <2>5, <2>6
<1>5. valid_index(L[n], id)
  BY <1>2, <1>3, RowIndices
<1>6. Holder(L, id) = n
  <2>1. {m \in DOMAIN L : valid_index(L[m], id)} = {n}
    BY <1>4, <1>5
  <2>2. {n} \subseteq Nat /\ {n} # {}
    BY <1>1
  <2>3. Min({n}) \in {n}
    BY <2>2, MinIs
  <2>4. QED
    BY <2>1, <2>3 DEF Holder
<1>7. At(L[n], id) \in V
  BY <1>2, RowIndices
<1>8. QED
  BY <1>3, <1>5, <1>6, <1>7 DEF Item, Home, Ids, Holds

(* What the ids of a list are.                                             *)
LEMMA IdsAre ==
    ASSUME NEW V, NEW L \in Lists(V)
    PROVE  /\ L = <<>> => Ids(L) = {}
           /\ L # <<>> => /\ Len(L) \in DOMAIN L /\ NextId(L) \in 0..MaxIds
                          /\ \A id \in Ids(L) : id < NextId(L)
           /\ \A id \in Ids(L) :
                /\ id \in 0..(MaxIds - 1)
                /\ \E n \in DOMAIN L : id \in LiveIndices(L[n])
           /\ \A id \in Nat : Holds(L, id) <=> id \in Ids(L)
<1>1. L \in Seq(Rows(V)) /\ DOMAIN L = 1..Len(L) /\ Len(L) \in Nat
  BY DEF Lists
<1>2. \A m \in DOMAIN L : L[m] \in Rows(V)
  BY <1>1
<1>3. \A id \in Ids(L) : \E n \in DOMAIN L : id \in LiveIndices(L[n])
  BY DEF Ids
<1>4. ASSUME NEW k \in DOMAIN L
      PROVE  /\ begin_index(L[k]) \in Nat /\ end_index(L[k]) \in Nat /\ end_index(L[k]) <= MaxIds
             /\ begin_index(L[k]) <= end_index(L[k])
             /\ \A id \in LiveIndices(L[k]) : id \in Nat /\ id < end_index(L[k])
  BY <1>2, RowIndices
<1>5. ASSUME NEW id \in Ids(L) PROVE id \in 0..(MaxIds - 1)
  <2>1. PICK n \in DOMAIN L : id \in LiveIndices(L[n])
    BY <1>3
  <2>2. QED
    BY <1>4, <2>1, Width
<1>6. ASSUME L # <<>>
      PROVE  /\ Len(L) \in DOMAIN L /\ NextId(L) \in 0..MaxIds
             /\ \A id \in Ids(L) : id < NextId(L)
  <2>1. Len(L) \in DOMAIN L
    BY <1>1, <1>6
  <2>2. NextId(L) \in 0..MaxIds
    BY <1>4, <2>1, Width DEF NextId
  <2>3. ASSUME NEW id \in Ids(L) PROVE id < NextId(L)
    <3>1. PICK n \in DOMAIN L : id \in LiveIndices(L[n])
      BY <1>3
    <3>2. CASE n = Len(L)
      BY <1>4, <3>1, <3>2 DEF NextId
    <3>3. CASE n < Len(L)
      <4>1. end_index(L[n]) <= begin_index(L[Len(L)])
        BY <2>1, <3>3 DEF Lists
      <4>2. id \in Nat /\ id < end_index(L[n]) /\ end_index(L[n]) \in Nat
        BY <1>4, <3>1
      <4>3. QED
        BY <1>4, <2>1, <4>1, <4>2 DEF NextId
    <3>4. QED
      BY <1>1, <3>2, <3>3
  <2>4. QED
    BY <2>1, <2>2, <2>3
<1>7. L = <<>> => Ids(L) = {}
  BY <1>1, <1>3
<1>8. ASSUME NEW id \in Nat PROVE Holds(L, id) <=> id \in Ids(L)
  BY <1>2, RowIndices DEF Holds, Ids
<1>9. QED
  BY <1>3, <1>5, <1>6, <1>7, <1>8

\* The list with another queue in a place.
Put(L, n, r) == [L EXCEPT ![n] = r]

(* A queue of the list changes, without taking indices of another.         *)
LEMMA Replaced ==
    ASSUME NEW V, NEW L \in Lists(V), NEW n \in DOMAIN L, NEW r \in Rows(V),
           begin_index(L[n]) <= begin_index(r),
           end_index(L[n]) <= end_index(r),
           n = Len(L) \/ end_index(r) = end_index(L[n])
    PROVE  LET M == Put(L, n, r)
           IN /\ M \in Lists(V) /\ M # <<>> /\ Len(M) = Len(L) /\ M[n] = r
              /\ NextId(M) = IF n = Len(L) THEN end_index(r) ELSE NextId(L)
              /\ Ids(M) = (Ids(L) \ LiveIndices(L[n])) \cup LiveIndices(r)
              /\ \A id \in Ids(L) \ LiveIndices(L[n]) :
                   Item(M, id) = Item(L, id) /\ Home(M, id) = Home(L, id)
              /\ \A id \in LiveIndices(r) : Item(M, id) = At(r, id) /\ Home(M, id) = Capacity(r)
<1> DEFINE M == Put(L, n, r)
<1>1. L \in Seq(Rows(V)) /\ DOMAIN L = 1..Len(L) /\ Len(L) \in Nat
  BY DEF Lists
<1>2. /\ M \in Seq(Rows(V)) /\ Len(M) = Len(L) /\ DOMAIN M = DOMAIN L
      /\ M[n] = r /\ \A m \in DOMAIN L \ {n} : M[m] = L[m]
  BY <1>1 DEF Put
<1> HIDE DEF M
<1>3. ASSUME NEW k \in DOMAIN L
      PROVE  /\ begin_index(L[k]) \in Nat /\ end_index(L[k]) \in Nat
             /\ begin_index(M[k]) \in Nat /\ end_index(M[k]) \in Nat
  <2>1. L[k] \in Rows(V) /\ M[k] \in Rows(V)
    BY <1>1, <1>2
  <2>2. QED
    BY <2>1, RowIndices
<1>4. ASSUME NEW i \in DOMAIN M, NEW j \in DOMAIN M, i < j
      PROVE  end_index(M[i]) <= begin_index(M[j])
  <2>1. end_index(L[i]) <= begin_index(L[j])
    BY <1>2, <1>4 DEF Lists
  <2>2. i # Len(L)
    BY <1>1, <1>2, <1>4
  <2>3. end_index(M[i]) = end_index(L[i])
    BY <1>2, <2>2
  <2>4. begin_index(L[j]) <= begin_index(M[j])
    <3>1. CASE j = n
      BY <1>2, <3>1
    <3>2. CASE j # n
      <4>1. M[j] = L[j] /\ begin_index(L[j]) \in Nat
        BY <1>2, <1>3, <3>2
      <4>2. QED
        BY <4>1
    <3>3. QED
      BY <3>1, <3>2
  <2>5. QED
    BY <1>2, <1>3, <2>1, <2>3, <2>4
<1>5. M \in Lists(V) /\ M # <<>>
  BY <1>1, <1>2, <1>4 DEF Lists
<1>6. \A k \in DOMAIN M : \A id \in LiveIndices(M[k]) :
         Item(M, id) = At(M[k], id) /\ Home(M, id) = Capacity(M[k]) /\ id \in Ids(M)
  BY <1>5, HolderIs
<1>7. \A k \in DOMAIN L : \A id \in LiveIndices(L[k]) :
         Item(L, id) = At(L[k], id) /\ Home(L, id) = Capacity(L[k]) /\ id \in Ids(L)
  BY HolderIs
<1>8. ASSUME NEW id \in Ids(L) \ LiveIndices(L[n])
      PROVE  Item(M, id) = Item(L, id) /\ Home(M, id) = Home(L, id) /\ id \in Ids(M)
  <2>1. PICK k \in DOMAIN L : id \in LiveIndices(L[k])
    BY IdsAre
  <2>2. k # n
    BY <2>1
  <2>3. M[k] = L[k] /\ k \in DOMAIN M
    BY <1>2, <2>2
  <2>4. QED
    BY <1>6, <1>7, <2>1, <2>3
<1>9. \A id \in LiveIndices(r) :
         Item(M, id) = At(r, id) /\ Home(M, id) = Capacity(r) /\ id \in Ids(M)
  BY <1>2, <1>6
<1>10. ASSUME NEW id \in Ids(M), id \notin LiveIndices(r)
       PROVE  id \in Ids(L) \ LiveIndices(L[n])
  <2>1. PICK k \in DOMAIN M : id \in LiveIndices(M[k])
    BY <1>5, IdsAre
  <2>2. k # n
    BY <1>2, <1>10, <2>1
  <2>3. id \in LiveIndices(L[k]) /\ k \in DOMAIN L
    BY <1>2, <2>1, <2>2
  <2>4. id \in Ids(L) /\ Holder(L, id) = k
    BY <2>3, HolderIs
  <2>5. id \notin LiveIndices(L[n])
    BY <2>2, <2>4, HolderIs
  <2>6. QED
    BY <2>4, <2>5
<1>11. Ids(M) = (Ids(L) \ LiveIndices(L[n])) \cup LiveIndices(r)
  BY <1>8, <1>9, <1>10
<1>12. NextId(M) = IF n = Len(L) THEN end_index(r) ELSE NextId(L)
  <2>1. Len(L) \in DOMAIN L
    BY <1>1
  <2>2. QED
    BY <1>2, <2>1 DEF NextId
<1>13. QED
  BY <1>2, <1>5, <1>8, <1>9, <1>11, <1>12 DEF M

\* An item is where it was and what it was.
SameItem(M, L, id) == Item(M, id) = Item(L, id) /\ Home(M, id) = Home(L, id)

(* An item is written anew.                                                *)
LEMMA ListSet ==
    ASSUME NEW V, NEW L \in Lists(V), NEW id \in Ids(L), NEW x \in V
    PROVE  LET M == SetItem(L, id, x)
           IN /\ M \in Lists(V) /\ M # <<>> /\ L # <<>>
              /\ Ids(M) = Ids(L) /\ NextId(M) = NextId(L)
              /\ Item(M, id) = x /\ Home(M, id) = Home(L, id)
              /\ \A j \in Ids(L) \ {id} : SameItem(M, L, j)
<1>1. PICK n \in DOMAIN L : id \in LiveIndices(L[n])
  BY IdsAre
<1>2. Holder(L, id) = n /\ Home(L, id) = Capacity(L[n])
  BY <1>1, HolderIs
<1>3. L[n] \in Rows(V) /\ L # <<>>
  BY DEF Lists
<1> DEFINE r == Written(L[n], id, x)
<1>4. /\ r \in Rows(V) /\ Capacity(r) = Capacity(L[n]) /\ At(r, id) = x
      /\ begin_index(r) = begin_index(L[n]) /\ end_index(r) = end_index(L[n])
      /\ \A j \in LiveIndices(L[n]) \ {id} : At(r, j) = At(L[n], j)
  BY <1>1, <1>3, RowSet
<1>5. SetItem(L, id, x) = Put(L, n, r)
  BY <1>2 DEF SetItem, Written, Put
<1> HIDE DEF r
<1>6. LiveIndices(r) = LiveIndices(L[n]) /\ LiveIndices(L[n]) \subseteq Ids(L)
  BY <1>3, <1>4, RowIndices DEF Ids
<1> DEFINE M == Put(L, n, r)
<1>7. begin_index(L[n]) <= begin_index(r) /\ end_index(L[n]) <= end_index(r)
  BY <1>3, <1>4, RowIndices
<1>8. /\ M \in Lists(V) /\ M # <<>> /\ Len(M) = Len(L) /\ M[n] = r
      /\ NextId(M) = IF n = Len(L) THEN end_index(r) ELSE NextId(L)
      /\ Ids(M) = (Ids(L) \ LiveIndices(L[n])) \cup LiveIndices(r)
      /\ \A j \in Ids(L) \ LiveIndices(L[n]) :
           Item(M, j) = Item(L, j) /\ Home(M, j) = Home(L, j)
      /\ \A j \in LiveIndices(r) : Item(M, j) = At(r, j) /\ Home(M, j) = Capacity(r)
  BY <1>4, <1>7, Replaced
<1> HIDE DEF M
<1>9. NextId(M) = NextId(L)
  BY <1>4, <1>8 DEF NextId
<1>10. Item(M, id) = x /\ Home(M, id) = Home(L, id)
  BY <1>1, <1>2, <1>4, <1>6, <1>8
<1>11. ASSUME NEW j \in Ids(L) \ {id} PROVE SameItem(M, L, j)
  <2>1. CASE j \in LiveIndices(L[n])
    <3>1. Item(L, j) = At(L[n], j) /\ Home(L, j) = Capacity(L[n])
      BY <2>1, HolderIs
    <3>2. QED
      BY <1>4, <1>6, <1>8, <2>1, <3>1 DEF SameItem
  <2>2. CASE j \notin LiveIndices(L[n])
    BY <1>8, <2>2 DEF SameItem
  <2>3. QED
    BY <2>1, <2>2
<1>12. QED
  BY <1>3, <1>5, <1>6, <1>8, <1>9, <1>10, <1>11 DEF M

(* A full last queue is followed by a new one.                             *)
LEMMA ListRoom ==
    ASSUME NEW V, NEW L \in Lists(V), NEW c \in PowersOfTwo
    PROVE  LET M == WithRoom(L, c)
           IN /\ M \in Lists(V) /\ M # <<>> /\ Ids(M) = Ids(L)
              /\ ~ full(M[Len(M)])
              /\ NextId(M) = IF L = <<>> THEN 0 ELSE NextId(L)
              /\ \A j \in Ids(L) : SameItem(M, L, j)
<1>1. L \in Seq(Rows(V)) /\ DOMAIN L = 1..Len(L) /\ Len(L) \in Nat
  BY DEF Lists
<1>2. ASSUME NEW n \in 1..Word, NEW e \in 0..MaxIds
      PROVE  /\ NewQueue(n, e, 0) \in Rows(V) /\ begin_index(NewQueue(n, e, 0)) = e
             /\ end_index(NewQueue(n, e, 0)) = e /\ ~ full(NewQueue(n, e, 0))
             /\ LiveIndices(NewQueue(n, e, 0)) = {}
  <2> DEFINE q == NewQueue(n, e, 0)
  <2>1. q \in Rows(V) /\ begin_index(q) = e /\ end_index(q) = e /\ n <= Capacity(q)
    BY RowNew
  <2> HIDE DEF q
  <2>2. q.m_i_size = 0 /\ LiveIndices(q) = {} /\ Capacity(q) \in PowersOfTwo
    BY <2>1, RowIndices, Width
  <2>3. 0 # Capacity(q)
    BY <2>2, Divisors
  <2>4. QED
    BY <2>1, <2>2, <2>3 DEF full, q
<1>3. CASE L = <<>>
  <2> DEFINE q == NewQueue(c, 0, 0)
  <2>1. c \in 1..Word /\ 0 \in 0..MaxIds
    BY Divisors, Width
  <2>2. q \in Rows(V) /\ end_index(q) = 0 /\ ~ full(q) /\ LiveIndices(q) = {}
    BY <1>2, <2>1
  <2>3. WithRoom(L, c) = <<q>>
    BY <1>3 DEF WithRoom
  <2> HIDE DEF q
  <2>4. <<q>> \in Seq(Rows(V)) /\ Len(<<q>>) = 1 /\ DOMAIN <<q>> = {1} /\ <<q>>[1] = q /\ <<q>> # <<>>
    BY <2>2
  <2>5. <<q>> \in Lists(V)
    BY <2>4 DEF Lists
  <2>6. Ids(<<q>>) = {} /\ Ids(L) = {}
    <3>1. Ids(L) = {}
      BY <1>3, IdsAre
    <3>2. \A id \in Ids(<<q>>) : \E n \in DOMAIN <<q>> : id \in LiveIndices(<<q>>[n])
      BY <2>5, IdsAre
    <3>3. QED
      BY <2>2, <2>4, <3>1, <3>2
  <2>7. QED
    BY <1>3, <2>2, <2>3, <2>4, <2>5, <2>6 DEF NextId
<1>4. CASE L # <<>> /\ ~ full(L[Len(L)])
  BY <1>4 DEF WithRoom, SameItem
<1>5. CASE L # <<>> /\ full(L[Len(L)])
  <2> DEFINE p == L[Len(L)]
             e == NextId(L)
             d == p.m_i_size * 2
             q == NewQueue(d, e, 0)
             M == Append(L, q)
  <2>1. p \in Rows(V) /\ e \in 0..MaxIds /\ Len(L) \in DOMAIN L /\ e = end_index(p)
    BY <1>1, <1>5, IdsAre DEF NextId
  <2>2. d \in 1..Word
    <3>1. p.m_i_size = Capacity(p) /\ Capacity(p) \in PowersOfTwo /\ p.m_i_size <= MaxIds
      <4>1. p.m_i_size = Capacity(p)
        BY <1>5 DEF full
      <4>2. /\ Capacity(p) \in PowersOfTwo /\ p.m_i_size = end_index(p) - begin_index(p)
            /\ begin_index(p) \in Nat /\ end_index(p) \in Nat /\ end_index(p) <= MaxIds
        BY <2>1, RowIndices
      <4>3. QED
        BY <4>1, <4>2, Width
    <3>2. Capacity(p) < Word /\ Capacity(p) \in Nat
      BY <3>1, Divisors, Width
    <3>3. 2 * Capacity(p) \in 1..Word
      BY <3>1, <3>2, TwiceFits
    <3>4. QED
      BY <3>1, <3>2, <3>3
  <2> HIDE DEF d
  <2>3. /\ q \in Rows(V) /\ begin_index(q) = e /\ end_index(q) = e /\ ~ full(q)
        /\ LiveIndices(q) = {}
    BY <1>2, <2>1, <2>2
  <2>4. WithRoom(L, c) = M
    BY <1>5 DEF WithRoom, d
  <2> HIDE DEF q
  <2>5. /\ M \in Seq(Rows(V)) /\ Len(M) = Len(L) + 1 /\ DOMAIN M = 1..(Len(L) + 1)
        /\ M[Len(L) + 1] = q /\ \A m \in DOMAIN L : M[m] = L[m]
    BY <1>1, <2>3
  <2> HIDE DEF M, p
  <2>6. ASSUME NEW k \in DOMAIN L
        PROVE  end_index(L[k]) <= e /\ end_index(L[k]) \in Nat
    <3>1. L[k] \in Rows(V) /\ end_index(L[k]) \in Nat
      BY <1>1, RowIndices
    <3>2. CASE k = Len(L)
      BY <2>1, <3>1, <3>2 DEF p
    <3>3. CASE k < Len(L)
      <4>1. end_index(L[k]) <= begin_index(p)
        BY <2>1, <3>3 DEF Lists, p
      <4>2. begin_index(p) <= end_index(p) /\ begin_index(p) \in Nat /\ end_index(p) \in Nat
        BY <2>1, RowIndices
      <4>3. QED
        BY <2>1, <3>1, <4>1, <4>2
    <3>4. QED
      BY <1>1, <3>2, <3>3
  <2>7. ASSUME NEW i \in DOMAIN M, NEW j \in DOMAIN M, i < j
        PROVE  end_index(M[i]) <= begin_index(M[j])
    <3>1. i \in DOMAIN L /\ (j \in DOMAIN L \/ j = Len(L) + 1)
      BY <1>1, <2>5, <2>7
    <3>2. CASE j \in DOMAIN L
      BY <2>5, <2>7, <3>1, <3>2 DEF Lists
    <3>3. CASE j = Len(L) + 1
      BY <2>3, <2>5, <2>6, <3>1, <3>3
    <3>4. QED
      BY <3>1, <3>2, <3>3
  <2>8. M \in Lists(V) /\ M # <<>>
    BY <1>1, <2>5, <2>7 DEF Lists
  <2>9. ASSUME NEW j \in Ids(L) PROVE SameItem(M, L, j) /\ j \in Ids(M)
    <3>1. PICK k \in DOMAIN L : j \in LiveIndices(L[k])
      BY IdsAre
    <3>2. M[k] = L[k] /\ k \in DOMAIN M
      BY <1>1, <2>5
    <3>3. /\ Item(M, j) = At(L[k], j) /\ Home(M, j) = Capacity(L[k]) /\ j \in Ids(M)
          /\ Item(L, j) = At(L[k], j) /\ Home(L, j) = Capacity(L[k])
      BY <2>8, <3>1, <3>2, HolderIs
    <3>4. QED
      BY <3>3 DEF SameItem
  <2>10. ASSUME NEW j \in Ids(M) PROVE j \in Ids(L)
    <3>1. PICK k \in DOMAIN M : j \in LiveIndices(M[k])
      BY <2>8, IdsAre
    <3>2. k \in DOMAIN L
      BY <1>1, <2>3, <2>5, <3>1
    <3>3. QED
      BY <2>5, <3>1, <3>2, HolderIs
  <2>11. NextId(M) = e /\ ~ full(M[Len(M)])
    BY <2>3, <2>5 DEF NextId
  <2>12. QED
    BY <1>5, <2>4, <2>8, <2>9, <2>10, <2>11
<1>6. QED
  BY <1>3, <1>4, <1>5

(* The item added gets the next index.                                     *)
LEMMA ListAdd ==
    ASSUME NEW V, NEW L \in Lists(V), L # <<>>, ~ full(L[Len(L)]), NextId(L) < MaxIds,
           NEW x \in V
    PROVE  LET M == AddItem(L, x)
           IN /\ M \in Lists(V) /\ M # <<>> /\ NextId(M) = NextId(L) + 1
              /\ Ids(M) = Ids(L) \cup {NextId(L)} /\ NextId(L) \notin Ids(L)
              /\ Item(M, NextId(L)) = x
              /\ \A j \in Ids(L) : SameItem(M, L, j)
<1> DEFINE n == Len(L)
           p == L[n]
           e == end_index(p)
           r == push(p, x)
           M == Put(L, n, r)
<1>1. L \in Seq(Rows(V)) /\ n \in DOMAIN L /\ NextId(L) = e
  BY IdsAre DEF Lists, NextId
<1>2. p \in Rows(V) /\ ~ full(p) /\ e < MaxIds
  BY <1>1
<1>3. AddItem(L, x) = M
  BY DEF AddItem, Put
<1>4. /\ r \in Rows(V) /\ Capacity(r) = Capacity(p)
      /\ begin_index(r) = begin_index(p) /\ end_index(r) = e + 1
      /\ At(r, e) = x /\ \A j \in LiveIndices(p) : At(r, j) = At(p, j)
  BY <1>2, RowPush
<1>5. /\ begin_index(p) \in Nat /\ e \in Nat /\ begin_index(p) <= e
      /\ LiveIndices(p) = begin_index(p)..(e - 1) /\ LiveIndices(r) = begin_index(r)..(e + 1 - 1)
  BY <1>2, <1>4, RowIndices
<1>6. LiveIndices(r) = LiveIndices(p) \cup {e} /\ e \notin LiveIndices(p)
  BY <1>4, <1>5
<1>7. begin_index(p) <= begin_index(r) /\ e <= end_index(r)
  BY <1>4, <1>5
<1> HIDE DEF r
<1>8. /\ M \in Lists(V) /\ M # <<>> /\ NextId(M) = end_index(r)
      /\ Ids(M) = (Ids(L) \ LiveIndices(p)) \cup LiveIndices(r)
      /\ \A j \in Ids(L) \ LiveIndices(p) : Item(M, j) = Item(L, j) /\ Home(M, j) = Home(L, j)
      /\ \A j \in LiveIndices(r) : Item(M, j) = At(r, j) /\ Home(M, j) = Capacity(r)
  BY <1>1, <1>4, <1>7, Replaced
<1> HIDE DEF M
<1>9. LiveIndices(p) \subseteq Ids(L)
  BY <1>1 DEF Ids
<1>10. ASSUME NEW j \in Ids(L) PROVE SameItem(M, L, j)
  <2>1. CASE j \in LiveIndices(p)
    <3>1. Item(L, j) = At(p, j) /\ Home(L, j) = Capacity(p)
      BY <1>1, <2>1, HolderIs
    <3>2. QED
      BY <1>4, <1>6, <1>8, <2>1, <3>1 DEF SameItem
  <2>2. CASE j \notin LiveIndices(p)
    BY <1>8, <2>2 DEF SameItem
  <2>3. QED
    BY <2>1, <2>2
<1>11. e \notin Ids(L)
  <2>1. \A id \in Ids(L) : id < e
    BY <1>1, IdsAre
  <2>2. QED
    BY <1>5, <2>1
<1> HIDE DEF e, p, n
<1>12. Ids(M) = Ids(L) \cup {e} /\ Item(M, e) = x
  BY <1>4, <1>6, <1>8, <1>9
<1>13. QED
  BY <1>1, <1>3, <1>4, <1>8, <1>10, <1>11, <1>12

(* RemoveAt of the community modules.                                      *)
LEMMA RemoveAtIs ==
    ASSUME NEW S, NEW L \in Seq(S), NEW n \in DOMAIN L
    PROVE  LET M == RemoveAt(L, n)
           IN /\ M \in Seq(S) /\ Len(M) = Len(L) - 1
              /\ \A k \in 1..(Len(L) - 1) : M[k] = L[IF k < n THEN k ELSE k + 1]
<1> DEFINE A == SubSeq(L, 1, n - 1)
           B == SubSeq(L, n + 1, Len(L))
<1>1. Len(L) \in Nat /\ n \in 1..Len(L)
  OBVIOUS
<1>2. A \in Seq(S) /\ Len(A) = n - 1 /\ \A k \in 1..(n - 1) : A[k] = L[k]
  BY <1>1, SubSeqProperties
<1>3. /\ B \in Seq(S) /\ Len(B) = Len(L) - n
      /\ \A k \in 1..(Len(L) - n) : B[k] = L[n + k]
  BY <1>1, SubSeqProperties
<1>4. RemoveAt(L, n) = A \o B
  BY DEF RemoveAt
<1> HIDE DEF A, B
<1>5. A \o B \in Seq(S) /\ Len(A \o B) = Len(L) - 1
  BY <1>1, <1>2, <1>3, ConcatProperties
<1>6. ASSUME NEW k \in 1..(Len(L) - 1)
      PROVE  (A \o B)[k] = L[IF k < n THEN k ELSE k + 1]
  <2>1. CASE k < n
    <3>1. k \in 1..Len(A) /\ k \in 1..(n - 1)
      BY <1>1, <1>2, <2>1
    <3>2. QED
      BY <1>2, <1>3, <2>1, <3>1, ConcatProperties
  <2>2. CASE ~ (k < n)
    <3>1. PICK m : m = k - (n - 1)
      OBVIOUS
    <3>2. m \in 1..(Len(L) - n) /\ n + m = k + 1 /\ k - Len(A) = m /\ ~ (k <= Len(A))
      BY <1>1, <1>2, <2>2, <3>1
    <3>3. k \in 1..(Len(A) + Len(B))
      BY <1>1, <1>2, <1>3
    <3>4. (A \o B)[k] = B[m]
      BY <1>2, <1>3, <3>2, <3>3, ConcatProperties
    <3>5. QED
      BY <1>3, <2>2, <3>2, <3>4
  <2>3. QED
    BY <2>1, <2>2
<1>7. QED
  BY <1>4, <1>5, <1>6

(* An empty queue that is not the last is erased.                          *)
LEMMA ListErase ==
    ASSUME NEW V, NEW L \in Lists(V), NEW n \in DOMAIN L
    PROVE  LET M == EraseIfEmpty(L, n)
           IN /\ M \in Lists(V) /\ M # <<>> /\ NextId(M) = NextId(L) /\ Ids(M) = Ids(L)
              /\ \A j \in Ids(L) : SameItem(M, L, j)
<1>1. L \in Seq(Rows(V)) /\ DOMAIN L = 1..Len(L) /\ Len(L) \in Nat /\ L # <<>>
  BY DEF Lists
<1>2. CASE ~ (empty(L[n]) /\ n # Len(L))
  BY <1>1, <1>2 DEF EraseIfEmpty, SameItem
<1>3. CASE empty(L[n]) /\ n # Len(L)
  <2> DEFINE M == RemoveAt(L, n)
             Old(k) == IF k < n THEN k ELSE k + 1
  <2>1. EraseIfEmpty(L, n) = M
    BY <1>3 DEF EraseIfEmpty
  <2>2. /\ M \in Seq(Rows(V)) /\ Len(M) = Len(L) - 1 /\ DOMAIN M = 1..(Len(L) - 1)
        /\ \A k \in DOMAIN M : M[k] = L[Old(k)]
    <3>1. /\ M \in Seq(Rows(V)) /\ Len(M) = Len(L) - 1
          /\ \A k \in 1..(Len(L) - 1) : M[k] = L[IF k < n THEN k ELSE k + 1]
      BY <1>1, RemoveAtIs
    <3> HIDE DEF M
    <3>2. QED
      BY <3>1
  <2> HIDE DEF M
  <2>3. /\ \A k \in DOMAIN M : Old(k) \in DOMAIN L
        /\ \A i, j \in DOMAIN M : i < j => Old(i) < Old(j)
        /\ \A k \in DOMAIN L \ {n} : \E i \in DOMAIN M : k = Old(i)
        /\ Len(M) \in DOMAIN M /\ Old(Len(M)) = Len(L)
    <3>1. n \in 1..Len(L) /\ n < Len(L)
      BY <1>1, <1>3
    <3>2. ASSUME NEW k \in DOMAIN L \ {n} PROVE \E i \in DOMAIN M : k = Old(i)
      <4>1. CASE k < n
        BY <1>1, <2>2, <3>1, <4>1
      <4>2. CASE k > n
        <5>1. PICK i : i = k - 1
          OBVIOUS
        <5>2. i \in DOMAIN M /\ Old(i) = k
          BY <1>1, <2>2, <3>1, <4>2, <5>1
        <5>3. QED
          BY <5>2
      <4>3. QED
        BY <1>1, <4>1, <4>2
    <3>3. \A k \in DOMAIN M : Old(k) \in DOMAIN L
      BY <1>1, <2>2, <3>1
    <3>4. \A i, j \in DOMAIN M : i < j => Old(i) < Old(j)
      BY <1>1, <2>2, <3>1
    <3>5. Len(M) \in DOMAIN M /\ Old(Len(M)) = Len(L)
      <4>1. Len(M) = Len(L) - 1 /\ Len(L) - 1 \in 1..(Len(L) - 1)
        BY <1>1, <2>2, <3>1
      <4>2. ~ (Len(L) - 1 < n) /\ (Len(L) - 1) + 1 = Len(L)
        BY <1>1, <3>1
      <4>3. QED
        BY <2>2, <4>1, <4>2
    <3>6. QED
      BY <3>2, <3>3, <3>4, <3>5
  <2> HIDE DEF Old
  <2>4. M \in Lists(V) /\ M # <<>>
    <3>1. \A i, j \in DOMAIN M : i < j => end_index(M[i]) <= begin_index(M[j])
      BY <2>2, <2>3 DEF Lists
    <3>2. M # <<>>
      BY <2>2, <2>3
    <3>3. QED
      BY <2>2, <3>1, <3>2 DEF Lists
  <2>5. NextId(M) = NextId(L)
    BY <2>2, <2>3 DEF NextId
  <2>6. LiveIndices(L[n]) = {}
    <3>1. L[n] \in Rows(V)
      BY <1>1
    <3>2. begin_index(L[n]) = end_index(L[n]) /\ begin_index(L[n]) \in Nat
      BY <1>3, <3>1, RowIndices
    <3>3. QED
      BY <3>1, <3>2, RowIndices
  <2>7. ASSUME NEW j \in Ids(L) PROVE SameItem(M, L, j) /\ j \in Ids(M)
    <3>1. PICK k \in DOMAIN L : j \in LiveIndices(L[k])
      BY IdsAre
    <3>2. PICK i \in DOMAIN M : M[i] = L[k]
      BY <2>2, <2>3, <2>6, <3>1
    <3>3. /\ Item(M, j) = At(L[k], j) /\ Home(M, j) = Capacity(L[k]) /\ j \in Ids(M)
          /\ Item(L, j) = At(L[k], j) /\ Home(L, j) = Capacity(L[k])
      BY <2>4, <3>1, <3>2, HolderIs
    <3>4. QED
      BY <3>3 DEF SameItem
  <2>8. ASSUME NEW j \in Ids(M) PROVE j \in Ids(L)
    <3>1. PICK k \in DOMAIN M : j \in LiveIndices(M[k])
      BY <2>4, IdsAre
    <3>2. QED
      BY <2>2, <2>3, <3>1, HolderIs
  <2>9. QED
    BY <2>1, <2>4, <2>5, <2>7, <2>8
<1>4. QED
  BY <1>2, <1>3

(* Popping the queue of an id drops closed items only.                     *)
LEMMA ListPrune ==
    ASSUME NEW V, NEW L \in Lists(V), NEW id \in Ids(L)
    PROVE  LET M == Prune(L, id)
           IN /\ M \in Lists(V) /\ M # <<>> /\ NextId(M) = NextId(L) /\ Ids(M) \subseteq Ids(L)
              /\ \A j \in Ids(M) : SameItem(M, L, j)
              /\ \A j \in Ids(L) \ Ids(M) : Item(L, j).m_closed # FALSE
<1>1. PICK n \in DOMAIN L : id \in LiveIndices(L[n])
  BY IdsAre
<1>2. Holder(L, id) = n
  BY <1>1, HolderIs
<1>3. PICK p \in Rows(V) : p = L[n]
  BY DEF Lists
<1>4. PICK r : r = PopClosed(p)
  OBVIOUS
<1>5. /\ r \in Rows(V) /\ Capacity(r) = Capacity(p)
      /\ end_index(r) = end_index(p) /\ begin_index(p) <= begin_index(r)
      /\ \A j \in LiveIndices(r) : At(r, j) = At(p, j)
      /\ \A j \in LiveIndices(p) \ LiveIndices(r) : At(p, j).m_closed # FALSE
  BY <1>4, RowPop
<1>6. /\ begin_index(p) \in Nat /\ end_index(p) \in Nat /\ begin_index(r) \in Nat
      /\ LiveIndices(p) = begin_index(p)..(end_index(p) - 1)
      /\ LiveIndices(r) = begin_index(r)..(end_index(r) - 1)
  BY <1>5, RowIndices
<1>7. LiveIndices(r) \subseteq LiveIndices(p) /\ end_index(p) <= end_index(r)
  BY <1>5, <1>6
<1> DEFINE K == Put(L, n, r)
<1>8. Prune(L, id) = EraseIfEmpty(K, n)
  BY <1>2, <1>3, <1>4 DEF Prune, Put
<1>9. /\ K \in Lists(V) /\ K # <<>> /\ Len(K) = Len(L)
      /\ NextId(K) = IF n = Len(L) THEN end_index(r) ELSE NextId(L)
      /\ Ids(K) = (Ids(L) \ LiveIndices(p)) \cup LiveIndices(r)
      /\ \A j \in Ids(L) \ LiveIndices(p) : Item(K, j) = Item(L, j) /\ Home(K, j) = Home(L, j)
      /\ \A j \in LiveIndices(r) : Item(K, j) = At(r, j) /\ Home(K, j) = Capacity(r)
  <2>1. /\ begin_index(L[n]) <= begin_index(r) /\ end_index(L[n]) <= end_index(r)
        /\ end_index(r) = end_index(L[n])
    BY <1>3, <1>5, <1>7
  <2>2. /\ K \in Lists(V) /\ K # <<>> /\ Len(K) = Len(L)
        /\ NextId(K) = IF n = Len(L) THEN end_index(r) ELSE NextId(L)
        /\ Ids(K) = (Ids(L) \ LiveIndices(L[n])) \cup LiveIndices(r)
        /\ \A j \in Ids(L) \ LiveIndices(L[n]) :
             Item(K, j) = Item(L, j) /\ Home(K, j) = Home(L, j)
        /\ \A j \in LiveIndices(r) : Item(K, j) = At(r, j) /\ Home(K, j) = Capacity(r)
    BY <1>5, <2>1, Replaced
  <2> HIDE DEF K
  <2>3. QED
    BY <1>3, <2>2
<1>10. n \in DOMAIN K
  BY <1>9 DEF Lists
<1> HIDE DEF K
<1>11. NextId(K) = NextId(L)
  BY <1>3, <1>5, <1>9 DEF NextId
<1>12. \A j \in LiveIndices(p) :
          j \in Ids(L) /\ Item(L, j) = At(p, j) /\ Home(L, j) = Capacity(p)
  BY <1>3, HolderIs
<1>13. Ids(K) \subseteq Ids(L)
  BY <1>7, <1>9, <1>12
<1>14. ASSUME NEW j \in Ids(K) PROVE SameItem(K, L, j)
  <2>1. CASE j \in LiveIndices(r)
    <3>1. Item(L, j) = At(p, j) /\ Home(L, j) = Capacity(p)
      BY <1>7, <1>12, <2>1
    <3>2. Item(K, j) = At(r, j) /\ Home(K, j) = Capacity(r)
      BY <1>9, <2>1
    <3>3. QED
      BY <1>5, <2>1, <3>1, <3>2 DEF SameItem
  <2>2. CASE j \notin LiveIndices(r)
    <3>1. j \in Ids(L) \ LiveIndices(p)
      BY <1>9, <2>2
    <3>2. QED
      BY <1>9, <3>1 DEF SameItem
  <2>3. QED
    BY <2>1, <2>2
<1>15. ASSUME NEW j \in Ids(L) \ Ids(K) PROVE Item(L, j).m_closed # FALSE
  <2>1. j \in LiveIndices(p) \ LiveIndices(r)
    BY <1>9
  <2>2. QED
    BY <1>5, <1>12, <2>1
<1> DEFINE M == EraseIfEmpty(K, n)
<1>16. /\ M \in Lists(V) /\ M # <<>> /\ NextId(M) = NextId(K) /\ Ids(M) = Ids(K)
       /\ \A j \in Ids(K) : SameItem(M, K, j)
  BY <1>9, <1>10, ListErase
<1> HIDE DEF M
<1>17. \A j \in Ids(M) : SameItem(M, L, j)
  BY <1>14, <1>16 DEF SameItem
<1>18. QED
  BY <1>8, <1>11, <1>13, <1>15, <1>16, <1>17 DEF M

-----------------------------------------------------------------------------
(* What the operations on a list mean for the items that are not closed.   *)
LEMMA OpenAre ==
    ASSUME NEW V, \A v \in V : v.m_closed \in BOOLEAN, NEW L \in Lists(V)
    PROVE  /\ OpenIds(L) \subseteq Ids(L) /\ OpenIds(L) \subseteq 0..(MaxIds - 1)
           /\ \A id \in Ids(L) : /\ Item(L, id) \in V
                                 /\ id \in OpenIds(L) <=> Item(L, id).m_closed = FALSE
           /\ \A id \in Nat : id \in OpenIds(L) <=> Holds(L, id) /\ ~ Item(L, id).m_closed
           /\ L = <<>> => OpenIds(L) = {}
           /\ L # <<>> => NextId(L) \in 0..MaxIds /\ \A id \in Ids(L) : id < NextId(L)
<1>1. ASSUME NEW id \in Ids(L)
      PROVE  Item(L, id) \in V /\ Item(L, id).m_closed \in BOOLEAN /\ id \in 0..(MaxIds - 1)
  <2>1. PICK n \in DOMAIN L : id \in LiveIndices(L[n])
    BY IdsAre
  <2>2. Item(L, id) \in V
    BY <2>1, HolderIs
  <2>3. id \in 0..(MaxIds - 1)
    BY IdsAre
  <2>4. QED
    BY <2>2, <2>3
<1>2. \A id \in Ids(L) : id \in OpenIds(L) <=> Item(L, id).m_closed = FALSE
  BY <1>1 DEF OpenIds
<1>3. OpenIds(L) \subseteq Ids(L)
  BY DEF OpenIds
<1>4. ASSUME NEW id \in Nat
      PROVE  id \in OpenIds(L) <=> Holds(L, id) /\ ~ Item(L, id).m_closed
  <2>1. Holds(L, id) <=> id \in Ids(L)
    BY IdsAre
  <2>2. QED
    BY <2>1 DEF OpenIds
<1>5. OpenIds(L) \subseteq 0..(MaxIds - 1)
  BY <1>1, <1>3
<1>6. L # <<>> => NextId(L) \in 0..MaxIds /\ \A id \in Ids(L) : id < NextId(L)
  BY IdsAre
<1>7. L = <<>> => OpenIds(L) = {}
  BY <1>3, IdsAre
<1>8. QED
  BY <1>1, <1>2, <1>3, <1>4, <1>5, <1>6, <1>7

(* The item of an open id is written anew and stays open.                  *)
LEMMA OpenSet ==
    ASSUME NEW V, \A v \in V : v.m_closed \in BOOLEAN, NEW L \in Lists(V),
           NEW id \in OpenIds(L), NEW x \in V, x.m_closed = FALSE
    PROVE  LET M == SetItem(L, id, x)
           IN /\ M \in Lists(V) /\ M # <<>> /\ L # <<>> /\ NextId(M) = NextId(L)
              /\ Ids(M) = Ids(L) /\ OpenIds(M) = OpenIds(L)
              /\ Item(M, id) = x /\ Home(M, id) = Home(L, id)
              /\ \A j \in Ids(L) \ {id} : SameItem(M, L, j)
<1> DEFINE M == SetItem(L, id, x)
<1>1. id \in Ids(L)
  BY OpenAre
<1>2. /\ M \in Lists(V) /\ M # <<>> /\ L # <<>> /\ Ids(M) = Ids(L) /\ NextId(M) = NextId(L)
      /\ Item(M, id) = x /\ Home(M, id) = Home(L, id)
      /\ \A j \in Ids(L) \ {id} : SameItem(M, L, j)
  BY <1>1, ListSet
<1> HIDE DEF M
<1>3. /\ \A j \in Ids(L) : j \in OpenIds(L) <=> Item(L, j).m_closed = FALSE
      /\ \A j \in Ids(M) : j \in OpenIds(M) <=> Item(M, j).m_closed = FALSE
      /\ OpenIds(L) \subseteq Ids(L) /\ OpenIds(M) \subseteq Ids(M)
  BY <1>2, OpenAre
<1>4. \A j \in Ids(L) : j \in OpenIds(M) <=> j \in OpenIds(L)
  BY <1>1, <1>2, <1>3 DEF SameItem
<1>5. OpenIds(M) = OpenIds(L)
  BY <1>2, <1>3, <1>4
<1>6. QED
  BY <1>2, <1>5 DEF M

(* Room for an item, and an open item added.                               *)
LEMMA OpenAdd ==
    ASSUME NEW V, \A v \in V : v.m_closed \in BOOLEAN, NEW L \in Lists(V),
           NEW c \in PowersOfTwo
    PROVE  LET P == WithRoom(L, c)
               n == NextId(P)
           IN /\ P \in Lists(V) /\ P # <<>> /\ Ids(P) = Ids(L) /\ OpenIds(P) = OpenIds(L)
              /\ n \in Nat /\ L # <<>> => n = NextId(L)
              /\ n \notin Ids(L) /\ \A j \in Ids(L) : j < n
              /\ \A j \in Ids(L) : SameItem(P, L, j)
              /\ \A x \in V : n < MaxIds /\ x.m_closed = FALSE =>
                   LET M == AddItem(P, x)
                   IN /\ M \in Lists(V) /\ M # <<>> /\ NextId(M) = n + 1
                      /\ Ids(M) = Ids(L) \cup {n} /\ OpenIds(M) = OpenIds(L) \cup {n}
                      /\ Item(M, n) = x
                      /\ \A j \in Ids(L) : SameItem(M, L, j)
<1> DEFINE P == WithRoom(L, c)
           n == NextId(P)
<1>1. /\ P \in Lists(V) /\ P # <<>> /\ Ids(P) = Ids(L) /\ ~ full(P[Len(P)])
      /\ NextId(P) = IF L = <<>> THEN 0 ELSE NextId(L)
      /\ \A j \in Ids(L) : SameItem(P, L, j)
  BY ListRoom
<1> HIDE DEF P
<1>2. /\ n \in 0..MaxIds /\ \A j \in Ids(L) : j < n
      /\ \A j \in Ids(L) : j \in 0..(MaxIds - 1)
  BY <1>1, IdsAre
<1>3. n \notin Ids(L) /\ n \in Nat
  BY <1>2, Width
<1>4. /\ \A j \in Ids(L) : j \in OpenIds(L) <=> Item(L, j).m_closed = FALSE
      /\ \A j \in Ids(P) : j \in OpenIds(P) <=> Item(P, j).m_closed = FALSE
      /\ OpenIds(L) \subseteq Ids(L) /\ OpenIds(P) \subseteq Ids(P)
  BY <1>1, OpenAre
<1>5. OpenIds(P) = OpenIds(L)
  BY <1>1, <1>4 DEF SameItem
<1>6. ASSUME NEW x \in V, n < MaxIds, x.m_closed = FALSE
      PROVE  LET M == AddItem(P, x)
             IN /\ M \in Lists(V) /\ M # <<>> /\ NextId(M) = n + 1
                /\ Ids(M) = Ids(L) \cup {n} /\ OpenIds(M) = OpenIds(L) \cup {n}
                /\ Item(M, n) = x
                /\ \A j \in Ids(L) : SameItem(M, L, j)
  <2> DEFINE M == AddItem(P, x)
  <2>1. /\ M \in Lists(V) /\ M # <<>> /\ NextId(M) = n + 1
        /\ Ids(M) = Ids(P) \cup {n} /\ Item(M, n) = x
        /\ \A j \in Ids(P) : SameItem(M, P, j)
    BY <1>1, <1>6, ListAdd
  <2> HIDE DEF M
  <2>2. /\ \A j \in Ids(M) : j \in OpenIds(M) <=> Item(M, j).m_closed = FALSE
        /\ OpenIds(M) \subseteq Ids(M)
    BY <2>1, OpenAre
  <2>3. \A j \in Ids(L) : SameItem(M, L, j) /\ (j \in OpenIds(M) <=> j \in OpenIds(L))
    BY <1>1, <1>4, <2>1, <2>2 DEF SameItem
  <2>4. n \in OpenIds(M)
    BY <1>6, <2>1, <2>2
  <2>5. OpenIds(M) = OpenIds(L) \cup {n}
    BY <1>1, <1>4, <2>1, <2>2, <2>3, <2>4
  <2>6. QED
    BY <1>1, <2>1, <2>3, <2>5 DEF M
<1>7. L # <<>> => n = NextId(L)
  BY <1>1
<1> HIDE DEF n
<1>8. QED
  BY <1>1, <1>2, <1>3, <1>5, <1>6, <1>7 DEF P, n

(* An open item is closed, and with it closed items before it are popped.  *)
LEMMA OpenClose ==
    ASSUME NEW V, \A v \in V : v.m_closed \in BOOLEAN, NEW L \in Lists(V),
           NEW id \in OpenIds(L), NEW x \in V, x.m_closed = TRUE
    PROVE  LET M == Prune(SetItem(L, id, x), id)
           IN /\ M \in Lists(V) /\ M # <<>> /\ L # <<>> /\ NextId(M) = NextId(L)
              /\ Ids(M) \subseteq Ids(L) /\ OpenIds(M) = OpenIds(L) \ {id}
              /\ id \in Ids(M) => Item(M, id) = x
              /\ \A j \in Ids(M) \ {id} : SameItem(M, L, j)
<1> DEFINE K == SetItem(L, id, x)
           M == Prune(K, id)
<1>1. id \in Ids(L)
  BY OpenAre
<1>2. /\ K \in Lists(V) /\ K # <<>> /\ L # <<>> /\ Ids(K) = Ids(L) /\ NextId(K) = NextId(L)
      /\ Item(K, id) = x
      /\ \A j \in Ids(L) \ {id} : SameItem(K, L, j)
  BY <1>1, ListSet
<1> HIDE DEF K
<1>3. /\ M \in Lists(V) /\ M # <<>> /\ NextId(M) = NextId(K) /\ Ids(M) \subseteq Ids(K)
      /\ \A j \in Ids(M) : SameItem(M, K, j)
      /\ \A j \in Ids(K) \ Ids(M) : Item(K, j).m_closed # FALSE
  BY <1>1, <1>2, ListPrune
<1> HIDE DEF M
<1>4. /\ \A j \in Ids(L) : j \in OpenIds(L) <=> Item(L, j).m_closed = FALSE
      /\ \A j \in Ids(M) : j \in OpenIds(M) <=> Item(M, j).m_closed = FALSE
      /\ OpenIds(L) \subseteq Ids(L) /\ OpenIds(M) \subseteq Ids(M)
  BY <1>2, <1>3, OpenAre
<1>5. \A j \in Ids(M) \ {id} : SameItem(M, L, j)
  BY <1>2, <1>3 DEF SameItem
<1>6. id \in Ids(M) => Item(M, id) = x
  BY <1>2, <1>3 DEF SameItem
<1>7. id \notin OpenIds(M)
  BY <1>4, <1>6
<1>8. ASSUME NEW j \in OpenIds(L) \ {id} PROVE j \in OpenIds(M)
  <2>1. Item(L, j).m_closed = FALSE /\ j \in Ids(K) /\ Item(K, j) = Item(L, j)
    BY <1>2, <1>4 DEF SameItem
  <2>2. j \in Ids(M)
    BY <1>3, <2>1
  <2>3. Item(M, j) = Item(L, j)
    BY <1>5, <2>2 DEF SameItem
  <2>4. QED
    BY <1>4, <2>1, <2>2, <2>3
<1>9. ASSUME NEW j \in OpenIds(M) PROVE j \in OpenIds(L) \ {id}
  <2>1. j # id /\ j \in Ids(M) /\ j \in Ids(L) /\ Item(M, j).m_closed = FALSE
    BY <1>2, <1>3, <1>4, <1>7
  <2>2. Item(M, j) = Item(L, j)
    BY <1>5, <2>1 DEF SameItem
  <2>3. QED
    BY <1>4, <2>1, <2>2
<1>10. OpenIds(M) = OpenIds(L) \ {id}
  BY <1>8, <1>9
<1>11. QED
  BY <1>2, <1>3, <1>5, <1>6, <1>10 DEF K, M

-----------------------------------------------------------------------------
(* What the tables of the sockets, the event handler and the kernel hold.  *)
Channels ==
    {c \in [m_closed : BOOLEAN, m_socket_descriptor : Handles \cup {None},
            m_type : {"listening", "streaming_opened", "streaming_accepted"},
            m_attempts : 0..MaxAttempts, m_eh_id : 0..(MaxIds - 1),
            m_sync_result : Answers, m_send_stream : 0..MaxPending] :
       c.m_closed <=> c.m_socket_descriptor = None}

Slots == [m_closed : BOOLEAN, m_item_id : 0..(MaxIds - 1), m_pitem : Sockets]

Watches == [handle : Handles, id : 0..(MaxIds - 1), out : BOOLEAN]

Nets == (Answers \ {"pending"}) \cup {"free", "listening", "connecting", "closed"}

TableSet ==
    [channels : [Sockets -> Lists(Channels)], slots : Lists(Slots),
     epoll : SUBSET Watches, sync : SUBSET (0..(MaxIds - 1)), net : [Handles -> Nets]]

(* Over its slot, a watched descriptor leads to the channel of a socket.   *)
Leads(T, w, s, id) ==
    /\ w.id \in OpenIds(T.slots)
    /\ Item(T.slots, w.id).m_pitem = s /\ Item(T.slots, w.id).m_item_id = id
    /\ id \in OpenIds(T.channels[s])
    /\ Item(T.channels[s], id).m_socket_descriptor = w.handle
    /\ Item(T.channels[s], id).m_eh_id = w.id

(* The inductive invariant of the tables.                                  *)
Sound(T) ==
    /\ T \in TableSet /\ IsFiniteSet(T.epoll)
    /\ \A w \in T.epoll : /\ T.net[w.handle] # "free"
                          /\ \E s \in Sockets, id \in 0..(MaxIds - 1) : Leads(T, w, s, id)
    /\ \A s \in Sockets : \A id \in OpenIds(T.channels[s]) :
          \E w \in T.epoll : Leads(T, w, s, id)
    /\ \A i \in OpenIds(T.slots) : \E w \in T.epoll : w.id = i
    /\ \A v, w \in T.epoll : v.handle = w.handle => v = w

\* The events and what is left of them to visit.
Events ==
    /\ {m_event_item_ids, todo} \subseteq [Sockets -> SUBSET (0..(MaxIds - 1))]
    /\ \A s \in Sockets : todo[s] \subseteq m_event_item_ids[s]

SoundInv == Sound(Tables) /\ Events

\* A message waits only where EPOLLOUT is asked for, and never for a join.
Pending(T) ==
    \A s \in Sockets : \A id \in OpenIds(T.channels[s]) :
        LET channel == Item(T.channels[s], id)
        IN /\ channel.m_attempts > 0 => channel.m_send_stream = 0
           /\ channel.m_send_stream > 0 =>
                \E w \in T.epoll : w.handle = channel.m_socket_descriptor /\ w.out

\* The ids that a table has given out.
Given(L) == IF L = <<>> THEN {} ELSE 0..(NextId(L) - 1)

\* What has become of a descriptor that a peer was opened with.
Opened(T) ==
    \A s \in Sockets : \A id \in OpenIds(T.channels[s]) :
        LET channel == Item(T.channels[s], id)
        IN channel.m_type = "streaming_opened" =>
             /\ T.net[channel.m_socket_descriptor] # "listening"
             /\ channel.m_attempts = 0 \/ channel.m_sync_result = "connected" =>
                  T.net[channel.m_socket_descriptor] \in {"connected", "closed"}

\* A slot leads to an id that was given out, and to an open channel only
\* while it is open.
SlotsLead(T) ==
    \A i \in Ids(T.slots) :
        LET slot == Item(T.slots, i)
        IN /\ slot.m_item_id \in Given(T.channels[slot.m_pitem])
           /\ slot.m_item_id \in OpenIds(T.channels[slot.m_pitem]) => ~ slot.m_closed

\* connect() has ended for the slots that are reported without epoll.
SyncEnded(T) ==
    /\ T.sync \subseteq Given(T.slots)
    /\ \A w \in T.epoll : w.id \in T.sync => T.net[w.handle] # "connecting"

\* No event is reported of a channel that is still connecting.
Reports(T, ids) ==
    \A s \in Sockets :
        /\ ids[s] \subseteq Given(T.channels[s])
        /\ \A id \in ids[s] \cap OpenIds(T.channels[s]) :
              T.net[Item(T.channels[s], id).m_socket_descriptor] # "connecting"

\* What is kept for the announced peers, while the events of ids wait.
Joins(T, ids) == Opened(T) /\ SlotsLead(T) /\ SyncEnded(T) /\ Reports(T, ids)

JoinInv == Joins(Tables, m_event_item_ids)

PendingInv == Pending(Tables)

-----------------------------------------------------------------------------
(* The parts of a record of tables.                                        *)
LEMMA TablesAre ==
    ASSUME NEW T \in TableSet
    PROVE  /\ \A v \in Channels : v.m_closed \in BOOLEAN
           /\ \A v \in Slots : v.m_closed \in BOOLEAN
           /\ \A s \in Sockets :
                /\ T.channels[s] \in Lists(Channels)
                /\ OpenIds(T.channels[s]) \subseteq 0..(MaxIds - 1)
                /\ \A id \in OpenIds(T.channels[s]) :
                     Item(T.channels[s], id) \in Channels /\ Item(T.channels[s], id).m_closed = FALSE
           /\ T.slots \in Lists(Slots) /\ OpenIds(T.slots) \subseteq Ids(T.slots)
           /\ \A i \in Ids(T.slots) :
                /\ Item(T.slots, i) \in Slots
                /\ i \in OpenIds(T.slots) <=> Item(T.slots, i).m_closed = FALSE
<1>1. (\A v \in Channels : v.m_closed \in BOOLEAN) /\ (\A v \in Slots : v.m_closed \in BOOLEAN)
  BY DEF Channels, Slots
<1>2. T.slots \in Lists(Slots) /\ \A s \in Sockets : T.channels[s] \in Lists(Channels)
  BY DEF TableSet
<1>3. ASSUME NEW s \in Sockets
      PROVE  /\ OpenIds(T.channels[s]) \subseteq 0..(MaxIds - 1)
             /\ \A id \in OpenIds(T.channels[s]) :
                  Item(T.channels[s], id) \in Channels /\ Item(T.channels[s], id).m_closed = FALSE
  BY <1>1, <1>2, OpenAre
<1>4. /\ OpenIds(T.slots) \subseteq Ids(T.slots)
      /\ \A i \in Ids(T.slots) :
           /\ Item(T.slots, i) \in Slots
           /\ i \in OpenIds(T.slots) <=> Item(T.slots, i).m_closed = FALSE
  BY <1>1, <1>2, OpenAre
<1>5. QED
  BY <1>1, <1>2, <1>3, <1>4

\* The tables give out the same ids, and the same of them are open.
SameIds(M, L) ==
    /\ OpenIds(M) = OpenIds(L) /\ Given(M) = Given(L)
    /\ L # <<>> => M # <<>> /\ NextId(M) = NextId(L)

\* Channel id of socket s is c now.
IsWritten(U, T, s, id, c) ==
    /\ U \in TableSet /\ U.slots = T.slots /\ U.epoll = T.epoll
    /\ U.sync = T.sync /\ U.net = T.net
    /\ \A t \in Sockets : SameIds(U.channels[t], T.channels[t])
    /\ Item(U.channels[s], id) = c
    /\ Home(U.channels[s], id) = Home(T.channels[s], id)
    /\ \A t \in Sockets : \A j \in OpenIds(T.channels[t]) :
         t # s \/ j # id => SameItem(U.channels[t], T.channels[t], j)

(* What WithChannel changes.                                               *)
LEMMA WrittenIs ==
    ASSUME NEW T \in TableSet, NEW s \in Sockets, NEW id \in OpenIds(T.channels[s]),
           NEW c \in Channels, c.m_closed = FALSE
    PROVE  IsWritten(WithChannel(T, s, id, c), T, s, id, c)
<1> DEFINE L == T.channels[s]
           M == SetItem(L, id, c)
           U == WithChannel(T, s, id, c)
<1>1. L \in Lists(Channels) /\ \A v \in Channels : v.m_closed \in BOOLEAN
  BY TablesAre
<1>2. /\ M \in Lists(Channels) /\ M # <<>> /\ L # <<>> /\ NextId(M) = NextId(L)
      /\ Ids(M) = Ids(L) /\ OpenIds(M) = OpenIds(L)
      /\ Item(M, id) = c /\ Home(M, id) = Home(L, id)
      /\ \A j \in Ids(L) \ {id} : SameItem(M, L, j)
  BY <1>1, OpenSet
<1>3. U = [T EXCEPT !.channels = [T.channels EXCEPT ![s] = M]]
  BY DEF WithChannel
<1> HIDE DEF M, U
<1>4. /\ U \in TableSet /\ U.slots = T.slots /\ U.epoll = T.epoll
      /\ U.sync = T.sync /\ U.net = T.net /\ U.channels = [T.channels EXCEPT ![s] = M]
  BY <1>2, <1>3 DEF TableSet
<1>5. U.channels[s] = M /\ \A t \in Sockets \ {s} : U.channels[t] = T.channels[t]
  BY <1>4 DEF TableSet
<1>6. SameIds(M, L)
  BY <1>2 DEF SameIds, Given
<1>7. \A t \in Sockets : SameIds(U.channels[t], T.channels[t])
  BY <1>5, <1>6 DEF SameIds
<1>8. ASSUME NEW t \in Sockets, NEW j \in OpenIds(T.channels[t]), t # s \/ j # id
      PROVE  SameItem(U.channels[t], T.channels[t], j)
  <2>1. CASE t = s
    <3>1. j \in Ids(L) \ {id}
      BY <1>1, <1>8, <2>1, OpenAre
    <3>2. QED
      BY <1>2, <1>5, <2>1, <3>1
  <2>2. CASE t # s
    BY <1>5, <2>2 DEF SameItem
  <2>3. QED
    BY <2>1, <2>2
<1>9. IsWritten(U, T, s, id, c)
  BY <1>2, <1>4, <1>5, <1>7, <1>8 DEF IsWritten
<1>10. QED
  BY <1>9 DEF U

(* An open channel is in its slot, and its descriptor is in use.           *)
LEMMA ChannelSlot ==
    ASSUME NEW T, Sound(T), NEW s \in Sockets, NEW id \in OpenIds(T.channels[s])
    PROVE  LET c == Item(T.channels[s], id)
           IN /\ c \in Channels /\ c.m_closed = FALSE
              /\ c.m_socket_descriptor \in Handles /\ T.net[c.m_socket_descriptor] # "free"
              /\ c.m_eh_id \in OpenIds(T.slots) /\ Item(T.slots, c.m_eh_id) = Slot(s, id)
<1> DEFINE c == Item(T.channels[s], id)
<1>1. PICK v \in T.epoll : Leads(T, v, s, id)
  BY DEF Sound
<1>2. T \in TableSet /\ c \in Channels /\ c.m_closed = FALSE
  BY TablesAre DEF Sound
<1>3. /\ v.handle = c.m_socket_descriptor /\ v.id = c.m_eh_id /\ c.m_eh_id \in OpenIds(T.slots)
      /\ Item(T.slots, v.id).m_pitem = s /\ Item(T.slots, v.id).m_item_id = id
  BY <1>1 DEF Leads
<1>4. T.net[v.handle] # "free" /\ v.handle \in Handles
  <2>1. v \in Watches
    BY <1>2 DEF TableSet
  <2>2. QED
    BY <2>1 DEF Sound, Watches
<1>5. Item(T.slots, v.id) = Slot(s, id)
  <2>1. Item(T.slots, v.id) \in Slots /\ Item(T.slots, v.id).m_closed = FALSE
    BY <1>2, <1>3, TablesAre
  <2>2. QED
    BY <1>3, <2>1 DEF Slots, Slot
<1> HIDE DEF c
<1>6. QED
  BY <1>2, <1>3, <1>4, <1>5 DEF c

(* One registration has the descriptor or the slot of an open channel.     *)
LEMMA ChannelWatched ==
    ASSUME NEW T, Sound(T), NEW s \in Sockets, NEW id \in OpenIds(T.channels[s])
    PROVE  LET c == Item(T.channels[s], id)
           IN /\ \E w \in T.epoll : Leads(T, w, s, id)
              /\ \A w \in T.epoll :
                   w.handle = c.m_socket_descriptor \/ w.id = c.m_eh_id => Leads(T, w, s, id)
<1> DEFINE c == Item(T.channels[s], id)
<1>1. PICK v \in T.epoll : Leads(T, v, s, id)
  BY DEF Sound
<1>3. /\ v.handle = c.m_socket_descriptor /\ v.id = c.m_eh_id
      /\ Item(T.slots, v.id).m_pitem = s /\ Item(T.slots, v.id).m_item_id = id
  BY <1>1 DEF Leads
<1>6. ASSUME NEW w \in T.epoll, w.handle = c.m_socket_descriptor \/ w.id = c.m_eh_id
      PROVE  Leads(T, w, s, id)
  <2>1. CASE w.handle = c.m_socket_descriptor
    <3>1. w = v
      BY <1>3, <2>1 DEF Sound
    <3>2. QED
      BY <1>1, <3>1
  <2>2. CASE w.id = v.id
    <3>1. PICK t \in Sockets, j \in 0..(MaxIds - 1) : Leads(T, w, t, j)
      BY DEF Sound
    <3>2. t = s /\ j = id
      BY <1>3, <2>2, <3>1 DEF Leads
    <3>3. QED
      BY <3>1, <3>2
  <2>3. QED
    BY <1>3, <1>6, <2>1, <2>2
<1>8. QED
  BY <1>1, <1>6

(* Open channels have descriptors and slots of their own.                  *)
LEMMA ChannelsApart ==
    ASSUME NEW T, Sound(T), NEW s \in Sockets, NEW id \in OpenIds(T.channels[s]),
           NEW t \in Sockets, NEW j \in OpenIds(T.channels[t]), t # s \/ j # id
    PROVE  /\ Item(T.channels[t], j).m_socket_descriptor # Item(T.channels[s], id).m_socket_descriptor
           /\ Item(T.channels[t], j).m_eh_id # Item(T.channels[s], id).m_eh_id
<1>1. PICK w \in T.epoll : Leads(T, w, t, j)
  BY DEF Sound
<1>2. ~ Leads(T, w, s, id)
  BY <1>1 DEF Leads
<1>3. /\ w.handle # Item(T.channels[s], id).m_socket_descriptor
      /\ w.id # Item(T.channels[s], id).m_eh_id
  BY <1>2, ChannelWatched
<1>4. QED
  BY <1>1, <1>3 DEF Leads

\* The descriptor of a channel is watched for a task.
IsRewatched(U, T, s, id, task) ==
    LET c == Item(T.channels[s], id)
    IN /\ U \in TableSet /\ U.channels = T.channels /\ U.sync = T.sync /\ U.net = T.net
       /\ U.epoll = Unwatched(T.epoll, c.m_socket_descriptor) \cup
                      {Watch(c.m_socket_descriptor, c.m_eh_id, task)}
       /\ SameIds(U.slots, T.slots) /\ Ids(U.slots) = Ids(T.slots)
       /\ \A i \in Ids(T.slots) : Item(U.slots, i) = Item(T.slots, i)

(* What Rewatched changes.                                                 *)
LEMMA RewatchedIs ==
    ASSUME NEW T, Sound(T), NEW s \in Sockets, NEW id \in OpenIds(T.channels[s]), NEW task
    PROVE  IsRewatched(Rewatched(T, s, id, task), T, s, id, task)
<1> DEFINE c == Item(T.channels[s], id)
           h == c.m_socket_descriptor
           I == SetItem(T.slots, c.m_eh_id, Slot(s, id))
           E == Unwatched(T.epoll, h) \cup {Watch(h, c.m_eh_id, task)}
           U == Rewatched(T, s, id, task)
<1>1. /\ T \in TableSet /\ c \in Channels /\ h \in Handles
      /\ c.m_eh_id \in OpenIds(T.slots) /\ Item(T.slots, c.m_eh_id) = Slot(s, id)
  <2>1. T \in TableSet
    BY DEF Sound
  <2>2. /\ c \in Channels /\ h \in Handles
        /\ c.m_eh_id \in OpenIds(T.slots) /\ Item(T.slots, c.m_eh_id) = Slot(s, id)
    BY ChannelSlot
  <2>3. QED
    BY <2>1, <2>2
<1>2. T.slots \in Lists(Slots) /\ \A v \in Slots : v.m_closed \in BOOLEAN
  BY <1>1, TablesAre
<1>3. Slot(s, id) \in Slots /\ Slot(s, id).m_closed = FALSE
  <2>1. id \in 0..(MaxIds - 1)
    BY <1>1, TablesAre
  <2>2. QED
    BY <2>1 DEF Slot, Slots
<1>4. U = [T EXCEPT !.epoll = E, !.slots = I]
  BY DEF Rewatched
<1>5. /\ I \in Lists(Slots) /\ I # <<>> /\ T.slots # <<>> /\ NextId(I) = NextId(T.slots)
      /\ Ids(I) = Ids(T.slots) /\ OpenIds(I) = OpenIds(T.slots)
      /\ Item(I, c.m_eh_id) = Slot(s, id)
      /\ \A j \in Ids(T.slots) \ {c.m_eh_id} : SameItem(I, T.slots, j)
  <2>1. PICK L, e, x : L = T.slots /\ e = c.m_eh_id /\ x = Slot(s, id)
    OBVIOUS
  <2>2. L \in Lists(Slots) /\ e \in OpenIds(L) /\ x \in Slots /\ x.m_closed = FALSE
    BY <1>1, <1>2, <1>3, <2>1
  <2>3. \A v \in Slots : v.m_closed \in BOOLEAN
    BY <1>2
  <2>4. LET J == SetItem(L, e, x)
        IN /\ J \in Lists(Slots) /\ J # <<>> /\ L # <<>> /\ NextId(J) = NextId(L)
           /\ Ids(J) = Ids(L) /\ OpenIds(J) = OpenIds(L)
           /\ Item(J, e) = x /\ Home(J, e) = Home(L, e)
           /\ \A j \in Ids(L) \ {e} : SameItem(J, L, j)
    BY <2>2, <2>3, OpenSet, Zenon
  <2>5. QED
    BY <2>1, <2>4
<1>6. E \in SUBSET Watches
  <2>1. Watch(h, c.m_eh_id, task) \in Watches
    BY <1>1 DEF Watch, Watches, Channels
  <2>2. QED
    BY <1>1, <2>1 DEF TableSet, Unwatched
<1> HIDE DEF I, E, U
<1>7. /\ U \in TableSet /\ U.channels = T.channels /\ U.sync = T.sync /\ U.net = T.net
      /\ U.epoll = E /\ U.slots = I
  BY <1>1, <1>4, <1>5, <1>6 DEF TableSet
<1>8. \A i \in Ids(T.slots) : Item(I, i) = Item(T.slots, i)
  BY <1>1, <1>5 DEF SameItem
<1>9. SameIds(I, T.slots)
  BY <1>5 DEF SameIds, Given
<1> HIDE DEF c
<1>10. IsRewatched(U, T, s, id, task)
  BY <1>5, <1>7, <1>8, <1>9 DEF IsRewatched, E, c
<1>11. QED
  BY <1>10 DEF U

\* No id has been given out since.
SameGiven(M, L) ==
    Given(M) = Given(L) /\ (L # <<>> => M # <<>> /\ NextId(M) = NextId(L))

(* What the queues appended beforehand change: nothing that is in use.     *)
LEMMA PreparedIs ==
    ASSUME NEW T \in TableSet, NEW s \in Sockets
    PROVE  LET P == Prepared(T, s)
           IN /\ P \in TableSet /\ P.epoll = T.epoll /\ P.sync = T.sync /\ P.net = T.net
              /\ P.channels[s] = WithRoom(T.channels[s], ChannelCapacity)
              /\ P.slots = WithRoom(T.slots, SlotCapacity)
              /\ P.channels = [T.channels EXCEPT ![s] = WithRoom(T.channels[s], ChannelCapacity)]
              /\ \A t \in Sockets : t # s => P.channels[t] = T.channels[t]
<1> DEFINE L == WithRoom(T.channels[s], ChannelCapacity)
           I == WithRoom(T.slots, SlotCapacity)
           P == Prepared(T, s)
<1>1. /\ T.channels[s] \in Lists(Channels) /\ T.slots \in Lists(Slots)
      /\ \A v \in Channels : v.m_closed \in BOOLEAN
      /\ \A v \in Slots : v.m_closed \in BOOLEAN
  BY TablesAre
<1>2. ChannelCapacity \in PowersOfTwo /\ SlotCapacity \in PowersOfTwo
  BY CapacityAssumption
<1>3. L \in Lists(Channels) /\ I \in Lists(Slots)
  BY <1>1, <1>2, ListRoom
<1>4. P = [T EXCEPT !.channels = [T.channels EXCEPT ![s] = L], !.slots = I]
  BY DEF Prepared
<1> HIDE DEF L, I, P
<1>5. /\ P \in TableSet /\ P.epoll = T.epoll /\ P.sync = T.sync /\ P.net = T.net
      /\ P.slots = I /\ P.channels = [T.channels EXCEPT ![s] = L]
  BY <1>3, <1>4 DEF TableSet
<1>6. P.channels[s] = L /\ \A t \in Sockets : t # s => P.channels[t] = T.channels[t]
  BY <1>5 DEF TableSet
<1>7. QED
  BY <1>5, <1>6 DEF L, I, P

\* No id of the list is given out, opened or closed, and no item changed.
Untouched(M, L) ==
    /\ SameIds(M, L) /\ SameGiven(M, L) /\ Ids(M) = Ids(L)
    /\ \A j \in Ids(L) : SameItem(M, L, j)

(* Room for an item changes no item.                                       *)
LEMMA RoomUntouched ==
    ASSUME NEW V, \A v \in V : v.m_closed \in BOOLEAN, NEW L \in Lists(V),
           NEW c \in PowersOfTwo
    PROVE  /\ Untouched(WithRoom(L, c), L) /\ NextId(WithRoom(L, c)) \in Nat
           /\ L # <<>> => NextId(WithRoom(L, c)) = NextId(L)
           /\ NextId(WithRoom(L, c)) \notin Given(L) /\ NextId(WithRoom(L, c)) \notin Ids(L)
           /\ WithRoom(L, c) \in Lists(V)
<1> DEFINE P == WithRoom(L, c)
<1>1. /\ P \in Lists(V) /\ P # <<>> /\ Ids(P) = Ids(L)
      /\ NextId(P) = IF L = <<>> THEN 0 ELSE NextId(L)
      /\ \A j \in Ids(L) : SameItem(P, L, j)
  BY ListRoom
<1> HIDE DEF P
<1>2. OpenIds(P) = OpenIds(L) /\ NextId(P) \in Nat /\ NextId(P) \notin Ids(L)
  <2>1. OpenIds(P) = OpenIds(L)
    BY <1>1 DEF OpenIds, SameItem
  <2>2. NextId(P) \in 0..MaxIds /\ \A id \in Ids(P) : id < NextId(P)
    BY <1>1, IdsAre
  <2>3. NextId(P) \in Nat /\ NextId(P) \notin Ids(P)
    BY <2>2, Width
  <2>4. QED
    BY <1>1, <2>1, <2>3
<1>3. Given(P) = Given(L)
  <2>1. 0..(0 - 1) = {}
    OBVIOUS
  <2>2. QED
    BY <1>1, <2>1 DEF Given
<1>4. NextId(P) \notin Given(L)
  <2>1. NextId(P) \notin 0..(NextId(P) - 1)
    BY <1>2
  <2>2. QED
    BY <1>1, <2>1 DEF Given
<1>5. Untouched(P, L)
  BY <1>1, <1>2, <1>3 DEF Untouched, SameIds, SameGiven
<1>6. L # <<>> => NextId(P) = NextId(L)
  BY <1>1
<1>7. QED
  BY <1>1, <1>2, <1>4, <1>5, <1>6 DEF P

\* An open item has got the next id n.
Added(M, L, n, x) ==
    /\ n \in Nat /\ n \notin Given(L) /\ Given(L) \cup {n} = Given(M) /\ n \notin Ids(L)
    /\ M # <<>> /\ NextId(M) = n + 1 /\ (L # <<>> => NextId(L) = n)
    /\ Ids(M) = Ids(L) \cup {n} /\ OpenIds(M) = OpenIds(L) \cup {n}
    /\ Item(M, n) = x
    /\ \A j \in Ids(L) : SameItem(M, L, j)

(* What adding an item to a list with room does.                           *)
LEMMA ItemAdded ==
    ASSUME NEW V, \A v \in V : v.m_closed \in BOOLEAN, NEW L \in Lists(V),
           NEW c \in PowersOfTwo, NextId(WithRoom(L, c)) < MaxIds,
           NEW x \in V, x.m_closed = FALSE
    PROVE  /\ Added(AddItem(WithRoom(L, c), x), L, NextId(WithRoom(L, c)), x)
           /\ AddItem(WithRoom(L, c), x) \in Lists(V)
<1> DEFINE P == WithRoom(L, c)
           n == NextId(P)
           M == AddItem(P, x)
<1>1. n \in Nat /\ n \notin Given(L) /\ n \notin Ids(L) /\ (L # <<>> => n = NextId(L))
  BY RoomUntouched
<1>2. P \in Lists(V) /\ P # <<>> /\ Ids(P) = Ids(L) /\ ~ full(P[Len(P)])
  BY ListRoom
<1>3. /\ M \in Lists(V) /\ M # <<>> /\ NextId(M) = n + 1
      /\ Ids(M) = Ids(L) \cup {n} /\ OpenIds(M) = OpenIds(L) \cup {n}
      /\ Item(M, n) = x
      /\ \A j \in Ids(L) : SameItem(M, L, j)
  BY OpenAdd
<1>4. Given(L) = 0..(n - 1)
  <2>1. CASE L = <<>>
    <3>1. n = 0
      BY <2>1, ListRoom
    <3>2. QED
      BY <2>1, <3>1 DEF Given
  <2>2. CASE L # <<>>
    BY <1>1, <2>2 DEF Given
  <2>3. QED
    BY <2>1, <2>2
<1> HIDE DEF n, M, P
<1>5. Given(M) = 0..(NextId(M) - 1)
  BY <1>3 DEF Given
<1>6. Given(L) \cup {n} = Given(M)
  <2>1. Given(M) = 0..((n + 1) - 1)
    BY <1>3, <1>5
  <2>2. 0..((n + 1) - 1) = 0..(n - 1) \cup {n}
    BY <1>1
  <2>3. QED
    BY <1>4, <2>1, <2>2
<1>7. Added(M, L, n, x)
  BY <1>1, <1>3, <1>6 DEF Added
<1>8. QED
  BY <1>3, <1>7 DEF n, M, P

\* The open item of an id has been closed, by which closed ones are popped.
Closed(M, L, id, x) ==
    /\ SameGiven(M, L)
    /\ Ids(M) \subseteq Ids(L) /\ OpenIds(M) = OpenIds(L) \ {id}
    /\ id \in Ids(M) => Item(M, id) = x
    /\ \A j \in Ids(M) \ {id} : SameItem(M, L, j)

(* What closing an item does.                                              *)
LEMMA ItemClosed ==
    ASSUME NEW V, \A v \in V : v.m_closed \in BOOLEAN, NEW L \in Lists(V),
           NEW id \in OpenIds(L), NEW x \in V, x.m_closed = TRUE
    PROVE  /\ Closed(Prune(SetItem(L, id, x), id), L, id, x)
           /\ Prune(SetItem(L, id, x), id) \in Lists(V)
<1> DEFINE M == Prune(SetItem(L, id, x), id)
<1>1. /\ M \in Lists(V) /\ M # <<>> /\ L # <<>> /\ NextId(M) = NextId(L)
      /\ Ids(M) \subseteq Ids(L) /\ OpenIds(M) = OpenIds(L) \ {id}
      /\ id \in Ids(M) => Item(M, id) = x
      /\ \A j \in Ids(M) \ {id} : SameItem(M, L, j)
  BY OpenClose
<1> HIDE DEF M
<1>2. SameGiven(M, L)
  BY <1>1 DEF SameGiven, Given
<1>3. QED
  BY <1>1, <1>2 DEF M, Closed

\* A slot that leads where it led.
SameSlot(x, y) == x.m_pitem = y.m_pitem /\ x.m_item_id = y.m_item_id

(* What SlotRemoved changes.                                               *)
LEMMA SlotRemovedIs ==
    ASSUME NEW I \in Lists(Slots), NEW i \in OpenIds(I)
    PROVE  LET J == SlotRemoved(I, i)
           IN /\ J \in Lists(Slots) /\ SameGiven(J, I)
              /\ Ids(J) \subseteq Ids(I) /\ OpenIds(J) = OpenIds(I) \ {i}
              /\ \A j \in Ids(J) : /\ SameSlot(Item(J, j), Item(I, j))
                                   /\ j # i => Item(J, j) = Item(I, j)
<1> DEFINE x == [Item(I, i) EXCEPT !.m_closed = TRUE]
           J == SlotRemoved(I, i)
<1>1. \A v \in Slots : v.m_closed \in BOOLEAN
  BY DEF Slots
<1>2. Item(I, i) \in Slots
  BY <1>1, OpenAre
<1>3. x \in Slots /\ x.m_closed = TRUE /\ SameSlot(x, Item(I, i))
  BY <1>2 DEF Slots, SameSlot
<1>4. J = Prune(SetItem(I, i, x), i)
  BY DEF SlotRemoved
<1> HIDE DEF x
<1>5. Closed(J, I, i, x) /\ J \in Lists(Slots)
  BY <1>1, <1>3, <1>4, ItemClosed
<1> HIDE DEF J
<1>6. ASSUME NEW j \in Ids(J)
      PROVE  SameSlot(Item(J, j), Item(I, j)) /\ (j # i => Item(J, j) = Item(I, j))
  <2>1. CASE j = i
    BY <1>3, <1>5, <2>1 DEF Closed
  <2>2. CASE j # i
    <3>1. Item(J, j) = Item(I, j)
      BY <1>5, <2>2 DEF Closed, SameItem
    <3>2. QED
      BY <3>1 DEF SameSlot
  <2>3. QED
    BY <2>1, <2>2
<1>7. QED
  BY <1>5, <1>6 DEF Closed, J

\* A channel and its slot are closed, and its descriptor is free.
IsDeleted(U, T, s, id) ==
    LET h == Item(T.channels[s], id).m_socket_descriptor
        e == Item(T.channels[s], id).m_eh_id
    IN /\ U \in TableSet /\ U.sync = T.sync
       /\ U.epoll = Unwatched(T.epoll, h)
       /\ U.net[h] = "free" /\ \A g \in Handles : g # h => U.net[g] = T.net[g]
       /\ SameGiven(U.slots, T.slots)
       /\ Ids(U.slots) \subseteq Ids(T.slots) /\ OpenIds(U.slots) = OpenIds(T.slots) \ {e}
       /\ \A i \in Ids(U.slots) : /\ SameSlot(Item(U.slots, i), Item(T.slots, i))
                                  /\ i # e => Item(U.slots, i) = Item(T.slots, i)
       /\ \A t \in Sockets : SameGiven(U.channels[t], T.channels[t])
       /\ OpenIds(U.channels[s]) = OpenIds(T.channels[s]) \ {id}
       /\ \A t \in Sockets : \A j \in OpenIds(U.channels[t]) :
            /\ j \in OpenIds(T.channels[t]) /\ (t # s \/ j # id)
            /\ SameItem(U.channels[t], T.channels[t], j)
       /\ \A t \in Sockets : t # s => U.channels[t] = T.channels[t]

(* What Deleted changes.                                                   *)
LEMMA DeletedIs ==
    ASSUME NEW T, Sound(T), NEW s \in Sockets, NEW id \in OpenIds(T.channels[s])
    PROVE  IsDeleted(Deleted(T, s, id), T, s, id)
<1> DEFINE c == Item(T.channels[s], id)
           h == c.m_socket_descriptor
           e == c.m_eh_id
           L == T.channels[s]
           x == [c EXCEPT !.m_closed = TRUE, !.m_socket_descriptor = None, !.m_send_stream = 0]
           M == Prune(SetItem(L, id, x), id)
           J == SlotRemoved(T.slots, e)
           E == Unwatched(T.epoll, h)
           N == [T.net EXCEPT ![h] = "free"]
           U == Deleted(T, s, id)
<1>1. /\ c \in Channels /\ h \in Handles /\ e \in OpenIds(T.slots)
  BY ChannelSlot
<1>2. T \in TableSet /\ L \in Lists(Channels) /\ T.slots \in Lists(Slots)
  BY TablesAre DEF Sound
<1>3. \A v \in Channels : v.m_closed \in BOOLEAN
  BY DEF Channels
<1>4. x \in Channels /\ x.m_closed = TRUE
  <2>1. 0 \in 0..MaxPending
    BY BoundsAssumption
  <2>2. QED
    BY <1>1, <2>1 DEF Channels
<1>5. U = [T EXCEPT !.channels = [T.channels EXCEPT ![s] = M],
                    !.slots = J, !.epoll = E, !.net = N]
  BY DEF Deleted
<1> HIDE DEF x, c
<1>6. Closed(M, L, id, x) /\ M \in Lists(Channels)
  BY <1>2, <1>3, <1>4, ItemClosed
<1>7. /\ J \in Lists(Slots) /\ SameGiven(J, T.slots)
      /\ Ids(J) \subseteq Ids(T.slots) /\ OpenIds(J) = OpenIds(T.slots) \ {e}
      /\ \A j \in Ids(J) : /\ SameSlot(Item(J, j), Item(T.slots, j))
                           /\ j # e => Item(J, j) = Item(T.slots, j)
  BY <1>1, <1>2, SlotRemovedIs
<1> HIDE DEF M, J
<1>8. E \in SUBSET Watches /\ N \in [Handles -> Nets]
  BY <1>1, <1>2 DEF TableSet, Unwatched, Nets
<1>9. N[h] = "free" /\ \A g \in Handles : g # h => N[g] = T.net[g]
  BY <1>1, <1>2 DEF TableSet
<1> HIDE DEF E, N, U
<1>10. /\ U \in TableSet /\ U.sync = T.sync /\ U.epoll = E /\ U.net = N /\ U.slots = J
       /\ U.channels = [T.channels EXCEPT ![s] = M]
  BY <1>2, <1>5, <1>6, <1>7, <1>8 DEF TableSet
<1>11. U.channels[s] = M /\ \A t \in Sockets : t # s => U.channels[t] = T.channels[t]
  BY <1>2, <1>10 DEF TableSet
<1>12. \A t \in Sockets : SameGiven(U.channels[t], T.channels[t])
  BY <1>6, <1>11 DEF Closed, SameGiven
<1>13. OpenIds(M) = OpenIds(L) \ {id} /\ OpenIds(M) \subseteq Ids(M)
  BY <1>6 DEF Closed, OpenIds
<1>14. ASSUME NEW t \in Sockets, NEW j \in OpenIds(U.channels[t])
       PROVE  /\ j \in OpenIds(T.channels[t]) /\ (t # s \/ j # id)
              /\ SameItem(U.channels[t], T.channels[t], j)
  <2>1. CASE t = s
    <3>1. j \in OpenIds(L) /\ j # id /\ j \in Ids(M)
      BY <1>11, <1>13, <2>1
    <3>2. SameItem(M, L, j)
      BY <1>6, <3>1 DEF Closed
    <3>3. QED
      BY <1>11, <2>1, <3>1, <3>2
  <2>2. CASE t # s
    BY <1>11, <2>2 DEF SameItem
  <2>3. QED
    BY <2>1, <2>2
<1> HIDE DEF L
<1>15. OpenIds(U.channels[s]) = OpenIds(T.channels[s]) \ {id}
  BY <1>11, <1>13 DEF L
<1>16. IsDeleted(U, T, s, id)
  BY <1>7, <1>9, <1>10, <1>11, <1>12, <1>14, <1>15 DEF IsDeleted, E, c
<1>17. QED
  BY <1>16 DEF U

\* The ids that add_channel gives out.
NewId(T, s) == NextId(WithRoom(T.channels[s], ChannelCapacity))
NewSlot(T) == NextId(WithRoom(T.slots, SlotCapacity))

\* The descriptor that the new channel gets, and what becomes of it.
NewHandle(T) == Min({x \in Handles : T.net[x] = "free"})

Outcome(type, attempts, answer) ==
    IF type = "listening" THEN "listening"
    ELSE IF answer = "pending"
         THEN IF attempts = 0 THEN "connected" ELSE "connecting"
         ELSE answer

(* What Room provides.                                                     *)
LEMMA RoomIs ==
    ASSUME NEW T \in TableSet, NEW s \in Sockets, Room(T, s)
    PROVE  /\ NewId(T, s) \in 0..(MaxIds - 1) /\ NewSlot(T) \in 0..(MaxIds - 1)
           /\ NewHandle(T) \in Handles /\ T.net[NewHandle(T)] = "free"
<1> DEFINE F == {x \in Handles : T.net[x] = "free"}
<1>1. F \subseteq Nat /\ F # {}
  BY HandlesAssumption DEF Room
<1>2. Min(F) \in F
  BY <1>1, MinIs
<1>3. /\ T.channels[s] \in Lists(Channels) /\ T.slots \in Lists(Slots)
      /\ \A v \in Channels : v.m_closed \in BOOLEAN
      /\ \A v \in Slots : v.m_closed \in BOOLEAN
  BY TablesAre
<1>4. ChannelCapacity \in PowersOfTwo /\ SlotCapacity \in PowersOfTwo
  BY CapacityAssumption
<1>5. NewId(T, s) \in Nat /\ NewSlot(T) \in Nat
  BY <1>3, <1>4, RoomUntouched DEF NewId, NewSlot
<1>6. /\ Prepared(T, s).channels[s] = WithRoom(T.channels[s], ChannelCapacity)
      /\ Prepared(T, s).slots = WithRoom(T.slots, SlotCapacity)
  BY PreparedIs
<1>7. NewId(T, s) < MaxIds /\ NewSlot(T) < MaxIds
  BY <1>6 DEF Room, NewId, NewSlot
<1>8. QED
  BY <1>2, <1>5, <1>7, Width DEF NewHandle

\* A channel has been added, with its slot.
IsAdded(U, T, s, type, attempts, answer) ==
    LET h == NewHandle(T)
        n == NewId(T, s)
        k == NewSlot(T)
        c == Item(U.channels[s], n)
    IN /\ U \in TableSet
       /\ Added(U.slots, T.slots, k, Slot(s, n)) /\ Added(U.channels[s], T.channels[s], n, c)
       /\ c.m_socket_descriptor = h /\ c.m_eh_id = k /\ c.m_type = type
       /\ c.m_attempts = attempts /\ c.m_sync_result = answer /\ c.m_send_stream = 0
       /\ \A t \in Sockets : t # s => U.channels[t] = T.channels[t]
       /\ \E task : U.epoll = T.epoll \cup {Watch(h, k, task)}
       /\ U.sync = IF answer = "pending" THEN T.sync ELSE T.sync \cup {k}
       /\ \A g \in Handles : g # h => U.net[g] = T.net[g]
       /\ U.net[h] = Outcome(type, attempts, answer)

(* What AddChannel changes.                                                *)
LEMMA AddedIs ==
    ASSUME NEW T \in TableSet, NEW s \in Sockets, Room(T, s),
           NEW type \in {"listening", "streaming_opened", "streaming_accepted"},
           NEW attempts \in 0..MaxAttempts, NEW answer \in Answers
    PROVE  IsAdded(AddChannel(T, s, type, attempts, answer, "none"), T, s, type, attempts,
                   answer)
<1> DEFINE U == AddChannel(T, s, type, attempts, answer, "none")
           h == NewHandle(T)
           P == Prepared(T, s)
           n == NewId(T, s)
           k == NewSlot(T)
           task == IF type = "listening" THEN "accept"
                   ELSE IF attempts = 0 THEN "receive" ELSE "connect"
           x == [m_closed |-> FALSE, m_socket_descriptor |-> h,
                 m_type |-> type, m_attempts |-> attempts, m_eh_id |-> k,
                 m_sync_result |-> answer, m_send_stream |-> 0]
           y == Slot(s, n)
           M == AddItem(WithRoom(T.channels[s], ChannelCapacity), x)
           J == AddItem(WithRoom(T.slots, SlotCapacity), y)
           E == T.epoll \cup {Watch(h, k, task)}
           S == IF answer = "pending" THEN T.sync ELSE T.sync \cup {k}
           a == Outcome(type, attempts, answer)
           N == [T.net EXCEPT ![h] = a]
<1>1. /\ T.channels[s] \in Lists(Channels) /\ T.slots \in Lists(Slots)
      /\ \A v \in Channels : v.m_closed \in BOOLEAN
      /\ \A v \in Slots : v.m_closed \in BOOLEAN
  BY TablesAre
<1>2. ChannelCapacity \in PowersOfTwo /\ SlotCapacity \in PowersOfTwo
  BY CapacityAssumption
<1>3. n \in 0..(MaxIds - 1) /\ k \in 0..(MaxIds - 1) /\ h \in Handles
  BY RoomIs
<1>4. n < MaxIds /\ k < MaxIds
  BY <1>3, Width
<1>5. /\ P \in TableSet /\ P.epoll = T.epoll /\ P.sync = T.sync /\ P.net = T.net
      /\ P.channels[s] = WithRoom(T.channels[s], ChannelCapacity)
      /\ P.slots = WithRoom(T.slots, SlotCapacity)
      /\ \A t \in Sockets : t # s => P.channels[t] = T.channels[t]
  BY PreparedIs
<1>6. n = NextId(P.channels[s]) /\ k = NextId(P.slots)
  BY <1>5 DEF NewId, NewSlot
<1>7. U = [channels |-> [P.channels EXCEPT ![s] = M], slots |-> J, epoll |-> E,
           sync |-> S, net |-> N]
  BY <1>5, <1>6 DEF AddChannel, TableSet, NewHandle, Outcome
<1> HIDE DEF h, n, k, P, U
<1>8. x \in Channels /\ x.m_closed = FALSE
  <2>1. 0 \in 0..MaxPending /\ h # None
    BY <1>3, BoundsAssumption, HandlesAssumption
  <2>2. QED
    BY <1>3, <2>1 DEF Channels
<1>9. y \in Slots /\ y.m_closed = FALSE
  BY <1>3 DEF Slots, Slot
<1>10. /\ x.m_socket_descriptor = h /\ x.m_eh_id = k /\ x.m_type = type
       /\ x.m_attempts = attempts /\ x.m_sync_result = answer /\ x.m_send_stream = 0
  OBVIOUS
<1> HIDE DEF x
<1>11. Added(M, T.channels[s], n, x) /\ M \in Lists(Channels)
  BY <1>1, <1>2, <1>4, <1>8, ItemAdded DEF n, NewId
<1>12. Added(J, T.slots, k, y) /\ J \in Lists(Slots)
  BY <1>1, <1>2, <1>4, <1>9, ItemAdded DEF k, NewSlot
<1> HIDE DEF M, J
<1>13. E \in SUBSET Watches /\ S \in SUBSET (0..(MaxIds - 1))
  <2>1. Watch(h, k, task) \in Watches
    BY <1>3 DEF Watch, Watches
  <2>2. QED
    BY <1>3, <2>1 DEF TableSet
<1>14. a \in Nets
  BY DEF Nets, Answers, Outcome
<1> HIDE DEF a, E, S
<1>15. /\ N \in [Handles -> Nets] /\ N[h] = a
       /\ \A g \in Handles : g # h => N[g] = T.net[g]
  BY <1>3, <1>14 DEF TableSet
<1> HIDE DEF N
<1>16. [P.channels EXCEPT ![s] = M] \in [Sockets -> Lists(Channels)]
  BY <1>5, <1>11 DEF TableSet
<1>17. /\ U \in TableSet /\ U.slots = J /\ U.epoll = E /\ U.sync = S /\ U.net = N
       /\ U.channels = [P.channels EXCEPT ![s] = M]
  BY <1>7, <1>12, <1>13, <1>15, <1>16 DEF TableSet
<1>18. U.channels[s] = M /\ \A t \in Sockets : t # s => U.channels[t] = T.channels[t]
  BY <1>5, <1>17 DEF TableSet
<1>19. Item(U.channels[s], n) = x
  BY <1>11, <1>18 DEF Added
<1>20. \E z : U.epoll = T.epoll \cup {Watch(h, k, z)}
  BY <1>17 DEF E
<1>21. IsAdded(U, T, s, type, attempts, answer)
  BY <1>10, <1>11, <1>12, <1>15, <1>17, <1>18, <1>19, <1>20 DEF IsAdded, h, n, k, S, a
<1>22. QED
  BY <1>21 DEF U

\* Nothing has been added, or a slot that is closed again.
IsNotAdded(U, T, failure) ==
    /\ U \in TableSet /\ U.epoll = T.epoll /\ U.net = T.net
    /\ \A t \in Sockets : Untouched(U.channels[t], T.channels[t])
    /\ OpenIds(U.slots) = OpenIds(T.slots)
    /\ \A i \in OpenIds(T.slots) : Item(U.slots, i) = Item(T.slots, i)
    /\ failure = "epoll_ctl" => Untouched(U.slots, T.slots) /\ U.sync = T.sync

(* What an AddChannel changes that fails.                                  *)
LEMMA NotAddedIs ==
    ASSUME NEW T \in TableSet, NEW s \in Sockets, Room(T, s),
           NEW type, NEW attempts, NEW answer, NEW failure \in {"epoll_ctl", "getsockname"}
    PROVE  IsNotAdded(AddChannel(T, s, type, attempts, answer, failure), T, failure)
<1> DEFINE U == AddChannel(T, s, type, attempts, answer, failure)
           P == Prepared(T, s)
           n == NewId(T, s)
           k == NewSlot(T)
           y == Slot(s, n)
           J == AddItem(WithRoom(T.slots, SlotCapacity), y)
           S == IF answer = "pending" THEN T.sync ELSE T.sync \cup {k}
<1>1. /\ T.channels[s] \in Lists(Channels) /\ T.slots \in Lists(Slots)
      /\ \A v \in Channels : v.m_closed \in BOOLEAN
      /\ \A v \in Slots : v.m_closed \in BOOLEAN
  BY TablesAre
<1>2. ChannelCapacity \in PowersOfTwo /\ SlotCapacity \in PowersOfTwo
  BY CapacityAssumption
<1>3. n \in 0..(MaxIds - 1) /\ k \in 0..(MaxIds - 1)
  BY RoomIs
<1>4. k < MaxIds
  BY <1>3, Width
<1>5. /\ P \in TableSet /\ P.epoll = T.epoll /\ P.sync = T.sync /\ P.net = T.net
      /\ P.channels[s] = WithRoom(T.channels[s], ChannelCapacity)
      /\ P.slots = WithRoom(T.slots, SlotCapacity)
      /\ \A t \in Sockets : t # s => P.channels[t] = T.channels[t]
  BY PreparedIs
<1>6. n = NextId(P.channels[s]) /\ k = NextId(P.slots)
  BY <1>5 DEF NewId, NewSlot
<1>7. y \in Slots /\ y.m_closed = FALSE
  BY <1>3 DEF Slots, Slot
<1>8. Untouched(P.channels[s], T.channels[s]) /\ Untouched(P.slots, T.slots)
  BY <1>1, <1>2, <1>5, RoomUntouched
<1>9. \A t \in Sockets : Untouched(P.channels[t], T.channels[t])
  BY <1>5, <1>8 DEF Untouched, SameIds, SameGiven, SameItem
<1>10. Added(J, T.slots, k, y) /\ J \in Lists(Slots)
  BY <1>1, <1>2, <1>4, <1>7, ItemAdded DEF k, NewSlot
<1>11. CASE failure = "epoll_ctl"
  <2>1. U = P
    BY <1>11 DEF AddChannel
  <2> HIDE DEF U, P
  <2>2. \A i \in OpenIds(T.slots) : Item(P.slots, i) = Item(T.slots, i)
    BY <1>8 DEF Untouched, SameItem, OpenIds
  <2>3. OpenIds(P.slots) = OpenIds(T.slots)
    BY <1>8 DEF Untouched, SameIds
  <2>4. IsNotAdded(U, T, failure)
    BY <1>5, <1>8, <1>9, <1>11, <2>1, <2>2, <2>3 DEF IsNotAdded
  <2>5. QED
    BY <2>4 DEF U
<1>12. CASE failure = "getsockname"
  <2> DEFINE K == SlotRemoved(J, k)
  <2>1. U = [P EXCEPT !.slots = K, !.sync = S]
    BY <1>5, <1>6, <1>12 DEF AddChannel, TableSet
  <2>2. k \in OpenIds(J)
    BY <1>10 DEF Added
  <2>3. /\ K \in Lists(Slots) /\ OpenIds(K) = OpenIds(J) \ {k}
        /\ \A j \in Ids(K) : j # k => Item(K, j) = Item(J, j)
    BY <1>10, <2>2, SlotRemovedIs
  <2> HIDE DEF K, J, U, P, k
  <2>4. OpenIds(T.slots) \subseteq Ids(T.slots) /\ OpenIds(K) \subseteq Ids(K)
    BY DEF OpenIds
  <2>5. OpenIds(K) = OpenIds(T.slots)
    BY <1>10, <2>3, <2>4 DEF Added
  <2>6. \A i \in OpenIds(T.slots) : Item(K, i) = Item(T.slots, i)
    BY <1>10, <2>3, <2>4, <2>5 DEF Added, SameItem
  <2>7. S \in SUBSET (0..(MaxIds - 1))
    BY <1>3 DEF TableSet
  <2> HIDE DEF S
  <2>8. /\ U \in TableSet /\ U.epoll = P.epoll /\ U.net = P.net /\ U.slots = K
        /\ U.channels = P.channels
    BY <1>5, <2>1, <2>3, <2>7 DEF TableSet
  <2>9. IsNotAdded(U, T, failure)
    BY <1>5, <1>9, <1>12, <2>5, <2>6, <2>8 DEF IsNotAdded
  <2>10. QED
    BY <2>9 DEF U
<1>13. QED
  BY <1>11, <1>12

(* The tables stay sound while nothing is opened, closed or moved.         *)
LEMMA SoundKept ==
    ASSUME NEW T, Sound(T), NEW U \in TableSet, U.epoll = T.epoll, U.net = T.net,
           \A s \in Sockets :
              /\ OpenIds(U.channels[s]) = OpenIds(T.channels[s])
              /\ \A id \in OpenIds(T.channels[s]) :
                   /\ Item(U.channels[s], id).m_socket_descriptor =
                        Item(T.channels[s], id).m_socket_descriptor
                   /\ Item(U.channels[s], id).m_eh_id = Item(T.channels[s], id).m_eh_id,
           OpenIds(U.slots) = OpenIds(T.slots),
           \A i \in OpenIds(T.slots) : Item(U.slots, i) = Item(T.slots, i)
    PROVE  Sound(U)
<1>1. \A w, id : \A s \in Sockets : Leads(T, w, s, id) => Leads(U, w, s, id)
  BY DEF Leads
<1>2. \A w \in U.epoll : /\ U.net[w.handle] # "free"
                         /\ \E s \in Sockets, id \in 0..(MaxIds - 1) : Leads(U, w, s, id)
  BY <1>1 DEF Sound
<1>3. \A s \in Sockets : \A id \in OpenIds(U.channels[s]) : \E w \in U.epoll : Leads(U, w, s, id)
  BY <1>1 DEF Sound
<1>4. \A i \in OpenIds(U.slots) : \E w \in U.epoll : w.id = i
  BY DEF Sound
<1>5. IsFiniteSet(U.epoll) /\ \A v, w \in U.epoll : v.handle = w.handle => v = w
  BY DEF Sound
<1>6. QED
  BY <1>2, <1>3, <1>4, <1>5 DEF Sound

(* The tables stay sound when an open channel is written anew.             *)
LEMMA WrittenSound ==
    ASSUME NEW T, Sound(T), NEW s \in Sockets, NEW id \in OpenIds(T.channels[s]),
           NEW c \in Channels, c.m_closed = FALSE,
           c.m_socket_descriptor = Item(T.channels[s], id).m_socket_descriptor,
           c.m_eh_id = Item(T.channels[s], id).m_eh_id
    PROVE  Sound(WithChannel(T, s, id, c))
<1> DEFINE U == WithChannel(T, s, id, c)
<1>1. T \in TableSet
  BY DEF Sound
<1>2. /\ U \in TableSet /\ U.slots = T.slots /\ U.epoll = T.epoll /\ U.net = T.net
      /\ \A t \in Sockets : SameIds(U.channels[t], T.channels[t])
      /\ Item(U.channels[s], id) = c
      /\ \A t \in Sockets : \A j \in OpenIds(T.channels[t]) :
           t # s \/ j # id => SameItem(U.channels[t], T.channels[t], j)
  <2>1. IsWritten(U, T, s, id, c)
    BY <1>1, WrittenIs
  <2>2. QED
    BY <2>1 DEF IsWritten
<1> HIDE DEF U
<1>3. \A t \in Sockets : OpenIds(U.channels[t]) = OpenIds(T.channels[t])
  BY <1>2 DEF SameIds
<1>4. ASSUME NEW t \in Sockets, NEW j \in OpenIds(T.channels[t])
      PROVE  /\ Item(U.channels[t], j).m_socket_descriptor =
                  Item(T.channels[t], j).m_socket_descriptor
             /\ Item(U.channels[t], j).m_eh_id = Item(T.channels[t], j).m_eh_id
  <2>1. CASE t = s /\ j = id
    BY <1>2, <2>1
  <2>2. CASE t # s \/ j # id
    BY <1>2, <2>2 DEF SameItem
  <2>3. QED
    BY <2>1, <2>2
<1>5. Sound(U)
  BY <1>2, <1>3, <1>4, SoundKept
<1>6. QED
  BY <1>5 DEF U

(* The tables stay sound when an addition fails.                           *)
LEMMA NotAddedSound ==
    ASSUME NEW T, Sound(T), NEW s \in Sockets, Room(T, s),
           NEW type, NEW attempts, NEW answer, NEW failure \in {"epoll_ctl", "getsockname"}
    PROVE  Sound(AddChannel(T, s, type, attempts, answer, failure))
<1> DEFINE U == AddChannel(T, s, type, attempts, answer, failure)
<1>1. T \in TableSet
  BY DEF Sound
<1>2. /\ U \in TableSet /\ U.epoll = T.epoll /\ U.net = T.net
      /\ \A t \in Sockets : Untouched(U.channels[t], T.channels[t])
      /\ OpenIds(U.slots) = OpenIds(T.slots)
      /\ \A i \in OpenIds(T.slots) : Item(U.slots, i) = Item(T.slots, i)
  <2>1. IsNotAdded(U, T, failure)
    BY <1>1, NotAddedIs
  <2>2. QED
    BY <2>1 DEF IsNotAdded
<1> HIDE DEF U
<1>3. \A t \in Sockets : OpenIds(U.channels[t]) = OpenIds(T.channels[t])
  BY <1>2 DEF Untouched, SameIds
<1>4. \A t \in Sockets : \A j \in OpenIds(T.channels[t]) :
         Item(U.channels[t], j) = Item(T.channels[t], j)
  BY <1>2 DEF Untouched, SameItem, OpenIds
<1>5. Sound(U)
  BY <1>2, <1>3, <1>4, SoundKept
<1>6. QED
  BY <1>5 DEF U

(* The tables stay sound when a descriptor is watched for another task.    *)
LEMMA RewatchedSound ==
    ASSUME NEW T, Sound(T), NEW s \in Sockets, NEW id \in OpenIds(T.channels[s]), NEW task
    PROVE  Sound(Rewatched(T, s, id, task))
<1> DEFINE U == Rewatched(T, s, id, task)
           c == Item(T.channels[s], id)
           h == c.m_socket_descriptor
           x == Watch(h, c.m_eh_id, task)
<1>1. /\ U \in TableSet /\ U.channels = T.channels /\ U.net = T.net
      /\ U.epoll = Unwatched(T.epoll, h) \cup {x}
      /\ SameIds(U.slots, T.slots) /\ Ids(U.slots) = Ids(T.slots)
      /\ \A i \in Ids(T.slots) : Item(U.slots, i) = Item(T.slots, i)
  <2>1. IsRewatched(U, T, s, id, task)
    BY RewatchedIs
  <2>2. QED
    BY <2>1 DEF IsRewatched
<1> HIDE DEF U
<1>2. x.handle = h /\ x.id = c.m_eh_id
  BY DEF Watch
<1>3. T.net[h] # "free" /\ h \in Handles
  BY ChannelSlot
<1> HIDE DEF c, x
<1>4. /\ OpenIds(U.slots) = OpenIds(T.slots)
      /\ \A i \in OpenIds(T.slots) : Item(U.slots, i) = Item(T.slots, i)
  BY <1>1 DEF SameIds, OpenIds
<1>5. \A w, t, j : Leads(U, w, t, j) <=> Leads(T, w, t, j)
  BY <1>1, <1>4 DEF Leads
<1>6. PICK v \in T.epoll : Leads(T, v, s, id)
  BY ChannelWatched
<1>7. v.handle = x.handle /\ v.id = x.id
  BY <1>2, <1>6 DEF Leads, c
<1>8. Leads(T, x, s, id)
  BY <1>6, <1>7 DEF Leads
<1>9. id \in 0..(MaxIds - 1)
  <2>1. T \in TableSet
    BY DEF Sound
  <2>2. QED
    BY <2>1, TablesAre
<1>10. ASSUME NEW w \in T.epoll PROVE w.handle = h => w = v
  BY <1>2, <1>6, <1>7 DEF Sound
<1>11. \A w \in U.epoll : /\ U.net[w.handle] # "free"
                          /\ \E t \in Sockets, j \in 0..(MaxIds - 1) : Leads(U, w, t, j)
  <2> TAKE w \in U.epoll
  <2>1. CASE w = x
    BY <1>1, <1>2, <1>3, <1>5, <1>8, <1>9, <2>1
  <2>2. CASE w \in T.epoll
    BY <1>1, <1>5, <2>2 DEF Sound
  <2>3. QED
    BY <1>1, <2>1, <2>2 DEF Unwatched
<1>12. ASSUME NEW t \in Sockets, NEW j \in OpenIds(U.channels[t])
       PROVE  \E w \in U.epoll : Leads(U, w, t, j)
  <2>1. CASE t = s /\ j = id
    BY <1>1, <1>5, <1>8, <2>1
  <2>2. CASE t # s \/ j # id
    <3>1. PICK w \in T.epoll : Leads(T, w, t, j)
      BY <1>1 DEF Sound
    <3>2. w # v
      BY <1>6, <2>2, <3>1 DEF Leads
    <3>3. w \in U.epoll
      BY <1>1, <1>10, <3>2 DEF Unwatched
    <3>4. QED
      BY <1>5, <3>1, <3>3
  <2>3. QED
    BY <2>1, <2>2
<1>13. ASSUME NEW i \in OpenIds(U.slots) PROVE \E w \in U.epoll : w.id = i
  <2>1. PICK w \in T.epoll : w.id = i
    BY <1>4 DEF Sound
  <2>2. CASE w = v
    BY <1>1, <1>7, <2>1, <2>2
  <2>3. CASE w # v
    BY <1>1, <1>10, <2>1, <2>3 DEF Unwatched
  <2>4. QED
    BY <2>2, <2>3
<1>14. IsFiniteSet(U.epoll)
  <2>1. IsFiniteSet(T.epoll) /\ Unwatched(T.epoll, h) \subseteq T.epoll
    BY DEF Sound, Unwatched
  <2>2. IsFiniteSet(Unwatched(T.epoll, h))
    BY <2>1, FS_Subset
  <2>3. QED
    BY <1>1, <2>2, FS_AddElement
<1>15. \A a, b \in U.epoll : a.handle = b.handle => a = b
  <2>1. \A a \in U.epoll : a = x \/ (a \in T.epoll /\ a.handle # h)
    BY <1>1 DEF Unwatched
  <2>2. QED
    BY <1>2, <2>1 DEF Sound
<1>16. Sound(U)
  BY <1>1, <1>11, <1>12, <1>13, <1>14, <1>15 DEF Sound
<1>17. QED
  BY <1>16 DEF U

(* The tables stay sound when a channel is added.                          *)
LEMMA AddedSound ==
    ASSUME NEW T, Sound(T), NEW s \in Sockets, Room(T, s),
           NEW type \in {"listening", "streaming_opened", "streaming_accepted"},
           NEW attempts \in 0..MaxAttempts, NEW answer \in Answers
    PROVE  Sound(AddChannel(T, s, type, attempts, answer, "none"))
<1> DEFINE U == AddChannel(T, s, type, attempts, answer, "none")
           h == NewHandle(T)
           n == NewId(T, s)
           k == NewSlot(T)
           c == Item(U.channels[s], n)
<1>1. T \in TableSet
  BY DEF Sound
<1>2. IsAdded(U, T, s, type, attempts, answer)
  BY <1>1, AddedIs
<1>3. n \in 0..(MaxIds - 1) /\ h \in Handles /\ T.net[h] = "free"
  BY <1>1, RoomIs
<1> HIDE DEF U
<1>4. /\ U \in TableSet
      /\ Added(U.slots, T.slots, k, Slot(s, n)) /\ Added(U.channels[s], T.channels[s], n, c)
      /\ c.m_socket_descriptor = h /\ c.m_eh_id = k
      /\ \A t \in Sockets : t # s => U.channels[t] = T.channels[t]
      /\ \A g \in Handles : g # h => U.net[g] = T.net[g]
      /\ U.net[h] # "free"
  BY <1>2 DEF IsAdded, Answers, Outcome
<1>5. PICK task : U.epoll = T.epoll \cup {Watch(h, k, task)}
  BY <1>2 DEF IsAdded
<1> DEFINE x == Watch(h, k, task)
<1>6. x.handle = h /\ x.id = k
  BY DEF Watch
<1>7. Slot(s, n).m_pitem = s /\ Slot(s, n).m_item_id = n
  BY DEF Slot
<1> HIDE DEF h, n, k, c, x
<1>8. Leads(U, x, s, n)
  BY <1>4, <1>6, <1>7 DEF Leads, Added, c
<1>9. /\ OpenIds(T.slots) \subseteq OpenIds(U.slots)
      /\ \A i \in OpenIds(T.slots) : Item(U.slots, i) = Item(T.slots, i)
  BY <1>4 DEF Added, SameItem, OpenIds
<1>10. \A t \in Sockets : /\ OpenIds(T.channels[t]) \subseteq OpenIds(U.channels[t])
                          /\ \A j \in OpenIds(T.channels[t]) :
                               Item(U.channels[t], j) = Item(T.channels[t], j)
  <2> TAKE t \in Sockets
  <2>1. CASE t = s
    BY <1>4, <2>1 DEF Added, SameItem, OpenIds
  <2>2. CASE t # s
    BY <1>4, <2>2
  <2>3. QED
    BY <2>1, <2>2
<1>11. \A w, j : \A t \in Sockets : Leads(T, w, t, j) => Leads(U, w, t, j)
  BY <1>9, <1>10 DEF Leads
<1>12. \A w \in T.epoll : w.handle \in Handles /\ w.handle # h
  BY <1>1, <1>3 DEF Sound, TableSet, Watches
<1>13. \A w \in U.epoll : /\ U.net[w.handle] # "free"
                          /\ \E t \in Sockets, j \in 0..(MaxIds - 1) : Leads(U, w, t, j)
  <2> TAKE w \in U.epoll
  <2>1. CASE w = x
    BY <1>3, <1>4, <1>6, <1>8, <2>1
  <2>2. CASE w \in T.epoll
    <3>1. U.net[w.handle] # "free"
      BY <1>4, <1>12, <2>2 DEF Sound
    <3>2. QED
      BY <1>11, <2>2, <3>1 DEF Sound
  <2>3. QED
    BY <1>5, <2>1, <2>2 DEF x
<1>14. ASSUME NEW t \in Sockets, NEW j \in OpenIds(U.channels[t])
       PROVE  \E w \in U.epoll : Leads(U, w, t, j)
  <2>1. CASE t = s /\ j = n
    BY <1>5, <1>8, <2>1 DEF x
  <2>2. CASE t # s \/ j # n
    <3>1. j \in OpenIds(T.channels[t])
      BY <1>4, <2>2 DEF Added
    <3>2. PICK w \in T.epoll : Leads(T, w, t, j)
      BY <3>1 DEF Sound
    <3>3. QED
      BY <1>5, <1>11, <3>2
  <2>3. QED
    BY <2>1, <2>2
<1>15. ASSUME NEW i \in OpenIds(U.slots) PROVE \E w \in U.epoll : w.id = i
  <2>1. CASE i = k
    BY <1>5, <1>6, <2>1 DEF x
  <2>2. CASE i # k
    <3>1. i \in OpenIds(T.slots)
      BY <1>4, <2>2 DEF Added
    <3>2. QED
      BY <1>5, <3>1 DEF Sound
  <2>3. QED
    BY <2>1, <2>2
<1>16. IsFiniteSet(U.epoll)
  <2>1. IsFiniteSet(T.epoll)
    BY DEF Sound
  <2>2. QED
    BY <1>5, <2>1, FS_AddElement
<1>17. \A a, b \in U.epoll : a.handle = b.handle => a = b
  <2>1. \A a \in U.epoll : a = x \/ a \in T.epoll
    BY <1>5 DEF x
  <2>2. QED
    BY <1>6, <1>12, <2>1 DEF Sound
<1>18. Sound(U)
  BY <1>4, <1>13, <1>14, <1>15, <1>16, <1>17 DEF Sound
<1>19. QED
  BY <1>18 DEF U

(* The tables stay sound when a channel is deleted.                        *)
LEMMA DeletedSound ==
    ASSUME NEW T, Sound(T), NEW s \in Sockets, NEW id \in OpenIds(T.channels[s])
    PROVE  Sound(Deleted(T, s, id))
<1> DEFINE U == Deleted(T, s, id)
           h == Item(T.channels[s], id).m_socket_descriptor
           e == Item(T.channels[s], id).m_eh_id
<1>0. IsDeleted(U, T, s, id)
  BY DeletedIs
<1> HIDE DEF U
<1>1. /\ U \in TableSet
      /\ U.epoll = Unwatched(T.epoll, h)
      /\ \A g \in Handles : g # h => U.net[g] = T.net[g]
      /\ OpenIds(U.slots) = OpenIds(T.slots) \ {e}
      /\ \A i \in Ids(U.slots) : i # e => Item(U.slots, i) = Item(T.slots, i)
  BY <1>0 DEF IsDeleted
<1>2. /\ OpenIds(U.channels[s]) = OpenIds(T.channels[s]) \ {id}
      /\ \A t \in Sockets : \A j \in OpenIds(U.channels[t]) :
           /\ j \in OpenIds(T.channels[t]) /\ (t # s \/ j # id)
           /\ SameItem(U.channels[t], T.channels[t], j)
      /\ \A t \in Sockets : t # s => U.channels[t] = T.channels[t]
  BY <1>0 DEF IsDeleted
<1>3. PICK v \in T.epoll : Leads(T, v, s, id)
  BY ChannelWatched
<1>4. v.handle = h /\ v.id = e
  BY <1>3 DEF Leads
<1>5. \A w \in T.epoll : w.handle = h \/ w.id = e => Leads(T, w, s, id)
  BY ChannelWatched
<1>6. \A w \in T.epoll : w.handle = h => w = v
  BY <1>4 DEF Sound
<1> HIDE DEF h, e
<1>7. ASSUME NEW w \in T.epoll, NEW t \in Sockets, NEW j, Leads(T, w, t, j), t # s \/ j # id
      PROVE  Leads(U, w, t, j) /\ w \in U.epoll
  <2>1. ~ Leads(T, w, s, id)
    BY <1>7 DEF Leads
  <2>2. w.handle # h /\ w.id # e
    BY <1>5, <2>1
  <2>3. w \in U.epoll
    BY <1>1, <2>2 DEF Unwatched
  <2>4. w.id \in OpenIds(U.slots) /\ w.id \in Ids(U.slots)
    BY <1>1, <1>7, <2>2 DEF Leads, OpenIds
  <2>5. Item(U.slots, w.id) = Item(T.slots, w.id)
    BY <1>1, <2>2, <2>4
  <2>6. j \in OpenIds(U.channels[t])
    BY <1>2, <1>7 DEF Leads
  <2>7. Item(U.channels[t], j) = Item(T.channels[t], j)
    BY <1>2, <2>6 DEF SameItem
  <2>8. QED
    BY <1>7, <2>3, <2>4, <2>5, <2>6, <2>7 DEF Leads
<1>8. ASSUME NEW w \in U.epoll
      PROVE  /\ U.net[w.handle] # "free"
             /\ \E t \in Sockets, j \in 0..(MaxIds - 1) : Leads(U, w, t, j)
  <2>1. w \in T.epoll /\ w.handle # h /\ w.handle \in Handles
    BY <1>1 DEF Unwatched, Sound, TableSet, Watches
  <2>2. PICK t \in Sockets, j \in 0..(MaxIds - 1) : Leads(T, w, t, j)
    BY <2>1 DEF Sound
  <2>3. t # s \/ j # id
    BY <2>1, <2>2 DEF Leads, h
  <2>4. Leads(U, w, t, j)
    BY <1>7, <2>1, <2>2, <2>3
  <2>5. U.net[w.handle] # "free"
    BY <1>1, <2>1 DEF Sound
  <2>6. QED
    BY <2>4, <2>5
<1>9. ASSUME NEW t \in Sockets, NEW j \in OpenIds(U.channels[t])
      PROVE  \E w \in U.epoll : Leads(U, w, t, j)
  <2>1. j \in OpenIds(T.channels[t]) /\ (t # s \/ j # id)
    BY <1>2
  <2>2. PICK w \in T.epoll : Leads(T, w, t, j)
    BY <2>1 DEF Sound
  <2>3. QED
    BY <1>7, <2>1, <2>2
<1>10. ASSUME NEW i \in OpenIds(U.slots) PROVE \E w \in U.epoll : w.id = i
  <2>1. i \in OpenIds(T.slots) /\ i # e
    BY <1>1
  <2>2. PICK w \in T.epoll : w.id = i
    BY <2>1 DEF Sound
  <2>3. w.handle # h
    BY <1>4, <1>6, <2>1, <2>2
  <2>4. QED
    BY <1>1, <2>2, <2>3 DEF Unwatched
<1>11. U.epoll \subseteq T.epoll
  BY <1>1 DEF Unwatched
<1>12. IsFiniteSet(U.epoll)
  <2>1. IsFiniteSet(T.epoll)
    BY DEF Sound
  <2>2. QED
    BY <1>11, <2>1, FS_Subset
<1>13. Sound(U)
  BY <1>1, <1>8, <1>9, <1>10, <1>11, <1>12 DEF Sound
<1>14. QED
  BY <1>13 DEF U

-----------------------------------------------------------------------------
\* An id that was open is where it was, with its descriptor and slot.
KeptId(M, L, id) ==
    /\ id \in OpenIds(L)
    /\ Item(M, id).m_socket_descriptor = Item(L, id).m_socket_descriptor
    /\ Item(M, id).m_eh_id = Item(L, id).m_eh_id
    /\ Home(M, id) = Home(L, id)

\* What a table may do: new ids, and open ones that are kept.
Kept(M, L) ==
    L # <<>> => /\ M # <<>> /\ NextId(L) <= NextId(M)
                /\ \A id \in OpenIds(M) : NextId(L) <= id \/ KeptId(M, L, id)

AllKept(U, T) == \A t \in Sockets : Kept(U.channels[t], T.channels[t])

(* Nothing is lost in two steps either.                                    *)
LEMMA KeptTwice ==
    ASSUME NEW T \in TableSet, NEW V \in TableSet, NEW U \in TableSet,
           AllKept(V, T), AllKept(U, V)
    PROVE  AllKept(U, T)
<1>1. SUFFICES ASSUME NEW t \in Sockets, T.channels[t] # <<>>
               PROVE  /\ U.channels[t] # <<>> /\ NextId(T.channels[t]) <= NextId(U.channels[t])
                      /\ \A id \in OpenIds(U.channels[t]) :
                            \/ NextId(T.channels[t]) <= id
                            \/ KeptId(U.channels[t], T.channels[t], id)
  BY DEF AllKept, Kept
<1> DEFINE K == T.channels[t]
           L == V.channels[t]
           M == U.channels[t]
<1>2. Kept(L, K) /\ Kept(M, L)
  BY DEF AllKept
<1>3. \A v \in Channels : v.m_closed \in BOOLEAN
  BY TablesAre
<1>4. K \in Lists(Channels) /\ L \in Lists(Channels) /\ M \in Lists(Channels)
  BY TablesAre
<1> HIDE DEF K, L, M
<1>5. /\ L # <<>> /\ M # <<>> /\ NextId(K) <= NextId(L) /\ NextId(L) <= NextId(M)
      /\ \A id \in OpenIds(L) : NextId(K) <= id \/ KeptId(L, K, id)
      /\ \A id \in OpenIds(M) : NextId(L) <= id \/ KeptId(M, L, id)
  BY <1>1, <1>2 DEF Kept, K
<1>6. NextId(K) \in 0..MaxIds /\ NextId(L) \in 0..MaxIds /\ NextId(M) \in 0..MaxIds
  <2>1. NextId(K) \in 0..MaxIds
    BY <1>1, <1>4, IdsAre DEF K
  <2>2. NextId(L) \in 0..MaxIds /\ NextId(M) \in 0..MaxIds
    BY <1>4, <1>5, IdsAre
  <2>3. QED
    BY <2>1, <2>2
<1>7. NextId(K) <= NextId(M)
  BY <1>5, <1>6, Width
<1>8. ASSUME NEW id \in OpenIds(M) PROVE NextId(K) <= id \/ KeptId(M, K, id)
  <2>1. id \in 0..(MaxIds - 1)
    BY <1>3, <1>4, OpenAre
  <2>2. CASE NextId(L) <= id
    BY <1>5, <1>6, <2>1, <2>2, Width
  <2>3. CASE KeptId(M, L, id)
    <3>1. id \in OpenIds(L)
      BY <2>3 DEF KeptId
    <3>2. NextId(K) <= id \/ KeptId(L, K, id)
      BY <1>5, <3>1
    <3>3. KeptId(L, K, id) => KeptId(M, K, id)
      BY <2>3 DEF KeptId
    <3>4. QED
      BY <3>2, <3>3
  <2>4. QED
    BY <1>5, <2>2, <2>3
<1>9. QED
  BY <1>5, <1>7, <1>8 DEF K, M

(* A table that gives out nothing keeps the open ids.                      *)
LEMMA KeptSame ==
    ASSUME NEW L \in Lists(Channels), NEW M, SameGiven(M, L),
           \A id \in OpenIds(M) : KeptId(M, L, id)
    PROVE  Kept(M, L)
<1>1. L # <<>> => NextId(L) \in Int
  <2>1. L # <<>> => NextId(L) \in 0..MaxIds
    BY IdsAre
  <2>2. QED
    BY <2>1, Width
<1>2. L # <<>> => M # <<>> /\ NextId(M) = NextId(L)
  BY DEF SameGiven
<1>3. L # <<>> => NextId(L) <= NextId(M)
  BY <1>1, <1>2
<1>4. QED
  BY <1>2, <1>3 DEF Kept

(* The tables keep the ids when a channel is written anew.                 *)
LEMMA WrittenKept ==
    ASSUME NEW T \in TableSet, NEW s \in Sockets, NEW id \in OpenIds(T.channels[s]),
           NEW c, c.m_socket_descriptor = Item(T.channels[s], id).m_socket_descriptor,
           c.m_eh_id = Item(T.channels[s], id).m_eh_id,
           NEW U, IsWritten(U, T, s, id, c)
    PROVE  AllKept(U, T)
<1>1. SUFFICES ASSUME NEW t \in Sockets PROVE Kept(U.channels[t], T.channels[t])
  BY DEF AllKept
<1>2. T.channels[t] \in Lists(Channels)
  BY TablesAre
<1>3. /\ SameIds(U.channels[t], T.channels[t])
      /\ Item(U.channels[s], id) = c /\ Home(U.channels[s], id) = Home(T.channels[s], id)
      /\ \A j \in OpenIds(T.channels[t]) :
           t # s \/ j # id => SameItem(U.channels[t], T.channels[t], j)
  BY DEF IsWritten
<1>4. SameGiven(U.channels[t], T.channels[t])
  BY <1>3 DEF SameGiven, SameIds
<1>5. ASSUME NEW j \in OpenIds(U.channels[t]) PROVE KeptId(U.channels[t], T.channels[t], j)
  <2>1. j \in OpenIds(T.channels[t])
    BY <1>3 DEF SameIds
  <2>2. CASE t = s /\ j = id
    BY <1>3, <2>1, <2>2 DEF KeptId
  <2>3. CASE t # s \/ j # id
    BY <1>3, <2>1, <2>3 DEF KeptId, SameItem
  <2>4. QED
    BY <2>2, <2>3
<1>6. QED
  BY <1>2, <1>4, <1>5, KeptSame

(* The tables keep the ids when a descriptor is watched for another task.  *)
LEMMA RewatchedKept ==
    ASSUME NEW T \in TableSet, NEW s, NEW id, NEW task, NEW U, IsRewatched(U, T, s, id, task)
    PROVE  AllKept(U, T)
<1>1. SUFFICES ASSUME NEW t \in Sockets PROVE Kept(U.channels[t], T.channels[t])
  BY DEF AllKept
<1>2. T.channels[t] \in Lists(Channels)
  BY TablesAre
<1>3. U.channels[t] = T.channels[t]
  BY DEF IsRewatched
<1>4. QED
  BY <1>2, <1>3, KeptSame DEF KeptId, SameGiven

(* The tables keep the ids when a channel is deleted.                      *)
LEMMA DeletedKept ==
    ASSUME NEW T \in TableSet, NEW s, NEW id, NEW U, IsDeleted(U, T, s, id)
    PROVE  AllKept(U, T)
<1>1. SUFFICES ASSUME NEW t \in Sockets PROVE Kept(U.channels[t], T.channels[t])
  BY DEF AllKept
<1>2. T.channels[t] \in Lists(Channels)
  BY TablesAre
<1>3. /\ SameGiven(U.channels[t], T.channels[t])
      /\ \A j \in OpenIds(U.channels[t]) : /\ j \in OpenIds(T.channels[t])
                                           /\ SameItem(U.channels[t], T.channels[t], j)
  BY DEF IsDeleted
<1>4. \A j \in OpenIds(U.channels[t]) : KeptId(U.channels[t], T.channels[t], j)
  BY <1>3 DEF KeptId, SameItem
<1>5. QED
  BY <1>2, <1>3, <1>4, KeptSame

(* The tables keep the ids when an addition fails.                         *)
LEMMA NotAddedKept ==
    ASSUME NEW T \in TableSet, NEW failure, NEW U, IsNotAdded(U, T, failure)
    PROVE  AllKept(U, T)
<1>1. SUFFICES ASSUME NEW t \in Sockets PROVE Kept(U.channels[t], T.channels[t])
  BY DEF AllKept
<1>2. T.channels[t] \in Lists(Channels)
  BY TablesAre
<1>3. /\ SameGiven(U.channels[t], T.channels[t]) /\ SameIds(U.channels[t], T.channels[t])
      /\ \A j \in Ids(T.channels[t]) : SameItem(U.channels[t], T.channels[t], j)
  BY DEF IsNotAdded, Untouched
<1>4. OpenIds(T.channels[t]) \subseteq Ids(T.channels[t])
  BY DEF OpenIds
<1>5. \A j \in OpenIds(U.channels[t]) : KeptId(U.channels[t], T.channels[t], j)
  BY <1>3, <1>4 DEF KeptId, SameItem, SameIds
<1>6. QED
  BY <1>2, <1>3, <1>5, KeptSame

(* The tables keep the ids when a channel is added.                        *)
LEMMA AddedKept ==
    ASSUME NEW T \in TableSet, NEW s \in Sockets, NEW type, NEW attempts, NEW answer,
           NEW U, IsAdded(U, T, s, type, attempts, answer)
    PROVE  AllKept(U, T)
<1>1. SUFFICES ASSUME NEW t \in Sockets PROVE Kept(U.channels[t], T.channels[t])
  BY DEF AllKept
<1>2. T.channels[t] \in Lists(Channels)
  BY TablesAre
<1>3. CASE t # s
  <2>1. U.channels[t] = T.channels[t]
    BY <1>3 DEF IsAdded
  <2>2. QED
    BY <1>2, <2>1, KeptSame DEF KeptId, SameGiven
<1>4. CASE t = s
  <2> DEFINE L == T.channels[s]
             M == U.channels[s]
             n == NewId(T, s)
  <2>1. Added(M, L, n, Item(M, n))
    BY DEF IsAdded
  <2> HIDE DEF L, M, n
  <2>2. /\ M # <<>> /\ NextId(M) = n + 1 /\ n \in Nat /\ (L # <<>> => NextId(L) = n)
        /\ OpenIds(M) = OpenIds(L) \cup {n} /\ \A j \in Ids(L) : SameItem(M, L, j)
    BY <2>1 DEF Added
  <2>3. L # <<>> => NextId(L) <= NextId(M) /\ NextId(L) <= n
    BY <2>2
  <2>4. \A j \in OpenIds(L) : KeptId(M, L, j)
    BY <2>2 DEF KeptId, SameItem, OpenIds
  <2>5. Kept(M, L)
    BY <2>2, <2>3, <2>4 DEF Kept
  <2>6. QED
    BY <1>4, <2>5 DEF L, M
<1>5. QED
  BY <1>3, <1>4

-----------------------------------------------------------------------------
\* What Opened says of one channel.
OpenedOK(T, c) ==
    c.m_type = "streaming_opened" =>
      /\ T.net[c.m_socket_descriptor] # "listening"
      /\ c.m_attempts = 0 \/ c.m_sync_result = "connected" =>
           T.net[c.m_socket_descriptor] \in {"connected", "closed"}

(* What is known of an open channel and of its registration.               *)
LEMMA OpenedIs ==
    ASSUME NEW T, Opened(T), NEW s \in Sockets, NEW id \in OpenIds(T.channels[s])
    PROVE  OpenedOK(T, Item(T.channels[s], id))
BY DEF Opened, OpenedOK

(* Each open channel has to be looked at.                                  *)
LEMMA OpenedWhen ==
    ASSUME NEW T, \A s \in Sockets : \A id \in OpenIds(T.channels[s]) :
                    OpenedOK(T, Item(T.channels[s], id))
    PROVE  Opened(T)
BY DEF Opened, OpenedOK

(* The peers when an open channel is written anew.                         *)
LEMMA WrittenJoins ==
    ASSUME NEW T, Sound(T), NEW ids, Joins(T, ids),
           NEW s \in Sockets, NEW id \in OpenIds(T.channels[s]),
           NEW c, c.m_socket_descriptor = Item(T.channels[s], id).m_socket_descriptor,
           OpenedOK(T, c),
           NEW U, IsWritten(U, T, s, id, c)
    PROVE  Joins(U, ids)
<1>1. /\ U.slots = T.slots /\ U.epoll = T.epoll /\ U.sync = T.sync /\ U.net = T.net
      /\ \A t \in Sockets : SameIds(U.channels[t], T.channels[t])
      /\ Item(U.channels[s], id) = c
      /\ \A t \in Sockets : \A j \in OpenIds(T.channels[t]) :
           t # s \/ j # id => SameItem(U.channels[t], T.channels[t], j)
  BY DEF IsWritten
<1>2. \A t \in Sockets : /\ OpenIds(U.channels[t]) = OpenIds(T.channels[t])
                         /\ Given(U.channels[t]) = Given(T.channels[t])
  BY <1>1 DEF SameIds
<1>3. ASSUME NEW t \in Sockets, NEW j \in OpenIds(U.channels[t])
      PROVE  /\ OpenedOK(U, Item(U.channels[t], j))
             /\ Item(U.channels[t], j).m_socket_descriptor =
                  Item(T.channels[t], j).m_socket_descriptor
  <2>1. CASE t = s /\ j = id
    BY <1>1, <2>1 DEF OpenedOK
  <2>2. CASE t # s \/ j # id
    <3>1. j \in OpenIds(T.channels[t])
      BY <1>2
    <3>2. OpenedOK(T, Item(T.channels[t], j))
      BY <3>1, OpenedIs DEF Joins
    <3>3. Item(U.channels[t], j) = Item(T.channels[t], j)
      BY <1>1, <2>2, <3>1 DEF SameItem
    <3>4. QED
      BY <1>1, <3>2, <3>3 DEF OpenedOK
  <2>3. QED
    BY <2>1, <2>2
<1>4. Opened(U)
  BY <1>3, OpenedWhen
<1>5. ASSUME NEW i \in Ids(U.slots)
      PROVE  LET slot == Item(U.slots, i)
             IN /\ slot.m_item_id \in Given(U.channels[slot.m_pitem])
                /\ slot.m_item_id \in OpenIds(U.channels[slot.m_pitem]) => ~ slot.m_closed
  <2>1. Item(T.slots, i) \in Slots
    BY <1>1, TablesAre DEF Sound
  <2>2. Item(T.slots, i).m_pitem \in Sockets
    BY <2>1 DEF Slots
  <2>3. QED
    BY <1>1, <1>2, <2>2 DEF Joins, SlotsLead
<1>6. SlotsLead(U)
  BY <1>5 DEF SlotsLead
<1>7. SyncEnded(U)
  BY <1>1 DEF Joins, SyncEnded
<1>8. Reports(U, ids)
  BY <1>1, <1>2, <1>3 DEF Joins, Reports
<1>9. QED
  BY <1>4, <1>6, <1>7, <1>8 DEF Joins

(* The peers when a descriptor is watched for another task.                *)
LEMMA RewatchedJoins ==
    ASSUME NEW T, Sound(T), NEW ids, Joins(T, ids),
           NEW s \in Sockets, NEW id \in OpenIds(T.channels[s]), NEW task,
           NEW U, IsRewatched(U, T, s, id, task)
    PROVE  Joins(U, ids)
<1> DEFINE c == Item(T.channels[s], id)
           x == Watch(c.m_socket_descriptor, c.m_eh_id, task)
<1>1. /\ U.channels = T.channels /\ U.sync = T.sync /\ U.net = T.net
      /\ U.epoll = Unwatched(T.epoll, c.m_socket_descriptor) \cup {x}
      /\ SameIds(U.slots, T.slots) /\ Ids(U.slots) = Ids(T.slots)
      /\ \A i \in Ids(T.slots) : Item(U.slots, i) = Item(T.slots, i)
  BY DEF IsRewatched
<1>2. x.handle = c.m_socket_descriptor /\ x.id = c.m_eh_id
  BY DEF Watch
<1>3. PICK v \in T.epoll : Leads(T, v, s, id)
  BY ChannelWatched
<1>4. v.handle = x.handle /\ v.id = x.id
  BY <1>2, <1>3 DEF Leads
<1> HIDE DEF c, x
<1>5. \A w \in U.epoll : \E z \in T.epoll : w.handle = z.handle /\ w.id = z.id
  BY <1>1, <1>4 DEF Unwatched
<1>6. SyncEnded(U)
  BY <1>1, <1>5 DEF Joins, SyncEnded, SameIds
<1>7. SlotsLead(U)
  BY <1>1 DEF Joins, SlotsLead
<1>8. Opened(U) /\ Reports(U, ids)
  BY <1>1 DEF Joins, Opened, Reports
<1>9. QED
  BY <1>6, <1>7, <1>8 DEF Joins

(* The peers when a channel is deleted.                                    *)
LEMMA DeletedJoins ==
    ASSUME NEW T, Sound(T), NEW ids, Joins(T, ids),
           NEW s \in Sockets, NEW id \in OpenIds(T.channels[s]),
           NEW U, IsDeleted(U, T, s, id)
    PROVE  Joins(U, ids)
<1> DEFINE h == Item(T.channels[s], id).m_socket_descriptor
           e == Item(T.channels[s], id).m_eh_id
<1>1. /\ U.sync = T.sync /\ U.epoll = Unwatched(T.epoll, h)
      /\ \A g \in Handles : g # h => U.net[g] = T.net[g]
      /\ SameGiven(U.slots, T.slots) /\ Ids(U.slots) \subseteq Ids(T.slots)
      /\ \A i \in Ids(U.slots) : /\ SameSlot(Item(U.slots, i), Item(T.slots, i))
                                 /\ i # e => Item(U.slots, i) = Item(T.slots, i)
  BY DEF IsDeleted
<1>2. /\ \A t \in Sockets : Given(U.channels[t]) = Given(T.channels[t])
      /\ \A t \in Sockets : \A j \in OpenIds(U.channels[t]) :
           /\ j \in OpenIds(T.channels[t]) /\ (t # s \/ j # id)
           /\ Item(U.channels[t], j) = Item(T.channels[t], j)
  BY DEF IsDeleted, SameGiven, SameItem
<1>3. Item(T.slots, e) = Slot(s, id)
  BY ChannelSlot
<1> HIDE DEF h, e
<1>4. ASSUME NEW t \in Sockets, NEW j \in OpenIds(U.channels[t])
      PROVE  U.net[Item(U.channels[t], j).m_socket_descriptor] =
               T.net[Item(T.channels[t], j).m_socket_descriptor]
  <2>1. j \in OpenIds(T.channels[t]) /\ (t # s \/ j # id)
    BY <1>2
  <2>2. Item(T.channels[t], j).m_socket_descriptor \in Handles
    BY <2>1, ChannelSlot
  <2>3. Item(T.channels[t], j).m_socket_descriptor # h
    BY <2>1, ChannelsApart DEF h
  <2>4. QED
    BY <1>1, <1>2, <2>2, <2>3
<1>5. Opened(U)
  <2>1. SUFFICES ASSUME NEW t \in Sockets, NEW j \in OpenIds(U.channels[t])
                 PROVE  OpenedOK(U, Item(U.channels[t], j))
    BY OpenedWhen
  <2>2. OpenedOK(T, Item(T.channels[t], j))
    BY <1>2, OpenedIs DEF Joins
  <2>3. Item(U.channels[t], j) = Item(T.channels[t], j)
    BY <1>2
  <2>4. QED
    BY <1>4, <2>2, <2>3 DEF OpenedOK
<1>6. ASSUME NEW i \in Ids(U.slots)
      PROVE  LET slot == Item(U.slots, i)
             IN /\ slot.m_item_id \in Given(U.channels[slot.m_pitem])
                /\ slot.m_item_id \in OpenIds(U.channels[slot.m_pitem]) => ~ slot.m_closed
  <2> DEFINE x == Item(T.slots, i)
             y == Item(U.slots, i)
  <2>1. i \in Ids(T.slots) /\ x \in Slots
    BY <1>1, TablesAre DEF Sound
  <2>2. x.m_pitem \in Sockets
    BY <2>1 DEF Slots
  <2>3. y.m_pitem = x.m_pitem /\ y.m_item_id = x.m_item_id
    BY <1>1 DEF SameSlot
  <2>4. /\ x.m_item_id \in Given(T.channels[x.m_pitem])
        /\ x.m_item_id \in OpenIds(T.channels[x.m_pitem]) => ~ x.m_closed
    BY <2>1 DEF Joins, SlotsLead
  <2>5. CASE i # e
    BY <1>1, <1>2, <2>2, <2>4, <2>5
  <2>6. CASE i = e
    <3>1. x.m_pitem = s /\ x.m_item_id = id
      BY <1>3, <2>6 DEF Slot
    <3>2. id \notin OpenIds(U.channels[s])
      BY <1>2
    <3>3. QED
      BY <1>2, <2>2, <2>3, <2>4, <3>1, <3>2
  <2>7. QED
    BY <2>5, <2>6
<1>7. SlotsLead(U)
  BY <1>6 DEF SlotsLead
<1>8. SyncEnded(U)
  <2>1. \A w \in U.epoll : w \in T.epoll /\ w.handle # h /\ w.handle \in Handles
    BY <1>1 DEF Unwatched, Sound, TableSet, Watches
  <2>2. QED
    BY <1>1, <2>1 DEF Joins, SyncEnded, SameGiven
<1>9. Reports(U, ids)
  BY <1>2, <1>4 DEF Joins, Reports
<1>10. QED
  BY <1>5, <1>7, <1>8, <1>9 DEF Joins

(* The peers when an addition fails at the event handler.                  *)
LEMMA NotAddedJoins ==
    ASSUME NEW T, Sound(T), NEW ids, Joins(T, ids), NEW U, IsNotAdded(U, T, "epoll_ctl")
    PROVE  Joins(U, ids)
<1>1. /\ U.epoll = T.epoll /\ U.net = T.net /\ U.sync = T.sync
      /\ Given(U.slots) = Given(T.slots) /\ Ids(U.slots) = Ids(T.slots)
      /\ \A i \in Ids(T.slots) : Item(U.slots, i) = Item(T.slots, i)
  BY DEF IsNotAdded, Untouched, SameGiven, SameItem
<1>2. \A t \in Sockets :
        /\ Given(U.channels[t]) = Given(T.channels[t])
        /\ OpenIds(U.channels[t]) = OpenIds(T.channels[t])
        /\ \A j \in OpenIds(T.channels[t]) : Item(U.channels[t], j) = Item(T.channels[t], j)
  BY DEF IsNotAdded, Untouched, SameIds, SameItem, OpenIds
<1>3. \A i \in Ids(T.slots) : Item(T.slots, i).m_pitem \in Sockets
  BY TablesAre DEF Sound, Slots
<1>4. Opened(U)
  BY <1>1, <1>2 DEF Joins, Opened
<1>5. SlotsLead(U)
  BY <1>1, <1>2, <1>3 DEF Joins, SlotsLead
<1>6. SyncEnded(U)
  BY <1>1 DEF Joins, SyncEnded
<1>7. Reports(U, ids)
  BY <1>1, <1>2 DEF Joins, Reports
<1>8. QED
  BY <1>4, <1>5, <1>6, <1>7 DEF Joins

(* What a new channel finds: its descriptor, its id and its slot are those *)
(* of no open channel.                                                     *)
LEMMA NewApart ==
    ASSUME NEW T, Sound(T), NEW s \in Sockets, Room(T, s),
           NEW t \in Sockets, NEW j \in OpenIds(T.channels[t])
    PROVE  /\ Item(T.channels[t], j).m_socket_descriptor \in Handles
           /\ Item(T.channels[t], j).m_socket_descriptor # NewHandle(T)
<1>1. T.net[NewHandle(T)] = "free"
  BY RoomIs DEF Sound
<1>2. /\ Item(T.channels[t], j).m_socket_descriptor \in Handles
      /\ T.net[Item(T.channels[t], j).m_socket_descriptor] # "free"
  BY ChannelSlot
<1>3. QED
  BY <1>1, <1>2

\* The open channels of socket t are those of T, or the new one of s.
OneMore(U, T, s, t) ==
    /\ Given(T.channels[t]) \subseteq Given(U.channels[t])
    /\ \A j \in OpenIds(U.channels[t]) :
         \/ t = s /\ j = NewId(T, s) /\ j \notin Given(T.channels[t])
         \/ j \in OpenIds(T.channels[t]) /\ Item(U.channels[t], j) = Item(T.channels[t], j)

(* The channels of the tables when one is added.                           *)
LEMMA AddedChannels ==
    ASSUME NEW T, NEW s \in Sockets, NEW type, NEW attempts, NEW answer,
           NEW U, IsAdded(U, T, s, type, attempts, answer), NEW t \in Sockets
    PROVE  OneMore(U, T, s, t)
<1>1. CASE t # s
  <2>1. U.channels[t] = T.channels[t]
    BY <1>1 DEF IsAdded
  <2>2. QED
    BY <2>1 DEF OneMore
<1>2. CASE t = s
  <2> DEFINE n == NewId(T, s)
             c == Item(U.channels[s], n)
  <2>1. Added(U.channels[s], T.channels[s], n, c)
    BY DEF IsAdded
  <2> HIDE DEF n, c
  <2>2. QED
    BY <1>2, <2>1 DEF OneMore, Added, SameItem, OpenIds, n
<1>3. QED
  BY <1>1, <1>2

(* The peers when a channel is added.                                      *)
LEMMA AddedJoins ==
    ASSUME NEW T, Sound(T), NEW ids, Joins(T, ids), NEW s \in Sockets, Room(T, s),
           NEW type, NEW attempts, NEW answer \in Answers,
           type = "streaming_opened" => attempts # 0,
           NEW U, IsAdded(U, T, s, type, attempts, answer)
    PROVE  Joins(U, ids)
<1> DEFINE h == NewHandle(T)
           n == NewId(T, s)
           k == NewSlot(T)
           c == Item(U.channels[s], n)
<1>1. /\ Added(U.slots, T.slots, k, Slot(s, n))
      /\ Added(U.channels[s], T.channels[s], n, c)
      /\ c.m_socket_descriptor = h /\ c.m_type = type
      /\ c.m_attempts = attempts /\ c.m_sync_result = answer
      /\ U.sync = IF answer = "pending" THEN T.sync ELSE T.sync \cup {k}
      /\ \A g \in Handles : g # h => U.net[g] = T.net[g]
      /\ U.net[h] = Outcome(type, attempts, answer)
  BY DEF IsAdded
<1>2. PICK task : U.epoll = T.epoll \cup {Watch(h, k, task)}
  BY DEF IsAdded
<1> HIDE DEF h, n, k
<1>3. ASSUME NEW t \in Sockets
      PROVE  /\ Given(T.channels[t]) \subseteq Given(U.channels[t])
             /\ \A j \in OpenIds(U.channels[t]) :
                  \/ t = s /\ j = n /\ j \notin Given(T.channels[t])
                  \/ /\ j \in OpenIds(T.channels[t])
                     /\ Item(U.channels[t], j) = Item(T.channels[t], j)
  <2>1. OneMore(U, T, s, t)
    BY AddedChannels
  <2>2. QED
    BY <2>1 DEF OneMore, n
<1>4. \A t \in Sockets : \A j \in OpenIds(T.channels[t]) :
        U.net[Item(T.channels[t], j).m_socket_descriptor] =
          T.net[Item(T.channels[t], j).m_socket_descriptor]
  BY <1>1, NewApart DEF h
<1>5. OpenedOK(U, c)
  BY <1>1 DEF OpenedOK, Outcome, Answers
<1>6. Opened(U)
  <2>1. SUFFICES ASSUME NEW t \in Sockets, NEW j \in OpenIds(U.channels[t])
                 PROVE  OpenedOK(U, Item(U.channels[t], j))
    BY OpenedWhen
  <2>2. CASE t = s /\ j = n
    BY <1>5, <2>2
  <2>3. CASE j \in OpenIds(T.channels[t]) /\ Item(U.channels[t], j) = Item(T.channels[t], j)
    <3>1. OpenedOK(T, Item(T.channels[t], j))
      BY <2>3, OpenedIs DEF Joins
    <3>2. QED
      BY <1>4, <2>3, <3>1 DEF OpenedOK
  <2>4. QED
    BY <1>3, <2>2, <2>3
<1> HIDE DEF c
<1>7. ASSUME NEW i \in Ids(U.slots)
      PROVE  LET slot == Item(U.slots, i)
             IN /\ slot.m_item_id \in Given(U.channels[slot.m_pitem])
                /\ slot.m_item_id \in OpenIds(U.channels[slot.m_pitem]) => ~ slot.m_closed
  <2>1. CASE i = k
    <3>1. Item(U.slots, i) = Slot(s, n)
      BY <1>1, <2>1 DEF Added
    <3>2. n \in Given(U.channels[s])
      BY <1>1 DEF Added
    <3>3. QED
      BY <3>1, <3>2 DEF Slot
  <2>2. CASE i # k
    <3> DEFINE x == Item(T.slots, i)
    <3>1. i \in Ids(T.slots) /\ Item(U.slots, i) = x
      BY <1>1, <2>2 DEF Added, SameItem
    <3>2. x.m_pitem \in Sockets
      BY <3>1, TablesAre DEF Sound, Slots
    <3>3. /\ x.m_item_id \in Given(T.channels[x.m_pitem])
          /\ x.m_item_id \in OpenIds(T.channels[x.m_pitem]) => ~ x.m_closed
      BY <3>1 DEF Joins, SlotsLead
    <3> HIDE DEF x
    <3>4. QED
      BY <1>3, <3>1, <3>2, <3>3
  <2>3. QED
    BY <2>1, <2>2
<1>8. SlotsLead(U)
  BY <1>7 DEF SlotsLead
<1>9. SyncEnded(U)
  <2>1. T.sync \subseteq Given(T.slots) /\ k \notin Given(T.slots) /\ k \notin Ids(T.slots)
    BY <1>1 DEF Joins, SyncEnded, Added
  <2>2. U.sync \subseteq Given(U.slots)
    BY <1>1, <2>1 DEF Added
  <2>3. ASSUME NEW w \in U.epoll, w.id \in U.sync PROVE U.net[w.handle] # "connecting"
    <3>1. CASE w = Watch(h, k, task)
      <4>1. w.handle = h /\ w.id = k
        BY <3>1 DEF Watch
      <4>2. answer # "pending"
        BY <1>1, <2>1, <2>3, <4>1
      <4>3. QED
        BY <1>1, <4>1, <4>2 DEF Outcome, Answers
    <3>2. CASE w \in T.epoll
      <4>1. PICK t \in Sockets, j \in 0..(MaxIds - 1) : Leads(T, w, t, j)
        BY <3>2 DEF Sound
      <4>2. w.id \in Ids(T.slots)
        BY <4>1 DEF Leads, OpenIds
      <4>3. w.id \in T.sync
        BY <1>1, <2>1, <2>3, <4>2
      <4>4. U.net[w.handle] = T.net[w.handle]
        BY <1>4, <4>1 DEF Leads
      <4>5. QED
        BY <3>2, <4>3, <4>4 DEF Joins, SyncEnded
    <3>3. QED
      BY <1>2, <3>1, <3>2
  <2>4. QED
    BY <2>2, <2>3 DEF SyncEnded
<1>10. Reports(U, ids)
  <2>1. SUFFICES ASSUME NEW t \in Sockets
                 PROVE  /\ ids[t] \subseteq Given(U.channels[t])
                        /\ \A j \in ids[t] \cap OpenIds(U.channels[t]) :
                             U.net[Item(U.channels[t], j).m_socket_descriptor] # "connecting"
    BY DEF Reports
  <2>2. /\ ids[t] \subseteq Given(T.channels[t])
        /\ \A j \in ids[t] \cap OpenIds(T.channels[t]) :
             T.net[Item(T.channels[t], j).m_socket_descriptor] # "connecting"
    BY DEF Joins, Reports
  <2>3. ASSUME NEW j \in ids[t] \cap OpenIds(U.channels[t])
        PROVE  U.net[Item(U.channels[t], j).m_socket_descriptor] # "connecting"
    <3>1. j \in OpenIds(T.channels[t]) /\ Item(U.channels[t], j) = Item(T.channels[t], j)
      BY <1>3, <2>2
    <3>2. QED
      BY <1>4, <2>2, <3>1
  <2>4. QED
    BY <1>3, <2>2, <2>3
<1>11. QED
  BY <1>6, <1>8, <1>9, <1>10 DEF Joins

-----------------------------------------------------------------------------
\* What Pending says of one channel.
PendingOK(T, c) ==
    /\ c.m_attempts > 0 => c.m_send_stream = 0
    /\ c.m_send_stream > 0 => \E w \in T.epoll : w.handle = c.m_socket_descriptor /\ w.out

(* What is known of the messages of an open channel.                       *)
LEMMA PendingIs ==
    ASSUME NEW T, Pending(T), NEW s \in Sockets, NEW id \in OpenIds(T.channels[s])
    PROVE  PendingOK(T, Item(T.channels[s], id))
BY DEF Pending, PendingOK

(* Each open channel has to be looked at.                                  *)
LEMMA PendingWhen ==
    ASSUME NEW T, \A s \in Sockets : \A id \in OpenIds(T.channels[s]) :
                    PendingOK(T, Item(T.channels[s], id))
    PROVE  Pending(T)
BY DEF Pending, PendingOK

(* The messages when an open channel is written anew.                      *)
LEMMA WrittenPending ==
    ASSUME NEW T, Pending(T), NEW s \in Sockets, NEW id \in OpenIds(T.channels[s]),
           NEW c, PendingOK(T, c), NEW U, IsWritten(U, T, s, id, c)
    PROVE  Pending(U)
<1>1. /\ U.epoll = T.epoll /\ Item(U.channels[s], id) = c
      /\ \A t \in Sockets : /\ OpenIds(U.channels[t]) = OpenIds(T.channels[t])
                            /\ \A j \in OpenIds(T.channels[t]) : t # s \/ j # id =>
                                 Item(U.channels[t], j) = Item(T.channels[t], j)
  BY DEF IsWritten, SameIds, SameItem
<1>2. SUFFICES ASSUME NEW t \in Sockets, NEW j \in OpenIds(U.channels[t])
               PROVE  PendingOK(U, Item(U.channels[t], j))
  BY PendingWhen
<1>3. PendingOK(T, Item(U.channels[t], j))
  BY <1>1, PendingIs
<1>4. QED
  BY <1>1, <1>3 DEF PendingOK

(* The messages when a descriptor is watched for another task.             *)
LEMMA RewatchedPending ==
    ASSUME NEW T, Sound(T), Pending(T), NEW s \in Sockets, NEW id \in OpenIds(T.channels[s]),
           NEW task, task \in {"connect", "send"} \/ Item(T.channels[s], id).m_send_stream = 0,
           NEW U, IsRewatched(U, T, s, id, task)
    PROVE  Pending(U)
<1> DEFINE c == Item(T.channels[s], id)
           x == Watch(c.m_socket_descriptor, c.m_eh_id, task)
<1>1. /\ U.channels = T.channels
      /\ U.epoll = Unwatched(T.epoll, c.m_socket_descriptor) \cup {x}
  BY DEF IsRewatched
<1>2. x.handle = c.m_socket_descriptor /\ (x.out <=> task \in {"connect", "send"})
  BY DEF Watch
<1>3. SUFFICES ASSUME NEW t \in Sockets, NEW j \in OpenIds(U.channels[t])
               PROVE  PendingOK(U, Item(U.channels[t], j))
  BY PendingWhen
<1>4. j \in OpenIds(T.channels[t]) /\ PendingOK(T, Item(T.channels[t], j))
  BY <1>1, PendingIs
<1>5. CASE t = s /\ j = id
  <2>1. c.m_send_stream \in Nat
    <3>1. c \in Channels
      BY ChannelSlot
    <3>2. QED
      BY <3>1 DEF Channels
  <2>2. c.m_send_stream > 0 => \E w \in U.epoll : w.handle = c.m_socket_descriptor /\ w.out
    BY <1>1, <1>2, <2>1
  <2>3. QED
    BY <1>1, <1>4, <1>5, <2>2 DEF PendingOK
<1>6. CASE t # s \/ j # id
  <2> DEFINE d == Item(T.channels[t], j)
  <2>1. d.m_socket_descriptor # c.m_socket_descriptor
    BY <1>4, <1>6, ChannelsApart
  <2> HIDE DEF c, d
  <2>2. \A w \in T.epoll : w.handle = d.m_socket_descriptor => w \in U.epoll
    BY <1>1, <2>1 DEF Unwatched
  <2>3. PendingOK(U, d)
    BY <1>4, <2>2 DEF PendingOK, d
  <2>4. QED
    BY <1>1, <2>3 DEF d
<1>7. QED
  BY <1>5, <1>6

(* The messages when a channel is deleted.                                 *)
LEMMA DeletedPending ==
    ASSUME NEW T, Sound(T), Pending(T), NEW s \in Sockets, NEW id \in OpenIds(T.channels[s]),
           NEW U, IsDeleted(U, T, s, id)
    PROVE  Pending(U)
<1> DEFINE h == Item(T.channels[s], id).m_socket_descriptor
<1>1. /\ U.epoll = Unwatched(T.epoll, h)
      /\ \A t \in Sockets : \A j \in OpenIds(U.channels[t]) :
           /\ j \in OpenIds(T.channels[t]) /\ (t # s \/ j # id)
           /\ Item(U.channels[t], j) = Item(T.channels[t], j)
  BY DEF IsDeleted, SameItem
<1>2. SUFFICES ASSUME NEW t \in Sockets, NEW j \in OpenIds(U.channels[t])
               PROVE  PendingOK(U, Item(U.channels[t], j))
  BY PendingWhen
<1>3. j \in OpenIds(T.channels[t]) /\ (t # s \/ j # id)
  BY <1>1
<1> DEFINE d == Item(T.channels[t], j)
<1>4. d.m_socket_descriptor # h
  BY <1>3, ChannelsApart
<1>5. PendingOK(T, d)
  BY <1>3, PendingIs
<1> HIDE DEF h, d
<1>6. \A w \in T.epoll : w.handle = d.m_socket_descriptor => w \in U.epoll
  BY <1>1, <1>4 DEF Unwatched
<1>7. PendingOK(U, d)
  BY <1>5, <1>6 DEF PendingOK
<1>8. QED
  BY <1>1, <1>7 DEF d

(* The messages when an addition fails.                                    *)
LEMMA NotAddedPending ==
    ASSUME NEW T, Pending(T), NEW failure, NEW U, IsNotAdded(U, T, failure)
    PROVE  Pending(U)
<1>1. /\ U.epoll = T.epoll
      /\ \A t \in Sockets :
           /\ OpenIds(U.channels[t]) = OpenIds(T.channels[t])
           /\ \A j \in OpenIds(T.channels[t]) : Item(U.channels[t], j) = Item(T.channels[t], j)
  BY DEF IsNotAdded, Untouched, SameIds, SameItem, OpenIds
<1>2. QED
  BY <1>1 DEF Pending

(* The messages when a channel is added.                                   *)
LEMMA AddedPending ==
    ASSUME NEW T, Pending(T), NEW s \in Sockets, NEW type, NEW attempts, NEW answer,
           NEW U, IsAdded(U, T, s, type, attempts, answer)
    PROVE  Pending(U)
<1>1. SUFFICES ASSUME NEW t \in Sockets, NEW j \in OpenIds(U.channels[t])
               PROVE  PendingOK(U, Item(U.channels[t], j))
  BY PendingWhen
<1>2. T.epoll \subseteq U.epoll /\ Item(U.channels[s], NewId(T, s)).m_send_stream = 0
  BY DEF IsAdded
<1>3. CASE t = s /\ j = NewId(T, s)
  BY <1>2, <1>3 DEF PendingOK
<1>4. CASE j \in OpenIds(T.channels[t]) /\ Item(U.channels[t], j) = Item(T.channels[t], j)
  <2>1. PendingOK(T, Item(U.channels[t], j))
    BY <1>4, PendingIs
  <2>2. QED
    BY <1>2, <2>1 DEF PendingOK
<1>5. OneMore(U, T, s, t)
  BY AddedChannels
<1>6. QED
  BY <1>3, <1>4, <1>5 DEF OneMore

-----------------------------------------------------------------------------
\* What a handler keeps that turns the tables T into U, while the events of
\* ids wait for their receive().
Step(U, T, ids) ==
    /\ Sound(U) /\ AllKept(U, T)
    /\ "getsockname" \notin Failures /\ Joins(T, ids) => Joins(U, ids)
    /\ ~EarlySend /\ Pending(T) => Pending(U)

(* A handler that calls another keeps what both keep.                      *)
LEMMA StepTwice ==
    ASSUME NEW T, Sound(T), NEW V, NEW U, NEW ids, Step(V, T, ids), Step(U, V, ids)
    PROVE  Step(U, T, ids)
<1>1. T \in TableSet /\ V \in TableSet /\ U \in TableSet
  BY DEF Step, Sound
<1>2. AllKept(V, T) /\ AllKept(U, V)
  BY DEF Step
<1>3. AllKept(U, T)
  BY <1>1, <1>2, KeptTwice
<1>4. QED
  BY <1>3 DEF Step

(* WithChannel is such a handler.                                          *)
LEMMA WrittenStep ==
    ASSUME NEW T, Sound(T), NEW ids, NEW s \in Sockets, NEW id \in OpenIds(T.channels[s]),
           NEW c \in Channels, c.m_closed = FALSE,
           c.m_socket_descriptor = Item(T.channels[s], id).m_socket_descriptor,
           c.m_eh_id = Item(T.channels[s], id).m_eh_id,
           "getsockname" \notin Failures /\ Joins(T, ids) => OpenedOK(T, c),
           ~EarlySend /\ Pending(T) => PendingOK(T, c)
    PROVE  Step(WithChannel(T, s, id, c), T, ids)
<1> DEFINE U == WithChannel(T, s, id, c)
<1>1. Sound(U)
  BY WrittenSound
<1>2. T \in TableSet
  BY DEF Sound
<1>3. IsWritten(U, T, s, id, c)
  BY <1>2, WrittenIs
<1> HIDE DEF U
<1>4. AllKept(U, T)
  BY <1>2, <1>3, WrittenKept
<1>5. "getsockname" \notin Failures /\ Joins(T, ids) => Joins(U, ids)
  BY <1>3, WrittenJoins
<1>6. ~EarlySend /\ Pending(T) => Pending(U)
  BY <1>3, WrittenPending
<1>7. Step(U, T, ids)
  BY <1>1, <1>4, <1>5, <1>6 DEF Step
<1>8. QED
  BY <1>7 DEF U

(* Rewatched is such a handler.                                            *)
LEMMA RewatchedStep ==
    ASSUME NEW T, Sound(T), NEW ids, NEW s \in Sockets, NEW id \in OpenIds(T.channels[s]),
           NEW task,
           ~EarlySend /\ Pending(T) =>
             task \in {"connect", "send"} \/ Item(T.channels[s], id).m_send_stream = 0
    PROVE  Step(Rewatched(T, s, id, task), T, ids)
<1> DEFINE U == Rewatched(T, s, id, task)
<1>1. Sound(U)
  BY RewatchedSound
<1>2. T \in TableSet
  BY DEF Sound
<1>3. IsRewatched(U, T, s, id, task)
  BY RewatchedIs
<1> HIDE DEF U
<1>4. AllKept(U, T)
  BY <1>2, <1>3, RewatchedKept
<1>5. "getsockname" \notin Failures /\ Joins(T, ids) => Joins(U, ids)
  BY <1>3, RewatchedJoins
<1>6. ~EarlySend /\ Pending(T) => Pending(U)
  BY <1>3, RewatchedPending
<1>7. Step(U, T, ids)
  BY <1>1, <1>4, <1>5, <1>6 DEF Step
<1>8. QED
  BY <1>7 DEF U

(* delete_channel is such a handler.                                       *)
LEMMA DeletedStep ==
    ASSUME NEW T, Sound(T), NEW ids, NEW s \in Sockets, NEW id \in OpenIds(T.channels[s])
    PROVE  Step(Deleted(T, s, id), T, ids)
<1> DEFINE U == Deleted(T, s, id)
<1>1. Sound(U)
  BY DeletedSound
<1>2. T \in TableSet
  BY DEF Sound
<1>3. IsDeleted(U, T, s, id)
  BY DeletedIs
<1> HIDE DEF U
<1>4. AllKept(U, T)
  BY <1>2, <1>3, DeletedKept
<1>5. "getsockname" \notin Failures /\ Joins(T, ids) => Joins(U, ids)
  BY <1>3, DeletedJoins
<1>6. ~EarlySend /\ Pending(T) => Pending(U)
  BY <1>3, DeletedPending
<1>7. Step(U, T, ids)
  BY <1>1, <1>4, <1>5, <1>6 DEF Step
<1>8. QED
  BY <1>7 DEF U

(* add_channel is such a handler, whether or not it fails.                 *)
LEMMA AddStep ==
    ASSUME NEW T, Sound(T), NEW ids, NEW s \in Sockets, Room(T, s),
           NEW type \in {"listening", "streaming_opened", "streaming_accepted"},
           NEW attempts \in 0..MaxAttempts, NEW answer \in Answers,
           type = "streaming_opened" => attempts # 0,
           NEW failure \in {"none"} \cup Failures
    PROVE  Step(AddChannel(T, s, type, attempts, answer, failure), T, ids)
<1> DEFINE U == AddChannel(T, s, type, attempts, answer, failure)
<1>1. T \in TableSet
  BY DEF Sound
<1>2. CASE failure = "none"
  <2>1. Sound(U)
    BY <1>2, AddedSound
  <2>2. IsAdded(U, T, s, type, attempts, answer)
    BY <1>1, <1>2, AddedIs
  <2> HIDE DEF U
  <2>3. AllKept(U, T)
    BY <1>1, <2>2, AddedKept
  <2>4. "getsockname" \notin Failures /\ Joins(T, ids) => Joins(U, ids)
    BY <2>2, AddedJoins
  <2>5. ~EarlySend /\ Pending(T) => Pending(U)
    BY <2>2, AddedPending
  <2>6. Step(U, T, ids)
    BY <2>1, <2>3, <2>4, <2>5 DEF Step
  <2>7. QED
    BY <2>6 DEF U
<1>3. CASE failure \in Failures
  <2>0. failure \in {"epoll_ctl", "getsockname"}
    BY <1>3, FailuresAssumption
  <2>1. Sound(U)
    BY <2>0, NotAddedSound
  <2>2. IsNotAdded(U, T, failure)
    BY <1>1, <2>0, NotAddedIs
  <2> HIDE DEF U
  <2>3. AllKept(U, T)
    BY <1>1, <2>2, NotAddedKept
  <2>4. ASSUME "getsockname" \notin Failures, Joins(T, ids) PROVE Joins(U, ids)
    <3>1. failure = "epoll_ctl"
      BY <1>3, <2>0, <2>4
    <3>2. IsNotAdded(U, T, "epoll_ctl")
      BY <2>2, <3>1
    <3>3. QED
      BY <2>4, <3>2, NotAddedJoins
  <2>5. ~EarlySend /\ Pending(T) => Pending(U)
    BY <2>2, NotAddedPending
  <2>6. Step(U, T, ids)
    BY <2>1, <2>3, <2>4, <2>5 DEF Step
  <2>7. QED
    BY <2>6 DEF U
<1>4. QED
  BY <1>2, <1>3

(* async_send is such a handler.                                           *)
LEMMA AsyncSendStep ==
    ASSUME NEW T, Sound(T), NEW ids, NEW s \in Sockets, NEW id \in OpenIds(T.channels[s]),
           Item(T.channels[s], id).m_send_stream < MaxPending,
           ~EarlySend => Item(T.channels[s], id).m_attempts = 0
    PROVE  Step(AsyncSend(T, s, id), T, ids)
<1> DEFINE c == Item(T.channels[s], id)
           d == [c EXCEPT !.m_send_stream = @ + 1]
<1>1. c \in Channels /\ c.m_closed = FALSE
  BY ChannelSlot
<1>2. /\ c.m_send_stream \in 0..MaxPending /\ c.m_send_stream < MaxPending
      /\ MaxPending \in Nat /\ c.m_attempts \in 0..MaxAttempts
  BY <1>1, BoundsAssumption DEF Channels
<1>3. c.m_send_stream + 1 \in 0..MaxPending
  BY <1>2
<1>4. /\ d \in Channels /\ d.m_closed = FALSE
      /\ d.m_socket_descriptor = c.m_socket_descriptor /\ d.m_eh_id = c.m_eh_id
      /\ d.m_type = c.m_type /\ d.m_attempts = c.m_attempts
      /\ d.m_sync_result = c.m_sync_result
  BY <1>1, <1>3 DEF Channels
<1>5. ~EarlySend => ~ (d.m_attempts > 0)
  BY <1>4
<1>6. CASE c.m_send_stream = 0
  <2> DEFINE V == Rewatched(T, s, id, "send")
  <2>1. AsyncSend(T, s, id) = WithChannel(V, s, id, d)
    BY <1>6 DEF AsyncSend
  <2>2. Step(V, T, ids) /\ IsRewatched(V, T, s, id, "send")
    BY RewatchedStep, RewatchedIs
  <2> HIDE DEF V, c, d
  <2>3. Sound(V) /\ V.channels = T.channels
    BY <2>2 DEF Step, IsRewatched
  <2>4. Joins(V, ids) => OpenedOK(V, d)
    <3>1. Joins(V, ids) => OpenedOK(V, c)
      BY <2>3, OpenedIs DEF Joins, c
    <3>2. QED
      BY <1>4, <3>1 DEF OpenedOK
  <2>5. ~EarlySend => PendingOK(V, d)
    <3>1. Watch(c.m_socket_descriptor, c.m_eh_id, "send") \in V.epoll
      BY <2>2 DEF IsRewatched, c
    <3>2. \E w \in V.epoll : w.handle = d.m_socket_descriptor /\ w.out
      BY <1>4, <3>1 DEF Watch
    <3>3. QED
      BY <1>5, <3>2 DEF PendingOK
  <2>6. /\ d.m_socket_descriptor = Item(V.channels[s], id).m_socket_descriptor
        /\ d.m_eh_id = Item(V.channels[s], id).m_eh_id /\ id \in OpenIds(V.channels[s])
    BY <1>4, <2>3 DEF c
  <2>7. Step(WithChannel(V, s, id, d), V, ids)
    BY <1>4, <2>3, <2>4, <2>5, <2>6, WrittenStep
  <2>8. QED
    BY <2>1, <2>2, <2>7, StepTwice
<1>7. CASE c.m_send_stream # 0
  <2>1. AsyncSend(T, s, id) = WithChannel(T, s, id, d)
    BY <1>7 DEF AsyncSend
  <2>2. c.m_send_stream > 0
    BY <1>2, <1>7
  <2> HIDE DEF c, d
  <2>3. Joins(T, ids) => OpenedOK(T, d)
    <3>1. Joins(T, ids) => OpenedOK(T, c)
      BY OpenedIs DEF Joins, c
    <3>2. QED
      BY <1>4, <3>1 DEF OpenedOK
  <2>4. ~EarlySend /\ Pending(T) => PendingOK(T, d)
    <3>1. Pending(T) => PendingOK(T, c)
      BY PendingIs DEF c
    <3>2. QED
      BY <1>4, <1>5, <2>2, <3>1 DEF PendingOK
  <2>5. Step(WithChannel(T, s, id, d), T, ids)
    BY <1>4, <2>3, <2>4, WrittenStep DEF c
  <2>6. QED
    BY <2>1, <2>5
<1>8. QED
  BY <1>6, <1>7

(* native::send is such a handler.                                         *)
LEMMA SentStep ==
    ASSUME NEW T, Sound(T), NEW ids, NEW s \in Sockets, NEW id \in OpenIds(T.channels[s]),
           NEW count \in 0..Item(T.channels[s], id).m_send_stream
    PROVE  Step(Sent(T, s, id, count), T, ids)
<1> DEFINE c == Item(T.channels[s], id)
           d == [c EXCEPT !.m_send_stream = @ - count]
           V == WithChannel(T, s, id, d)
<1>1. c \in Channels /\ c.m_closed = FALSE
  BY ChannelSlot
<1>2. c.m_send_stream \in 0..MaxPending /\ MaxPending \in Nat /\ count \in 0..c.m_send_stream
  BY <1>1, BoundsAssumption DEF Channels
<1>3. c.m_send_stream - count \in 0..MaxPending
  BY <1>2
<1>4. /\ d \in Channels /\ d.m_closed = FALSE /\ d.m_send_stream = c.m_send_stream - count
      /\ d.m_socket_descriptor = c.m_socket_descriptor /\ d.m_eh_id = c.m_eh_id
      /\ d.m_type = c.m_type /\ d.m_attempts = c.m_attempts
      /\ d.m_sync_result = c.m_sync_result
  BY <1>1, <1>3 DEF Channels
<1>5. Sent(T, s, id, count) =
        IF count > 0 /\ count = c.m_send_stream THEN Rewatched(V, s, id, "receive") ELSE V
  BY DEF Sent
<1> HIDE DEF c, d
<1>6. Joins(T, ids) => OpenedOK(T, d)
  <2>1. Joins(T, ids) => OpenedOK(T, c)
    BY OpenedIs DEF Joins, c
  <2>2. QED
    BY <1>4, <2>1 DEF OpenedOK
<1>7. Pending(T) => PendingOK(T, d)
  <2>1. Pending(T) => PendingOK(T, c)
    BY PendingIs DEF c
  <2>2. ASSUME c.m_send_stream = 0 PROVE d.m_send_stream = 0
    <3>1. count \in 0..0
      BY <1>2, <2>2
    <3>2. count = 0 /\ 0 - 0 = 0
      BY <3>1
    <3>3. QED
      BY <1>4, <2>2, <3>2
  <2>3. d.m_send_stream > 0 => c.m_send_stream > 0
    BY <1>2, <1>4
  <2>4. QED
    BY <1>4, <2>1, <2>2, <2>3 DEF PendingOK
<1>8. Step(V, T, ids)
  BY <1>4, <1>6, <1>7, WrittenStep DEF c
<1>9. IsWritten(V, T, s, id, d)
  BY <1>4, WrittenIs DEF Sound
<1> HIDE DEF V
<1>10. CASE count > 0 /\ count = c.m_send_stream
  <2>1. Item(V.channels[s], id) = d /\ id \in OpenIds(V.channels[s])
    BY <1>9 DEF IsWritten, SameIds
  <2>2. d.m_send_stream = 0
    BY <1>2, <1>4, <1>10
  <2>3. Sound(V)
    BY <1>8 DEF Step
  <2>4. Step(Rewatched(V, s, id, "receive"), V, ids)
    BY <2>1, <2>2, <2>3, RewatchedStep
  <2>5. QED
    BY <1>5, <1>8, <1>10, <2>4, StepTwice
<1>11. CASE ~ (count > 0 /\ count = c.m_send_stream)
  BY <1>5, <1>8, <1>11
<1>12. QED
  BY <1>10, <1>11

(* A join is such a handler: no channel that still connects is visited.    *)
LEMMA ConnectedStep ==
    ASSUME NEW T, Sound(T), NEW ids, NEW s \in Sockets, NEW id \in OpenIds(T.channels[s]),
           id \in ids[s], NEW c, c = Item(T.channels[s], id), c.m_attempts > 0,
           \/ c.m_sync_result = "connected"
           \/ c.m_sync_result = "pending" /\
                T.net[c.m_socket_descriptor] \notin {"refused", "failed"}
    PROVE  Step(WithChannel(Rewatched(T, s, id, "receive"), s, id,
                  [c EXCEPT !.m_attempts = 0, !.m_sync_result = "pending"]), T, ids)
<1> DEFINE d == [c EXCEPT !.m_attempts = 0, !.m_sync_result = "pending"]
           V == Rewatched(T, s, id, "receive")
           h == c.m_socket_descriptor
<1>1. c \in Channels /\ c.m_closed = FALSE /\ h \in Handles /\ T.net[h] # "free"
  BY ChannelSlot
<1>2. 0 \in 0..MaxAttempts /\ "pending" \in Answers
  BY BoundsAssumption DEF Answers
<1>3. /\ d \in Channels /\ d.m_closed = FALSE /\ d.m_send_stream = c.m_send_stream
      /\ d.m_socket_descriptor = h /\ d.m_eh_id = c.m_eh_id /\ d.m_type = c.m_type
  BY <1>1, <1>2 DEF Channels
<1>4. Step(V, T, ids) /\ IsRewatched(V, T, s, id, "receive")
  <2>1. Pending(T) => c.m_send_stream = 0
    BY PendingIs DEF PendingOK
  <2>2. Step(V, T, ids)
    BY <2>1, RewatchedStep
  <2>3. QED
    BY <2>2, RewatchedIs
<1> HIDE DEF d, V
<1>5. Sound(V) /\ V.channels = T.channels /\ V.net = T.net
  BY <1>4 DEF Step, IsRewatched
<1>6. Joins(V, ids) => OpenedOK(V, d)
  <2>1. SUFFICES ASSUME Joins(V, ids), d.m_type = "streaming_opened"
                 PROVE  T.net[h] \in {"connected", "closed"}
    BY <1>3, <1>5 DEF OpenedOK
  <2>2. OpenedOK(V, c)
    BY <1>5, <2>1, OpenedIs DEF Joins
  <2>3. T.net[h] # "connecting"
    BY <1>5, <2>1 DEF Joins, Reports
  <2>4. T.net[h] \in Nets
    BY <1>1 DEF Sound, TableSet
  <2>5. CASE c.m_sync_result = "connected"
    BY <1>3, <1>5, <2>1, <2>2, <2>5 DEF OpenedOK
  <2>6. CASE T.net[h] \notin {"refused", "failed"}
    <3>1. T.net[h] # "listening"
      BY <1>3, <1>5, <2>1, <2>2 DEF OpenedOK
    <3>2. QED
      BY <1>1, <2>3, <2>4, <2>6, <3>1 DEF Nets, Answers
  <2>7. QED
    BY <2>5, <2>6
<1>7. Pending(V) => PendingOK(V, d)
  <2>1. Pending(V) => PendingOK(V, c)
    BY <1>5, PendingIs
  <2>2. PendingOK(V, c) => c.m_send_stream = 0
    BY DEF PendingOK
  <2>3. c.m_send_stream = 0 => PendingOK(V, d)
    BY <1>3 DEF PendingOK
  <2>4. QED
    BY <2>1, <2>2, <2>3
<1>8. Step(WithChannel(V, s, id, d), V, ids)
  BY <1>3, <1>5, <1>6, <1>7, WrittenStep
<1>9. Step(WithChannel(V, s, id, d), T, ids)
  BY <1>4, <1>8, StepTwice
<1>10. QED
  BY <1>9 DEF V, d

(* Nothing changes.                                                        *)
LEMMA StepSame ==
    ASSUME NEW T, Sound(T), NEW ids PROVE Step(T, T, ids)
<1>1. T \in TableSet
  BY DEF Sound
<1>2. ASSUME NEW t \in Sockets PROVE Kept(T.channels[t], T.channels[t])
  <2>1. T.channels[t] \in Lists(Channels)
    BY <1>1, TablesAre
  <2>2. QED
    BY <2>1, KeptSame DEF KeptId, SameGiven
<1>3. QED
  BY <1>2 DEF Step, AllKept

-----------------------------------------------------------------------------
\* What every step of the program keeps.
Good ==
    /\ SoundInv' /\ AllKept(Tables', Tables)
    /\ "getsockname" \notin Failures /\ JoinInv => JoinInv'
    /\ ~EarlySend /\ PendingInv => PendingInv'

\* What is left to visit are events of the last wait().
TodoOK ==
    /\ todo \in [Sockets -> SUBSET (0..(MaxIds - 1))]
    /\ \A s \in Sockets : todo[s] \subseteq m_event_item_ids[s]

(* A handler's step is good while the events stay those of the last wait().*)
LEMMA StepGood ==
    ASSUME SoundInv, NEW U, Tables' = U, Step(U, Tables, m_event_item_ids),
           UNCHANGED m_event_item_ids, TodoOK'
    PROVE  Good
<1>1. Sound(Tables') /\ AllKept(Tables', Tables)
  BY DEF Step
<1>2. Events'
  BY DEF SoundInv, Events, TodoOK
<1>3. "getsockname" \notin Failures /\ JoinInv => JoinInv'
  BY DEF Step, JoinInv
<1>4. ~EarlySend /\ PendingInv => PendingInv'
  BY DEF Step, PendingInv
<1>5. QED
  BY <1>1, <1>2, <1>3, <1>4 DEF Good, SoundInv

(* The tables that a handler has made.                                     *)
LEMMA Becoming ==
    ASSUME NEW U \in TableSet, Become(U) PROVE Tables' = U
BY DEF Become, Tables, TableSet

(* A handler that made the tables of U.                                    *)
LEMMA BecomeGood ==
    ASSUME SoundInv, NEW U, Become(U), Step(U, Tables, m_event_item_ids),
           UNCHANGED m_event_item_ids, TodoOK'
    PROVE  Good
<1>1. U \in TableSet
  BY DEF Step, Sound
<1>2. Tables' = U
  BY <1>1, Becoming
<1>3. QED
  BY <1>2, StepGood

(* What receive() has left.                                                *)
LEMMA TodoKept ==
    ASSUME Events, UNCHANGED m_event_item_ids, NEW s \in Sockets, NEW id,
           \/ UNCHANGED todo
           \/ Return(s)
           \/ Continue(s, id)
           \/ todo' = [todo EXCEPT ![s] = m_event_item_ids[s]]
    PROVE  TodoOK'
<1>1. /\ todo \in [Sockets -> SUBSET (0..(MaxIds - 1))]
      /\ m_event_item_ids \in [Sockets -> SUBSET (0..(MaxIds - 1))]
      /\ \A t \in Sockets : todo[t] \subseteq m_event_item_ids[t]
  BY DEF Events
<1>2. CASE UNCHANGED todo
  BY <1>1, <1>2 DEF TodoOK
<1>3. CASE Return(s)
  BY <1>1, <1>3 DEF TodoOK, Return
<1>4. CASE Continue(s, id)
  BY <1>1, <1>4 DEF TodoOK, Continue
<1>5. CASE todo' = [todo EXCEPT ![s] = m_event_item_ids[s]]
  BY <1>1, <1>5 DEF TodoOK
<1>6. QED
  BY <1>2, <1>3, <1>4, <1>5

(* The parts of the tables, by the names of the variables.                 *)
LEMMA TablesHere ==
    /\ Tables.channels = m_lst_channels /\ Tables.slots = m_ids /\ Tables.epoll = epoll
    /\ Tables.sync = sync_eh_ids /\ Tables.net = net
BY DEF Tables

(* An id of an event is that of an open channel or not.                    *)
LEMMA OpenHere ==
    ASSUME SoundInv, NEW s \in Sockets, NEW id \in Nat
    PROVE  OpenChannel(s, id) <=> id \in OpenIds(Tables.channels[s])
<1>1. Tables \in TableSet
  BY DEF SoundInv, Sound
<1>2. /\ \A v \in Channels : v.m_closed \in BOOLEAN
      /\ Tables.channels[s] \in Lists(Channels)
  BY <1>1, TablesAre
<1>3. id \in OpenIds(Tables.channels[s]) <=>
        Holds(Tables.channels[s], id) /\ ~ Item(Tables.channels[s], id).m_closed
  BY <1>2, OpenAre
<1>4. QED
  BY <1>3, TablesHere DEF OpenChannel, Channel

-----------------------------------------------------------------------------
(* listen() and open().                                                    *)
LEMMA OpenGood ==
    ASSUME SoundInv, NEW s \in Sockets, Listen(s) \/ Open(s) PROVE Good
<1> DEFINE ids == m_event_item_ids
<1>1. Sound(Tables) /\ Events /\ Room(Tables, s)
  BY DEF SoundInv, Listen, Open
<1>2. UNCHANGED m_event_item_ids /\ UNCHANGED todo
  BY DEF Listen, Open
<1>3. TodoOK'
  BY <1>1, <1>2, TodoKept
<1>4. CASE Listen(s)
  <2>1. PICK failure \in {"none"} \cup Failures :
          Become(AddChannel(Tables, s, "listening", 0, "pending", failure))
    BY <1>4 DEF Listen
  <2>2. 0 \in 0..MaxAttempts /\ "pending" \in Answers
    BY BoundsAssumption DEF Answers
  <2>3. Step(AddChannel(Tables, s, "listening", 0, "pending", failure), Tables, ids)
    BY <1>1, <2>2, AddStep
  <2>4. QED
    BY <1>2, <1>3, <2>1, <2>3, BecomeGood
<1>5. CASE Open(s)
  <2>1. PICK attempts \in 1..MaxAttempts, answer \in Answers,
             failure \in {"none"} \cup Failures :
          Become(AddChannel(Tables, s, "streaming_opened", attempts, answer, failure))
    BY <1>5 DEF Open
  <2>2. attempts \in 0..MaxAttempts /\ attempts # 0
    BY BoundsAssumption
  <2>3. Step(AddChannel(Tables, s, "streaming_opened", attempts, answer, failure), Tables, ids)
    BY <1>1, <2>2, AddStep
  <2>4. QED
    BY <1>2, <1>3, <2>1, <2>3, BecomeGood
<1>6. QED
  BY <1>4, <1>5

(* send(), also of a stream_drop.                                          *)
LEMMA SendGood ==
    ASSUME SoundInv, NEW s \in Sockets, Send(s) \/ Drop(s) PROVE Good
<1> DEFINE ids == m_event_item_ids
<1>1. Sound(Tables) /\ Events
  BY DEF SoundInv
<1>2. UNCHANGED m_event_item_ids /\ UNCHANGED todo
  BY DEF Send, Drop
<1>3. TodoOK'
  BY <1>1, <1>2, TodoKept
<1>4. CASE Send(s)
  <2>1. PICK id \in OpenIds(m_lst_channels[s]) :
          /\ EarlySend \/ Channel(s, id).m_attempts = 0
          /\ Channel(s, id).m_send_stream < MaxPending
          /\ Become(AsyncSend(Tables, s, id))
    BY <1>4 DEF Send
  <2>2. /\ id \in OpenIds(Tables.channels[s])
        /\ Item(Tables.channels[s], id).m_send_stream < MaxPending
        /\ ~EarlySend => Item(Tables.channels[s], id).m_attempts = 0
    BY <2>1, TablesHere DEF Channel
  <2>3. Step(AsyncSend(Tables, s, id), Tables, ids)
    BY <1>1, <2>2, AsyncSendStep
  <2>4. QED
    BY <1>2, <1>3, <2>1, <2>3, BecomeGood
<1>5. CASE Drop(s)
  <2>1. PICK id \in OpenIds(m_lst_channels[s]) : Become(Deleted(Tables, s, id))
    BY <1>5 DEF Drop
  <2>2. id \in OpenIds(Tables.channels[s])
    BY TablesHere
  <2>3. Step(Deleted(Tables, s, id), Tables, ids)
    BY <1>1, <2>2, DeletedStep
  <2>4. QED
    BY <1>2, <1>3, <2>1, <2>3, BecomeGood
<1>6. QED
  BY <1>4, <1>5

(* The beginning of receive(), and the visit of an id that is gone.        *)
LEMMA ReceiveGood ==
    ASSUME SoundInv, NEW s \in Sockets, NEW id,
           Receive(s) \/ (VisitGone(s, id) /\ UNCHANGED m_event_item_ids)
    PROVE  Good
<1>1. Sound(Tables) /\ Events
  BY DEF SoundInv
<1>2. Tables' = Tables /\ UNCHANGED m_event_item_ids
  BY DEF Receive, VisitGone, tables, Tables
<1>3. TodoOK'
  BY <1>1, <1>2, TodoKept DEF Receive, VisitGone
<1>4. Step(Tables, Tables, m_event_item_ids)
  BY <1>1, StepSame
<1>5. QED
  BY <1>2, <1>3, <1>4, StepGood

(* The visits of an open channel that take one step of a handler.          *)
LEMMA VisitGood ==
    ASSUME SoundInv, NEW s \in Sockets, NEW id \in OpenIds(Tables.channels[s]),
           UNCHANGED m_event_item_ids,
           NEW c, c = Item(Tables.channels[s], id),
           \/ VisitFailed(s, id, c)
           \/ VisitListening(s, id, c)
           \/ VisitData(s, id, c)
           \/ VisitDropped(s, id, c)
           \/ VisitWouldBlock(s, id, c)
    PROVE  Good
<1> DEFINE ids == m_event_item_ids
<1>1. Sound(Tables) /\ Events
  BY DEF SoundInv
<1>2. TodoOK'
  <2>1. Return(s) \/ Continue(s, id)
    BY DEF VisitFailed, VisitListening, VisitData, VisitDropped, VisitWouldBlock
  <2>2. QED
    BY <1>1, <2>1, TodoKept
<1>3. CASE UNCHANGED <<tables, sync_eh_ids, net>>
  <2>1. Tables' = Tables
    BY <1>3 DEF tables, Tables
  <2>2. Step(Tables, Tables, ids)
    BY <1>1, StepSame
  <2>3. QED
    BY <1>2, <2>1, <2>2, StepGood
<1>4. CASE Become(Deleted(Tables, s, id))
  <2>1. Step(Deleted(Tables, s, id), Tables, ids)
    BY <1>1, DeletedStep
  <2>2. QED
    BY <1>2, <1>4, <2>1, BecomeGood
<1>5. CASE VisitListening(s, id, c)
  <2>1. CASE Room(Tables, s) /\ \E failure \in {"none"} \cup Failures :
               Become(AddChannel(Tables, s, "streaming_accepted", 0, "pending", failure))
    <3>1. PICK failure \in {"none"} \cup Failures :
            Become(AddChannel(Tables, s, "streaming_accepted", 0, "pending", failure))
      BY <2>1
    <3>2. 0 \in 0..MaxAttempts /\ "pending" \in Answers
      BY BoundsAssumption DEF Answers
    <3>3. Step(AddChannel(Tables, s, "streaming_accepted", 0, "pending", failure), Tables, ids)
      BY <1>1, <2>1, <3>2, AddStep
    <3>4. QED
      BY <1>2, <3>1, <3>3, BecomeGood
  <2>2. QED
    BY <1>3, <1>5, <2>1 DEF VisitListening
<1>6. CASE VisitData(s, id, c)
  <2>1. CASE c.m_send_stream < MaxPending /\ Become(AsyncSend(Tables, s, id))
    <3>1. c.m_attempts = 0
      BY <1>6 DEF VisitData, Streaming
    <3>2. Step(AsyncSend(Tables, s, id), Tables, ids)
      BY <1>1, <2>1, <3>1, AsyncSendStep
    <3>3. QED
      BY <1>2, <2>1, <3>2, BecomeGood
  <2>2. QED
    BY <1>3, <1>6, <2>1 DEF VisitData
<1>7. CASE VisitWouldBlock(s, id, c)
  <2>1. c \in Channels
    BY <1>1, ChannelSlot
  <2>2. c.m_send_stream \in 0..c.m_send_stream
    <3>1. c.m_send_stream \in Nat
      BY <2>1 DEF Channels
    <3>2. QED
      BY <3>1
  <2>3. PICK count \in 0..c.m_send_stream : Become(Sent(Tables, s, id, count))
    BY <1>7, <2>2 DEF VisitWouldBlock
  <2>4. Step(Sent(Tables, s, id, count), Tables, ids)
    BY <1>1, SentStep
  <2>5. QED
    BY <1>2, <2>3, <2>4, BecomeGood
<1>8. QED
  BY <1>4, <1>5, <1>6, <1>7 DEF VisitFailed, VisitDropped

(* The visit of a channel whose connection has been made.                  *)
LEMMA VisitConnectedGood ==
    ASSUME SoundInv, NEW s \in Sockets, NEW id \in OpenIds(Tables.channels[s]),
           id \in m_event_item_ids[s], UNCHANGED m_event_item_ids,
           NEW c, c = Item(Tables.channels[s], id), VisitConnected(s, id, c)
    PROVE  Good
<1> DEFINE U == WithChannel(Rewatched(Tables, s, id, "receive"), s, id,
                  [c EXCEPT !.m_attempts = 0, !.m_sync_result = "pending"])
<1>1. Sound(Tables) /\ Events
  BY DEF SoundInv
<1>2. Return(s) /\ Become(U) /\ c.m_attempts > 0 /\ ConnectResult(c) = "connected"
  BY DEF VisitConnected
<1>3. TodoOK'
  BY <1>1, <1>2, TodoKept
<1>4. \/ c.m_sync_result = "connected"
      \/ c.m_sync_result = "pending" /\
           Tables.net[c.m_socket_descriptor] \notin {"refused", "failed"}
  <2>1. CASE c.m_sync_result # "pending"
    BY <1>2, <2>1 DEF ConnectResult
  <2>2. CASE c.m_sync_result = "pending"
    <3>1. net[c.m_socket_descriptor] \notin {"refused", "failed"}
      BY <1>2, <2>2 DEF ConnectResult
    <3>2. QED
      BY <2>2, <3>1, TablesHere
  <2>3. QED
    BY <2>1, <2>2
<1>5. Step(U, Tables, m_event_item_ids)
  BY <1>1, <1>2, <1>4, ConnectedStep
<1>6. QED
  BY <1>2, <1>3, <1>5, BecomeGood

(* The visit of a channel whose connection has been refused.               *)
LEMMA VisitRefusedGood ==
    ASSUME SoundInv, NEW s \in Sockets, NEW id \in OpenIds(Tables.channels[s]),
           UNCHANGED m_event_item_ids,
           NEW c, c = Item(Tables.channels[s], id), VisitRefused(s, id, c)
    PROVE  Good
<1> DEFINE ids == m_event_item_ids
           V == Deleted(Tables, s, id)
<1>1. Sound(Tables) /\ Events
  BY DEF SoundInv
<1>2. TodoOK'
  <2>1. Return(s) \/ Continue(s, id)
    BY DEF VisitRefused
  <2>2. QED
    BY <1>1, <2>1, TodoKept
<1>3. Step(V, Tables, ids)
  BY <1>1, DeletedStep
<1>4. CASE Become(V)
  BY <1>2, <1>3, <1>4, BecomeGood
<1>5. CASE c.m_attempts # 1
  <2>1. c \in Channels /\ c.m_attempts > 0
    BY <1>1, ChannelSlot DEF VisitRefused
  <2>2. c.m_attempts - 1 \in 0..MaxAttempts /\ c.m_attempts - 1 # 0
    <3>1. c.m_attempts \in 0..MaxAttempts /\ MaxAttempts \in Nat
      BY <2>1, BoundsAssumption DEF Channels
    <3>2. QED
      BY <1>5, <2>1, <3>1
  <2>3. PICK answer \in Answers, failure \in {"none"} \cup Failures :
          Become(AddChannel(V, s, "streaming_opened", c.m_attempts - 1, answer, failure))
    BY <1>5 DEF VisitRefused
  <2>4. Room(V, s)
    BY <1>5 DEF VisitRefused
  <2> HIDE DEF V
  <2>5. Sound(V)
    BY <1>3 DEF Step
  <2>6. Step(AddChannel(V, s, "streaming_opened", c.m_attempts - 1, answer, failure), V, ids)
    BY <2>2, <2>4, <2>5, AddStep
  <2>7. Step(AddChannel(V, s, "streaming_opened", c.m_attempts - 1, answer, failure), Tables, ids)
    BY <1>1, <1>3, <2>6, StepTwice
  <2>8. QED
    BY <1>2, <2>3, <2>7, BecomeGood
<1>6. QED
  BY <1>4, <1>5 DEF VisitRefused

(* The visits of receive().                                                *)
LEMMA VisitsGood ==
    ASSUME SoundInv, NEW s \in Sockets, NEW id \in todo[s], Visit(s, id) PROVE Good
<1>1. id \in m_event_item_ids[s] /\ id \in Nat
  BY DEF SoundInv, Events
<1>2. UNCHANGED m_event_item_ids
  BY DEF Visit
<1>3. CASE VisitGone(s, id)
  BY <1>2, <1>3, ReceiveGood
<1>4. CASE ~ VisitGone(s, id)
  <2> DEFINE c == Channel(s, id)
  <2>1. /\ OpenChannel(s, id)
        /\ \/ VisitConnected(s, id, c)
           \/ VisitRefused(s, id, c)
           \/ VisitFailed(s, id, c)
           \/ VisitListening(s, id, c)
           \/ VisitData(s, id, c)
           \/ VisitDropped(s, id, c)
           \/ VisitWouldBlock(s, id, c)
    BY <1>4 DEF Visit
  <2>2. c = Item(Tables.channels[s], id)
    BY TablesHere DEF Channel
  <2> HIDE DEF c
  <2>3. id \in OpenIds(Tables.channels[s])
    BY <1>1, <2>1, OpenHere
  <2>4. CASE VisitConnected(s, id, c)
    BY <1>1, <1>2, <2>2, <2>3, <2>4, VisitConnectedGood
  <2>5. CASE VisitRefused(s, id, c)
    BY <1>2, <2>2, <2>3, <2>5, VisitRefusedGood
  <2>6. CASE \/ VisitFailed(s, id, c)
             \/ VisitListening(s, id, c)
             \/ VisitData(s, id, c)
             \/ VisitDropped(s, id, c)
             \/ VisitWouldBlock(s, id, c)
    BY <1>2, <2>2, <2>3, <2>6, VisitGood
  <2>7. QED
    BY <2>1, <2>4, <2>5, <2>6
<1>5. QED
  BY <1>3, <1>4

(* What wait() may report of a slot is the id of a channel that is not     *)
(* connecting, or of none.                                                 *)
LEMMA ReportedIs ==
    ASSUME SoundInv, NEW slots, slots \subseteq sync_eh_ids \/ slots \subseteq Ready
    PROVE  /\ Reported(slots) \in [Sockets -> SUBSET (0..(MaxIds - 1))]
           /\ JoinInv => Reports(Tables, Reported(slots))
<1>1. Sound(Tables) /\ Tables \in TableSet
  BY DEF SoundInv, Sound
<1>2. slots \subseteq 0..(MaxIds - 1)
  BY <1>1, TablesHere DEF TableSet, Ready, Watches
<1>3. ASSUME NEW j \in slots, Holds(m_ids, j)
      PROVE  j \in Ids(Tables.slots) /\ Item(m_ids, j) \in Slots
  <2>1. Tables.slots \in Lists(Slots) /\ j \in Nat
    <3>1. j \in Nat
      BY <1>2
    <3>2. QED
      BY <1>1, <3>1 DEF TableSet
  <2>2. j \in Ids(Tables.slots)
    BY <1>3, <2>1, IdsAre, TablesHere
  <2>3. QED
    BY <1>1, <2>2, TablesAre, TablesHere
<1>4. Reported(slots) \in [Sockets -> SUBSET (0..(MaxIds - 1))]
  BY <1>3 DEF Reported, Slots
<1>5. ASSUME JoinInv, NEW j \in slots, Holds(m_ids, j), NEW s \in Sockets,
             Item(m_ids, j).m_pitem = s, NEW id, id = Item(m_ids, j).m_item_id
      PROVE  /\ id \in Given(Tables.channels[s])
             /\ id \in OpenIds(Tables.channels[s]) =>
                  Tables.net[Item(Tables.channels[s], id).m_socket_descriptor] # "connecting"
  <2>1. j \in Ids(Tables.slots) /\ Item(Tables.slots, j) = Item(m_ids, j)
    BY <1>3, <1>5, TablesHere
  <2>2. /\ id \in Given(Tables.channels[s])
        /\ id \in OpenIds(Tables.channels[s]) => ~ Item(Tables.slots, j).m_closed
    BY <1>5, <2>1 DEF JoinInv, Joins, SlotsLead
  <2>3. ASSUME id \in OpenIds(Tables.channels[s])
        PROVE  Tables.net[Item(Tables.channels[s], id).m_socket_descriptor] # "connecting"
    <3>1. j \in OpenIds(Tables.slots)
      BY <2>1, <2>2, <2>3 DEF OpenIds
    <3>2. PICK w \in Tables.epoll : w.id = j /\ Tables.net[w.handle] # "connecting"
      <4>1. CASE j \in sync_eh_ids
        <5>1. PICK w \in Tables.epoll : w.id = j
          BY <1>1, <3>1 DEF Sound
        <5>2. QED
          BY <1>5, <4>1, <5>1, TablesHere DEF JoinInv, Joins, SyncEnded
      <4>2. CASE j \in Ready
        BY <4>2, TablesHere DEF Ready
      <4>3. QED
        BY <4>1, <4>2
    <3>3. PICK t \in Sockets, i \in 0..(MaxIds - 1) : Leads(Tables, w, t, i)
      BY <1>1, <3>2 DEF Sound
    <3>4. t = s /\ i = id
      BY <1>5, <2>1, <3>2, <3>3 DEF Leads
    <3>5. QED
      BY <3>2, <3>3, <3>4 DEF Leads
  <2>4. QED
    BY <2>2, <2>3
<1>6. ASSUME JoinInv, NEW s \in Sockets, NEW id \in Reported(slots)[s]
      PROVE  /\ id \in Given(Tables.channels[s])
             /\ id \in OpenIds(Tables.channels[s]) =>
                  Tables.net[Item(Tables.channels[s], id).m_socket_descriptor] # "connecting"
  <2>1. PICK j \in slots : /\ Holds(m_ids, j) /\ Item(m_ids, j).m_pitem = s
                           /\ id = Item(m_ids, j).m_item_id
    BY DEF Reported
  <2>2. QED
    BY <1>5, <1>6, <2>1
<1>7. QED
  BY <1>4, <1>6 DEF Reports

(* wait().                                                                 *)
LEMMA WaitGood ==
    ASSUME SoundInv, Wait PROVE Good
<1> DEFINE T == Tables
           U == Tables'
<1>1. Sound(T) /\ T \in TableSet /\ Events
  BY DEF SoundInv, Sound
<1>2. PICK slots : /\ m_event_item_ids' = Reported(slots)
                   /\ slots \subseteq sync_eh_ids \/ slots \subseteq Ready
  <2>1. CASE \E i \in sync_eh_ids : m_event_item_ids' = Reported({i})
    <3>1. PICK i \in sync_eh_ids : m_event_item_ids' = Reported({i})
      BY <2>1
    <3>2. {i} \subseteq sync_eh_ids
      OBVIOUS
    <3>3. QED
      BY <3>1, <3>2
  <2>2. CASE \E slots \in SUBSET Ready : m_event_item_ids' = Reported(slots)
    BY <2>2
  <2>3. CASE m_event_item_ids' = Reported({})
    <3>1. {} \subseteq Ready
      OBVIOUS
    <3>2. QED
      BY <2>3, <3>1
  <2>4. QED
    BY <2>1, <2>2, <2>3 DEF Wait
<1>3. /\ U.channels = T.channels /\ U.slots = T.slots /\ U.epoll = T.epoll /\ U.net = T.net
      /\ U.sync \subseteq T.sync /\ U = [T EXCEPT !.sync = U.sync]
  <2>1. UNCHANGED <<m_lst_channels, m_ids, epoll, net>> /\ sync_eh_ids' \subseteq sync_eh_ids
    BY DEF Wait
  <2>2. QED
    BY <2>1 DEF Tables
<1>4. U \in TableSet
  BY <1>1, <1>3 DEF TableSet
<1> HIDE DEF T, U
<1>5. Sound(U)
  BY <1>1, <1>3, <1>4, SoundKept
<1>6. AllKept(U, T)
  <2>1. Step(T, T, m_event_item_ids)
    BY <1>1, StepSame
  <2>2. AllKept(T, T)
    BY <2>1 DEF Step
  <2>3. QED
    BY <1>3, <2>2 DEF AllKept
<1>7. Events'
  <2>1. /\ m_event_item_ids' \in [Sockets -> SUBSET (0..(MaxIds - 1))]
        /\ todo' \in [Sockets -> SUBSET (0..(MaxIds - 1))]
    BY <1>1, <1>2, ReportedIs DEF Events, Wait
  <2>2. \A s \in Sockets : todo'[s] = {}
    BY DEF Wait, Idle
  <2>3. QED
    BY <2>1, <2>2 DEF Events
<1>8. JoinInv => Joins(U, m_event_item_ids')
  <2>1. SUFFICES ASSUME JoinInv PROVE Joins(U, m_event_item_ids')
    OBVIOUS
  <2>2. Reports(T, m_event_item_ids')
    BY <1>2, <2>1, ReportedIs DEF T
  <2>3. Opened(T) /\ SlotsLead(T) /\ SyncEnded(T)
    BY <2>1 DEF JoinInv, Joins, T
  <2>4. Opened(U) /\ SlotsLead(U) /\ Reports(U, m_event_item_ids')
    BY <1>3, <2>2, <2>3 DEF Opened, SlotsLead, Reports
  <2>5. SyncEnded(U)
    BY <1>3, <2>3 DEF SyncEnded
  <2>6. QED
    BY <2>4, <2>5 DEF Joins
<1>9. Pending(T) => Pending(U)
  BY <1>3 DEF Pending
<1>10. QED
  BY <1>5, <1>6, <1>7, <1>8, <1>9 DEF Good, SoundInv, JoinInv, PendingInv, T, U

(* The network: no end of a connection brings it back to connecting.       *)
LEMMA NetworkGood ==
    ASSUME SoundInv, Network PROVE Good
<1> DEFINE T == Tables
           U == Tables'
<1>1. Sound(T) /\ T \in TableSet /\ Events
  BY DEF SoundInv, Sound
<1>2. PICK h \in Handles, end \in (Answers \ {"pending"}) \cup {"closed"} :
        /\ net' = [net EXCEPT ![h] = end]
        /\ \/ net[h] = "connecting"
           \/ net[h] = "connected" /\ end = "closed"
  BY DEF Network
<1>3. UNCHANGED <<m_lst_channels, m_ids, epoll, sync_eh_ids, m_event_item_ids, todo>>
  BY DEF Network, tables
<1>4. /\ U.channels = T.channels /\ U.slots = T.slots /\ U.epoll = T.epoll /\ U.sync = T.sync
      /\ U.net = [T.net EXCEPT ![h] = end] /\ U = [T EXCEPT !.net = U.net]
      /\ T.net[h] = "connecting" \/ (T.net[h] = "connected" /\ end = "closed")
  BY <1>2, <1>3 DEF Tables
<1>5. U.net \in [Handles -> Nets] /\ T.net \in [Handles -> Nets]
  BY <1>1, <1>4 DEF TableSet, Nets
<1>6. U \in TableSet
  BY <1>1, <1>4, <1>5 DEF TableSet
<1> HIDE DEF T, U
<1>7. ASSUME NEW g \in Handles
      PROVE  /\ T.net[g] # "free" => U.net[g] # "free"
             /\ T.net[g] # "listening" => U.net[g] # "listening"
             /\ T.net[g] # "connecting" => U.net[g] # "connecting"
             /\ T.net[g] \in {"connected", "closed"} => U.net[g] \in {"connected", "closed"}
  <2>1. CASE g = h
    BY <1>4, <1>5, <2>1 DEF Answers
  <2>2. CASE g # h
    BY <1>4, <1>5, <2>2
  <2>3. QED
    BY <2>1, <2>2
<1>8. \A w, t, j : Leads(T, w, t, j) => Leads(U, w, t, j)
  BY <1>4 DEF Leads
<1>9. \A w \in T.epoll : w.handle \in Handles
  BY <1>1 DEF TableSet, Watches
<1>10. Sound(U)
  BY <1>1, <1>4, <1>6, <1>7, <1>8, <1>9 DEF Sound
<1>11. AllKept(U, T)
  <2>1. Step(T, T, m_event_item_ids)
    BY <1>1, StepSame
  <2>2. AllKept(T, T)
    BY <2>1 DEF Step
  <2>3. QED
    BY <1>4, <2>2 DEF AllKept
<1>12. \A s \in Sockets : \A id \in OpenIds(T.channels[s]) :
         Item(T.channels[s], id).m_socket_descriptor \in Handles
  BY <1>1, ChannelSlot
<1>13. JoinInv => Joins(U, m_event_item_ids)
  <2>1. SUFFICES ASSUME JoinInv PROVE Joins(U, m_event_item_ids)
    OBVIOUS
  <2>2. Opened(T) /\ SlotsLead(T) /\ SyncEnded(T) /\ Reports(T, m_event_item_ids)
    BY <2>1 DEF JoinInv, Joins, T
  <2>3. Opened(U)
    <3>1. SUFFICES ASSUME NEW s \in Sockets, NEW id \in OpenIds(U.channels[s])
                   PROVE  OpenedOK(U, Item(U.channels[s], id))
      BY OpenedWhen
    <3>2. OpenedOK(T, Item(T.channels[s], id))
      BY <1>4, <2>2, OpenedIs
    <3>3. QED
      BY <1>4, <1>7, <1>12, <3>2 DEF OpenedOK
  <2>4. SlotsLead(U)
    BY <1>4, <2>2 DEF SlotsLead
  <2>5. SyncEnded(U)
    BY <1>4, <1>7, <1>9, <2>2 DEF SyncEnded
  <2>6. Reports(U, m_event_item_ids)
    BY <1>4, <1>7, <1>12, <2>2 DEF Reports
  <2>7. QED
    BY <2>3, <2>4, <2>5, <2>6 DEF Joins
<1>14. Pending(T) => Pending(U)
  BY <1>4 DEF Pending
<1>15. Events'
  BY <1>1, <1>3 DEF Events
<1>16. QED
  BY <1>3, <1>10, <1>11, <1>13, <1>14, <1>15 DEF Good, SoundInv, JoinInv, PendingInv, T, U

(* Every step of the program is good.                                      *)
LEMMA NextGood ==
    ASSUME SoundInv, [Next]_vars PROVE Good
<1>1. CASE UNCHANGED vars
  <2>1. Sound(Tables) /\ Events
    BY DEF SoundInv
  <2>2. Tables' = Tables /\ UNCHANGED m_event_item_ids /\ UNCHANGED todo
    BY <1>1 DEF vars, Tables
  <2>3. TodoOK'
    BY <2>1, <2>2 DEF Events, TodoOK
  <2>4. Step(Tables, Tables, m_event_item_ids)
    BY <2>1, StepSame
  <2>5. QED
    BY <2>2, <2>3, <2>4, StepGood
<1>2. CASE Wait
  BY <1>2, WaitGood
<1>3. CASE Network
  BY <1>3, NetworkGood
<1>4. ASSUME NEW s \in Sockets, Listen(s) \/ Open(s) PROVE Good
  BY <1>4, OpenGood
<1>5. ASSUME NEW s \in Sockets, Send(s) \/ Drop(s) PROVE Good
  BY <1>5, SendGood
<1>6. ASSUME NEW s \in Sockets, Receive(s) PROVE Good
  BY <1>6, ReceiveGood
<1>7. ASSUME NEW s \in Sockets, NEW id \in todo[s], Visit(s, id) PROVE Good
  BY <1>7, VisitsGood
<1>8. QED
  BY <1>1, <1>2, <1>3, <1>4, <1>5, <1>6, <1>7 DEF Next

(* At first there are no channels, slots or events.                        *)
LEMMA InitGood ==
    ASSUME Init PROVE SoundInv /\ JoinInv /\ PendingInv
<1>1. << >> \in Lists(Channels) /\ << >> \in Lists(Slots)
  BY DEF Lists
<1>2. OpenIds(<< >>) = {} /\ Ids(<< >>) = {}
  BY <1>1, IdsAre DEF OpenIds
<1>3. /\ Tables.channels = [s \in Sockets |-> << >>] /\ Tables.slots = << >>
      /\ Tables.epoll = {} /\ Tables.sync = {} /\ Tables.net = [h \in Handles |-> "free"]
  BY DEF Tables, Init
<1>4. Tables \in TableSet
  <2>1. Tables = [channels |-> Tables.channels, slots |-> Tables.slots, epoll |-> Tables.epoll,
                  sync |-> Tables.sync, net |-> Tables.net]
    BY DEF Tables
  <2>2. /\ Tables.channels \in [Sockets -> Lists(Channels)] /\ Tables.slots \in Lists(Slots)
        /\ Tables.epoll \in SUBSET Watches /\ Tables.sync \in SUBSET (0..(MaxIds - 1))
        /\ Tables.net \in [Handles -> Nets]
    BY <1>1, <1>3 DEF Nets
  <2>3. QED
    BY <2>1, <2>2 DEF TableSet
<1>5. IsFiniteSet(Tables.epoll)
  BY <1>3, FS_EmptySet
<1>6. Sound(Tables)
  BY <1>2, <1>3, <1>4, <1>5 DEF Sound
<1>7. Events
  BY DEF Init, Events
<1>8. JoinInv
  <2>1. \A s \in Sockets : m_event_item_ids[s] = {}
    BY DEF Init
  <2>2. Opened(Tables) /\ SlotsLead(Tables) /\ SyncEnded(Tables)
    BY <1>2, <1>3 DEF Opened, SlotsLead, SyncEnded
  <2>3. Reports(Tables, m_event_item_ids)
    BY <2>1 DEF Reports
  <2>4. QED
    BY <2>2, <2>3 DEF JoinInv, Joins
<1>9. PendingInv
  BY <1>2, <1>3 DEF PendingInv, Pending
<1>10. QED
  BY <1>6, <1>7, <1>8, <1>9 DEF SoundInv

-----------------------------------------------------------------------------
(* Different descriptors are as many as their registrations.               *)
LEMMA AsMany ==
    ASSUME NEW E, IsFiniteSet(E), \A v, w \in E : v.handle = w.handle => v = w
    PROVE  Cardinality(E) = Cardinality({w.handle : w \in E})
<1> DEFINE H == {w.handle : w \in E}
           f == [w \in E |-> w.handle]
<1>1. f \in [E -> H] /\ \A w \in E : f[w] = w.handle
  OBVIOUS
<1> HIDE DEF f
<1>2. \A v, w \in E : f[v] = f[w] => v = w
  BY <1>1
<1>3. \A h \in H : \E w \in E : f[w] = h
  BY <1>1
<1>4. f \in Bijection(E, H)
  BY <1>1, <1>2, <1>3 DEF Bijection, Injection, Surjection, IsInjective
<1>5. ExistsBijection(E, H)
  BY <1>4 DEF ExistsBijection
<1>6. QED
  BY <1>5, FS_Bijection

(* The parts of sound tables have their types.                             *)
LEMMA SoundTypes ==
    ASSUME SoundInv PROVE TypeOK
<1>1. Tables \in TableSet /\ Events
  BY DEF SoundInv, Sound
<1>2. ASSUME NEW s \in Sockets, NEW id \in Ids(m_lst_channels[s])
      PROVE  ChannelOK(Item(m_lst_channels[s], id))
  <2>1. /\ m_lst_channels[s] \in Lists(Channels)
        /\ \A v \in Channels : v.m_closed \in BOOLEAN
    BY <1>1, TablesAre, TablesHere
  <2>2. Item(m_lst_channels[s], id) \in Channels
    BY <2>1, OpenAre
  <2>3. QED
    BY <2>2 DEF Channels, ChannelOK
<1>3. ASSUME NEW s \in Sockets
      PROVE  m_event_item_ids[s] \subseteq 0..(MaxIds - 1) /\ todo[s] \subseteq m_event_item_ids[s]
  BY <1>1 DEF Events
<1>4. \A i \in Ids(m_ids) : Item(m_ids, i) \in Slots
  BY <1>1, TablesAre, TablesHere
<1>5. /\ epoll \subseteq Watches /\ sync_eh_ids \subseteq 0..(MaxIds - 1)
      /\ net \in [Handles -> Nets]
  BY <1>1, TablesHere DEF TableSet
<1>6. QED
  BY <1>2, <1>3, <1>4, <1>5 DEF TypeOK, Slots, Watches, Nets

(* Events reach the owners of their descriptors.                           *)
LEMMA SoundReaches ==
    ASSUME SoundInv PROVE EventsReachOwners
<1>1. Sound(Tables)
  BY DEF SoundInv
<1>2. ASSUME NEW w \in epoll
      PROVE  /\ w.id \in OpenIds(m_ids)
             /\ LET slot == Item(m_ids, w.id)
                IN /\ OpenChannel(slot.m_pitem, slot.m_item_id)
                   /\ LET channel == Channel(slot.m_pitem, slot.m_item_id)
                      IN /\ channel.m_socket_descriptor = w.handle
                         /\ channel.m_eh_id = w.id
  <2>1. PICK s \in Sockets, id \in 0..(MaxIds - 1) : Leads(Tables, w, s, id)
    BY <1>1, TablesHere DEF Sound
  <2>2. /\ w.id \in OpenIds(m_ids)
        /\ Item(m_ids, w.id).m_pitem = s /\ Item(m_ids, w.id).m_item_id = id
        /\ id \in OpenIds(Tables.channels[s])
        /\ Channel(s, id).m_socket_descriptor = w.handle /\ Channel(s, id).m_eh_id = w.id
    BY <2>1, TablesHere DEF Leads, Channel
  <2>3. OpenChannel(s, id)
    BY <2>2, OpenHere
  <2>4. QED
    BY <2>2, <2>3
<1>3. ASSUME NEW s \in Sockets, NEW id \in OpenIds(m_lst_channels[s])
      PROVE  \E w \in epoll : /\ w.handle = Channel(s, id).m_socket_descriptor
                              /\ w.id = Channel(s, id).m_eh_id
  <2>1. PICK w \in Tables.epoll : Leads(Tables, w, s, id)
    BY <1>1, TablesHere DEF Sound
  <2>2. QED
    BY <2>1, TablesHere DEF Leads, Channel
<1>4. OpenIds(m_ids) = {w.id : w \in epoll}
  <2>1. \A i \in OpenIds(m_ids) : \E w \in epoll : w.id = i
    BY <1>1, TablesHere DEF Sound
  <2>2. QED
    BY <1>2, <2>1
<1>5. Cardinality(epoll) = Cardinality({w.handle : w \in epoll})
  <2>1. IsFiniteSet(epoll) /\ \A v, w \in epoll : v.handle = w.handle => v = w
    BY <1>1, TablesHere DEF Sound
  <2>2. QED
    BY <2>1, AsMany
<1>6. QED
  BY <1>2, <1>3, <1>4, <1>5 DEF EventsReachOwners

(* The inductive invariant of the tables holds in every run of the program.*)
THEOREM TablesSound == Spec => []SoundInv
<1>1. Init => SoundInv
  BY InitGood
<1>2. SoundInv /\ [Next]_vars => SoundInv'
  BY NextGood DEF Good
<1>3. QED
  BY <1>1, <1>2, PTL DEF Spec

(***************************************************************************)
(* Each open channel is watched once, and what is watched leads over its   *)
(* slot to the open channel that owns it, whatever is opened, retried,     *)
(* accepted, dropped and registered anew, and whichever of the calls in    *)
(* add_channel fail.                                                       *)
(***************************************************************************)
THEOREM SocketTables == Spec => []TablesConsistent
<1>1. SoundInv => TablesConsistent
  BY SoundTypes, SoundReaches DEF TablesConsistent
<1>2. QED
  BY <1>1, TablesSound, PTL

(***************************************************************************)
(* No id is given out twice, and no open channel moves in memory or loses  *)
(* its descriptor or its slot.                                             *)
(***************************************************************************)
THEOREM SocketIds == Spec => IdsAreForLife
<1>1. ASSUME SoundInv, [Next]_vars, NEW s \in Sockets,
             m_lst_channels[s] # << >>, m_lst_channels[s] # m_lst_channels'[s]
      PROVE  LET L == m_lst_channels[s]
                 M == m_lst_channels'[s]
             IN /\ M # <<>>
                /\ NextId(L) <= NextId(M)
                /\ \A id \in OpenIds(M) :
                     \/ NextId(L) <= id
                     \/ /\ id \in OpenIds(L)
                        /\ Item(M, id).m_socket_descriptor =
                             Item(L, id).m_socket_descriptor
                        /\ Item(M, id).m_eh_id = Item(L, id).m_eh_id
                        /\ Capacity(M[Holder(M, id)]) = Capacity(L[Holder(L, id)])
  <2>1. AllKept(Tables', Tables)
    BY <1>1, NextGood DEF Good
  <2>2. Tables.channels[s] = m_lst_channels[s] /\ Tables'.channels[s] = m_lst_channels'[s]
    BY DEF Tables
  <2>3. Kept(m_lst_channels'[s], m_lst_channels[s])
    BY <2>1, <2>2 DEF AllKept
  <2>4. QED
    BY <1>1, <2>3 DEF Kept, KeptId, Home
<1>2. SoundInv /\ [Next]_vars =>
        [\A s \in Sockets :
          LET L == m_lst_channels[s]
              M == m_lst_channels'[s]
          IN L # <<>> /\ L # M =>
               /\ M # <<>>
               /\ NextId(L) <= NextId(M)
               /\ \A id \in OpenIds(M) :
                    \/ NextId(L) <= id
                    \/ /\ id \in OpenIds(L)
                       /\ Item(M, id).m_socket_descriptor =
                            Item(L, id).m_socket_descriptor
                       /\ Item(M, id).m_eh_id = Item(L, id).m_eh_id
                       /\ Capacity(M[Holder(M, id)]) =
                            Capacity(L[Holder(L, id)])]_vars
  BY <1>1
<1>3. QED
  BY <1>2, TablesSound, PTL DEF Spec, IdsAreForLife

(***************************************************************************)
(* An announced peer is connected: no event of another channel and no late *)
(* one ends an attempt.  The exception of getsockname after connect() is   *)
(* excepted: it leaves the result behind for the next channel.             *)
(***************************************************************************)
THEOREM SocketJoins ==
    ASSUME "getsockname" \notin Failures
    PROVE  Spec => []JoinMeansConnected
<1>1. Init => SoundInv /\ JoinInv
  BY InitGood
<1>2. SoundInv /\ JoinInv /\ [Next]_vars => (SoundInv /\ JoinInv)'
  BY NextGood DEF Good
<1>3. JoinInv => JoinMeansConnected
  <2>1. SUFFICES ASSUME JoinInv, NEW s \in Sockets, NEW id \in OpenIds(m_lst_channels[s]),
                        Channel(s, id).m_type = "streaming_opened",
                        Channel(s, id).m_attempts = 0
                 PROVE  net[Channel(s, id).m_socket_descriptor] \in {"connected", "closed"}
    BY DEF JoinMeansConnected
  <2>2. OpenedOK(Tables, Item(Tables.channels[s], id))
    BY <2>1, OpenedIs, TablesHere DEF JoinInv, Joins
  <2>3. QED
    BY <2>1, <2>2, TablesHere DEF OpenedOK, Channel
<1>4. QED
  BY <1>1, <1>2, <1>3, PTL DEF Spec

(***************************************************************************)
(* A peer with messages pending is watched for EPOLLOUT, when nothing is   *)
(* sent to a peer before its join.                                         *)
(***************************************************************************)
THEOREM SocketPending ==
    ASSUME ~EarlySend
    PROVE  Spec => []PendingIsWatched
<1>1. Init => SoundInv /\ PendingInv
  BY InitGood
<1>2. SoundInv /\ PendingInv /\ [Next]_vars => (SoundInv /\ PendingInv)'
  BY NextGood DEF Good
<1>3. PendingInv => PendingIsWatched
  BY TablesHere DEF PendingInv, Pending, PendingIsWatched, Channel
<1>4. QED
  BY <1>1, <1>2, <1>3, PTL DEF Spec
=============================================================================
