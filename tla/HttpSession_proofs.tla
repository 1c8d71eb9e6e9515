------------------------- MODULE HttpSession_proofs -------------------------
(***************************************************************************)
(* Proofs about the HTTP session, for any scripts of messages, any pieces  *)
(* and any limits.                                                         *)
(***************************************************************************)
EXTENDS HttpSession, FiniteSetTheorems, WellFoundedInduction, TLAPS

-----------------------------------------------------------------------------
(* Texts that are put together of parts.                                   *)

(* A set of numbers has a least one.                                       *)
LEMMA Least ==
    ASSUME NEW N, N \subseteq Nat, N # {}
    PROVE  \E n \in N : \A k \in N : n <= k
<1>1. PICK n \in N : \A k \in N : <<k, n>> \notin OpToRel(<, Nat)
  BY NatLessThanWellFounded, WFMin
<1>2. ASSUME NEW k \in N PROVE n <= k
  <2>1. n \in Nat /\ k \in Nat
    OBVIOUS
  <2>2. ~ (k < n)
    BY <1>1, <2>1 DEF OpToRel
  <2>3. QED
    BY <2>1, <2>2
<1>3. QED
  BY <1>2

\* What the recursive function of FlattenSeq is for the first n parts.
Flattens(s, n, f) ==
    f = [i \in 1..n |-> IF i = 1 THEN s[i] ELSE f[i - 1] \o s[i]]

(* One step of it.                                                         *)
LEMMA FlattensAt ==
    ASSUME NEW s, NEW n, NEW f, Flattens(s, n, f), NEW i \in 1..n
    PROVE  f[i] = IF i = 1 THEN s[i] ELSE f[i - 1] \o s[i]
BY DEF Flattens

(* It exists.                                                              *)
LEMMA FlatteningExists ==
    ASSUME NEW S, NEW s \in Seq(Seq(S)), NEW n \in 0..Len(s)
    PROVE  \E f : Flattens(s, n, f)
<1> DEFINE N == {k \in 0..Len(s) : ~ \E f : Flattens(s, k, f)}
<1>1. SUFFICES ASSUME N # {} PROVE FALSE
  OBVIOUS
<1>2. PICK k \in N : \A j \in N : k <= j
  <2>1. N \subseteq Nat
    OBVIOUS
  <2> HIDE DEF N
  <2>2. QED
    BY <1>1, <2>1, Least
<1>3. k # 0
  <2>1. Flattens(s, 0, <<>>)
    BY DEF Flattens
  <2>2. QED
    BY <2>1
<1>4. k - 1 \in 0..Len(s) /\ k - 1 \notin N
  <2>1. k \in 0..Len(s) /\ Len(s) \in Nat
    BY <1>2
  <2>2. k - 1 \in 0..Len(s) /\ ~ (k <= k - 1)
    BY <1>3, <2>1
  <2> HIDE DEF N
  <2>3. QED
    BY <1>2, <2>2
<1>5. PICK g : Flattens(s, k - 1, g)
  BY <1>4
<1> DEFINE f == [i \in 1..k |-> IF i = k THEN IF k = 1 THEN s[k] ELSE g[k - 1] \o s[k]
                                ELSE g[i]]
<1>6. ASSUME NEW i \in 1..k
      PROVE  f[i] = IF i = 1 THEN s[i] ELSE f[i - 1] \o s[i]
  <2>0. k \in Nat /\ k >= 1
    BY <1>3
  <2>1. CASE i = k
    <3>1. k # 1 => f[k - 1] = g[k - 1]
      BY <2>0
    <3>2. QED
      BY <2>0, <2>1, <3>1
  <2>2. CASE i # k
    <3>1. i \in 1..(k - 1) /\ f[i] = g[i]
      BY <2>0, <2>2
    <3>2. g[i] = IF i = 1 THEN s[i] ELSE g[i - 1] \o s[i]
      BY <1>5, <3>1 DEF Flattens
    <3>3. i # 1 => f[i - 1] = g[i - 1]
      BY <2>0, <2>2
    <3>4. QED
      BY <3>1, <3>2, <3>3
  <2>3. QED
    BY <2>1, <2>2
<1>7. Flattens(s, k, f)
  BY <1>6 DEF Flattens
<1>8. QED
  BY <1>7

(* Two of them agree, and what they hold are texts.                        *)
LEMMA FlatteningAgrees ==
    ASSUME NEW S, NEW m \in Nat, NEW n \in Nat, m <= n, NEW s \in Seq(Seq(S)), n <= Len(s),
           NEW f, Flattens(s, n, f), NEW t, \A i \in 1..m : t[i] = s[i],
           NEW g, Flattens(t, m, g)
    PROVE  \A i \in 1..m : f[i] = g[i] /\ f[i] \in Seq(S)
<1> DEFINE N == {k \in 1..m : ~ (f[k] = g[k] /\ f[k] \in Seq(S))}
<1>1. SUFFICES ASSUME N # {} PROVE FALSE
  OBVIOUS
<1>2. PICK k \in N : \A j \in N : k <= j
  <2>1. N \subseteq Nat
    OBVIOUS
  <2> HIDE DEF N
  <2>2. QED
    BY <1>1, <2>1, Least
<1>3. /\ k \in 1..m /\ k \in 1..n /\ s[k] \in Seq(S) /\ t[k] = s[k]
      /\ ~ (f[k] = g[k] /\ f[k] \in Seq(S))
  BY <1>2
<1>4. /\ f[k] = IF k = 1 THEN s[k] ELSE f[k - 1] \o s[k]
      /\ g[k] = IF k = 1 THEN t[k] ELSE g[k - 1] \o t[k]
  BY <1>3 DEF Flattens
<1>5. k # 1
  BY <1>3, <1>4
<1>6. k - 1 \in 1..m /\ ~ (k <= k - 1)
  BY <1>3, <1>5
<1>7. f[k - 1] = g[k - 1] /\ f[k - 1] \in Seq(S)
  <2>1. k - 1 \notin N
    <3> HIDE DEF N
    <3>1. QED
      BY <1>2, <1>6
  <2>2. QED
    BY <1>6, <2>1
<1>8. f[k - 1] \o s[k] \in Seq(S)
  BY <1>3, <1>7
<1>9. QED
  BY <1>3, <1>4, <1>5, <1>7, <1>8

(* FlattenSeq is what such a function has last.                            *)
LEMMA FlattenIs ==
    ASSUME NEW S, NEW s \in Seq(Seq(S))
    PROVE  /\ FlattenSeq(s) \in Seq(S)
           /\ s = <<>> => FlattenSeq(s) = <<>>
           /\ s # <<>> => \E f : Flattens(s, Len(s), f) /\ FlattenSeq(s) = f[Len(s)]
<1>1. CASE s = <<>>
  BY <1>1 DEF FlattenSeq
<1>2. CASE s # <<>>
  <2>1. Len(s) \in Nat /\ Len(s) >= 1
    BY <1>2
  <2> DEFINE F == CHOOSE f : Flattens(s, Len(s), f)
  <2>2. Flattens(s, Len(s), F)
    BY <2>1, FlatteningExists
  <2>3. FlattenSeq(s) = F[Len(s)]
    BY <2>1 DEF FlattenSeq, Flattens
  <2>4. F[Len(s)] \in Seq(S)
    <3> HIDE DEF F
    <3>1. QED
      BY <2>1, <2>2, FlatteningAgrees
  <2>5. QED
    BY <1>2, <2>2, <2>3, <2>4
<1>3. QED
  BY <1>1, <1>2

(* Another part at the end.                                                *)
LEMMA FlattenMore ==
    ASSUME NEW S, NEW n \in Nat, NEW s \in Seq(Seq(S)), NEW t \in Seq(Seq(S)),
           Len(s) = n, Len(t) = n + 1, \A i \in 1..n : t[i] = s[i]
    PROVE  FlattenSeq(t) = FlattenSeq(s) \o t[n + 1]
<1>1. t # <<>> /\ t[n + 1] \in Seq(S) /\ n + 1 \in 1..(n + 1)
  OBVIOUS
<1>2. PICK f : Flattens(t, n + 1, f) /\ FlattenSeq(t) = f[n + 1]
  BY <1>1, FlattenIs
<1>3. f[n + 1] = IF n + 1 = 1 THEN t[n + 1] ELSE f[n + 1 - 1] \o t[n + 1]
  BY <1>1, <1>2, FlattensAt
<1>4. CASE n = 0
  <2>1. FlattenSeq(s) = <<>>
    <3>1. s = <<>>
      BY <1>4
    <3>2. QED
      BY <3>1, FlattenIs
  <2>2. <<>> \o t[n + 1] = t[n + 1]
    BY <1>1
  <2>3. QED
    BY <1>1, <1>2, <1>3, <1>4, <2>1, <2>2
<1>5. CASE n # 0
  <2>1. s # <<>>
    BY <1>5
  <2>2. PICK g : Flattens(s, n, g) /\ FlattenSeq(s) = g[n]
    BY <2>1, FlattenIs
  <2>3. f[n] = g[n]
    <3>1. /\ n <= n + 1 /\ n + 1 \in Nat /\ n + 1 <= Len(t) /\ n \in 1..n
          /\ \A i \in 1..n : s[i] = t[i]
      BY <1>1, <1>5
    <3> DEFINE k == n + 1
    <3>2. /\ k \in Nat /\ n <= k /\ k <= Len(t) /\ Flattens(t, k, f) /\ Flattens(s, n, g)
          /\ \A i \in 1..n : s[i] = t[i]
      BY <1>2, <2>2, <3>1
    <3> HIDE DEF k
    <3>3. \A i \in 1..n : f[i] = g[i] /\ f[i] \in Seq(S)
      BY <3>2, FlatteningAgrees
    <3>4. QED
      BY <3>1, <3>3
  <2>4. n + 1 # 1 /\ n + 1 - 1 = n
    BY <1>5
  <2>5. QED
    BY <1>2, <1>3, <2>2, <2>3, <2>4
<1>6. QED
  BY <1>4, <1>5

\* How much there is of s in its first n parts, and before its part i.
Length(s, n) == Len(FlattenSeq(SubSeq(s, 1, n)))
Before(s, i) == Length(s, i - 1)

(* The parts of a sequence follow each other.                              *)
LEMMA PartNext ==
    ASSUME NEW S, NEW s \in Seq(Seq(S)), NEW i \in 1..Len(s)
    PROVE  /\ FlattenSeq(SubSeq(s, 1, i)) = FlattenSeq(SubSeq(s, 1, i - 1)) \o s[i]
           /\ Before(s, i + 1) = Before(s, i) + Len(s[i])
           /\ Before(s, i) \in Nat
<1> DEFINE t == SubSeq(s, 1, i)
           u == SubSeq(s, 1, i - 1)
<1>1. /\ t \in Seq(Seq(S)) /\ u \in Seq(Seq(S)) /\ Len(t) = i /\ Len(u) = i - 1
      /\ i \in Nat /\ i >= 1 /\ s[i] \in Seq(S)
      /\ t[i] = s[i] /\ \A k \in 1..(i - 1) : t[k] = u[k]
  <2>1. Len(s) \in Nat /\ i \in Nat /\ i >= 1 /\ i <= Len(s) /\ i - 1 \in Nat /\ s[i] \in Seq(S)
    OBVIOUS
  <2>2. t \in Seq(Seq(S)) /\ Len(t) = i /\ \A k \in 1..i : t[k] = s[k]
    BY <2>1
  <2>3. u \in Seq(Seq(S)) /\ Len(u) = i - 1 /\ \A k \in 1..(i - 1) : u[k] = s[k]
    BY <2>1
  <2> HIDE DEF t, u
  <2>4. t[i] = s[i]
    BY <2>1, <2>2
  <2>5. \A k \in 1..(i - 1) : k \in 1..i
    BY <2>1
  <2>6. \A k \in 1..(i - 1) : t[k] = u[k]
    BY <2>2, <2>3, <2>5
  <2>7. QED
    BY <2>1, <2>2, <2>3, <2>4, <2>6
<1> HIDE DEF t, u
<1>2. FlattenSeq(t) = FlattenSeq(u) \o s[i]
  <2>1. i - 1 \in Nat /\ i - 1 + 1 = i
    BY <1>1
  <2>2. FlattenSeq(t) = FlattenSeq(u) \o t[i - 1 + 1]
    BY <1>1, <2>1, FlattenMore
  <2>3. QED
    BY <1>1, <2>1, <2>2
<1>3. FlattenSeq(u) \in Seq(S)
  BY <1>1, FlattenIs
<1>4. Len(FlattenSeq(t)) = Len(FlattenSeq(u)) + Len(s[i]) /\ Len(FlattenSeq(u)) \in Nat
  BY <1>1, <1>2, <1>3
<1>5. i + 1 - 1 = i
  OBVIOUS
<1>6. Before(s, i + 1) = Len(FlattenSeq(t)) /\ Before(s, i) = Len(FlattenSeq(u))
  <2>1. Before(s, i + 1) = Length(s, i) /\ Before(s, i) = Length(s, i - 1)
    BY <1>5 DEF Before
  <2>2. QED
    BY <2>1 DEF Length, t, u
<1>7. QED
  BY <1>2, <1>4, <1>6 DEF t, u

(* The first parts are the beginning of the whole.                         *)
LEMMA PartsFirst ==
    ASSUME NEW S, NEW s \in Seq(Seq(S)), NEW i \in 0..Len(s)
    PROVE  LET whole == FlattenSeq(s)
               first == FlattenSeq(SubSeq(s, 1, i))
           IN  /\ first \in Seq(S) /\ whole \in Seq(S) /\ Len(first) <= Len(whole)
               /\ \A k \in 1..Len(first) : whole[k] = first[k]
<1> DEFINE first(j) == FlattenSeq(SubSeq(s, 1, j))
           OK(j) == /\ first(j) \in Seq(S) /\ Len(first(i)) <= Len(first(j))
                    /\ \A k \in 1..Len(first(i)) : first(j)[k] = first(i)[k]
           N == {j \in i..Len(s) : ~ OK(j)}
<1>1. SubSeq(s, 1, Len(s)) = s /\ Len(s) \in i..Len(s)
  OBVIOUS
<1>2. \A j \in i..Len(s) : first(j) \in Seq(S)
  <2>1. \A j \in i..Len(s) : SubSeq(s, 1, j) \in Seq(Seq(S))
    OBVIOUS
  <2>2. QED
    BY <2>1, FlattenIs
<1>3. OK(i)
  <2>1. i \in i..Len(s)
    OBVIOUS
  <2>2. QED
    BY <1>2, <2>1
<1>4. ASSUME N # {} PROVE FALSE
  <2>1. PICK j \in N : \A k \in N : j <= k
    <3>1. N \subseteq Nat
      OBVIOUS
    <3> HIDE DEF N
    <3>2. QED
      BY <1>4, <3>1, Least
  <2>2. j \in i..Len(s) /\ ~ OK(j) /\ j # i
    BY <1>3, <2>1
  <2>3. j - 1 \in i..Len(s) /\ ~ (j <= j - 1) /\ j \in 1..Len(s)
    BY <2>2
  <2>4. OK(j - 1)
    <3>1. j - 1 \notin N
      <4> HIDE DEF N
      <4>1. QED
        BY <2>1, <2>3
    <3>2. QED
      BY <2>3, <3>1
  <2>5. first(j) = first(j - 1) \o s[j] /\ s[j] \in Seq(S)
    <3>1. s[j] \in Seq(S)
      BY <2>3
    <3>2. QED
      BY <2>3, <3>1, PartNext, Zenon
  <2> DEFINE a == first(i)
             b == first(j - 1)
             c == first(j)
  <2>6. /\ a \in Seq(S) /\ b \in Seq(S) /\ c = b \o s[j] /\ Len(a) <= Len(b)
        /\ \A k \in 1..Len(a) : b[k] = a[k]
    BY <1>3, <2>4, <2>5
  <2>7. c \in Seq(S) /\ Len(a) <= Len(c) /\ \A k \in 1..Len(a) : c[k] = a[k]
    <3> HIDE DEF a, b, c
    <3>1. QED
      BY <2>5, <2>6
  <2>8. QED
    BY <2>2, <2>7
<1>5. OK(Len(s))
  BY <1>1, <1>4
<1>6. QED
  BY <1>1, <1>3, <1>5

(* Where a part of a sequence lies in the whole.                           *)
LEMMA PartAt ==
    ASSUME NEW S, NEW s \in Seq(Seq(S)), NEW i \in 1..Len(s)
    PROVE  /\ Before(s, i) \in Nat /\ s[i] \in Seq(S) /\ FlattenSeq(s) \in Seq(S)
           /\ Before(s, i) + Len(s[i]) <= Len(FlattenSeq(s))
           /\ \A k \in 1..Len(s[i]) : FlattenSeq(s)[Before(s, i) + k] = s[i][k]
<1> DEFINE first == FlattenSeq(SubSeq(s, 1, i))
           head == FlattenSeq(SubSeq(s, 1, i - 1))
<1>1. i \in 0..Len(s) /\ i - 1 \in 0..Len(s) /\ s[i] \in Seq(S)
  OBVIOUS
<1>2. /\ first \in Seq(S) /\ FlattenSeq(s) \in Seq(S) /\ Len(first) <= Len(FlattenSeq(s))
      /\ \A k \in 1..Len(first) : FlattenSeq(s)[k] = first[k]
  BY <1>1, PartsFirst
<1>3. head \in Seq(S) /\ first = head \o s[i] /\ Len(head) = Before(s, i)
  BY <1>1, PartsFirst, PartNext DEF Before, Length
<1> HIDE DEF first, head
<1>4. /\ Len(first) = Len(head) + Len(s[i]) /\ Len(head) \in Nat
      /\ \A k \in 1..Len(s[i]) : /\ first[Len(head) + k] = s[i][k]
                                 /\ Len(head) + k \in 1..Len(first)
  <2> DEFINE u == s[i]
  <2>1. u \in Seq(S) /\ first = head \o u /\ head \in Seq(S)
    BY <1>1, <1>3
  <2> HIDE DEF u
  <2>2. QED
    BY <2>1 DEF u
<1>5. QED
  BY <1>1, <1>2, <1>3, <1>4

(* What comes first lies first.                                            *)
LEMMA BeforeGrows ==
    ASSUME NEW S, NEW s \in Seq(Seq(S)), NEW i \in 1..(Len(s) + 1), NEW j \in i..(Len(s) + 1)
    PROVE  Before(s, i) \in Nat /\ Before(s, j) \in Nat /\ Before(s, i) <= Before(s, j)
<1> DEFINE t == SubSeq(s, 1, j - 1)
<1>1. t \in Seq(Seq(S)) /\ i - 1 \in 0..Len(t) /\ SubSeq(t, 1, i - 1) = SubSeq(s, 1, i - 1)
  OBVIOUS
<1> HIDE DEF t
<1>2. FlattenSeq(SubSeq(t, 1, i - 1)) \in Seq(S) /\ FlattenSeq(t) \in Seq(S)
      /\ Len(FlattenSeq(SubSeq(t, 1, i - 1))) <= Len(FlattenSeq(t))
  BY <1>1, PartsFirst
<1>3. /\ Before(s, i) = Len(FlattenSeq(SubSeq(t, 1, i - 1)))
      /\ Before(s, j) = Len(FlattenSeq(t))
  BY <1>1, Zenon DEF Before, Length, t
<1>4. QED
  BY <1>2, <1>3

(* Nothing lies before the first part, and everything before the end.      *)
LEMMA BeforeEnds ==
    ASSUME NEW S, NEW s \in Seq(Seq(S))
    PROVE  Before(s, 1) = 0 /\ Before(s, Len(s) + 1) = Len(FlattenSeq(s))
<1>1. SubSeq(s, 1, 0) = <<>> /\ SubSeq(s, 1, Len(s)) = s /\ <<>> \in Seq(Seq(S))
  OBVIOUS
<1>2. FlattenSeq(<<>>) = <<>>
  BY <1>1, FlattenIs
<1>3. 1 - 1 = 0 /\ Len(s) + 1 - 1 = Len(s)
  OBVIOUS
<1>4. /\ Before(s, 1) = Len(FlattenSeq(SubSeq(s, 1, 0)))
      /\ Before(s, Len(s) + 1) = Len(FlattenSeq(SubSeq(s, 1, Len(s))))
  <2>1. Before(s, 1) = Length(s, 0) /\ Before(s, Len(s) + 1) = Length(s, Len(s))
    BY <1>3 DEF Before
  <2>2. QED
    BY <2>1 DEF Length
<1>5. Len(<<>>) = 0
  OBVIOUS
<1>6. QED
  BY <1>1, <1>2, <1>4, <1>5, Zenon

-----------------------------------------------------------------------------
(* The matching of a text.                                                 *)

\* Two texts agree as far as both go.
Agree(s, v) == \A k \in 1..Shorter(Len(s), Len(v)) : s[k] = v[k]

\* How much of v the text s goes on with after its first i symbols.
GoesOn(s, v, i) == check_begin(SubSeq(s, i + 1, Len(s)), v)

(* The shorter of two lengths.                                             *)
LEMMA ShorterIs ==
    ASSUME NEW a \in Nat, NEW b \in Nat
    PROVE  /\ Shorter(a, b) \in Nat /\ Shorter(a, b) <= a /\ Shorter(a, b) <= b
           /\ Shorter(a, b) = a \/ Shorter(a, b) = b
BY DEF Shorter

(* check_begin tells whether two texts agree, and how far.                 *)
LEMMA BeginIs ==
    ASSUME NEW s \in Seq(Symbols), NEW v \in Seq(Symbols)
    PROVE  check_begin(s, v) = IF Agree(s, v) THEN Shorter(Len(s), Len(v)) ELSE 0
BY DEF check_begin, Agree

(* The same from a place of the text on.                                   *)
LEMMA GoesOnIs ==
    ASSUME NEW s \in Seq(Symbols), NEW v \in Seq(Symbols), NEW i \in 0..Len(s),
           NEW n, n = Shorter(Len(s) - i, Len(v))
    PROVE  /\ GoesOn(s, v, i) = IF \A k \in 1..n : s[i + k] = v[k] THEN n ELSE 0
           /\ n \in Nat /\ n <= Len(s) - i /\ n <= Len(v)
<1> DEFINE t == SubSeq(s, i + 1, Len(s))
<1>1. t \in Seq(Symbols) /\ Len(t) = Len(s) - i /\ \A k \in 1..(Len(s) - i) : t[k] = s[i + k]
  OBVIOUS
<1>2. GoesOn(s, v, i) = IF \A k \in 1..n : t[k] = v[k] THEN n ELSE 0
  <2>1. GoesOn(s, v, i) = check_begin(t, v)
    BY DEF GoesOn
  <2> HIDE DEF t
  <2>2. QED
    BY <1>1, <2>1, BeginIs DEF Agree
<1>3. n \in Nat /\ n <= Len(s) - i /\ n <= Len(v)
  <2>1. Len(s) - i \in Nat /\ Len(v) \in Nat
    OBVIOUS
  <2>2. QED
    BY <2>1, ShorterIs
<1>4. \A k \in 1..n : t[k] = s[i + k]
  <2> HIDE DEF t
  <2>1. QED
    BY <1>1, <1>3
<1>5. QED
  <2> HIDE DEF t
  <2>1. (\A k \in 1..n : t[k] = v[k]) <=> (\A k \in 1..n : s[i + k] = v[k])
    BY <1>4
  <2>2. QED
    BY <1>2, <1>3, <2>1

(* Where there is room for all of v, all of it is there or nothing.        *)
LEMMA GoesOnWhole ==
    ASSUME NEW s \in Seq(Symbols), NEW v \in Seq(Symbols), NEW i \in Nat, i + Len(v) <= Len(s)
    PROVE  GoesOn(s, v, i) = IF \A k \in 1..Len(v) : s[i + k] = v[k] THEN Len(v) ELSE 0
<1>1. i \in 0..Len(s) /\ Shorter(Len(s) - i, Len(v)) = Len(v)
  BY DEF Shorter
<1>2. QED
  BY <1>1, GoesOnIs

\* The first place at which s goes on with v.
FirstAt(s, v, i) ==
    /\ i \in 0..Len(s) /\ (i = Len(s) \/ GoesOn(s, v, i) > 0)
    /\ \A k \in 0..(i - 1) : GoesOn(s, v, k) = 0

(* It is there, and check_end finds it.                                    *)
LEMMA EndIs ==
    ASSUME NEW s \in Seq(Symbols), NEW v \in Seq(Symbols)
    PROVE  /\ \E i : FirstAt(s, v, i)
           /\ \A i : FirstAt(s, v, i) => check_end(s, v) = <<i, i + GoesOn(s, v, i)>>
           /\ \A i \in 0..Len(s) : GoesOn(s, v, i) \in 0..(Len(s) - i) /\ GoesOn(s, v, i) <= Len(v)
<1>1. \A i \in 0..Len(s) : GoesOn(s, v, i) \in 0..(Len(s) - i) /\ GoesOn(s, v, i) <= Len(v)
  <2>1. SUFFICES ASSUME NEW i \in 0..Len(s)
                 PROVE  GoesOn(s, v, i) \in 0..(Len(s) - i) /\ GoesOn(s, v, i) <= Len(v)
    OBVIOUS
  <2> DEFINE n == Shorter(Len(s) - i, Len(v))
  <2>2. /\ GoesOn(s, v, i) = n \/ GoesOn(s, v, i) = 0
        /\ n \in Nat /\ n <= Len(s) - i /\ n <= Len(v)
    <3> HIDE DEF n
    <3>1. QED
      BY GoesOnIs DEF n
  <2>3. Len(s) \in Nat /\ Len(v) \in Nat
    OBVIOUS
  <2> HIDE DEF n
  <2>4. QED
    BY <2>2, <2>3
<1> DEFINE N == {i \in 0..Len(s) : i = Len(s) \/ GoesOn(s, v, i) > 0}
<1>2. PICK i \in N : \A k \in N : i <= k
  <2>1. N \subseteq Nat /\ N # {}
    OBVIOUS
  <2> HIDE DEF N
  <2>2. QED
    BY <2>1, Least
<1>3. ASSUME NEW k \in 0..(i - 1) PROVE GoesOn(s, v, k) = 0
  <2>1. k \in 0..Len(s) /\ k # Len(s) /\ ~ (i <= k)
    BY <1>2
  <2>2. k \notin N
    <3> HIDE DEF N
    <3>1. QED
      BY <1>2, <2>1
  <2>3. ~ (GoesOn(s, v, k) > 0)
    BY <2>1, <2>2
  <2>4. QED
    BY <1>1, <2>1, <2>3
<1>4. FirstAt(s, v, i)
  BY <1>2, <1>3 DEF FirstAt
<1>5. ASSUME NEW a, NEW b, FirstAt(s, v, a), FirstAt(s, v, b) PROVE a = b
  <2>1. a \in 0..Len(s) /\ b \in 0..Len(s) /\ Len(s) \in Nat
    BY <1>5 DEF FirstAt
  <2>2. GoesOn(s, v, Len(s)) = 0
    BY <1>1, <2>1
  <2>3. ~ (a < b) /\ ~ (b < a)
    BY <1>5, <2>1, <2>2 DEF FirstAt
  <2>4. QED
    BY <2>1, <2>3
<1>6. ASSUME NEW a, FirstAt(s, v, a)
      PROVE  check_end(s, v) = <<a, a + GoesOn(s, v, a)>>
  <2> DEFINE c == CHOOSE j \in 0..Len(s) :
                     /\ j = Len(s) \/ GoesOn(s, v, j) > 0
                     /\ \A k \in 0..(j - 1) : GoesOn(s, v, k) = 0
  <2>1. check_end(s, v) = <<c, c + GoesOn(s, v, c)>>
    BY DEF check_end, GoesOn
  <2>2. FirstAt(s, v, c)
    BY <1>4 DEF FirstAt
  <2> HIDE DEF c
  <2>3. c = a
    BY <1>5, <1>6, <2>2
  <2>4. QED
    BY <2>1, <2>3
<1>7. QED
  BY <1>1, <1>4, <1>6

(* A line that has come is found, whatever follows it.                     *)
LEMMA LineFound ==
    ASSUME NEW l \in Seq(Symbols), NEW v \in Seq(Symbols), Len(v) >= 1, IsLine(l, v),
           NEW b \in Seq(Symbols), Len(b) >= Len(l), \A k \in 1..Len(l) : b[k] = l[k]
    PROVE  /\ check_end(b, v) = <<Len(l) - Len(v), Len(l)>>
           /\ \A k \in 1..Len(v) : l[Len(l) - Len(v) + k] = v[k]
<1> DEFINE p == Len(l) - Len(v)
<1>1. p \in 0..Len(l) /\ Len(l) \in Nat /\ Len(b) \in Nat /\ Len(v) \in Nat /\ Len(l) = p + Len(v)
  BY DEF IsLine
<1>2. FirstAt(l, v, p) /\ GoesOn(l, v, p) = Len(v)
  <2>1. PICK i : FirstAt(l, v, i)
    BY EndIs
  <2>2. check_end(l, v) = <<i, i + GoesOn(l, v, i)>>
    BY <2>1, EndIs
  <2>3. i = p /\ i + GoesOn(l, v, i) = Len(l)
    BY <2>2 DEF IsLine
  <2>4. GoesOn(l, v, i) \in Nat
    BY <2>1, EndIs DEF FirstAt
  <2>5. GoesOn(l, v, i) = Len(v)
    BY <1>1, <2>3, <2>4
  <2>6. QED
    BY <2>1, <2>3, <2>5
<1> HIDE DEF p
<1>3. \A k \in 1..Len(v) : l[p + k] = v[k]
  <2>1. p \in Nat /\ p + Len(v) <= Len(l)
    BY <1>1
  <2>2. GoesOn(l, v, p) = IF \A k \in 1..Len(v) : l[p + k] = v[k] THEN Len(v) ELSE 0
    BY <2>1, GoesOnWhole
  <2>3. QED
    BY <1>1, <1>2, <2>2
<1>4. GoesOn(b, v, p) = Len(v)
  <2>1. p \in Nat /\ p + Len(v) <= Len(b) /\ \A k \in 1..Len(v) : b[p + k] = v[k]
    BY <1>1, <1>3
  <2>2. QED
    BY <2>1, GoesOnWhole
<1>5. ASSUME NEW k \in 0..(p - 1) PROVE GoesOn(b, v, k) = 0
  <2>1. k \in Nat /\ k + Len(v) <= Len(b) /\ k + Len(v) <= Len(l)
    BY <1>1
  <2>2. GoesOn(l, v, k) = 0
    BY <1>2 DEF FirstAt
  <2>3. /\ GoesOn(l, v, k) = IF \A j \in 1..Len(v) : l[k + j] = v[j] THEN Len(v) ELSE 0
        /\ GoesOn(b, v, k) = IF \A j \in 1..Len(v) : b[k + j] = v[j] THEN Len(v) ELSE 0
    BY <2>1, GoesOnWhole
  <2>4. PICK j \in 1..Len(v) : l[k + j] # v[j]
    BY <1>1, <2>2, <2>3
  <2>5. k + j \in 1..Len(l)
    BY <1>1, <2>1
  <2>6. b[k + j] # v[j]
    BY <2>4, <2>5
  <2>7. QED
    BY <2>3, <2>6
<1>6. FirstAt(b, v, p)
  BY <1>1, <1>4, <1>5 DEF FirstAt
<1>7. check_end(b, v) = <<p, p + Len(v)>>
  BY <1>4, <1>6, EndIs
<1>8. QED
  BY <1>1, <1>3, <1>7 DEF p

(* A line of which only a part has come is not found, and is short enough  *)
(* to wait unless its ending has begun.                                    *)
LEMMA LineAwaited ==
    ASSUME NEW l \in Seq(Symbols), NEW v \in Seq(Symbols), Len(v) >= 1, IsLine(l, v),
           NEW b \in Seq(Symbols), Len(b) < Len(l), \A k \in 1..Len(b) : b[k] = l[k]
    PROVE  LET e == check_end(b, v)
           IN  /\ e[1] \in Nat /\ e[2] \in Nat /\ e[2] - e[1] < Len(v)
               /\ e[1] = e[2] => Len(b) <= EnoughLength
<1> DEFINE p == Len(l) - Len(v)
<1>1. p \in 0..Len(l) /\ Len(l) \in Nat /\ Len(b) \in Nat /\ Len(v) \in Nat /\ Len(l) = p + Len(v)
      /\ p <= EnoughLength /\ EnoughLength \in Nat
  BY LimitsAssumption DEF IsLine
<1> HIDE DEF p
<1>2. \A k \in 1..Len(v) : l[p + k] = v[k]
  <2>1. Len(l) >= Len(l) /\ \A k \in 1..Len(l) : l[k] = l[k]
    BY <1>1
  <2>2. QED
    BY <2>1, LineFound DEF p
<1>3. ASSUME NEW i \in 0..Len(l), i < p PROVE GoesOn(l, v, i) = 0
  <2>1. PICK j : FirstAt(l, v, j)
    BY EndIs
  <2>2. j = p
    BY <2>1, EndIs DEF IsLine, p
  <2>3. QED
    BY <1>1, <1>3, <2>1, <2>2 DEF FirstAt
<1>4. PICK i : FirstAt(b, v, i)
  BY EndIs
<1>5. /\ check_end(b, v) = <<i, i + GoesOn(b, v, i)>> /\ i \in 0..Len(b)
      /\ GoesOn(b, v, i) \in 0..(Len(b) - i) /\ GoesOn(b, v, i) <= Len(v)
      /\ i = Len(b) \/ GoesOn(b, v, i) > 0
  BY <1>4, EndIs DEF FirstAt
<1>6. GoesOn(b, v, i) # Len(v)
  <2>1. SUFFICES ASSUME GoesOn(b, v, i) = Len(v) PROVE FALSE
    OBVIOUS
  <2>2. i + Len(v) <= Len(b)
    BY <1>1, <1>5, <2>1
  <2>3. i \in Nat /\ i + Len(v) <= Len(l) /\ i \in 0..Len(l) /\ i < p
    BY <1>1, <1>5, <2>2
  <2>4. /\ GoesOn(l, v, i) = IF \A j \in 1..Len(v) : l[i + j] = v[j] THEN Len(v) ELSE 0
        /\ GoesOn(b, v, i) = IF \A j \in 1..Len(v) : b[i + j] = v[j] THEN Len(v) ELSE 0
    BY <2>2, <2>3, GoesOnWhole
  <2>5. PICK j \in 1..Len(v) : l[i + j] # v[j]
    BY <1>1, <1>3, <2>3, <2>4
  <2>6. i + j \in 1..Len(b)
    BY <1>1, <2>2, <2>3
  <2>7. b[i + j] # v[j]
    BY <2>5, <2>6
  <2>8. QED
    BY <1>1, <2>1, <2>4, <2>7
<1>7. ASSUME GoesOn(b, v, i) = 0 PROVE Len(b) <= EnoughLength
  <2>1. SUFFICES ASSUME Len(b) > p PROVE FALSE
    BY <1>1
  <2>2. i = Len(b) /\ p \in 0..(i - 1) /\ p \in 0..Len(b)
    BY <1>1, <1>5, <1>7, <2>1
  <2>3. GoesOn(b, v, p) = 0
    BY <1>4, <2>2 DEF FirstAt
  <2>4. Shorter(Len(b) - p, Len(v)) = Len(b) - p
    BY <1>1, <2>1 DEF Shorter
  <2>5. \A k \in 1..(Len(b) - p) : b[p + k] = v[k]
    BY <1>1, <1>2, <2>1
  <2>6. GoesOn(b, v, p) = Len(b) - p
    BY <2>2, <2>4, <2>5, GoesOnIs
  <2>7. QED
    BY <1>1, <2>1, <2>3, <2>6
<1>8. QED
  BY <1>1, <1>5, <1>6, <1>7

-----------------------------------------------------------------------------
(* Words of two and of three symbols.                                      *)
LEMMA TwoSymbols ==
    ASSUME NEW S, NEW a \in S, NEW b \in S, NEW w, w = <<a, b>>
    PROVE  w \in Seq(S) /\ Len(w) = 2 /\ w[1] = a /\ w[2] = b
OBVIOUS

(* Texts of three symbols.                                                 *)
LEMMA ThreeSymbols ==
    ASSUME NEW S, NEW a \in S, NEW b \in S, NEW c \in S, NEW w, w = <<a, b, c>>
    PROVE  w \in Seq(S) /\ Len(w) = 3 /\ w[1] = a /\ w[2] = b /\ w[3] = c
OBVIOUS

(* The methods: two of them differ in one of their first two symbols.      *)
LEMMA MethodsAre ==
    /\ DOMAIN Methods = {"post", "get", "put", "del", "options"}
    /\ \A t \in DOMAIN Methods :
          Methods[t] \in Seq(Symbols) /\ Len(Methods[t]) \in Nat /\ Len(Methods[t]) >= 2
    /\ \A t, u \in DOMAIN Methods :
          t # u => \E k \in 1..2 : Methods[t][k] # Methods[u][k]
<1>1. DOMAIN Methods = {"post", "get", "put", "del", "options"}
  BY DEF Methods
<1>2. /\ Methods["post"] = <<"P", "O", " ">> /\ Methods["get"] = <<"G", " ">>
      /\ Methods["put"] = <<"P", "U", " ">> /\ Methods["del"] = <<"D", " ">>
      /\ Methods["options"] = <<"O", " ">>
  BY DEF Methods
<1>3. /\ "P" \in Symbols /\ "O" \in Symbols /\ "U" \in Symbols /\ "G" \in Symbols
      /\ "D" \in Symbols /\ " " \in Symbols
  BY SymbolsAssumption
<1> DEFINE Three(w, x, y) == w \in Seq(Symbols) /\ Len(w) = 3 /\ w[1] = x /\ w[2] = y
           Two(w, x) == w \in Seq(Symbols) /\ Len(w) = 2 /\ w[1] = x
<1>4. Three(Methods["post"], "P", "O") /\ Three(Methods["put"], "P", "U")
  <2>1. ASSUME NEW w, NEW x \in Symbols, NEW y \in Symbols, NEW z \in Symbols, w = <<x, y, z>>
        PROVE  Three(w, x, y)
    BY <2>1, ThreeSymbols, Zenon
  <2> HIDE DEF Three
  <2>2. QED
    BY <1>2, <1>3, <2>1, Zenon
<1>5. Two(Methods["get"], "G") /\ Two(Methods["del"], "D") /\ Two(Methods["options"], "O")
  <2>1. ASSUME NEW w, NEW x \in Symbols, NEW y \in Symbols, w = <<x, y>>
        PROVE  Two(w, x)
    BY <2>1, TwoSymbols, Zenon
  <2> HIDE DEF Two
  <2>2. QED
    BY <1>2, <1>3, <2>1, Zenon
<1>6. ASSUME NEW t \in DOMAIN Methods
      PROVE  Methods[t] \in Seq(Symbols) /\ Len(Methods[t]) \in Nat /\ Len(Methods[t]) >= 2
  <2>1. Methods[t] \in Seq(Symbols)
    BY <1>1, <1>4, <1>5
  <2>2. Len(Methods[t]) = 3 \/ Len(Methods[t]) = 2
    BY <1>1, <1>4, <1>5
  <2>3. QED
    BY <2>1, <2>2
<1>7. ASSUME NEW t \in DOMAIN Methods, NEW u \in DOMAIN Methods, t # u
      PROVE  \E k \in 1..2 : Methods[t][k] # Methods[u][k]
  <2>1. CASE t \in {"post", "put"} /\ u \in {"post", "put"}
    <3>1. Methods[t][2] # Methods[u][2]
      BY <1>4, <1>7, <2>1
    <3>2. QED
      BY <3>1
  <2>2. CASE ~ (t \in {"post", "put"} /\ u \in {"post", "put"})
    <3>1. Methods[t][1] # Methods[u][1]
      BY <1>1, <1>4, <1>5, <1>7, <2>2
    <3>2. QED
      BY <3>1
  <2>3. QED
    BY <2>1, <2>2
<1>8. QED
  BY <1>1, <1>6, <1>7

(* A method that two symbols of a text agree with is the only one.         *)
LEMMA MethodIsOne ==
    ASSUME NEW b, NEW t \in DOMAIN Methods, NEW u \in DOMAIN Methods,
           \A k \in 1..2 : b[k] = Methods[t][k], \A k \in 1..2 : b[k] = Methods[u][k]
    PROVE  t = u
BY MethodsAre

(* Which methods a text begins like.                                       *)
LEMMA BegunIs ==
    ASSUME NEW b \in Seq(Symbols), Len(b) >= 1
    PROVE  /\ BeginsLike(b) = {t \in DOMAIN Methods : Agree(b, Methods[t])}
           /\ BeginsLike(b) = {} => Begun(b) = 0
           /\ BeginsLike(b) # {} => \E t \in DOMAIN Methods :
                Agree(b, Methods[t]) /\ Begun(b) = Shorter(Len(b), Len(Methods[t]))
           /\ \A t \in DOMAIN Methods : Shorter(Len(b), Len(Methods[t])) >= 1
<1>1. ASSUME NEW t \in DOMAIN Methods PROVE Shorter(Len(b), Len(Methods[t])) >= 1
  <2>1. Len(b) \in Nat /\ Len(b) >= 1
    OBVIOUS
  <2>2. Len(Methods[t]) \in Nat /\ Len(Methods[t]) >= 1
    BY MethodsAre
  <2>3. QED
    BY <2>1, <2>2 DEF Shorter
<1>2. \A t \in DOMAIN Methods :
         check_begin(b, Methods[t]) =
             IF Agree(b, Methods[t]) THEN Shorter(Len(b), Len(Methods[t])) ELSE 0
  BY MethodsAre, BeginIs
<1>3. BeginsLike(b) = {t \in DOMAIN Methods : Agree(b, Methods[t])}
  <2>1. ASSUME NEW t \in DOMAIN Methods
        PROVE  check_begin(b, Methods[t]) > 0 <=> Agree(b, Methods[t])
    <3>1. /\ Shorter(Len(b), Len(Methods[t])) \in Nat
          /\ Shorter(Len(b), Len(Methods[t])) >= 1
      <4>1. Len(b) \in Nat /\ Len(Methods[t]) \in Nat
        BY MethodsAre
      <4>2. QED
        BY <1>1, <4>1, ShorterIs
    <3>2. QED
      BY <1>2, <3>1
  <2>2. QED
    BY <2>1 DEF BeginsLike
<1>4. ASSUME BeginsLike(b) # {}
      PROVE  \E t \in DOMAIN Methods :
                Agree(b, Methods[t]) /\ Begun(b) = Shorter(Len(b), Len(Methods[t]))
  <2> DEFINE u == CHOOSE t \in BeginsLike(b) : TRUE
  <2>1. u \in BeginsLike(b) /\ Begun(b) = check_begin(b, Methods[u])
    BY <1>4 DEF Begun
  <2> HIDE DEF u
  <2>2. u \in DOMAIN Methods /\ Agree(b, Methods[u])
    BY <1>3, <2>1
  <2>3. QED
    BY <1>2, <2>1, <2>2
<1>5. QED
  BY <1>1, <1>3, <1>4 DEF Begun

(* A text that begins with a method, or is the beginning of it, begins     *)
(* like that method as far as it goes, and names it when all of it is      *)
(* there.                                                                  *)
LEMMA BegunAs ==
    ASSUME NEW b \in Seq(Symbols), Len(b) >= 1, NEW t \in DOMAIN Methods, Agree(b, Methods[t])
    PROVE  /\ Begun(b) = Shorter(Len(b), Len(Methods[t])) /\ Begun(b) >= 1
           /\ {m \in DOMAIN Methods : Methods[m] = SubSeq(b, 1, Begun(b))} =
                IF Len(b) >= Len(Methods[t]) THEN {t} ELSE {}
<1>1. /\ t \in BeginsLike(b) /\ Methods[t] \in Seq(Symbols)
      /\ Len(Methods[t]) \in Nat /\ Len(Methods[t]) >= 2 /\ Len(b) \in Nat
  BY BegunIs, MethodsAre
<1>2. PICK u \in DOMAIN Methods :
           Agree(b, Methods[u]) /\ Begun(b) = Shorter(Len(b), Len(Methods[u]))
  BY <1>1, BegunIs
<1>3. /\ Len(Methods[u]) \in Nat /\ Len(Methods[u]) >= 2
      /\ Len(Methods[t]) \in Nat /\ Len(Methods[t]) >= 2
  BY MethodsAre
<1>4. ASSUME NEW m \in DOMAIN Methods, Agree(b, Methods[m]), Len(b) >= 2 PROVE m = t
  <2>1. Len(Methods[m]) \in Nat /\ Len(Methods[m]) >= 2 /\ Len(Methods[t]) \in Nat
        /\ Len(Methods[t]) >= 2
    BY MethodsAre
  <2>2. 2 <= Shorter(Len(b), Len(Methods[m])) /\ 2 <= Shorter(Len(b), Len(Methods[t]))
    BY <1>1, <1>4, <2>1 DEF Shorter
  <2>3. ASSUME NEW k \in 1..2 PROVE b[k] = Methods[m][k] /\ b[k] = Methods[t][k]
    <3>1. Shorter(Len(b), Len(Methods[m])) \in Nat /\ Shorter(Len(b), Len(Methods[t])) \in Nat
      BY <1>1, <2>1, ShorterIs
    <3>2. k \in 1..Shorter(Len(b), Len(Methods[m])) /\ k \in 1..Shorter(Len(b), Len(Methods[t]))
      BY <2>2, <3>1
    <3>3. QED
      BY <1>4, <3>2 DEF Agree
  <2>4. QED
    BY <2>3, MethodIsOne
<1>5. Begun(b) = Shorter(Len(b), Len(Methods[t])) /\ Begun(b) >= 1
  <2>1. CASE Len(b) >= 2
    BY <1>2, <1>4, <2>1, BegunIs
  <2>2. CASE Len(b) < 2
    BY <1>1, <1>2, <1>3, <2>2 DEF Shorter
  <2>3. QED
    BY <1>1, <2>1, <2>2
<1> DEFINE n == Begun(b)
<1>6. n \in Nat /\ n <= Len(b) /\ n >= 1
  BY <1>1, <1>3, <1>5, ShorterIs
<1>7. ASSUME NEW m \in DOMAIN Methods, Methods[m] = SubSeq(b, 1, n)
      PROVE  m = t /\ Len(b) >= Len(Methods[t])
  <2> HIDE DEF n
  <2>1. Len(Methods[m]) = n /\ \A k \in 1..n : Methods[m][k] = b[k]
    BY <1>6, <1>7
  <2>2. Len(Methods[m]) \in Nat /\ Len(Methods[m]) >= 2
    BY MethodsAre
  <2>3. n >= 2 /\ Len(b) >= 2
    BY <1>1, <1>6, <2>1, <2>2
  <2>4. Agree(b, Methods[m])
    BY <1>1, <1>6, <2>1 DEF Agree, Shorter
  <2>5. m = t
    BY <1>4, <2>3, <2>4
  <2>6. QED
    BY <1>1, <1>6, <2>1, <2>5
<1>8. ASSUME Len(b) >= Len(Methods[t]) PROVE Methods[t] = SubSeq(b, 1, n)
  <2>1. n = Len(Methods[t])
    BY <1>1, <1>5, <1>8 DEF Shorter
  <2>2. \A k \in 1..n : b[k] = Methods[t][k]
    BY <1>1, <1>5, <2>1 DEF Agree
  <2> DEFINE c == SubSeq(b, 1, n)
  <2>3. c \in Seq(Symbols) /\ Len(c) = n /\ \A k \in 1..n : c[k] = b[k]
    BY <1>6
  <2> HIDE DEF c, n
  <2>4. c = Methods[t]
    BY <1>1, <2>1, <2>2, <2>3
  <2>5. QED
    BY <2>4 DEF c
<1>9. QED
  BY <1>5, <1>7, <1>8

(* What begins like no method does not when it goes on.                    *)
LEMMA NeverBegun ==
    ASSUME NEW w \in Seq(Symbols), Len(w) >= 1, Begun(w) = 0,
           NEW b \in Seq(Symbols), Len(b) >= Len(w), \A k \in 1..Len(w) : b[k] = w[k]
    PROVE  Begun(b) = 0
<1>1. BeginsLike(w) = {}
  BY BegunIs
<1>2. SUFFICES ASSUME NEW t \in DOMAIN Methods, Agree(b, Methods[t]) PROVE FALSE
  BY BegunIs
<1>3. Len(Methods[t]) \in Nat /\ Len(w) \in Nat /\ Len(b) \in Nat
  BY MethodsAre
<1>4. Agree(w, Methods[t])
  BY <1>2, <1>3 DEF Agree, Shorter
<1>5. QED
  BY <1>1, <1>4, BegunIs

-----------------------------------------------------------------------------
(* Messages in the wire.                                                   *)

\* Where message i of ms begins.
From(ms, i) == Len(Wire(SubSeq(ms, 1, i - 1)))

\* A message whose header is one, good or to be refused.
IsRequest(m) ==
    /\ IsHeader(m.lines, m.type) /\ m.body \in Seq(Symbols) /\ m.good \in BOOLEAN
    /\ m.good = ~ Refused(m)
    /\ m.good => Len(m.body) = IF HasContent(m) THEN NumberOf(LengthOf(m)) ELSE 0

\* The URL that it asks for is one that is refused.
UrlBad(m) == Url(m.lines[1], m.type) \in BadUrls

(* What it is to be a beginning of a text.                                 *)
LEMMA IsPrefixIs ==
    ASSUME NEW s \in Seq(Symbols), NEW t \in Seq(Symbols), IsPrefix(s, t)
    PROVE  Len(s) <= Len(t) /\ \A k \in 1..Len(s) : s[k] = t[k]
BY DEF IsPrefix

(* The two endings.                                                        *)
LEMMA EndingsAre ==
    /\ value_request_ending \in Seq(Symbols) /\ Len(value_request_ending) = 4
    /\ value_line_ending \in Seq(Symbols) /\ Len(value_line_ending) = 2
<1>1. " " \in Symbols /\ "H" \in Symbols /\ "r" \in Symbols /\ "n" \in Symbols
  BY SymbolsAssumption
<1>2. ASSUME NEW w, NEW x \in Symbols, NEW y \in Symbols, w = <<x, y>>
      PROVE  w \in Seq(Symbols) /\ Len(w) = 2
  BY <1>2, TwoSymbols, Zenon
<1>3. ASSUME NEW S, NEW w, NEW a \in S, NEW b \in S, NEW c \in S, NEW d \in S, w = <<a, b, c, d>>
      PROVE  w \in Seq(S) /\ Len(w) = 4
  BY <1>3
<1>4. value_line_ending \in Seq(Symbols) /\ Len(value_line_ending) = 2
  BY <1>1, <1>2, Zenon DEF value_line_ending
<1>5. value_request_ending \in Seq(Symbols) /\ Len(value_request_ending) = 4
  BY <1>1, <1>3, Zenon DEF value_request_ending
<1>6. QED
  BY <1>4, <1>5

(* A message whose header is one: where its lines and its content lie.     *)
LEMMA RequestIs ==
    ASSUME NEW m, IsRequest(m)
    PROVE  LET L == Len(m.lines)
               F == FlattenSeq(m.lines)
           IN  /\ m.lines \in Seq(Seq(Symbols)) /\ L \in Nat /\ L >= 2
               /\ m.type \in DOMAIN Methods
               /\ F \in Seq(Symbols) /\ Text(m) = F \o m.body /\ Text(m) \in Seq(Symbols)
               /\ Len(Text(m)) = Len(F) + Len(m.body)
               /\ \A k \in 1..Len(m.body) : Text(m)[Len(F) + k] = m.body[k]
               /\ Before(m.lines, 1) = 0 /\ Before(m.lines, L + 1) = Len(F)
               /\ \A j \in 1..L :
                     /\ m.lines[j] \in Seq(Symbols)
                     /\ Before(m.lines, j) \in Nat
                     /\ Before(m.lines, j + 1) = Before(m.lines, j) + Len(m.lines[j])
                     /\ Before(m.lines, j + 1) <= Len(F)
                     /\ \A k \in 1..Len(m.lines[j]) :
                           Text(m)[Before(m.lines, j) + k] = m.lines[j][k]
<1> DEFINE lines == m.lines
           body == m.body
           L == Len(lines)
           F == FlattenSeq(lines)
<1>1. lines \in Seq(Seq(Symbols)) /\ L \in Nat /\ L >= 2 /\ body \in Seq(Symbols)
      /\ m.type \in DOMAIN Methods
  BY DEF IsRequest, IsHeader
<1>2. F \in Seq(Symbols) /\ Before(lines, 1) = 0 /\ Before(lines, L + 1) = Len(F)
  BY <1>1, FlattenIs, BeforeEnds
<1>3. Text(m) = F \o body
  BY DEF Text
<1> HIDE DEF lines, body, F
<1>4. /\ Text(m) \in Seq(Symbols) /\ Len(Text(m)) = Len(F) + Len(body)
      /\ \A k \in 1..Len(body) : Text(m)[Len(F) + k] = body[k]
      /\ \A k \in 1..Len(F) : Text(m)[k] = F[k]
  BY <1>1, <1>2, <1>3
<1>5. ASSUME NEW j \in 1..L
      PROVE  /\ lines[j] \in Seq(Symbols) /\ Before(lines, j) \in Nat
             /\ Before(lines, j + 1) = Before(lines, j) + Len(lines[j])
             /\ Before(lines, j + 1) <= Len(F)
             /\ \A k \in 1..Len(lines[j]) : Text(m)[Before(lines, j) + k] = lines[j][k]
  <2>1. /\ Before(lines, j) \in Nat /\ lines[j] \in Seq(Symbols)
        /\ Before(lines, j) + Len(lines[j]) <= Len(F)
        /\ \A k \in 1..Len(lines[j]) : F[Before(lines, j) + k] = lines[j][k]
    BY <1>1, PartAt DEF F
  <2>2. Before(lines, j + 1) = Before(lines, j) + Len(lines[j])
    BY <1>1, PartNext
  <2>3. \A k \in 1..Len(lines[j]) : Before(lines, j) + k \in 1..Len(F)
    BY <1>2, <2>1
  <2>4. QED
    BY <1>4, <2>1, <2>2, <2>3
<1>6. QED
  BY <1>1, <1>2, <1>3, <1>4, <1>5 DEF lines, body, F

(* It begins with its method, and has something in it.                     *)
LEMMA RequestBegins ==
    ASSUME NEW m, IsRequest(m)
    PROVE  /\ m.lines[1] \in Seq(Symbols) /\ Len(m.lines[1]) >= 4
           /\ IsLine(m.lines[1], value_request_ending)
           /\ Len(Methods[m.type]) <= Len(m.lines[1])
           /\ \A k \in 1..Len(Methods[m.type]) : m.lines[1][k] = Methods[m.type][k]
           /\ Len(Text(m)) >= 4
<1> DEFINE l == m.lines[1]
<1>0. 1 \in 1..Len(m.lines) /\ m.body \in Seq(Symbols) /\ 1 + 1 = 2
  <2>1. Len(m.lines) \in Nat /\ Len(m.lines) >= 2
    BY RequestIs
  <2>2. QED
    BY <2>1 DEF IsRequest
<1>1. /\ l \in Seq(Symbols) /\ Before(m.lines, 1) = 0 /\ m.type \in DOMAIN Methods
      /\ Before(m.lines, 2) = Before(m.lines, 1) + Len(l)
      /\ Before(m.lines, 2) <= Len(FlattenSeq(m.lines))
      /\ Len(Text(m)) = Len(FlattenSeq(m.lines)) + Len(m.body)
      /\ FlattenSeq(m.lines) \in Seq(Symbols)
  <2>1. \A j \in 1..Len(m.lines) :
           /\ m.lines[j] \in Seq(Symbols)
           /\ Before(m.lines, j + 1) = Before(m.lines, j) + Len(m.lines[j])
           /\ Before(m.lines, j + 1) <= Len(FlattenSeq(m.lines))
    BY RequestIs
  <2>2. /\ l \in Seq(Symbols) /\ Before(m.lines, 1 + 1) = Before(m.lines, 1) + Len(l)
        /\ Before(m.lines, 1 + 1) <= Len(FlattenSeq(m.lines))
    BY <1>0, <2>1
  <2>3. /\ Before(m.lines, 1) = 0 /\ m.type \in DOMAIN Methods
        /\ Len(Text(m)) = Len(FlattenSeq(m.lines)) + Len(m.body)
        /\ FlattenSeq(m.lines) \in Seq(Symbols)
    BY RequestIs
  <2>4. QED
    BY <1>0, <2>2, <2>3
<1>2. IsLine(l, value_request_ending) /\ IsPrefix(Methods[m.type], l)
  BY DEF IsRequest, IsHeader
<1>3. Methods[m.type] \in Seq(Symbols)
  BY <1>1, MethodsAre
<1>4. Len(l) \in Nat /\ Len(m.body) \in Nat /\ Len(FlattenSeq(m.lines)) \in Nat
  <2> HIDE DEF l
  <2>1. QED
    BY <1>0, <1>1
<1> HIDE DEF l
<1>5. Len(l) >= 4
  BY <1>2, EndingsAre DEF IsLine
<1>6. Len(Methods[m.type]) <= Len(l) /\ \A k \in 1..Len(Methods[m.type]) : Methods[m.type][k] = l[k]
  BY <1>1, <1>2, <1>3, IsPrefixIs
<1>7. Len(Text(m)) >= 4
  <2> DEFINE a == Len(FlattenSeq(m.lines))
             b == Len(m.body)
  <2>1. a \in Nat /\ b \in Nat /\ a >= 4 /\ Len(Text(m)) = a + b
    BY <1>1, <1>4, <1>5
  <2> HIDE DEF a, b
  <2>2. QED
    BY <2>1
<1>8. QED
  BY <1>1, <1>2, <1>5, <1>6, <1>7 DEF l

(* Its first line lies first.                                              *)
LEMMA RequestFirst ==
    ASSUME NEW m, IsRequest(m), NEW l, l = m.lines[1]
    PROVE  /\ l \in Seq(Symbols) /\ Len(l) \in Nat /\ Len(l) >= 4 /\ Len(l) <= Len(Text(m))
           /\ \A k \in 1..Len(l) : Text(m)[0 + k] = l[k]
           /\ Before(m.lines, 2) = Len(l)
           /\ 2 \in 2..(Len(m.lines) + 1) /\ ~ (2 > Len(m.lines))
<1>1. 1 \in 1..Len(m.lines) /\ Len(m.lines) \in Nat /\ Len(m.lines) >= 2 /\ 1 + 1 = 2
  <2>1. Len(m.lines) \in Nat /\ Len(m.lines) >= 2
    BY RequestIs
  <2>2. QED
    BY <2>1
<1>2. l \in Seq(Symbols) /\ Len(l) >= 4
  BY RequestBegins
<1>3. /\ Before(m.lines, 1 + 1) = Before(m.lines, 1) + Len(l)
      /\ Before(m.lines, 1 + 1) <= Len(FlattenSeq(m.lines))
      /\ \A k \in 1..Len(l) : Text(m)[Before(m.lines, 1) + k] = l[k]
  <2>1. \A j \in 1..Len(m.lines) :
           /\ Before(m.lines, j + 1) = Before(m.lines, j) + Len(m.lines[j])
           /\ Before(m.lines, j + 1) <= Len(FlattenSeq(m.lines))
           /\ \A k \in 1..Len(m.lines[j]) : Text(m)[Before(m.lines, j) + k] = m.lines[j][k]
    BY RequestIs
  <2>2. QED
    BY <1>1, <2>1
<1>4. /\ Before(m.lines, 1) = 0 /\ Len(Text(m)) = Len(FlattenSeq(m.lines)) + Len(m.body)
      /\ FlattenSeq(m.lines) \in Seq(Symbols) /\ m.body \in Seq(Symbols)
  BY RequestIs DEF IsRequest
<1> DEFINE y == m.body
           F == FlattenSeq(m.lines)
<1>5. Len(y) \in Nat /\ Len(F) \in Nat /\ Len(l) \in Nat
  <2>1. y \in Seq(Symbols) /\ F \in Seq(Symbols)
    BY <1>4
  <2> HIDE DEF y, F
  <2>2. QED
    BY <1>2, <2>1
<1>6. Len(Text(m)) = Len(F) + Len(y) /\ Before(m.lines, 2) <= Len(F)
      /\ Before(m.lines, 2) = 0 + Len(l)
  BY <1>1, <1>3, <1>4
<1> HIDE DEF y, F
<1>7. Len(l) <= Len(Text(m)) /\ Before(m.lines, 2) = Len(l)
  BY <1>5, <1>6
<1>8. \A k \in 1..Len(l) : Text(m)[0 + k] = l[k]
  BY <1>3, <1>4
<1>9. 2 \in 2..(Len(m.lines) + 1) /\ ~ (2 > Len(m.lines))
  BY <1>1
<1>10. QED
  BY <1>2, <1>5, <1>7, <1>8, <1>9

(* A message is of that kind, or begins like no method.                    *)
LEMMA MessageIs ==
    ASSUME NEW m, IsMessage(m)
    PROVE  /\ Text(m) \in Seq(Symbols) /\ Len(Text(m)) >= 1 /\ m.good \in BOOLEAN
           /\ m.body \in Seq(Symbols)
           /\ IsRequest(m) \/ (~ m.good /\ Begun(Text(m)) = 0)
<1>1. m.lines \in Seq(Seq(Symbols)) /\ m.body \in Seq(Symbols) /\ m.good \in BOOLEAN
  BY DEF IsMessage
<1>2. Text(m) \in Seq(Symbols)
  <2>1. FlattenSeq(m.lines) \in Seq(Symbols)
    BY <1>1, FlattenIs
  <2>2. QED
    BY <1>1, <2>1 DEF Text
<1>3. IsRequest(m) \/ (~ m.good /\ Text(m) # <<>> /\ Begun(Text(m)) = 0)
  BY <1>1 DEF IsMessage, IsRequest
<1>4. Len(Text(m)) >= 1
  <2>1. CASE IsRequest(m)
    <3>1. Len(Text(m)) \in Nat /\ Len(Text(m)) >= 4
      BY <1>2, <2>1, RequestBegins
    <3>2. QED
      BY <3>1
  <2>2. CASE Text(m) # <<>>
    BY <1>2, <2>2
  <2>3. QED
    BY <1>3, <2>1, <2>2
<1>5. QED
  BY <1>1, <1>2, <1>3, <1>4

(* The messages follow each other in the wire.                             *)
LEMMA WireIs ==
    ASSUME NEW ms \in Scripts
    PROVE  /\ Len(ms) \in Nat /\ DOMAIN ms = 1..Len(ms) /\ Wire(ms) \in Seq(Symbols)
           /\ From(ms, 1) = 0 /\ From(ms, Len(ms) + 1) = Len(Wire(ms))
           /\ \A i \in 1..Len(ms) :
                 /\ IsMessage(ms[i])
                 /\ From(ms, i + 1) = From(ms, i) + Len(Text(ms[i]))
                 /\ \A k \in 1..Len(Text(ms[i])) : Wire(ms)[From(ms, i) + k] = Text(ms[i])[k]
           /\ \A i \in 1..(Len(ms) + 1) :
                 From(ms, i) \in Nat /\ \A j \in i..(Len(ms) + 1) : From(ms, i) <= From(ms, j)
<1> DEFINE T == [i \in DOMAIN ms |-> Text(ms[i])]
<1>1. ms \in Seq(Range(ms)) /\ \A i \in DOMAIN ms : IsMessage(ms[i])
  BY ScriptsAssumption
<1>2. Len(ms) \in Nat /\ DOMAIN ms = 1..Len(ms)
  BY <1>1
<1>3. /\ T \in Seq(Seq(Symbols)) /\ Len(T) = Len(ms) /\ \A i \in 1..Len(ms) : T[i] = Text(ms[i])
  BY <1>1, <1>2, MessageIs
<1>4. Wire(ms) = FlattenSeq(T)
  BY DEF Wire
<1>5. ASSUME NEW i \in 1..(Len(ms) + 1) PROVE From(ms, i) = Before(T, i)
  <2> DEFINE u == SubSeq(ms, 1, i - 1)
             t == [k \in DOMAIN u |-> Text(u[k])]
  <2>1. i \in Nat /\ i - 1 \in Nat /\ i - 1 <= Len(ms)
    BY <1>2
  <2>2. DOMAIN u = 1..(i - 1) /\ \A k \in 1..(i - 1) : u[k] = ms[k]
    BY <1>1, <2>1
  <2>3. t = SubSeq(T, 1, i - 1)
    <3>1. t = [k \in 1..(i - 1) |-> Text(ms[k])]
      BY <2>2
    <3>2. SubSeq(T, 1, i - 1) = [k \in 1..(i - 1) |-> T[k]]
      <4> HIDE DEF T
      <4>1. QED
        BY <1>3, <2>1
    <3>3. \A k \in 1..(i - 1) : T[k] = Text(ms[k])
      BY <1>3, <2>1
    <3>4. QED
      BY <3>1, <3>2, <3>3
  <2>4. From(ms, i) = Len(FlattenSeq(t))
    BY DEF From, Wire
  <2>5. Before(T, i) = Len(FlattenSeq(SubSeq(T, 1, i - 1)))
    BY DEF Before, Length
  <2> HIDE DEF T, t, u
  <2>6. QED
    BY <2>3, <2>4, <2>5
<1> HIDE DEF T
<1>6. Wire(ms) \in Seq(Symbols) /\ Before(T, 1) = 0 /\ Before(T, Len(ms) + 1) = Len(Wire(ms))
  BY <1>3, <1>4, FlattenIs, BeforeEnds
<1>7. 1 \in 1..(Len(ms) + 1) /\ Len(ms) + 1 \in 1..(Len(ms) + 1)
  BY <1>2
<1>8. ASSUME NEW i \in 1..Len(ms)
      PROVE  /\ From(ms, i + 1) = From(ms, i) + Len(Text(ms[i]))
             /\ \A k \in 1..Len(Text(ms[i])) : Wire(ms)[From(ms, i) + k] = Text(ms[i])[k]
  <2>1. i \in 1..(Len(ms) + 1) /\ i + 1 \in 1..(Len(ms) + 1) /\ i \in 1..Len(T) /\ T[i] = Text(ms[i])
    BY <1>2, <1>3
  <2>2. Before(T, i + 1) = Before(T, i) + Len(T[i])
    BY <1>3, <2>1, PartNext
  <2>3. \A k \in 1..Len(T[i]) : FlattenSeq(T)[Before(T, i) + k] = T[i][k]
    BY <1>3, <2>1, PartAt
  <2>4. QED
    BY <1>4, <1>5, <2>1, <2>2, <2>3
<1>9. ASSUME NEW i \in 1..(Len(ms) + 1)
      PROVE  From(ms, i) \in Nat /\ \A j \in i..(Len(ms) + 1) : From(ms, i) <= From(ms, j)
  <2>1. \A j \in i..(Len(T) + 1) : Before(T, i) \in Nat /\ Before(T, i) <= Before(T, j)
    BY <1>3, BeforeGrows
  <2>2. i \in i..(Len(ms) + 1) /\ \A j \in i..(Len(ms) + 1) : j \in 1..(Len(ms) + 1)
    BY <1>2
  <2>3. QED
    BY <1>3, <1>5, <2>1, <2>2
<1>10. QED
  BY <1>1, <1>2, <1>5, <1>6, <1>7, <1>8, <1>9

-----------------------------------------------------------------------------
(* The steps of the scan.                                                  *)

Statuses == [status : {"clean", "request", "properties", "done"}, type : DOMAIN Methods,
             scanned : Nat, length : Symbols \cup {"none", ""}]
Scans    == [ss : Statuses, rest : Seq(Symbols), long : BOOLEAN, code : {"attempt", "error"}]
Packets  == [type : {"get", "del", "post", "put"}, body : Seq(Symbols)]

(* How the two parts of what check_end returns lie.                        *)
LEMMA CheckEndIs ==
    ASSUME NEW s \in Seq(Symbols), NEW v \in Seq(Symbols)
    PROVE  LET e == check_end(s, v)
           IN  e[1] \in Nat /\ e[2] \in Nat /\ e[1] <= e[2] /\ e[2] <= Len(s)
<1>1. PICK i : FirstAt(s, v, i)
  BY EndIs
<1>2. i \in 0..Len(s) /\ GoesOn(s, v, i) \in 0..(Len(s) - i) /\ Len(s) \in Nat
  BY <1>1, EndIs DEF FirstAt
<1>3. check_end(s, v) = <<i, i + GoesOn(s, v, i)>>
  BY <1>1, EndIs
<1>4. QED
  BY <1>2, <1>3

(* What reading a line does to a scan.                                     *)
LEMMA ReadIs ==
    ASSUME NEW sc \in Scans, NEW ss \in Statuses, NEW n \in Nat, n <= Len(sc.rest),
           NEW r, r = Read(sc, n, ss)
    PROVE  /\ r \in Scans /\ r.code = sc.code /\ ~ r.long
           /\ r.rest = SubSeq(sc.rest, n + 1, Len(sc.rest))
           /\ r.ss.status = ss.status /\ r.ss.type = ss.type
           /\ r.ss.scanned = ss.scanned + n /\ r.ss.length = ss.length
<1> DEFINE z == ss.scanned + n
           b == SubSeq(sc.rest, n + 1, Len(sc.rest))
           st == [status |-> ss.status, type |-> ss.type, scanned |-> z, length |-> ss.length]
<1>1. /\ sc = [ss |-> sc.ss, rest |-> sc.rest, long |-> sc.long, code |-> sc.code]
      /\ sc.rest \in Seq(Symbols) /\ sc.code \in {"attempt", "error"}
  BY DEF Scans
<1>2. /\ ss = [status |-> ss.status, type |-> ss.type, scanned |-> ss.scanned,
               length |-> ss.length]
      /\ ss.scanned \in Nat
  BY DEF Statuses
<1>3. z \in Nat
  BY <1>2
<1>4. b \in Seq(Symbols)
  BY <1>1
<1>5. r = [sc EXCEPT !.ss = [ss EXCEPT !.scanned = z], !.rest = b, !.long = FALSE]
  BY DEF Read
<1> HIDE DEF z, b
<1>6. [ss EXCEPT !.scanned = z] = st
  BY <1>2
<1>7. st \in Statuses
  BY <1>3 DEF Statuses
<1> HIDE DEF st
<1>8. r = [ss |-> st, rest |-> b, long |-> FALSE, code |-> sc.code]
  BY <1>1, <1>5, <1>6
<1>9. r \in Scans /\ r.code = sc.code /\ ~ r.long /\ r.rest = b /\ r.ss = st
  BY <1>1, <1>4, <1>7, <1>8 DEF Scans
<1>10. /\ r.ss.status = ss.status /\ r.ss.type = ss.type /\ r.ss.scanned = z
       /\ r.ss.length = ss.length
  BY <1>9 DEF st
<1>11. QED
  BY <1>9, <1>10 DEF z, b

\* The methods that a text begins with.
Named(s) == {m \in DOMAIN Methods : Methods[m] = SubSeq(s, 1, Begun(s))}

\* What is between the method and the ending of a request line.
Asked(sc) == SubSeq(sc.rest, Begun(sc.rest) + 1, check_end(sc.rest, value_request_ending)[1])

\* The ending v is nowhere in a text that is too long for it, or has not come
\* as a whole; how much a scan that finds it takes; and of two scans the later
\* is as long as the earlier, or not long.
Refuses(sc, v) == LET e == check_end(sc.rest, v) IN e[1] = e[2] /\ sc.long
Awaits(sc, v)  == LET e == check_end(sc.rest, v) IN e[2] - e[1] < Len(v)
Takes(sc, v)   == check_end(sc.rest, v)[2]
LongAs(r, sc)  == r.long => sc.long /\ r.rest = sc.rest

(* What the request line does to a scan.                                   *)
LEMMA RequestLineIs ==
    ASSUME NEW sc \in Scans, NEW r, r = RequestLine(sc)
    PROVE  LET refused == Begun(sc.rest) = 0 \/ Refuses(sc, value_request_ending)
               waits == Named(sc.rest) = {} \/ Awaits(sc, value_request_ending)
               n == Takes(sc, value_request_ending)
           IN  /\ r \in Scans /\ LongAs(r, sc)
               /\ refused => r.code = "error" /\ r.rest = sc.rest
               /\ (~ refused /\ waits) =>
                     /\ r.code = sc.code /\ r.rest = sc.rest
                     /\ r.ss.status = "request" /\ r.ss.type = sc.ss.type
                     /\ r.ss.scanned = sc.ss.scanned /\ r.ss.length = sc.ss.length
               /\ (~ refused /\ ~ waits /\ Asked(sc) \in BadUrls) =>
                     r.code = "error" /\ r.rest = sc.rest
               /\ (~ refused /\ ~ waits /\ Asked(sc) \notin BadUrls) =>
                     /\ r.code = sc.code /\ r.rest = SubSeq(sc.rest, n + 1, Len(sc.rest))
                     /\ r.ss.status = "properties" /\ r.ss.type \in Named(sc.rest)
                     /\ r.ss.scanned = sc.ss.scanned + n /\ r.ss.length = sc.ss.length
<1> DEFINE refused == Begun(sc.rest) = 0 \/ Refuses(sc, value_request_ending)
           waits == Named(sc.rest) = {} \/ Awaits(sc, value_request_ending)
           n == Takes(sc, value_request_ending)
           t == Named(sc.rest)
<1>1. /\ sc = [ss |-> sc.ss, rest |-> sc.rest, long |-> sc.long, code |-> sc.code]
      /\ sc.ss \in Statuses /\ sc.rest \in Seq(Symbols) /\ sc.code \in {"attempt", "error"}
      /\ sc.long \in BOOLEAN
  BY DEF Scans
<1>2. sc.ss = [status |-> sc.ss.status, type |-> sc.ss.type, scanned |-> sc.ss.scanned,
               length |-> sc.ss.length]
      /\ sc.ss.scanned \in Nat /\ sc.ss.length \in Symbols \cup {"none", ""}
      /\ sc.ss.type \in DOMAIN Methods
  BY <1>1 DEF Statuses
<1>3. value_request_ending \in Seq(Symbols)
  BY EndingsAre
<1>4. n \in Nat /\ n <= Len(sc.rest)
  BY <1>1, <1>3, CheckEndIs DEF Takes
<1>5. r = IF refused THEN [sc EXCEPT !.code = "error"]
          ELSE IF waits THEN [sc EXCEPT !.ss.status = "request"]
          ELSE IF Asked(sc) \in BadUrls THEN [sc EXCEPT !.code = "error"]
          ELSE Read(sc, n, [sc.ss EXCEPT !.type = CHOOSE m \in t : TRUE,
                                         !.status = "properties"])
  BY DEF RequestLine, Named, Asked, Refuses, Awaits, Takes
<1> HIDE DEF refused, waits
<1>6. ASSUME ~ refused, waits
      PROVE  /\ r.code = sc.code /\ r.rest = sc.rest /\ LongAs(r, sc)
             /\ r.ss.status = "request" /\ r.ss.type = sc.ss.type
             /\ r.ss.scanned = sc.ss.scanned /\ r.ss.length = sc.ss.length
             /\ r \in Scans
  <2>1. r = [ss |-> [sc.ss EXCEPT !.status = "request"], rest |-> sc.rest, long |-> sc.long,
             code |-> sc.code]
    BY <1>1, <1>5, <1>6
  <2> DEFINE st == [sc.ss EXCEPT !.status = "request"]
  <2>2. /\ st \in Statuses /\ st.status = "request" /\ st.type = sc.ss.type
        /\ st.scanned = sc.ss.scanned /\ st.length = sc.ss.length
    BY <1>1 DEF Statuses
  <2> HIDE DEF st
  <2>3. r \in Scans /\ r.code = sc.code /\ r.rest = sc.rest /\ r.long = sc.long /\ r.ss = st
    BY <1>1, <2>1, <2>2 DEF Scans, st
  <2>4. QED
    BY <2>2, <2>3 DEF LongAs
<1>7. ASSUME ~ refused, ~ waits, Asked(sc) \notin BadUrls
      PROVE  /\ r.code = sc.code /\ LongAs(r, sc)
             /\ r.rest = SubSeq(sc.rest, n + 1, Len(sc.rest))
             /\ r.ss.status = "properties" /\ r.ss.type \in t
             /\ r.ss.scanned = sc.ss.scanned + n /\ r.ss.length = sc.ss.length
             /\ r \in Scans
  <2> DEFINE y == CHOOSE m \in t : TRUE
             st == [sc.ss EXCEPT !.type = y, !.status = "properties"]
  <2>1. y \in DOMAIN Methods /\ y \in t
    <3>1. t # {}
      BY <1>7 DEF waits
    <3>2. QED
      BY <3>1 DEF Named
  <2>2. r = Read(sc, n, st)
    BY <1>5, <1>7
  <2> HIDE DEF y, n
  <2>3. /\ st \in Statuses /\ st.status = "properties" /\ st.type = y
        /\ st.scanned = sc.ss.scanned /\ st.length = sc.ss.length
    BY <1>1, <2>1 DEF Statuses
  <2> HIDE DEF st
  <2>4. /\ r \in Scans /\ r.code = sc.code /\ ~ r.long
        /\ r.rest = SubSeq(sc.rest, n + 1, Len(sc.rest))
        /\ r.ss.status = st.status /\ r.ss.type = st.type
        /\ r.ss.scanned = st.scanned + n /\ r.ss.length = st.length
    BY <1>4, <2>2, <2>3, ReadIs
  <2>5. QED
    BY <2>1, <2>3, <2>4 DEF LongAs
<1>8. ASSUME refused \/ (~ waits /\ Asked(sc) \in BadUrls)
      PROVE  r \in Scans /\ r.code = "error" /\ r.rest = sc.rest /\ LongAs(r, sc)
  <2>1. r \in Scans /\ r.code = "error" /\ r.rest = sc.rest /\ r.long = sc.long
    BY <1>1, <1>5, <1>8 DEF Scans
  <2>2. QED
    BY <2>1 DEF LongAs
<1>9. QED
  BY <1>6, <1>7, <1>8 DEF refused, waits

\* The next line of the properties, and the status and the length after it.
Line(sc) == SubSeq(sc.rest, 1, check_end(sc.rest, value_line_ending)[1])
StatusAfter(line, status) == IF line = <<>> THEN "done" ELSE status
LengthAfter(line, length) == IF IsLength(line) THEN Value(line) ELSE length

(* What a line of the properties does to it.                               *)
LEMMA NextLineIs ==
    ASSUME NEW sc \in Scans, NEW r, r = NextLine(sc)
    PROVE  LET refused == Refuses(sc, value_line_ending)
               waits == Awaits(sc, value_line_ending)
               n == Takes(sc, value_line_ending)
           IN  /\ r \in Scans /\ LongAs(r, sc)
               /\ refused => r.code = "error" /\ r.rest = sc.rest
               /\ (~ refused /\ waits) => r = sc
               /\ (~ refused /\ ~ waits) =>
                     /\ r.code = sc.code /\ r.rest = SubSeq(sc.rest, n + 1, Len(sc.rest))
                     /\ r.ss.status = StatusAfter(Line(sc), sc.ss.status)
                     /\ r.ss.type = sc.ss.type /\ r.ss.scanned = sc.ss.scanned + n
                     /\ r.ss.length = LengthAfter(Line(sc), sc.ss.length)
<1> DEFINE refused == Refuses(sc, value_line_ending)
           waits == Awaits(sc, value_line_ending)
           n == Takes(sc, value_line_ending)
           line == Line(sc)
<1>1. /\ sc = [ss |-> sc.ss, rest |-> sc.rest, long |-> sc.long, code |-> sc.code]
      /\ sc.ss \in Statuses /\ sc.rest \in Seq(Symbols) /\ sc.code \in {"attempt", "error"}
      /\ sc.long \in BOOLEAN
  BY DEF Scans
<1>2. sc.ss = [status |-> sc.ss.status, type |-> sc.ss.type, scanned |-> sc.ss.scanned,
               length |-> sc.ss.length]
      /\ sc.ss.scanned \in Nat /\ sc.ss.length \in Symbols \cup {"none", ""}
      /\ sc.ss.type \in DOMAIN Methods
      /\ sc.ss.status \in {"clean", "request", "properties", "done"}
  BY <1>1 DEF Statuses
<1>3. value_line_ending \in Seq(Symbols)
  BY EndingsAre
<1>4. n \in Nat /\ n <= Len(sc.rest) /\ line \in Seq(Symbols)
  <2> DEFINE e == check_end(sc.rest, value_line_ending)
  <2>1. e[1] \in Nat /\ e[2] \in Nat /\ e[1] <= e[2] /\ e[2] <= Len(sc.rest)
    BY <1>1, <1>3, CheckEndIs
  <2>2. n = e[2] /\ line = SubSeq(sc.rest, 1, e[1])
    BY DEF Takes, Line
  <2> HIDE DEF e, n, line
  <2>3. QED
    BY <1>1, <2>1, <2>2
<1>5. r = IF refused THEN [sc EXCEPT !.code = "error"]
          ELSE IF waits THEN sc
          ELSE Read(sc, n, [sc.ss EXCEPT
                               !.status = IF line = <<>> THEN "done" ELSE @,
                               !.length = IF IsLength(line) THEN Value(line) ELSE @])
  BY DEF NextLine, Refuses, Awaits, Takes, Line
<1> HIDE DEF refused, waits, n, line
<1>6. ASSUME ~ refused, ~ waits
      PROVE  /\ r.code = sc.code /\ LongAs(r, sc)
             /\ r.rest = SubSeq(sc.rest, n + 1, Len(sc.rest))
             /\ r.ss.status = StatusAfter(line, sc.ss.status)
             /\ r.ss.type = sc.ss.type /\ r.ss.scanned = sc.ss.scanned + n
             /\ r.ss.length = LengthAfter(line, sc.ss.length)
             /\ r \in Scans
  <2> DEFINE x == StatusAfter(line, sc.ss.status)
             y == LengthAfter(line, sc.ss.length)
             st == [sc.ss EXCEPT !.status = x, !.length = y]
  <2>1. x \in {"clean", "request", "properties", "done"}
    BY <1>2 DEF StatusAfter
  <2>2. y \in Symbols \cup {"none", ""}
    <3>1. IsLength(line) => Value(line) \in Symbols \cup {""}
      <4>1. line # <<>> => Len(line) \in Nat /\ Len(line) >= 1
        BY <1>4
      <4>2. Len(line) >= 2 => line[2] \in Symbols
        BY <1>4
      <4>3. \A k \in Nat : k >= 1 => k = 1 \/ k >= 2
        OBVIOUS
      <4>4. QED
        BY <4>1, <4>2, <4>3 DEF IsLength, Value
    <3>2. QED
      BY <1>2, <3>1 DEF LengthAfter
  <2>3. r = Read(sc, n, st)
    BY <1>2, <1>5, <1>6 DEF StatusAfter, LengthAfter
  <2> HIDE DEF x, y
  <2>4. /\ st \in Statuses /\ st.status = x /\ st.type = sc.ss.type
        /\ st.scanned = sc.ss.scanned /\ st.length = y
    BY <1>1, <2>1, <2>2 DEF Statuses
  <2> HIDE DEF st
  <2>5. /\ r \in Scans /\ r.code = sc.code /\ ~ r.long
        /\ r.rest = SubSeq(sc.rest, n + 1, Len(sc.rest))
        /\ r.ss.status = st.status /\ r.ss.type = st.type
        /\ r.ss.scanned = st.scanned + n /\ r.ss.length = st.length
    BY <1>4, <2>3, <2>4, ReadIs
  <2>6. QED
    BY <2>4, <2>5 DEF x, y, LongAs
<1>7. ASSUME refused
      PROVE  r \in Scans /\ r.code = "error" /\ r.rest = sc.rest /\ LongAs(r, sc)
  <2>1. r \in Scans /\ r.code = "error" /\ r.rest = sc.rest /\ r.long = sc.long
    BY <1>1, <1>5, <1>7 DEF Scans
  <2>2. QED
    BY <2>1 DEF LongAs
<1>8. ASSUME ~ refused, waits PROVE r = sc /\ LongAs(r, sc)
  BY <1>5, <1>8 DEF LongAs
<1>9. QED
  BY <1>6, <1>7, <1>8 DEF refused, waits, n, line

(* The Content-Length that one line more gives.                            *)
LEMMA LengthNext ==
    ASSUME NEW lines, NEW j \in Nat, j >= 2
    PROVE  LengthIn(lines, j) = IF IsLength(Contents(lines[j])) THEN Value(Contents(lines[j]))
                                ELSE LengthIn(lines, j - 1)
<1> DEFINE given(n) == {i \in 2..n : IsLength(Contents(lines[i]))}
<1>1. CASE IsLength(Contents(lines[j]))
  <2>1. j \in given(j) /\ \A i \in given(j) : i \in Nat /\ j >= i
    BY <1>1
  <2> HIDE DEF given
  <2>2. Max(given(j)) = j
    BY <2>1 DEF Max
  <2>3. LengthIn(lines, j) = IF given(j) = {} THEN "none" ELSE Value(Contents(lines[Max(given(j))]))
    BY DEF LengthIn, given
  <2>4. QED
    BY <1>1, <2>1, <2>2, <2>3
<1>2. CASE ~ IsLength(Contents(lines[j]))
  <2>1. given(j) = given(j - 1)
    <3>1. \A i \in 2..j : i = j \/ i \in 2..(j - 1)
      OBVIOUS
    <3>2. QED
      BY <1>2, <3>1
  <2> HIDE DEF given
  <2>2. /\ LengthIn(lines, j) =
             IF given(j) = {} THEN "none" ELSE Value(Contents(lines[Max(given(j))]))
        /\ LengthIn(lines, j - 1) =
             IF given(j - 1) = {} THEN "none" ELSE Value(Contents(lines[Max(given(j - 1))]))
    BY DEF LengthIn, given
  <2>3. QED
    BY <1>2, <2>1, <2>2
<1>3. QED
  BY <1>1, <1>2

(* The request line gives no length.                                       *)
LEMMA LengthFirst == \A lines : LengthIn(lines, 1) = "none"
<1>1. 2..1 = {}
  OBVIOUS
<1>2. QED
  BY <1>1 DEF LengthIn

\* As far as both go, the text s is that of t.
Follows(s, t) == \A k \in 1..Len(s) : k <= Len(t) => s[k] = t[k]

(* Two texts that are alike have the same parts.                           *)
LEMMA SamePart ==
    ASSUME NEW s \in Seq(Symbols), NEW t \in Seq(Symbols), NEW a \in Nat \ {0}, NEW z \in Nat,
           z <= Len(s), z <= Len(t), \A k \in 1..z : s[k] = t[k]
    PROVE  SubSeq(s, a, z) = SubSeq(t, a, z)
<1>1. \A k \in 1..(z - a + 1) : s[k + a - 1] = t[k + a - 1]
  <2>1. \A k \in 1..(z - a + 1) : k + a - 1 \in 1..z
    OBVIOUS
  <2>2. QED
    BY <2>1
<1>2. /\ SubSeq(s, a, z) = [k \in 1..(z - a + 1) |-> s[k + a - 1]]
      /\ SubSeq(t, a, z) = [k \in 1..(z - a + 1) |-> t[k + a - 1]]
  OBVIOUS
<1>3. QED
  BY <1>1, <1>2, Zenon

(* The request line is read when it has come, unless its URL is refused,   *)
(* and awaited until then.                                                 *)
LEMMA RequestLineRead ==
    ASSUME NEW sc \in Scans, sc.code = "attempt", Len(sc.rest) >= 1,
           sc.long => Len(sc.rest) > EnoughLength,
           NEW m, IsRequest(m), Follows(sc.rest, m.lines[1]),
           NEW r, r = RequestLine(sc)
    PROVE  /\ r \in Scans
           /\ (Len(sc.rest) >= Len(m.lines[1]) /\ UrlBad(m)) =>
                 r.code = "error" /\ r.rest = sc.rest
           /\ Len(sc.rest) < Len(m.lines[1]) =>
                 /\ r.code = "attempt" /\ r.ss.length = sc.ss.length
                 /\ r.rest = sc.rest /\ r.ss.status = "request"
                 /\ r.ss.scanned = sc.ss.scanned
           /\ (Len(sc.rest) >= Len(m.lines[1]) /\ ~ UrlBad(m)) =>
                 /\ r.code = "attempt" /\ r.ss.length = sc.ss.length
                 /\ r.rest = SubSeq(sc.rest, Len(m.lines[1]) + 1, Len(sc.rest))
                 /\ r.ss.status = "properties" /\ r.ss.type = m.type
                 /\ r.ss.scanned = sc.ss.scanned + Len(m.lines[1])
<1> DEFINE b == sc.rest
           l == m.lines[1]
           t == m.type
           v == value_request_ending
           e == check_end(b, v)
           n == Begun(b)
           ts == Named(b)
<1>1. b \in Seq(Symbols) /\ Len(b) \in Nat /\ Len(b) >= 1
  BY DEF Scans
<1>2. /\ l \in Seq(Symbols) /\ Len(l) \in Nat /\ Len(l) >= 4 /\ IsLine(l, v)
      /\ t \in DOMAIN Methods /\ Len(Methods[t]) <= Len(l)
      /\ \A k \in 1..Len(Methods[t]) : l[k] = Methods[t][k]
  <2>1. l \in Seq(Symbols) /\ t \in DOMAIN Methods
    BY RequestBegins, RequestIs
  <2>2. Len(l) \in Nat
    <3> HIDE DEF l
    <3>1. QED
      BY <2>1
  <2>3. QED
    BY <2>1, <2>2, RequestBegins
<1>3. v \in Seq(Symbols) /\ Len(v) = 4 /\ Len(v) >= 1
  BY EndingsAre
<1>4. Len(Methods[t]) \in Nat /\ Len(Methods[t]) >= 2
  BY <1>2, MethodsAre
<1>5. \A k \in 1..Len(b) : k <= Len(l) => b[k] = l[k]
  BY DEF Follows
<1> HIDE DEF b, l, t, v
<1>6. Agree(b, Methods[t])
  <2>1. Shorter(Len(b), Len(Methods[t])) \in Nat /\ Shorter(Len(b), Len(Methods[t])) <= Len(b)
        /\ Shorter(Len(b), Len(Methods[t])) <= Len(Methods[t])
    BY <1>1, <1>4, ShorterIs
  <2>2. \A k \in 1..Shorter(Len(b), Len(Methods[t])) :
           k \in 1..Len(b) /\ k <= Len(l) /\ k \in 1..Len(Methods[t])
    BY <1>1, <1>2, <1>4, <2>1
  <2>3. QED
    BY <1>2, <1>5, <2>2 DEF Agree
<1>7. n >= 1 /\ n = Shorter(Len(b), Len(Methods[t])) /\ n # 0
      /\ ts = IF Len(b) >= Len(Methods[t]) THEN {t} ELSE {}
  <2>1. n >= 1 /\ n = Shorter(Len(b), Len(Methods[t]))
    BY <1>1, <1>2, <1>6, BegunAs
  <2>2. ts = IF Len(b) >= Len(Methods[t]) THEN {t} ELSE {}
    BY <1>1, <1>2, <1>6, BegunAs DEF Named
  <2>3. n # 0
    BY <2>1
  <2>4. QED
    BY <2>1, <2>2, <2>3
<1> DEFINE refused == Begun(sc.rest) = 0 \/ Refuses(sc, value_request_ending)
           waits == Named(sc.rest) = {} \/ Awaits(sc, value_request_ending)
           z == Takes(sc, value_request_ending)
<1>8. /\ r \in Scans
      /\ (~ refused /\ waits) =>
            /\ r.code = sc.code /\ r.rest = sc.rest /\ r.ss.status = "request"
            /\ r.ss.scanned = sc.ss.scanned /\ r.ss.length = sc.ss.length
      /\ (~ refused /\ ~ waits /\ Asked(sc) \in BadUrls) => r.code = "error" /\ r.rest = sc.rest
      /\ (~ refused /\ ~ waits /\ Asked(sc) \notin BadUrls) =>
            /\ r.code = sc.code /\ r.rest = SubSeq(sc.rest, z + 1, Len(sc.rest))
            /\ r.ss.status = "properties" /\ r.ss.type \in Named(sc.rest)
            /\ r.ss.scanned = sc.ss.scanned + z /\ r.ss.length = sc.ss.length
  BY RequestLineIs
<1>9. n = Begun(sc.rest) /\ ts = Named(sc.rest) /\ e = check_end(sc.rest, value_request_ending)
  BY DEF b, v
<1>10. z = e[2]
  BY <1>9 DEF Takes
<1> HIDE DEF n, ts, e, z
<1>11. CASE Len(b) < Len(l)
  <2>1. \A k \in 1..Len(b) : b[k] = l[k]
    BY <1>1, <1>2, <1>5, <1>11
  <2>2. e[2] - e[1] < 4 /\ (e[1] = e[2] => Len(b) <= EnoughLength)
    BY <1>1, <1>2, <1>3, <1>11, <2>1, LineAwaited, Zenon DEF e
  <2>3. ~ (e[1] = e[2] /\ sc.long)
    BY <1>1, <2>2, LimitsAssumption DEF b
  <2>4. ~ refused /\ waits
    BY <1>3, <1>7, <1>9, <2>2, <2>3 DEF Refuses, Awaits, v
  <2>5. ~ (Len(b) >= Len(l))
    BY <1>1, <1>2, <1>11
  <2> HIDE DEF refused, waits
  <2>6. QED
    BY <1>8, <2>4, <2>5 DEF b, l
<1>12. CASE Len(b) >= Len(l)
  <2>1. \A k \in 1..Len(l) : b[k] = l[k]
    BY <1>1, <1>2, <1>5, <1>12
  <2>2. e = <<Len(l) - Len(v), Len(l)>>
    BY <1>1, <1>2, <1>3, <1>12, <2>1, LineFound DEF e
  <2>3. ts = {t}
    BY <1>1, <1>2, <1>4, <1>7, <1>12
  <2>4. e[2] = Len(l) /\ e[1] # e[2] /\ ~ (e[2] - e[1] < 4)
    BY <1>2, <1>3, <2>2
  <2>5. ~ refused /\ ~ waits
    BY <1>3, <1>7, <1>9, <2>3, <2>4 DEF Refuses, Awaits, v
  <2>6. ~ (Len(b) < Len(l))
    BY <1>1, <1>2, <1>12
  <2>7. n = Len(Methods[t]) /\ Asked(sc) = SubSeq(b, n + 1, Len(l) - 4)
    <3>1. n = Len(Methods[t])
      BY <1>1, <1>2, <1>4, <1>7, <1>12 DEF Shorter
    <3>2. Asked(sc) = SubSeq(b, n + 1, e[1])
      BY <1>9 DEF Asked, b
    <3>3. e[1] = Len(l) - 4
      BY <1>3, <2>2
    <3>4. QED
      BY <3>1, <3>2, <3>3
  <2>8. Asked(sc) \in BadUrls <=> UrlBad(m)
    <3> DEFINE a == Len(Methods[t]) + 1
               o == Len(l) - 4
    <3>1. a \in Nat \ {0} /\ o \in Nat /\ o <= Len(l) /\ o <= Len(b)
      BY <1>1, <1>2, <1>4, <1>12
    <3> HIDE DEF a, o
    <3>2. SubSeq(b, a, o) = SubSeq(l, a, o)
      <4>1. \A k \in 1..o : b[k] = l[k]
        BY <1>2, <2>1, <3>1
      <4>2. QED
        BY <1>1, <1>2, <3>1, <4>1, SamePart
    <3>3. Url(l, t) = SubSeq(l, a, o)
      BY <1>3 DEF Url, a, o, v
    <3>4. Asked(sc) = SubSeq(b, a, o)
      BY <2>7 DEF a, o
    <3>5. QED
      BY <3>2, <3>3, <3>4 DEF UrlBad, l, t
  <2> HIDE DEF refused, waits
  <2>9. CASE UrlBad(m)
    BY <1>8, <2>5, <2>6, <2>8, <2>9 DEF b, l
  <2>10. CASE ~ UrlBad(m)
    <3>1. /\ r.code = sc.code /\ r.rest = SubSeq(sc.rest, z + 1, Len(sc.rest))
          /\ r.ss.status = "properties" /\ r.ss.type \in Named(sc.rest)
          /\ r.ss.scanned = sc.ss.scanned + z /\ r.ss.length = sc.ss.length
      BY <1>8, <2>5, <2>8, <2>10
    <3>2. r.ss.type = t /\ z = Len(l)
      BY <1>9, <1>10, <2>3, <2>4, <3>1
    <3>3. QED
      BY <1>8, <2>6, <2>10, <3>1, <3>2 DEF b, l, t
  <2>11. QED
    BY <2>9, <2>10
<1>13. Len(b) < Len(l) \/ Len(b) >= Len(l)
  BY <1>1, <1>2
<1>14. QED
  BY <1>11, <1>12, <1>13

(* What begins like no method is refused, and awaited at most until it has *)
(* come.                                                                   *)
LEMMA RequestLineBad ==
    ASSUME NEW sc \in Scans, sc.code = "attempt", Len(sc.rest) >= 1,
           NEW w \in Seq(Symbols), Len(w) >= 1, Begun(w) = 0, Follows(sc.rest, w),
           NEW r, r = RequestLine(sc)
    PROVE  /\ r \in Scans /\ r.rest = sc.rest
           /\ \/ r.code = "error"
              \/ /\ r.code = "attempt" /\ r.ss.status = "request"
                 /\ r.ss.scanned = sc.ss.scanned /\ r.ss.length = sc.ss.length
                 /\ Len(sc.rest) < Len(w)
<1> DEFINE b == sc.rest
           n == Begun(b)
           ts == Named(b)
<1>1. b \in Seq(Symbols) /\ Len(b) \in Nat /\ Len(b) >= 1 /\ Len(w) \in Nat
  BY DEF Scans
<1>2. \A k \in 1..Len(b) : k <= Len(w) => b[k] = w[k]
  BY DEF Follows
<1>3. n # 0 => Len(b) < Len(w) /\ ts = {}
  <2>1. SUFFICES ASSUME n # 0 PROVE Len(b) < Len(w) /\ ts = {}
    OBVIOUS
  <2> HIDE DEF b
  <2>2. Len(b) < Len(w)
    <3>1. SUFFICES ASSUME Len(b) >= Len(w) PROVE FALSE
      BY <1>1
    <3>2. \A k \in 1..Len(w) : b[k] = w[k]
      BY <1>1, <1>2, <3>1
    <3>3. QED
      BY <1>1, <2>1, <3>1, <3>2, NeverBegun
  <2>3. PICK t \in DOMAIN Methods : Agree(b, Methods[t])
    BY <1>1, <2>1, BegunIs
  <2>4. Len(Methods[t]) \in Nat /\ Methods[t] \in Seq(Symbols)
    BY MethodsAre
  <2>5. ~ (Len(b) >= Len(Methods[t]))
    <3>1. SUFFICES ASSUME Len(b) >= Len(Methods[t]) PROVE FALSE
      OBVIOUS
    <3>2. Shorter(Len(b), Len(Methods[t])) = Len(Methods[t])
      BY <1>1, <2>4, <3>1 DEF Shorter
    <3>3. \A k \in 1..Len(Methods[t]) : w[k] = Methods[t][k]
      BY <1>1, <1>2, <2>2, <2>3, <2>4, <3>1, <3>2 DEF Agree
    <3>4. Shorter(Len(w), Len(Methods[t])) = Len(Methods[t])
      BY <1>1, <2>2, <2>4, <3>1 DEF Shorter
    <3>5. Agree(w, Methods[t])
      BY <3>3, <3>4 DEF Agree
    <3>6. Begun(w) >= 1
      BY <3>5, BegunAs
    <3>7. QED
      BY <3>6
  <2>6. ts = IF Len(b) >= Len(Methods[t]) THEN {t} ELSE {}
    BY <1>1, <2>3, BegunAs DEF Named
  <2>7. QED
    BY <2>2, <2>5, <2>6
<1> DEFINE refused == Begun(sc.rest) = 0 \/ Refuses(sc, value_request_ending)
           waits == Named(sc.rest) = {} \/ Awaits(sc, value_request_ending)
<1>4. /\ r \in Scans
      /\ refused => r.code = "error" /\ r.rest = sc.rest
      /\ (~ refused /\ waits) =>
            /\ r.code = sc.code /\ r.rest = sc.rest /\ r.ss.status = "request"
            /\ r.ss.scanned = sc.ss.scanned /\ r.ss.length = sc.ss.length
  BY RequestLineIs
<1>5. ~ refused => waits /\ Len(b) < Len(w)
  BY <1>3
<1> HIDE DEF refused, waits
<1>6. QED
  BY <1>4, <1>5

(* Whatever has come, what is left of it is its end.                       *)
LEMMA RequestLineTypes ==
    ASSUME NEW sc \in Scans, NEW r, r = RequestLine(sc)
    PROVE  /\ r \in Scans /\ LongAs(r, sc) /\ r.code \in {sc.code, "error"}
           /\ r.rest = sc.rest \/ \E d \in 0..Len(sc.rest) : r.rest = SubSeq(sc.rest, d + 1, Len(sc.rest))
           /\ r.code = "error" \/ r.ss.status \in {"request", "properties"}
<1> DEFINE refused == Begun(sc.rest) = 0 \/ Refuses(sc, value_request_ending)
           waits == Named(sc.rest) = {} \/ Awaits(sc, value_request_ending)
           n == Takes(sc, value_request_ending)
<1>1. sc.rest \in Seq(Symbols)
  BY DEF Scans
<1>2. n \in 0..Len(sc.rest)
  <2> DEFINE b == sc.rest
  <2>1. n \in Nat /\ n <= Len(b)
    BY <1>1, EndingsAre, CheckEndIs DEF Takes
  <2> HIDE DEF b, n
  <2>2. b \in Seq(Symbols)
    BY <1>1 DEF b
  <2>3. n \in 0..Len(b)
    BY <2>1, <2>2
  <2>4. QED
    BY <2>3 DEF b
<1>3. /\ r \in Scans /\ LongAs(r, sc)
      /\ refused => r.code = "error" /\ r.rest = sc.rest
      /\ (~ refused /\ waits) => r.code = sc.code /\ r.rest = sc.rest /\ r.ss.status = "request"
      /\ (~ refused /\ ~ waits /\ Asked(sc) \in BadUrls) => r.code = "error" /\ r.rest = sc.rest
      /\ (~ refused /\ ~ waits /\ Asked(sc) \notin BadUrls) =>
            /\ r.code = sc.code /\ r.rest = SubSeq(sc.rest, n + 1, Len(sc.rest))
            /\ r.ss.status = "properties"
  BY RequestLineIs
<1> HIDE DEF refused, waits, n
<1>4. QED
  BY <1>2, <1>3

(* A step over a line of the properties keeps the types.                   *)
LEMMA NextLineTypes ==
    ASSUME NEW sc \in Scans, NEW r, r = NextLine(sc)
    PROVE  /\ r \in Scans /\ LongAs(r, sc) /\ r.code \in {sc.code, "error"}
           /\ r.rest = sc.rest \/ \E d \in 0..Len(sc.rest) : r.rest = SubSeq(sc.rest, d + 1, Len(sc.rest))
           /\ r.code = "error" \/ r.ss.status \in {"done", sc.ss.status}
<1> DEFINE refused == Refuses(sc, value_line_ending)
           waits == Awaits(sc, value_line_ending)
           n == Takes(sc, value_line_ending)
<1>1. sc.rest \in Seq(Symbols)
  BY DEF Scans
<1>2. n \in 0..Len(sc.rest)
  <2> DEFINE b == sc.rest
  <2>1. n \in Nat /\ n <= Len(b)
    BY <1>1, EndingsAre, CheckEndIs DEF Takes
  <2> HIDE DEF b, n
  <2>2. b \in Seq(Symbols)
    BY <1>1 DEF b
  <2>3. n \in 0..Len(b)
    BY <2>1, <2>2
  <2>4. QED
    BY <2>3 DEF b
<1>3. /\ r \in Scans /\ LongAs(r, sc)
      /\ refused => r.code = "error" /\ r.rest = sc.rest
      /\ (~ refused /\ waits) => r = sc
      /\ (~ refused /\ ~ waits) =>
            /\ r.code = sc.code /\ r.rest = SubSeq(sc.rest, n + 1, Len(sc.rest))
            /\ r.ss.status = StatusAfter(Line(sc), sc.ss.status)
  BY NextLineIs
<1> HIDE DEF refused, waits, n
<1>4. QED
  BY <1>2, <1>3 DEF StatusAfter

\* The status of a scan whose next line is line j.
StatusAt(m, j) == IF j > Len(m.lines) THEN "done" ELSE "properties"

\* The scan r has read line j of message m where the scan sc was, or waits.
LineRead(sc, m, j, r) ==
    LET l == m.lines[j]
    IN /\ r \in Scans /\ r.code = "attempt" /\ r.ss.type = sc.ss.type /\ Len(l) >= 2
       /\ Len(sc.rest) < Len(l) => r = sc
       /\ Len(sc.rest) >= Len(l) =>
             /\ r.rest = SubSeq(sc.rest, Len(l) + 1, Len(sc.rest))
             /\ r.ss.status = StatusAt(m, j + 1)
             /\ r.ss.scanned = sc.ss.scanned + Len(l)
             /\ r.ss.length = LengthIn(m.lines, j)

(* A line of the properties is read when it has come, and awaited until    *)
(* then.                                                                   *)
LEMMA NextLineRead ==
    ASSUME NEW sc \in Scans, sc.code = "attempt", sc.ss.status = "properties",
           sc.long => Len(sc.rest) > EnoughLength,
           NEW m, IsRequest(m), NEW j \in 2..Len(m.lines), Follows(sc.rest, m.lines[j]),
           sc.ss.length = LengthIn(m.lines, j - 1),
           NEW r, r = NextLine(sc)
    PROVE  LineRead(sc, m, j, r)
<1> DEFINE b == sc.rest
           l == m.lines[j]
           v == value_line_ending
           e == check_end(b, v)
           refused == Refuses(sc, value_line_ending)
           waits == Awaits(sc, value_line_ending)
           n == Takes(sc, value_line_ending)
<1>0. Len(m.lines) \in Nat /\ j \in 1..Len(m.lines) /\ j \in Nat /\ j >= 2
  BY RequestIs
<1>1. b \in Seq(Symbols) /\ Len(b) \in Nat /\ sc.ss.scanned \in Nat
  <2>1. b \in Seq(Symbols) /\ sc.ss \in Statuses
    BY DEF Scans
  <2>2. sc.ss.scanned \in Nat
    BY <2>1 DEF Statuses
  <2> HIDE DEF b
  <2>3. QED
    BY <2>1, <2>2
<1>2. l \in Seq(Symbols) /\ IsLine(l, v) /\ (Contents(l) = <<>> <=> j = Len(m.lines))
  BY <1>0, RequestIs DEF IsRequest, IsHeader
<1>3. v \in Seq(Symbols) /\ Len(v) = 2 /\ Len(v) >= 1 /\ Contents(l) = SubSeq(l, 1, Len(l) - Len(v))
  BY EndingsAre DEF Contents
<1>4. \A k \in 1..Len(b) : k <= Len(l) => b[k] = l[k]
  BY DEF Follows
<1>5. LengthIn(m.lines, j) = LengthAfter(Contents(l), sc.ss.length)
  BY <1>0, LengthNext DEF LengthAfter
<1>6. /\ n = e[2] /\ Line(sc) = SubSeq(b, 1, e[1])
      /\ refused <=> (e[1] = e[2] /\ sc.long)
      /\ waits <=> e[2] - e[1] < 2
  BY <1>3 DEF Takes, Line, Refuses, Awaits
<1>7. /\ r \in Scans
      /\ (~ refused /\ waits) => r = sc
      /\ (~ refused /\ ~ waits) =>
            /\ r.code = sc.code /\ r.rest = SubSeq(sc.rest, n + 1, Len(sc.rest))
            /\ r.ss.status = StatusAfter(Line(sc), sc.ss.status)
            /\ r.ss.type = sc.ss.type /\ r.ss.scanned = sc.ss.scanned + n
            /\ r.ss.length = LengthAfter(Line(sc), sc.ss.length)
  BY NextLineIs
<1>8. Len(l) \in Nat /\ Len(l) >= 2
  <2> HIDE DEF l
  <2>1. QED
    BY <1>2, <1>3 DEF IsLine
<1> HIDE DEF b, l, v, refused, waits, n
<1>9. CASE Len(b) < Len(l)
  <2>1. \A k \in 1..Len(b) : b[k] = l[k]
    BY <1>1, <1>4, <1>8, <1>9
  <2>2. e[2] - e[1] < 2 /\ (e[1] = e[2] => Len(b) <= EnoughLength)
    BY <1>1, <1>2, <1>3, <1>9, <2>1, LineAwaited, Zenon
  <2> HIDE DEF e
  <2>3. ~ (e[1] = e[2] /\ sc.long)
    BY <1>1, <2>2, LimitsAssumption DEF b
  <2>4. r = sc
    BY <1>6, <1>7, <2>2, <2>3
  <2>5. ~ (Len(b) >= Len(l))
    BY <1>1, <1>8, <1>9
  <2>6. QED
    BY <1>2, <1>8, <2>4, <2>5 DEF b, l, LineRead
<1>10. CASE Len(b) >= Len(l)
  <2>1. \A k \in 1..Len(l) : b[k] = l[k]
    BY <1>1, <1>4, <1>8, <1>10
  <2>2. e = <<Len(l) - Len(v), Len(l)>>
    BY <1>1, <1>2, <1>3, <1>10, <2>1, LineFound
  <2> HIDE DEF e
  <2>3. e[1] = Len(l) - 2 /\ e[2] = Len(l) /\ e[1] # e[2] /\ ~ (e[2] - e[1] < 2)
    BY <1>3, <1>8, <2>2
  <2>4. Line(sc) = Contents(l)
    <3> DEFINE p == Len(l) - 2
    <3>1. p \in Nat /\ p <= Len(l) /\ p <= Len(b) /\ Line(sc) = SubSeq(b, 1, p)
          /\ Contents(l) = SubSeq(l, 1, p)
      BY <1>1, <1>3, <1>6, <1>8, <1>10, <2>3
    <3> HIDE DEF p
    <3>2. \A k \in 1..p : b[k] = l[k]
      BY <1>8, <2>1, <3>1
    <3>3. SubSeq(b, 1, p) = [k \in 1..p |-> b[k]] /\ SubSeq(l, 1, p) = [k \in 1..p |-> l[k]]
      BY <1>1, <1>2, <3>1
    <3>4. QED
      BY <3>1, <3>2, <3>3
  <2>5. ~ refused /\ ~ waits /\ n = Len(l)
    BY <1>6, <2>3
  <2>6. /\ r.code = sc.code /\ r.rest = SubSeq(sc.rest, n + 1, Len(sc.rest))
        /\ r.ss.status = StatusAfter(Line(sc), sc.ss.status)
        /\ r.ss.type = sc.ss.type /\ r.ss.scanned = sc.ss.scanned + n
        /\ r.ss.length = LengthAfter(Line(sc), sc.ss.length)
    BY <1>7, <2>5
  <2>7. ~ (Len(b) < Len(l))
    BY <1>1, <1>8, <1>10
  <2>8. r.ss.status = StatusAt(m, j + 1)
    <3>1. j + 1 > Len(m.lines) <=> j = Len(m.lines)
      BY <1>0
    <3>2. QED
      BY <1>2, <2>4, <2>6, <3>1 DEF StatusAfter, StatusAt
  <2>9. r.ss.length = LengthIn(m.lines, j)
    BY <1>5, <2>4, <2>6
  <2>10. QED
    BY <1>2, <1>7, <1>8, <2>5, <2>6, <2>7, <2>8, <2>9 DEF b, l, LineRead
<1>11. Len(b) < Len(l) \/ Len(b) >= Len(l)
  BY <1>1, <1>8
<1>12. QED
  BY <1>9, <1>10, <1>11

-----------------------------------------------------------------------------
(* Where a scan is.                                                        *)

\* The text r is what comes before place n of the text w.
EndsAt(w, n, r) == Len(r) <= n /\ \A k \in 1..Len(r) : r[k] = w[n - Len(r) + k]

\* The scan ss has come to place n of the messages ms: it begins with message
\* i, or its next line is line j of it.
AtStart(ms, n, ss, i) ==
    /\ ss.status \in {"clean", "request"} /\ ss.scanned = 0 /\ ss.length = "none"
    /\ n = From(ms, i)
AtLine(ms, n, ss, i, j) ==
    LET m == ms[i]
    IN /\ IsRequest(m) /\ ~ UrlBad(m) /\ ss.type = m.type
       /\ ss.scanned = Before(m.lines, j) /\ ss.length = LengthIn(m.lines, j - 1)
       /\ ss.status = StatusAt(m, j)
       /\ n = From(ms, i) + Before(m.lines, j)
At(ms, n, ss, i) ==
    \/ AtStart(ms, n, ss, i)
    \/ i \in 1..Len(ms) /\ \E j \in 2..(Len(ms[i].lines) + 1) : AtLine(ms, n, ss, i, j)

\* Message i has not arrived as a whole with the first n symbols.
Waits(ms, n, i) == i \in 1..Len(ms) => n < From(ms, i + 1)

AllGood(ms) == \A i \in 1..Len(ms) : ms[i].good

(* What is left of a text before a place, and what is added to it.         *)
LEMMA EndsShorter ==
    ASSUME NEW w \in Seq(Symbols), NEW n \in 0..Len(w), NEW r \in Seq(Symbols), EndsAt(w, n, r),
           NEW d \in 0..Len(r), NEW t, t = SubSeq(r, d + 1, Len(r))
    PROVE  t \in Seq(Symbols) /\ Len(t) = Len(r) - d /\ EndsAt(w, n, t)
<1>1. Len(r) \in Nat /\ Len(r) <= n /\ n \in Nat /\ d \in Nat /\ d <= Len(r)
  BY DEF EndsAt
<1>2. t \in Seq(Symbols) /\ Len(t) = Len(r) - d /\ \A k \in 1..(Len(r) - d) : t[k] = r[d + k]
  BY <1>1
<1>3. ASSUME NEW k \in 1..Len(t) PROVE t[k] = w[n - Len(t) + k]
  <2>1. d + k \in 1..Len(r) /\ n - Len(r) + (d + k) = n - Len(t) + k
    <3> DEFINE x == Len(r)
               y == Len(t)
    <3>1. x \in Nat /\ d \in Nat /\ d <= x /\ y = x - d /\ n \in Nat /\ k \in 1..y
      BY <1>1, <1>2
    <3> HIDE DEF x, y
    <3>2. d + k \in 1..x /\ n - x + (d + k) = n - y + k
      BY <3>1
    <3>3. QED
      BY <3>2 DEF x, y
  <2>2. r[d + k] = w[n - Len(r) + (d + k)]
    BY <2>1 DEF EndsAt
  <2>3. QED
    BY <1>2, <2>1, <2>2
<1>4. Len(t) = Len(r) - d /\ Len(t) <= n
  BY <1>1, <1>2
<1>5. QED
  BY <1>2, <1>3, <1>4 DEF EndsAt

(* What is joined to the end of a text is at its end.                      *)
LEMMA EndsJoined ==
    ASSUME NEW w, NEW n \in Nat, NEW r, EndsAt(w, n, r), Len(r) \in Nat,
           NEW z \in Nat, z >= n, NEW u, \A k \in 1..(z - n) : u[k] = w[n + k],
           NEW t, Len(t) = Len(r) + (z - n),
           \A k \in 1..Len(t) : t[k] = IF k <= Len(r) THEN r[k] ELSE u[k - Len(r)]
    PROVE  EndsAt(w, z, t)
<1>1. Len(r) <= n /\ Len(t) \in Nat /\ Len(t) <= z
  BY DEF EndsAt
<1>2. ASSUME NEW k \in 1..Len(t) PROVE t[k] = w[z - Len(t) + k]
  <2>1. z - Len(t) = n - Len(r)
    BY <1>1
  <2>2. CASE k <= Len(r)
    <3>1. k \in 1..Len(r)
      BY <1>1, <2>2
    <3>2. QED
      BY <2>1, <2>2, <3>1 DEF EndsAt
  <2>3. CASE ~ (k <= Len(r))
    <3>1. k - Len(r) \in 1..(z - n) /\ n + (k - Len(r)) = n - Len(r) + k
      BY <1>1, <2>3
    <3>2. QED
      BY <2>1, <2>3, <3>1
  <2>4. QED
    BY <2>2, <2>3
<1>3. QED
  BY <1>1, <1>2 DEF EndsAt

(* Two texts put together.                                                 *)
LEMMA JoinIs ==
    ASSUME NEW S, NEW r \in Seq(S), NEW u \in Seq(S), NEW t, t = r \o u
    PROVE  /\ t \in Seq(S) /\ Len(t) = Len(r) + Len(u)
           /\ \A k \in 1..Len(t) : t[k] = IF k <= Len(r) THEN r[k] ELSE u[k - Len(r)]
OBVIOUS

\* What comes between two places, and a text that has grown by it.
Piece(w, n, z) == SubSeq(w, n + 1, z)
Grown(w, n, z, r, t) == t \in Seq(Symbols) /\ Len(t) = Len(r) + (z - n) /\ EndsAt(w, z, t)

(* A piece that is added ends where the text then ends.                    *)
LEMMA EndsLonger ==
    ASSUME NEW w \in Seq(Symbols), NEW n \in 0..Len(w), NEW r \in Seq(Symbols), EndsAt(w, n, r),
           NEW z \in n..Len(w)
    PROVE  Grown(w, n, z, r, r \o Piece(w, n, z))
<1> DEFINE u == Piece(w, n, z)
           t == r \o u
<1>1. Len(r) \in Nat /\ n \in Nat /\ z \in Nat /\ z >= n /\ z <= Len(w) /\ Len(w) \in Nat
  OBVIOUS
<1>2. u \in Seq(Symbols) /\ Len(u) = z - n /\ \A k \in 1..(z - n) : u[k] = w[n + k]
  BY <1>1 DEF Piece
<1> HIDE DEF u
<1>3. /\ t \in Seq(Symbols) /\ Len(t) = Len(r) + Len(u)
      /\ \A k \in 1..Len(t) : t[k] = IF k <= Len(r) THEN r[k] ELSE u[k - Len(r)]
  BY <1>2, JoinIs
<1> HIDE DEF t
<1>4. Len(t) = Len(r) + (z - n)
  BY <1>2, <1>3
<1>5. EndsAt(w, z, t)
  BY <1>1, <1>2, <1>3, <1>4, EndsJoined
<1>6. QED
  BY <1>3, <1>4, <1>5 DEF Grown, t, u

(* A text before a place in the messages goes like the message that begins *)
(* with it, or like a part of it.                                          *)
LEMMA EndsLikePart ==
    ASSUME NEW ms \in Scripts, NEW n \in 0..Len(Wire(ms)), NEW r \in Seq(Symbols),
           EndsAt(Wire(ms), n, r), NEW i \in 1..Len(ms),
           NEW b \in Nat, NEW t \in Seq(Symbols), b + Len(t) <= Len(Text(ms[i])),
           \A k \in 1..Len(t) : Text(ms[i])[b + k] = t[k],
           n - Len(r) = From(ms, i) + b
    PROVE  Follows(r, t)
<1>1. Text(ms[i]) \in Seq(Symbols)
  BY WireIs, MessageIs
<1>2. \A k \in 1..Len(Text(ms[i])) : Wire(ms)[From(ms, i) + k] = Text(ms[i])[k]
  BY WireIs
<1>3. From(ms, i) \in Nat
  BY WireIs
<1>4. SUFFICES ASSUME NEW k \in 1..Len(r), k <= Len(t) PROVE r[k] = t[k]
  BY DEF Follows
<1> DEFINE L == Len(Text(ms[i]))
           W == Wire(ms)
           T == Text(ms[i])
           f == From(ms, i)
<1>5. L \in Nat /\ Len(t) \in Nat /\ Len(r) \in Nat /\ Len(r) <= n
  BY <1>1 DEF EndsAt
<1>6. r[k] = W[n - Len(r) + k]
  BY DEF EndsAt
<1> HIDE DEF L, W, T, f
<1>7. k \in Nat /\ k >= 1 /\ k \in 1..Len(t) /\ b + k \in 1..L
  BY <1>4, <1>5 DEF L
<1>8. n - Len(r) = f + b /\ f \in Nat /\ n \in Nat
  BY <1>3 DEF f
<1>9. n - Len(r) + k = f + (b + k)
  BY <1>5, <1>7, <1>8
<1>10. W[f + (b + k)] = T[b + k] /\ T[b + k] = t[k]
  BY <1>2, <1>7 DEF L, W, T, f
<1>11. QED
  BY <1>6, <1>9, <1>10

-----------------------------------------------------------------------------
(* What a step of the scan does to its place.                              *)

(* A place is in some message, or behind them all.                         *)
LEMMA StartInside ==
    ASSUME NEW ms \in Scripts, NEW i \in 1..(Len(ms) + 1), NEW n \in 0..Len(Wire(ms)),
           From(ms, i) < n
    PROVE  i \in 1..Len(ms) /\ IsMessage(ms[i]) /\ Len(Text(ms[i])) \in Nat
           /\ From(ms, i) \in Nat /\ From(ms, i + 1) = From(ms, i) + Len(Text(ms[i]))
<1>1. Len(ms) \in Nat /\ From(ms, Len(ms) + 1) = Len(Wire(ms)) /\ Wire(ms) \in Seq(Symbols)
  BY WireIs
<1>2. i # Len(ms) + 1
  BY <1>1
<1>3. i \in 1..Len(ms)
  BY <1>1, <1>2
<1>4. IsMessage(ms[i]) /\ From(ms, i) \in Nat
      /\ From(ms, i + 1) = From(ms, i) + Len(Text(ms[i]))
  BY <1>3, WireIs
<1>5. Text(ms[i]) \in Seq(Symbols)
  BY <1>4, MessageIs
<1>6. QED
  BY <1>3, <1>4, <1>5

(* The request line: the scan stays with its message, or knows that it is  *)
(* not a good one.                                                         *)
LEMMA RequestLineAt ==
    ASSUME NEW ms \in Scripts, NEW n \in 0..Len(Wire(ms)), NEW i \in 1..(Len(ms) + 1),
           NEW sc \in Scans, sc.code = "attempt", sc.rest # <<>>, EndsAt(Wire(ms), n, sc.rest),
           sc.long => Len(sc.rest) > EnoughLength,
           sc.ss.status \in {"clean", "request"}, At(ms, n - Len(sc.rest), sc.ss, i),
           NEW r, r = RequestLine(sc)
    PROVE  \/ r.code = "error" /\ ~ AllGood(ms)
           \/ /\ r.code = "attempt" /\ At(ms, n - Len(r.rest), r.ss, i)
              /\ r.ss.status = "request" => Waits(ms, n, i)
<1> DEFINE b == sc.rest
           m == ms[i]
           f == From(ms, i)
<1>1. b \in Seq(Symbols) /\ Len(b) \in Nat /\ Len(b) >= 1 /\ Len(b) <= n /\ n \in Nat
  <2>1. b \in Seq(Symbols)
    BY DEF Scans
  <2>2. Len(b) <= n /\ n \in Nat
    BY DEF EndsAt
  <2> HIDE DEF b
  <2>3. b # <<>>
    BY DEF b
  <2>4. QED
    BY <2>1, <2>2, <2>3
<1>2. sc.ss.scanned = 0 /\ sc.ss.length = "none" /\ n - Len(b) = f
  BY DEF At, AtStart, AtLine, StatusAt
<1>3. /\ i \in 1..Len(ms) /\ IsMessage(m) /\ Len(Text(m)) \in Nat /\ f \in Nat
      /\ From(ms, i + 1) = f + Len(Text(m))
  <2>1. From(ms, i) < n
    BY <1>1, <1>2
  <2>2. QED
    BY <2>1, StartInside
<1>4. Text(m) \in Seq(Symbols) /\ Len(Text(m)) >= 1
  BY <1>3, MessageIs
<1>5. AtStart(ms, n - Len(b), sc.ss, i)
  BY DEF At, AtStart, AtLine, StatusAt
<1>6. CASE IsRequest(m)
  <2> DEFINE l == m.lines[1]
  <2>1. /\ l \in Seq(Symbols) /\ Len(l) \in Nat /\ Len(l) >= 4 /\ Len(l) <= Len(Text(m))
        /\ \A k \in 1..Len(l) : Text(m)[0 + k] = l[k]
        /\ Before(m.lines, 2) = Len(l) /\ 2 \in 2..(Len(m.lines) + 1) /\ ~ (2 > Len(m.lines))
    <3> HIDE DEF m
    <3>1. QED
      BY <1>6, RequestFirst
  <2>2. Follows(b, l)
    <3>1. n - Len(b) = From(ms, i) + 0 /\ 0 + Len(l) <= Len(Text(ms[i])) /\ 0 \in Nat
      BY <1>1, <1>2, <1>3, <2>1
    <3> HIDE DEF l, b, f
    <3>2. EndsAt(Wire(ms), n, b)
      BY DEF b
    <3>3. QED
      BY <1>1, <1>3, <2>1, <3>1, <3>2, EndsLikePart
  <2>3. /\ r \in Scans
        /\ (Len(sc.rest) >= Len(m.lines[1]) /\ UrlBad(m)) => r.code = "error"
        /\ Len(sc.rest) < Len(m.lines[1]) =>
              /\ r.code = "attempt" /\ r.ss.length = sc.ss.length
              /\ r.rest = sc.rest /\ r.ss.status = "request"
              /\ r.ss.scanned = sc.ss.scanned
        /\ (Len(sc.rest) >= Len(m.lines[1]) /\ ~ UrlBad(m)) =>
              /\ r.code = "attempt" /\ r.ss.length = sc.ss.length
              /\ r.rest = SubSeq(sc.rest, Len(m.lines[1]) + 1, Len(sc.rest))
              /\ r.ss.status = "properties" /\ r.ss.type = m.type
              /\ r.ss.scanned = sc.ss.scanned + Len(m.lines[1])
    BY <1>1, <1>6, <2>2, RequestLineRead
  <2> HIDE DEF b, m, l, f
  <2>4. CASE Len(b) < Len(l)
    <3>1. /\ r.code = "attempt" /\ r.rest = b /\ r.ss.status = "request"
          /\ r.ss.scanned = 0 /\ r.ss.length = "none"
      BY <1>2, <2>3, <2>4 DEF b, l
    <3>2. At(ms, n - Len(r.rest), r.ss, i)
      BY <1>2, <3>1 DEF At, AtStart, f
    <3>3. n < From(ms, i + 1)
      BY <1>1, <1>2, <1>3, <2>1, <2>4
    <3>4. QED
      BY <3>1, <3>2, <3>3 DEF Waits
  <2>5. CASE Len(b) >= Len(l) /\ ~ UrlBad(m)
    <3>1. /\ r.code = "attempt" /\ r.rest = SubSeq(b, Len(l) + 1, Len(b)) /\ r.ss.status = "properties"
          /\ r.ss.type = m.type /\ r.ss.scanned = 0 + Len(l) /\ r.ss.length = "none"
      BY <1>2, <2>3, <2>5 DEF b, l
    <3>2. n - Len(r.rest) = f + Len(l)
      <4>1. Len(l) \in 0..Len(b)
        BY <1>1, <2>1, <2>5
      <4>2. Len(r.rest) = Len(b) - Len(l)
        BY <1>1, <3>1, <4>1, EndsShorter DEF b
      <4>3. QED
        BY <1>1, <1>2, <2>1, <4>2
    <3>3. AtLine(ms, n - Len(r.rest), r.ss, i, 2)
      <4>1. 2 - 1 = 1 /\ 0 + Len(l) = Len(l)
        BY <2>1
      <4>2. LengthIn(m.lines, 2 - 1) = "none"
        BY <4>1, LengthFirst
      <4>3. QED
        BY <1>6, <2>1, <2>5, <3>1, <3>2, <4>1, <4>2 DEF AtLine, StatusAt, m, f
    <3>4. At(ms, n - Len(r.rest), r.ss, i)
      BY <1>3, <2>1, <3>3 DEF At, m
    <3>5. QED
      BY <3>1, <3>4
  <2>6. CASE Len(b) >= Len(l) /\ UrlBad(m)
    <3>1. r.code = "error"
      BY <2>3, <2>6 DEF b, l
    <3>2. ~ m.good
      BY <1>6, <2>6 DEF IsRequest, Refused, UrlBad
    <3>3. QED
      BY <1>3, <3>1, <3>2 DEF AllGood, m
  <2>7. Len(b) < Len(l) \/ Len(b) >= Len(l)
    BY <1>1, <2>1
  <2>8. QED
    BY <2>4, <2>5, <2>6, <2>7
<1>7. CASE ~ IsRequest(m)
  <2>1. ~ m.good /\ Begun(Text(m)) = 0
    BY <1>3, <1>7, MessageIs
  <2>2. ~ AllGood(ms)
    BY <1>3, <2>1 DEF AllGood
  <2> DEFINE w == Text(m)
  <2>3. Follows(b, w)
    <3>1. n - Len(b) = From(ms, i) + 0 /\ 0 + Len(w) <= Len(Text(ms[i])) /\ 0 \in Nat
      BY <1>1, <1>2, <1>3
    <3>2. \A k \in 1..Len(w) : Text(ms[i])[0 + k] = w[k]
      BY <1>3
    <3> HIDE DEF b, f, w
    <3>3. EndsAt(Wire(ms), n, b) /\ w \in Seq(Symbols)
      BY <1>4 DEF b, w
    <3>4. QED
      BY <1>1, <1>3, <3>1, <3>2, <3>3, EndsLikePart
  <2>4. /\ r.rest = sc.rest
        /\ \/ r.code = "error"
           \/ /\ r.code = "attempt" /\ r.ss.status = "request"
              /\ r.ss.scanned = sc.ss.scanned /\ r.ss.length = sc.ss.length
              /\ Len(sc.rest) < Len(w)
    BY <1>1, <1>4, <2>1, <2>3, RequestLineBad
  <2> HIDE DEF b, m, f, w
  <2>5. CASE r.code # "error"
    <3>1. At(ms, n - Len(r.rest), r.ss, i)
      BY <1>2, <2>4, <2>5 DEF At, AtStart, f, b
    <3>2. Len(b) < Len(w)
      BY <2>4, <2>5 DEF b
    <3>3. n < From(ms, i + 1)
      BY <1>1, <1>2, <1>3, <3>2 DEF w
    <3>4. QED
      BY <2>4, <2>5, <3>1, <3>3 DEF Waits
  <2>6. QED
    BY <2>2, <2>4, <2>5
<1>8. QED
  BY <1>6, <1>7

\* Line j of message m is where it should be.
PartOf(m, j) ==
    LET l == m.lines[j]
    IN /\ l \in Seq(Symbols) /\ Len(l) \in Nat /\ Len(Text(m)) \in Nat
       /\ Before(m.lines, j) \in Nat
       /\ Before(m.lines, j + 1) = Before(m.lines, j) + Len(l)
       /\ Before(m.lines, j) + Len(l) <= Len(Text(m))
       /\ \A k \in 1..Len(l) : Text(m)[Before(m.lines, j) + k] = l[k]

(* Line j of a request lies in its text behind the lines before it.        *)
LEMMA RequestPart ==
    ASSUME NEW m, IsRequest(m), NEW j \in 1..Len(m.lines)
    PROVE  PartOf(m, j)
<1> DEFINE y == m.body
           F == FlattenSeq(m.lines)
           l == m.lines[j]
<1>1. \A i \in 1..Len(m.lines) :
         /\ m.lines[i] \in Seq(Symbols) /\ Before(m.lines, i) \in Nat
         /\ Before(m.lines, i + 1) = Before(m.lines, i) + Len(m.lines[i])
         /\ Before(m.lines, i + 1) <= Len(FlattenSeq(m.lines))
         /\ \A k \in 1..Len(m.lines[i]) : Text(m)[Before(m.lines, i) + k] = m.lines[i][k]
  BY RequestIs
<1>2. /\ l \in Seq(Symbols) /\ Before(m.lines, j) \in Nat
      /\ Before(m.lines, j + 1) = Before(m.lines, j) + Len(l)
      /\ Before(m.lines, j + 1) <= Len(F)
      /\ \A k \in 1..Len(l) : Text(m)[Before(m.lines, j) + k] = l[k]
  BY <1>1
<1>3. /\ Len(Text(m)) = Len(F) + Len(y) /\ F \in Seq(Symbols) /\ y \in Seq(Symbols)
  BY RequestIs DEF IsRequest
<1> HIDE DEF y, F, l
<1>4. Len(y) \in Nat /\ Len(F) \in Nat
  BY <1>3
<1>5. Len(l) \in Nat
  BY <1>2
<1>6. Len(Text(m)) \in Nat /\ Before(m.lines, j) + Len(l) <= Len(Text(m))
  BY <1>2, <1>3, <1>4, <1>5
<1>7. QED
  BY <1>2, <1>5, <1>6 DEF PartOf, l

(* A line of the properties: the scan stays with its message, and takes    *)
(* nothing only if it waits for more of it.                                *)
LEMMA NextLineAt ==
    ASSUME NEW ms \in Scripts, NEW n \in 0..Len(Wire(ms)), NEW i \in 1..(Len(ms) + 1),
           NEW sc \in Scans, sc.code = "attempt", EndsAt(Wire(ms), n, sc.rest),
           sc.long => Len(sc.rest) > EnoughLength,
           sc.ss.status = "properties", At(ms, n - Len(sc.rest), sc.ss, i),
           NEW r, r = NextLine(sc)
    PROVE  /\ r.code = "attempt" /\ At(ms, n - Len(r.rest), r.ss, i)
           /\ r.ss.status \in {"properties", "done"}
           /\ r = sc => Waits(ms, n, i)
<1> DEFINE b == sc.rest
           m == ms[i]
           f == From(ms, i)
<1>1. b \in Seq(Symbols) /\ Len(b) \in Nat /\ Len(b) <= n /\ n \in Nat
  <2>1. b \in Seq(Symbols)
    BY DEF Scans
  <2>2. Len(b) <= n /\ n \in Nat
    BY DEF EndsAt
  <2> HIDE DEF b
  <2>3. QED
    BY <2>1, <2>2
<1>2. i \in 1..Len(ms) /\ \E j \in 2..(Len(m.lines) + 1) : AtLine(ms, n - Len(b), sc.ss, i, j)
  BY DEF At, AtStart
<1>3. PICK j \in 2..(Len(m.lines) + 1) : AtLine(ms, n - Len(b), sc.ss, i, j)
  BY <1>2
<1>4. /\ IsRequest(m) /\ ~ UrlBad(m) /\ sc.ss.type = m.type
      /\ sc.ss.scanned = Before(m.lines, j) /\ sc.ss.length = LengthIn(m.lines, j - 1)
      /\ sc.ss.status = StatusAt(m, j)
      /\ n - Len(b) = f + Before(m.lines, j)
  BY <1>3 DEF AtLine
<1> DEFINE l == m.lines[j]
<1> HIDE DEF m, f, b
<1>5. Len(m.lines) \in Nat /\ Len(m.lines) >= 2
  BY <1>4, RequestIs
<1>6. ~ (j > Len(m.lines))
  BY <1>4 DEF StatusAt
<1>7. j \in 2..Len(m.lines) /\ j \in 1..Len(m.lines) /\ j \in Nat
  BY <1>5, <1>6
<1>8. /\ l \in Seq(Symbols) /\ Len(l) \in Nat /\ Len(Text(m)) \in Nat
      /\ Before(m.lines, j) \in Nat
      /\ Before(m.lines, j + 1) = Before(m.lines, j) + Len(l)
      /\ Before(m.lines, j) + Len(l) <= Len(Text(m))
      /\ \A k \in 1..Len(l) : Text(m)[Before(m.lines, j) + k] = l[k]
  <2>1. PartOf(m, j)
    BY <1>4, <1>7, RequestPart
  <2>2. QED
    BY <2>1 DEF PartOf
<1>9. f \in Nat /\ From(ms, i + 1) = f + Len(Text(m))
  BY <1>2, WireIs DEF m, f
<1> HIDE DEF l
<1>10. Follows(b, l)
  <2> DEFINE z == Before(m.lines, j)
  <2>1. z \in Nat /\ n - Len(b) = From(ms, i) + z /\ z + Len(l) <= Len(Text(ms[i]))
        /\ (\A k \in 1..Len(l) : Text(ms[i])[z + k] = l[k]) /\ EndsAt(Wire(ms), n, b)
    BY <1>4, <1>8 DEF f, m, b
  <2> HIDE DEF z
  <2>2. QED
    BY <1>1, <1>2, <1>8, <2>1, EndsLikePart
<1>11. /\ r \in Scans /\ r.code = "attempt" /\ r.ss.type = sc.ss.type
       /\ Len(l) >= 2
       /\ Len(b) < Len(l) => r = sc
       /\ Len(b) >= Len(l) =>
             /\ r.rest = SubSeq(b, Len(l) + 1, Len(b))
             /\ r.ss.status = StatusAt(m, j + 1)
             /\ r.ss.scanned = sc.ss.scanned + Len(l)
             /\ r.ss.length = LengthIn(m.lines, j)
  <2>1. l = m.lines[j] /\ b = sc.rest
    BY DEF l, b
  <2>2. Follows(sc.rest, m.lines[j])
    BY <1>10, <2>1
  <2>3. LineRead(sc, m, j, r)
    BY <1>4, <1>7, <2>2, NextLineRead
  <2>4. QED
    BY <2>1, <2>3 DEF LineRead
<1>12. CASE Len(b) < Len(l)
  <2>1. r = sc
    BY <1>11, <1>12
  <2>2. n < From(ms, i + 1)
    BY <1>1, <1>4, <1>8, <1>9, <1>12
  <2>3. QED
    BY <2>1, <2>2 DEF Waits
<1>13. CASE Len(b) >= Len(l)
  <2>1. /\ r.rest = SubSeq(b, Len(l) + 1, Len(b))
        /\ r.ss.status = StatusAt(m, j + 1)
        /\ r.ss.scanned = sc.ss.scanned + Len(l)
        /\ r.ss.length = LengthIn(m.lines, j)
    BY <1>11, <1>13
  <2>2. r.ss.scanned # sc.ss.scanned
    BY <1>4, <1>8, <1>11, <2>1
  <2>3. Len(r.rest) = Len(b) - Len(l)
    <3>1. Len(l) \in 0..Len(b) /\ EndsAt(Wire(ms), n, b) /\ Wire(ms) \in Seq(Symbols)
      BY <1>1, <1>8, <1>13, WireIs DEF b
    <3>2. QED
      BY <1>1, <2>1, <3>1, EndsShorter
  <2>4. n - Len(r.rest) = f + Before(m.lines, j + 1)
    <3> DEFINE x == Before(m.lines, j)
               y == Before(m.lines, j + 1)
               z == Len(r.rest)
    <3>1. x \in Nat /\ y = x + Len(l) /\ n - Len(b) = f + x /\ z = Len(b) - Len(l)
      BY <1>4, <1>8, <2>3
    <3> HIDE DEF x, y, z
    <3>2. n - z = f + y
      BY <1>1, <1>8, <1>9, <3>1
    <3>3. QED
      BY <3>2 DEF y, z
  <2>5. j + 1 \in 2..(Len(m.lines) + 1) /\ j + 1 - 1 = j
    BY <1>5, <1>7
  <2>6. r.ss.scanned = Before(m.lines, j + 1)
    BY <1>4, <1>8, <2>1
  <2>7. AtLine(ms, n - Len(r.rest), r.ss, i, j + 1)
    BY <1>4, <1>11, <2>1, <2>4, <2>5, <2>6 DEF AtLine, m, f
  <2>8. At(ms, n - Len(r.rest), r.ss, i)
    BY <1>2, <2>5, <2>7 DEF At, m
  <2>9. QED
    BY <1>11, <2>1, <2>2, <2>8 DEF StatusAt
<1>14. Len(b) < Len(l) \/ Len(b) >= Len(l)
  BY <1>1, <1>8
<1>15. QED
  <2>1. CASE Len(b) < Len(l)
    BY <1>11, <1>12, <2>1
  <2>2. QED
    BY <1>12, <1>13, <1>14

-----------------------------------------------------------------------------
(* How a call of the scan ends.                                            *)

(* A length that is not refused is a number.                               *)
LEMMA NumberIs ==
    ASSUME NEW x, ~ LengthRefused(x)
    PROVE  NumberOf(x) \in Nat
<1>1. \E i \in 0..9 : Number[i] = x
  BY DEF LengthRefused
<1>2. NumberOf(x) \in 0..9
  BY <1>1 DEF NumberOf
<1>3. QED
  BY <1>2

\* How Finish(sc) decides, with the result r.
Finished(sc, r) ==
    /\ r.ss = sc.ss /\ r.rest = sc.rest
    /\ \/ /\ r.code = "error"
          /\ \/ sc.code = "error"
             \/ sc.ss.scanned >= HeaderMaxSize
             \/ /\ sc.ss.status = "done" /\ sc.ss.type \in {"post", "put"}
                /\ LengthRefused(sc.ss.length)
       \/ /\ r.code = "attempt" /\ sc.code = "attempt" /\ sc.ss.scanned < HeaderMaxSize
          /\ \/ sc.ss.status # "done"
             \/ /\ sc.ss.status = "done" /\ sc.ss.type \in {"post", "put"}
                /\ ~ LengthRefused(sc.ss.length) /\ Len(sc.rest) < NumberOf(sc.ss.length)
       \/ /\ r.code = "options" /\ sc.code = "attempt" /\ sc.ss.scanned < HeaderMaxSize
          /\ sc.ss.status = "done" /\ sc.ss.type = "options"
       \/ /\ r.code = "success" /\ sc.code = "attempt" /\ sc.ss.scanned < HeaderMaxSize
          /\ sc.ss.status = "done"
          /\ \/ sc.ss.type \in {"get", "del"}
             \/ /\ sc.ss.type \in {"post", "put"} /\ ~ LengthRefused(sc.ss.length)
                /\ NumberOf(sc.ss.length) <= Len(sc.rest)

(* Finish decides like that.                                               *)
LEMMA FinishIs ==
    ASSUME NEW sc \in Scans
    PROVE  Finished(sc, Finish(sc))
<1> DEFINE r == Finish(sc)
<1>1. /\ sc = [ss |-> sc.ss, rest |-> sc.rest, long |-> sc.long, code |-> sc.code]
      /\ sc.ss \in Statuses /\ sc.rest \in Seq(Symbols) /\ sc.code \in {"attempt", "error"}
  BY DEF Scans
<1>2. /\ sc.ss.scanned \in Nat /\ sc.ss.type \in {"get", "del", "options", "post", "put"}
  BY <1>1 DEF Statuses, Methods
<1>3. HeaderMaxSize \in Nat
  BY LimitsAssumption
<1>4. \A x : [sc EXCEPT !.code = x] = [ss |-> sc.ss, rest |-> sc.rest, long |-> sc.long, code |-> x]
  BY <1>1
<1>5. \A x : LET q == [ss |-> sc.ss, rest |-> sc.rest, long |-> sc.long, code |-> x]
             IN q.ss = sc.ss /\ q.rest = sc.rest /\ q.code = x
  OBVIOUS
<1>6. Len(sc.rest) \in Nat
  <2> DEFINE b == sc.rest
  <2>1. b \in Seq(Symbols)
    BY <1>1
  <2> HIDE DEF b
  <2>2. Len(b) \in Nat
    BY <2>1
  <2>3. QED
    BY <2>2 DEF b
<1> DEFINE c(x) == [sc EXCEPT !.code = x]
<1>7. \A x : c(x).ss = sc.ss /\ c(x).rest = sc.rest /\ c(x).code = x
  BY <1>4, <1>5
<1>8. r = IF sc.code = "error" THEN sc
          ELSE IF sc.ss.scanned >= HeaderMaxSize THEN c("error")
          ELSE IF sc.ss.status # "done" THEN sc
          ELSE IF sc.ss.type = "options" THEN c("options")
          ELSE IF sc.ss.type \in {"get", "del"} THEN c("success")
          ELSE IF LengthRefused(sc.ss.length) THEN c("error")
          ELSE IF Len(sc.rest) < NumberOf(sc.ss.length) THEN sc
          ELSE c("success")
  BY DEF Finish
<1> HIDE DEF r, c
<1>9. CASE sc.code = "error" \/ sc.ss.scanned >= HeaderMaxSize
  BY <1>7, <1>8, <1>9 DEF Finished, r
<1>10. CASE sc.code = "attempt" /\ sc.ss.scanned < HeaderMaxSize /\ sc.ss.status # "done"
  <2>1. ~ (sc.ss.scanned >= HeaderMaxSize)
    BY <1>2, <1>3, <1>10
  <2>2. r = sc
    BY <1>8, <1>10, <2>1
  <2>3. QED
    BY <1>10, <2>2 DEF Finished, r
<1>11. CASE sc.code = "attempt" /\ sc.ss.scanned < HeaderMaxSize /\ sc.ss.status = "done"
  <2>1. ~ (sc.ss.scanned >= HeaderMaxSize)
    BY <1>2, <1>3, <1>11
  <2>2. r = IF sc.ss.type = "options" THEN c("options")
            ELSE IF sc.ss.type \in {"get", "del"} THEN c("success")
            ELSE IF LengthRefused(sc.ss.length) THEN c("error")
            ELSE IF Len(sc.rest) < NumberOf(sc.ss.length) THEN sc
            ELSE c("success")
    BY <1>8, <1>11, <2>1
  <2>3. CASE sc.ss.type = "options"
    <3>1. r = c("options")
      BY <2>2, <2>3
    <3>2. QED
      BY <1>7, <1>11, <2>3, <3>1 DEF Finished, r
  <2>4. CASE sc.ss.type \in {"get", "del"}
    <3>1. r = c("success")
      BY <2>2, <2>4
    <3>2. QED
      BY <1>7, <1>11, <2>4, <3>1 DEF Finished, r
  <2>5. CASE sc.ss.type \in {"post", "put"} /\ LengthRefused(sc.ss.length)
    <3>1. r = c("error")
      BY <2>2, <2>5
    <3>2. QED
      BY <1>7, <1>11, <2>5, <3>1 DEF Finished, r
  <2>6. CASE sc.ss.type \in {"post", "put"} /\ ~ LengthRefused(sc.ss.length)
    <3>1. NumberOf(sc.ss.length) \in Nat
      BY <2>6, NumberIs
    <3>2. CASE Len(sc.rest) < NumberOf(sc.ss.length)
      <4>1. r = sc
        BY <2>2, <2>6, <3>2
      <4>2. QED
        BY <1>11, <2>6, <3>2, <4>1 DEF Finished, r
    <3>3. CASE ~ (Len(sc.rest) < NumberOf(sc.ss.length))
      <4>1. r = c("success")
        BY <2>2, <2>6, <3>3
      <4>2. NumberOf(sc.ss.length) <= Len(sc.rest)
        BY <1>6, <3>1, <3>3
      <4>3. QED
        BY <1>7, <1>11, <2>6, <4>1, <4>2 DEF Finished, r
    <3>4. QED
      BY <3>2, <3>3
  <2>7. QED
    BY <1>2, <2>3, <2>4, <2>5, <2>6
<1>12. QED
  BY <1>1, <1>2, <1>3, <1>9, <1>10, <1>11

(* Where a scan that is done has come to.                                  *)
LEMMA DoneAt ==
    ASSUME NEW ms \in Scripts, NEW n, NEW i, NEW ss, ss.status = "done", At(ms, n, ss, i)
    PROVE  /\ i \in 1..Len(ms) /\ IsRequest(ms[i]) /\ ~ UrlBad(ms[i]) /\ ss.type = ms[i].type
           /\ ss.scanned = Len(FlattenSeq(ms[i].lines)) /\ ss.length = LengthOf(ms[i])
           /\ n = From(ms, i) + Len(FlattenSeq(ms[i].lines))
<1> DEFINE m == ms[i]
<1>1. i \in 1..Len(ms) /\ \E j \in 2..(Len(m.lines) + 1) : AtLine(ms, n, ss, i, j)
  BY DEF At, AtStart
<1>2. PICK j \in 2..(Len(m.lines) + 1) : AtLine(ms, n, ss, i, j)
  BY <1>1
<1>3. /\ IsRequest(m) /\ ~ UrlBad(m) /\ ss.type = m.type
      /\ ss.scanned = Before(m.lines, j) /\ ss.length = LengthIn(m.lines, j - 1)
      /\ ss.status = StatusAt(m, j)
      /\ n = From(ms, i) + Before(m.lines, j)
  BY <1>2 DEF AtLine
<1> HIDE DEF m
<1>4. Len(m.lines) \in Nat /\ Before(m.lines, Len(m.lines) + 1) = Len(FlattenSeq(m.lines))
  BY <1>3, RequestIs
<1>5. j > Len(m.lines)
  BY <1>3 DEF StatusAt
<1>6. j = Len(m.lines) + 1 /\ j - 1 = Len(m.lines)
  BY <1>4, <1>5
<1>7. Before(m.lines, j) = Len(FlattenSeq(m.lines)) /\ LengthIn(m.lines, j - 1) = LengthOf(m)
  BY <1>4, <1>6 DEF LengthOf
<1>8. QED
  BY <1>1, <1>3, <1>7 DEF m

(* How much of its message a scan has read.                                *)
LEMMA ScannedAt ==
    ASSUME NEW ms \in Scripts, NEW n, NEW i, NEW ss, At(ms, n, ss, i)
    PROVE  \/ ss.scanned = 0
           \/ /\ i \in 1..Len(ms) /\ IsRequest(ms[i])
              /\ Len(FlattenSeq(ms[i].lines)) \in Nat /\ ss.scanned \in Nat
              /\ ss.scanned <= Len(FlattenSeq(ms[i].lines))
<1> DEFINE m == ms[i]
<1>1. ASSUME i \in 1..Len(ms), NEW j \in 2..(Len(m.lines) + 1), AtLine(ms, n, ss, i, j)
      PROVE  /\ IsRequest(m) /\ Len(FlattenSeq(m.lines)) \in Nat /\ ss.scanned \in Nat
             /\ ss.scanned <= Len(FlattenSeq(m.lines))
  <2>1. IsRequest(m) /\ ss.scanned = Before(m.lines, j)
    BY <1>1 DEF AtLine
  <2> HIDE DEF m
  <2>2. m.lines \in Seq(Seq(Symbols)) /\ Len(m.lines) \in Nat
        /\ FlattenSeq(m.lines) \in Seq(Symbols)
        /\ Before(m.lines, Len(m.lines) + 1) = Len(FlattenSeq(m.lines))
    BY <2>1, RequestIs
  <2> DEFINE ls == m.lines
             L == Len(ls) + 1
  <2>3. j \in 1..(Len(ls) + 1) /\ L \in j..(Len(ls) + 1)
    BY <2>2
  <2>4. Before(ls, j) \in Nat /\ Before(ls, L) \in Nat /\ Before(ls, j) <= Before(ls, L)
    <3> HIDE DEF L
    <3>1. QED
      BY <2>2, <2>3, BeforeGrows
  <2>5. QED
    BY <2>1, <2>2, <2>4
<1>2. QED
  BY <1>1 DEF At, AtStart

(* A message that is a good one causes no error.                           *)
LEMMA ErrorAt ==
    ASSUME NEW ms \in Scripts, NEW n, NEW i, NEW sc \in Scans, sc.code = "attempt",
           At(ms, n, sc.ss, i), NEW r, Finished(sc, r), r.code = "error"
    PROVE  ~ AllGood(ms)
<1>1. SUFFICES i \in 1..Len(ms) /\ IsRequest(ms[i]) /\ Refused(ms[i])
  BY DEF AllGood, IsRequest
<1>2. HeaderMaxSize \in Nat /\ ~ (0 >= HeaderMaxSize)
  BY LimitsAssumption
<1>3. CASE sc.ss.scanned >= HeaderMaxSize
  <2>1. /\ i \in 1..Len(ms) /\ IsRequest(ms[i])
        /\ Len(FlattenSeq(ms[i].lines)) \in Nat /\ sc.ss.scanned \in Nat
        /\ sc.ss.scanned <= Len(FlattenSeq(ms[i].lines))
    BY <1>2, <1>3, ScannedAt
  <2>2. Len(FlattenSeq(ms[i].lines)) >= HeaderMaxSize
    BY <1>2, <1>3, <2>1
  <2>3. QED
    BY <2>1, <2>2 DEF Refused
<1>4. CASE sc.ss.status = "done" /\ sc.ss.type \in {"post", "put"} /\ LengthRefused(sc.ss.length)
  <2>1. /\ i \in 1..Len(ms) /\ IsRequest(ms[i]) /\ sc.ss.type = ms[i].type
        /\ sc.ss.length = LengthOf(ms[i])
    BY <1>4, DoneAt
  <2>2. QED
    BY <1>4, <2>1 DEF Refused, HasContent
<1>5. QED
  BY <1>3, <1>4 DEF Finished

\* Message i has been read as a whole, up to its content.
Whole(ms, n, i, r) ==
    /\ i \in 1..Len(ms) /\ ms[i].good /\ ms[i].type = r.ss.type
    /\ Body(r) = ms[i].body /\ Len(Body(r)) \in 0..Len(r.rest)
    /\ n - Len(r.rest) + Len(Body(r)) = From(ms, i + 1)

(* A header that is complete and not refused is that of a good message;    *)
(* its content is what follows, if all of it is there.                     *)
LEMMA HeaderIs ==
    ASSUME NEW m, IsRequest(m), ~ UrlBad(m), Len(FlattenSeq(m.lines)) < HeaderMaxSize,
           m.type \in {"post", "put"} => ~ LengthRefused(LengthOf(m))
    PROVE  /\ m.good /\ Len(m.body) \in Nat /\ Len(FlattenSeq(m.lines)) \in Nat
           /\ m.type \in {"post", "put"} => Len(m.body) = NumberOf(LengthOf(m))
           /\ m.type \notin {"post", "put"} => Len(m.body) = 0
<1>1. m.body \in Seq(Symbols) /\ FlattenSeq(m.lines) \in Seq(Symbols)
  BY RequestIs DEF IsRequest
<1> DEFINE y == m.body
           F == FlattenSeq(m.lines)
<1>2. Len(y) \in Nat /\ Len(F) \in Nat
  <2>1. y \in Seq(Symbols) /\ F \in Seq(Symbols)
    BY <1>1
  <2> HIDE DEF y, F
  <2>2. QED
    BY <2>1
<1>3. HeaderMaxSize \in Nat
  BY LimitsAssumption
<1>4. ~ Refused(m)
  <2>1. ~ (Len(F) >= HeaderMaxSize)
    <3>1. Len(F) < HeaderMaxSize
      OBVIOUS
    <3> HIDE DEF F
    <3>2. QED
      BY <1>2, <1>3, <3>1
  <2>2. QED
    BY <2>1 DEF Refused, HasContent, UrlBad
<1>5. m.good
  BY <1>4 DEF IsRequest
<1>6. Len(m.body) = IF HasContent(m) THEN NumberOf(LengthOf(m)) ELSE 0
  BY <1>5 DEF IsRequest
<1>7. QED
  BY <1>2, <1>5, <1>6 DEF HasContent

(* A call that succeeds has read its message and nothing else.             *)
LEMMA WholeAt ==
    ASSUME NEW ms \in Scripts, NEW n \in 0..Len(Wire(ms)), NEW i, NEW sc \in Scans,
           EndsAt(Wire(ms), n, sc.rest), At(ms, n - Len(sc.rest), sc.ss, i),
           NEW r, Finished(sc, r), r.code \in {"options", "success"}
    PROVE  Whole(ms, n, i, r)
<1> DEFINE m == ms[i]
           b == sc.rest
           y == m.body
           F == FlattenSeq(m.lines)
           f == From(ms, i)
<1>1. sc.ss.status = "done" /\ sc.ss.scanned < HeaderMaxSize /\ r.ss = sc.ss /\ r.rest = b
  BY DEF Finished
<1>2. /\ i \in 1..Len(ms) /\ IsRequest(m) /\ ~ UrlBad(m) /\ sc.ss.type = m.type
      /\ sc.ss.scanned = Len(F) /\ sc.ss.length = LengthOf(m)
      /\ n - Len(b) = f + Len(F)
  BY <1>1, DoneAt
<1>3. m.type \in {"post", "put"} => ~ LengthRefused(LengthOf(m)) /\ NumberOf(LengthOf(m)) <= Len(b)
  BY <1>2 DEF Finished
<1>4. /\ m.good /\ Len(y) \in Nat /\ Len(F) \in Nat
      /\ m.type \in {"post", "put"} => Len(y) = NumberOf(LengthOf(m))
      /\ m.type \notin {"post", "put"} => Len(y) = 0
  BY <1>1, <1>2, <1>3, HeaderIs
<1>5. b \in Seq(Symbols) /\ Len(b) \in Nat /\ n \in Nat /\ Len(b) <= n
  <2>1. b \in Seq(Symbols)
    BY DEF Scans
  <2>2. Len(b) <= n /\ n \in Nat
    BY DEF EndsAt
  <2> HIDE DEF b
  <2>3. QED
    BY <2>1, <2>2
<1>6. /\ y \in Seq(Symbols) /\ Len(Text(m)) = Len(F) + Len(y)
      /\ \A k \in 1..Len(y) : Text(m)[Len(F) + k] = y[k]
  <2> HIDE DEF m
  <2>1. QED
    BY <1>2, RequestIs DEF IsRequest
<1>7. f \in Nat /\ From(ms, i + 1) = f + Len(Text(m))
  BY <1>2, WireIs
<1>8. Follows(b, y)
  <2> DEFINE z == Len(F)
  <2>1. z \in Nat /\ n - Len(b) = From(ms, i) + z /\ z + Len(y) <= Len(Text(ms[i]))
        /\ (\A k \in 1..Len(y) : Text(ms[i])[z + k] = y[k]) /\ EndsAt(Wire(ms), n, b)
    BY <1>2, <1>4, <1>6
  <2> HIDE DEF z, y, b, m, f
  <2>2. QED
    BY <1>2, <1>5, <1>6, <2>1, EndsLikePart
<1>9. Body(r) = IF m.type \in {"post", "put"} THEN SubSeq(b, 1, Len(y)) ELSE <<>>
  BY <1>1, <1>2, <1>4 DEF Body
<1> HIDE DEF m, b, y, F, f
<1>10. Len(y) <= Len(b)
  BY <1>3, <1>4, <1>5
<1>11. Body(r) = y
  <2>1. CASE m.type \in {"post", "put"}
    <3> DEFINE p == Len(y)
               c == SubSeq(b, 1, p)
    <3>1. p \in Nat /\ p <= Len(b)
      BY <1>4, <1>10
    <3> HIDE DEF p
    <3>2. c \in Seq(Symbols) /\ Len(c) = p /\ \A k \in 1..p : c[k] = b[k]
      BY <1>5, <3>1
    <3>3. \A k \in 1..p : b[k] = y[k]
      BY <1>5, <1>8, <3>1 DEF Follows, p
    <3> HIDE DEF c
    <3>4. c = y
      BY <1>6, <3>2, <3>3 DEF p
    <3>5. QED
      BY <1>9, <2>1, <3>4 DEF c, p
  <2>2. CASE m.type \notin {"post", "put"}
    <3>1. y = <<>>
      BY <1>4, <1>6, <2>2
    <3>2. QED
      BY <1>9, <2>2, <3>1
  <2>3. QED
    BY <2>1, <2>2
<1>12. Len(Body(r)) \in 0..Len(r.rest)
  BY <1>1, <1>4, <1>5, <1>10, <1>11
<1>13. n - Len(r.rest) + Len(Body(r)) = From(ms, i + 1)
  <2>1. n - Len(b) = f + Len(F) /\ From(ms, i + 1) = f + (Len(F) + Len(y))
    BY <1>2, <1>6, <1>7
  <2>2. n - Len(b) + Len(y) = From(ms, i + 1)
    BY <1>4, <1>5, <1>7, <2>1
  <2>3. QED
    BY <1>1, <1>11, <2>2
<1>14. QED
  BY <1>1, <1>2, <1>4, <1>11, <1>12, <1>13 DEF Whole, m, y

(* A scan that stays attempted waits for more of its message.              *)
LEMMA WaitsAt ==
    ASSUME NEW ms \in Scripts, NEW n \in 0..Len(Wire(ms)), NEW i \in 1..(Len(ms) + 1),
           NEW sc \in Scans, EndsAt(Wire(ms), n, sc.rest),
           sc.long => Len(sc.rest) > EnoughLength,
           At(ms, n - Len(sc.rest), sc.ss, i), sc.ss.status # "clean",
           sc.ss.status = "request" => Waits(ms, n, i),
           sc.ss.status = "properties" => sc = NextLine(sc) \/ sc.ss.scanned >= HeaderMaxSize,
           NEW r, Finished(sc, r), r.code = "attempt"
    PROVE  Waits(ms, n, i)
<1>1. sc.code = "attempt" /\ sc.ss.scanned < HeaderMaxSize /\ sc.ss \in Statuses
  BY DEF Finished, Scans
<1>2. sc.ss.status \in {"request", "properties", "done"} /\ sc.ss.scanned \in Nat
  BY <1>1 DEF Statuses
<1>3. CASE sc.ss.status = "properties"
  <2>1. HeaderMaxSize \in Nat
    BY LimitsAssumption
  <2>2. sc = NextLine(sc)
    BY <1>1, <1>2, <1>3, <2>1
  <2>3. QED
    BY <1>1, <1>3, <2>2, NextLineAt
<1>4. CASE sc.ss.status = "done"
  <2> DEFINE m == ms[i]
             b == sc.rest
             y == m.body
             F == FlattenSeq(m.lines)
             f == From(ms, i)
  <2>1. /\ i \in 1..Len(ms) /\ IsRequest(m) /\ ~ UrlBad(m) /\ sc.ss.type = m.type
        /\ sc.ss.scanned = Len(F) /\ sc.ss.length = LengthOf(m)
        /\ n - Len(b) = f + Len(F)
    BY <1>4, DoneAt
  <2>2. m.type \in {"post", "put"} /\ ~ LengthRefused(LengthOf(m)) /\ Len(b) < NumberOf(LengthOf(m))
    BY <1>4, <2>1 DEF Finished
  <2>3. Len(y) \in Nat /\ Len(F) \in Nat /\ Len(y) = NumberOf(LengthOf(m))
    BY <1>1, <2>1, <2>2, HeaderIs
  <2>4. Len(Text(m)) = Len(F) + Len(y)
    <3> HIDE DEF m
    <3>1. QED
      BY <2>1, RequestIs
  <2>5. f \in Nat /\ From(ms, i + 1) = f + Len(Text(m))
    BY <2>1, WireIs
  <2>6. Len(b) \in Nat /\ n \in Nat
    <3>1. b \in Seq(Symbols)
      BY DEF Scans
    <3> HIDE DEF b
    <3>2. QED
      BY <3>1
  <2> HIDE DEF m, b, y, F, f
  <2>7. n < From(ms, i + 1)
    <3>1. n - Len(b) = f + Len(F) /\ From(ms, i + 1) = f + (Len(F) + Len(y)) /\ Len(b) < Len(y)
      BY <2>1, <2>2, <2>3, <2>4, <2>5
    <3>2. QED
      BY <2>3, <2>5, <2>6, <3>1
  <2>8. QED
    BY <2>7 DEF Waits
<1>5. QED
  BY <1>2, <1>3, <1>4

-----------------------------------------------------------------------------
(* What has been told.                                                     *)

\* The messages before i since an error at place b.
Since(ms, b, i)    == {k \in 1..Len(ms) : b <= From(ms, k) /\ k < i}
Requests(ms, b, i) == {k \in Since(ms, b, i) : ms[k].type # "options"}
Options(ms, b, i)  == {k \in Since(ms, b, i) : ms[k].type = "options"}

\* They are good, and the requests among them are what has been added to the
\* packets ps, as the replies rs are to those h that there were at the error.
Packet(m)    == [type |-> m.type, body |-> m.body]
UpTo(S, k)   == Cardinality({l \in S : l <= k})
Told(ms, b, i, ps, rs, h) ==
    /\ \A k \in Since(ms, b, i) : ms[k].good
    /\ Len(ps) = h[1] + Cardinality(Requests(ms, b, i))
    /\ \A k \in Requests(ms, b, i) : ps[h[1] + UpTo(Requests(ms, b, i), k)] = Packet(ms[k])
    /\ rs = h[2] + Cardinality(Options(ms, b, i))

(* Every message is of some length, so they begin at different places.     *)
LEMMA FromGrows ==
    ASSUME NEW ms \in Scripts, NEW i \in 1..(Len(ms) + 1), NEW k \in 1..Len(ms), k < i
    PROVE  /\ From(ms, k) \in Nat /\ From(ms, k + 1) \in Nat /\ From(ms, i) \in Nat
           /\ From(ms, k) < From(ms, k + 1) /\ From(ms, k + 1) <= From(ms, i)
<1>1. /\ From(ms, k + 1) = From(ms, k) + Len(Text(ms[k])) /\ IsMessage(ms[k])
      /\ Len(ms) \in Nat
  BY WireIs
<1>2. Text(ms[k]) \in Seq(Symbols) /\ Len(Text(ms[k])) >= 1
  BY <1>1, MessageIs
<1>3. Len(Text(ms[k])) \in Nat
  BY <1>2
<1>4. k \in 1..(Len(ms) + 1) /\ k + 1 \in 1..(Len(ms) + 1) /\ i \in (k + 1)..(Len(ms) + 1)
  BY <1>1
<1>5. From(ms, k) \in Nat /\ From(ms, k + 1) \in Nat /\ From(ms, i) \in Nat
      /\ From(ms, k + 1) <= From(ms, i)
  <2> DEFINE j == k + 1
  <2>1. j \in 1..(Len(ms) + 1) /\ i \in j..(Len(ms) + 1)
    BY <1>4
  <2> HIDE DEF j
  <2>2. From(ms, k) \in Nat /\ From(ms, j) \in Nat /\ From(ms, i) \in Nat
        /\ From(ms, j) <= From(ms, i)
    BY <1>4, <2>1, WireIs
  <2>3. QED
    BY <2>2 DEF j
<1>6. QED
  BY <1>1, <1>2, <1>3, <1>5

(* These sets can be counted.                                              *)
LEMMA SinceFinite ==
    ASSUME NEW ms \in Scripts, NEW b, NEW i
    PROVE  /\ IsFiniteSet(Since(ms, b, i)) /\ IsFiniteSet(Requests(ms, b, i))
           /\ IsFiniteSet(Options(ms, b, i))
           /\ Cardinality(Requests(ms, b, i)) \in Nat /\ Cardinality(Options(ms, b, i)) \in Nat
<1>1. Len(ms) \in Nat
  BY WireIs
<1>2. IsFiniteSet(1..Len(ms))
  BY <1>1, FS_Interval
<1>3. IsFiniteSet(Since(ms, b, i))
  BY <1>2, FS_Subset DEF Since
<1>4. IsFiniteSet(Requests(ms, b, i)) /\ IsFiniteSet(Options(ms, b, i))
  BY <1>3, FS_Subset DEF Requests, Options
<1>5. QED
  BY <1>3, <1>4, FS_CardinalityType

(* Right after an error nothing has been told.                             *)
LEMMA ToldNone ==
    ASSUME NEW ms \in Scripts, NEW i \in 1..(Len(ms) + 1), NEW b, b = From(ms, i),
           NEW ps, NEW rs \in Nat, Len(ps) \in Nat,
           NEW h, h[1] = Len(ps), h[2] = rs
    PROVE  Told(ms, b, i, ps, rs, h)
<1>1. ASSUME NEW k \in Since(ms, b, i) PROVE FALSE
  <2>1. k \in 1..Len(ms) /\ k < i /\ From(ms, i) <= From(ms, k)
    BY DEF Since
  <2>2. QED
    BY <2>1, FromGrows
<1>2. Since(ms, b, i) = {}
  BY <1>1
<1>3. Requests(ms, b, i) = {} /\ Options(ms, b, i) = {}
  BY <1>2 DEF Requests, Options
<1>4. QED
  BY <1>2, <1>3, FS_EmptySet DEF Told

(* One message more.                                                       *)
LEMMA SinceMore ==
    ASSUME NEW ms \in Scripts, NEW i \in 1..Len(ms), NEW b, b <= From(ms, i)
    PROVE  /\ Since(ms, b, i + 1) = Since(ms, b, i) \cup {i} /\ i \notin Since(ms, b, i)
           /\ \A k \in Since(ms, b, i) : k \in Nat /\ k < i /\ i \in Nat
           /\ ms[i].type = "options" =>
                 /\ Requests(ms, b, i + 1) = Requests(ms, b, i)
                 /\ Cardinality(Options(ms, b, i + 1)) = Cardinality(Options(ms, b, i)) + 1
           /\ ms[i].type # "options" =>
                 /\ Options(ms, b, i + 1) = Options(ms, b, i)
                 /\ Requests(ms, b, i + 1) = Requests(ms, b, i) \cup {i}
                 /\ Cardinality(Requests(ms, b, i + 1)) = Cardinality(Requests(ms, b, i)) + 1
<1>1. i \in Nat /\ \A k \in 1..Len(ms) : k \in Nat
  BY WireIs
<1>2. Since(ms, b, i + 1) = Since(ms, b, i) \cup {i}
  <2>1. \A k \in 1..Len(ms) : k < i + 1 <=> (k < i \/ k = i)
    BY <1>1
  <2>2. QED
    BY <2>1 DEF Since
<1>3. i \notin Since(ms, b, i) /\ \A k \in Since(ms, b, i) : k \in Nat /\ k < i /\ i \in Nat
  BY <1>1 DEF Since
<1>4. ASSUME ms[i].type = "options"
      PROVE  /\ Requests(ms, b, i + 1) = Requests(ms, b, i)
             /\ Cardinality(Options(ms, b, i + 1)) = Cardinality(Options(ms, b, i)) + 1
  <2>1. Requests(ms, b, i + 1) = Requests(ms, b, i)
        /\ Options(ms, b, i + 1) = Options(ms, b, i) \cup {i}
    BY <1>2, <1>4 DEF Requests, Options
  <2>2. i \notin Options(ms, b, i)
    BY <1>3 DEF Options
  <2>3. QED
    BY <2>1, <2>2, SinceFinite, FS_AddElement
<1>5. ASSUME ms[i].type # "options"
      PROVE  /\ Options(ms, b, i + 1) = Options(ms, b, i)
             /\ Requests(ms, b, i + 1) = Requests(ms, b, i) \cup {i}
             /\ Cardinality(Requests(ms, b, i + 1)) = Cardinality(Requests(ms, b, i)) + 1
  <2>1. Options(ms, b, i + 1) = Options(ms, b, i)
        /\ Requests(ms, b, i + 1) = Requests(ms, b, i) \cup {i}
    BY <1>2, <1>5 DEF Requests, Options
  <2>2. i \notin Requests(ms, b, i)
    BY <1>3 DEF Requests
  <2>3. QED
    BY <2>1, <2>2, SinceFinite, FS_AddElement
<1>6. QED
  BY <1>2, <1>3, <1>4, <1>5

(* An OPTIONS request that is answered.                                    *)
LEMMA ToldOptions ==
    ASSUME NEW ms \in Scripts, NEW i \in 1..Len(ms), NEW b, b <= From(ms, i),
           NEW ps, NEW rs \in Nat, NEW h, h[2] \in Nat, Told(ms, b, i, ps, rs, h),
           ms[i].good, ms[i].type = "options"
    PROVE  Told(ms, b, i + 1, ps, rs + 1, h)
<1>1. /\ Since(ms, b, i + 1) = Since(ms, b, i) \cup {i}
      /\ Requests(ms, b, i + 1) = Requests(ms, b, i)
      /\ Cardinality(Options(ms, b, i + 1)) = Cardinality(Options(ms, b, i)) + 1
  BY SinceMore
<1>2. Cardinality(Options(ms, b, i)) \in Nat
  BY SinceFinite
<1>3. rs + 1 = h[2] + Cardinality(Options(ms, b, i + 1))
  BY <1>1, <1>2 DEF Told
<1>4. QED
  BY <1>1, <1>3 DEF Told

(* A request that is handed over.                                          *)
LEMMA ToldRequest ==
    ASSUME NEW ms \in Scripts, NEW i \in 1..Len(ms), NEW b, b <= From(ms, i),
           NEW ps \in Seq(Packets), NEW rs, NEW h, h[1] \in Nat, Told(ms, b, i, ps, rs, h),
           ms[i].good, ms[i].type # "options",
           NEW qs, qs = Append(ps, Packet(ms[i]))
    PROVE  Told(ms, b, i + 1, qs, rs, h)
<1> DEFINE R == Requests(ms, b, i)
           Q == Requests(ms, b, i + 1)
           c == Cardinality(R)
<1>1. /\ Since(ms, b, i + 1) = Since(ms, b, i) \cup {i}
      /\ Options(ms, b, i + 1) = Options(ms, b, i)
      /\ Q = R \cup {i} /\ Cardinality(Q) = c + 1
      /\ \A k \in R : k \in Nat /\ k < i /\ i \in Nat
  BY SinceMore DEF Requests
<1>2. c \in Nat /\ IsFiniteSet(R) /\ IsFiniteSet(Q)
  BY SinceFinite
<1>3. Len(ps) = h[1] + c /\ Len(ps) \in Nat
      /\ \A k \in R : ps[h[1] + UpTo(R, k)] = Packet(ms[k])
  BY DEF Told
<1>4. Len(qs) = Len(ps) + 1 /\ qs[Len(ps) + 1] = Packet(ms[i])
      /\ \A x \in 1..Len(ps) : qs[x] = ps[x]
  <2> DEFINE p == Packet(ms[i])
  <2>1. qs = Append(ps, p)
    OBVIOUS
  <2> HIDE DEF p
  <2>2. QED
    BY <2>1 DEF p
<1>5. i \in Nat
  BY WireIs
<1> HIDE DEF R, Q, c
<1>6. ASSUME NEW k \in Q PROVE qs[h[1] + UpTo(Q, k)] = Packet(ms[k])
  <2>1. CASE k = i
    <3>1. {l \in Q : l <= k} = Q
      <4>1. \A l \in R : l <= i
        BY <1>1, <1>5
      <4>2. i <= i
        BY <1>5
      <4>3. \A l \in Q : l <= k
        BY <1>1, <2>1, <4>1, <4>2
      <4>4. QED
        BY <4>3
    <3>2. UpTo(Q, k) = c + 1
      BY <1>1, <3>1 DEF UpTo
    <3>3. h[1] + UpTo(Q, k) = Len(ps) + 1
      BY <1>2, <1>3, <3>2
    <3>4. QED
      BY <1>4, <2>1, <3>3
  <2>2. CASE k # i
    <3>1. k \in R /\ k \in Nat /\ k < i
      BY <1>1, <2>2
    <3>2. {l \in Q : l <= k} = {l \in R : l <= k}
      <4>1. ~ (i <= k)
        BY <1>5, <3>1
      <4>2. QED
        BY <1>1, <4>1
    <3>3. UpTo(Q, k) = UpTo(R, k)
      BY <3>2 DEF UpTo
    <3>4. UpTo(R, k) \in 1..c
      <4> DEFINE V == {l \in R : l <= k}
      <4>1. IsFiniteSet(V) /\ Cardinality(V) <= c
        BY <1>2, FS_Subset DEF c
      <4>2. k \in V
        BY <3>1
      <4>3. Cardinality(V) \in Nat /\ Cardinality(V) # 0
        BY <4>1, <4>2, FS_CardinalityType, FS_EmptySet
      <4>4. UpTo(R, k) = Cardinality(V)
        BY DEF UpTo
      <4> HIDE DEF V
      <4>5. QED
        BY <1>2, <4>1, <4>3, <4>4
    <3>5. h[1] + UpTo(R, k) \in 1..Len(ps)
      BY <1>2, <1>3, <3>4
    <3>6. QED
      BY <1>3, <1>4, <3>1, <3>3, <3>5
  <2>3. QED
    BY <2>1, <2>2
<1>7. Len(qs) = h[1] + Cardinality(Q)
  BY <1>1, <1>2, <1>3, <1>4
<1>8. QED
  BY <1>1, <1>6, <1>7 DEF Told, R, Q

-----------------------------------------------------------------------------
(* The inductive invariant.                                                *)

(* The types, and what the scan has to do with the text.                   *)
Arriving ==
    /\ script \in Scripts /\ wire = Wire(script)
    /\ sent \in 0..Len(wire) /\ base \in 0..sent
    /\ m_receive_stream \in Seq(Symbols) /\ EndsAt(wire, sent, m_receive_stream)
Between ==
    /\ pc \in {"idle", "loop", "method", "lines", "reply"}
    /\ ssd = NoStatus \/ (ssd \in Statuses /\ ssd.status # "clean")
Scanning ==
    pc \in {"method", "lines"} =>
        /\ scan \in Scans /\ EndsAt(wire, sent, scan.rest)
        /\ scan.long => Len(scan.rest) > EnoughLength
        /\ pc = "method" => /\ scan.code = "attempt" /\ scan.rest # <<>>
                            /\ scan.ss.status \in {"clean", "request"}
        /\ (pc = "lines" /\ scan.code = "attempt") => scan.ss.status # "clean"
Telling == packets \in Seq(Packets) /\ heard \in Nat \X Nat

\* What has been taken of OPTIONS has been answered, but for the one that is
\* about to be.
Answering ==
    /\ autoreply \in Nat /\ replied \in 0..autoreply
    /\ (pc # "reply" \/ ssd # NoStatus) => replied = autoreply
    /\ (pc = "reply" /\ ssd = NoStatus) => autoreply > 0

TypeInv == Arriving /\ Between /\ Scanning /\ Telling /\ Answering

\* What the next turn of the loop begins with.
Status == IF ssd = NoStatus THEN Fresh ELSE ssd

\* The scan of an incomplete message has come to its end, and no more of it
\* has been taken up since.
Waiting ==
    \/ pc = "idle"
    \/ pc = "reply" /\ ssd # NoStatus
    \/ pc = "loop" /\ ssd # NoStatus /\ m_receive_stream = <<>>

(* Where the scan is when the last error was told between two messages.    *)
Place(i) ==
    /\ base <= From(script, i) /\ Told(script, base, i, packets, autoreply, heard)
    /\ pc \in {"idle", "loop", "reply"} => At(script, sent - Len(m_receive_stream), Status, i)
    /\ Waiting => Waits(script, sent, i)
    /\ pc = "method" => At(script, sent - Len(scan.rest), scan.ss, i)
    /\ pc = "lines" =>
          IF scan.code = "error" THEN ~ AllGood(script)
          ELSE /\ At(script, sent - Len(scan.rest), scan.ss, i)
               /\ scan.ss.status = "request" => Waits(script, sent, i)

AlignedAt(ms, b) == \E i \in 1..(Len(ms) + 1) : b = From(ms, i)
PlaceInv == AlignedAt(script, base) => \E i \in 1..(Len(script) + 1) : Place(i)
GoodInv  == AllGood(script) => base = 0
IInv     == TypeInv /\ PlaceInv /\ GoodInv

(* The status that a scan begins with.                                     *)
LEMMA FreshIs ==
    /\ Fresh \in Statuses /\ Fresh.status = "clean" /\ Fresh.scanned = 0 /\ Fresh.length = "none"
    /\ \A ss \in Statuses : ss # NoStatus
<1>1. Fresh \in Statuses /\ Fresh.status = "clean" /\ Fresh.scanned = 0 /\ Fresh.length = "none"
  BY MethodsAre DEF Fresh, Statuses
<1>2. \A ss \in Statuses : ss # NoStatus
  <2>1. \A ss \in Statuses : ss.status \in {"clean", "request", "properties", "done"}
    BY DEF Statuses
  <2>2. NoStatus.status = "none"
    BY DEF NoStatus
  <2>3. QED
    BY <2>1, <2>2
<1>3. QED
  BY <1>1, <1>2

(* The scan of a call begins with the whole text that is there.            *)
LEMMA ScanIs ==
    ASSUME NEW ss \in Statuses, NEW s \in Seq(Symbols), NEW r, r = Scan(ss, s)
    PROVE  /\ r \in Scans /\ r.ss = ss /\ r.rest = s /\ r.code = "attempt"
           /\ r.long => Len(s) > EnoughLength
<1>1. (Len(s) > EnoughLength) \in BOOLEAN
  OBVIOUS
<1>2. QED
  BY <1>1 DEF Scan, Scans

(* A connection begins in front of the first message.                      *)
THEOREM HttpInit == Init => IInv
<1>1. SUFFICES ASSUME Init PROVE IInv
  OBVIOUS
<1>2. /\ script \in Scripts /\ wire = Wire(script) /\ sent = 0 /\ m_receive_stream = <<>>
      /\ ssd = NoStatus /\ autoreply = 0 /\ pc = "idle" /\ packets = <<>> /\ replied = 0
      /\ base = 0 /\ heard = <<0, 0>>
  BY <1>1 DEF Init
<1>3. Wire(script) \in Seq(Symbols) /\ Len(script) \in Nat /\ From(script, 1) = 0
  BY <1>2, WireIs
<1>4. Len(wire) \in Nat
  BY <1>2, <1>3
<1>5. EndsAt(wire, sent, m_receive_stream)
  BY <1>2 DEF EndsAt
<1>6. TypeInv
  BY <1>2, <1>4, <1>5 DEF TypeInv, Arriving, Between, Scanning, Telling, Answering
<1>7. 1 \in 1..(Len(script) + 1)
  BY <1>3
<1>8. Told(script, 0, 1, packets, autoreply, heard)
  BY <1>2, <1>3, <1>7, ToldNone
<1>9. At(script, 0, Fresh, 1)
  BY <1>3, FreshIs DEF At, AtStart
<1>10. Waits(script, 0, 1)
  <2>1. ASSUME 1 \in 1..Len(script) PROVE 0 < From(script, 2)
    <3>1. 2 \in 1..(Len(script) + 1) /\ 1 < 2 /\ 1 + 1 = 2
      BY <1>3, <2>1
    <3>2. From(script, 1) < From(script, 1 + 1)
      BY <1>2, <2>1, <3>1, FromGrows
    <3>3. QED
      BY <1>3, <3>1, <3>2
  <2>2. 1 + 1 = 2
    OBVIOUS
  <2>3. QED
    BY <2>1, <2>2 DEF Waits
<1>11. Place(1)
  <2>1. sent - Len(m_receive_stream) = 0 /\ Status = Fresh
    <3>1. Len(m_receive_stream) = 0
      BY <1>2
    <3>2. sent - Len(m_receive_stream) = 0
      <4>1. sent = 0
        BY <1>2
      <4>2. QED
        BY <3>1, <4>1
    <3>3. QED
      BY <1>2, <3>2 DEF Status
  <2>2. QED
    BY <1>2, <1>3, <1>8, <1>9, <1>10, <2>1 DEF Place
<1>12. QED
  BY <1>2, <1>6, <1>7, <1>11 DEF IInv, PlaceInv, GoodInv

(* A piece arrives: the scan is where it was.                              *)
LEMMA DeliverKeeps ==
    ASSUME IInv, NEW n \in 1..Len(wire), Deliver(n)
    PROVE  IInv'
<1>1. /\ script \in Scripts /\ wire = Wire(script) /\ sent \in 0..Len(wire) /\ base \in 0..sent
      /\ m_receive_stream \in Seq(Symbols) /\ EndsAt(wire, sent, m_receive_stream)
      /\ (ssd = NoStatus \/ (ssd \in Statuses /\ ssd.status # "clean"))
      /\ Telling /\ Answering
  BY DEF IInv, TypeInv, Arriving, Between
<1> DEFINE z == sent + n
           m == m_receive_stream
<1>2. /\ pc = "idle" /\ z <= Len(wire) /\ sent' = z /\ m' = m \o SubSeq(wire, sent + 1, z)
      /\ pc' = "loop" /\ wire' = wire /\ script' = script /\ ssd' = ssd /\ scan' = scan
      /\ autoreply' = autoreply /\ packets' = packets /\ replied' = replied /\ base' = base
      /\ heard' = heard
  BY DEF Deliver, history
<1>3. wire \in Seq(Symbols) /\ Len(wire) \in Nat
  BY <1>1, WireIs
<1>4. sent \in Nat /\ n \in Nat /\ n >= 1 /\ z \in sent..Len(wire) /\ z - sent = n /\ z \in 0..Len(wire)
      /\ base \in 0..z
  BY <1>1, <1>2, <1>3
<1> HIDE DEF z
<1>5. m' \in Seq(Symbols) /\ Len(m') = Len(m) + (z - sent) /\ EndsAt(wire, z, m')
  <2>1. Grown(wire, sent, z, m, m \o Piece(wire, sent, z))
    BY <1>1, <1>3, <1>4, EndsLonger
  <2>2. m' = m \o Piece(wire, sent, z)
    BY <1>2 DEF Piece
  <2>3. QED
    BY <2>1, <2>2 DEF Grown
<1>6. Len(m) \in Nat
  BY <1>1
<1>7. m' # <<>>
  <2>1. Len(m') >= 1
    BY <1>4, <1>5, <1>6
  <2>2. Len(<<>>) = 0
    OBVIOUS
  <2>3. QED
    BY <2>1, <2>2
<1>8. sent' - Len(m') = sent - Len(m)
  BY <1>2, <1>4, <1>5, <1>6
<1>9. TypeInv'
  <2>1. Arriving'
    BY <1>1, <1>2, <1>4, <1>5 DEF Arriving
  <2>2. Between' /\ Scanning' /\ Telling' /\ Answering'
    BY <1>1, <1>2, <1>7 DEF Between, Scanning, Telling, Answering
  <2>3. QED
    BY <2>1, <2>2 DEF TypeInv
<1> HIDE DEF m
<1>10. ASSUME NEW i \in 1..(Len(script) + 1), Place(i) PROVE Place(i)'
  <2>1. /\ base <= From(script, i) /\ Told(script, base, i, packets, autoreply, heard)
        /\ At(script, sent - Len(m), Status, i)
    BY <1>2, <1>10 DEF Place, m
  <2>2. Status' = Status
    BY <1>2 DEF Status
  <2>3. At(script, sent' - Len(m'), Status', i)
    BY <1>8, <2>1, <2>2
  <2>4. ~ Waiting'
    BY <1>2, <1>7 DEF Waiting, m
  <2>5. QED
    BY <1>2, <2>1, <2>3, <2>4 DEF Place, m
<1>11. PlaceInv'
  BY <1>2, <1>10 DEF IInv, PlaceInv
<1>12. QED
  BY <1>2, <1>9, <1>11 DEF IInv, GoodInv

(* A turn of the loop begins with the text that is there.                  *)
LEMMA LoadKeeps ==
    ASSUME IInv, Load
    PROVE  IInv'
<1> DEFINE m == m_receive_stream
           st == Status
<1>1. /\ script \in Scripts /\ wire = Wire(script) /\ sent \in 0..Len(wire) /\ base \in 0..sent
      /\ m \in Seq(Symbols) /\ EndsAt(wire, sent, m)
      /\ (ssd = NoStatus \/ (ssd \in Statuses /\ ssd.status # "clean"))
      /\ Telling /\ Answering
  BY DEF IInv, TypeInv, Arriving, Between
<1>2. /\ pc = "loop" /\ m # <<>> /\ scan' = Scan(st, m)
      /\ pc' = IF scan'.ss.status \in {"clean", "request"} THEN "method" ELSE "lines"
      /\ wire' = wire /\ script' = script /\ sent' = sent /\ m' = m /\ ssd' = ssd
      /\ autoreply' = autoreply /\ packets' = packets /\ replied' = replied /\ base' = base
      /\ heard' = heard
  BY DEF Load, history, Status
<1>3. st \in Statuses
  BY <1>1, FreshIs DEF Status
<1> HIDE DEF m, st
<1>4. /\ scan' \in Scans /\ scan'.ss = st /\ scan'.rest = m /\ scan'.code = "attempt"
      /\ scan'.long => Len(m) > EnoughLength
  BY <1>1, <1>2, <1>3, ScanIs
<1>5. /\ pc' \in {"method", "lines"}
      /\ pc' = "method" => st.status \in {"clean", "request"}
      /\ pc' = "lines" => st.status # "clean" /\ st.status # "request"
  BY <1>2, <1>4
<1>6. TypeInv'
  <2>1. Arriving'
    BY <1>1, <1>2 DEF Arriving, m
  <2>2. Between' /\ Telling' /\ Answering'
    BY <1>1, <1>2, <1>5 DEF Between, Telling, Answering
  <2>3. Scanning'
    BY <1>1, <1>2, <1>4, <1>5 DEF Scanning
  <2>4. QED
    BY <2>1, <2>2, <2>3 DEF TypeInv
<1>7. ASSUME NEW i \in 1..(Len(script) + 1), Place(i) PROVE Place(i)'
  <2>1. /\ base <= From(script, i) /\ Told(script, base, i, packets, autoreply, heard)
        /\ At(script, sent - Len(m), st, i)
    BY <1>2, <1>7 DEF Place, m, st
  <2>2. At(script, sent' - Len(scan'.rest), scan'.ss, i)
    BY <1>2, <1>4, <2>1
  <2>3. scan'.code # "error"
    BY <1>4
  <2>4. pc' = "lines" => scan'.ss.status # "request"
    BY <1>4, <1>5
  <2>5. pc' \notin {"idle", "loop", "reply"} /\ ~ Waiting'
    BY <1>5 DEF Waiting
  <2>6. QED
    BY <1>2, <2>1, <2>2, <2>3, <2>4, <2>5 DEF Place
<1>8. PlaceInv'
  BY <1>2, <1>7 DEF IInv, PlaceInv
<1>9. QED
  BY <1>2, <1>6, <1>8 DEF IInv, GoodInv

\* The scan r goes on from sc: with the same text, or less of it.
GoesOnFrom(r, sc) ==
    /\ r \in Scans /\ LongAs(r, sc) /\ r.code \in {sc.code, "error"}
    /\ \/ r.rest = sc.rest
       \/ \E d \in 0..Len(sc.rest) : r.rest = SubSeq(sc.rest, d + 1, Len(sc.rest))

(* A step of the scan leaves the end of the text that has arrived.         *)
LEMMA StepTypes ==
    ASSUME NEW w \in Seq(Symbols), NEW n \in 0..Len(w), NEW sc \in Scans,
           EndsAt(w, n, sc.rest), sc.long => Len(sc.rest) > EnoughLength,
           NEW r, GoesOnFrom(r, sc)
    PROVE  EndsAt(w, n, r.rest) /\ (r.long => Len(r.rest) > EnoughLength)
<1>1. sc.rest \in Seq(Symbols)
  BY DEF Scans
<1>2. EndsAt(w, n, r.rest)
  <2>1. CASE r.rest = sc.rest
    BY <2>1
  <2>2. ASSUME NEW d \in 0..Len(sc.rest), r.rest = SubSeq(sc.rest, d + 1, Len(sc.rest))
        PROVE  EndsAt(w, n, r.rest)
    <3> DEFINE b == sc.rest
               t == r.rest
    <3>1. /\ b \in Seq(Symbols) /\ EndsAt(w, n, b) /\ d \in 0..Len(b)
          /\ t = SubSeq(b, d + 1, Len(b))
      BY <1>1, <2>2
    <3> HIDE DEF b, t
    <3>2. EndsAt(w, n, t)
      BY <3>1, EndsShorter
    <3>3. QED
      BY <3>2 DEF t
  <2>3. QED
    BY <2>1, <2>2 DEF GoesOnFrom
<1>3. r.long => Len(r.rest) > EnoughLength
  BY DEF GoesOnFrom, LongAs
<1>4. QED
  BY <1>2, <1>3

\* Nothing but the scan changes.
OnlyScan ==
    /\ wire' = wire /\ script' = script /\ sent' = sent /\ m_receive_stream' = m_receive_stream
    /\ ssd' = ssd /\ autoreply' = autoreply /\ packets' = packets /\ replied' = replied
    /\ base' = base /\ heard' = heard /\ pc' = "lines"

(* A step of the scan keeps the types.                                     *)
LEMMA ScanTypes ==
    ASSUME TypeInv, pc \in {"method", "lines"}, OnlyScan, GoesOnFrom(scan', scan),
           scan'.code = "attempt" => scan'.ss.status # "clean"
    PROVE  TypeInv'
<1>1. /\ scan \in Scans /\ EndsAt(wire, sent, scan.rest)
      /\ scan.long => Len(scan.rest) > EnoughLength
      /\ Arriving /\ Telling /\ Between /\ Answering
  BY DEF TypeInv, Scanning
<1>2. wire \in Seq(Symbols) /\ sent \in 0..Len(wire)
  <2>1. script \in Scripts /\ wire = Wire(script) /\ sent \in 0..Len(wire)
    BY <1>1 DEF Arriving
  <2>2. QED
    BY <2>1, WireIs
<1>3. EndsAt(wire, sent, scan'.rest) /\ (scan'.long => Len(scan'.rest) > EnoughLength)
  BY <1>1, <1>2, StepTypes
<1>4. scan' \in Scans
  BY DEF GoesOnFrom
<1>5. Scanning'
  BY <1>3, <1>4 DEF OnlyScan, Scanning
<1>6. Arriving' /\ Between' /\ Telling' /\ Answering'
  BY <1>1 DEF OnlyScan, Arriving, Between, Telling, Answering
<1>7. QED
  BY <1>5, <1>6 DEF TypeInv

(* The line that names the method.                                         *)
LEMMA LoadRequestLineKeeps ==
    ASSUME IInv, LoadRequestLine
    PROVE  IInv'
<1>1. pc = "method" /\ scan' = RequestLine(scan) /\ OnlyScan
  BY DEF LoadRequestLine, OnlyScan, history
<1>2. /\ scan \in Scans /\ scan.code = "attempt" /\ scan.rest # <<>>
      /\ scan.ss.status \in {"clean", "request"} /\ EndsAt(wire, sent, scan.rest)
      /\ scan.long => Len(scan.rest) > EnoughLength
  BY <1>1 DEF IInv, TypeInv, Scanning
<1>3. script \in Scripts /\ wire = Wire(script) /\ sent \in 0..Len(Wire(script))
  BY DEF IInv, TypeInv, Arriving
<1>4. GoesOnFrom(scan', scan) /\ (scan'.code = "error" \/ scan'.ss.status \in {"request", "properties"})
  BY <1>1, <1>2, RequestLineTypes DEF GoesOnFrom
<1>5. TypeInv'
  <2>1. scan'.code = "attempt" => scan'.ss.status # "clean"
    BY <1>4
  <2>2. QED
    BY <1>1, <1>4, <2>1, ScanTypes DEF IInv
<1>6. ASSUME NEW i \in 1..(Len(script) + 1), Place(i) PROVE Place(i)'
  <2>1. /\ base <= From(script, i) /\ Told(script, base, i, packets, autoreply, heard)
        /\ At(script, sent - Len(scan.rest), scan.ss, i)
    BY <1>1, <1>6 DEF Place
  <2>2. EndsAt(Wire(script), sent, scan.rest)
    BY <1>2, <1>3
  <2>3. \/ scan'.code = "error" /\ ~ AllGood(script)
        \/ /\ scan'.code = "attempt" /\ At(script, sent - Len(scan'.rest), scan'.ss, i)
           /\ scan'.ss.status = "request" => Waits(script, sent, i)
    BY <1>1, <1>2, <1>3, <2>1, <2>2, RequestLineAt
  <2>4. QED
    BY <1>1, <2>1, <2>3 DEF Place, OnlyScan, Waiting
<1>7. PlaceInv'
  BY <1>1, <1>6 DEF IInv, PlaceInv, OnlyScan
<1>8. QED
  BY <1>1, <1>5, <1>7 DEF IInv, GoodInv, OnlyScan

(* A line of the properties.                                               *)
LEMMA LoadLineKeeps ==
    ASSUME IInv, LoadLine
    PROVE  IInv'
<1>1. /\ pc = "lines" /\ scan' = NextLine(scan) /\ OnlyScan
      /\ scan.code = "attempt" /\ scan.ss.status = "properties"
  BY DEF LoadLine, OnlyScan, MoreLines, history
<1>2. /\ scan \in Scans /\ EndsAt(wire, sent, scan.rest)
      /\ scan.long => Len(scan.rest) > EnoughLength
  BY <1>1 DEF IInv, TypeInv, Scanning
<1>3. script \in Scripts /\ wire = Wire(script) /\ sent \in 0..Len(Wire(script))
  BY DEF IInv, TypeInv, Arriving
<1>4. GoesOnFrom(scan', scan) /\ (scan'.code = "error" \/ scan'.ss.status \in {"done", "properties"})
  BY <1>1, <1>2, NextLineTypes DEF GoesOnFrom
<1>5. TypeInv'
  <2>1. scan'.code = "attempt" => scan'.ss.status # "clean"
    BY <1>4
  <2>2. QED
    BY <1>1, <1>4, <2>1, ScanTypes DEF IInv
<1>6. ASSUME NEW i \in 1..(Len(script) + 1), Place(i) PROVE Place(i)'
  <2>1. /\ base <= From(script, i) /\ Told(script, base, i, packets, autoreply, heard)
        /\ At(script, sent - Len(scan.rest), scan.ss, i)
    BY <1>1, <1>6 DEF Place
  <2>2. EndsAt(Wire(script), sent, scan.rest)
    BY <1>2, <1>3
  <2>3. /\ scan'.code = "attempt" /\ At(script, sent - Len(scan'.rest), scan'.ss, i)
        /\ scan'.ss.status \in {"properties", "done"}
    BY <1>1, <1>2, <1>3, <2>1, <2>2, NextLineAt
  <2>4. QED
    BY <1>1, <2>1, <2>3 DEF Place, OnlyScan, Waiting
<1>7. PlaceInv'
  BY <1>1, <1>6 DEF IInv, PlaceInv, OnlyScan
<1>8. QED
  BY <1>1, <1>5, <1>7 DEF IInv, GoodInv, OnlyScan

\* What the result r of a call leaves, whatever the text was.
Request(r) == [type |-> r.ss.type, body |-> Body(r)]
AnsweredAs(r) ==
    \/ /\ r.code = "error" /\ m_receive_stream' = <<>> /\ ssd' = NoStatus
       /\ autoreply' = autoreply /\ packets' = packets /\ pc' = "loop"
       /\ base' = sent /\ heard' = <<Len(packets), replied>>
    \/ /\ r.code = "attempt" /\ m_receive_stream' = r.rest /\ ssd' = r.ss
       /\ autoreply' = autoreply /\ packets' = packets /\ pc' = "reply"
       /\ base' = base /\ heard' = heard
    \/ /\ r.code = "options" /\ m_receive_stream' = r.rest /\ ssd' = NoStatus
       /\ autoreply' = autoreply + 1 /\ packets' = packets /\ pc' = "reply"
       /\ base' = base /\ heard' = heard
    \/ /\ r.code = "success" /\ ssd' = NoStatus
       /\ m_receive_stream' = SubSeq(r.rest, Len(Body(r)) + 1, Len(r.rest))
       /\ autoreply' = autoreply /\ packets' = Append(packets, Request(r))
       /\ pc' = "loop" /\ base' = base /\ heard' = heard
LoadedTo(r) ==
    /\ Finished(scan, r) /\ AnsweredAs(r)
    /\ pc = "lines" /\ ~ MoreLines(scan)
    /\ scan' = NoStatus /\ wire' = wire /\ script' = script /\ sent' = sent
    /\ replied' = replied

(* A result does that.                                                     *)
LEMMA LoadedIs ==
    ASSUME scan \in Scans, Loaded
    PROVE  LoadedTo(Finish(scan))
<1> DEFINE r == Finish(scan)
<1>1. Finished(scan, r)
  BY FinishIs
<1>2. /\ pc = "lines" /\ ~ MoreLines(scan)
      /\ scan' = NoStatus /\ wire' = wire /\ script' = script /\ sent' = sent
      /\ replied' = replied
      /\ m_receive_stream' = Rest(r) /\ ssd' = StatusLeft(r) /\ autoreply' = Replies(r)
      /\ packets' = (IF r.code # "success" THEN packets ELSE Append(packets, Request(r)))
      /\ pc' = IF r.code \in {"attempt", "options"} THEN "reply" ELSE "loop"
      /\ base' = IF r.code = "error" THEN sent ELSE base
      /\ heard' = IF r.code = "error" THEN <<Len(packets), replied>> ELSE heard
  BY DEF Loaded, Request
<1> HIDE DEF r
<1>3. r.code \in {"error", "attempt", "options", "success"}
  BY <1>1 DEF Finished
<1>4. ASSUME r.code = "error" PROVE AnsweredAs(r)
  BY <1>2, <1>4 DEF AnsweredAs, Rest, StatusLeft, Replies
<1>5. ASSUME r.code = "attempt" PROVE AnsweredAs(r)
  BY <1>2, <1>5 DEF AnsweredAs, Rest, StatusLeft, Replies
<1>6. ASSUME r.code = "options" PROVE AnsweredAs(r)
  BY <1>2, <1>6 DEF AnsweredAs, Rest, StatusLeft, Replies
<1>7. ASSUME r.code = "success" PROVE AnsweredAs(r)
  BY <1>2, <1>7 DEF AnsweredAs, Rest, StatusLeft, Replies
<1>8. AnsweredAs(r)
  BY <1>3, <1>4, <1>5, <1>6, <1>7
<1>9. QED
  BY <1>1, <1>2, <1>8 DEF LoadedTo, r

(* The content of a request is there.                                      *)
LEMMA BodyIs ==
    ASSUME NEW sc \in Scans, NEW r, Finished(sc, r), r.code = "success"
    PROVE  /\ Body(r) \in Seq(Symbols) /\ Len(Body(r)) \in 0..Len(r.rest)
           /\ Request(r) \in Packets
<1> DEFINE b == sc.rest
           k == NumberOf(sc.ss.length)
           t == sc.ss.type
<1>1. b \in Seq(Symbols) /\ r.rest = b /\ r.ss = sc.ss
  BY DEF Scans, Finished
<1>2. \/ t \in {"get", "del"}
      \/ t \in {"post", "put"} /\ ~ LengthRefused(sc.ss.length) /\ k <= Len(b)
  BY DEF Finished
<1>3. Body(r) \in Seq(Symbols) /\ Len(Body(r)) \in 0..Len(b)
  <2>1. CASE t \in {"get", "del"}
    <3>1. Body(r) = <<>>
      BY <1>1, <2>1 DEF Body
    <3>2. Len(b) \in Nat
      BY <1>1
    <3>3. QED
      BY <3>1, <3>2
  <2>2. CASE t \in {"post", "put"} /\ ~ LengthRefused(sc.ss.length) /\ k <= Len(b)
    <3>1. k \in Nat
      BY <2>2, NumberIs
    <3>2. Body(r) = SubSeq(b, 1, k)
      BY <1>1, <2>2 DEF Body
    <3> HIDE DEF b, k
    <3>3. QED
      BY <1>1, <2>2, <3>1, <3>2
  <2>3. QED
    BY <1>2, <2>1, <2>2
<1>4. r.ss.type \in {"get", "del", "post", "put"}
  BY <1>1, <1>2
<1>5. QED
  BY <1>1, <1>3, <1>4 DEF Packets, Request

(* The result of a call keeps the types.                                   *)
LEMMA LoadedTypes ==
    ASSUME TypeInv, NEW r, LoadedTo(r)
    PROVE  TypeInv'
<1> DEFINE n == m_receive_stream'
<1>1. /\ scan \in Scans /\ EndsAt(wire, sent, scan.rest)
      /\ scan.code = "attempt" => scan.ss.status # "clean"
  BY DEF LoadedTo, TypeInv, Scanning
<1>2. /\ script \in Scripts /\ wire = Wire(script) /\ sent \in 0..Len(wire) /\ base \in 0..sent
      /\ packets \in Seq(Packets) /\ replied \in Nat /\ heard \in Nat \X Nat
      /\ autoreply \in Nat /\ replied = autoreply
  BY DEF TypeInv, Arriving, Telling, Answering, LoadedTo
<1>3. wire \in Seq(Symbols) /\ scan.rest \in Seq(Symbols) /\ scan.ss \in Statuses
  BY <1>1, <1>2, WireIs DEF Scans
<1>4. r.rest = scan.rest /\ r.ss = scan.ss /\ Finished(scan, r) /\ AnsweredAs(r)
  BY DEF LoadedTo, Finished
<1>5. n \in Seq(Symbols) /\ EndsAt(wire, sent, n)
  <2>1. CASE n = scan.rest
    BY <1>1, <1>3, <2>1
  <2>2. CASE n = <<>>
    <3>1. n \in Seq(Symbols) /\ Len(n) = 0
      BY <2>2
    <3> HIDE DEF n
    <3>2. QED
      BY <1>2, <3>1 DEF EndsAt
  <2>3. CASE r.code = "success" /\ n = SubSeq(r.rest, Len(Body(r)) + 1, Len(r.rest))
    <3> DEFINE b == scan.rest
               d == Len(Body(r))
    <3>1. /\ b \in Seq(Symbols) /\ EndsAt(wire, sent, b) /\ d \in 0..Len(b)
          /\ n = SubSeq(b, d + 1, Len(b))
      BY <1>1, <1>3, <1>4, <2>3, BodyIs
    <3> HIDE DEF b, d, n
    <3>2. QED
      BY <1>2, <1>3, <3>1, EndsShorter
  <2>4. QED
    BY <1>4, <2>1, <2>2, <2>3 DEF AnsweredAs
<1> HIDE DEF n
<1>6. packets' \in Seq(Packets) /\ heard' \in Nat \X Nat
  <2>1. CASE r.code = "success"
    <3>1. /\ Request(r) \in Packets /\ packets' = Append(packets, Request(r))
          /\ heard' = heard
      BY <1>1, <1>4, <2>1, BodyIs DEF AnsweredAs
    <3>2. QED
      BY <1>2, <3>1
  <2>2. CASE r.code # "success"
    <3>1. /\ packets' = packets
          /\ (heard' = heard \/ heard' = <<Len(packets), replied>>)
      BY <1>4, <2>2 DEF AnsweredAs
    <3>2. QED
      BY <1>2, <3>1
  <2>3. QED
    BY <2>1, <2>2
<1>7. Arriving'
  <2>1. base' \in 0..sent
    BY <1>2, <1>4 DEF AnsweredAs
  <2>2. QED
    BY <1>2, <1>5, <2>1 DEF LoadedTo, Arriving, n
<1>8. Between'
  <2>1. pc' \in {"loop", "reply"}
    BY <1>4 DEF AnsweredAs
  <2>2. r.code = "attempt" => scan.code = "attempt"
    BY <1>4 DEF Finished
  <2>3. ssd' = NoStatus \/ (ssd' \in Statuses /\ ssd'.status # "clean")
    BY <1>1, <1>3, <1>4, <2>2 DEF AnsweredAs
  <2>4. QED
    BY <2>1, <2>3 DEF Between
<1>9. Scanning'
  <2>1. pc' \in {"loop", "reply"}
    BY <1>4 DEF AnsweredAs
  <2>2. QED
    BY <2>1 DEF Scanning
<1>10. Answering'
  <2>1. replied' = replied
    BY DEF LoadedTo
  <2>2. CASE r.code = "attempt"
    <3>1. autoreply' = autoreply /\ ssd' = scan.ss /\ scan.ss # NoStatus
      BY <1>3, <1>4, <2>2, FreshIs DEF AnsweredAs
    <3>2. QED
      BY <1>2, <2>1, <3>1 DEF Answering
  <2>3. CASE r.code = "options"
    <3>1. autoreply' = autoreply + 1 /\ ssd' = NoStatus /\ pc' = "reply"
      BY <1>4, <2>3 DEF AnsweredAs
    <3>2. QED
      BY <1>2, <2>1, <3>1 DEF Answering
  <2>4. CASE r.code \in {"error", "success"}
    <3>1. autoreply' = autoreply /\ pc' = "loop"
      BY <1>4, <2>4 DEF AnsweredAs
    <3>2. QED
      BY <1>2, <2>1, <3>1 DEF Answering
  <2>5. QED
    BY <1>4, <2>2, <2>3, <2>4 DEF AnsweredAs
<1>11. QED
  BY <1>6, <1>7, <1>8, <1>9, <1>10 DEF TypeInv, Telling

\* What a call with the result r begins with when it is at message i.
ReadTo(r, i) ==
    /\ script \in Scripts /\ sent \in 0..Len(Wire(script)) /\ sent \in Nat /\ base \in Nat
    /\ scan \in Scans /\ EndsAt(Wire(script), sent, scan.rest)
    /\ scan.long => Len(scan.rest) > EnoughLength
    /\ packets \in Seq(Packets) /\ Len(packets) \in Nat /\ autoreply \in Nat
    /\ heard \in Nat \X Nat
    /\ base <= From(script, i) /\ Told(script, base, i, packets, autoreply, heard)
    /\ r.code # "error" =>
          /\ scan.code = "attempt" /\ scan.ss.status # "clean"
          /\ At(script, sent - Len(scan.rest), scan.ss, i)
          /\ scan.ss.status = "request" => Waits(script, sent, i)
    /\ r.code = "error" => ~ AllGood(script)

(* The invariant gives that much before the result of a call.              *)
LEMMA ReadToIs ==
    ASSUME TypeInv, NEW r, LoadedTo(r), NEW i \in 1..(Len(script) + 1), Place(i)
    PROVE  ReadTo(r, i)
<1>1. pc = "lines" /\ Finished(scan, r)
  BY DEF LoadedTo
<1>2. /\ scan \in Scans /\ EndsAt(wire, sent, scan.rest)
      /\ scan.long => Len(scan.rest) > EnoughLength
      /\ scan.code = "attempt" => scan.ss.status # "clean"
  BY <1>1 DEF TypeInv, Scanning
<1>3. /\ script \in Scripts /\ wire = Wire(script) /\ sent \in 0..Len(wire) /\ base \in 0..sent
      /\ packets \in Seq(Packets) /\ autoreply \in Nat /\ heard \in Nat \X Nat
  BY DEF TypeInv, Arriving, Telling, Answering
<1>4. sent \in Nat /\ base \in Nat /\ Len(packets) \in Nat
  BY <1>3
<1>5. base <= From(script, i) /\ Told(script, base, i, packets, autoreply, heard)
  BY DEF Place
<1>6. scan.code \in {"attempt", "error"}
  BY <1>2 DEF Scans
<1>7. /\ scan.code = "error" => ~ AllGood(script)
      /\ scan.code # "error" =>
            /\ At(script, sent - Len(scan.rest), scan.ss, i)
            /\ scan.ss.status = "request" => Waits(script, sent, i)
  BY <1>1 DEF Place
<1>8. r.code # "error" => scan.code = "attempt"
  BY <1>1 DEF Finished
<1>9. r.code = "error" => ~ AllGood(script)
  BY <1>1, <1>2, <1>3, <1>6, <1>7, ErrorAt
<1>10. QED
  BY <1>2, <1>3, <1>4, <1>5, <1>7, <1>8, <1>9 DEF ReadTo

(* The message goes on: the scan waits for it where it is.                 *)
LEMMA LoadedAttempt ==
    ASSUME NEW r, LoadedTo(r), r.code = "attempt",
           NEW i \in 1..(Len(script) + 1), ReadTo(r, i)
    PROVE  Place(i)'
<1>1. /\ m_receive_stream' = scan.rest /\ ssd' = scan.ss /\ pc' = "reply"
      /\ packets' = packets /\ autoreply' = autoreply /\ base' = base /\ heard' = heard
      /\ script' = script /\ sent' = sent /\ Finished(scan, r) /\ ~ MoreLines(scan)
      /\ scan.code = "attempt"
  BY DEF LoadedTo, AnsweredAs, Finished
<1>2. /\ At(script, sent - Len(scan.rest), scan.ss, i) /\ scan.ss.status # "clean"
      /\ scan.ss.status = "request" => Waits(script, sent, i)
      /\ script \in Scripts /\ sent \in 0..Len(Wire(script))
      /\ scan \in Scans /\ EndsAt(Wire(script), sent, scan.rest)
      /\ scan.long => Len(scan.rest) > EnoughLength
      /\ base <= From(script, i) /\ Told(script, base, i, packets, autoreply, heard)
  BY DEF ReadTo
<1>3. scan.ss \in Statuses
  BY <1>2 DEF Scans
<1>4. Status' = scan.ss
  BY <1>1, <1>3, FreshIs DEF Status
<1>5. scan.ss.status = "properties" => scan = NextLine(scan) \/ scan.ss.scanned >= HeaderMaxSize
  <2>1. scan.ss.scanned \in Nat /\ HeaderMaxSize \in Nat
    BY <1>3, LimitsAssumption DEF Statuses
  <2>2. scan.ss.scanned < HeaderMaxSize \/ scan.ss.scanned >= HeaderMaxSize
    BY <2>1
  <2>3. QED
    BY <1>1, <2>2 DEF MoreLines
<1>6. Waits(script, sent, i)
  BY <1>1, <1>2, <1>5, WaitsAt
<1>7. At(script, sent' - Len(m_receive_stream'), Status', i)
  BY <1>1, <1>2, <1>4
<1>8. QED
  BY <1>1, <1>2, <1>6, <1>7 DEF Place

(* The message is over: the scan begins with the next one.                 *)
LEMMA LoadedWhole ==
    ASSUME NEW r, LoadedTo(r), r.code \in {"options", "success"},
           NEW i \in 1..(Len(script) + 1), ReadTo(r, i)
    PROVE  i + 1 \in 1..(Len(script) + 1) /\ Place(i + 1)'
<1> DEFINE b == r.rest
           n == m_receive_stream'
           z == Len(Body(r))
           w == From(script, i + 1)
<1>1. /\ ssd' = NoStatus /\ pc' \in {"loop", "reply"} /\ base' = base /\ heard' = heard
      /\ script' = script /\ sent' = sent /\ Finished(scan, r) /\ scan.code = "attempt"
      /\ b = scan.rest /\ r.ss = scan.ss
  BY DEF LoadedTo, AnsweredAs, Finished
<1>2. /\ At(script, sent - Len(scan.rest), scan.ss, i) /\ base \in Nat /\ sent \in Nat
      /\ script \in Scripts /\ sent \in 0..Len(Wire(script))
      /\ scan \in Scans /\ EndsAt(Wire(script), sent, scan.rest)
      /\ base <= From(script, i) /\ Told(script, base, i, packets, autoreply, heard)
      /\ packets \in Seq(Packets) /\ autoreply \in Nat /\ heard[1] \in Nat /\ heard[2] \in Nat
  BY DEF ReadTo
<1>3. Whole(script, sent, i, r)
  BY <1>1, <1>2, WholeAt
<1>4. /\ i \in 1..Len(script) /\ script[i].good /\ script[i].type = r.ss.type
      /\ Body(r) = script[i].body /\ z \in 0..Len(b) /\ sent - Len(b) + z = w
  BY <1>3 DEF Whole
<1>5. /\ Len(script) \in Nat /\ From(script, i) \in Nat /\ w \in Nat /\ From(script, i) <= w
      /\ i + 1 \in 1..(Len(script) + 1)
  <2>1. Len(script) \in Nat
    BY <1>2, WireIs
  <2>2. i < i + 1 /\ i + 1 \in 1..(Len(script) + 1)
    BY <1>4, <2>1
  <2> DEFINE j == i + 1
  <2>3. j \in 1..(Len(script) + 1) /\ i < j
    BY <2>2
  <2>4. From(script, i) \in Nat /\ w \in Nat /\ From(script, i) < w
    BY <1>2, <1>4, <2>3, FromGrows
  <2>5. QED
    BY <2>1, <2>2, <2>4
<1>6. b \in Seq(Symbols) /\ Len(b) \in Nat
  <2>1. b \in Seq(Symbols)
    BY <1>1, <1>2 DEF Scans
  <2> HIDE DEF b
  <2>2. QED
    BY <2>1
<1>7. sent - Len(n) = w
  <2>1. CASE r.code = "success"
    <3>1. n = SubSeq(b, z + 1, Len(b))
      BY <2>1 DEF LoadedTo, AnsweredAs
    <3>2. Len(n) = Len(b) - z
      <4> HIDE DEF b, z, n
      <4>1. QED
        BY <1>4, <1>6, <3>1
    <3> HIDE DEF b, z, n, w
    <3>3. QED
      BY <1>2, <1>4, <1>6, <3>2
  <2>2. CASE r.code = "options"
    <3>1. n = b /\ r.ss.type = "options"
      BY <1>1, <2>2 DEF LoadedTo, AnsweredAs, Finished
    <3>2. Body(r) = <<>>
      BY <3>1 DEF Body
    <3>3. z = 0
      BY <3>2
    <3> HIDE DEF b, z, n, w
    <3>4. QED
      BY <1>2, <1>4, <1>6, <3>1, <3>3
  <2>3. QED
    BY <2>1, <2>2
<1>8. Told(script, base, i + 1, packets', autoreply', heard)
  <2>1. CASE r.code = "success"
    <3>1. packets' = Append(packets, Request(r)) /\ autoreply' = autoreply
      BY <2>1 DEF LoadedTo, AnsweredAs
    <3>2. Request(r) = Packet(script[i])
      BY <1>4 DEF Request, Packet
    <3>3. script[i].type # "options"
      BY <1>1, <1>4, <2>1 DEF Finished
    <3>4. QED
      BY <1>2, <1>4, <3>1, <3>2, <3>3, ToldRequest
  <2>2. CASE r.code = "options"
    <3>1. packets' = packets /\ autoreply' = autoreply + 1 /\ script[i].type = "options"
      BY <1>1, <1>4, <2>2 DEF LoadedTo, AnsweredAs, Finished
    <3>2. QED
      BY <1>2, <1>4, <3>1, ToldOptions
  <2>3. QED
    BY <2>1, <2>2
<1>9. Status' = Fresh
  BY <1>1 DEF Status
<1>10. At(script, sent - Len(n), Status', i + 1)
  BY <1>7, <1>9, FreshIs DEF At, AtStart
<1>11. base <= w
  BY <1>2, <1>5
<1> DEFINE j == i + 1
<1>12. j \in 1..(Len(script) + 1) /\ base <= From(script, j)
       /\ Told(script, base, j, packets', autoreply', heard)
       /\ At(script, sent - Len(m_receive_stream'), Status', j)
  BY <1>5, <1>8, <1>10, <1>11
<1> HIDE DEF j
<1>13. j' = j
  BY DEF j
<1>14. Place(j)'
  <2>1. ~ Waiting'
    BY <1>1 DEF Waiting
  <2>2. QED
    BY <1>1, <1>12, <1>13, <2>1 DEF Place
<1>15. QED
  BY <1>12, <1>14 DEF j

(* The result of a call.                                                   *)
LEMMA LoadedKeeps ==
    ASSUME IInv, Loaded
    PROVE  IInv'
<1> DEFINE r == Finish(scan)
<1>1. TypeInv /\ pc = "lines" /\ scan \in Scans
  <2>1. TypeInv /\ pc = "lines"
    BY DEF IInv, Loaded
  <2>2. QED
    BY <2>1 DEF TypeInv, Scanning
<1>2. LoadedTo(r)
  BY <1>1, LoadedIs
<1> HIDE DEF r
<1>3. TypeInv'
  BY <1>1, <1>2, LoadedTypes
<1>4. /\ script \in Scripts /\ script' = script /\ wire = Wire(script) /\ base \in Nat
      /\ r.code \in {"error", "attempt", "options", "success"} /\ AnsweredAs(r)
      /\ packets \in Seq(Packets) /\ autoreply \in Nat /\ replied = autoreply
  <2>1. base \in 0..sent /\ sent \in 0..Len(wire)
    BY <1>1 DEF TypeInv, Arriving
  <2>2. base \in Nat
    BY <2>1
  <2>3. QED
    BY <1>1, <1>2, <2>2 DEF LoadedTo, Finished, TypeInv, Arriving, Telling, Answering
<1>5. ASSUME NEW i \in 1..(Len(script) + 1), Place(i) PROVE ReadTo(r, i)
  BY <1>1, <1>2, <1>5, ReadToIs
<1>6. CASE r.code = "error"
  <2>1. /\ m_receive_stream' = <<>> /\ ssd' = NoStatus /\ packets' = packets
        /\ autoreply' = autoreply /\ pc' = "loop" /\ base' = sent /\ heard' = <<Len(packets), replied>> /\ sent' = sent
    BY <1>2, <1>4, <1>6 DEF AnsweredAs, LoadedTo
  <2>2. ASSUME NEW i \in 1..(Len(script) + 1), sent = From(script, i) PROVE Place(i)'
    <3>1. sent \in Nat /\ Len(packets) \in Nat
      BY <1>1, <1>4 DEF TypeInv, Arriving
    <3>2. heard'[1] = Len(packets) /\ heard'[2] = autoreply
      BY <1>4, <2>1
    <3>3. Told(script, sent, i, packets, autoreply, heard')
      BY <1>4, <2>2, <3>1, <3>2, ToldNone
    <3>4. sent - Len(m_receive_stream') = sent
      <4>1. Len(<<>>) = 0
        OBVIOUS
      <4>2. QED
        BY <2>1, <3>1, <4>1
    <3>5. Status' = Fresh
      BY <2>1 DEF Status
    <3>6. At(script, sent - Len(m_receive_stream'), Status', i)
      BY <2>2, <3>4, <3>5, FreshIs DEF At, AtStart
    <3>7. sent <= From(script, i)
      BY <2>2, <3>1
    <3>8. ~ Waiting'
      BY <2>1 DEF Waiting
    <3>9. QED
      BY <1>4, <2>1, <3>3, <3>6, <3>7, <3>8 DEF Place
  <2>3. PlaceInv'
    BY <1>4, <2>1, <2>2 DEF PlaceInv, AlignedAt
  <2>4. ~ AllGood(script)
    <3>1. SUFFICES ASSUME AllGood(script) PROVE FALSE
      OBVIOUS
    <3>2. Len(script) \in Nat /\ From(script, 1) = 0
      BY <1>4, WireIs
    <3>3. 1 \in 1..(Len(script) + 1) /\ base = From(script, 1)
      BY <3>1, <3>2 DEF IInv, GoodInv
    <3>4. AlignedAt(script, base)
      BY <3>3 DEF AlignedAt
    <3>5. PICK i \in 1..(Len(script) + 1) : Place(i)
      BY <3>4 DEF IInv, PlaceInv
    <3>6. ReadTo(r, i)
      BY <1>5, <3>5
    <3>7. QED
      BY <1>6, <3>1, <3>6 DEF ReadTo
  <2>5. QED
    BY <1>3, <1>4, <2>3, <2>4 DEF IInv, GoodInv
<1>7. CASE r.code # "error"
  <2>1. base' = base
    BY <1>4, <1>7 DEF AnsweredAs
  <2>2. ASSUME NEW i \in 1..(Len(script) + 1), Place(i)
        PROVE  \E j \in 1..(Len(script) + 1) : Place(j)'
    <3>1. ReadTo(r, i)
      BY <1>5, <2>2
    <3>2. CASE r.code = "attempt"
      <4>1. Place(i)'
        BY <1>2, <3>1, <3>2, LoadedAttempt
      <4>2. QED
        BY <4>1
    <3>3. CASE r.code \in {"options", "success"}
      <4>1. i + 1 \in 1..(Len(script) + 1) /\ Place(i + 1)'
        BY <1>2, <3>1, <3>3, LoadedWhole
      <4>2. QED
        BY <4>1
    <3>4. QED
      BY <1>4, <1>7, <3>2, <3>3
  <2>3. PlaceInv'
    BY <1>4, <2>1, <2>2 DEF IInv, PlaceInv
  <2>4. QED
    BY <1>3, <1>4, <2>1, <2>3 DEF IInv, GoodInv
<1>8. QED
  BY <1>6, <1>7

(* There was neither: what autoreply has is sent, and the loop goes on if  *)
(* that was anything.                                                      *)
LEMMA ReplyKeeps ==
    ASSUME IInv, Reply
    PROVE  IInv'
<1>1. /\ pc = "reply" /\ replied' = autoreply /\ pc' = (IF autoreply > 0 THEN "loop" ELSE "idle")
      /\ wire' = wire /\ script' = script /\ sent' = sent /\ m_receive_stream' = m_receive_stream
      /\ ssd' = ssd /\ scan' = scan /\ autoreply' = autoreply /\ packets' = packets
      /\ base' = base /\ heard' = heard
  BY DEF Reply, Continues
<1>2. Arriving /\ Between /\ Telling /\ autoreply \in Nat /\ (ssd = NoStatus => autoreply > 0)
  BY <1>1 DEF IInv, TypeInv, Answering
<1>3. pc' \in {"loop", "idle"} /\ (pc' = "idle" => ssd # NoStatus)
  BY <1>1, <1>2
<1>4. TypeInv'
  <2>1. Arriving' /\ Telling'
    BY <1>1, <1>2 DEF Arriving, Telling
  <2>2. Between' /\ Scanning'
    BY <1>1, <1>2, <1>3 DEF Between, Scanning
  <2>3. Answering'
    BY <1>1, <1>2, <1>3 DEF Answering
  <2>4. QED
    BY <2>1, <2>2, <2>3 DEF TypeInv
<1>5. ASSUME NEW i \in 1..(Len(script) + 1), Place(i) PROVE Place(i)'
  <2>1. /\ base <= From(script, i) /\ Told(script, base, i, packets, autoreply, heard)
        /\ At(script, sent - Len(m_receive_stream), Status, i)
        /\ Waiting => Waits(script, sent, i)
    BY <1>1, <1>5 DEF Place
  <2>2. Status' = Status
    BY <1>1 DEF Status
  <2>3. At(script, sent - Len(m_receive_stream), Status', i)
    BY <2>1, <2>2
  <2>4. Waiting' => Waiting
    BY <1>1, <1>3 DEF Waiting
  <2>5. QED
    BY <1>1, <1>3, <2>1, <2>3, <2>4 DEF Place
<1>6. PlaceInv'
  BY <1>1, <1>5 DEF IInv, PlaceInv
<1>7. QED
  BY <1>1, <1>4, <1>6 DEF IInv, GoodInv

(* The text is used up: the loop ends between two messages, or inside one  *)
(* that waits for more.                                                    *)
LEMMA DrainedKeeps ==
    ASSUME IInv, Drained
    PROVE  IInv'
<1>1. /\ pc = "loop" /\ m_receive_stream = <<>> /\ pc' = "idle"
      /\ wire' = wire /\ script' = script /\ sent' = sent /\ m_receive_stream' = m_receive_stream
      /\ ssd' = ssd /\ scan' = scan /\ autoreply' = autoreply /\ packets' = packets
      /\ replied' = replied /\ base' = base /\ heard' = heard
  BY DEF Drained, history
<1>2. /\ script \in Scripts /\ Arriving /\ Between /\ Telling /\ Answering
      /\ sent \in 0..Len(wire) /\ wire = Wire(script)
  BY DEF IInv, TypeInv, Arriving
<1>3. TypeInv'
  BY <1>1, <1>2 DEF TypeInv, Arriving, Between, Scanning, Telling, Answering
<1>4. Status' = Status
  BY <1>1 DEF Status
<1>5. sent \in Nat /\ sent - Len(m_receive_stream) = sent
  <2>1. Len(<<>>) = 0
    OBVIOUS
  <2>2. QED
    BY <1>1, <1>2, <2>1
<1>6. ASSUME NEW i \in 1..(Len(script) + 1), Place(i) PROVE Place(i)'
  <2>1. /\ base <= From(script, i) /\ Told(script, base, i, packets, autoreply, heard)
        /\ At(script, sent, Status, i)
        /\ Waiting => Waits(script, sent, i)
    BY <1>1, <1>5, <1>6 DEF Place
  <2>2. Waits(script, sent, i)
    <3>1. CASE ssd # NoStatus
      BY <1>1, <2>1, <3>1 DEF Waiting
    <3>2. CASE ssd = NoStatus
      <4>1. Status = Fresh
        BY <3>2 DEF Status
      <4>2. sent = From(script, i)
        <5>1. ASSUME NEW j \in 2..(Len(script[i].lines) + 1), AtLine(script, sent, Fresh, i, j)
              PROVE  FALSE
          BY <5>1, FreshIs DEF AtLine, StatusAt
        <5>2. QED
          BY <2>1, <4>1, <5>1 DEF At, AtStart
      <4>3. ASSUME i \in 1..Len(script) PROVE From(script, i) < From(script, i + 1)
        <5>1. Len(script) \in Nat
          BY <1>2, WireIs
        <5> DEFINE j == i + 1
        <5>2. j \in 1..(Len(script) + 1) /\ i < j
          BY <4>3, <5>1
        <5>3. From(script, i) < From(script, j)
          BY <1>2, <4>3, <5>2, FromGrows
        <5>4. QED
          BY <5>3
      <4>4. QED
        BY <4>2, <4>3 DEF Waits
    <3>3. QED
      BY <3>1, <3>2
  <2>3. At(script, sent' - Len(m_receive_stream'), Status', i)
    BY <1>1, <1>4, <1>5, <2>1
  <2>4. QED
    BY <1>1, <2>1, <2>2, <2>3 DEF Place
<1>7. PlaceInv'
  BY <1>1, <1>6 DEF IInv, PlaceInv
<1>8. QED
  BY <1>1, <1>3, <1>7 DEF IInv, GoodInv

(* Every step keeps the invariant.                                         *)
THEOREM HttpStep == IInv /\ [Next]_vars => IInv'
<1>1. SUFFICES ASSUME IInv, [Next]_vars PROVE IInv'
  OBVIOUS
<1>2. CASE Load
  BY <1>1, <1>2, LoadKeeps
<1>3. CASE LoadRequestLine
  BY <1>1, <1>3, LoadRequestLineKeeps
<1>4. CASE LoadLine
  BY <1>1, <1>4, LoadLineKeeps
<1>5. CASE Loaded
  BY <1>1, <1>5, LoadedKeeps
<1>6. CASE Drained
  BY <1>1, <1>6, DrainedKeeps
<1>7. CASE Reply
  BY <1>1, <1>7, ReplyKeeps
<1>8. ASSUME NEW n \in 1..Len(wire), Deliver(n) PROVE IInv'
  BY <1>1, <1>8, DeliverKeeps
<1>9. CASE UNCHANGED vars
  <2>1. /\ wire' = wire /\ script' = script /\ sent' = sent /\ m_receive_stream' = m_receive_stream
        /\ ssd' = ssd /\ scan' = scan /\ autoreply' = autoreply /\ packets' = packets
        /\ replied' = replied /\ base' = base /\ heard' = heard /\ pc' = pc
    BY <1>9 DEF vars, history
  <2>2. TypeInv'
    BY <1>1, <2>1 DEF IInv, TypeInv, Arriving, Between, Scanning, Telling, Answering
  <2>3. \A i \in 1..(Len(script) + 1) : Place(i) => Place(i)'
    BY <2>1 DEF Place, Status, Waiting
  <2>4. PlaceInv'
    BY <1>1, <2>1, <2>3 DEF IInv, PlaceInv
  <2>5. QED
    BY <1>1, <2>1, <2>2, <2>4 DEF IInv, GoodInv
<1>10. QED
  BY <1>1, <1>2, <1>3, <1>4, <1>5, <1>6, <1>7, <1>8, <1>9 DEF Next, Loop, Done

(* So wherever a session comes to, the scan is where a message begins or   *)
(* behind a line of one, or an error was told inside a message, and the    *)
(* messages before it have been told.                                      *)
THEOREM HttpInvariant == Spec => []IInv
BY HttpInit, HttpStep, PTL DEF Spec

-----------------------------------------------------------------------------
(* What follows from it.                                                   *)

(* The session keeps to its types.                                         *)
THEOREM SessionTypes == Spec => []TypeOK
<1>1. ASSUME IInv PROVE TypeOK
  <2>1. /\ script \in Scripts /\ sent \in 0..Len(wire) /\ base \in 0..sent
        /\ pc \in {"idle", "loop", "method", "lines", "reply"}
        /\ autoreply \in Nat /\ replied \in 0..autoreply
        /\ packets \in Seq(Packets) /\ Len(m_receive_stream) <= sent
        /\ ssd = NoStatus \/ (ssd \in Statuses /\ ssd.status # "clean")
    BY <1>1 DEF IInv, TypeInv, Arriving, Between, Telling, Answering, EndsAt
  <2>2. ssd = NoStatus \/ ssd.status \in {"request", "properties", "done"}
    BY <2>1 DEF Statuses
  <2>3. \A i \in DOMAIN packets : packets[i].type \in {"get", "del", "post", "put"}
    <3>1. \A i \in DOMAIN packets : packets[i] \in Packets
      BY <2>1
    <3>2. \A p \in Packets : p.type \in {"get", "del", "post", "put"}
      BY DEF Packets
    <3>3. QED
      BY <3>1, <3>2
  <2>4. QED
    BY <2>1, <2>2, <2>3 DEF TypeOK
<1>2. QED
  BY <1>1, HttpInvariant, PTL

(* When receive() has returned, or waits for more behind an OPTIONS, the   *)
(* messages that have arrived are the ones before the message at which the *)
(* scan is.                                                                *)
LEMMA ArrivedIs ==
    ASSUME IInv, Settled, NEW i \in 1..(Len(script) + 1), Place(i)
    PROVE  Arrived = Since(script, base, i)
<1>1. /\ script \in Scripts /\ wire = Wire(script) /\ sent \in 0..Len(wire)
      /\ m_receive_stream \in Seq(Symbols) /\ EndsAt(wire, sent, m_receive_stream)
  BY DEF IInv, TypeInv, Arriving
<1>2. /\ wire \in Seq(Symbols) /\ Len(script) \in Nat /\ DOMAIN script = 1..Len(script)
      /\ From(script, i) \in Nat
  BY <1>1, WireIs
<1>3. sent \in Nat /\ Len(m_receive_stream) \in Nat
  BY <1>1, <1>2
<1>4. At(script, sent - Len(m_receive_stream), Status, i) /\ Waits(script, sent, i)
  BY DEF Place, Settled, Resending, Waiting
<1>5. From(script, i) <= sent
  <2> DEFINE p == sent - Len(m_receive_stream)
  <2>1. p <= sent /\ p \in Int
    BY <1>3
  <2> HIDE DEF p
  <2>2. ASSUME i \in 1..Len(script), NEW j \in 2..(Len(script[i].lines) + 1),
               AtLine(script, p, Status, i, j)
        PROVE  From(script, i) <= sent
    <3> DEFINE m == script[i]
               B == Before(m.lines, j)
    <3>1. IsRequest(m) /\ p = From(script, i) + B
      BY <2>2 DEF AtLine
    <3>2. m.lines \in Seq(Seq(Symbols)) /\ j \in 1..(Len(m.lines) + 1)
      <4>1. m.lines \in Seq(Seq(Symbols)) /\ Len(m.lines) \in Nat
        BY <3>1, RequestIs
      <4>2. QED
        BY <2>2, <4>1
    <3>3. B \in Nat
      <4> DEFINE s == m.lines
      <4>1. s \in Seq(Seq(Symbols)) /\ j \in 1..(Len(s) + 1) /\ j \in j..(Len(s) + 1)
        BY <3>2
      <4> HIDE DEF s
      <4>2. Before(s, j) \in Nat
        BY <4>1, BeforeGrows
      <4>3. QED
        BY <4>2 DEF s
    <3> HIDE DEF B, m
    <3>4. QED
      BY <1>2, <1>3, <2>1, <3>1, <3>3
  <2>3. CASE AtStart(script, p, Status, i)
    BY <1>3, <2>1, <2>3 DEF AtStart
  <2>4. QED
    BY <1>4, <2>2, <2>3 DEF At, p
<1>6. ASSUME NEW k \in 1..Len(script)
      PROVE  Start(k) = From(script, k) /\ (Stop(k) <= sent <=> k < i)
  <2>1. Start(k) = From(script, k)
    BY DEF Start, From
  <2>2. Stop(k) = From(script, k + 1)
    BY <1>1, <2>1, WireIs DEF Stop
  <2>3. k \in Nat /\ i \in Nat /\ k + 1 \in 1..(Len(script) + 1)
    BY <1>2
  <2>4. ASSUME k < i PROVE From(script, k + 1) <= sent
    <3>1. From(script, k + 1) \in Nat /\ From(script, k + 1) <= From(script, i)
      BY <1>1, <2>4, FromGrows
    <3>2. QED
      BY <1>2, <1>3, <1>5, <3>1
  <2>5. ASSUME ~ (k < i) PROVE ~ (From(script, k + 1) <= sent)
    <3>1. i \in 1..Len(script) /\ i <= k
      BY <1>2, <2>3, <2>5
    <3>2. sent < From(script, i + 1)
      BY <1>4, <3>1 DEF Waits
    <3>3. From(script, i + 1) <= From(script, k + 1) /\ From(script, i + 1) \in Nat
          /\ From(script, k + 1) \in Nat
      <4> DEFINE j == i + 1
                 l == k + 1
      <4>1. j \in 1..(Len(script) + 1) /\ l \in j..(Len(script) + 1)
        BY <1>2, <2>3, <3>1
      <4> HIDE DEF j, l
      <4>2. From(script, j) <= From(script, l) /\ From(script, j) \in Nat /\ From(script, l) \in Nat
        BY <1>1, <4>1, WireIs
      <4>3. QED
        BY <4>2 DEF j, l
    <3>4. QED
      BY <1>3, <3>2, <3>3
  <2>6. QED
    BY <2>1, <2>2, <2>4, <2>5
<1>7. QED
  BY <1>2, <1>6 DEF Arrived, Since

(* Where the alignment holds it is told what is due.                       *)
LEMMA ToldOnTime ==
    ASSUME IInv, Settled, Aligned
    PROVE  \E i \in 1..(Len(script) + 1) :
              /\ Arrived = Since(script, base, i) /\ Due = Requests(script, base, i)
              /\ Told(script, base, i, packets, autoreply, heard)
<1>1. script \in Scripts /\ wire = Wire(script)
  BY DEF IInv, TypeInv, Arriving
<1>2. Len(script) \in Nat /\ DOMAIN script = 1..Len(script)
      /\ From(script, Len(script) + 1) = Len(wire)
  BY <1>1, WireIs
<1>3. AlignedAt(script, base)
  <2>1. CASE base = Len(wire)
    <3>1. Len(script) + 1 \in 1..(Len(script) + 1)
      BY <1>2
    <3>2. QED
      BY <1>2, <2>1, <3>1 DEF AlignedAt
  <2>2. ASSUME NEW i \in DOMAIN script, base = Start(i) PROVE AlignedAt(script, base)
    <3>1. i \in 1..(Len(script) + 1)
      BY <1>2
    <3>2. Start(i) = From(script, i)
      BY DEF Start, From
    <3>3. QED
      BY <2>2, <3>1, <3>2 DEF AlignedAt
  <2>3. QED
    BY <2>1, <2>2 DEF Aligned
<1>4. PICK i \in 1..(Len(script) + 1) : Place(i)
  BY <1>3 DEF IInv, PlaceInv
<1>5. Arrived = Since(script, base, i)
  BY <1>4, ArrivedIs
<1>6. Due = Requests(script, base, i)
  BY <1>5 DEF Due, Requests
<1>7. QED
  BY <1>4, <1>5, <1>6 DEF Place

(* Wherever the text is cut in pieces, the requests that have arrived      *)
(* since the last error are handed over, in order, each with its own       *)
(* content.                                                                *)
THEOREM PiecesAreJoined == Spec => []PiecesDoNotMatter
<1>1. ASSUME IInv, Settled, Aligned
      PROVE  /\ Len(packets) = heard[1] + Cardinality(Due)
             /\ \A i \in Due :
                   packets[heard[1] + Cardinality({k \in Due : k <= i})] =
                       [type |-> script[i].type, body |-> script[i].body]
  <2>1. PICK i \in 1..(Len(script) + 1) :
           Due = Requests(script, base, i) /\ Told(script, base, i, packets, autoreply, heard)
    BY <1>1, ToldOnTime
  <2>2. Len(packets) = heard[1] + Cardinality(Due)
    BY <2>1 DEF Told
  <2>3. \A k \in Due : packets[heard[1] + UpTo(Due, k)] = Packet(script[k])
    BY <2>1 DEF Told
  <2>4. QED
    BY <2>2, <2>3 DEF UpTo, Packet
<1>2. ASSUME IInv PROVE PiecesDoNotMatter
  BY <1>1, <1>2 DEF PiecesDoNotMatter
<1>3. QED
  BY <1>2, HttpInvariant, PTL

(* When receive() has returned, or waits for more behind an OPTIONS, each  *)
(* OPTIONS request that has arrived since the last error has been answered *)
(* and no other request has; what has to be refused is an error by the     *)
(* time it has arrived, and nothing else is one.                           *)
THEOREM AnswersAreGiven == Spec => []AnswersWhereDue
<1>1. ASSUME IInv, Settled, Aligned
      PROVE  /\ replied - heard[2] = Cardinality({i \in Arrived : script[i].type = "options"})
             /\ \A i \in Arrived : script[i].good
  <2>1. PICK i \in 1..(Len(script) + 1) :
           Arrived = Since(script, base, i) /\ Told(script, base, i, packets, autoreply, heard)
    BY <1>1, ToldOnTime
  <2>2. \A k \in Arrived : script[k].good
    BY <2>1 DEF Told
  <2>3. {k \in Arrived : script[k].type = "options"} = Options(script, base, i)
    BY <2>1 DEF Options
  <2>4. replied = heard[2] + Cardinality(Options(script, base, i))
    <3>1. autoreply = heard[2] + Cardinality(Options(script, base, i))
      BY <2>1 DEF Told
    <3>2. replied = autoreply
      BY <1>1 DEF IInv, TypeInv, Answering, Settled, Resending
    <3>3. QED
      BY <3>1, <3>2
  <2>5. heard[2] \in Nat /\ Cardinality(Options(script, base, i)) \in Nat
    <3>1. script \in Scripts /\ heard \in Nat \X Nat
      BY <1>1 DEF IInv, TypeInv, Arriving, Telling
    <3>2. QED
      BY <3>1, SinceFinite
  <2>6. replied - heard[2] = Cardinality(Options(script, base, i))
    BY <2>4, <2>5
  <2>7. QED
    BY <2>2, <2>3, <2>6
<1>2. ASSUME IInv PROVE OptionsAnswered
  BY <1>1, <1>2 DEF OptionsAnswered
<1>3. ASSUME IInv PROVE ErrorsWhereDue
  <2>1. DOMAIN script = 1..Len(script)
    <3>1. script \in Scripts
      BY <1>3 DEF IInv, TypeInv, Arriving
    <3>2. QED
      BY <3>1, WireIs
  <2>2. (\A i \in DOMAIN script : script[i].good) => base = 0
    BY <1>3, <2>1 DEF IInv, GoodInv, AllGood
  <2>3. QED
    BY <1>1, <1>3, <2>2 DEF ErrorsWhereDue
<1>4. ASSUME IInv PROVE AnswersWhereDue
  BY <1>2, <1>3, <1>4 DEF AnswersWhereDue
<1>5. QED
  BY <1>4, HttpInvariant, PTL
=============================================================================
