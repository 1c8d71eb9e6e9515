------------------------------ MODULE Meaning -------------------------------
(***************************************************************************)
(* What a text means, defined by the rules of its grammar and not by the   *)
(* way the parser goes: the reference that the expression tree and the     *)
(* decoded strings are held against.                                       *)
(***************************************************************************)
EXTENDS ExpressionTree, JsonString

NoTerm == <<>>

(* The tokens of a text.  Where an operator can stand, an operator is read *)
(* if there is one, and else a value after the default operator; where an  *)
(* operand is due, a value is read, or the end of empty brackets.  An       *)
(* operator that is repeated before its operand counts once, save the      *)
(* colon.                                                                   *)
Kind(o) == IF o.property = 8 THEN "close" ELSE IF o.property = 4 THEN "open"
           ELSE IF o.place = "value" THEN "prefix" ELSE "infix"

Leaf(lexer, word) == [rtt |-> lexer, kind |-> "leaf", word |-> word]
Sign(o)   == [rtt |-> o.lexer, kind |-> Kind(o), word |-> <<>>]
NoToken   == [rtt |-> "none", kind |-> "none", word |-> <<>>]
BadToken  == [NoToken EXCEPT !.kind = "bad"]

\* The tokens a text may begin with, of which the state of things lets one.
Signs(g, s)  == {Sign(o) : o \in UNION {Reading(l, s) : l \in ToSet(Lexers[g])}}
Leaves(g, s) == {Leaf(l, SubSeq(s, 1, Read(l, s).size)) :
                    l \in {l \in ToSet(Lexers[g]) \ {"discard"} :
                            Read(l, s).code = "success" /\ Reading(l, s) = {}}}

OperandDue(before) == before.kind \in {"none", "infix", "prefix", "open"}
Repeats(t, before) == t = before /\ t.kind = "infix" /\ t.rtt # "operator_colon"

Allowed(signs, leaves, before) ==
    LET binary == {t \in signs : t.kind \in {"infix", "close"}}
        again  == {t \in signs : Repeats(t, before)}
    IN  IF ~OperandDue(before) /\ binary # {} THEN binary
        ELSE IF again # {} THEN again
        ELSE IF leaves # {} THEN leaves
        ELSE IF signs \ binary # {} THEN signs \ binary
        ELSE {t \in binary : t.kind = "close"}

\* The default operator, where a token needs one before it.
Implied(g, token, before) ==
    IF OperandDue(before) \/ token.kind \in {"infix", "close"} THEN <<>>
    ELSE IF DefaultOperator[g] = {} THEN <<BadToken>>
    ELSE <<Sign(CHOOSE o \in DefaultOperator[g] : TRUE)>>

After(s, token) == SubSeq(s, Max({1, Len(token.word)}) + 1, Len(s))

RECURSIVE LexFrom(_, _, _), LexOn(_, _, _, _)
LexFrom(g, s, before) ==
    IF s = <<>> THEN <<>>
    ELSE IF s[1] \in standard_white_space_set THEN LexFrom(g, Tail(s), before)
    ELSE LexOn(g, s, before, Allowed(Signs(g, s), Leaves(g, s), before))

LexOn(g, s, before, allowed) ==
    LET token == CHOOSE t \in allowed : TRUE
    IN  IF allowed = {} THEN <<BadToken>>
        ELSE IF Repeats(token, before) THEN LexFrom(g, After(s, token), before)
        ELSE Implied(g, token, before) \o <<token>> \o LexFrom(g, After(s, token), token)

Lex(g, s) == LexFrom(g, s, NoToken)

Among(w, kind, i, j) == Cardinality({k \in i..j : w[k].kind = kind})
Nesting(w, k) == Among(w, "open", 1, k) - Among(w, "close", 1, k)

\* Every closing token closes the innermost bracket that is open.
Matched(w) ==
    \A k \in 1..Len(w) : w[k].kind = "close" =>
        \E i \in 1..k - 1 : /\ w[i].kind = "open" /\ w[i].rtt = w[k].rtt
                            /\ Nesting(w, k) = Nesting(w, i) - 1
                            /\ \A j \in i..k - 1 : Nesting(w, j) >= Nesting(w, i)

PriorityOf(t) == (CHOOSE o \in Operators : o.lexer = t.rtt).priority

\* An operator in a row is one operator with more operands, save the colon.
Goes(on, t) == on # {} /\ t.rtt \in on /\ t.rtt # "operator_colon"

RECURSIVE Term(_), Row(_, _, _, _)

\* The operators of the row at the positions in at, from the left; acc is the
\* term of what is before them, an application of an operator in on or not.
Row(w, at, acc, on) ==
    IF at = {} \/ acc = NoTerm THEN acc
    ELSE LET k    == Min(at)
             stop == IF Cardinality(at) = 1 THEN Len(w) + 1 ELSE Min(at \ {k})
             arg  == Term(SubSeq(w, k + 1, stop - 1))
             new  == IF Goes(on, w[k]) THEN Append(acc, arg)
                     ELSE <<w[k].rtt, IF w[k].rtt = "operator_colon" THEN 0 ELSE 1, acc, arg>>
         IN  IF arg = NoTerm THEN NoTerm ELSE Row(w, at \ {k}, new, {w[k].rtt})

\* The term of a sequence of tokens, in the form of Dump.
Term(w) ==
    LET infix == {k \in 1..Len(w) : w[k].kind = "infix" /\ Nesting(w, k) = 0}
        loose == {k \in infix : \A j \in infix : PriorityOf(w[k]) <= PriorityOf(w[j])}
        inner == SubSeq(w, 2, Len(w) - 1)
    IN  IF w = <<>> THEN NoTerm
        ELSE IF infix # {} THEN Row(w, loose, Term(SubSeq(w, 1, Min(loose) - 1)), {})
        ELSE IF Len(w) = 1 /\ w[1].kind = "leaf" THEN <<w[1].word>>
        ELSE IF w[1].kind = "prefix" /\ Term(Tail(w)) # NoTerm
        THEN <<w[1].rtt, 1, Term(Tail(w))>>
        ELSE IF w[1].kind = "open" /\ Last(w).kind = "close" /\ w[1].rtt = Last(w).rtt
                /\ \A k \in 1..Len(w) - 1 : Nesting(w, k) > 0
        THEN IF inner = <<>> THEN <<w[1].rtt, 2>>
             ELSE IF Term(inner) = NoTerm THEN NoTerm ELSE <<w[1].rtt, 2, Term(inner)>>
        ELSE NoTerm

-----------------------------------------------------------------------------
(* Strings: the code points of a quoted text from its i-th character on,   *)
(* with a BadPoint for half of a surrogate pair, and those of a value.     *)

BadPoint == -1

CodeAt(s, i) == 4096 * HexValue(s[i + 2]) + 256 * HexValue(s[i + 3])
                + 16 * HexValue(s[i + 4]) + HexValue(s[i + 5])

Meant == [c \in {Ch["b"], Ch["f"], Ch["n"], Ch["r"], Ch["t"]} |->
             CASE c = Ch["b"] -> 8 [] c = Ch["f"] -> 12 [] c = Ch["n"] -> 10
               [] c = Ch["r"] -> 13 [] c = Ch["t"] -> 9]

IsEscape(s, i) == i + 5 < Len(s) /\ s[i] = Ch["\\"] /\ s[i + 1] = Ch["u"]

RECURSIVE PointsFrom(_, _)
PointsFrom(s, i) ==
    IF i >= Len(s) THEN <<>>
    ELSE IF ~IsEscape(s, i)
    THEN IF s[i] # Ch["\\"] THEN <<s[i]>> \o PointsFrom(s, i + 1)
         ELSE <<IF s[i + 1] \in DOMAIN Meant THEN Meant[s[i + 1]] ELSE s[i + 1]>>
              \o PointsFrom(s, i + 2)
    ELSE LET high == CodeAt(s, i)
             low  == IF IsEscape(s, i + 6) THEN CodeAt(s, i + 6) ELSE 0
         IN  IF high \notin 55296..57343 THEN <<high>> \o PointsFrom(s, i + 6)
             ELSE IF high < 56320 /\ low \in 56320..57343
             THEN <<65536 + (1024 * (high % 1024)) + (low % 1024)>> \o PointsFrom(s, i + 12)
             ELSE <<BadPoint>>

Points(s) == PointsFrom(s, 2)

\* Well-formed UTF-8, in its shortest form and without surrogates.
RECURSIVE FromUtf8(_)
FromUtf8(v) ==
    LET n     == IF v[1] < 128 THEN 1 ELSE IF v[1] \in 192..223 THEN 2
                 ELSE IF v[1] \in 224..239 THEN 3 ELSE IF v[1] \in 240..247 THEN 4 ELSE 0
        lead  == CASE n = 1 -> v[1] [] n = 2 -> v[1] % 32 [] n = 3 -> v[1] % 16 [] OTHER -> v[1] % 8
        point == FoldLeft(LAMBDA p, b : (64 * p) + (b % 64), lead, SubSeq(v, 2, n))
        least == <<0, 128, 2048, 65536>>
    IN  IF v = <<>> THEN <<>>
        ELSE IF \/ n = 0 \/ n > Len(v)
                \/ \E k \in 2..n : v[k] \notin 128..191
                \/ point < least[n] \/ point \in 55296..57343
        THEN <<BadPoint>>
        ELSE <<point>> \o FromUtf8(SubSeq(v, n + 1, Len(v)))
=============================================================================
