----------------------------- MODULE JsonString -----------------------------
(***************************************************************************)
(* The text of a json string and its value: encode() and decode() of       *)
(* value_string in belt.pp/json.hpp.  A value is a sequence of bytes.      *)
(***************************************************************************)
EXTENDS Lexers

Hex(n) == IF n < 10 THEN Ch["0"] + n ELSE Ch["a"] + n - 10

HexValue(c) == IF c <= Ch["9"] THEN c - Ch["0"]
               ELSE 10 + (IF c >= Ch["a"] THEN c - Ch["a"] ELSE c - Ch["A"])

\* The letter after the backslash and the byte it stands for.
Short == {<<Ch["b"], 8>>, <<Ch["t"], 9>>, <<Ch["n"], 10>>, <<Ch["f"], 12>>, <<Ch["r"], 13>>}
Itself == {Ch["\""], Ch["\\"]}

EncodeByte(b) ==
    IF \E p \in Short : p[2] = b
    THEN <<Ch["\\"], (CHOOSE p \in Short : p[2] = b)[1]>>
    ELSE IF b \in Itself THEN <<Ch["\\"], b>>
    ELSE IF b < 32 THEN <<Ch["\\"], Ch["u"], Ch["0"], Ch["0"], Hex(b \div 16), Hex(b % 16)>>
    ELSE <<b>>

Encode(value) ==
    <<Ch["\""]>> \o FlattenSeq([i \in 1..Len(value) |-> EncodeByte(value[i])]) \o <<Ch["\""]>>

-----------------------------------------------------------------------------
(* decode()                                                                *)

Utf16Check(code) ==
    IF code \in 55296..56319 THEN "high" ELSE IF code \in 56320..57343 THEN "low" ELSE "bmp"

\* Variant: the pair counts from 0.
SurrogatePairFromZero(high, low) == 1024 * (high - 55296) + (low - 56320)

SurrogatePair(high, low) == 65536 + 1024 * (high - 55296) + (low - 56320)

Utf8(cp) ==
    LET low(n) == 128 + ((cp \div n) % 64) IN
    IF cp <= 127 THEN <<cp>>
    ELSE IF cp <= 2047 THEN <<192 + cp \div 64, low(1)>>
    ELSE IF cp <= 65535 THEN <<224 + cp \div 4096, low(64), low(1)>>
    ELSE <<240 + cp \div 262144, low(4096), low(64), low(1)>>

None_ == -1

\* The variables of the loop: escape_sequence_index and _remaining, the code
\* point being read, the high surrogate that waits, and the value so far.
DecodeStart == [code |-> TRUE, at |-> 0, index |-> 0, remaining |-> 0, code_point |-> None_,
                high |-> None_, proper_ending |-> FALSE, value |-> <<>>]

Fails(d) == [d EXCEPT !.code = FALSE]

\* The second half of an iteration: an item or a code point is complete.
Emit(d, item) ==
    LET range == IF d.code_point = None_ THEN "item" ELSE Utf16Check(d.code_point)
    IN  IF d.high # None_
        THEN IF range = "low"
             THEN [d EXCEPT !.value = @ \o Utf8(SurrogatePair(d.high, d.code_point)),
                            !.high = None_, !.code_point = None_]
             ELSE Fails(d)
        ELSE CASE range = "item" -> [d EXCEPT !.value = @ \o item]
               [] range = "bmp"  -> [d EXCEPT !.value = @ \o Utf8(d.code_point),
                                              !.code_point = None_]
               [] range = "high" -> [d EXCEPT !.high = d.code_point, !.code_point = None_]
               [] range = "low"  -> Fails(d)

EscapeLetter(d, c) ==
    LET done == [d EXCEPT !.index = 0, !.remaining = 0]
    IN  IF c \in Itself \cup {Ch["/"]} THEN Emit(done, <<c>>)
        ELSE IF \E p \in Short : p[1] = c
        THEN Emit(done, <<(CHOOSE p \in Short : p[1] = c)[2]>>)
        ELSE IF c = Ch["u"] THEN [d EXCEPT !.index = 2, !.remaining = 4]
        ELSE Fails(d)

HexDigit(d, c) ==
    LET point == IF d.index = 2 THEN HexValue(c) ELSE 16 * d.code_point + HexValue(c)
        next  == [d EXCEPT !.code_point = point, !.remaining = @ - 1,
                           !.index = IF d.remaining = 1 THEN 0 ELSE @ + 1]
    IN  IF ~IsDigit(c, TRUE) THEN Fails(d)
        ELSE IF next.remaining = 0 THEN Emit(next, <<>>) ELSE next

\* One iteration; size is that of the whole text.
DecodeStep(before, c, size) ==
    LET d == [before EXCEPT !.at = @ + 1]
    IN  CASE ~d.code -> before
          [] d.code /\ d.at = 1 -> IF c = Ch["\""] THEN d ELSE Fails(d)
          [] d.code /\ d.at > 1 ->
             IF d.remaining = 0 /\ c = Ch["\\"] THEN [d EXCEPT !.remaining = 1, !.index = 1]
             ELSE IF d.remaining > 0 /\ d.index = 1 THEN EscapeLetter(d, c)
             ELSE IF d.remaining > 0 THEN HexDigit(d, c)
             ELSE IF c = Ch["\""]
             THEN IF d.at = size THEN [d EXCEPT !.proper_ending = TRUE] ELSE Fails(d)
             ELSE IF c < 32 THEN Fails(d) ELSE Emit(d, <<c>>)

Decode(s) ==
    LET step(d, c) == DecodeStep(d, c, Len(s))
        d == FoldLeft(step, DecodeStart, s)
        code == /\ d.code /\ d.proper_ending
                /\ d.code_point = None_ /\ d.high = None_ /\ d.remaining = 0
    IN  [code |-> code, value |-> IF code THEN d.value ELSE <<>>]
=============================================================================
