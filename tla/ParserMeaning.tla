---------------------------- MODULE ParserMeaning ----------------------------
(***************************************************************************)
(* What the parser makes of a text, held against what the text means: the  *)
(* tree against the term of the grammar, the words against their values.   *)
(***************************************************************************)
EXTENDS Parser, Meaning

(* A text is accepted exactly when the rules of its grammar give it a      *)
(* term, and the tree is that term: what parse_helper decides by priorities *)
(* and by retrying lexers is what the grammar says.  Texts in which a       *)
(* bracket is closed that is not open are left out: two closing brackets    *)
(* after an operand are taken for one pair (property 8, combined to 1).     *)
TreeIsAsWritten ==
    LET w == Lex(Grammar_, text)
        t == IF \E k \in DOMAIN w : w[k].kind = "bad" THEN NoTerm ELSE Term(w)
    IN  /\ mode = "full" /\ phase \in {"done", "error"}
        /\ refused \subseteq {"not_yet"} /\ Matched(w)
        =>
        IF phase = "error" THEN Growing \/ t = NoTerm ELSE Dump(tree) = t

(* A string that the lexer takes for a token decodes, unless half of a      *)
(* surrogate pair stands alone, and to the UTF-8 of the characters it means *)
(* (json.hpp:180-238 and 362-533).                                          *)
StringsDecode ==
    \A k \in DOMAIN tokens : tokens[k].rtt = "value_string" =>
        LET word == tokens[k].symbol
            d    == Decode(word)
        IN  /\ d.code = (BadPoint \notin ToSet(Points(word)))
            /\ d.code => FromUtf8(d.value) = Points(word)

(* Whatever bytes a value has, encode() makes one string token of them that *)
(* decode() takes back to the same bytes (json.hpp:251-360).                *)
EncodingIsRead ==
    phase = "arrived" => LET e == Encode(text) IN
        /\ ReadString(e) = Success(Len(e))
        /\ Decode(e) = [code |-> TRUE, value |-> text]

\* An exponent right after a lone 0, or another sign in an exponent.
OddNumber(s) ==
    \E i \in 2..Len(s) :
        \/ /\ s[i] = Ch["e"] /\ s[i - 1] = Ch["0"]
           /\ i = 2 \/ s[i - 2] \notin {Ch["0"], Ch["1"], Ch["."], Ch["x"], Ch["e"]}
        \/ /\ s[i] \in {Ch["+"], Ch["-"]}
           /\ \E j \in 1..i - 2 : s[j] = Ch["e"] /\ \A k \in j + 1..i - 1 : IsDigit(s[k], FALSE)

(* check_number() reads as much as strtod() does, apart from OddNumber.     *)
NumberIsRead ==
    source = "number" /\ phase = "arrived" /\ ~OddNumber(text) =>
        CheckNumber(text, FALSE).size = Strtod(text)

(* The words of a text are read as they are written: strings and numbers.  *)
WordsAreRead == StringsDecode /\ EncodingIsRead /\ NumberIsRead
=============================================================================
