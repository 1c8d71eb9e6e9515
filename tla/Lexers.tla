------------------------------- MODULE Lexers -------------------------------
(***************************************************************************)
(* What the lexers of belt.pp/parser.hpp, math_expression.hpp and json.hpp *)
(* read at the head of a text.  A text is a sequence of character codes,   *)
(* as the string functions of json.hpp calculate with them.                *)
(*                                                                         *)
(* A lexer answers with one of e_three_state_result: error when the text   *)
(* cannot begin with its token, attempt when it has to see more of it,     *)
(* success with the size of the token.                                     *)
(***************************************************************************)
EXTENDS Integers, Sequences, FiniteSets, SequencesExt

Characters == {"\t", "\n", "\r", " ", "\"", "(", ")", "*", "+", ",", "-",
    ".", "/", "0", "1", "7", "8", "9", ":", "A", "B", "C", "D", "E", "F", "X", "[",
    "\\", "]", "^", "a", "b", "e", "f", "l", "n", "r", "s", "t", "u", "x",
    "{", "}"}

Ch == [c \in Characters |->
    CASE c = "\t" -> 9 [] c = "\n" -> 10 [] c = "\r" -> 13 [] c = " " -> 32
     [] c = "\"" -> 34 [] c = "(" -> 40 [] c = ")" -> 41 [] c = "*" -> 42
     [] c = "+" -> 43 [] c = "," -> 44 [] c = "-" -> 45 [] c = "." -> 46
     [] c = "/" -> 47 [] c = "0" -> 48 [] c = "1" -> 49 [] c = "7" -> 55 [] c = "8" -> 56
     [] c = "9" -> 57 [] c = ":" -> 58 [] c = "A" -> 65 [] c = "B" -> 66 [] c = "C" -> 67
     [] c = "D" -> 68 [] c = "E" -> 69 [] c = "F" -> 70 [] c = "X" -> 88
     [] c = "[" -> 91 [] c = "\\" -> 92 [] c = "]" -> 93 [] c = "^" -> 94
     [] c = "a" -> 97 [] c = "b" -> 98 [] c = "e" -> 101 [] c = "f" -> 102
     [] c = "l" -> 108 [] c = "n" -> 110 [] c = "r" -> 114 [] c = "s" -> 115
     [] c = "t" -> 116 [] c = "u" -> 117 [] c = "x" -> 120 [] c = "{" -> 123
     [] c = "}" -> 125]

Spelled(word) == [i \in 1..Len(word) |-> Ch[word[i]]]

Error        == [code |-> "error",   size |-> 0]
Attempt      == [code |-> "attempt", size |-> 0]
Success(n)   == [code |-> "success", size |-> n]

\* Every internal_read: parse() returned true, or nothing is consumed yet.
Outcome(parsed, size) ==
    IF ~parsed THEN Error ELSE IF size = 0 THEN Attempt ELSE Success(size)

-----------------------------------------------------------------------------
(* Operators: one character each.                                          *)

\* place_as_operator, right and property are what parse() assigns.
Operator(lexer, symbol, priority, place, right, property) ==
    [lexer |-> lexer, symbol |-> Ch[symbol], priority |-> priority,
     place |-> place, right |-> right, property |-> property]

BinaryOperators == {
    Operator("binary_operator_plus",     "+", 1, "operator", 1, 1),
    Operator("binary_operator_minus",    "-", 1, "operator", 1, 1),
    Operator("binary_operator_multiply", "*", 2, "operator", 1, 1),
    Operator("binary_operator_divide",   "/", 2, "operator", 1, 1),
    Operator("binary_operator_power",    "^", 3, "operator", 1, 1)}

PrefixAndBrackets == {
    Operator("unary_operator_plus", "+", 4, "value",    1, 1),
    Operator("bracket",             "(", 5, "value",    1, 4),
    Operator("bracket",             ")", 5, "operator", 0, 8)}

MathOperators == BinaryOperators \cup PrefixAndBrackets

JsonOperators == {
    Operator("operator_comma", ",", 1, "operator", 1, 1),
    Operator("operator_colon", ":", 2, "operator", 1, 0),
    Operator("scope_brace",    "{", 3, "value",    1, 4),
    Operator("scope_brace",    "}", 3, "operator", 0, 8),
    Operator("scope_bracket",  "[", 4, "value",    1, 4),
    Operator("scope_bracket",  "]", 4, "operator", 0, 8)}

Operators == MathOperators \cup JsonOperators

Reading(lexer, s) == {o \in Operators : o.lexer = lexer /\ o.symbol = s[1]}

ReadOperator(lexer, s) == Outcome(Reading(lexer, s) # {}, 1)

-----------------------------------------------------------------------------
(* Words and white space.                                                  *)

\* check(): the text and the word agree as far as both go.
Check(s, word) ==
    IF IsPrefix(word, s) THEN Success(Len(word))
    ELSE Outcome(IsPrefix(s, word), 0)

ReadBool(s) ==
    IF Check(s, Spelled(<<"t", "r", "u", "e">>)) # Error
    THEN Check(s, Spelled(<<"t", "r", "u", "e">>))
    ELSE Check(s, Spelled(<<"f", "a", "l", "s", "e">>))

ReadNull(s) == Check(s, Spelled(<<"n", "u", "l", "l">>))

standard_white_space_set == {Ch[" "], Ch["\t"], Ch["\r"], Ch["\n"]}

ReadWhiteSpace(s) ==
    LET blank == {n \in 1..Len(s) : \A i \in 1..n : s[i] \in standard_white_space_set}
    IN  Outcome(blank # {}, Cardinality(blank))

-----------------------------------------------------------------------------
(* Numbers.                                                                *)

IsDigit(c, hex) ==
    \/ c \in Ch["0"]..Ch["9"]
    \/ hex /\ (c \in Ch["a"]..Ch["f"] \/ c \in Ch["A"]..Ch["F"])

\* check_number() between two characters: taken counts those looked at, and
\* number_end those that are a number already.
NumberStart == [state |-> 0, hex |-> FALSE, dot |-> FALSE,
                taken |-> 0, number_end |-> 0, stopped |-> FALSE]

NumberStep(m, c) ==
    LET goes(state) == [m EXCEPT !.state = state, !.taken = @ + 1]
        ends(state) == [goes(state) EXCEPT !.number_end = m.taken + 1]
        sign  == c \in {Ch["-"], Ch["+"]}
    IN  CASE m.stopped -> m
          [] m.stopped = FALSE ->
             IF m.state = 0 /\ sign THEN goes(1)
             ELSE IF m.state < 2 /\ c = Ch["0"] THEN ends(2)
             ELSE IF m.state = 2 /\ c \in {Ch["x"], Ch["X"]} THEN [goes(3) EXCEPT !.hex = TRUE]
             ELSE IF m.state < 5 /\ c = Ch["."] /\ ~m.dot
                  THEN [(IF m.state \in {2, 4} THEN ends(4) ELSE goes(3)) EXCEPT !.dot = TRUE]
             ELSE IF m.state < 5 /\ IsDigit(c, m.hex) THEN ends(4)
             ELSE IF m.state = 4 /\ c \in {Ch["e"], Ch["E"]} THEN goes(5)
             ELSE IF m.state = 5 /\ sign THEN goes(6)
             ELSE IF m.state \in {5, 6} /\ IsDigit(c, m.hex) THEN ends(m.state)
             ELSE [m EXCEPT !.stopped = TRUE]

CheckNumber(s, stream_mode) ==
    LET run[n \in 0..Len(s)] == IF n = 0 THEN NumberStart ELSE NumberStep(run[n - 1], s[n])
        m   == run[Len(s)]
        all == ~m.stopped
    IN  IF m.number_end = 0 THEN Outcome(all, 0)
        ELSE Outcome(TRUE, IF ~stream_mode \/ ~all THEN m.number_end ELSE 0)

\* Variant: a number ends where the text ends so far.
ReadNumberAtOnce(s) == CheckNumber(s, FALSE)

ReadNumber(s) == CheckNumber(s, TRUE)

\* strtod(), of which the texts here reach signs, decimals with an exponent
\* and hexadecimals without one: the longest prefix that is such a number.
IsMantissa(w, hex) ==
    /\ \E i \in 1..Len(w) : IsDigit(w[i], hex)
    /\ \A i \in 1..Len(w) : IsDigit(w[i], hex) \/ w[i] = Ch["."]
    /\ Cardinality({i \in 1..Len(w) : w[i] = Ch["."]}) < 2

Unsigned(w) == IF w # <<>> /\ w[1] \in {Ch["+"], Ch["-"]} THEN Tail(w) ELSE w

IsExponent(w) ==
    /\ Len(w) > 1 /\ w[1] \in {Ch["e"], Ch["E"]}
    /\ Unsigned(Tail(w)) # <<>>
    /\ \A i \in 1..Len(Unsigned(Tail(w))) : IsDigit(Unsigned(Tail(w))[i], FALSE)

IsNumber(w) ==
    LET u == Unsigned(w) IN
    \/ \E n \in 1..Len(u) : /\ IsMantissa(SubSeq(u, 1, n), FALSE)
                            /\ n = Len(u) \/ IsExponent(SubSeq(u, n + 1, Len(u)))
    \/ /\ Len(u) > 2 /\ u[1] = Ch["0"] /\ u[2] \in {Ch["x"], Ch["X"]}
       /\ IsMantissa(SubSeq(u, 3, Len(u)), TRUE)

Strtod(s) == Max({0} \cup {n \in 1..Len(s) : IsNumber(SubSeq(s, 1, n))})

ReadStrtod(s) == Outcome(Strtod(s) # 0, Strtod(s))

-----------------------------------------------------------------------------
(* Quoted strings.                                                         *)

SimpleEscapes == {Ch[c] : c \in {"\"", "\\", "/", "b", "f", "n", "r", "t"}}

StringStart == [at |-> "open", hex |-> 0, size |-> 0]

StringStep(m, c) ==
    LET goes(at) == [m EXCEPT !.at = at, !.size = @ + 1]
    IN  CASE m.at \in {"closed", "bad"} -> m
          [] m.at = "open" -> IF c = Ch["\""] THEN goes("plain") ELSE [m EXCEPT !.at = "bad"]
          [] m.at = "plain" ->
             IF c = Ch["\""] THEN goes("closed")
             ELSE IF c < Ch[" "] THEN [m EXCEPT !.at = "bad"]
             ELSE IF c = Ch["\\"] THEN goes("escape") ELSE goes("plain")
          [] m.at = "escape" ->
             IF c \in SimpleEscapes THEN goes("plain")
             ELSE IF c = Ch["u"] THEN [goes("hex") EXCEPT !.hex = 4]
             ELSE [m EXCEPT !.at = "bad"]
          [] m.at = "hex" ->
             IF ~IsDigit(c, TRUE) THEN [m EXCEPT !.at = "bad"]
             ELSE [goes(IF m.hex = 1 THEN "plain" ELSE "hex") EXCEPT !.hex = @ - 1]

ReadString(s) ==
    LET run[n \in 0..Len(s)] == IF n = 0 THEN StringStart ELSE StringStep(run[n - 1], s[n])
        m == run[Len(s)]
    IN  Outcome(m.at # "bad", IF m.at = "closed" THEN m.size ELSE 0)

-----------------------------------------------------------------------------
(* The grammars: their lexers in the order they are tried.                 *)

Lexers == [
    math |-> <<"discard", "binary_operator_plus", "binary_operator_minus", "number",
               "binary_operator_multiply", "binary_operator_divide",
               "binary_operator_power", "bracket", "unary_operator_plus">>,
    json |-> <<"operator_comma", "scope_brace", "scope_bracket", "operator_colon",
               "value_string", "value_number", "value_bool", "value_null", "discard">>]

\* What a value without an operator before it stands for.
DefaultOperator == [
    math |-> {o \in MathOperators : o.lexer = "binary_operator_multiply"},
    json |-> {}]

Read(lexer, s) ==
    CASE lexer = "discard"      -> ReadWhiteSpace(s)
      [] lexer = "number"       -> ReadStrtod(s)
      [] lexer = "value_number" -> ReadNumber(s)
      [] lexer = "value_string" -> ReadString(s)
      [] lexer = "value_bool"   -> ReadBool(s)
      [] lexer = "value_null"   -> ReadNull(s)
      [] OTHER                  -> ReadOperator(lexer, s)

PlaceAs(lexer, s) ==
    IF lexer = "discard" THEN "discard"
    ELSE IF \E o \in Reading(lexer, s) : o.place = "operator" THEN "operator" ELSE "value"
=============================================================================
