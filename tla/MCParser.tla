----------------------------- MODULE MCParser -----------------------------
(* An instance of the parser for TLC: math texts, json texts, and json     *)
(* texts that go into the numbers, the strings and the edges of the code   *)
(* units: of UTF-8's lengths and of the halves of surrogate pairs.         *)
EXTENDS ParserMeaning

Words(words) == {Spelled(w) : w \in words}

AllSources == {"math", "signs", "json", "words", "brackets", "number", "string", "edges"}

Grammars == [s \in AllSources |-> IF s \in {"math", "signs"} THEN "math" ELSE "json"]

Units == {<<"0", "0", "0", "0">>, <<"0", "0", "7", "f">>, <<"0", "0", "8", "0">>,
          <<"0", "7", "F", "F">>, <<"0", "8", "0", "0">>, <<"D", "7", "f", "f">>,
          <<"D", "8", "0", "0">>, <<"D", "B", "F", "F">>, <<"D", "C", "0", "0">>,
          <<"D", "F", "f", "F">>, <<"E", "0", "0", "0">>, <<"f", "F", "F", "f">>}

\* In math texts a value beside a value is a product, of a priority between
\* those of "+" and "-" and that of "^".
Pieces == [
    math     |-> Words({<<"+">>, <<"-">>, <<"^">>, <<"(">>, <<")">>, <<"1">>}),
    signs    |-> Words({<<"+">>, <<"1">>}),
    json     |-> Words({<<"[">>, <<"]">>, <<",">>, <<":">>, <<"1">>}),
    words    |-> Words({<<"[">>, <<",">>, <<"t", "r">>, <<"u", "e">>, <<"n", "u", "l">>, <<"l">>}),
    brackets |-> Words({<<"{">>, <<"}">>, <<"[">>, <<"]">>, <<"1", " ">>}),
    number   |-> Words({<<"0">>, <<"1">>, <<".">>, <<"e">>, <<"-", "1">>, <<"x">>}),
    string   |-> Words({<<"\"">>, <<"\\">>, <<"u">>, <<"n", "\n">>,
                        <<"\\", "u", "0", "0", "8", "0">>,
                        <<"\\", "u", "D", "8", "0", "1">>,
                        <<"\\", "u", "D", "C", "0", "1">>}),
    edges    |-> Words({<<"\"">>} \cup {<<"\\", "u">> \o unit : unit \in Units})]

Most    == [math |-> 5, signs |-> 6, json |-> 5, words |-> 4,
            brackets |-> 4, number |-> 4, string |-> 4, edges |-> 4]
NotYets == [math |-> 9, signs |-> 9, json |-> 40, words |-> 2,
            brackets |-> 40, number |-> 40, string |-> 40, edges |-> 40]
Depths  == [math |-> 9, signs |-> 3, json |-> 3, words |-> 9,
            brackets |-> 9, number |-> 9, string |-> 9, edges |-> 9]
Sizes   == [math |-> 5, signs |-> 7, json |-> 9, words |-> 9,
            brackets |-> 3, number |-> 9, string |-> 9, edges |-> 9]
Buffers == [math |-> 9, signs |-> 5, json |-> 9, words |-> 9,
            brackets |-> 9, number |-> 4, string |-> 99, edges |-> 99]
=============================================================================
