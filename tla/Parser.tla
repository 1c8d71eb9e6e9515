------------------------------- MODULE Parser -------------------------------
(***************************************************************************)
(* parse_stream() and parse_full() of belt.pp/parser.hpp over the grammars *)
(* of math_expression.hpp and json.hpp: a text arrives, the lexers are     *)
(* tried in their order, and each token is placed in the expression tree.  *)
(*                                                                         *)
(* A json text arrives in pieces, parse_stream() being called again with   *)
(* what it left and what has come since; then the same text is parsed once *)
(* more at one go, by parse_stream() or by parse_full().  A math text goes *)
(* to parse_full() as a whole: strtod() cannot tell that a number may go   *)
(* on.  What it holds is chosen when the lexers come to look at it.        *)
(***************************************************************************)
EXTENDS ExpressionTree

CONSTANTS
    Sources,          \* kinds of texts to parse
    Grammar,          \* of a source: "math" or "json"
    Fragments,        \* of a source: the pieces its texts are made of
    MaxFragments,     \* of a source: how many of them a text has at most
    NotYetLimit,      \* of a source: not_yet_parsed_size_limit of parse_stream
    DepthLimit,       \* of a source: depth_limit
    SizeLimit,        \* of a source: expression_size_limit
    BufferLimit       \* of a source: buffer_size_limit

ASSUME LimitAssumption ==
    \A s \in Sources :
        /\ Grammar[s] \in {"math", "json"}
        /\ \A f \in Fragments[s] : f \in Seq(Int) /\ f # <<>>
        /\ {MaxFragments[s], NotYetLimit[s]} \subseteq Nat
        /\ {DepthLimit[s], SizeLimit[s], BufferLimit[s]} \subseteq Nat

VARIABLES
    source,     \* the kind of this text
    text,       \* what there is of it
    pieces,     \* how many fragments that is
    rest,       \* what has come and is not parsed: it_begin .. it_end
    tree,       \* the expression tree
    index,      \* the lexer to be tried next
    phase,      \* waiting for more, arrived, in a call, or over: done, error
    mode,       \* "stream" in pieces, then "again" or "full" at one go
    streamed,   \* what the pieces gave: the tree, what was left, the verdict
    tokens,     \* history: the tokens placed
    refused     \* history: the limits that have refused something

parserVars == <<source, text, pieces, rest, tree, index, phase, mode, streamed, tokens, refused>>

NoTree == [tree |-> EmptyTree, rest |-> <<>>, ok |-> FALSE, refused |-> {}]

Grammar_ == Grammar[source]

LexersOf == Lexers[Grammar_]

Limit == IF mode = "full" THEN 0 ELSE NotYetLimit[source]

ParserInit ==
    /\ source \in Sources
    /\ mode = IF Grammar[source] = "math" THEN "full" ELSE "stream"
    /\ phase = "waiting"
    /\ text = <<>> /\ pieces = 0 /\ rest = <<>>
    /\ tree = EmptyTree /\ index = 1
    /\ streamed = NoTree /\ tokens = <<>> /\ refused = {}

-----------------------------------------------------------------------------
(* The text.                                                               *)

Growing == pieces < MaxFragments[source]

\* strtod() looks past a sign at the digit after it; a run of digits is one
\* symbol in a math text.
Arrives(f) ==
    /\ Growing
    /\ \/ phase \in {"waiting", "arrived"}
       \/ phase = "error" /\ Grammar_ = "math"    \* what nobody looks at any more
    /\ mode = "stream" \/ Grammar_ = "math"
    /\ Grammar_ = "math" => /\ Len(rest) < 2
                            /\ ~(text # <<>> /\ f = <<Last(text)>> /\ f = <<Ch["1"]>>)
    /\ text' = text \o f
    /\ rest' = IF phase = "error" THEN rest ELSE rest \o f
    /\ pieces' = pieces + 1
    /\ phase' = IF phase = "error" THEN phase ELSE "arrived"
    /\ UNCHANGED <<source, tree, index, mode, streamed, tokens, refused>>

\* No more of it comes.
Ends ==
    /\ phase # "parsing" /\ Growing
    /\ mode = "stream" \/ Grammar_ = "math"
    /\ pieces' = MaxFragments[source]
    /\ UNCHANGED <<source, text, rest, tree, index, phase, mode, streamed, tokens, refused>>

\* parse_stream() is called, or its loop goes on.
Call ==
    /\ phase = "arrived"
    /\ Grammar_ = "math" => Len(rest) > 1 \/ ~Growing
    /\ phase' = "parsing" /\ index' = 1
    /\ UNCHANGED <<source, text, pieces, rest, tree, mode, streamed, tokens, refused>>

-----------------------------------------------------------------------------
(* readers::parse().                                                       *)

\* The lexers from index on that read a token off the rest.
Successes == {i \in index..Len(LexersOf) : Read(LexersOf[i], rest).code = "success"}

\* Variant: a short rest may wait whatever it is.
NotYetShort == Len(rest) <= Limit

\* code_on_not_parsed, when no lexer is left.
MayGoOn == \E i \in DOMAIN LexersOf : Read(LexersOf[i], rest).code = "attempt"

NotYet == MayGoOn /\ Len(rest) <= Limit

Token(lexer, size) ==
    IF Reading(lexer, rest) # {} THEN OperatorNode(CHOOSE o \in Reading(lexer, rest) : TRUE)
    ELSE ValueNode(lexer, Len(tree.expression_string), size)

Exceeded(placed, size) ==
    {limit \in {"depth", "size", "buffer"} :
        \/ limit = "depth"  /\ Len(placed.node_address) > DepthLimit[source]
        \/ limit = "size"   /\ Len(placed.memory) > SizeLimit[source]
        \/ limit = "buffer" /\ Len(placed.expression_string) + size > BufferLimit[source]}

\* The guard of parse_full() takes the path back to the root.
AtRoot(t) == IF Depth(t) > 1 THEN [t EXCEPT !.node_address = SubSeq(@, 1, 1)] ELSE t

\* The token is placed: the tree and the text have it, and the lexers start anew.
Taken(lexer, size, result) ==
    /\ tree' = [result.tree EXCEPT !.expression_string = @ \o SubSeq(rest, 1, size)]
    /\ rest' = SubSeq(rest, size + 1, Len(rest))
    /\ tokens' = IF lexer = "discard" THEN tokens
                 ELSE Append(tokens, [rtt |-> lexer, place |-> PlaceAs(lexer, rest),
                                      symbol |-> SubSeq(rest, 1, size)])
    /\ index' = 1
    /\ phase' = IF Len(rest) = size THEN "waiting"
                ELSE IF Grammar_ = "math" THEN "arrived" ELSE "parsing"
    /\ UNCHANGED refused

\* It is not: the tree keeps a token that a limit refuses, the text does not.
NotTaken(i, result, over) ==
    /\ tree' = result.tree
    /\ index' = i + 1
    /\ refused' = refused \cup over
    /\ UNCHANGED <<rest, tokens, phase>>

Placed(i, lexer, size, result) ==
    LET over == IF result.success THEN Exceeded(result.tree, size) ELSE {}
    IN  IF result.success /\ over = {} THEN Taken(lexer, size, result)
                                       ELSE NotTaken(i, result, over)

Tried(i, lexer, size) ==
    Placed(i, lexer, size,
           parse_helper(tree, Token(lexer, size), PlaceAs(lexer, rest),
                        DefaultOperator[Grammar_]))

\* The next lexer that reads a token tries to place it.
Try ==
    /\ phase = "parsing" /\ Successes # {}
    /\ LET i == Min(Successes) IN Tried(i, LexersOf[i], Read(LexersOf[i], rest).size)
    /\ UNCHANGED <<source, text, pieces, mode, streamed>>

\* No lexer is left: the rest waits for more, or it is an error.
GiveUp ==
    /\ phase = "parsing" /\ Successes = {}
    /\ index' = 1
    /\ IF NotYet THEN phase' = "waiting" /\ UNCHANGED <<rest, tree, refused>>
                 ELSE /\ phase' = "error" /\ rest' = <<>>
                      /\ tree' = IF mode = "full" THEN AtRoot(tree) ELSE tree
                      /\ refused' = IF MayGoOn THEN refused \cup {"not_yet"} ELSE refused
    /\ UNCHANGED <<source, text, pieces, mode, streamed, tokens>>

-----------------------------------------------------------------------------
(* The end of a text.                                                      *)

\* The text has been parsed in pieces: the same text is parsed at one go.
AtOneGo(m) ==
    /\ mode = "stream" /\ text # <<>>
    /\ \/ phase = "waiting" /\ ~Growing
       \/ phase = "error"
    /\ streamed' = [tree |-> tree, rest |-> rest, ok |-> phase # "error", refused |-> refused]
    /\ mode' = m
    /\ tree' = EmptyTree /\ rest' = text /\ tokens' = <<>> /\ refused' = {}
    /\ phase' = "parsing" /\ index' = 1
    /\ UNCHANGED <<source, text, pieces>>

\* The loop of parse_stream() has ended without an error.
Return ==
    /\ phase = "waiting" /\ mode # "stream"
    /\ Grammar_ = "math" => ~Growing /\ text # <<>>
    /\ phase' = IF mode = "full" /\ ~TreeComplete(tree) THEN "error" ELSE "done"
    /\ tree' = IF mode = "full" THEN AtRoot(tree) ELSE tree
    /\ UNCHANGED <<source, text, pieces, rest, index, mode, streamed, tokens, refused>>

ParserNext ==
    \/ \E f \in Fragments[source] : Arrives(f)
    \/ Ends \/ Call \/ Try \/ GiveUp \/ Return
    \/ \E m \in {"again", "full"} : AtOneGo(m)

ParserSpec == ParserInit /\ [][ParserNext]_parserVars

-----------------------------------------------------------------------------
(* Correctness.                                                            *)

ParserTypeOK ==
    /\ source \in Sources /\ mode \in {"stream", "again", "full"}
    /\ phase \in {"waiting", "arrived", "parsing", "done", "error"}
    /\ pieces \in 0..MaxFragments[source]
    /\ index \in 1..Len(LexersOf) + 1
    /\ rest = SubSeq(text, Len(text) - Len(rest) + 1, Len(text))
    /\ \A a \in 1..Len(tree.memory) :
           LET node == tree.memory[a] IN
           /\ node.right \in 0..1 /\ node.property \in {0, 1, 2, 4, 8}
           /\ {node.last_child, node.previous_peer} \subseteq 0..Len(tree.memory)

(* However operators are inserted above what was placed before, the links  *)
(* make one tree (parser.hpp:785-817): every node but the root is the child *)
(* of one node and once, the first child has no peer before it, the path   *)
(* follows the last children, and whatever has left the path is complete,  *)
(* so that complete(), which looks at the path only, speaks of it all.     *)
TreeIsLinked ==
    LET all      == 1..Len(tree.memory)
        path     == ToSet(tree.node_address)
        children == [a \in all |-> Children(tree, a)]
        times(a) == Cardinality({c \in all \X all :
                                    /\ c[2] \in DOMAIN children[c[1]]
                                    /\ children[c[1]][c[2]] = a})
    IN  /\ \A a \in all : times(a) = IF a = tree.node_address[1] THEN 0 ELSE 1
        /\ \A a \in all : children[a] # <<>> =>
               tree.memory[children[a][1]].previous_peer = None
        /\ \A i \in 2..Depth(tree) : Item2(tree, i - 1).last_child = tree.node_address[i]
        /\ phase \notin {"done", "error"} => \A a \in all \ path : Complete(tree.memory[a])

(* The pieces in which a text arrives do not matter: parse_stream() on the *)
(* whole of it gives the tree, the rest and the verdict that the calls on   *)
(* the pieces gave, if none of them found too much of a token that goes on  *)
(* (attempts at the end of a piece, parser.hpp:646-650).                    *)
PiecesDoNotMatter ==
    mode = "again" /\ phase \in {"done", "error"} /\ "not_yet" \notin streamed.refused =>
        /\ streamed.ok = (phase = "done")
        /\ streamed.ok => streamed.tree = tree /\ streamed.rest = rest

(* parse_full() accepts what parse_stream() took in pieces, if nothing is  *)
(* left over and the tree is complete, and nothing else: its limit of 0     *)
(* makes an error of a token that may go on (parser.hpp:1133-1139).         *)
FullAgreesWithStream ==
    /\ mode = "full" /\ Grammar_ = "json" /\ phase \in {"done", "error"}
    /\ "not_yet" \notin streamed.refused
    =>
    /\ (phase = "done") = /\ streamed.ok /\ streamed.rest = <<>>
                          /\ TreeComplete(streamed.tree)
    /\ phase = "done" => Dump(tree) = Dump(AtRoot(streamed.tree))

(* parse_helper has changed the tree when a limit refuses the token         *)
(* (parser.hpp:629-645), and the later lexers are tried on that tree.  What *)
(* a limit refuses is an error all the same: no later lexer reads the json  *)
(* text otherwise, and neither the nodes nor the characters of a math text  *)
(* become fewer.  Its depth does.                                           *)
RefusedIsAnError ==
    refused \ (IF Grammar_ = "math" THEN {"depth"} ELSE {}) # {} =>
        phase \in {"arrived", "parsing", "error"}

(* The tree is one and the parser knows what is complete (parse_helper).   *)
TreeConsistent == ParserTypeOK /\ TreeIsLinked

(* However a text is given to the parser, in pieces or whole, to one       *)
(* function or the other, the outcome is the same.                         *)
WaysAgree == PiecesDoNotMatter /\ FullAgreesWithStream

=============================================================================
