--------------------------- MODULE MCHttpSession ---------------------------
(* An instance of the HTTP session for TLC: every script of up to two      *)
(* messages out of eleven, and of three out of three of them.              *)
EXTENDS HttpSession

Request(type, first, properties, body, good) ==
    [lines |-> <<first \o <<"u", " ", "H", "r", "n">>>> \o properties \o <<<<"r", "n">>>>,
     body |-> body, type |-> type, good |-> good]

Property == <<"h", "r", "n">>

Letters == {"P", "O", "U", "G", "D", "X", " ", "u", "q", "H", "h", "r", "n", "L", "1", "2", "3"}

\* The content of the last but three is taken for the beginning of a request.
Messages == {
    Request("get", <<"G", " ">>, <<>>, <<>>, TRUE),
    Request("del", <<"D", " ">>, <<Property>>, <<>>, TRUE),
    Request("post", <<"P", "O", " ">>, <<<<"L", "1", "r", "n">>>>, <<"P">>, TRUE),
    Request("put", <<"P", "U", " ">>, <<Property, <<"L", "2", "r", "n">>>>, <<"r", "n">>, TRUE),
    Request("options", <<"O", " ">>, <<>>, <<>>, TRUE),
    Request("post", <<"P", "O", " ">>, <<Property>>, <<>>, FALSE),
    Request("post", <<"P", "O", " ">>, <<<<"L", "1", "r", "n">>, <<"L", "r", "n">>>>, <<>>, FALSE),
    Request("put", <<"P", "U", " ">>, <<<<"L", "3", "r", "n">>>>, <<"G", " ">>, FALSE),
    Request("get", <<"G", " ">>, <<Property, Property, Property>>, <<>>, FALSE),
    [lines |-> <<<<"G", " ", "q", " ", "H", "r", "n">>, <<"r", "n">>>>, body |-> <<>>,
     type |-> "get", good |-> FALSE],
    Request("get", <<"X", " ">>, <<>>, <<>>, FALSE)}

\* A query that names no argument.
Refusals == {<<"q">>}

Some == {m \in Messages : m.type \in {"put", "options"}}

UpToThree == UNION {[1..n -> Messages] : n \in 1..2} \cup [1..3 -> Some]
=============================================================================
