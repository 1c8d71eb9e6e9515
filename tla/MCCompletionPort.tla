-------------------------- MODULE MCCompletionPort --------------------------
(* An instance of the completion port for TLC.                             *)
EXTENDS CompletionPort

CONSTANTS l, o, a

OneListening == {l}
OneOpening   == {o}
OneAccepted  == {a}
OneOrTheOther == {{o}, {l, a}}

Sends    == [id \in {o, a} |-> IF id = o THEN 3 ELSE 1]
Arrivals == [id \in {o, a} |-> 2]
=============================================================================
