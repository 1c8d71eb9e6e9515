------------------------------ MODULE TaskPool ------------------------------
(***************************************************************************)
(* What iprocessor_old promises its callers, without threads, locks or     *)
(* condition variables: accepted tasks start in the order they were        *)
(* accepted, each once, and a caller of wait() gets out only at a moment   *)
(* when everything accepted has finished.                                  *)
(***************************************************************************)
EXTENDS Integers, Sequences

CONSTANTS Tasks, Clients

VARIABLES
    pending,   \* accepted tasks that have not started
    running,   \* tasks being run
    finished,  \* tasks that have returned
    waiting    \* callers inside wait()

vars == <<pending, running, finished, waiting>>

Init ==
    /\ pending = <<>>
    /\ running = {}
    /\ finished = {}
    /\ waiting = {}

Known == {pending[i] : i \in 1..Len(pending)} \cup running \cup finished

Accept(t) ==
    /\ t \notin Known
    /\ pending' = Append(pending, t)
    /\ UNCHANGED <<running, finished, waiting>>

Start ==
    /\ pending # <<>>
    /\ running' = running \cup {Head(pending)}
    /\ pending' = Tail(pending)
    /\ UNCHANGED <<finished, waiting>>

Finish(t) ==
    /\ t \in running
    /\ running' = running \ {t}
    /\ finished' = finished \cup {t}
    /\ UNCHANGED <<pending, waiting>>

Enter(c) ==
    /\ c \notin waiting
    /\ waiting' = waiting \cup {c}
    /\ UNCHANGED <<pending, running, finished>>

Leave(c) ==
    /\ c \in waiting
    /\ pending = <<>>
    /\ running = {}
    /\ waiting' = waiting \ {c}
    /\ UNCHANGED <<pending, running, finished>>

Next ==
    \/ \E t \in Tasks : Accept(t) \/ Finish(t)
    \/ Start
    \/ \E c \in Clients : Enter(c) \/ Leave(c)

Spec == Init /\ [][Next]_vars

FairSpec ==
    /\ Spec
    /\ WF_vars(Start)
    /\ \A t \in Tasks : WF_vars(Finish(t))
    /\ \A c \in Clients : WF_vars(Leave(c))
=============================================================================
