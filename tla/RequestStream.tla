--------------------------- MODULE RequestStream ---------------------------
(***************************************************************************)
(* What a stream that processes requests promises the thread that owns its *)
(* event handler: requests start in the order they were sent, each once,   *)
(* the answers of one worker reach receive() once and in the order they    *)
(* were given, and every wake() is reported by one wait.                   *)
(***************************************************************************)
EXTENDS Integers, Sequences

CONSTANTS Requests, Answers

VARIABLES
    queued,     \* requests sent that have not started
    running,    \* requests being worked on
    finished,   \* requests whose worker function has returned
    ready,      \* answers nobody has received
    received,   \* answers handed to the caller of receive
    wakes       \* calls of wake() no wait has reported

vars == <<queued, running, finished, ready, received, wakes>>

Init ==
    /\ queued = <<>>
    /\ running = {}
    /\ finished = {}
    /\ ready = <<>>
    /\ received = <<>>
    /\ wakes = 0

Known == {queued[i] : i \in 1..Len(queued)} \cup running \cup finished

Send(r) ==
    /\ r \notin Known
    /\ queued' = Append(queued, r)
    /\ UNCHANGED <<running, finished, ready, received, wakes>>

Start ==
    /\ queued # <<>>
    /\ running' = running \cup {Head(queued)}
    /\ queued' = Tail(queued)
    /\ UNCHANGED <<finished, ready, received, wakes>>

(* An answer names the request it belongs to and is given while the worker *)
(* function runs.                                                          *)
Answer(a) ==
    /\ a[1] \in running
    /\ a \notin {(received \o ready)[i] : i \in 1..Len(received \o ready)}
    /\ ready' = Append(ready, a)
    /\ UNCHANGED <<queued, running, finished, received, wakes>>

Finish(r) ==
    /\ r \in running
    /\ running' = running \ {r}
    /\ finished' = finished \cup {r}
    /\ UNCHANGED <<queued, ready, received, wakes>>

Receive ==
    /\ received' = received \o ready
    /\ ready' = <<>>
    /\ UNCHANGED <<queued, running, finished, wakes>>

Wake ==
    /\ wakes' = wakes + 1
    /\ UNCHANGED <<queued, running, finished, ready, received>>

Report ==
    /\ wakes > 0
    /\ wakes' = wakes - 1
    /\ UNCHANGED <<queued, running, finished, ready, received>>

Next ==
    \/ \E r \in Requests : Send(r) \/ Finish(r)
    \/ \E a \in Answers : Answer(a)
    \/ Start \/ Receive \/ Wake \/ Report

Spec == Init /\ [][Next]_vars
=============================================================================
