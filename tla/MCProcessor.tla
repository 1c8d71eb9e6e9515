---------------------------- MODULE MCProcessor ----------------------------
(* An instance of the thread pool for TLC.                                 *)
EXTENDS Processor

CONSTANTS t1, t2, c1, c2, noTask

TwoTasks   == {t1, t2}
OneClient  == {c1}
TwoClients == {c1, c2}

Sizes013 == {0, 1, 3}
Counts02 == {0, 2}
=============================================================================
