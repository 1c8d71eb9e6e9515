---------------------------- MODULE MCRingQueue ----------------------------
(***************************************************************************)
(* A 5-bit size_t: the index overflows after 32 pushes.  The shapes are    *)
(* those of the code: the default queue of a stream, the first buffer of   *)
(* a table, and the next one that continues at the index the last ended.   *)
(***************************************************************************)
EXTENDS RingQueue

MCInitialShapes == {<<0, 0>>, <<4, 0>>, <<8, 4>>, <<8, 29>>}
=============================================================================
