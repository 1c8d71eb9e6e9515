--------------------------- MODULE MCDirectStream ---------------------------
(* An instance of the direct channel for TLC.                              *)
EXTENDS DirectStream

CONSTANTS a, b

TwoPeers == {a, b}
=============================================================================
