------------------------- MODULE MCProcessorStream -------------------------
(* An instance of the processor stream for TLC.                            *)
EXTENDS ProcessorStream

CONSTANTS r1, r2, s1, noRequest

TwoRequests == {r1, r2}
OneSender   == {s1}
UpTo2       == 0..2
=============================================================================
