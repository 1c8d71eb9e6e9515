------------------------------ MODULE MCStrand ------------------------------
(* Instances of the strands for TLC.                                       *)
EXTENDS Strand, TLC

CONSTANTS s1, s2, w1, w2, c1, c2

OneStrand  == {s1}
TwoStrands == {s1, s2}
TwoWorkers == {w1, w2}
OneClient  == {c1}
TwoClients == {c1, c2}

Symmetry == Permutations(TwoStrands) \cup Permutations(TwoWorkers)
=============================================================================
