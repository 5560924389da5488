---------------------------- MODULE MCFactLedger ----------------------------
(* Instances of FactLedger for TLC. *)
EXTENDS FactLedger, TLC

CONSTANTS g1, g2, b1, b2

TwoGrains == {g1, g2}
TwoBatches == {b1, b2}
Symmetry == Permutations(Grains) \cup Permutations(Batches)
=============================================================================
