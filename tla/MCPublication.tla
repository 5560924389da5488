---------------------------- MODULE MCPublication ----------------------------
(* Instances of Publication for TLC. *)
EXTENDS Publication, TLC

CONSTANTS g1, g2, r1, r2, p1, p2

TwoGrains     == {g1, g2}
TwoRuns       == {r1, r2}
TwoPublishers == {p1, p2}
Symmetry == Permutations(Grains) \cup Permutations(Runs) \cup Permutations(Publishers)
=============================================================================
