\* Two overlapping uploads processed one after the other.
SPECIFICATION Spec
CONSTANTS
    g1 = g1
    g2 = g2
    b1 = b1
    b2 = b2
    Grains <- TwoGrains
    Batches <- TwoBatches
    MaxRuns = 3
    Workers = 1
SYMMETRY Symmetry
INVARIANTS
    NothingForgotten
CHECK_DEADLOCK FALSE
