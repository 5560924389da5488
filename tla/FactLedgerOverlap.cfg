\* Two overlapping uploads processed by two workers, reprocessed, cancelled and deleted.
SPECIFICATION Spec
CONSTANTS
    g1 = g1
    g2 = g2
    b1 = b1
    b2 = b2
    Grains <- TwoGrains
    Batches <- TwoBatches
    MaxRuns = 3
    Workers = 2
SYMMETRY Symmetry
INVARIANTS
    TypeOK
    OneSupersessionPerRun
    NoOrphanRows
    CleanDrop
    OwnFactsSurvive
CHECK_DEADLOCK FALSE
