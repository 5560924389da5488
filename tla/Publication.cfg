\* Two publishers overlap while the working set is restated.
SPECIFICATION Spec
CONSTANTS
    g1 = g1
    g2 = g2
    r1 = r1
    r2 = r2
    p1 = p1
    p2 = p2
    Grains <- TwoGrains
    Runs <- TwoRuns
    NoRun = NoRun
    Publishers <- TwoPublishers
    NoOne = NoOne
    MaxPubs = 3
SYMMETRY Symmetry
INVARIANTS
    HistoryIsNewestWins
PROPERTIES
    PublishesAtomically
CHECK_DEADLOCK FALSE
