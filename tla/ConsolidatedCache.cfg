\* A publisher, a download and the warm job overlap across a restart, and a
\* stale file cannot be removed.
SPECIFICATION FairCache
CONSTANTS
    Grains = {g1}
    Facts = {f1, f2}
    NoFact = NoFact
    MaxPubs = 2
    Publishers = {p1}
    Clients = {c1}
    MaxCrashes = 1
    MaxStuck = 1
INVARIANTS
    WarmedIsCurrent
    OneArtifact
PROPERTIES
    WarmingEnds
CHECK_DEADLOCK FALSE
