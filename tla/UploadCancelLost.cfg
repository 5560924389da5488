\* A cancellation requested while the worker finishes.
SPECIFICATION Spec
CONSTANTS
    w1 = w1
    w2 = w2
    h1 = h1
    h2 = h2
    Workers <- OneWorker
    Handlers <- OneHandler
    Mixes = {{"cancel"}}
    MaxRuns = 2
    MaxJobs = 1
    MaxCrashes = 0
INVARIANTS
    CancelFinishes
CHECK_DEADLOCK FALSE
