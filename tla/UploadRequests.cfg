\* A request at a time, of one of three mixes, while the upload is processed and the API restarts.
SPECIFICATION Spec
CONSTANTS
    w1 = w1
    w2 = w2
    h1 = h1
    h2 = h2
    Workers <- OneWorker
    Handlers <- OneHandler
    Mixes = {{"cancel", "delete", "publish"}, {"cancel", "delete", "publish", "evaluate"}, {"poll", "reprocess"}}
    MaxRuns = 3
    MaxJobs = 1
    MaxCrashes = 1
VIEW View
INVARIANTS
    CancelledHasNoRows
    NotStuck
CHECK_DEADLOCK FALSE
