\* Progress under fairness while the API restarts and the upload is published or deleted.
SPECIFICATION FairSpec
CONSTANTS
    w1 = w1
    w2 = w2
    h1 = h1
    h2 = h2
    Workers <- OneWorker
    Handlers <- TwoHandlers
    Mixes = {{"delete", "publish"}}
    MaxRuns = 3
    MaxJobs = 1
    MaxCrashes = 1
INVARIANTS
    DeletedIsGone
    ProcessedHasSucceededRun
PROPERTIES
    SucceededStays
    EventuallyHandled
    RunsEnd
CHECK_DEADLOCK FALSE
