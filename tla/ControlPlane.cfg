SPECIFICATION CPSpec
CONSTANTS
    Threads = {t1, t2}
    MaxRevisions = 3
    MaxDisruptions = 1
    MaxTasks = 2
    RunWorkers = 2
    MaxRequests = 1
    Writers = {w1, w2}
    Sections <- CPSections
    MaxVersion = 1
    MaxTroubles = 2
    ScheduleIds <- CPScheduleIds
    TriggerIds = {"t1"}
    Moments <- CPMoments
    Crons <- CPCrons
    MaxHandled = 2
    MaxMishaps = 2
INVARIANTS
    ServedGraphsWereValidated
    RunningHasAWorker
    QuietStoreIsOnDisk
    FiresOncePerMinute
CHECK_DEADLOCK FALSE
