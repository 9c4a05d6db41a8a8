SPECIFICATION TickSpec
CONSTANTS
    Issues = {i1}
    MaxRunsPerDay = 3
    MaxFailures = 2
    MaxRunCrashes = 1
    MaxRunFaults = 1
    MaxEdits = 1
    Prs = {p1}
    MaxMoves = 2
    MaxMergeFaults = 2
    MaxMergeCrashes = 1
INVARIANTS
    QuotaHolds
    FailureLimitStopsPicking
    MergedHeadPassedTheGuard
PROPERTIES
    ActiveRunSettles
    EveryPrIsSettled
\* Reconciliation stops when no PR is left.
CHECK_DEADLOCK FALSE
