SPECIFICATION RunSpec
CONSTANTS
    Issues = {i1}
    MaxRunsPerDay = 1
    MaxFailures = 2
    MaxRunCrashes = 1
    MaxRunFaults = 0
    MaxEdits = 0
INVARIANTS OpenPrIsTracked
