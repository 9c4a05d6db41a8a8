SPECIFICATION ContentionSpec
CONSTANTS
    Procs = {p1, p2}
    LockTtl = 2
    MaxLockCrashes = 2
    Runners = {r1, r2}
    RunIds = {1, 2, 3}
    ClaimTtl = 3
    MaxStall = 1
    MaxCopies = 2
    MaxClaimCrashes = 2
    VCatalog = {"m1"}
    VOthers = {"x"}
    VThreads = {v1, v2}
    VWorkers = {k1, k2}
    MaxAsked = 4
    MaxLines = 1
    MaxOutages = 1
INVARIANTS
    LiveClaimsOverlapped
    OneDownloadPerModel
PROPERTIES
    NeverWedged
    
    IssueKeepsBeingWorked
\* The bound on the requests ends the downloads.
CHECK_DEADLOCK FALSE
