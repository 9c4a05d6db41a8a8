SPECIFICATION LockSpec
CONSTANTS
    Procs = {p1, p2}
    LockTtl = 2
    MaxLockCrashes = 0
INVARIANT MutualExclusion
