SPECIFICATION MergeSpec
CONSTANTS
    Prs = {p1}
    MaxMoves = 1
    MaxMergeFaults = 1
    MaxMergeCrashes = 0
INVARIANT HeldPrIsExplained
CHECK_DEADLOCK FALSE
