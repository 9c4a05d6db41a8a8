SPECIFICATION GraphSpec
CONSTANTS
    Canvases <- RunCanvases
    ToolLimit = 2
    MaxCollaborators = 1
    MaxSwitches = 1
    KCanvases <- CompilerCanvases
    KReplies <- MCReplies
    KPortOrder <- MCPortOrder
    KLoopRequests = {2}
    KSlack = 25
    MaxEntries = 3
    RedisMax = 2
    MaxUpsets = 1
    QBuckets = {"agent", "workflow"}
    QRunners = {q1, q2}
    MaxCandidates = 2
    MinCandidates = 2
    MaxPasses = 2
    QLimit = 2
    OUsers = {u1, u2}
    MaxEdits = 2
    MaxTurnovers = 1
    MaxContents = 2
    MaxObjects = 2
    JMaxTasks = 2
    MaxChecks = 3
    MaxCrashes = 1
    JParents <- MCParents
    JManifests <- MCManifests
    ZHandlers = {z1, z2}
    ZRequests <- MCRequests
    ZMessages <- MCMessages
    MaxRuns = 3
    ZMaxOutcomes = 1
    MaxStops = 1
INVARIANTS
    
    
    ConsolidatedIsCovered
    
    
    

    
\* Every part but the executors stops at the bounds of its behaviours.
CHECK_DEADLOCK FALSE
