SPECIFICATION SvSpec
CHECK_DEADLOCK FALSE
CONSTANTS
    UCallers = {u1, u2}
    Tiers <- SvTiers
    MaxTokens = 1
    CallTokens = 1
    MeterRuns = 1
    MaxToolCalls = 1
    MaxOperations = 2
    MaxReplies = 1
    MaxChanges = 1
    HPlatforms <- SvPlatforms
    HConfigs <- SvConfigs
    HRequests <- SvRuntimes
    HHosts <- SvEngineHosts
    HNodes <- SvNodes
    HMaxSaves = 1
    ICallers = {i1, i2}
    IPayloads <- SvPayloads
    IPlatforms <- SvRuleSets
    IUrls <- SvUrls
    MaxSaved = 2
    MaxStates = 1
    MaxIntCalls = 2
    NThreads = {n1, n2}
    NPayloads <- SvSaves
    NRequests <- SvChats
    MaxKeys = 2
    MaxSettingCalls = 2
    XThreads = {x1, x2}
    XProfiles <- SvProfiles
    XIdentities <- SvIdentities
    XTrusted = {"backend"}
    XMembers <- SvMembers
    XAdmins = {"locus-admin"}
    XBuilders = {"bob"}
    Skew = 1
    Ttl = 3
    MaxNonces = 1
    MaxNow = 3
    MaxHitches = 1
    FCallers = {f1, f2}
    FHosts <- SvSecretHosts
    MaxSecrets = 4
    MaxAccesses = 2
    MaxLocks = 1
    BHosts <- SvDesktopHosts
    MaxLaunches = 2
    MaxWoes = 1
    CHosts <- SvExecHosts
    CExpected = {0, 1, 127}
    MaxCommands = 2
INVARIANTS
    SpendStaysNearTheBudget
    EnginesWereAllowed
    
    
    
    LegacySecretsSurvive
    
    NothingOutlivesItsCommand
