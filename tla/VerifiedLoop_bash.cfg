SPECIFICATION Spec
CONSTANTS
    MaxSteps = 2
    MaxTokens = 4
    MaxActions = 2
    MaxIdentical = 2
    PlanRequired = TRUE
    BashOnly = TRUE
    Judged = TRUE
    CallCost = 2
    MaxCalls = 1
    MaxCrashes = 0
INVARIANTS DoneHasPlan
