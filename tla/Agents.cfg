SPECIFICATION AgentSpec
CONSTANTS
    MaxSteps = 2
    MaxTokens = 4
    MaxActions = 2
    MaxIdentical = 2
    PlanRequired = TRUE
    BashOnly = FALSE
    Judged = TRUE
    CallCost = 2
    MaxCalls = 2
    MaxCrashes = 1
    ACallKinds = {"edit", "misedit", "bash", "submit", "malformed"}
    AMaxCalls = 2
    AMaxSteps = 3
    AMaxRetries = 1
    AMaxReasks = 2
    AMaxEmptySubmits = 1
    Reviewers = 2
    MaxRounds = 3
    MaxDiscussions = 2
    MaxFlows = 2
    Agents = {a, b, c}
    Lead = a
    MaxTurns = 2
    MaxIterations = 2
    MaxMentions = 2
INVARIANTS
    DoneIsVerified
    BudgetsBoundTheRun
    CallsAreAnswered
    
    
PROPERTIES
    ImplementsRunOutcome
\* A chat is over when the answer was given.
CHECK_DEADLOCK FALSE
