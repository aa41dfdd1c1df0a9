SPECIFICATION FairSpec
CONSTANTS
    e1 = e1
    e2 = e2
    d1 = d1
    d2 = d2
    None = None
    Effects = {e1}
    Daemons = {d1, d2}
    Unsupported = {}
    MaxAttempts = 3
    Delay <- PolicyDelay
    ClaimTTL = 12
    QueryBudget = 6
    PollInterval = 2
    BatchSize = 1
    Deadlines = {2}
    Prompt = TRUE
    StepsMayEnd = FALSE
    MaxCrashes = 0
    MaxDrains = 0
PROPERTIES
    UnknownSettles
CHECK_DEADLOCK FALSE
