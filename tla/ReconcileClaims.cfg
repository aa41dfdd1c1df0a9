SPECIFICATION FairSpec
CONSTANTS
    e1 = e1
    e2 = e2
    d1 = d1
    d2 = d2
    None = None
    Effects = {e1, e2}
    Daemons = {d1, d2}
    Unsupported = {}
    MaxAttempts = 2
    Delay <- FlatDelay
    ClaimTTL = 2
    QueryBudget = 1
    PollInterval = 1
    BatchSize = 2
    Deadlines = {3}
    Prompt = TRUE
    StepsMayEnd = TRUE
    MaxCrashes = 1
    MaxDrains = 1
INVARIANTS
    NextAttemptBeforeDeadline
PROPERTIES
    ClaimsAreRespected
    ImplementsResolution
    OneDaemonSettles
CHECK_DEADLOCK FALSE
