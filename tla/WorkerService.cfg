CONSTANTS
    a = a
    p1 = p1
    p2 = p2
    None = None
    Steps = {a}
    Pollers = {p1, p2}
    MaxConcurrency = 2
    MaxAttempts = 2
    LeaseTTL = 1
    MaxClaims = 2
    MaxFaults = 2
SPECIFICATION FairSpec
INVARIANTS CapacityHeld SuccessIsOfLatestClaim FailedOnlyAfterExecution UnsettledIsNotRetried
PROPERTIES StopEnds
CHECK_DEADLOCK FALSE
