CONSTANTS
    r1 = r1
    r2 = r2
    a = a
    b = b
    c = c
    w1 = w1
    w2 = w2
    Runs = {r1}
    Steps = {a, b}
    Workers = {w1}
    RunOf <- FlatRunOf
    Deps <- ChainDeps
    ClassA = {a}
    Approval = {b}
    MaxAttempts = 2
    Limit = 1
    LeaseTTL = 1
    MaxEpoch = 2
    MaxGen = 1
    Inverses = {c}
    MaxUndue = 1
SPECIFICATION Spec
INVARIANTS RunsInOrder TenantWithinLimit PausedTenantIsIdle
