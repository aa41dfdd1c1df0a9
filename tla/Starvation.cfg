CONSTANTS
    r1 = r1
    r2 = r2
    a = a
    b = b
    c = c
    w1 = w1
    w2 = w2
    Runs = {r1, r2}
    Steps = {a, b}
    Workers = {w1}
    RunOf <- TwoRunOf
    Deps <- FlatDeps
    ClassA = {}
    Approval = {}
    MaxAttempts = 2
    Limit = 1
    LeaseTTL = 1
    MaxEpoch = 2
    MaxGen = 1
    Inverses = {}
    MaxUndue = 0
SPECIFICATION FairSpec
PROPERTY NoStarvation
