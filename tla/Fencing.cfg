CONSTANTS
    r1 = r1
    r2 = r2
    a = a
    b = b
    c = c
    w1 = w1
    w2 = w2
    Runs = {r1}
    Steps = {a}
    Workers = {w1, w2}
    RunOf <- OneRunOf
    Deps <- OneDeps
    ClassA = {a}
    Approval = {}
    MaxAttempts = 2
    Limit = 1
    LeaseTTL = 2
    MaxEpoch = 2
    MaxGen = 2
    Inverses = {}
    MaxUndue = 0
SPECIFICATION FairSpec
INVARIANTS NoOrphanAdmission RunningUnderLatestClaim ReconciliationHasWork ClaimStillValid
PROPERTY AbandonedIsReclaimed
