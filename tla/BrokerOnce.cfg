CONSTANTS
    r1 = r1
    a = a
    w1 = w1
    w2 = w2
    Runs = {r1}
    Steps = {a}
    Workers = {w1, w2}
    RunOf <- OneRunOf
    Deps <- OneDeps
    ClassA = {a}
    Approval = {}
    MaxAttempts = 2
    Limit = 1
    LeaseTTL = 1
    MaxEpoch = 2
    MaxGen = 1
    Inverses = {}
    MaxUndue = 0
SPECIFICATION BrokerSpec
SYMMETRY WorkerSymmetry
INVARIANTS AtMostOnce LedgerIsTrue
