CONSTANTS
    r1 = r1
    r2 = r2
    a = a
    b = b
    c = c
    w1 = w1
    w2 = w2
    Runs = {r1}
    Steps = {a, b}
    Workers = {w1}
    RunOf <- FlatRunOf
    Deps <- FlatDeps
    ClassA = {a}
    Approval = {}
    MaxAttempts = 1
    Limit = 2
    LeaseTTL = 1
    MaxEpoch = 2
    MaxGen = 1
    Inverses = {}
    MaxUndue = 0
SPECIFICATION Spec
INVARIANTS ClosedRunIsQuiet TerminalRunHasEvidence SucceededRunIsDone
    
PROPERTIES TerminalIsFinal StepsFollowContract
