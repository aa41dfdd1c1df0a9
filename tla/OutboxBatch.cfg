CONSTANTS
    m1 = m1
    m2 = m2
    p1 = p1
    p2 = p2
    c1 = c1
    c2 = c2
    None = None
    Messages = {m1, m2}
    Publishers = {p1, p2}
    Consumers = {}
    BatchSize = 2
    MaxAttempts = 3
    MaxDeliveries = 2
    Backoff <- Doubling
    ClaimTTL = 2
    AgeCap = 4
SPECIFICATION Spec
SYMMETRY OutboxSymmetry
INVARIANTS NoEventLost
PROPERTIES LiveClaimUntouched ImplementsRelay
CHECK_DEADLOCK FALSE
