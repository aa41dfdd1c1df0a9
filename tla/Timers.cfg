CONSTANTS
    t1 = t1
    s1 = s1
    w1 = w1
    w2 = w2
    None = None
    Timers = {t1}
    Steps = {s1}
    StepOf <- OneStepOf
    RunOf <- OneRunOf
    Workers = {w1, w2}
    Kinds = {"INTERACTION_TIMEOUT", "RETRY_DELAY", "STEP_DEADLINE"}
    BatchSize = 2
    ClaimTTL = 1
    Reached = {"WAITING_FOR_HUMAN", "RETRY_WAIT", "SUCCEEDED"}
    MaxFaults = 1
SPECIFICATION FairSpec
INVARIANTS ClaimIsExclusive FiredDeadlineEndedStep HealthIsFresh
PROPERTIES TimersTakeEffect PromptsExpire
