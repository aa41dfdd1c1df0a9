\* One request, a sibling of the same run, two workers and two faults.
SPECIFICATION Spec
CONSTANTS
    Workers = {w1, w2}
    MaxFaults = 2
INVARIANTS
    CompensatedOnce
    InverseLedgerIsTrue
    RecordsAgree

    
CHECK_DEADLOCK FALSE
