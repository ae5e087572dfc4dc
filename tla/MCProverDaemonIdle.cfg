SPECIFICATION Spec
CONSTANTS
    NumSequencers = 2
    NumBatches = 1
    MaxIterations = 0
    Backends = {FALSE}
INVARIANTS
    SleepsOnlyWhenNoneHadWork
CHECK_DEADLOCK FALSE
