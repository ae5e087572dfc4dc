SPECIFICATION Spec
CONSTANTS
    NumSequencers = 2
    NumBatches = 1
    MaxIterations = 0
    Backends = {TRUE}
PROPERTIES
    CancelStops
    EverySequencerPolled
CHECK_DEADLOCK FALSE
