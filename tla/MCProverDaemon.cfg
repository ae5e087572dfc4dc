SPECIFICATION Spec
CONSTANTS
    NumSequencers = 2
    NumBatches = 1
    MaxIterations = 1
    Backends = {TRUE, FALSE}
INVARIANTS
    SubmitsOwnProof
PROPERTIES
    SurvivesOneFault
    ProofKeptUntilRecorded
CHECK_DEADLOCK FALSE
