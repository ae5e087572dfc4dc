CONSTANTS
    Depth = 3
    MaxSorted = 2
    MaxInserts = 2
    MaxWrong = 1
SPECIFICATION Spec
INVARIANTS
    WalkSound
    WalkAuthenticates
    HonestAccepted
    TwoPassAgrees
    RecoverSound
CHECK_DEADLOCK FALSE
