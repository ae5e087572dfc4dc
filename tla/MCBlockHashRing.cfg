CONSTANTS
    Window = 3
    HistoryWindow = 2
    Timestamps = {0, 1, 2}
    MaxBlock = 7
    MaxBatch = 4
SPECIFICATION Spec
INVARIANTS
    BlockhashExact
    HeadersChained
    HistoryExact
    HonestAccepted
CHECK_DEADLOCK FALSE
