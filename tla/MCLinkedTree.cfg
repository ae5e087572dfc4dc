CONSTANTS
    MaxKey = 4
    Values = {0, 1}
    ZeroValue = 0
    Forgeries <- MCForgeries
    MaxWrites = 2
    MaxLeaves = 5
    MaxBatches = 2
    MaxForged = 1
SPECIFICATION Spec
INVARIANTS
    ListSound
    ProofsSound
    ProofsComplete
    LeafCountExact
PROPERTIES
    PositionsStable
    RefinesKVStore
CHECK_DEADLOCK FALSE
