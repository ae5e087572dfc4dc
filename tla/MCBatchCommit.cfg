SPECIFICATION Spec
CONSTANTS
    L2_TO_L1_TREE_HEIGHT = 1
    BLOCK_TX_TREE_DEPTH = 2
    MaxU64 = 127
    MaxHeight = 3
    DEFAULT_MAX_TX_GAS_LIMIT = 8
    ERGS_PER_GAS = 4
    Encodings <- MCEncodings
    Caps = {7, 8}
    DaSchemes = {3, 5}
    Contents = {0, 1, 2}
    Minors = {30, 31, 32, 33, 34}
    BlockGas = {16, 40}
    Timestamps = {0, 1, 2}
    MaxBlocks = 2
    MaxTxs = 2
INVARIANTS
    SpecPinned
    UpgradeFromL1
    CommitsWhatRan
    InteropBoundaries
    HonestAccepted
CHECK_DEADLOCK FALSE
