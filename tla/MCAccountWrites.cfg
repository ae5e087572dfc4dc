SPECIFICATION Spec
CONSTANTS
    Accounts = {a1, a2}
    MaxBalance = 2
    MaxNonce = 2
    MaxTxs = 3
    MaxBlocks = 2
INVARIANTS
    AccountsExact
    OneLegalLeaf
    HonestAccepted
    StorageExact
CHECK_DEADLOCK FALSE
