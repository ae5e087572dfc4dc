SPECIFICATION Spec
CONSTANTS
    Accounts = {acct}
    Slots = {slot}
    Codes = {c1}
    NoCode = nocode
    SlotValues = {v1}
    ExpectedRoots = {"zero", "other"}
    MaxBlocks = 2
    MaxProofs = 2
    MaxTotal = 3
    MaxFaults = 2
INVARIANTS
    ReadsAuthentic
    HonestServed
PROPERTIES
    RefinesCollecting
CHECK_DEADLOCK FALSE
