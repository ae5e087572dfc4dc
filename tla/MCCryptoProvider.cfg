SPECIFICATION Spec
CONSTANTS
  R = 5
  N = 11
  BYTE = 2
  LIMB_BYTES = 2
  U256_LIMBS = 2
  TAU = 2
  BLOCK_BYTES = 4
  SLOT_BYTES = 2
  MaxMessage = 13
  MaxPairs = 2
INVARIANTS
  GuestMatchesNative
  DigestExact
PROPERTIES
  HintsOncePerCall
CHECK_DEADLOCK FALSE
