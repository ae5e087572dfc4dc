SPECIFICATION Spec
CONSTANTS
  PROGRAM_VK_WORDS = 2
  PUBLICS_WORDS = 3
  VADCOP_VK_WORDS = 2
  COMMITMENT_WORDS = 2
  VADCOP_FINAL_BODY_WORDS = 2
  MaxBatches = 3
  MaxOdd = 1
INVARIANTS
  RangeSound
  HonestRangeAccepted
  HostGuestAgree
  WireChecksMatchL1
  NativeVerifierExact
CHECK_DEADLOCK FALSE
