SPECIFICATION Spec
CONSTANTS
  PROGRAM_VK_WORDS = 2
  PUBLICS_WORDS = 3
  VADCOP_VK_WORDS = 2
  COMMITMENT_WORDS = 2
  VADCOP_FINAL_BODY_WORDS = 2
  MaxBatches = 2
  MaxOdd = 1
INVARIANTS
  CommitmentIsWireBytes32To64
CHECK_DEADLOCK FALSE
