SPECIFICATION ListSpec
CONSTANTS
  End = 12
  MaxReq = 4
  MaxFreeing = 2
INVARIANTS OwnedBlocksMarked
CHECK_DEADLOCK FALSE
