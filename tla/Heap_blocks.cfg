SPECIFICATION Spec
CONSTANTS
  End = 14
  MaxReq = 5
INVARIANTS TypeOK Tiled UsedAreBlocks Coalesced
PROPERTIES BlocksStay
