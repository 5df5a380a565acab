\* Nothing follows a copy past the end of a block.
SPECIFICATION ListSpec
CONSTANTS
  End = 12
  MaxReq = 4
  MaxFreeing = 2
INVARIANTS FreeListExact FreeBytesExact AllReturned
PROPERTIES ImplementsHeap
CHECK_DEADLOCK FALSE
