\* As shipped, the buffer is longer than the range of the uint8_t lengths and
\* a request is shorter than it.
SPECIFICATION Spec
CONSTANTS
  Size = 6
  LenMod = 4
  MaxPacket = 3
  MaxRead = 3
  MaxBytes = 16
INVARIANTS RangesKept CopiesNextBytes NoOverrun HoldsTheRest
