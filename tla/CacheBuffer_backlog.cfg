SPECIFICATION Spec
CONSTANTS
  Size = 6
  LenMod = 4
  MaxPacket = 3
  MaxRead = 3
  MaxBytes = 16
INVARIANTS CapacityIsCacheSize
