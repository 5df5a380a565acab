\* Three kinds of joints, a window of two entries and integers of 3 bits.
SPECIFICATION Spec
CONSTANTS
  Parts <- MCParts
  Readings <- MCReadings
  Depth = 2
  Width = 3
  MaxOut = 8
INVARIANTS Telescopes StaleShare NeverAgainstOutput
