\* Both tasks, with failing transfers and short losses of supply.
SPECIFICATION FairSpec
CONSTANTS
  MaxFaults = 4
  MaxRetry = 3
  MaxPending = 2
  Heater <- MCHeater
  Scale = 2
  Command = 1
  Offset = 0
  RawWidth = 3
  Raws = {0, 2, 6}
  PwmWidth = 3
  MaxSum = 3
INVARIANTS RunsConfigured HeatsTheCold
PROPERTIES KeepsReading
CHECK_DEADLOCK FALSE
