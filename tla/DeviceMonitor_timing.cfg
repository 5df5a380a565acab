\* One joint and the receiver; the tick counter wraps every 11 ticks.
SPECIFICATION Spec
CONSTANTS
  TickMod = 11
  Timeout = 1
  MaxLag = 1
  CntMod = 256
  MaxJoint = 1
  Configs <- OneJoint
INVARIANTS TypeOK TimeInv OnlineIsRecent
PROPERTIES OfflineJustified OnlineJustified CountsAsPartControl
