SPECIFICATION Spec
CONSTANTS
  CntMod = 256
  MaxJoint = 6
  MailBox = 3
  Configs <- Shipped
INVARIANTS SlotsFollowHeads
CHECK_DEADLOCK FALSE
