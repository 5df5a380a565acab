SPECIFICATION FairSpec
CONSTANTS
  CntMod = 256
  MaxJoint = 3
  MailBox = 1
  Configs <- SmallConfigs
INVARIANTS FeedbackIdsDistinct GroupCounts JointsCommanded
PROPERTIES KeepsSending
CHECK_DEADLOCK FALSE
