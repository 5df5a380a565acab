SPECIFICATION Spec
CONSTANT Frames <- MCFrames
INVARIANTS
  RoundInv
  NeutralWithoutReceiver
  RelaxedWhenDown
  OutageClears
  ModeClears
  BulletsNeedSwitch
