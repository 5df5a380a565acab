SPECIFICATION FairSpec
CONSTANTS
  MaxPing = 3
  MaxPong = 2
  TickMod = 5
  TimeOut = 2
  CallTime = 2
INVARIANTS
  WaitBounded
  SpinsOnFresh
  OnlyTimerLeaks
  OwnPongsUncounted
PROPERTIES
  EventuallySpins
