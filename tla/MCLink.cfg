CONSTANTS
  Machine <- Three
  Traffic <- MixedTraffic
  OtherMac = OtherMac
  Broadcast = Broadcast
  NoFrame = NoFrame
  NoPort = NoPort
  QLen = 1
  MaxSend <- TwoEach
  MaxRestarts = 1
SPECIFICATION Spec
CHECK_DEADLOCK FALSE
INVARIANTS
  InOrder
  LearnedRight
  NewestKept
PROPERTY OnlyMutualBlocking
