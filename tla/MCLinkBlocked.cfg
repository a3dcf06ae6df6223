CONSTANTS
  Machine <- Three
  Traffic <- MixedTraffic
  OtherMac = OtherMac
  Broadcast = Broadcast
  NoFrame = NoFrame
  NoPort = NoPort
  QLen = 1
  MaxSend <- TwoEach
  MaxRestarts = 0
SPECIFICATION Spec
CHECK_DEADLOCK FALSE
PROPERTY SendReturns
