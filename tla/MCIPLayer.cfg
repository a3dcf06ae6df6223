CONSTANTS
  a = a
  b = b
  c = c
  Thread <- MCThread
  Host <- MCHost
  Receiver = 1
  Size <- MCSize
  Identification <- MCIdentification
  MaxDatagrams = 2
  MaxLost = 1
  MaxRepeated = 1
  MaxReboots = 1
SPECIFICATION Spec
CHECK_DEADLOCK FALSE
INVARIANTS
  Integrity
  EntriesPending
  CleanDelivered
  DeliveredOnce
PROPERTY
  EventuallyDelivered
