CONSTANTS
  main = main
  a = a
  b = b
  c = c
  dev = dev
  mutex = mutex
  MainThread = main
  NoThread = NoThread
  NoSem = NoSem
  MaxValue = 2
  Thread <- MCThread
  Sem <- MCSem
  DeviceSem <- MCDeviceSem
  InitValue <- MCInitValue
  MaxAppends = 4
SPECIFICATION KernelSpec
INVARIANTS
  TypeOK
  StatusExact
  CarcassSafe
  NoLostWakeup
  MutualExclusion
  NoSignalLost
  NoItemForgotten
PROPERTIES
  ReadyRuns
  SemProgress
  Implements
