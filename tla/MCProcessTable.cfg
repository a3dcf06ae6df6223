CONSTANTS
  p = p
  q = q
  MaxProcess = 3
  Program <- MCProgram
  MainProgram = p
  Pages <- MCPages
  NumPhysPages = 4
  ExitCode = {0, 7}
  NoPCB = NoPCB
  NoCode = NoCode
  NoProgram = NoProgram
SPECIFICATION Spec
CHECK_DEADLOCK FALSE
INVARIANTS
  JoinStatus
  PagesBalanced
  DeletedOnlyByMisuse
PROPERTIES
  ExecLockReleased
  JoinReturns
