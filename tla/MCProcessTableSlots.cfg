CONSTANTS
  p = p
  q = q
  MaxProcess = 3
  Program <- MCProgram
  MainProgram = p
  Pages <- MCPages
  NumPhysPages = 8
  ExitCode = {0}
  NoPCB = NoPCB
  NoCode = NoCode
  NoProgram = NoProgram
SPECIFICATION Spec
CHECK_DEADLOCK FALSE
PROPERTY ExecFindsSlot
