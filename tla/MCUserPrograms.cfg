CONSTANTS
    ByteBits = 4
    PageSize = 8
    NumPhysPages = 9
    Fields <- MCFields
    Process = {1, 2, 3}
    NoProcess = NoProcess
    Executables <- MCExecutables
    UserStackSize = 4
SPECIFICATION Spec
CHECK_DEADLOCK FALSE
INVARIANT AsIfAlone
