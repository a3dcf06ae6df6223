SPECIFICATION Spec
CONSTANTS
    p1 = p1
    p2 = p2
    p3 = p3
    NoProcess = NoProcess
    Process <- MCProcess
    Names <- MCNames
    SemNames <- MCSemNames
    Scenarios <- MCScenarios
    IntBits = 8
    MaxNumLength = 4
    ConsoleTime = 2
    TimerTicks = 2
    FileMax = 4
    MaxSemaphore = 2
INVARIANTS
    ConsoleExact
    StatusRight
    NumbersIntact
PROPERTIES
    ObjectsExact
    CallsReturn
