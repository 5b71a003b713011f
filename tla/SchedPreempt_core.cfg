SPECIFICATION Spec
CONSTANTS
    MaxProcesses = 3
    Quantum = 2
    VrMod = 4
    ThreadPriority = 255
    SleepTicks = 2
INVARIANTS
    CurrentOwnsCpu
PROPERTIES
    TickLosesNobody
CHECK_DEADLOCK FALSE
