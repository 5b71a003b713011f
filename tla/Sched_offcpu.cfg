SPECIFICATION Spec
CONSTANTS
    MaxProcesses = 3
    Quantum = 2
    VrMod = 1048576
    Priorities = {255}
    SleepTimes = {0, 2}
    Signals = {}
    CreateUntil = 7
    MaxTick = 6
INVARIANTS
    StaysOffCpu
CHECK_DEADLOCK FALSE
