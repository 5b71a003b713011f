SPECIFICATION KSpec
CONSTANTS
    MaxProcesses = 3
    Quantum = 10
    VrMod = 64
    ThreadPriority = 255
    SleepTicks = 3
    KbdBufferSize = 4
PROPERTIES
    ShellStarts
