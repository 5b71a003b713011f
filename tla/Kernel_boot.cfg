SPECIFICATION BootSpec
CONSTANTS
    MaxProcesses = 3
    Quantum = 10
    VrMod = 64
    ThreadPriority = 255
    SleepTicks = 3
    KbdBufferSize = 4
    Tags <- LoaderTags
INVARIANTS
    TimerHeldByIdle
    SleepersOnCpu
    BootOrder
    RegistryIsList
PROPERTIES
    ProbeReachesAll
    BootStartsInit
