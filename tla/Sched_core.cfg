SPECIFICATION Spec
CONSTANTS
    MaxProcesses = 4
    Quantum = 2
    VrMod = 3
    Priorities = {255}
    SleepTimes = {1}
    Signals = {"SIGKILL", "SIGSTOP", "SIGCONT"}
    CreateUntil = 3
    MaxTick = 4
INVARIANTS
    RunningIsCurrent
    QueueExact
PROPERTIES
    IdleIsLastResort
    KilledStaysDead
    LeastServedFirst
CHECK_DEADLOCK FALSE
