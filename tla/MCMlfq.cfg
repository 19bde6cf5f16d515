\* One processor, three slots and three pids: a slot is reused, every level is reached,
\* and the monopoly starts and ends. A panic stops the kernel.
CONSTANTS
    NPROC = 3
    CPUs = {0}
    NoProc = NoProc
    MaxPid = 3
    MaxTicks = 4
    MaxPriority = 1
    QuantumStep = 1
    QuantumBase = 1
    BoostPeriod = 4
    TargetPids = {3}
    Chans = {"ticks"}
    Calls <- MCCalls
    ParentCalls = {"fork", "exit", "kill", "setmonopoly", "monopolize"}
    ChildCalls = {"sleep", "yield", "setpriority", "unmonopolize"}
SPECIFICATION Spec
CHECK_DEADLOCK FALSE
INVARIANTS TypeOK RunnableIsQueued NoDuplicates
PROPERTIES HighestFirst LevelMoves BoostReachesAll
