\* Starvation: one processor, with changes of priority and monopolies. A panic stops
\* the kernel.
CONSTANTS
    NPROC = 3
    CPUs = {0}
    NoProc = NoProc
    MaxPid = 3
    MaxTicks = 4
    MaxPriority = 1
    QuantumStep = 1
    QuantumBase = 1
    BoostPeriod = 3
    TargetPids = {3}
    Chans = {"io"}
    Calls <- MCCalls
    ParentCalls = {"fork", "exit", "setmonopoly", "monopolize"}
    ChildCalls = {"sleep", "setpriority", "unmonopolize"}
SPECIFICATION FairSpec
CHECK_DEADLOCK FALSE
PROPERTIES NoStarvation
