\* One processor, two processes besides init and two threads, with every call; programs
\* join their own threads. A panic stops the kernel.
CONSTANTS
    NPROC = 4
    CPUs = {0}
    NoProc = NoProc
    NoDir = NoDir
    MaxPid = 3
    MaxTid = 2
    MaxSz = 3
    ImageSz = 1
    StackSz = 1
    TargetPids = {2}
    Calls <- MCCalls
    AnyJoin = FALSE
    ChildCalls = {"fork", "thread_create", "thread_join", "sbrk"}
    OtherCalls = {"thread_create", "thread_join", "thread_exit", "exec", "sleep", "kill"}
SPECIFICATION Spec
CHECK_DEADLOCK FALSE
INVARIANTS TypeOK OneOrigin LastThread DirsExact NoLostJoin KilledCanEnd
