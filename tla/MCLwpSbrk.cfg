\* One processor, one process with a thread, both calling sbrk: may they get the same
\* pages?
CONSTANTS
    NPROC = 4
    CPUs = {0}
    NoProc = NoProc
    NoDir = NoDir
    MaxPid = 2
    MaxTid = 2
    MaxSz = 4
    ImageSz = 1
    StackSz = 1
    TargetPids = {2}
    Calls <- MCCalls
    AnyJoin = FALSE
    ChildCalls = {"thread_create", "sbrk"}
    OtherCalls = {"sbrk", "thread_exit"}
SPECIFICATION Spec
CHECK_DEADLOCK FALSE
PROPERTIES SbrkIsNew
