\* Two processors, two processes, every system call; 10 pages: fork, exec and sbrk
\* can each fail at every allocation, and a shared page can still be copied.
CONSTANTS
    NPages = 10
    Pages <- MCPages
    NoPage <- MCNoPage
    Top <- MCTop
    NoProc = NoProc
    Others = {p2}
    Procs <- MCProcs
    InitProc = p1
    MaxSz = 2
    KptPages = 1
    TextSz = 0
    Vals = {0, 1}
    Zero = 0
    Code = 1
    Junk = 99
    NCPU = 2
    Calls = {"fork", "exec", "grow", "shrink"}
    Stray = "none"
SPECIFICATION Spec
INVARIANTS TypeOK RefcExact FreeListSound WritableIsPrivate CountersAgree NoInternalPanic
PROPERTIES ImplementsPrivateVm
