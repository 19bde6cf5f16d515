\* Two references to an inode without links are put at the same time.
CONSTANTS
    p1 = p1
    p2 = p2
    Procs = {p1, p2}
    NoProc = NoProc
    NInodes = 3
    NINODE = 3
    NBlocks = 4
    NDIRECT = 1
    MaxLen = 2
    MaxLinks = 2
    NFILE = 1
    NOFILE = 2
    Names = {".", "..", "f", "d"}
    Calls <- MCCalls
SPECIFICATION Spec
CHECK_DEADLOCK FALSE
INVARIANTS UnlinkedIsFreed
