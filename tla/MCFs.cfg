\* One process fills the tree and one takes it apart, with two inodes besides the root,
\* two descriptors of one open file, and an indirect block. Calls can block each other
\* for good, and a panic stops the kernel.
CONSTANTS
    p1 = p1
    p2 = p2
    Procs = {p1, p2}
    NoProc = NoProc
    NInodes = 3
    NINODE = 3
    NBlocks = 4
    NDIRECT = 1
    MaxLen = 2
    MaxLinks = 2
    NFILE = 1
    NOFILE = 2
    Names = {".", "..", "f", "d"}
    Calls <- MCCalls
SPECIFICATION Spec
CHECK_DEADLOCK FALSE
INVARIANTS TypeOK CountsExact LinksCover NoInternalPanic CirclesNeedIput
PROPERTIES OpenStays
