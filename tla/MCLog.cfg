\* Two calls that write one block each of three, in a log that admits one or two of them
\* at a time; the log on disk is smaller than struct logheader allows, as in the code.
CONSTANTS
    Procs = {p1, p2}
    Blocks = {b1, b2, b3}
    FirstHome = b1
    Values = {v1, v2}
    MAXOPBLOCKS = 3
    LOGSIZE = 6
    LogBlocks = 4
    MaxWrites = 1
    NoBlock = NoBlock
SPECIFICATION FairSpec
INVARIANTS TypeOK LogHasRoom PinnedWhileLogged
PROPERTIES ImplementsAtomicDisk SleepersWake
