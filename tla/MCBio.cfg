\* Two processes and three buffers, of which the log may pin one: four blocks make
\* buffers be recycled under every mixture of uses.
CONSTANTS
    Procs = {p1, p2}
    NoProc = NoProc
    NBUF = 3
    k1 = k1
    k2 = k2
    k3 = k3
    k4 = k4
    v1 = v1
    v2 = v2
    Blocks = {k1, k2, k3, k4}
    Written = {k1, k2}
    Disk0 <- MCDisk0
    NoBlock = NoBlock
    Values = {v1, v2}
    Garbage = Garbage
    MaxPinned = 1
SPECIFICATION FairSpec
INVARIANTS TypeOK CacheExact
PROPERTIES ImplementsBlockStore IoCompletes
