\* One processor, three processes (initproc, a child, a grandchild or second child)
\* that fork, exit and are reaped; fork takes 4 pages (KptPages = 0), so 11 pages
\* hold three images and one copied page.
CONSTANTS
    NPages = 11
    Pages <- MCPages
    NoPage <- MCNoPage
    Top <- MCTop
    NoProc = NoProc
    Others = {p2, p3}
    Procs <- MCProcs
    InitProc = p1
    MaxSz = 2
    KptPages = 0
    TextSz = 0
    Vals = {0}
    Zero = 0
    Code = 0
    Junk = 99
    NCPU = 1
    Calls = {"fork"}
    Stray = "none"
SYMMETRY Slots
SPECIFICATION Spec
INVARIANTS RefcExact NoLeak
