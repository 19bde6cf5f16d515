\* Two processors, so that two sharers of a page can fault on it together.
CONSTANTS
    NPages = 11
    Pages <- MCPages
    NoPage <- MCNoPage
    Top <- MCTop
    NoProc = NoProc
    Others = {p2}
    Procs <- MCProcs
    InitProc = p1
    MaxSz = 2
    KptPages = 1
    TextSz = 0
    Vals = {0, 1}
    Zero = 0
    Code = 1
    Junk = 99
    NCPU = 2
    Calls = {"fork"}
    Stray = "none"
SPECIFICATION Spec
INVARIANT NoLeak
