\* Three bytes a call through a pipe of two, with kills and closes at any time; the
\* pipe may end up closed.
CONSTANTS
    p1 = p1
    p2 = p2
    p3 = p3
    Fds0 <- MCFds
    Procs = {p1, p2, p3}
    NoProc = NoProc
    PIPESIZE = 2
    Wrap = 4
    Bytes = {"x", "y", "z"}
    Addr <- MCAddr
    Lengths = {3}
SPECIFICATION FairSpec
CHECK_DEADLOCK FALSE
INVARIANTS Sound
PROPERTIES ImplementsChannel WaitersWake
