\* A task that waits with a timeout twice, and one that closes.
SPECIFICATION FairSpec
CONSTANTS
    c = c
    w = w
    f1 = f1
    f2 = f2
    fd0 = fd0
    Null = Null
    Threads = {c, w}
    Caller = c
    UseCaller = TRUE
    Fibers = {f1, f2}
    Fds = {fd0}
    MaxCalls = 2
    Duplex = FALSE
    Program <- TimedWaits
PROPERTIES TimedWaitEnds StopReturns
