\* A callback registered for a socket that becomes readable.
SPECIFICATION FairSpec
CONSTANTS
    c = c
    w = w
    f1 = f1
    f2 = f2
    fd0 = fd0
    Null = Null
    Threads = {c, w}
    Caller = c
    UseCaller = TRUE
    Fibers = {f1, f2}
    Fds = {fd0}
    MaxCalls = 1
    Duplex = FALSE
    Program <- WatchOnly
PROPERTY ReadyEventRuns
