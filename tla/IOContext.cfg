\* A task that connects, and one that watches for input and stops it.
SPECIFICATION Spec
CONSTANTS
    c = c
    w = w
    f1 = f1
    f2 = f2
    fd0 = fd0
    Null = Null
    Threads = {c, w}
    Caller = c
    UseCaller = TRUE
    Fibers = {f1, f2}
    Fds = {fd0}
    MaxCalls = 2
    Duplex = TRUE
    Program <- BothWays
INVARIANT FdContextAtomic
