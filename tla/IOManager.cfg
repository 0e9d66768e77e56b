\* The owner's thread and one worker; a task that waits in every way twice, and one
\* that cancels, deletes and closes.
SPECIFICATION Spec
CONSTANTS
    c = c
    w = w
    f1 = f1
    f2 = f2
    fd0 = fd0
    Null = Null
    Threads = {c, w}
    Caller = c
    UseCaller = TRUE
    Fibers = {f1, f2}
    Fds = {fd0}
    MaxCalls = 2
    Duplex = FALSE
    Program <- WaitAndCancel
INVARIANTS TypeOK PendingExact StopLeavesNothing WokenByTimeout
PROPERTY ImplementsTaskPool
