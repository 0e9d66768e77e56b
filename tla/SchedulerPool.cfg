\* Two workers, the caller only waits; a fiber and a function.
SPECIFICATION FairSpec
CONSTANTS
    c = c
    w1 = w1
    w2 = w2
    r = r
    f1 = f1
    g = g
    Null = Null
    Caller = c
    UseCaller = FALSE
    Root = r
    Detached = {r}
    Threads = {c, w1, w2}
    Fibers = {r, f1, g}
    Callbacks = {g}
INVARIANTS TaskConserved StopDrains NoResumeError
PROPERTIES ImplementsTaskPool StopReturns QueuedRuns
