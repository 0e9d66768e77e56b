\* The caller joins one worker; two fibers and a function.
SPECIFICATION Spec
CONSTANTS
    c = c
    w1 = w1
    r = r
    f1 = f1
    f2 = f2
    g = g
    Null = Null
    Caller = c
    UseCaller = TRUE
    Root = r
    Detached = {r}
    Threads = {c, w1}
    Fibers = {r, f1, f2, g}
    Callbacks = {g}
INVARIANTS TypeOK CountersExact QuiescentExit TaskConserved StopDrains NoResumeError CurrentTask
PROPERTY ImplementsTaskPool
