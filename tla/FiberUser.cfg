\* Two threads share two unscheduled fibers and one that needs a scheduler.
SPECIFICATION Spec
CONSTANTS
    t1 = t1
    t2 = t2
    f1 = f1
    f2 = f2
    f3 = f3
    Null = Null
    Threads = {t1, t2}
    Fibers = {f1, f2, f3}
    Detached = {f1, f2}
    MaxResets = 2
INVARIANTS TypeOK CurrentFiber NoDestroyInUse ContextSaved
