\* May two threads execute on one stack.
SPECIFICATION Spec
CONSTANTS
    c = c
    w1 = w1
    w2 = w2
    r = r
    f1 = f1
    Null = Null
    Caller = c
    UseCaller = FALSE
    Root = r
    Detached = {r}
    Threads = {c, w1, w2}
    Fibers = {r, f1}
    Callbacks = {}
INVARIANT NoSharedStack
