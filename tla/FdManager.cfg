\* A thread with hooks and one without; two descriptors beyond the first table, so
\* that it grows once or twice and in either order.
SPECIFICATION Spec
CONSTANTS
    t1 = t1
    t2 = t2
    Null = Null
    Threads = {t1, t2}
    Hooked = {t1}
    Fds = {2, 3}
    Capacity = 2
    Options = {"SO_RECVTIMEO"}
    Timeouts = {5000}
INVARIANTS TypeOK InBounds HookedCallNonBlocking ContextCurrent
