----------------------------- MODULE FdManager -----------------------------
(***************************************************************************)
(* FdCtx and FdManager (FdManager.h, FdManager.cpp), the table of what is   *)
(* known of each descriptor, and the hooks that ask it or change it         *)
(* (Hook.cpp: socket, accept, close, fcntl, ioctl, setsockopt, and do_io    *)
(* and connect up to their first system call).  Threads call the hooks      *)
(* concurrently; the waiting inside do_io and connect is in module Hook.    *)
(*                                                                         *)
(* A region under m_mutex is one action.  A FdCtx is the value of its       *)
(* fields: only the thread whose get() built it and the table refer to it,  *)
(* and `shared` has the threads whose context is still the table's.         *)
(***************************************************************************)
EXTENDS Naturals, Integers

CONSTANTS
    Threads,
    Hooked,    \* the threads with t_hook_enable
    Fds,       \* descriptor numbers
    Capacity,  \* the size FdManager() gives the table: 64 in the code
    Options,   \* the timeouts the program sets: SO_RECVTIMEO, SO_SENDTIMEO
    Timeouts,  \* their values, in microseconds
    Null

ASSUME FdAssumption ==
    /\ Hooked \subseteq Threads
    /\ Fds \subseteq Nat
    /\ Capacity \in Nat /\ Capacity >= 2
    /\ Options \subseteq {"SO_RECVTIMEO", "SO_SENDTIMEO"}
    /\ Timeouts \subseteq Nat

VARIABLES
    kind, o_nonblock,  \* the kernel's view of each descriptor
    m_datas, size,     \* the table
    pc, call, ctx,     \* of each thread: its place, the call it is in, what get() gave
    shared,            \* the threads whose ctx is also the entry of the table
    cleared,           \* history: descriptors the program has made blocking since
                       \* they were last registered
    fault              \* a read beyond the table has given a wild pointer

vars == <<kind, o_nonblock, m_datas, size, pc, call, ctx, shared, cleared, fault>>

NoTimeout == -1
Timeout   == Nat \cup {NoTimeout}
\* m_isClosed is never set and m_sysNoBlock is m_isSocket.
FdCtx  == [m_isSocket : BOOLEAN, m_userNoBlock : BOOLEAN, timeout : [Options -> Timeout]]
Unset  == [o \in Options |-> NoTimeout]

Ops    == {"open", "close", "F_SETFL", "F_GETFL", "FIONBIO", "do_io", "connect"}
            \cup Options
NoCall == [op |-> "none", fd |-> Null, arg |-> FALSE]

TypeOK ==
    /\ kind \in [Fds -> {"closed", "file", "socket"}]
    /\ o_nonblock \in [Fds -> BOOLEAN]
    /\ m_datas \in [Fds -> FdCtx \cup {Null}]
    /\ size \in Nat
    /\ pc \in [Threads -> {"user", "get", "create", "use", "hooked", "raw"}]
    /\ \A t \in Threads : call[t] = NoCall \/ (call[t].op \in Ops /\ call[t].fd \in Fds)
    /\ ctx \in [Threads -> FdCtx \cup {Null}]
    /\ shared \subseteq Threads
    /\ cleared \subseteq Fds
    /\ fault \in BOOLEAN

Init ==
    /\ kind = [fd \in Fds |-> "closed"]
    /\ o_nonblock = [fd \in Fds |-> FALSE]
    /\ m_datas = [fd \in Fds |-> Null]
    /\ size = Capacity
    /\ pc = [t \in Threads |-> "user"]
    /\ call = [t \in Threads |-> NoCall]
    /\ ctx = [t \in Threads |-> Null]
    /\ shared = {}
    /\ cleared = {}
    /\ fault = FALSE

At(t, place, op) == pc[t] = place /\ call[t].op = op
Fd(t)            == call[t].fd
Busy(fd)         == {t \in Threads : call[t].fd = fd}

\* The call returns.
Return(t) ==
    /\ pc' = [pc EXCEPT ![t] = "user"]
    /\ call' = [call EXCEPT ![t] = NoCall]
    /\ ctx' = [ctx EXCEPT ![t] = Null]
    /\ shared' = shared \ {t}

-----------------------------------------------------------------------------
\* The kernel gives out a descriptor: open(), which is not hooked, socket(), whose
\* hook registers it, and accept(), which registers it on any thread.
Opened(fd, k) ==
    /\ kind[fd] = "closed"
    /\ kind' = [kind EXCEPT ![fd] = k]
    /\ UNCHANGED <<o_nonblock, cleared>>

OpenFile(t, fd) ==
    /\ pc[t] = "user" /\ Opened(fd, "file")
    /\ UNCHANGED <<m_datas, size, pc, call, ctx, shared, fault>>

Socket(t, fd) ==
    /\ pc[t] = "user" /\ Opened(fd, "socket")
    /\ IF t \in Hooked
       THEN /\ pc' = [pc EXCEPT ![t] = "get"]
            /\ call' = [call EXCEPT ![t] = [op |-> "open", fd |-> fd, arg |-> FALSE]]
       ELSE UNCHANGED <<pc, call>>
    /\ UNCHANGED <<m_datas, size, ctx, shared, fault>>

Accept(t, fd) ==
    /\ pc[t] = "user" /\ Opened(fd, "socket")
    /\ pc' = [pc EXCEPT ![t] = "get"]
    /\ call' = [call EXCEPT ![t] = [op |-> "open", fd |-> fd, arg |-> FALSE]]
    /\ UNCHANGED <<m_datas, size, ctx, shared, fault>>

\* Any other hooked call begins.  The program does not use a descriptor before the
\* call that opens it has returned, nor closes one that is in use.
\* fcntl() and ioctl() do not look at t_hook_enable.
Begin(t, op, fd, arg) ==
    /\ pc[t] = "user" /\ kind[fd] # "closed"
    /\ \A u \in Busy(fd) : call[u].op \notin {"open", "close"}
    /\ op = "close" => Busy(fd) = {}
    /\ pc' = [pc EXCEPT ![t] =
                IF t \in Hooked \/ op \in {"F_SETFL", "F_GETFL", "FIONBIO"}
                THEN "get" ELSE "raw"]
    /\ call' = [call EXCEPT ![t] = [op |-> op, fd |-> fd, arg |-> arg]]
    /\ UNCHANGED <<kind, o_nonblock, m_datas, size, ctx, shared, cleared, fault>>
-----------------------------------------------------------------------------
\* get(fd, auto_create) under the read lock.  Only for a descriptor beyond the table
\* does it look for an entry: past the end, where it may find anything.
GetRead(t) ==
    /\ pc[t] = "get"
    /\ \/ /\ Fd(t) < size \/ call[t].op = "open"
          /\ pc' = [pc EXCEPT ![t] = "create"]
          /\ UNCHANGED fault
       \/ /\ Fd(t) >= size /\ call[t].op = "open"
          /\ fault' = TRUE
          /\ UNCHANGED pc
       \/ /\ Fd(t) >= size /\ call[t].op # "open"
          /\ pc' = [pc EXCEPT ![t] = "use"]
          /\ UNCHANGED fault
    /\ UNCHANGED <<kind, o_nonblock, m_datas, size, call, ctx, shared, cleared>>

\* FdCtx(fd) and init(): the kind of the descriptor as fstat() sees it now.
NewCtx(fd) ==
    [m_isSocket |-> (kind[fd] = "socket"), m_userNoBlock |-> FALSE,
     timeout |-> Unset]

\* Mutant of GrowTo: just enough for the number of entries before fd.
MutGrowToShort(fd) == fd

\* m_datas.resize(fd * 1.5)
GrowTo(fd) == (fd * 3) \div 2

\* Mutant of GetCreate: an entry that exists is returned, as the comments have it.
MutGetCreateExisting(t) ==
    LET fd == Fd(t)
        c  == IF m_datas[fd] # Null THEN m_datas[fd] ELSE NewCtx(fd)
    IN  /\ pc[t] = "create"
        /\ pc' = [pc EXCEPT ![t] = "use"]
        /\ size' = IF fd >= size THEN GrowTo(fd) ELSE size
        /\ ctx' = [ctx EXCEPT ![t] = c]
        /\ m_datas' = [m_datas EXCEPT ![fd] = c]
        /\ o_nonblock' = [o_nonblock EXCEPT ![fd] = @ \/ kind[fd] = "socket"]
        /\ shared' = (shared \ Busy(fd)) \cup {t}
        /\ cleared' = cleared \ {fd}
        /\ UNCHANGED <<kind, call, fault>>

\* get() under the write lock: a new context, whether or not there is one; for a
\* socket init() makes the descriptor non-blocking.
GetCreate(t) ==
    LET fd == Fd(t)
    IN  /\ pc[t] = "create"
        /\ pc' = [pc EXCEPT ![t] = "use"]
        /\ size' = IF fd >= size THEN GrowTo(fd) ELSE size
        /\ ctx' = [ctx EXCEPT ![t] = NewCtx(fd)]
        /\ m_datas' = [m_datas EXCEPT ![fd] = NewCtx(fd)]
        /\ o_nonblock' = [o_nonblock EXCEPT ![fd] = @ \/ kind[fd] = "socket"]
        /\ shared' = (shared \ Busy(fd)) \cup {t}
        /\ cleared' = cleared \ {fd}
        /\ UNCHANGED <<kind, call, fault>>

\* The hooks test "!ctx || ctx->isClose() || !ctx->isSocket()".
Registered(t) == ctx[t] # Null /\ ctx[t].m_isSocket

\* A setter of the context in hand, which may be the one in the table.
SetCtx(t, c) ==
    m_datas' = [m_datas EXCEPT ![Fd(t)] = IF t \in shared THEN c ELSE @]

Clears(fd, blocking) == cleared' = IF blocking THEN cleared \cup {fd} ELSE cleared
-----------------------------------------------------------------------------
\* socket() and accept() do nothing with the context.
OpenReturns(t) ==
    /\ At(t, "use", "open") /\ Return(t)
    /\ UNCHANGED <<kind, o_nonblock, m_datas, size, cleared, fault>>

\* Mutant of SetFl: the flag the hooks need is not added.
MutSetFlUserOnly(t) ==
    LET fd == Fd(t)
    IN  /\ At(t, "use", "F_SETFL") /\ Return(t)
        /\ IF Registered(t) THEN SetCtx(t, [ctx[t] EXCEPT !.m_userNoBlock = call[t].arg])
           ELSE UNCHANGED m_datas
        /\ o_nonblock' = [o_nonblock EXCEPT ![fd] = call[t].arg]
        /\ Clears(fd, ~Registered(t) /\ ~call[t].arg)
        /\ UNCHANGED <<kind, size, fault>>

\* fcntl(fd, F_SETFL, arg): a registered socket stays non-blocking for the kernel.
SetFl(t) ==
    LET fd == Fd(t)
    IN  /\ At(t, "use", "F_SETFL") /\ Return(t)
        /\ IF Registered(t) THEN SetCtx(t, [ctx[t] EXCEPT !.m_userNoBlock = call[t].arg])
           ELSE UNCHANGED m_datas
        /\ o_nonblock' = [o_nonblock EXCEPT ![fd] = Registered(t) \/ call[t].arg]
        /\ Clears(fd, ~Registered(t) /\ ~call[t].arg)
        /\ UNCHANGED <<kind, size, fault>>

\* fcntl(fd, F_GETFL): what it returns is what the context, or the kernel, has.
GetFl(t) ==
    /\ At(t, "use", "F_GETFL") /\ Return(t)
    /\ UNCHANGED <<kind, o_nonblock, m_datas, size, cleared, fault>>

\* ioctl(fd, FIONBIO, &arg): the kernel's flag is set to arg in any case.
Ioctl(t) ==
    LET fd == Fd(t)
    IN  /\ At(t, "use", "FIONBIO") /\ Return(t)
        /\ IF Registered(t) THEN SetCtx(t, [ctx[t] EXCEPT !.m_userNoBlock = call[t].arg])
           ELSE UNCHANGED m_datas
        /\ o_nonblock' = [o_nonblock EXCEPT ![fd] = call[t].arg]
        /\ Clears(fd, ~call[t].arg)
        /\ UNCHANGED <<kind, size, fault>>

\* tv_sec * 1000 + tv_usec / 1000
ToMs(us) == us \div 1000

\* setsockopt(): the context, if there is one, keeps the timeout.
SetSockOpt(t) ==
    LET o  == call[t].op
        ms == ToMs(call[t].arg)
    IN  /\ pc[t] \in {"use", "raw"} /\ o \in Options
        /\ Return(t)
        /\ IF ctx[t] # Null THEN SetCtx(t, [ctx[t] EXCEPT !.timeout[o] = ms])
           ELSE UNCHANGED m_datas
        /\ UNCHANGED <<kind, o_nonblock, size, cleared, fault>>

\* do_io(): a socket that the user has not made non-blocking is called as a
\* non-blocking one, with a fiber switch on EAGAIN; anything else is called as is.
DoIo(t) ==
    /\ At(t, "use", "do_io")
    /\ pc' = [pc EXCEPT ![t] = IF Registered(t) /\ ~ctx[t].m_userNoBlock
                               THEN "hooked" ELSE "raw"]
    /\ UNCHANGED <<kind, o_nonblock, m_datas, size, call, ctx, shared, cleared, fault>>

\* connect_with_timeout(): a descriptor get() does not find is refused, EBADF; the
\* rest is called as in do_io().
Connect(t) ==
    /\ At(t, "use", "connect")
    /\ \/ ctx[t] = Null /\ Return(t)
       \/ /\ ctx[t] # Null
          /\ pc' = [pc EXCEPT ![t] = IF Registered(t) /\ ~ctx[t].m_userNoBlock
                                     THEN "hooked" ELSE "raw"]
          /\ UNCHANGED <<call, ctx, shared>>
    /\ UNCHANGED <<kind, o_nonblock, m_datas, size, cleared, fault>>

\* The system calls of do_io() and connect() are over.
IoReturns(t) ==
    /\ pc[t] \in {"hooked", "raw"} /\ call[t].op \in {"do_io", "connect"}
    /\ Return(t)
    /\ UNCHANGED <<kind, o_nonblock, m_datas, size, cleared, fault>>

\* Mutant of Del: the entry is erased from the vector instead of reset.
MutDelErases(fd) == m_datas' = [f \in Fds \ {fd} |-> m_datas[f]]

\* del(fd)
Del(fd) == m_datas' = [m_datas EXCEPT ![fd] = IF fd < size THEN Null ELSE @]

\* close(): the entry is deleted first, then the descriptor is closed.
CloseDel(t) ==
    /\ At(t, "use", "close")
    /\ pc' = [pc EXCEPT ![t] = "raw"]
    /\ IF ctx[t] # Null THEN Del(Fd(t)) ELSE UNCHANGED m_datas
    /\ UNCHANGED <<kind, o_nonblock, size, call, ctx, shared, cleared, fault>>

CloseFd(t) ==
    /\ At(t, "raw", "close") /\ Return(t)
    /\ kind' = [kind EXCEPT ![Fd(t)] = "closed"]
    /\ o_nonblock' = [o_nonblock EXCEPT ![Fd(t)] = FALSE]
    /\ cleared' = cleared \ {Fd(t)}
    /\ UNCHANGED <<m_datas, size, fault>>
-----------------------------------------------------------------------------
UserCall(t, fd) ==
    \/ OpenFile(t, fd) \/ Socket(t, fd) \/ Accept(t, fd)
    \/ \E op \in {"close", "F_GETFL", "do_io", "connect"} : Begin(t, op, fd, FALSE)
    \/ \E op \in {"F_SETFL", "FIONBIO"}, arg \in BOOLEAN : Begin(t, op, fd, arg)
    \/ \E op \in Options, us \in Timeouts : Begin(t, op, fd, us)

InCall(t) ==
    \/ GetRead(t) \/ GetCreate(t) \/ OpenReturns(t) \/ SetFl(t) \/ GetFl(t) \/ Ioctl(t)
    \/ SetSockOpt(t) \/ DoIo(t) \/ Connect(t) \/ IoReturns(t) \/ CloseDel(t) \/ CloseFd(t)

\* Nothing is known of the process after a wild pointer.
Lost == fault /\ UNCHANGED vars

Next ==
    \/ ~fault /\ \E t \in Threads, fd \in Fds : UserCall(t, fd)
    \/ ~fault /\ \E t \in Threads : InCall(t)
    \/ Lost

Spec == Init /\ [][Next]_vars
-----------------------------------------------------------------------------
\* The table has grown enough for every entry get() has written, after any sequence
\* of calls by any threads: resize(fd * 1.5) always leaves room for fd itself.
InBounds == \A fd \in Fds : m_datas[fd] # Null => fd < size

\* When do_io() or connect() calls a socket as a non-blocking one, the kernel agrees, so the call
\* cannot block the thread and every fiber on it.  No other thread's fcntl() that has
\* found the context, no registration by another thread, and no earlier setting or
\* use of the number can have made it blocking: only an ioctl(FIONBIO, 0), or an
\* fcntl() that looked while the number was beyond the table, during this very call.
HookedCallNonBlocking ==
    \A t \in Threads :
        pc[t] = "hooked" /\ Fd(t) \notin cleared => o_nonblock[Fd(t)]

\* A call works with a context of the descriptor that is open now, not of an earlier
\* one of the same number that a thread without hooks has closed.
ContextCurrent ==
    \A t \in Threads :
        ctx[t] # Null /\ pc[t] \in {"use", "hooked"}
            => (ctx[t].m_isSocket <=> kind[Fd(t)] = "socket")

\* do_io() finds no timeout, whatever setsockopt() has stored before, on whatever
\* thread, since get() has replaced the context: the waits of do_io() in module Hook
\* have none.
WaitUntimed ==
    \A t \in Threads : At(t, "use", "do_io") /\ Registered(t) => ctx[t].timeout = Unset
=============================================================================
