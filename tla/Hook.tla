-------------------------------- MODULE Hook -------------------------------
(***************************************************************************)
(* Tasks that use an IOManager: the hooked sleep(), connect(), read() and    *)
(* close() (Hook.cpp), addEvent() with a callback, cancelEvent() and         *)
(* delEvent(), and the callbacks of timers and events; the owner's thread    *)
(* and the network.  Hooks are enabled on every thread.                      *)
(***************************************************************************)
EXTENDS IOManager

CONSTANTS
    Program,  \* the calls each task may make
    Duplex    \* may two tasks use the two directions of a descriptor at once

Cancels == {"cancel_READ", "cancel_WRITE"}
Ops     == {"sleep", "connect", "read", "watch", "del", "close"} \cup Cancels

ASSUME HookAssumption == Program \in [Fibers -> SUBSET Ops] /\ Duplex \in BOOLEAN

VARIABLES
    call,       \* how many calls each task has made
    op,         \* the call a task is in
    cancelled,  \* the tasks in whose call timer_info::cancelled is set
    sock,       \* what the kernel knows of each descriptor
    early,      \* history: the tasks whose timeout has found their event not
                \* registered yet, or whose event a timeout has found registered
                \* without a fiber to schedule
    roused      \* history: the tasks whose wait another task has cancelled

histVars == <<early, roused>>
hookVars == <<call, op, cancelled, sock, histVars>>
vars == <<threadVars, m_tasks, m_timers, fdVars, codeVars, fault, hookVars>>

Sock == {"closed", "fresh", "connecting", "open", "ready"}

\* The owner has scheduled nothing yet; the sockets are there, some connected.
Init ==
    /\ IOInit
    /\ call = [f \in Fibers |-> 0]
    /\ op = [f \in Fibers |-> "none"]
    /\ cancelled = {}
    /\ sock \in [Fds -> {"fresh", "open"}]
    /\ early = {} /\ roused = {}

Timeout(f) == <<"timeout", f, call[f]>>
InCall(f)  == at[f] \notin {"new", "start", "done"}

\* Assumed of the program: a call on a descriptor begins when no other task is in
\* one, or only in one of the other direction; but a task that waits may have its
\* wait cancelled or its descriptor closed.
Direction(o) == IF o \in {"connect", "cancel_WRITE"} THEN "WRITE" ELSE "READ"
Unused(f, o, d) ==
    \A g \in Fibers \ {f} :
        InCall(g) /\ fd[g] = d =>
            \/ at[g] = "away" /\ o \in Cancels \cup {"close"}
            \/ Duplex /\ Direction(o) # Direction(op[g]) /\ "close" \notin {o, op[g]}
-----------------------------------------------------------------------------
\* A call of f about descriptor d begins.
Enter(f, o, d) ==
    /\ at[f] = "start" /\ o \in Program[f] /\ call[f] < MaxCalls
    /\ call' = [call EXCEPT ![f] = @ + 1]
    /\ op' = [op EXCEPT ![f] = o]
    /\ fd' = [fd EXCEPT ![f] = d, ![<<"timeout", f, call[f] + 1>>] = d]
    /\ cancelled' = cancelled \ {f} /\ early' = early \ {f} /\ roused' = roused \ {f}
    /\ UNCHANGED <<threadVars, m_tasks, fdVars, seen, left, fault>>

\* sleep(): the timer's callback schedules this fiber, which then yields.
Sleep(f) ==
    /\ Enter(f, "sleep", Null)
    /\ Move(f, "start", "yield")
    /\ m_timers' = m_timers \cup {<<"wake", f, call[f] + 1>>}
    /\ UNCHANGED sock

\* connect_with_timeout() up to addEvent(): connected at once, or EINPROGRESS and
\* the timer of the timeout is added.
Connect(f, d) ==
    /\ Enter(f, "connect", d) /\ Unused(f, "connect", d) /\ sock[d] = "fresh"
    /\ \/ sock' = [sock EXCEPT ![d] = "open"] /\ UNCHANGED <<at, m_timers>>
       \/ /\ sock' = [sock EXCEPT ![d] = "connecting"]
          /\ Move(f, "start", "add")
          /\ m_timers' = m_timers \cup {<<"timeout", f, call[f] + 1>>}

\* The other calls up to their first step.
First(o) == CASE o = "read"  -> "try"
              [] o = "watch" -> "add"
              [] o = "del"   -> "del"
              [] OTHER       -> "cancel"
Begin(f, o, d) ==
    /\ Enter(f, o, d) /\ Unused(f, o, d) /\ sock[d] # "closed"
    /\ Move(f, "start", First(o))
    /\ UNCHANGED <<m_timers, sock>>

\* The task returns.
Return(f) ==
    /\ Move(f, "start", "done")
    /\ UNCHANGED <<threadVars, m_tasks, m_timers, fdVars, fd, seen, left, fault, hookVars>>

\* do_io(): the system call succeeds or fails, or EAGAIN and it is to wait.  No
\* timeout is ever set, since get() has made the context anew.
Try(f) ==
    LET d == fd[f]
    IN  /\ Move(f, "try", IF sock[d] \in {"open", "connecting"} THEN "add" ELSE "start")
        /\ sock' = [sock EXCEPT ![d] = IF @ = "ready" THEN "open" ELSE @]
        /\ UNCHANGED <<threadVars, m_tasks, m_timers, fdVars, fd, seen, left, fault,
                       call, op, cancelled, histVars>>

\* addEvent() in connect (WRITE), do_io and by the program (READ: a callback for
\* WRITE is the same code, and so is delEvent() of WRITE).
EventOf(f) == Direction(op[f])
AddEvent(f) ==
    /\ \/ AddCheck(f, EventOf(f))
       \/ AddCtl(f) /\ sock[fd[f]] # "closed"
       \/ AddSet(f, EventOf(f))
       \/ AddFill(f, EventOf(f))
       \/ IF op[f] = "watch" THEN AddStore(f, "READ", <<"event", f, call[f]>>, "start")
          ELSE AddStore(f, EventOf(f), f, "yield")
    /\ UNCHANGED hookVars

\* The timer of the timeout is cancelled, which is too late for one that was collected.
CancelTimer(f) ==
    /\ m_timers' = m_timers \ {Timeout(f)}
    /\ past' = past \cup (IF at[Timeout(f)] \in {"mark", "cancel"} THEN {"overtaken"} ELSE {})
    /\ UNCHANGED <<m_stopping, pc, task, ended, cbs, m_tasks, fdVars, fd, seen, left, fault,
                   hookVars>>

\* epoll_ctl() fails, for want of memory too: connect() goes on to ask for the
\* socket's error as if it had waited.
AddFailed(f) == Move(f, "ctl", "start") /\ CancelTimer(f)

\* The fiber goes on after its yield: do_io() tries again; connect() returns
\* ETIMEDOUT or the socket's error.
Woken(f) == Move(f, "woken", IF op[f] = "read" THEN "try" ELSE "start") /\ CancelTimer(f)

\* The task for whose event the timeout x comes too early, and the one that task x
\* rouses.
Registering == {"add", "ctl", "set", "fill", "store"}
Misses(x, es) ==
    {f \in Fibers :
        \/ x = Timeout(f) /\ at[x] = "cancel" /\ ~Matches(x, es) /\ at[f] \in Registering
        \/ at[x] = "trigger" /\ at[f] = "store" /\ fd[f] = fd[x] /\ op[f] = "connect"}
Rouses(x) ==
    {f \in Fibers : /\ x \in Fibers /\ at[x] = "trigger"
                    /\ Head(left[x]) \in events[fd[x]] /\ f = ctx[fd[x]][Head(left[x])]}

\* cancelEvent() and cancalAll() by task x.
Cancel(x, es, to) ==
    /\ \/ CancelNone(x, "cancel", es, to) \/ CancelCtl(x, "cancel", es, "trigger")
       \/ Trigger(x) \/ Reset(x, to) \/ TriggerSkip(x, to)
    /\ early' = early \cup Misses(x, es) /\ roused' = roused \cup Rouses(x)
    /\ UNCHANGED <<call, op, cancelled, sock>>

Delete(f) ==
    /\ \/ CancelNone(f, "del", <<"READ">>, "start") \/ CancelCtl(f, "del", <<"READ">>, "drop")
       \/ DelDrop(f, "READ", "start")
    /\ UNCHANGED hookVars

\* close_f(): the kernel takes the descriptor off the epoll set.
Close(f) ==
    /\ Move(f, "close", "start")
    /\ sock' = [sock EXCEPT ![fd[f]] = "closed"]
    /\ epoll' = epoll \ {fd[f]}
    /\ UNCHANGED <<threadVars, m_tasks, m_timers, m_pendingEventCount, events, ctx, sched,
                   mtx, fd, seen, left, fault, call, op, cancelled, histVars>>

FiberCode(f) ==
    \/ Sleep(f) \/ Return(f) \/ Try(f) \/ AddEvent(f) \/ AddFailed(f) \/ Woken(f) \/ Close(f)
    \/ \E d \in Fds : Connect(f, d) \/ \E o \in Ops \ {"sleep", "connect"} : Begin(f, o, d)
    \/ op[f] \in Cancels /\ Cancel(f, <<EventOf(f)>>, "start")
    \/ op[f] = "close" /\ Cancel(f, <<"READ", "WRITE">>, "close")
    \/ op[f] = "del" /\ Delete(f)
-----------------------------------------------------------------------------
\* The callbacks.  A sleep()'s schedules the fiber; one given to addEvent()
\* just ends.
WakeCb(c) ==
    /\ Move(c, "start", "done")
    /\ IF c[1] = "wake" THEN Schedule(c[2]) ELSE UNCHANGED m_tasks
    /\ UNCHANGED <<threadVars, m_timers, fdVars, fd, seen, left, fault, hookVars>>

\* A timeout's: OnTimer() and the callback lock the weak pointer to the call's
\* timer_info, which is there until the call has returned,
Alive(c) == InCall(c[2]) /\ call[c[2]] = c[3]

\* Mutant: the weak pointer is not tested.
MutTimeoutCbUnchecked(c) ==
    /\ Move(c, "start", IF c[2] \notin cancelled THEN "mark" ELSE "done")
    /\ UNCHANGED <<threadVars, m_tasks, m_timers, fdVars, fd, seen, left, fault, hookVars>>

TimeoutCb(c) ==
    /\ Move(c, "start", IF Alive(c) /\ c[2] \notin cancelled THEN "mark" ELSE "done")
    /\ UNCHANGED <<threadVars, m_tasks, m_timers, fdVars, fd, seen, left, fault, hookVars>>

\* Mutant: the event is not cancelled.
MutTimeoutMarkOnly(c) ==
    /\ Move(c, "mark", "done")
    /\ cancelled' = IF Alive(c) THEN cancelled \cup {c[2]} ELSE cancelled
    /\ UNCHANGED <<threadVars, m_tasks, m_timers, fdVars, fd, seen, left, fault, call, op, sock,
                   histVars>>

\* set cancelled, which only that call reads, and cancel the event.
TimeoutMark(c) ==
    /\ Move(c, "mark", "cancel")
    /\ cancelled' = IF Alive(c) THEN cancelled \cup {c[2]} ELSE cancelled
    /\ UNCHANGED <<threadVars, m_tasks, m_timers, fdVars, fd, seen, left, fault, call, op, sock,
                   histVars>>

CallbackCode(c) ==
    IF c[1] = "timeout" THEN TimeoutCb(c) \/ TimeoutMark(c) \/ Cancel(c, <<"WRITE">>, "done")
    ELSE WakeCb(c)

Body(t) ==
    /\ pc[t] = "body"
    /\ IF task[t] \in Fibers THEN FiberCode(task[t]) ELSE CallbackCode(task[t])

ThreadStep(t) == (Loop(t) /\ UNCHANGED hookVars) \/ Body(t)
-----------------------------------------------------------------------------
\* The owner schedules the tasks, and stops.
UserSchedule(f) ==
    /\ pc[Caller] = "user" /\ Move(f, "new", "start")
    /\ Schedule(f)
    /\ UNCHANGED <<threadVars, m_timers, fdVars, fd, seen, left, fault, hookVars>>

Owner == (\E f \in Fibers : UserSchedule(f)) \/ ((Stop \/ Join) /\ UNCHANGED hookVars)

\* A connection is made or refused, data arrive.
Network ==
    /\ \E d \in Fds, s \in {<<"connecting", "open">>, <<"connecting", "fresh">>,
                            <<"open", "ready">>} :
          sock[d] = s[1] /\ sock' = [sock EXCEPT ![d] = s[2]]
    /\ UNCHANGED <<threadVars, m_tasks, m_timers, fdVars, codeVars, fault, call, op, cancelled,
                   histVars>>

Step == fault = "none" /\ (Owner \/ Network \/ \E t \in Threads : ThreadStep(t))

Ended == (fault # "none" \/ pc[Caller] = "joined") /\ UNCHANGED vars

Next == Step \/ Ended

Spec == Init /\ [][Next]_vars

\* The timers that the calls of the program may arm.
Armed ==
    {c \in Callbacks : \/ c[1] = "wake" /\ "sleep" \in Program[c[2]]
                       \/ c[1] = "timeout" /\ "connect" \in Program[c[2]]}

\* The threads run, and a timer that is looked at again and again is due some time.
FairSpec ==
    /\ Spec
    /\ \A t \in Threads : WF_vars(fault = "none" /\ ThreadStep(t))
    /\ WF_vars(fault = "none" /\ Join /\ UNCHANGED hookVars)
    /\ \A c \in Armed :
          SF_vars(/\ fault = "none" /\ c \in m_timers
                  /\ \E t \in Threads : Wait(t) /\ c \in cbs'[t] /\ UNCHANGED hookVars)
-----------------------------------------------------------------------------
Place == {"new", "start", "try", "add", "ctl", "set", "fill", "store", "yield", "away", "woken",
          "cancel", "del", "trigger", "reset", "drop", "mark", "close", "done"}

TypeOK ==
    /\ m_tasks \in Seq(Tasks) /\ m_stopping \in BOOLEAN
    /\ pc \in [Threads -> {"user", "scan", "body", "timers", "pending", "queue", "wait",
                           "cbs", "exited", "joined"}]
    /\ task \in [Threads -> Tasks \cup {Null}] /\ ended \subseteq Threads
    /\ past \subseteq Rare /\ fault \in Faults
    /\ m_timers \subseteq Callbacks /\ cbs \in [Threads -> SUBSET Callbacks]
    /\ m_pendingEventCount \in Nat
    /\ events \in [Fds -> SUBSET Event] /\ ctx \in [Fds -> [Event -> Tasks \cup {Null}]]
    /\ sched \in [Fds -> SUBSET Event]
    /\ mtx \in [Fds -> Tasks \cup {Null}] /\ epoll \subseteq Fds
    /\ at \in [Tasks -> Place]
    /\ fd \in [Tasks -> Fds \cup {Null}] /\ seen \in [Tasks -> SUBSET Event]
    /\ left \in [Tasks -> Seq(Event)]
    /\ call \in [Fibers -> 0..MaxCalls] /\ op \in [Fibers -> Ops \cup {"none"}]
    /\ cancelled \cup early \cup roused \subseteq Fibers /\ sock \in [Fds -> Sock]

\* m_pendingEventCount, which keeps stop() from returning, counts the registered
\* events exactly, but for a moment in addEvent() and in a cancellation, although
\* it is changed outside the lock and addEvent() takes none.
PendingExact ==
    fault = "none" =>
        m_pendingEventCount =
            Cardinality({r \in Fds \X Event : r[2] \in events[r[1]]})
            + Cardinality({x \in Tasks : at[x] \in {"set", "reset"}})

NothingLeft ==
    /\ m_tasks = <<>> /\ m_timers = {} /\ \A t \in Threads : cbs[t] = {}
    /\ m_pendingEventCount = 0 /\ \A d \in Fds : events[d] = {}

\* When stop() returns no task, timer, collected callback or event is left, though
\* stopping() reads the three at different moments, while tasks on other threads add
\* to them: who adds looks again later.  (Unless a task was taken by a thread whose
\* idle fiber had ended: that one does not look again.)
StopLeavesNothing == pc[Caller] = "joined" /\ "late" \notin past => NothingLeft

\* A connect() that goes on while the connection is still being made does so because
\* its own timeout has expired, and so returns ETIMEDOUT, or because another task has
\* cancelled its event or is closing the descriptor during this very call: a timeout's
\* callback, which sits in the timer set, in a thread's hands or in the queue when its
\* call ends, wakes no later call, and no earlier cancellation does.  (Unless that call
\* ended after the callback's check of the weak pointer.)
WokenByTimeout ==
    \A f \in Fibers :
        at[f] = "woken" /\ op[f] = "connect" /\ sock[fd[f]] = "connecting" =>
            f \in cancelled \cup roused \/ "overtaken" \in past

\* A sleep() and a connect() end.  (Unless the timeout came before the event was
\* registered with its fiber, or stop() has returned over a task that a thread took
\* after its idle fiber had ended.)
TimedWaitEnds ==
    \A f \in Fibers :
        at[f] = "away" /\ op[f] \in {"sleep", "connect"}
            ~> (\/ at[f] # "away" \/ f \in early \/ fault # "none"
                \/ pc[Caller] = "joined" /\ "late" \in past)

\* stop() returns.  (Unless a task or a callback waits for an event without a
\* timeout, or with one that came early.)
Unwatched ==
    \E d \in Fds, e \in Event :
        /\ e \in events[d] /\ ctx[d][e] # Null
        /\ ctx[d][e] \in Fibers =>
              op[ctx[d][e]] = "read" \/ ctx[d][e] \in early
StopReturns == m_stopping ~> (pc[Caller] = "joined" \/ Unwatched \/ fault # "none")

\* The IOManager as a pool of tasks, the callbacks of timers and events included.
Pool == INSTANCE TaskPool WITH
    waiting  <- [x \in Tasks |-> Cardinality({i \in DOMAIN m_tasks : m_tasks[i] = x})],
    running  <- Held,
    finished <- {x \in Tasks : at[x] = "done" /\ x \notin Held},
    phase    <- IF pc[Caller] = "joined" THEN "over"
                ELSE IF m_stopping THEN "closing" ELSE "open"

\* Whatever timers, timeouts, cancellations and close() do to a task, it is handed
\* in once for each time it waits, never taken by two threads, no callback runs
\* twice, and stop() does not return while a task is queued or runs.
ImplementsTaskPool == Pool!Spec
-----------------------------------------------------------------------------
\* README.md:312: when a descriptor can be read or written, the callback that was
\* registered for it is executed.
ReadyEventRuns ==
    \A d \in Fds :
        "READ" \in events[d] /\ sock[d] = "ready" ~> ("READ" \notin events[d] \/ fault # "none")

\* IOManager.cpp:312: the manager must wait until all pending events are done, and
\* ensure that no timer is left.
StopWaits == pc[Caller] = "joined" => NothingLeft

\* README.md:334: the read and the write event of a descriptor may be dealt with at
\* the same time, and the mutex of its FdContext makes the changes of its state atomic:
\* no event is lost or comes back, no registration finds the context still in use and
\* no cancellation finds it half filled.
FdContextAtomic == PendingExact /\ fault \in {"none", "same_event"}
=============================================================================
