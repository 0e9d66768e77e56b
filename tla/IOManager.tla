----------------------------- MODULE IOManager -----------------------------
(***************************************************************************)
(* The class IOManager (IOManager.h, IOManager.cpp): the scheduler's threads*)
(* with an idle() that waits for timers, and the table of the events that   *)
(* tasks wait for on descriptors.  What the tasks themselves do is in       *)
(* module Hook, which extends this one.                                     *)
(*                                                                         *)
(* The switches of fibers are those of modules Fiber and Scheduler: here a  *)
(* task is in the hands of a thread or not.  A timer stands for its         *)
(* callback; when it is due is left open.  tickle() changes nothing that    *)
(* anyone reads: the pipe it writes to is never drained, and epoll_wait()   *)
(* returns within 5 ms by itself.                                           *)
(***************************************************************************)
EXTENDS Naturals, FiniteSets, SequencesExt

CONSTANTS
    Threads,    \* the threads that execute run(), and the owner's
    Caller,     \* the owner's thread
    UseCaller,  \* the constructor's use_caller
    Fibers,     \* the tasks the program schedules
    Fds,        \* descriptors, all within the table the constructor makes
    MaxCalls,   \* bound on the calls a task makes
    Null

Workers == Threads \ {Caller}

\* Functions that become tasks: what a sleep() and a timeout arm a timer with, and
\* what addEvent() is given, each named by the call it belongs to.
Callbacks == {"wake", "timeout", "event"} \X Fibers \X (1..MaxCalls)
Tasks     == Fibers \cup Callbacks
Event     == {"READ", "WRITE"}

\* A thread whose idle fiber is TERM takes a task; a call ends while the callback of
\* its timeout is past the check of the weak pointer and has not cancelled anything yet.
Rare == {"late", "overtaken"}

\* Assertions that fail, and accesses outside an object.
Faults == {"none", "same_event", "context_in_use", "no_scheduler",
           "not_registered", "events_left"}

ASSUME IOAssumption ==
    /\ Caller \in Threads /\ IsFiniteSet(Threads) /\ (UseCaller \/ Workers # {})
    /\ UseCaller \in BOOLEAN
    /\ IsFiniteSet(Fds) /\ IsFiniteSet(Fibers) /\ MaxCalls \in Nat
    /\ Null \notin Threads \cup Tasks \cup Fds /\ Fibers \cap Callbacks = {}

VARIABLES
    \* Scheduler
    m_tasks,     \* the queue
    m_stopping,
    pc,          \* where each thread is in run() or idle()
    task,        \* the task it has in hand
    ended,       \* the threads whose idle fiber is TERM
    past,        \* history: which of the rare events of Rare have happened
    \* TimerManager
    m_timers,    \* the callbacks of the timers in the set
    cbs,         \* callbacks collected by a thread and not yet scheduled
    \* IOManager
    m_pendingEventCount,
    events,      \* FdContext::events
    ctx,         \* FdContext::read and FdContext::write: who is to be scheduled
    sched,       \* the events whose EventContext has its scheduler
    mtx,         \* FdContext::mtx: the task that holds it
    epoll,       \* the descriptors in the kernel's epoll set
    \* the code of the tasks
    at,          \* where each task is
    fd,          \* the descriptor its call is about
    seen,        \* the value of events a call has read
    left,        \* the events a cancellation has still to trigger
    fault        \* a failed assertion or undefined behaviour, which ends everything

threadVars == <<m_stopping, pc, task, ended, past, cbs>>
fdVars     == <<m_pendingEventCount, events, ctx, sched, mtx, epoll>>
codeVars   == <<at, fd, seen, left>>

Goto(t, from, to) == pc[t] = from /\ pc' = [pc EXCEPT ![t] = to]
Move(x, from, to) == at[x] = from /\ at' = [at EXCEPT ![x] = to]

\* schedule(); a task that has not yielded yet is skipped by the scan.
Schedule(x)     == m_tasks' = Append(m_tasks, x)
Held            == {task[t] : t \in Threads} \ {Null}
\* Mutant: a task that has not yielded yet is taken.
MutEligibleAlways(i) == i \in DOMAIN m_tasks
Eligible(i)     == m_tasks[i] \notin Held
NothingEligible == \A i \in DOMAIN m_tasks : ~Eligible(i)

IOInit ==
    /\ m_tasks = <<>> /\ m_stopping = FALSE
    /\ pc = [t \in Threads |-> IF t = Caller THEN "user" ELSE "scan"]
    /\ task = [t \in Threads |-> Null]
    /\ ended = {} /\ past = {}
    /\ m_timers = {} /\ cbs = [t \in Threads |-> {}]
    /\ m_pendingEventCount = 0
    /\ events = [d \in Fds |-> {}]
    /\ ctx = [d \in Fds |-> [e \in Event |-> Null]]
    /\ sched = [d \in Fds |-> {}]
    /\ mtx = [d \in Fds |-> Null]
    /\ epoll = {}
    /\ at = [x \in Tasks |-> IF x \in Fibers THEN "new" ELSE "start"]
    /\ fd = [x \in Tasks |-> Null]
    /\ seen = [x \in Tasks |-> {}]
    /\ left = [x \in Tasks |-> <<>>]
    /\ fault = "none"
-----------------------------------------------------------------------------
\* run() and idle() on thread t.  The scan takes the first task it may.
PickTask(t) ==
    \E i \in DOMAIN m_tasks :
        /\ Eligible(i) /\ \A j \in 1..(i-1) : ~Eligible(j)
        /\ Goto(t, "scan", "body")
        /\ task' = [task EXCEPT ![t] = m_tasks[i]]
        /\ m_tasks' = RemoveAt(m_tasks, i)
        /\ at' = [at EXCEPT ![m_tasks[i]] = IF @ = "away" THEN "woken" ELSE @]
        /\ past' = past \cup (IF t \in ended THEN {"late"} ELSE {})
        /\ UNCHANGED <<m_stopping, ended, m_timers, cbs, fdVars, fd, seen, left, fault>>

\* The task has yielded or ended: resume() returns.
LeaveTask(t) ==
    /\ Goto(t, "body", "scan")
    /\ at[task[t]] \in {"yield", "done"}
    /\ at' = [at EXCEPT ![task[t]] = IF @ = "yield" THEN "away" ELSE @]
    /\ task' = [task EXCEPT ![t] = Null]
    /\ UNCHANGED <<m_tasks, m_stopping, ended, past, m_timers, cbs, fdVars, fd, seen, left, fault>>

EnterIdle(t) ==
    /\ NothingEligible /\ t \notin ended
    /\ Goto(t, "scan", "timers")
    /\ UNCHANGED <<m_tasks, m_stopping, task, ended, past, m_timers, cbs, fdVars, codeVars, fault>>

\* Mutant: the timers are not looked at.
MutStoppingNoTimers(t) ==
    /\ \/ Goto(t, "timers", "pending") /\ UNCHANGED ended
       \/ /\ Goto(t, "pending", IF m_pendingEventCount = 0 THEN "queue" ELSE "wait")
          /\ UNCHANGED ended
       \/ LET quiet == m_stopping /\ m_tasks = <<>> /\ Held = {}
          IN  /\ Goto(t, "queue", IF quiet THEN "scan" ELSE "wait")
              /\ ended' = IF quiet THEN ended \cup {t} ELSE ended
    /\ UNCHANGED <<m_tasks, m_stopping, task, past, m_timers, cbs, fdVars, codeVars, fault>>

\* stopping(): the timers, m_pendingEventCount and Scheduler::stopping() are read
\* one after the other, the first and the last under different locks.
Stopping(t) ==
    /\ \/ /\ Goto(t, "timers", IF m_timers = {} THEN "pending" ELSE "wait")
          /\ UNCHANGED ended
       \/ /\ Goto(t, "pending", IF m_pendingEventCount = 0 THEN "queue" ELSE "wait")
          /\ UNCHANGED ended
       \/ LET quiet == m_stopping /\ m_tasks = <<>> /\ Held = {}
          IN  /\ Goto(t, "queue", IF quiet THEN "scan" ELSE "wait")
              /\ ended' = IF quiet THEN ended \cup {t} ELSE ended
    /\ UNCHANGED <<m_tasks, m_stopping, task, past, m_timers, cbs, fdVars, codeVars, fault>>

\* epoll_wait() returns and listExpiredCb() collects the timers that are due.  The
\* loop over the descriptors that are ready runs from 0 to the outer rt, which is
\* 0: its body is never executed, and the idle fiber yields.
Wait(t) ==
    \E S \in SUBSET m_timers :
        /\ Goto(t, "wait", IF S = {} THEN "scan" ELSE "cbs")
        /\ m_timers' = m_timers \ S
        /\ cbs' = [cbs EXCEPT ![t] = S]
        /\ UNCHANGED <<m_tasks, m_stopping, task, ended, past, fdVars, codeVars, fault>>

\* The callbacks are scheduled one by one.
ScheduleCb(t) ==
    \E c \in cbs[t] :
        /\ Goto(t, "cbs", IF cbs[t] = {c} THEN "scan" ELSE "cbs")
        /\ cbs' = [cbs EXCEPT ![t] = @ \ {c}]
        /\ Schedule(c)
        /\ UNCHANGED <<m_stopping, task, ended, past, m_timers, fdVars, codeVars, fault>>

\* run() returns: nothing to take, and the idle fiber is TERM.
Exit(t) ==
    /\ NothingEligible /\ t \in ended
    /\ Goto(t, "scan", "exited")
    /\ UNCHANGED <<m_tasks, m_stopping, task, ended, past, m_timers, cbs, fdVars, codeVars, fault>>

\* ~IOManager() and stop(): the caller runs run() itself, or only joins.
Stop ==
    /\ Goto(Caller, "user", IF UseCaller THEN "scan" ELSE "exited")
    /\ m_stopping' = TRUE
    /\ UNCHANGED <<m_tasks, task, ended, past, m_timers, cbs, fdVars, codeVars, fault>>

Join ==
    /\ \A t \in Workers : pc[t] = "exited"
    /\ Goto(Caller, "exited", "joined")
    /\ UNCHANGED <<m_tasks, m_stopping, task, ended, past, m_timers, cbs, fdVars, codeVars, fault>>

Loop(t) ==
    \/ PickTask(t) \/ LeaveTask(t) \/ EnterIdle(t) \/ Stopping(t) \/ Wait(t)
    \/ ScheduleCb(t) \/ Exit(t)
-----------------------------------------------------------------------------
\* addEvent(fd[x], e, cb), which takes no lock on the descriptor's context.  The
\* event must not be registered yet.  (For a descriptor beyond the table,
\* contextResize(fd + fd > 1) makes the table one long and all is undefined.)
AddCheck(x, e) ==
    /\ Move(x, "add", "ctl")
    /\ seen' = [seen EXCEPT ![x] = events[fd[x]]]
    /\ fault' = IF e \in events[fd[x]] THEN "same_event" ELSE fault
    /\ UNCHANGED <<threadVars, m_tasks, m_timers, fdVars, fd, left>>

\* epoll_ctl(): EPOLL_CTL_ADD of a descriptor that is in the set fails, and so
\* does EPOLL_CTL_MOD of one that is not.
AddCtl(x) ==
    /\ Move(x, "ctl", "set")
    /\ (fd[x] \in epoll) <=> (seen[x] # {})
    /\ epoll' = epoll \cup {fd[x]}
    /\ m_pendingEventCount' = m_pendingEventCount + 1
    /\ seen' = [seen EXCEPT ![x] = events[fd[x]]]
    /\ UNCHANGED <<threadVars, m_tasks, m_timers, events, ctx, sched, mtx, fd, left, fault>>

\* events |= e is a race with whoever changes it under the lock.
AddSet(x, e) ==
    /\ Move(x, "set", "fill")
    /\ \E v \in {seen[x], events[fd[x]]} : events' = [events EXCEPT ![fd[x]] = v \cup {e}]
    /\ UNCHANGED <<threadVars, m_tasks, m_timers, m_pendingEventCount, ctx, sched, mtx,
                   epoll, fd, seen, left, fault>>

\* The context must be empty; its scheduler is set,
AddFill(x, e) ==
    /\ Move(x, "fill", "store")
    /\ sched' = [sched EXCEPT ![fd[x]] = @ \cup {e}]
    /\ fault' = IF e \in sched[fd[x]] \/ ctx[fd[x]][e] # Null
                THEN "context_in_use" ELSE fault
    /\ UNCHANGED <<threadVars, m_tasks, m_timers, m_pendingEventCount, events, ctx, mtx,
                   epoll, fd, seen, left>>

\* and then the function or the fiber that is to be scheduled when the event comes.
AddStore(x, e, who, to) ==
    /\ Move(x, "store", to)
    /\ ctx' = [ctx EXCEPT ![fd[x]][e] = who]
    /\ seen' = [seen EXCEPT ![x] = {}]
    /\ UNCHANGED <<threadVars, m_tasks, m_timers, m_pendingEventCount, events, sched, mtx,
                   epoll, fd, left, fault>>
-----------------------------------------------------------------------------
\* Mutant of Matches: the event is not looked for.
MutMatchesAlways(x, es) == TRUE

\* cancelEvent(), cancalAll() and delEvent() take the lock of the context.  They
\* return false if none of the events es is registered or epoll_ctl() fails.
Matches(x, es) == ToSet(es) \cap events[fd[x]] # {} /\ fd[x] \in epoll

CancelNone(x, from, es, to) ==
    /\ Move(x, from, to)
    /\ mtx[fd[x]] = Null /\ ~Matches(x, es)
    /\ UNCHANGED <<threadVars, m_tasks, m_timers, fdVars, fd, seen, left, fault>>

\* They take the events off the epoll set; left is what is then to be done.
CancelCtl(x, from, es, to) ==
    /\ Move(x, from, to)
    /\ mtx[fd[x]] = Null /\ Matches(x, es)
    /\ mtx' = [mtx EXCEPT ![fd[x]] = x]
    /\ epoll' = IF events[fd[x]] \subseteq ToSet(es) THEN epoll \ {fd[x]} ELSE epoll
    /\ seen' = [seen EXCEPT ![x] = events[fd[x]] \ ToSet(es)]
    /\ left' = [left EXCEPT ![x] = es]
    /\ UNCHANGED <<threadVars, m_tasks, m_timers, m_pendingEventCount, events, ctx,
                   sched, fd, fault>>

\* The next of the events in left; after the last one cancalAll() asserts that no
\* event remains, and the lock is given back.
Proceed(x, to) ==
    LET d == fd[x]  last == Len(left[x]) = 1
    IN  /\ left' = [left EXCEPT ![x] = Tail(@)]
        /\ at' = [at EXCEPT ![x] = IF last THEN to ELSE "trigger"]
        /\ mtx' = [mtx EXCEPT ![d] = IF last THEN Null ELSE @]
        /\ fault' = IF last /\ to = "close" /\ events[d] # {} THEN "events_left" ELSE fault

\* triggerEvent(): the event is cleared and its task scheduled, through the scheduler
\* of the context; scheduleNoLock() drops a task that is not there yet,
Trigger(x) ==
    LET d == fd[x]  e == Head(left[x])
    IN  /\ Move(x, "trigger", "reset")
        /\ e \in events[d]
        /\ events' = [events EXCEPT ![d] = @ \ {e}]
        /\ fault' = IF e \in sched[d] THEN fault ELSE "no_scheduler"
        /\ IF e \in sched[d] /\ ctx[d][e] # Null THEN Schedule(ctx[d][e])
           ELSE UNCHANGED m_tasks
        /\ UNCHANGED <<threadVars, m_timers, m_pendingEventCount, ctx, sched, mtx, epoll,
                       fd, seen, left>>

\* resetEventContext()
Clear(d, e) ==
    /\ ctx' = [ctx EXCEPT ![d][e] = Null]
    /\ sched' = [sched EXCEPT ![d] = @ \ {e}]

\* Mutant: the count is not taken down.
MutResetKeepsCount(x, to) ==
    /\ at[x] = "reset"
    /\ Clear(fd[x], Head(left[x]))
    /\ Proceed(x, to)
    /\ UNCHANGED <<threadVars, m_tasks, m_timers, m_pendingEventCount, events, epoll, fd, seen>>

\* then its context is reset and the count taken down.
Reset(x, to) ==
    /\ at[x] = "reset"
    /\ Clear(fd[x], Head(left[x]))
    /\ m_pendingEventCount' = m_pendingEventCount - 1
    /\ Proceed(x, to)
    /\ UNCHANGED <<threadVars, m_tasks, m_timers, events, epoll, fd, seen>>

\* cancalAll(), which only close() calls, passes over an event that is not registered;
\* cancelEvent() has found it registered and would fail the assertion.
TriggerSkip(x, to) ==
    /\ at[x] = "trigger" /\ Head(left[x]) \notin events[fd[x]]
    /\ IF to = "close" THEN Proceed(x, to)
       ELSE fault' = "not_registered" /\ UNCHANGED <<at, left, mtx>>
    /\ UNCHANGED <<threadVars, m_tasks, m_timers, m_pendingEventCount, events, ctx, sched,
                   epoll, fd, seen>>

\* delEvent() stores the events it has computed and schedules nobody.
DelDrop(x, e, to) ==
    /\ Move(x, "drop", to)
    /\ events' = [events EXCEPT ![fd[x]] = seen[x]]
    /\ Clear(fd[x], e)
    /\ mtx' = [mtx EXCEPT ![fd[x]] = Null]
    /\ m_pendingEventCount' = m_pendingEventCount - 1
    /\ UNCHANGED <<threadVars, m_tasks, m_timers, epoll, fd, seen, left, fault>>
=============================================================================
