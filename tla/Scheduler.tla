----------------------------- MODULE Scheduler -----------------------------
(***************************************************************************)
(* The class Scheduler (Scheduler.h, Scheduler.cpp): M threads run N fibers *)
(* taken from one queue, together with the program that uses it: a main     *)
(* thread that schedules, starts and stops, and tasks whose code may        *)
(* schedule others, re-schedule itself, suspend, be woken and return.       *)
(*                                                                         *)
(* A region under m_mutex is one action.  The idle fiber of a thread is     *)
(* touched by that thread alone, so its resume and yield are one step each  *)
(* and only its state is kept; a task's fiber may be in the queue while it  *)
(* runs, so its resume and yield are the two halves of module Fiber.        *)
(***************************************************************************)
EXTENDS Fiber, Naturals, FiniteSets, SequencesExt

CONSTANTS
    Caller,     \* the thread that owns the scheduler
    UseCaller,  \* the constructor's use_caller
    Root,       \* m_rootFiber, built only if UseCaller
    Callbacks   \* the tasks first scheduled as a function, not as a fiber

Workers == Threads \ {Caller}  \* the threads start() creates
Tasks   == Fibers \ {Root}

ASSUME SchedulerAssumption ==
    /\ Caller \in Threads
    /\ UseCaller \in BOOLEAN
    /\ Root \in Fibers
    /\ Detached = {Root}
    /\ Callbacks \subseteq Tasks
    /\ IsFiniteSet(Threads)
    /\ UseCaller \/ Workers # {}   \* the constructor's assert(threads > 0)

VARIABLES
    m_tasks,             \* the queue of ScheduleTasks
    m_activeThreadCount,
    m_idleThreadCount,
    m_stopping,
    started,             \* start() has filled m_threads
    main,                \* what the thread that owns the scheduler does
    pc,                  \* where each thread is in run(), and in its task
    task,                \* the local variable task of run()
    idle,                \* m_state of each thread's idle fiber
    parked,              \* fibers that suspend, or have, until someone wakes them
    submitted            \* every task ever passed to schedule(): history

schedVars == <<m_tasks, m_activeThreadCount, m_idleThreadCount, m_stopping, started>>
vars == <<fiberVars, schedVars, main, pc, task, idle, parked, submitted>>

\* thread = Null is std::thread::id(-1): any thread may run the task.
ScheduleTask == [fiber : Tasks, cb : BOOLEAN, thread : Threads \cup {Null}]
NoTask == [fiber |-> Null, cb |-> FALSE, thread |-> Null]

\* The code of a task runs at "body"; at "leaving" it has arranged for its own
\* resumption and is about to yield.
InTask == {"picked", "swapin", "body", "leaving", "swapout", "return"}
PC     == InTask \cup {"off", "init", "loop", "idle", "rootout", "exited"}
Main   == {"user", "resume", "swapin", "run", "join", "stopped", "destroyed"}

TypeOK ==
    /\ FiberTypeOK
    /\ m_tasks \in Seq(ScheduleTask)
    /\ m_activeThreadCount \in Nat
    /\ m_idleThreadCount \in Nat
    /\ m_stopping \in BOOLEAN
    /\ started \in BOOLEAN
    /\ main \in Main
    /\ pc \in [Threads -> PC]
    /\ task \in [Threads -> ScheduleTask \cup {NoTask}]
    /\ idle \in [Threads -> FiberState]
    /\ parked \subseteq Tasks
    /\ submitted \subseteq Tasks

\* The state the constructor leaves.
Init ==
    /\ m_state = [f \in Fibers |-> IF UseCaller /\ f = Root THEN "READY" ELSE "none"]
    /\ m_ctx = [f \in Fibers |-> IF UseCaller /\ f = Root THEN "entry" ELSE "none"]
    /\ exec = [t \in Threads |-> t]
    /\ t_fiber = [t \in Threads |-> IF UseCaller /\ t = Caller THEN t ELSE Null]
    /\ t_thread_fiber = [t \in Threads |-> IF UseCaller /\ t = Caller THEN t ELSE Null]
    /\ t_scheduler_fiber =
          [t \in Threads |-> IF UseCaller /\ t = Caller THEN Root ELSE Null]
    /\ fault = NoFault
    /\ m_tasks = <<>>
    /\ m_activeThreadCount = 0
    /\ m_idleThreadCount = 0
    /\ m_stopping = FALSE
    /\ started = FALSE
    /\ main = "user"
    /\ pc = [t \in Threads |-> "off"]
    /\ task = [t \in Threads |-> NoTask]
    /\ idle = [t \in Threads |-> "none"]
    /\ parked = {}
    /\ submitted = {}

Goto(t, from, to) == pc[t] = from /\ pc' = [pc EXCEPT ![t] = to]
-----------------------------------------------------------------------------
\* Scheduling: scheduleNoLock under m_mutex.  tickle() of the base class does
\* nothing.  A task may be pinned to any thread that runs, or will run, run().
Pins == {Null} \cup {t \in Workers : pc[t] # "off"} \cup
        (IF UseCaller THEN {Caller} ELSE {})

Push(f, cb, thread) ==
    m_tasks' = Append(m_tasks, [fiber |-> f, cb |-> cb, thread |-> thread])

\* A task that was never scheduled before: a function, or a new Fiber.
ScheduleNew(f) ==
    /\ f \notin submitted
    /\ submitted' = submitted \cup {f}
    /\ \E p \in Pins : Push(f, f \in Callbacks, p)
    /\ IF f \in Callbacks THEN UNCHANGED <<m_state, m_ctx>> ELSE Construct(f)
    /\ UNCHANGED <<exec, t_fiber, t_thread_fiber, t_scheduler_fiber, fault,
                   m_activeThreadCount, m_idleThreadCount, m_stopping, started,
                   main, pc, task, idle, parked>>

\* Someone wakes a fiber that suspends, by scheduling it again.
Wake(f) ==
    /\ f \in parked
    /\ parked' = parked \ {f}
    /\ \E p \in Pins : Push(f, FALSE, p)
    /\ UNCHANGED <<fiberVars, m_activeThreadCount, m_idleThreadCount, m_stopping,
                   started, main, pc, task, idle, submitted>>

-----------------------------------------------------------------------------
\* The thread that owns the scheduler.  It adds tasks "until stop" (test.cpp:65).
MainSchedule == main = "user" /\ \E f \in Tasks : ScheduleNew(f) \/ Wake(f)

\* start(): one thread per worker, unless the scheduler is stopping.
Start ==
    /\ main \in {"user", "stopped"}
    /\ \/ /\ ~m_stopping
          /\ ~started \/ Workers = {}
          /\ started' = TRUE
          /\ pc' = [t \in Threads |-> IF t \in Workers THEN "init" ELSE pc[t]]
          /\ UNCHANGED fault
       \/ /\ ~m_stopping
          /\ started /\ Workers # {}
          /\ fault' = "m_threads_not_empty"
          /\ UNCHANGED <<started, pc>>
       \/ /\ m_stopping
          /\ UNCHANGED <<started, pc, fault>>
    /\ UNCHANGED <<m_state, m_ctx, exec, t_fiber, t_thread_fiber, t_scheduler_fiber,
                   m_tasks, m_activeThreadCount, m_idleThreadCount, m_stopping,
                   main, task, idle, parked, submitted>>

\* Mutant of stopping: the queue alone is looked at.
MutStoppingNoActive == m_stopping /\ m_tasks = <<>>

stopping == m_stopping /\ m_tasks = <<>> /\ m_activeThreadCount = 0

\* stop() up to the resume of the root fiber.  It may be called again later.
Stop ==
    /\ main \in {"user", "stopped"}
    /\ ~stopping
    /\ m_stopping' = TRUE
    /\ main' = IF UseCaller THEN "resume" ELSE "join"
    /\ UNCHANGED <<fiberVars, m_tasks, m_activeThreadCount, m_idleThreadCount,
                   started, pc, task, idle, parked, submitted>>

\* m_rootFiber->resume(): run() on the caller's thread.
StopResume ==
    /\ main = "resume" /\ main' = "swapin"
    /\ ResumeEnter(Caller, Root)
    /\ UNCHANGED <<schedVars, pc, task, idle, parked, submitted>>

StopSwapIn ==
    /\ main = "swapin" /\ main' = "run"
    /\ SwapIn(Caller, Root)
    /\ Goto(Caller, "off", "init")
    /\ UNCHANGED <<schedVars, task, idle, parked, submitted>>

\* Mutant of Join: stop() detaches the threads instead of joining them.
MutJoinDetach ==
    /\ main = "join" /\ main' = "stopped"
    /\ UNCHANGED <<fiberVars, schedVars, pc, task, idle, parked, submitted>>

\* The threads are joined; m_threads has been emptied by the swap.
Join ==
    /\ main = "join" /\ main' = "stopped"
    /\ \A t \in Workers : pc[t] \in {"off", "exited"}
    /\ UNCHANGED <<fiberVars, schedVars, pc, task, idle, parked, submitted>>

\* ~Scheduler() and its members: a fiber still in the queue, never resumed, dies.
DestroyScheduler ==
    /\ main = "stopped" /\ main' = "destroyed"
    /\ m_tasks' = <<>>
    /\ fault' = IF \E e \in ToSet(m_tasks) : ~e.cb /\ m_ctx[e.fiber] = "entry"
                THEN "destroyed_before_TERM" ELSE fault
    /\ UNCHANGED <<m_state, m_ctx, exec, t_fiber, t_thread_fiber, t_scheduler_fiber,
                   m_activeThreadCount, m_idleThreadCount, m_stopping, started,
                   pc, task, idle, parked, submitted>>

MainStep == MainSchedule \/ Start \/ Stop \/ StopResume \/ StopSwapIn \/ Join
            \/ DestroyScheduler
-----------------------------------------------------------------------------
\* run() up to its loop.  A worker's scheduling fiber is its main fiber.
RunInit(t) ==
    /\ Goto(t, "init", "loop")
    /\ idle' = [idle EXCEPT ![t] = "READY"]
    /\ IF t = Caller
       THEN UNCHANGED <<t_fiber, t_thread_fiber, t_scheduler_fiber>>
       ELSE GetThis(t) /\ t_scheduler_fiber' = [t_scheduler_fiber EXCEPT ![t] = t]
    /\ UNCHANGED <<m_state, m_ctx, exec, fault, schedVars, main, task, parked, submitted>>

\* Mutants of Eligible: without the test of RUNNING; without the test of thread;
\* with tasks that are functions skipped too.
MutEligibleRunning(t, i) == m_tasks[i].thread \in {Null, t}
MutEligibleAnyThread(t, i) ==
    m_tasks[i].cb \/ m_state[m_tasks[i].fiber] # "RUNNING"
MutEligibleFibersOnly(t, i) ==
    /\ m_tasks[i].thread \in {Null, t}
    /\ ~m_tasks[i].cb /\ m_state[m_tasks[i].fiber] # "RUNNING"

\* The scan skips tasks of other threads, and fibers that have not yet yielded.
Eligible(t, i) ==
    /\ m_tasks[i].thread \in {Null, t}
    /\ m_tasks[i].cb \/ m_state[m_tasks[i].fiber] # "RUNNING"

\* Mutant of Erase: it++ is evaluated twice, and the task after it is lost.
MutEraseTwo(i) == SubSeq(m_tasks, 1, i-1) \o SubSeq(m_tasks, i+2, Len(m_tasks))

\* m_tasks.erase(it++)
Erase(i) == RemoveAt(m_tasks, i)

\* The locked scan of run(): the first eligible task is taken.
PickTask(t) ==
    \E i \in DOMAIN m_tasks :
        /\ Eligible(t, i) /\ \A j \in 1..(i-1) : ~Eligible(t, j)
        /\ Goto(t, "loop", "picked")
        /\ task' = [task EXCEPT ![t] = m_tasks[i]]
        /\ m_tasks' = Erase(i)
        /\ m_activeThreadCount' = m_activeThreadCount + 1
        /\ UNCHANGED <<fiberVars, m_idleThreadCount, m_stopping, started,
                       main, idle, parked, submitted>>

NothingEligible(t) == \A i \in DOMAIN m_tasks : ~Eligible(t, i)

\* The scan found nothing: the idle fiber is resumed.
EnterIdle(t) ==
    /\ NothingEligible(t) /\ idle[t] # "TERM"
    /\ Goto(t, "loop", "idle")
    /\ idle' = [idle EXCEPT ![t] = "RUNNING"]
    /\ m_idleThreadCount' = m_idleThreadCount + 1
    /\ UNCHANGED <<fiberVars, m_tasks, m_activeThreadCount, m_stopping, started,
                   main, task, parked, submitted>>

\* idle() tests stopping() under the lock: it yields, or returns and is TERM.
\* Either way t_fiber becomes the main fiber of the thread.
LeaveIdle(t) ==
    /\ Goto(t, "idle", "loop")
    /\ idle' = [idle EXCEPT ![t] = IF stopping THEN "TERM" ELSE "READY"]
    /\ t_fiber' = [t_fiber EXCEPT ![t] = t_thread_fiber[t]]
    /\ m_idleThreadCount' = m_idleThreadCount - 1
    /\ UNCHANGED <<m_state, m_ctx, exec, t_thread_fiber, t_scheduler_fiber, fault,
                   m_tasks, m_activeThreadCount, m_stopping, started,
                   main, task, parked, submitted>>

\* The scan found nothing and the idle fiber is TERM: run() returns.  A worker
\* ends with its thread_local fibers; on the caller the root fiber ends.
ExitWorker(t) ==
    /\ t # Caller /\ NothingEligible(t) /\ idle[t] = "TERM"
    /\ Goto(t, "loop", "exited")
    /\ DestroyMain(t)
    /\ UNCHANGED <<schedVars, main, task, idle, parked, submitted>>

RootReturn(t) ==
    /\ t = Caller /\ NothingEligible(t) /\ idle[t] = "TERM"
    /\ Goto(t, "loop", "rootout")
    /\ MainFuncEnd(t, Root)
    /\ UNCHANGED <<schedVars, main, task, idle, parked, submitted>>

RootSwapOut(t) ==
    /\ t = Caller
    /\ Goto(t, "rootout", "exited")
    /\ SwapOut(t, Root)
    /\ main' = "join"
    /\ UNCHANGED <<schedVars, task, idle, parked, submitted>>
-----------------------------------------------------------------------------
\* Running the task in hand.  A function is wrapped into a new fiber first.
RunFiber(t) ==
    /\ ~task[t].cb
    /\ Goto(t, "picked", "swapin")
    /\ ResumeEnter(t, task[t].fiber)
    /\ UNCHANGED <<schedVars, main, task, idle, parked, submitted>>

\* new Fiber(task.cb), task.reset() and the first half of its resume().
RunCallback(t) ==
    /\ task[t].cb
    /\ Goto(t, "picked", "swapin")
    /\ m_state' = [m_state EXCEPT ![task[t].fiber] = "RUNNING"]
    /\ m_ctx' = [m_ctx EXCEPT ![task[t].fiber] = "entry"]
    /\ t_fiber' = [t_fiber EXCEPT ![t] = task[t].fiber]
    /\ UNCHANGED <<exec, t_thread_fiber, t_scheduler_fiber, fault, schedVars,
                   main, task, idle, parked, submitted>>

TaskSwapIn(t) ==
    /\ Goto(t, "swapin", "body")
    /\ SwapIn(t, task[t].fiber)
    /\ UNCHANGED <<schedVars, main, task, idle, parked, submitted>>

\* The code of a task: it schedules another task or wakes one,
BodySchedule(t) == pc[t] = "body" /\ \E f \in Tasks : ScheduleNew(f) \/ Wake(f)

\* schedules itself (GetThis()) and then yields,
BodyReschedule(t) ==
    /\ Goto(t, "body", "leaving")
    /\ \E p \in Pins : Push(t_fiber[t], FALSE, p)
    /\ UNCHANGED <<fiberVars, m_activeThreadCount, m_idleThreadCount, m_stopping,
                   started, main, task, idle, parked, submitted>>

\* hands itself to whoever will wake it (addEvent, addTimer) and then yields,
BodyPark(t) ==
    /\ Goto(t, "body", "leaving")
    /\ parked' = parked \cup {t_fiber[t]}
    /\ UNCHANGED <<fiberVars, schedVars, main, task, idle, submitted>>

BodyYield(t) ==
    /\ Goto(t, "leaving", "swapout")
    /\ YieldMark(t, t_fiber[t])
    /\ UNCHANGED <<schedVars, main, task, idle, parked, submitted>>

\* or returns to MainFunc.
BodyReturn(t) ==
    /\ Goto(t, "body", "swapout")
    /\ MainFuncEnd(t, exec[t])
    /\ UNCHANGED <<schedVars, main, task, idle, parked, submitted>>

TaskSwapOut(t) ==
    /\ Goto(t, "swapout", "return")
    /\ SwapOut(t, exec[t])
    /\ UNCHANGED <<schedVars, main, task, idle, parked, submitted>>

\* Mutant of TaskDone: the count is not taken down for a task that only yielded.
MutTaskDoneKeepsCount(t) ==
    /\ Goto(t, "return", "loop")
    /\ task' = [task EXCEPT ![t] = NoTask]
    /\ m_activeThreadCount' =
          IF m_state[task[t].fiber] = "TERM" THEN m_activeThreadCount - 1
          ELSE m_activeThreadCount
    /\ UNCHANGED <<fiberVars, m_tasks, m_idleThreadCount, m_stopping, started,
                   main, idle, parked, submitted>>

\* resume() has returned: the count goes down, the task and cb_fiber are reset.
TaskDone(t) ==
    /\ Goto(t, "return", "loop")
    /\ task' = [task EXCEPT ![t] = NoTask]
    /\ m_activeThreadCount' = m_activeThreadCount - 1
    /\ UNCHANGED <<fiberVars, m_tasks, m_idleThreadCount, m_stopping, started,
                   main, idle, parked, submitted>>

ThreadStep(t) ==
    \/ RunInit(t) \/ PickTask(t) \/ EnterIdle(t) \/ LeaveIdle(t) \/ ExitWorker(t)
    \/ RootReturn(t) \/ RootSwapOut(t)
    \/ RunFiber(t) \/ RunCallback(t) \/ TaskSwapIn(t)
    \/ BodySchedule(t) \/ BodyReschedule(t) \/ BodyPark(t)
    \/ BodyYield(t) \/ BodyReturn(t)
    \/ TaskSwapOut(t) \/ TaskDone(t)

Step == fault = NoFault /\ (MainStep \/ \E t \in Threads : ThreadStep(t))

\* The process may end: by an abort, or when the scheduler is gone.
Ended == (fault # NoFault \/ main = "destroyed") /\ UNCHANGED vars

Next == Step \/ Ended

Spec == Init /\ [][Next]_vars

\* The OS runs every thread; stop() itself never waits but for the root fiber and
\* the threads; the code of a task that gets to run again and again ends.
Fairness ==
    /\ \A t \in Threads : WF_vars(fault = NoFault /\ ThreadStep(t))
    /\ WF_vars(fault = NoFault /\ (StopResume \/ StopSwapIn \/ Join))
    /\ \A f \in Tasks :
          SF_vars(fault = NoFault /\ \E t \in Threads : exec[t] = f /\ BodyReturn(t))

FairSpec == Spec /\ Fairness
-----------------------------------------------------------------------------
At(S)  == {t \in Threads : pc[t] \in S}
Active == At(InTask)
Idle   == At({"idle"})

\* The two counters, changed outside the lock and read by stopping() and tickle(),
\* are at every moment the number of threads between taking a task and having
\* returned from it, and the number of threads in their idle fiber.
CountersExact ==
    /\ m_activeThreadCount = Cardinality(Active)
    /\ m_idleThreadCount = Cardinality(Idle)

\* stopping() is a stable verdict: from the moment the idle fiber of one thread
\* has seen it and ended, until that thread has gone, no task is queued and no
\* thread has one in hand, so no work is left behind by a thread that leaves.
QuiescentExit ==
    \A t \in Threads :
        idle[t] = "TERM" => m_stopping /\ m_tasks = <<>> /\ Active = {}

Queued(f) == \E e \in ToSet(m_tasks) : e.fiber = f
Holds(t, f) == pc[t] \in {"picked", "swapin", "body", "leaving"} /\ task[t].fiber = f

\* No task is lost or doubled between the queue and the threads: a task handed to
\* schedule() that has not ended and does not wait to be woken is in the queue or
\* in the hands of a thread; it is in the queue once at most and no two threads
\* are about to run it.  It may be in both places only until it has yielded.
TaskConserved ==
    fault = NoFault /\ main # "destroyed" =>
        \A f \in submitted :
            /\ \/ m_state[f] = "TERM" \/ f \in parked \/ Queued(f)
               \/ \E t \in Threads : Holds(t, f)
            /\ \A i, j \in DOMAIN m_tasks :
                  m_tasks[i].fiber = f /\ m_tasks[j].fiber = f => i = j
            /\ \A t, u \in Threads : Holds(t, f) /\ Holds(u, f) => t = u
            /\ \A t \in Threads : Holds(t, f) /\ Queued(f) => pc[t] = "leaving"

\* When stop() returns, every task has ended or waits for a wake-up that was never
\* sent, and the queue is empty, if some thread was there to run tasks at all.
StopDrains ==
    main = "stopped" /\ fault = NoFault /\ (UseCaller \/ started) =>
        /\ m_tasks = <<>>
        /\ \A f \in submitted : m_state[f] = "TERM" \/ f \in parked

\* Skipping fibers that are RUNNING is enough for the assertion of resume(): a
\* fiber that is woken or re-scheduled before it has yielded is never resumed in
\* that state.
NoResumeError == fault # "resume_error"

\* In the code of a task, GetThis() is the fiber of that task on whichever thread
\* it has been resumed, and a task bound to a thread runs on that thread.
CurrentTask ==
    \A t \in Threads :
        fault = NoFault /\ pc[t] \in {"body", "leaving"} =>
            /\ t_fiber[t] = task[t].fiber /\ exec[t] = task[t].fiber
            /\ task[t].thread \in {Null, t}

\* stop() returns, whatever tasks do in the meantime, provided each of them ends.
StopReturns ==
    main \in {"resume", "swapin", "run", "join"} ~> (main = "stopped" \/ fault # NoFault)

\* A queued task that some started thread may run is taken, whatever is queued
\* before it and however often others re-schedule themselves.
QueuedFor(f, T) == \E e \in ToSet(m_tasks) : e.fiber = f /\ e.thread \in T
QueuedRuns ==
    \A f \in Tasks :
        started /\ QueuedFor(f, Workers \cup {Null})
            ~> (~QueuedFor(f, Workers \cup {Null}) \/ fault # NoFault)
-----------------------------------------------------------------------------
\* The scheduler as a pool of tasks.  A queue with no thread to serve it (stop()
\* before start(), without use_caller) is never over.
Served == UseCaller \/ started
Pool == INSTANCE TaskPool WITH
    waiting  <- [f \in Tasks |->
                    Cardinality({i \in DOMAIN m_tasks : m_tasks[i].fiber = f})],
    running  <- {f \in Tasks : \E t \in Threads : Holds(t, f)},
    finished <- {f \in submitted : m_state[f] = "TERM"},
    phase    <- IF main \in {"stopped", "destroyed"} /\ Served THEN "over"
                ELSE IF m_stopping THEN "closing" ELSE "open"

\* With all its threads, counters, half-finished switches and pinned tasks the
\* scheduler behaves as a pool: every step hands in, takes, lets go of or ends one
\* task that was ready for it, stop() returns only with no task queued or in hand,
\* and from then on nothing moves.
ImplementsTaskPool == Pool!Spec
-----------------------------------------------------------------------------
\* Scheduler.cpp:161, "[fix bug]": a fiber that has not yielded yet is skipped, so
\* no thread resumes a fiber whose stack another thread still executes on.
NoSharedStack == fault # "stack_shared"
=============================================================================
