# A TLA+ development of MyCoroutine

MyCoroutine is a C++ coroutine library: fibers on `ucontext`, an M:N scheduler, timers, an epoll
loop and hooks that turn blocking calls into suspensions. This directory holds TLA+ models of its
core, TLC configurations that check them on small instances, and TLAPS proofs of its
safety properties for any number of threads, tasks, timers and descriptors. `PROJECT.json` maps every definition to
the lines it models and lists runs, mutants, findings, hazards and theorems.

    tlc -workers 2 -config SchedulerCaller.cfg Scheduler
    tlc -workers 2 -config TimerForward.cfg MCTimer
    tlc -workers 2 -config FdManager.cfg FdManager
    tlc -workers 2 -config IOManager.cfg MCHook
    tlapm SchedulerTaskProofs.tla
    tlapm HookProofs.tla

## 1. The system

| Part | State | Operations | Works with |
|---|---|---|---|
| `Fiber` | `m_state`, `m_ctx`, stack; per thread `t_fiber`, `t_thread_fiber` | construct, `GetThis`, `reset`, `resume`, `yield`, `MainFunc`, destroy | the thread's scheduling fiber (`t_scheduler_fiber`) |
| `Scheduler` | `m_tasks` under `m_mutex`; two atomic counters; `m_stopping`; `m_threads`; `m_rootFiber` | construct, `schedule`, `start`, `run`, `idle`, `stopping`, `stop`, destroy | resumes fibers; is called by tasks, the owner, timers and events |
| `Timer`, `TimerManager` | the ordered set `m_timers`, `m_tickled`, `m_previouseTime` under a shared mutex; per timer `m_next`, `m_ms`, `m_recurring`, `m_cb` | `addTimer`, `cancel`, `refresh`, `reset`, `getNextTimer`, `listExpiredCb` | `onTimerInsertedAtFront` wakes a waiting thread |
| `IOManager` | epoll set, per-descriptor events and waiting fibers, `m_pendingEventCount`, tickle pipe | `addEvent`, `delEvent`, `cancelEvent`, `cancalAll`, `idle`, `tickle`, `stopping` | is a `Scheduler` and a `TimerManager` |
| `FdManager`, `FdCtx` | the table of descriptor contexts under a shared mutex | `get`, `del`, `setTimeout`, `setUserNoBlock`, ... | asked by every hook |
| `Hook` | `t_hook_enable`, per call a `timer_info` | `do_io`, `connect_with_timeout`, `sleep`, `fcntl`, `ioctl`, `setsockopt`, `close` | suspends the calling fiber until an event or a timer |
| `Singleton`, `server.cpp`, `test.cpp` | - | glue, an echo server, manual tests | - |

What is hard here:

* `resume` and `yield` are not atomic and no lock protects a fiber, yet a fiber can be in the queue
  while it is still running (it scheduled itself, or whoever was to wake it was quick).
* `stopping()` is computed under the lock and acted on without it, with counters that change
  outside the lock.
* a fiber migrates between threads, and its code reads thread-locals.
* threads sleep for a time computed from the timer set as it was before, and rely on an
  announcement that is suppressed while an earlier one is pending (`m_tickled`).
* the clock is the system clock, read before the lock is taken.
* a descriptor's context is looked up by number, numbers are reused, hooking is per thread and the
  non-blocking flag is per descriptor.
* a fiber that waits for a descriptor is in the hands of an event, a timeout's callback, a cancellation and
  `close()` at once, and the callback moves from the timer set to a thread to the queue to a task.
* `IOManager::stopping()` asks three parts one after the other while work moves between them.
* `addEvent()` does not take the lock that the cancellations take.

What makes each part correct: the current fiber is the one that executes, a context is entered by
one thread and only when saved, a fiber in use is not freed (`Fiber`); no task lost or run twice,
`stop()` returns, and only when nothing is left to run (`Scheduler`); a timer fires once, not
early, and is not slept through, and `cancel` means it will not fire (`Timer`); a context belongs to
the descriptor that is open now, what the user set on it stays, and a call taken for non-blocking
is (`FdManager`); a wait ends, once, by its own event, timeout or cancellation, the count of
registered events is exact, and `stop()` returns when no task, timer or event is left and not
before (`IOManager`, `Hook`).

## 2. The modules

| Module | Models | Lines of code |
|---|---|---|
| `Fiber` | the class `Fiber`: state and action operators, no `Next` of its own | `Fiber.h`, `Fiber.cpp` |
| `FiberUser` | a program that drives fibers by hand, from the recipe in the repository's README | `Fiber.cpp` with its callers |
| `Scheduler` | the class `Scheduler`, its owner and its tasks; extends `Fiber` | `Scheduler.h`, `Scheduler.cpp` |
| `TaskPool` | what the scheduler promises: tasks waiting, running, finished; open, closing, over | the interface of `Scheduler.h` |
| `SchedulerProofs`, `SchedulerTaskProofs` | theorems about the threads of `Scheduler`, and about its tasks and the refinement | |
| `FiberProofs`, `FiberUserProofs` | lemmas about `Fiber`, theorems about `FiberUser` | |
| `Timer`, `MCTimer` | `Timer` and `TimerManager` with the threads that wait on them; `MCTimer` adds a symmetry | `Timer.h`, `Timer.cpp` |
| `FdManager` | `FdManager`, `FdCtx` and the hooks that ask or change them, on several threads | `FdManager.h`, `FdManager.cpp`, parts of `Hook.cpp` |
| `TimerProofs`, `FdManagerProofs`, `HookProofs` | theorems about `Timer`, `FdManager` and `Hook` with `IOManager` | |
| `IOManager` | the class `IOManager`: threads with its `idle()` and `stopping()`, timers, events; action operators, no `Next` of its own | `IOManager.h`, `IOManager.cpp`, `Scheduler::run` |
| `Hook`, `MCHook` | tasks that wait through the hooks, callbacks, the owner and the network; extends `IOManager`. `MCHook` has the programs of the instances | `Hook.cpp`, `addConditionTimer` |

### Fiber

`resume` is `ResumeCheck` (the assertion), `ResumeMark` (`t_fiber`, then `RUNNING`, whatever the state is by then) and `SwapIn`
(`swapcontext`); `yield` is `YieldMark` and `SwapOut`; `reset` is `ResetCheck` and `ResetStore`; the end of `MainFunc` is `MainFuncTerm`,
`YieldMark`, which finds `TERM`, and `SwapOutLast`. Other threads may step in between, and in `FiberUser` they do: two threads that hold one
fiber may both pass the assertion of `resume`, one may find in `yield` that the other has stored `READY`, and `makecontext` may write to a stack
that is in use. Each has its `fault`. `Scheduler` takes `ResumeEnter` and `MainFuncEnd`, which join the first two of these steps: there
a task is with one thread at a time (`TaskConserved`), and the only other code that reads its `m_state` is the scan,
which skips what is `RUNNING` and finds nothing to read while the task is not in the queue. `m_ctx[f]` is not the register
contents but what matters of them: `"entry"` (made by `makecontext`), `"saved"` (stored by a swap),
`"live"` (the stack is being executed and nothing valid is stored). `exec[t]` is the fiber on whose
stack thread `t` really is, to compare with what the thread-locals say. A failed assertion, or
behaviour the language leaves undefined, sets `fault`, and nothing happens afterwards. `m_stack` of a main fiber is
never written, so its destructor has both outcomes. `swapcontext`, `makecontext` and `shared_ptr`
are external and modelled by what the code relies on. Fiber ids, the fiber count and failures of
`getcontext` are left out.

`FiberUser` counts in `own` the pointers that calls of `MainFunc` keep to a fiber (a `reset()` in the middle of a callback leaves one behind),
and in `overlapped` the fibers on which a second `resume()` or `reset()` has passed its assertion while another was between its assertion
and its store. Of those nothing more is claimed than that one thread at most executes them.

### Scheduler

One action per locked region or unlocked step of `run()`:
`RunInit`, `PickTask` (the whole locked scan), `RunFiber`/`RunCallback`, `TaskSwapIn`, the body, `TaskSwapOut`,
`TaskDone` (the counter goes down outside the lock), `EnterIdle`, `LeaveIdle`, `ExitWorker`;
`RootReturn`, `RootSwapOut` for the caller's thread, where `run()` is itself a fiber. `stop()` is `Stop`, `StopResume`,
`StopSwapIn`, then `run()` on the caller, then `Join`. The base class' `tickle()` is empty and does not appear.

The code of a task is reduced to what it can do to the scheduler: schedule a new task or wake a
suspended one, schedule itself and yield, hand itself to someone who will wake it (`parked`) and
yield, or return. Between arranging to be woken and yielding (`pc = "leaving"`) it may be woken already.
The idle fiber belongs to one thread, so its switches are single steps and only its state is kept.

Assumed of the program: a `Fiber` is scheduled by one party at a time (it is in the queue once),
the resumer keeps its pointer to a fiber during `resume()`, tasks are pinned only to threads that run, `stop()` is called by the owner, and suspended fibers are woken
by tasks or by the owner before `stop()`; wake-ups from inside `idle()` belong to `IOManager`.

### TaskPool and the refinement

`TaskPool` has no threads, fibers or counters. A task is handed in (`Submit`), taken by one runner (`Take`), let go of (`Release`, it has
yielded) or ended (`Finish`); after `Close` the pool is over (`Complete`) only when nothing waits and nothing runs, and nothing happens
afterwards. A running task may be handed in again, but is not taken before it is let go. `Discard` is the fate of a queue that no thread
serves (`stop()` without `start()` and without `use_caller`). `Scheduler!ImplementsTaskPool` maps `waiting` to the number of entries of a
task in `m_tasks`, `running` to the tasks in the hands of a thread from the pick to the decrement of `m_activeThreadCount`, `finished` to the
fibers that are `TERM`, and `phase` to the place of the owner: each step of the detailed specification is one step of the pool or none.
`Hook!ImplementsTaskPool` maps the tasks of an `IOManager`, callbacks of timers and events included, to the same pool.

### Timer

`m_timers` is a set of pairs (key at insertion, timer), so that changing `m_next` in place would
be seen as what it is: an element the ordered set no longer finds. `find` looks up the present `m_next`. A dispatcher is the
part of a thread in `idle()` that waits for timers: `GetNextTimer`, sleep, `WakeUp` (the clock is read here),
`ListExpired` or `ListNothing` under the lock, then `RunCb` for each callback without it.
The announcement is decided under the lock (`notify`) and made after it (`OnTimerInsertedAtFront`).
`Hour` is the threshold of `detectClockRollover`. `lower_bound` on the temporary
timer is modelled with an arbitrary address. The early test in `reset()` outside the lock is merged with its region. `FromBound` is what lies at or after that bound in the order of the
set; `Expired` is what lies before it and what the loop steps over, which stops at the first timer of another time.
`addConditionTimer` wraps the callback in a weak-pointer test and is in `Hook`, with its users.
`Tick` assumes that no thread is held up for `Hour` between reading the clock and taking the lock.

### FdManager

`get` is `GetRead` (the read lock) and `GetCreate` (the write lock, with `FdCtx::init` and the growth of the table);
another thread may step in between, and between `get` and what the hook does with its result. `kind` and `o_nonblock` are the
kernel's view of a descriptor, `m_datas` and `size` the table. Only the thread whose `get` built a context and
the table refer to it, so a context is a value, and `shared` tells whose is still the table's. `m_isClosed` is never set
and `m_sysNoBlock` always equals `m_isSocket`. A setter and the system call after it are one step: no other thread ever reads the
context in between, since its own `get` gives it another. For a descriptor beyond the table `get(fd, true)` reads past the end:
the model goes on as if it found null, or stops with `fault`. `fcntl` and `ioctl` look into the table on every
thread, the others only where `t_hook_enable` is set; `connect` refuses a descriptor that `get` does not find (`EBADF`), where `do_io` makes the
plain call; `accept` (after `do_io` on the listening socket, which is a call like any other)
registers on every thread. `cancalAll` in `close` belongs to `IOManager`. The history variable `cleared` has
the descriptors the program has made blocking since they were last registered. `WaitUntimed` is what module `Hook` takes
from here: `do_io` never finds a timeout.

Assumed of the program: a descriptor is not used before the call that opens it has returned, nor closed while
another call on it is under way.

### IOManager and Hook

The scheduler is taken at the level its own module justifies: a task is in the hands of a thread or not (`task`), `Held` stands for
`m_activeThreadCount`, and a fiber that has not yielded is skipped by the scan. The idle fiber is the walk through `pc` from `"timers"` on:
`Stopping` in its three separate reads (the timer set under the timers' lock, the atomic count, the queue under the scheduler's), `Wait`
(`epoll_wait` returns and `listExpiredCb` collects any of the timers: when one is due is left open) and `ScheduleCb` for each
callback. The loop over the ready descriptors runs to the outer `rt`, which is 0, so that its body does not appear. A timer stands for its
callback, and a callback is named by its kind and its call: `wake` (of `sleep`), `timeout` (of `connect`), `event` (given to `addEvent`).

A task's code is in steps: `at` is its place. `addEvent` is `AddCheck`, `AddCtl` (`epoll_ctl` and the count), `AddSet` (`events |= event`, a
race: the value read may be older), `AddFill` (the scheduler) and `AddStore` (the function or the fiber), without a lock; `cancelEvent`, `cancalAll` and `delEvent` hold the context's mutex over
`CancelCtl`, `Trigger` (the event is cleared and the waiter scheduled, through the scheduler of the context, and dropped by
`scheduleNoLock` when it is not there yet), `Reset` (the context and the count) or `DelDrop`. `epoll_ctl` fails
where the kernel's rules say so, and in `AddFailed` for want of memory. `left` has the events a cancellation has still to trigger. A timeout's
callback is `TimeoutCb` (the weak pointer), `TimeoutMark` and a cancellation. A failed assertion or a null pointer sets `fault`, and
nothing happens afterwards. `past` is history: `"late"`, a thread whose idle fiber had ended took a task; `"overtaken"`, a call ended while its timeout's
callback was past the weak pointer. They name the circumstances that `StopLeavesNothing`, `TimedWaitEnds` and `WokenByTimeout` except. `early` and `roused` are
history too: `early` has the tasks whose timeout found their event not registered yet, or whose event a cancellation found without a fiber to
schedule, and only these, so that a wake-up lost in any other way violates `TimedWaitEnds`; `roused` has the tasks whose wait another task has
cancelled in this very call.

Assumed of the program: tasks are scheduled once by the owner, before `stop()`; a call on a descriptor begins when no other task is in one on it
(with `Duplex`: in the same direction), but a waiting task's wait may be cancelled (`cancelEvent` of `READ` or of `WRITE`) and its descriptor closed by another; the program's own
`addEvent` and `delEvent` are of `READ`, the code for `WRITE` being the same; hooks are enabled on every thread; descriptors lie within the table of the constructor.

## 3. The runs

| Run | Instance | Distinct states | Shows |
|---|---|---|---|
| `fiber_user` | 2 threads, 3 fibers (one of them needs a scheduler), 2 resets | 937 k | `CurrentFiber`, `ContextSaved`, `NoDestroyInUse` |
| `scheduler_caller` | caller + 1 worker, 2 fibers, 1 function | 648 k | `CountersExact`, `QuiescentExit`, `TaskConserved`, `StopDrains`, `NoResumeError`, `CurrentTask`; it implements `TaskPool` |
| `scheduler_pool` | 2 workers, idle caller, 1 fiber, 1 function, fair | 61 k | the same questions without `use_caller`, where `stop()` may come before `start()`; `StopReturns`, `QueuedRuns` |
| `timer_forward` | 2 dispatchers, 2 timers, delays 0 and 1, clock to 1 | 763 k | `ArmedIffStored`, `TimerConserved`, `ExpiredExact`, `NoOversleep`, `NeverEarly` |
| `timer_setback` | 1 dispatcher, 2 timers, delay 1, clock to 2, one set-back, fair | 223 k | `ArmedIffStored`, `TimerConserved`, `DueTimerFires` |
| `fd_manager` | a thread with hooks and one without, 2 descriptors beyond a table of 2 | 1.7 M | `InBounds`, `HookedCallNonBlocking`, `ContextCurrent` |
| `io_manager` | caller + 1 worker, 1 descriptor; a task that connects, sleeps, reads, watches and one that cancels `READ` or `WRITE`, deletes, closes; 2 calls each | 921 k | `PendingExact`, `StopLeavesNothing`, `WokenByTimeout`; it implements `TaskPool` |
| `io_live` | the same threads; `connect`, `sleep` against `close`; 2 calls each, fair | 118 k | `TimedWaitEnds`, `StopReturns` |
| `scheduler_stack`, `io_ready`, `io_stop`, `io_context` | the smallest instance | | a property the code or its documentation states and the code violates (section 5) |

Bounds. Two threads are enough for every race over one fiber or one queue entry, since a fiber is in
at most two hands; `scheduler_pool` adds a third thread, the owner. Two tasks beside the one that
runs exercise skipping, erasing and pinning in the scan. A task may re-schedule itself any number of times: nothing bounds
a behaviour of the scheduler's model. Two timers give the order in the set, ties included (delay 0 and equal times);
a clock to 1 lets two dispatchers read it in one order and take the lock in the other, with timers past, due and not yet due;
a clock to 2 with `Hour = 1` lets it be set back by the threshold and by more. `MaxNotify = 1` lets one
announcement be under way; `MaxResets` bounds `reset()` of fibers, `MaxSetBacks` the clock.
Descriptors 2 and 3 with a table of 2 let it grow by either first and by the other later, and let a descriptor
be opened beyond the table and come inside it through another's growth; one timeout option is enough where nothing depends on which.
In `io_manager` two threads are the ones a race over one descriptor needs, one in a call or a cancellation and one with a timer's callback; two calls let
a callback of the first outlive it into the second, and let a cancelled reader retry and register again; all descriptors but one would add only
to `m_pendingEventCount`. In `io_live` two calls are what it takes for a wait to begin on a thread whose idle fiber has ended (`io_stop`), and for a timeout to meet the wait of
the call after its own.
The dispatchers are interchangeable; the symmetry is used only where no liveness is checked.
Deadlock is checked except for timers, where all dispatchers may sleep for good when no timer is left. In `Hook` the idle threads poll, and the end
of a behaviour (`stop()` has returned, or a fault) stutters.

Fairness. `FairSpec` of the scheduler: every thread keeps running (weak fairness of its step; `run()` never
blocks, its idle loop spins), `stop()` goes on, and a task that gets to run again and
again ends some time (strong fairness of its return). The last is needed: a task that re-schedules itself for
ever keeps `stop()` from returning, by design. `QueuedRuns` speaks of tasks that a worker may run: those bound to
the caller wait for `stop()`. `FairSpec` of the timers: the dispatchers run, a decided announcement is
made, time passes up to `MaxClock`. `FairSpec` of `Hook`: every thread keeps running (its waits end by themselves), `stop()` goes on, and
a timer that is looked at again and again is due some time: strong fairness of its collection, since each pass through `idle()` looks at it once.
Nothing is assumed of the network or of `epoll_ctl`. `TimedWaitEnds` and `StopReturns` except what the code leaves waiting for good: a
wait for input, which no event ends (`io_ready`), a `connect` whose timeout expired before its event was registered with its fiber (`early`), and, of
`TimedWaitEnds`, a `stop()` that has returned over a task taken late (`io_stop`). In the last case nothing wakes the task, because its thread has gone;
in every other one it wakes.

Every property of a passing run has a mutant in `PROJECT.json`, a plausible error in the code under which TLC finds the property violated.

## 4. The proofs

Every safety invariant and action property that a passing run checks is proved of `Spec` by TLAPS, and so are the refinement of `TaskPool`
by `Scheduler` and `WaitUntimed`, which no run checks: for every set of threads, fibers, tasks, timers, delays and descriptors (finite where the code counts them), and for
every behaviour, however long. Each module has one inductive invariant, a lemma per action that it is kept, and theorems that read the
properties off it. TLC checked each invariant on the instance of the run before it was proved.

| Module | Invariant | Theorems | Assumptions |
|---|---|---|---|
| `SchedulerProofs` | `Structure` | `TypeCorrect`, `CountersCorrect`, `CurrentTaskCorrect`, `QuiescentExitCorrect` | `FiberAssumption`, `SchedulerAssumption` |
| `SchedulerTaskProofs` | `TaskInv` | `NoResumeErrorCorrect`, `TaskConservedCorrect`, `StopDrainsCorrect`, `TaskPoolCorrect` | the same |
| `FiberUserProofs` (with `FiberProofs`) | `UserInv` | `UserTypeCorrect`, `CurrentFiberCorrect`, `ContextSavedCorrect`, `NoDestroyInUseCorrect` | `FiberAssumption`, `MaxResetsAssumption` |
| `TimerProofs` | `TimerInv` | `TimerTypeCorrect`, `ArmedIffStoredCorrect`, `TimerConservedCorrect`, `ExpiredExactCorrect`, `NoOversleepCorrect`, `NeverEarlyCorrect` | `TimerAssumption` |
| `FdManagerProofs` | `FdInv` | `FdTypeCorrect`, `InBoundsCorrect`, `HookedCallCorrect`, `ContextCurrentCorrect`, `WaitUntimedCorrect` | `FdAssumption` |
| `HookProofs` | `HookInv` | `HookTypeCorrect`, `PendingExactCorrect`, `WokenByTimeoutCorrect`, `StopLeavesNothingCorrect` | `IOAssumption`, `HookAssumption`, and `~Duplex` |

The assumptions are evaluated by TLC in every run. They say that threads, fibers, callbacks and `nullptr` are different things; that there are
finitely many threads, one of them the caller; that the root fiber is the only one built with `run_in_scheduler = false`; the constructor's
`assert(threads > 0)`; that the first table of descriptors has at least two entries (the constructor gives it 64); that there is a
longest delay and a thread that waits for timers; in `IOAssumption`, that descriptors and tasks are finitely many.

### Scheduler

None of the properties is inductive. `TypeOK` needs exact counters (else `- 1` may leave the naturals)
and needs to know that `yield` returns to a fiber rather than to `nullptr`; that needs the links between a thread's
place in the program and its thread-locals. `Structure` is their conjunction with `MainLinks` (what the owner does and where the
caller's thread is) and `ThreadLinks` (for each place in `run()`: what `exec`, `t_fiber`, `t_thread_fiber`,
`t_scheduler_fiber`, `task` are). `StructureStep` goes through the actions one by one; counting rests on `CountMove`
(a thread that enters or leaves a set of places changes its cardinality by one). For `QuiescentExit`,
`StoppingIsQuiet` turns a zero counter into an empty set of active threads, `QuietStep` shows that nothing can add
work in a quiet state, since only running tasks and the owner before `stop()` call `schedule`, and `IdleEndsQuiet`
that an idle fiber ends only there.

`SchedulerTaskProofs` adds the tasks. `Place(f)` says, for every place a task can be in (the queue, the hands of a thread, parked, ended),
which state its fiber is in; the one overlap is a task that has put itself back, or has been woken, before it has yielded, and it is `RUNNING` until
then. That is why the scan's skip of `RUNNING` fibers is enough for `resume()`'s assertion (`NoResumeError`), and why the two halves of `TaskConserved`
are kept by `PickTask`, which erases one element of the queue (`RemoveAtElements` says where the others are afterwards).
`Ends` relates the place of `stop()` to that of the threads; with `QuiescentExit` it gives `StopDrains`.
`TaskPoolCorrect` is the refinement: `Waiting`, `Running`, `Finished`, `Phase` are the mapping, and for each action one lemma shows
which step of the pool it is, or that it is none. `TaskPool` has no fairness, so the theorem is the whole of the run's property.

The fault `scheduler_stack` exhibits (section 5) ends a behaviour, and the invariants speak of the states before it.

### FiberUser

A fiber may be held by several threads and nothing locks it, so the invariant has to say what is left when two of them are in `resume()` at
once. `UserLinks`: the place of a thread determines its stack and thread-locals, which no other thread can touch. `ContextSaved`: it is `m_ctx`, stored by the
swaps alone, that keeps two threads off one stack, and not `m_state`; so this much, and with it `CurrentFiber`, survives any race up to the first fault.
`Truthful`: for a fiber without an overlap one thread at a time is about it, and `m_state` is what that thread has stored or tested.
`Pointers` counts what `MainFunc` holds, for `NoDestroyInUse`; `Handles` says that who holds a pointer holds one to a fiber that exists.
`FiberProofs` has the lemmas on the operations of the class that keep the types of its state.

### Timer

`Stored` is `ArmedIffStored` with the timers under construction; `Lives` says where a timer can be, from which `TimerConserved` follows; `Monotone`
bounds what was read of the clock, which may be old when the lock is taken, and gives `NeverEarly`. `NoOversleep` needs `Punctual`: while
`m_tickled` holds an announcement back, one is on its way or a dispatcher is awake and will look (`Aware`); otherwise some dispatcher's wait ends
no later than the first timer is due (`OnTime`). That a non-empty set of timers has a first one, of which `begin()` is the model, is
proved from the well-foundedness of the naturals (`LeastNat`, `FirstIsLeast`). `ExpiredExact` needs `Stored`: the search and the early return look at the keys
of the set, the property speaks of the present `m_next` of the armed timers.

### FdManager

`Calls` and `Exclusive` say what a thread's place tells of its call and that a descriptor being opened or closed is in nobody else's call;
`InHand` that a context in hand lies within the table and has no timeout, whoever has grown or changed the table since; `Agrees` that
the kernel's flag is set for a socket in a call, unless the program has cleared it. `GrowToFits` is the arithmetic of `resize(fd * 1.5)`.

### IOManager and Hook

`addEvent()` takes no lock, so that its correctness rests on the rest of the system, and `HookInv` says what that is. `Alone`: two
fibers in calls about one descriptor are one that waits and one that cancels or closes. `Locking` and `Registrations`: what a cancellation in progress, and a
registration between its steps, still find as they left it. `Context` says who is in a context: a fiber that waits for the event, though its registration may have
been cancelled before it was stored, unless the context has been triggered and not reset yet. `Queue`,
`Contexts`, `Sleeps`, `Output`: a fiber is once in the queue, and a fiber that waits is in one place only: a context, a timer's callback, or the queue. `Issued`, `Expiring`,
`Awake`: which call the callback of a timeout belongs to, however late it runs, and why a `connect()` that was woken may go on (`Excused`); `Awake` implies `WokenByTimeout`.
`PendingExact` counts two sets at once, the registered events and the tasks between the count and the event; `ChangingMore`, `RegisteredLess` and their
like say how one step moves the cardinalities, and that is also why the count cannot pass below zero.
`Loops` and `Attended` are for `stop()`: as long as a timer is armed or an event registered, some thread whose idle fiber has not ended is at a
place from which it will read that part again, `"timers"` before `"pending"` before the queue; so the last thread to leave has found all three empty.

The parts under `Safe` are stated up to the first fault: after `triggerEvent()` has called through a null pointer (`io_context`) there is nothing to say. `~Duplex`
(a descriptor is used in one direction at a time) is needed: with both, `events |= event` may bring back an event that was cleared, the count then goes below the number of
events, and `PendingExact` is false.

### Only model-checked

* Liveness, which is outside what the prover handles: `StopReturns`, `QueuedRuns`, `DueTimerFires`, `TimedWaitEnds`.
* `Hook!ImplementsTaskPool`: section 6.
* The properties of the violation runs, which are false.

## 5. Where the code differs from what it says

* `scheduler_stack` - `yield()` stores `READY` before the context is saved; the skip of `RUNNING` fibers in `run()`
  does not cover that moment and two threads may execute on one stack. All other properties
  are stated up to that fault, which ends a behaviour in the model.
* `io_ready` - the event loop reads an `rt` that stays 0: what waits for an event is scheduled only by a timeout, a cancellation or `close()`.
* `io_stop` - `stop()` may return with a timer armed and a fiber asleep. A thread collects callbacks, which are then in neither the timer set nor
  the queue, and the other one's `stopping()` is true: its idle fiber ends. It still takes tasks, the woken fiber among them, which sleeps again; then
  it leaves, and the first thread, which had read the timers before, leaves too. `StopLeavesNothing` holds as long as no such thread has
  taken a task.
* `io_context` - `addEvent()` does not take the mutex of the `FdContext`. A timeout that expires between `events |= event` and the
  store of the scheduler makes `triggerEvent()` call through a null pointer. `FdContextAtomic` fails in two more ways: `triggerEvent()` schedules
  the fiber before it resets the context, and a fiber that registers again at once on another thread fails the assertion at `IOManager.cpp:151`; and with
  two tasks on the two directions of a descriptor `events |= event` may bring back an event just cleared.

Found while modelling, without a run of its own:

* `m_stack` of a main fiber is never initialized, and the destructor branches on it (`Fiber.cpp:103`); `Fiber!DestroyMain` has both outcomes.
* `refresh()` may bring a timer to the front and tells nobody, although `Timer.h:90` says that the announcement is made whenever a timer is
  inserted at the front (`Timer.cpp:47`). `NoOversleep` and `DueTimerFires` hold until that has happened (`hastened`); the waits of
  `IOManager` end after 5 ms in any case.
* `m_previouseTime` may be too old to notice a set-back of the clock, although `Timer.cpp:176` says that all timers are then run; they
  fire when the clock has caught up.
* `get()` replaces the context of a descriptor each time it is called (`FdManager.cpp:112`), so what the user has set is lost and `do_io` never finds a
  timeout: theorem `WaitUntimedCorrect`. The code contradicts what is said of it: the repository's README (lines 611-614) and the comments
  at `Hook.cpp:103` and `122` say that a valid timeout gives the call a timer and ends its wait with -1, and those at `FdManager.cpp:98` and `105` that an
  existing context, with the timeout in it, is returned and a new one made only where there is none. `WaitUntimed` is what the code does and not what it should do, so it is no property of a run; it is what module
  `Hook` relies on when it gives `read` no timer. The same replacement is what
  makes `ContextCurrent` hold: a thread without hooks closes a descriptor and leaves its entry behind, and with `get()` as its comments
  describe it (the mutant `MutGetCreateExisting`) the next descriptor of that number would inherit it.
* `resume()` tests `m_state` at `Fiber.cpp:144` and stores it at `:146`, so two threads that hold one fiber both pass: one may then execute a
  fiber that is `READY`, and its `yield()` fails the assertion at `Fiber.cpp:169`. `ContextSaved` states what is left of it.
* A cancellation between the stores of the scheduler and of the fiber in `addEvent()` (`IOManager.cpp:152-160`) schedules a null task, which
  `scheduleNoLock` drops, and clears the event: the fiber then waits for nothing. `TimedWaitEnds` excepts it (`early`).
* `cancelEvent(fd, WRITE)` by another task wakes a `connect` that is still connecting, which returns 0 as if it were connected
  (`IOManager.cpp:203`, `Hook.cpp:264-273`). `WokenByTimeout` allows it when it names the event of this very call (`roused`).
* A timeout that expires before its event is registered finds nothing to cancel, and the call waits without a timeout (`Hook.cpp:237`); `TimedWaitEnds`
  excepts it (`early`).
* A timeout's callback that has passed the weak pointer when its call ends (`addEvent()` failed) may cancel the wait of the next
  `connect` on that descriptor, which then returns 0 while still connecting (`Hook.cpp:244`); `WokenByTimeout` excepts it.
* A `connect` whose `addEvent()` fails returns 0 while the connection is being made (`Hook.cpp:259`).
* A reader that `close()` has woken may retry before the descriptor is closed and register again; it is then stranded, with its event (`Hook.cpp:346`).
* `contextResize(fd + fd > 1)` makes the table of events one long (`IOManager.cpp:126`): undefined from the first descriptor beyond 31.
* `tickle()` fills a blocking pipe that nobody reads (`IOManager.cpp:300`), and `epoll_wait` is given seconds for milliseconds (`IOManager.cpp:355`).
* `t_hook_enable` is false and nothing in the repository sets it, and it is thread-local while fibers move (`Hook.cpp:8`).

Smaller ones found by reading: `reset(ms, false)` of a timer subtracts the new delay and adds it again, so the due time does not
change (`Timer.cpp:62`); `schedule()` never looks at `m_stopping`, although the repository's README (line 200) says that no task may be
added after `stop()`; the repository's README (line 112) allows `reset()` of a fiber that has not started, the
assertion in `Fiber::reset` (`Fiber.cpp:124`) does not; and after a task has yielded on the caller's thread `t_fiber` is the thread's
main fiber while the root fiber runs (`Fiber.cpp:170`), although it is described as the running fiber.

## 6. Plan

1. Done: `Fiber`, `FiberUser`, `Scheduler`, `Timer`, `FdManager`, `IOManager`, `Hook`, `TaskPool` and its refinement by
   `Scheduler` and `Hook`, with their runs; the proofs of section 4.
2. To come: the proof that `Hook` implements `TaskPool`. Beyond `HookInv` it needs that a callback is in one place only (the timer set, a
   thread's hands, a context, the queue or a task), as `Queue` says of fibers, and that a callback that has ended is in none.

## 7. Not modelled

* The body of the event loop in `IOManager::idle()` (`IOManager.cpp:376-435`): no execution reaches it.
* `tickle()`, the pipe and `onTimerInsertedAtFront()` of `IOManager`: nobody reads the pipe, and every wait ends by itself.
* Recurring timers and a clock in `Hook`: they are in `Timer`; here any timer may be due at any moment.
* The pass-through hooks, which all reduce to `do_io`, and the loading of the original functions.
* `Singleton` (a function-local static) and the examples, which are read for how the classes are used.
