------------------------------- MODULE Fiber -------------------------------
(***************************************************************************)
(* The class Fiber (Fiber.h, Fiber.cpp): asymmetric coroutines on top of   *)
(* ucontext.  A fiber is resumed by the scheduling fiber of a thread (or by *)
(* the thread's main fiber) and yields back to it.                         *)
(*                                                                         *)
(* This module holds the state of the class and its operations as action   *)
(* operators.  Two closed systems are built from it: FiberUser (a program   *)
(* that drives fibers by hand) and Scheduler (the M:N scheduler).          *)
(*                                                                         *)
(* resume(), yield() and reset() are not atomic: each tests m_state, stores *)
(* it and t_fiber, and calls swapcontext or makecontext, and nothing locks  *)
(* the fiber in between.  Each is therefore several operators.              *)
(***************************************************************************)

CONSTANTS
    Threads,   \* OS threads; the main fiber of thread t is named t itself
    Fibers,    \* fibers built with a callback and a stack of their own
    Detached,  \* those built with run_in_scheduler = false
    Null       \* nullptr

ASSUME FiberAssumption ==
    /\ Detached \subseteq Fibers
    /\ Threads \cap Fibers = {}
    /\ Null \notin Threads \cup Fibers

VARIABLES
    m_state,           \* Fiber::m_state; "none": not constructed, or destroyed
    m_ctx,             \* Fiber::m_ctx: "entry" as makecontext left it, "saved" by
                       \* a swapcontext, "live" while its stack is being executed,
                       \* "over" when left by the yield() at the end of MainFunc
    exec,              \* the fiber whose stack each thread executes on
    t_fiber,           \* thread_local t_fiber
    t_thread_fiber,    \* thread_local t_thread_fiber
    t_scheduler_fiber, \* thread_local t_scheduler_fiber (Scheduler.cpp)
    fault              \* the failed MYASSERT or undefined behaviour, if any

fiberVars == <<m_state, m_ctx, exec, t_fiber, t_thread_fiber,
               t_scheduler_fiber, fault>>

FiberState == {"none", "READY", "RUNNING", "TERM"}
Context    == {"none", "entry", "saved", "live", "over"}

\* The process aborts on a failed assertion, and nothing is known of it after
\* undefined behaviour: no action is taken once fault is not NoFault.
NoFault == "none"
Faults  == {"resume_error", "yield_error", "reset_error", "stack_shared",
            "null_context", "finished_resumed", "destroyed_before_TERM",
            "m_threads_not_empty"}

FiberTypeOK ==
    /\ m_state \in [Fibers -> FiberState]
    /\ m_ctx \in [Fibers -> Context]
    /\ exec \in [Threads -> Threads \cup Fibers]
    /\ t_fiber \in [Threads -> Threads \cup Fibers \cup {Null}]
    /\ t_thread_fiber \in [Threads -> Threads \cup {Null}]
    /\ t_scheduler_fiber \in [Threads -> Threads \cup Fibers \cup {Null}]
    /\ fault \in Faults \cup {NoFault}

-----------------------------------------------------------------------------
\* The context that resume saves and yield returns to: the scheduling fiber of
\* the thread, or its main fiber for a fiber that is not scheduled.
Back(t, f) == IF f \in Detached THEN t_thread_fiber[t] ELSE t_scheduler_fiber[t]

\* swapcontext(&from->m_ctx, &to->m_ctx).  Contexts of main fibers are not kept:
\* a main fiber is only ever entered by its own thread.
Switch(from, to) ==
    m_ctx' = [f \in Fibers |-> CASE f = to   -> "live"
                                 [] f = from -> "saved"
                                 [] OTHER    -> m_ctx[f]]

\* Fiber(cb, stacksize, run_in_scheduler)
Construct(f) ==
    /\ m_state[f] = "none"
    /\ m_state' = [m_state EXCEPT ![f] = "READY"]
    /\ m_ctx' = [m_ctx EXCEPT ![f] = "entry"]

\* GetThis() creates the main fiber of a thread that has no current fiber.
GetThis(t) ==
    /\ t_fiber' = [t_fiber EXCEPT ![t] = IF @ = Null THEN t ELSE @]
    /\ t_thread_fiber' =
          [t_thread_fiber EXCEPT ![t] = IF t_fiber[t] = Null THEN t ELSE @]

\* reset(cb): only a finished fiber may be reset.
ResetCheck(f) ==
    /\ fault' = IF m_state[f] = "TERM" THEN fault ELSE "reset_error"
    /\ UNCHANGED <<m_state, m_ctx, exec, t_fiber, t_thread_fiber, t_scheduler_fiber>>

\* The rest of reset(): makecontext writes to the stack, which some thread may be
\* executing on: one that has stored TERM and not yet left it, or one that has
\* resumed the fiber since the assertion.
ResetStore(f) ==
    /\ \/ /\ m_ctx[f] # "live"
          /\ m_state' = [m_state EXCEPT ![f] = "READY"]
          /\ m_ctx' = [m_ctx EXCEPT ![f] = "entry"]
          /\ UNCHANGED fault
       \/ /\ m_ctx[f] = "live"
          /\ fault' = "stack_shared"
          /\ UNCHANGED <<m_state, m_ctx>>
    /\ UNCHANGED <<exec, t_fiber, t_thread_fiber, t_scheduler_fiber>>

\* resume(): the assertion.
ResumeCheck(f) ==
    /\ fault' = IF m_state[f] = "READY" THEN fault ELSE "resume_error"
    /\ UNCHANGED <<m_state, m_ctx, exec, t_fiber, t_thread_fiber, t_scheduler_fiber>>

\* Mutants of ResumeMark: without SetThis(this); without m_state = RUNNING.
MutResumeMarkNoSetThis(t, f) ==
    /\ m_state' = [m_state EXCEPT ![f] = "RUNNING"]
    /\ UNCHANGED <<m_ctx, exec, t_fiber, t_thread_fiber, t_scheduler_fiber, fault>>
MutResumeMarkNoState(t, f) ==
    /\ t_fiber' = [t_fiber EXCEPT ![t] = f]
    /\ UNCHANGED <<m_state, m_ctx, exec, t_thread_fiber, t_scheduler_fiber, fault>>

\* resume(): SetThis and m_state = RUNNING, whatever the state is by now.
ResumeMark(t, f) ==
    /\ t_fiber' = [t_fiber EXCEPT ![t] = f]
    /\ m_state' = [m_state EXCEPT ![f] = "RUNNING"]
    /\ UNCHANGED <<m_ctx, exec, t_thread_fiber, t_scheduler_fiber, fault>>

\* Mutant of ResumeEnter: without SetThis(this).
MutResumeEnterNoSetThis(t, f) ==
    /\ m_state[f] = "READY"
    /\ m_state' = [m_state EXCEPT ![f] = "RUNNING"]
    /\ UNCHANGED <<m_ctx, exec, t_fiber, t_thread_fiber, t_scheduler_fiber, fault>>

\* Both at once, for Scheduler: a task is with one thread (TaskConserved), and no
\* other stores its m_state between the assertion and the store.
ResumeEnter(t, f) ==
    /\ \/ /\ m_state[f] = "READY"
          /\ t_fiber' = [t_fiber EXCEPT ![t] = f]
          /\ m_state' = [m_state EXCEPT ![f] = "RUNNING"]
          /\ UNCHANGED fault
       \/ /\ m_state[f] # "READY"
          /\ fault' = "resume_error"
          /\ UNCHANGED <<m_state, t_fiber>>
    /\ UNCHANGED <<m_ctx, exec, t_thread_fiber, t_scheduler_fiber>>

\* Second half of resume(): swapcontext(&back->m_ctx, &m_ctx).  If another
\* thread still executes on the stack of f, its context has not been saved and
\* two threads run on one stack from here on.  Entered once more after its last
\* yield(), MainFunc returns, and with it the thread or the process (uc_link is
\* nullptr).
SwapIn(t, f) ==
    /\ \/ /\ Back(t, f) # Null
          /\ m_ctx[f] \notin {"live", "over"}
          /\ exec' = [exec EXCEPT ![t] = f]
          /\ Switch(Back(t, f), f)
          /\ UNCHANGED fault
       \/ /\ Back(t, f) = Null
          /\ fault' = "null_context"
          /\ UNCHANGED <<exec, m_ctx>>
       \/ /\ Back(t, f) # Null
          /\ m_ctx[f] \in {"live", "over"}
          /\ fault' = IF m_ctx[f] = "live" THEN "stack_shared" ELSE "finished_resumed"
          /\ UNCHANGED <<exec, m_ctx>>
    /\ UNCHANGED <<m_state, t_fiber, t_thread_fiber, t_scheduler_fiber>>

\* First half of yield() called by the fiber f that runs on t.
YieldMark(t, f) ==
    /\ \/ /\ m_state[f] \in {"RUNNING", "TERM"}
          /\ t_fiber' = [t_fiber EXCEPT ![t] = t_thread_fiber[t]]
          /\ m_state' = [m_state EXCEPT ![f] = IF @ = "TERM" THEN @ ELSE "READY"]
          /\ UNCHANGED fault
       \/ /\ m_state[f] \notin {"RUNNING", "TERM"}
          /\ fault' = "yield_error"
          /\ UNCHANGED <<m_state, t_fiber>>
    /\ UNCHANGED <<m_ctx, exec, t_thread_fiber, t_scheduler_fiber>>

\* Mutant of SwapOut: every fiber returns to the scheduling fiber.
MutSwapOutAlwaysScheduler(t, f) ==
    /\ exec' = [exec EXCEPT ![t] = t_scheduler_fiber[t]]
    /\ Switch(f, t_scheduler_fiber[t])
    /\ UNCHANGED <<m_state, t_fiber, t_thread_fiber, t_scheduler_fiber, fault>>

\* Second half of yield(): swapcontext(&m_ctx, &back->m_ctx).
SwapOut(t, f) ==
    /\ exec' = [exec EXCEPT ![t] = Back(t, f)]
    /\ Switch(f, Back(t, f))
    /\ UNCHANGED <<m_state, t_fiber, t_thread_fiber, t_scheduler_fiber, fault>>

\* The end of MainFunc: the callback has returned, m_state = TERM.
MainFuncTerm(f) ==
    /\ m_state' = [m_state EXCEPT ![f] = "TERM"]
    /\ UNCHANGED <<m_ctx, exec, t_fiber, t_thread_fiber, t_scheduler_fiber, fault>>

\* The swapcontext of the yield() that ends MainFunc.
SwapOutLast(t, f) ==
    /\ exec' = [exec EXCEPT ![t] = Back(t, f)]
    /\ m_ctx' = [m_ctx EXCEPT ![f] = "over"]
    /\ UNCHANGED <<m_state, t_fiber, t_thread_fiber, t_scheduler_fiber, fault>>

\* For Scheduler, where nobody resumes a fiber while it is with a thread: TERM and
\* the first half of the final yield at once, which finds TERM and keeps it.
MainFuncEnd(t, f) ==
    /\ t_fiber' = [t_fiber EXCEPT ![t] = t_thread_fiber[t]]
    /\ m_state' = [m_state EXCEPT ![f] = "TERM"]
    /\ UNCHANGED <<m_ctx, exec, t_thread_fiber, t_scheduler_fiber, fault>>

\* ~Fiber() of a fiber with a stack.
Destroy(f) ==
    /\ \/ /\ m_state[f] = "TERM"
          /\ m_state' = [m_state EXCEPT ![f] = "none"]
          /\ m_ctx' = [m_ctx EXCEPT ![f] = "none"]
          /\ UNCHANGED fault
       \/ /\ m_state[f] # "TERM"
          /\ fault' = "destroyed_before_TERM"
          /\ UNCHANGED <<m_state, m_ctx>>
    /\ UNCHANGED <<exec, t_fiber, t_thread_fiber, t_scheduler_fiber>>

\* ~Fiber() of the main fiber of t, run when the thread ends.  The private
\* constructor never writes m_stack, so the test "m_stack != nullptr" reads an
\* indeterminate value: either branch may be taken, and the branch for a fiber
\* with a stack asserts TERM of a fiber that is RUNNING.
DestroyMain(t) ==
    /\ \/ /\ t_fiber' = [t_fiber EXCEPT ![t] = IF @ = t THEN Null ELSE @]
          /\ t_thread_fiber' = [t_thread_fiber EXCEPT ![t] = Null]
          /\ UNCHANGED fault
       \/ /\ fault' = "destroyed_before_TERM"
          /\ UNCHANGED <<t_fiber, t_thread_fiber>>
    /\ UNCHANGED <<m_state, m_ctx, exec, t_scheduler_fiber>>
=============================================================================
