----------------------------- MODULE FiberUser -----------------------------
(***************************************************************************)
(* A program that uses the class Fiber directly, without a Scheduler: the  *)
(* README's recipe "create, reset, resume, yield".  Every thread runs a     *)
(* main program that holds shared pointers to fibers, resumes them and      *)
(* drops them; the body of a fiber yields or returns.  As the README        *)
(* demands, only the main fiber resumes: calls are not nested.  Nothing     *)
(* keeps two threads from resuming or resetting one fiber at a time.        *)
(***************************************************************************)
EXTENDS Fiber, Naturals

CONSTANT MaxResets  \* bound on the number of reset() calls

ASSUME MaxResetsAssumption == MaxResets \in Nat

VARIABLES
    pc,         \* where the program of each thread is
    target,     \* the fiber whose resume() or reset() each thread is in
    held,       \* the fibers each thread holds a shared pointer to
    own,        \* the pointers to each fiber that calls of MainFunc hold
    resets,     \* reset() calls made so far
    overlapped  \* history: fibers on which a resume() or reset() has passed its
                \* assertion while another was between its assertion and its store

progVars == <<pc, target, held, own, resets, overlapped>>
vars     == <<fiberVars, progVars>>

Places == {"main", "resuming", "swapin", "body", "swapout", "returned", "ending",
           "resetting", "exited"}

TypeOK ==
    /\ FiberTypeOK
    /\ pc \in [Threads -> Places]
    /\ target \in [Threads -> Fibers \cup {Null}]
    /\ held \in [Threads -> SUBSET Fibers]
    /\ own \in [Fibers -> Nat]
    /\ resets \in 0..MaxResets
    /\ overlapped \subseteq Fibers

Init ==
    /\ m_state = [f \in Fibers |-> "none"]
    /\ m_ctx = [f \in Fibers |-> "none"]
    /\ exec = [t \in Threads |-> t]
    /\ t_fiber = [t \in Threads |-> Null]
    /\ t_thread_fiber = [t \in Threads |-> Null]
    /\ t_scheduler_fiber = [t \in Threads |-> Null]
    /\ fault = NoFault
    /\ pc = [t \in Threads |-> "main"]
    /\ target = [t \in Threads |-> Null]
    /\ held = [t \in Threads |-> {}]
    /\ own = [f \in Fibers |-> 0]
    /\ resets = 0
    /\ overlapped = {}

Goto(t, from, to) == pc[t] = from /\ pc' = [pc EXCEPT ![t] = to]
-----------------------------------------------------------------------------
\* MainFunc keeps a shared pointer to its own fiber on the fiber's stack until the
\* callback has returned; a reset() of a fiber in the middle of its callback leaves
\* it there for good.
OwnReference(f) == own[f] > 0

\* Mutant of ReferencedBesides: handles given to other threads do not count.
MutReferencedBesidesUncounted(t, f) == OwnReference(f)

\* The fiber is referenced by a handle other than the ones of thread t.
ReferencedBesides(t, f) ==
    OwnReference(f) \/ \E u \in Threads \ {t} : f \in held[u]

UserGetThis(t) ==
    /\ pc[t] = "main" /\ GetThis(t)
    /\ UNCHANGED <<m_state, m_ctx, exec, t_scheduler_fiber, fault, progVars>>

UserNew(t, f) ==
    /\ pc[t] = "main" /\ Construct(f)
    /\ held' = [held EXCEPT ![t] = @ \cup {f}]
    /\ overlapped' = overlapped \ {f}
    /\ UNCHANGED <<exec, t_fiber, t_thread_fiber, t_scheduler_fiber, fault,
                   pc, target, own, resets>>

\* Another thread copies the shared pointer.
UserShare(t, u, f) ==
    /\ pc[t] = "main" /\ f \in held[u] /\ f \notin held[t]
    /\ held' = [held EXCEPT ![t] = @ \cup {f}]
    /\ UNCHANGED <<fiberVars, pc, target, own, resets, overlapped>>

\* Some thread is between the assertion and the store of a resume() or reset() of f.
Between(f) == \E u \in Threads : target[u] = f /\ pc[u] \in {"resuming", "resetting"}

\* Thread t passes the assertion of a resume() or reset() of f.
Enter(t, f, to) ==
    /\ f \in held[t]
    /\ Goto(t, "main", to)
    /\ target' = [target EXCEPT ![t] = f]
    /\ overlapped' = IF Between(f) THEN overlapped \cup {f} ELSE overlapped

Leave(t, from) ==
    /\ Goto(t, from, "main")
    /\ target' = [target EXCEPT ![t] = Null]
    /\ UNCHANGED <<held, resets, overlapped>>

UserReset(t, f) ==
    /\ Enter(t, f, "resetting")
    /\ resets < MaxResets
    /\ ResetCheck(f)
    /\ resets' = resets + 1
    /\ UNCHANGED <<held, own>>

UserResetStore(t) ==
    /\ Leave(t, "resetting")
    /\ ResetStore(target[t])
    /\ UNCHANGED own

UserResume(t, f) ==
    /\ Enter(t, f, "resuming")
    /\ ResumeCheck(f)
    /\ UNCHANGED <<held, own, resets>>

UserResumeMark(t) ==
    /\ Goto(t, "resuming", "swapin")
    /\ ResumeMark(t, target[t])
    /\ UNCHANGED <<target, held, own, resets, overlapped>>

\* A context that makecontext left starts MainFunc, which takes its pointer.
UserSwapIn(t) ==
    /\ Goto(t, "swapin", "body")
    /\ SwapIn(t, target[t])
    /\ own' = [own EXCEPT ![target[t]] =
                  IF m_ctx[target[t]] = "entry" THEN @ + 1 ELSE @]
    /\ UNCHANGED <<target, held, resets, overlapped>>

\* The body calls Fiber::GetThis()->yield().
UserYield(t) ==
    /\ Goto(t, "body", "swapout")
    /\ YieldMark(t, t_fiber[t])
    /\ UNCHANGED <<target, held, own, resets, overlapped>>

UserSwapOut(t) ==
    /\ Leave(t, "swapout")
    /\ SwapOut(t, exec[t])
    /\ UNCHANGED own

\* The callback returns to MainFunc, which stores TERM and drops its pointer.
UserReturn(t) ==
    /\ Goto(t, "body", "returned")
    /\ MainFuncTerm(exec[t])
    /\ own' = [own EXCEPT ![exec[t]] = @ - 1]
    /\ UNCHANGED <<target, held, resets, overlapped>>

\* The yield() at the end of MainFunc.
UserFinalYield(t) ==
    /\ Goto(t, "returned", "ending")
    /\ YieldMark(t, exec[t])
    /\ UNCHANGED <<target, held, own, resets, overlapped>>

UserFinalSwapOut(t) ==
    /\ Leave(t, "ending")
    /\ SwapOutLast(t, exec[t])
    /\ UNCHANGED own

\* The thread drops its shared pointer; the last one destroys the fiber.
UserDrop(t, f) ==
    /\ pc[t] = "main" /\ f \in held[t]
    /\ held' = [held EXCEPT ![t] = @ \ {f}]
    /\ \/ ReferencedBesides(t, f) /\ UNCHANGED fiberVars
       \/ ~ReferencedBesides(t, f) /\ Destroy(f)
    /\ UNCHANGED <<pc, target, own, resets, overlapped>>

\* The thread ends with no handle left; thread_local t_thread_fiber is destroyed.
UserExit(t) ==
    /\ held[t] = {}
    /\ t_thread_fiber[t] = t
    /\ Goto(t, "main", "exited")
    /\ DestroyMain(t)
    /\ UNCHANGED <<target, held, own, resets, overlapped>>

UserStep(t) ==
    \/ UserGetThis(t) \/ UserResetStore(t) \/ UserResumeMark(t) \/ UserSwapIn(t)
    \/ UserYield(t) \/ UserSwapOut(t) \/ UserReturn(t) \/ UserFinalYield(t)
    \/ UserFinalSwapOut(t) \/ UserExit(t)
    \/ \E f \in Fibers :
          UserNew(t, f) \/ UserReset(t, f) \/ UserResume(t, f) \/ UserDrop(t, f)
    \/ \E u \in Threads, f \in Fibers : UserShare(t, u, f)

\* The program may end, by an abort or with every thread gone.
Ended == (fault # NoFault \/ \A t \in Threads : pc[t] = "exited") /\ UNCHANGED vars

Next == (fault = NoFault /\ \E t \in Threads : UserStep(t)) \/ Ended

Spec == Init /\ [][Next]_vars
-----------------------------------------------------------------------------
\* t_fiber, which GetThis() returns to the code of a body, is the fiber whose
\* stack the thread executes on, in a body and in the main program alike, however
\* resumes and yields of several threads interleave.
CurrentFiber ==
    fault = NoFault =>
        \A t \in Threads :
            /\ pc[t] = "body" => t_fiber[t] = exec[t] /\ exec[t] \in Fibers
            /\ pc[t] = "main" => exec[t] = t /\ t_fiber[t] = t_thread_fiber[t]

\* A fiber is being executed exactly while its context is not saved, and then by
\* one thread only.  Unless two calls of resume() or reset() have overlapped on it,
\* m_state tells the truth of the context: a fiber in its callback is RUNNING, so that
\* its yield() passes the assertion, a fiber that has returned is TERM to the end, and
\* a READY one that no thread is switching away from, or one about to be switched to,
\* has a context that MainFunc has not left for good.
ContextSaved ==
    \A f \in Fibers :
        /\ m_ctx[f] = "live" <=> \E t \in Threads : exec[t] = f
        /\ \A t, u \in Threads : exec[t] = f /\ exec[u] = f => t = u
        /\ f \notin overlapped =>
              /\ \A t \in Threads :
                    /\ exec[t] = f /\ pc[t] = "body" => m_state[f] = "RUNNING"
                    /\ exec[t] = f /\ pc[t] \in {"returned", "ending"} => m_state[f] = "TERM"
                    /\ target[t] = f /\ pc[t] = "swapin" => m_ctx[f] # "over"
              /\ m_state[f] = "READY" =>
                    /\ m_ctx[f] # "over"
                    /\ \A t \in Threads : exec[t] = f => pc[t] = "swapout"

\* Dropping handles never destroys a fiber that some thread executes or is about
\* to switch to: the reference of the resumer and the one MainFunc holds are enough.
NoDestroyInUse ==
    \A t \in Threads :
        /\ exec[t] \in Fibers => m_state[exec[t]] # "none"
        /\ target[t] # Null => m_state[target[t]] # "none"
=============================================================================
