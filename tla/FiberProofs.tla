---------------------------- MODULE FiberProofs ----------------------------
(***************************************************************************)
(* The operations of the class Fiber keep the types of its state, whoever   *)
(* calls them.                                                              *)
(***************************************************************************)
EXTENDS Fiber, TLAPS

\* A new fiber.
LEMMA ConstructType ==
    ASSUME FiberTypeOK, NEW f \in Fibers, Construct(f),
           UNCHANGED <<exec, t_fiber, t_thread_fiber, t_scheduler_fiber, fault>>
    PROVE  FiberTypeOK'
    BY DEF Construct, FiberTypeOK, FiberState, Context

\* The main fiber of a thread.
LEMMA GetThisType ==
    ASSUME FiberTypeOK, NEW t \in Threads, GetThis(t),
           UNCHANGED <<m_state, m_ctx, exec, t_scheduler_fiber, fault>>
    PROVE  FiberTypeOK'
    BY DEF GetThis, FiberTypeOK

\* reset(), whatever it finds.
LEMMA ResetCheckType ==
    ASSUME FiberTypeOK, NEW f \in Fibers, ResetCheck(f)
    PROVE  FiberTypeOK'
    BY DEF ResetCheck, FiberTypeOK, Faults

LEMMA ResetStoreType ==
    ASSUME FiberTypeOK, NEW f \in Fibers, ResetStore(f)
    PROVE  FiberTypeOK'
    BY DEF ResetStore, FiberTypeOK, FiberState, Context, Faults

\* resume(), its assertion and its stores.
LEMMA ResumeCheckType ==
    ASSUME FiberTypeOK, NEW f \in Fibers, ResumeCheck(f)
    PROVE  FiberTypeOK'
    BY DEF ResumeCheck, FiberTypeOK, Faults

LEMMA ResumeMarkType ==
    ASSUME FiberTypeOK, NEW t \in Threads, NEW f \in Fibers, ResumeMark(t, f)
    PROVE  FiberTypeOK'
    BY DEF ResumeMark, FiberTypeOK, FiberState

\* resume(), first half, as Scheduler has it.
LEMMA ResumeEnterType ==
    ASSUME FiberTypeOK, NEW t \in Threads, NEW f \in Fibers, ResumeEnter(t, f)
    PROVE  FiberTypeOK'
    BY DEF ResumeEnter, FiberTypeOK, FiberState, Context, Faults, NoFault

\* resume(), second half: whatever swapcontext finds.
LEMMA SwapInType ==
    ASSUME FiberTypeOK, NEW t \in Threads, NEW f \in Fibers, SwapIn(t, f)
    PROVE  FiberTypeOK'
    BY DEF SwapIn, Switch, FiberTypeOK, FiberState, Context, Faults, NoFault

\* yield(), first half.
LEMMA YieldMarkType ==
    ASSUME FiberTypeOK, NEW t \in Threads, NEW f \in Fibers, YieldMark(t, f)
    PROVE  FiberTypeOK'
    BY DEF YieldMark, FiberTypeOK, FiberState, Faults

\* yield(), second half, provided there is a fiber to return to.
LEMMA SwapOutType ==
    ASSUME FiberTypeOK, NEW t \in Threads, NEW f \in Fibers, SwapOut(t, f),
           Back(t, f) # Null
    PROVE  FiberTypeOK'
    BY DEF SwapOut, Back, Switch, FiberTypeOK, FiberState, Context

\* The end of MainFunc, and the switch that ends it.
LEMMA MainFuncTermType ==
    ASSUME FiberTypeOK, NEW f \in Fibers, MainFuncTerm(f)
    PROVE  FiberTypeOK'
    BY DEF MainFuncTerm, FiberTypeOK, FiberState

LEMMA SwapOutLastType ==
    ASSUME FiberTypeOK, NEW t \in Threads, NEW f \in Fibers, SwapOutLast(t, f),
           Back(t, f) # Null
    PROVE  FiberTypeOK'
    BY DEF SwapOutLast, Back, FiberTypeOK, Context

\* The end of MainFunc, as Scheduler has it.
LEMMA MainFuncEndType ==
    ASSUME FiberTypeOK, NEW t \in Threads, NEW f \in Fibers, MainFuncEnd(t, f)
    PROVE  FiberTypeOK'
    BY DEF MainFuncEnd, FiberTypeOK, FiberState

\* ~Fiber() of a fiber with a stack, whatever its state.
LEMMA DestroyType ==
    ASSUME FiberTypeOK, NEW f \in Fibers, Destroy(f)
    PROVE  FiberTypeOK'
    BY DEF Destroy, FiberTypeOK, FiberState, Context, Faults

\* ~Fiber() of a main fiber, on either branch.
LEMMA DestroyMainType ==
    ASSUME FiberTypeOK, NEW t \in Threads, DestroyMain(t)
    PROVE  FiberTypeOK'
    BY DEF DestroyMain, FiberTypeOK, Faults
=============================================================================
