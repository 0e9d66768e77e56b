-------------------------- MODULE FiberUserProofs --------------------------
(***************************************************************************)
(* Proofs about FiberUser, for any threads and any fibers, scheduled or not. *)
(*                                                                         *)
(* UserInv is the inductive invariant.  UserLinks is what the place of a    *)
(* thread says of the stack it is on, of its thread-locals and of the fiber *)
(* it is about; Truthful is what it says of the m_state of that fiber, as   *)
(* long as no two calls have overlapped on the fiber; Handles and Pointers  *)
(* say what the shared pointers keep alive.                                 *)
(***************************************************************************)
EXTENDS FiberUser, FiberProofs

\* Where a thread is tells which stack it is on and what its thread-locals are.
UserLinks ==
    \A t \in Threads :
        /\ t_scheduler_fiber[t] = Null
        /\ t_thread_fiber[t] \in {t, Null}
        /\ pc[t] \in {"main", "exited"} => exec[t] = t /\ target[t] = Null
        /\ pc[t] \in {"main", "resuming", "resetting", "swapout", "ending"} =>
              t_fiber[t] = t_thread_fiber[t]
        /\ pc[t] \in {"resuming", "resetting", "swapin"} => exec[t] = t
        /\ pc[t] \in {"body", "swapout", "returned", "ending"} =>
              exec[t] = target[t] /\ Back(t, target[t]) # Null
        /\ pc[t] \in {"swapin", "body", "returned"} => t_fiber[t] = target[t]
        /\ pc[t] \notin {"main", "exited"} => target[t] \in Fibers /\ target[t] \in held[t]

\* The m_state that the place of a thread goes with.
StateAt(place) ==
    CASE place = "resuming"               -> "READY"
      [] place \in {"swapin", "body"}     -> "RUNNING"
      [] place \in {"returned", "ending", "resetting"} -> "TERM"
      [] OTHER                            -> "any"

\* Without an overlap a fiber is resumed, executed or reset by one thread, and its
\* m_state is the one that thread has stored or tested.
Truthful ==
    \A f \in Fibers \ overlapped :
        /\ \A t \in Threads :
              target[t] = f /\ StateAt(pc[t]) # "any" => m_state[f] = StateAt(pc[t])
        /\ \A t, u \in Threads :
              /\ target[t] = f /\ pc[t] \in {"resuming", "resetting", "swapin", "body"}
              /\ target[u] = f /\ pc[u] \in {"resuming", "resetting", "swapin", "body"}
              => t = u
        /\ m_ctx[f] = "over" => m_state[f] = "TERM"

\* A handle is to a fiber that exists; a fiber that exists has a context.
Handles ==
    /\ \A t \in Threads : \A f \in held[t] : m_state[f] # "none"
    /\ \A f \in Fibers : m_state[f] # "none" => m_ctx[f] # "none"

\* MainFunc's own pointer is there while the callback is not over.
Pointers ==
    /\ \A f \in Fibers : m_ctx[f] = "saved" => own[f] > 0
    /\ \A t \in Threads : pc[t] \in {"body", "swapout"} => own[target[t]] > 0

UserInv ==
    /\ TypeOK /\ ContextSaved /\ NoDestroyInUse
    /\ fault = NoFault => UserLinks /\ Truthful /\ Handles /\ Pointers
-----------------------------------------------------------------------------
\* No thread has a fiber at the start.
LEMMA UserInit == Init => UserInv
<1> SUFFICES ASSUME Init PROVE UserInv
    OBVIOUS
<1> USE FiberAssumption DEF FiberAssumption
<1>1. TypeOK
    BY MaxResetsAssumption DEF MaxResetsAssumption, Init, TypeOK, FiberTypeOK, FiberState,
       Context, NoFault, Faults, Places
<1>2. ContextSaved /\ NoDestroyInUse
    BY DEF Init, ContextSaved, NoDestroyInUse
<1>3. UserLinks /\ Truthful /\ Handles /\ Pointers
    BY DEF Init, UserLinks, Truthful, Handles, Pointers
<1> QED
    BY <1>1, <1>2, <1>3 DEF UserInv

\* Every step of the program preserves the invariant.
LEMMA UserInvStep == UserInv /\ [Next]_vars => UserInv'
<1> SUFFICES ASSUME UserInv, [Next]_vars PROVE UserInv'
    OBVIOUS
<1> USE FiberAssumption, MaxResetsAssumption DEF FiberAssumption, MaxResetsAssumption
<1>1. ASSUME NEW t \in Threads, fault = NoFault, UserGetThis(t)
      PROVE  UserInv'
  <2> USE <1>1 DEF UserGetThis, GetThis, progVars, UserInv, TypeOK, FiberTypeOK
  <2>1. FiberTypeOK'
    BY GetThisType DEF UserLinks
  <2>2. TypeOK'
    BY <2>1 DEF Places, UserLinks, Pointers
  <2>3. ContextSaved'
    BY DEF ContextSaved, UserLinks, Truthful, StateAt, NoDestroyInUse
  <2>4. NoDestroyInUse'
    BY DEF NoDestroyInUse, UserLinks, Handles
  <2>5. fault' = NoFault => UserLinks'
    BY DEF UserLinks, Back, NoFault
  <2>6. fault' = NoFault => Truthful'
    BY DEF UserLinks, Truthful, StateAt, Handles, NoFault
  <2>7. fault' = NoFault => Handles'
    BY DEF UserLinks, Handles, NoFault
  <2>8. fault' = NoFault => Pointers'
    BY DEF UserLinks, Pointers, ContextSaved, NoFault
  <2> QED
    BY <2>2, <2>3, <2>4, <2>5, <2>6, <2>7, <2>8
<1>2. ASSUME NEW t \in Threads, NEW f \in Fibers, fault = NoFault, UserNew(t, f)
      PROVE  UserInv'
  <2> USE <1>2 DEF UserNew, Construct, progVars, UserInv, TypeOK, FiberTypeOK
  <2>1. FiberTypeOK'
    BY ConstructType DEF UserLinks
  <2>2. TypeOK'
    BY <2>1 DEF Places, UserLinks, Pointers
  <2>3. ContextSaved'
    BY DEF ContextSaved, UserLinks, Truthful, StateAt, NoDestroyInUse
  <2>4. NoDestroyInUse'
    BY DEF NoDestroyInUse, UserLinks, Handles
  <2>5. fault' = NoFault => UserLinks'
    BY DEF UserLinks, Back, NoFault
  <2>6. fault' = NoFault => Truthful'
    BY DEF UserLinks, Truthful, StateAt, Handles, NoFault
  <2>7. fault' = NoFault => Handles'
    BY DEF UserLinks, Handles, NoFault
  <2>8. fault' = NoFault => Pointers'
    BY DEF UserLinks, Pointers, ContextSaved, NoFault
  <2> QED
    BY <2>2, <2>3, <2>4, <2>5, <2>6, <2>7, <2>8
<1>3. ASSUME NEW t \in Threads, NEW u \in Threads, NEW f \in Fibers, fault = NoFault,
             UserShare(t, u, f)
      PROVE  UserInv'
  <2> USE <1>3 DEF UserShare, fiberVars, progVars, UserInv, TypeOK, FiberTypeOK
  <2>1. FiberTypeOK'
    BY  DEF UserLinks
  <2>2. TypeOK'
    BY <2>1 DEF Places, UserLinks, Pointers
  <2>3. ContextSaved'
    BY DEF ContextSaved, UserLinks, Truthful, StateAt, NoDestroyInUse
  <2>4. NoDestroyInUse'
    BY DEF NoDestroyInUse, UserLinks, Handles
  <2>5. fault' = NoFault => UserLinks'
    BY DEF UserLinks, Back, NoFault
  <2>6. fault' = NoFault => Truthful'
    BY DEF UserLinks, Truthful, StateAt, Handles, NoFault
  <2>7. fault' = NoFault => Handles'
    BY DEF UserLinks, Handles, NoFault
  <2>8. fault' = NoFault => Pointers'
    BY DEF UserLinks, Pointers, ContextSaved, NoFault
  <2> QED
    BY <2>2, <2>3, <2>4, <2>5, <2>6, <2>7, <2>8
<1>4. ASSUME NEW t \in Threads, NEW f \in Fibers, fault = NoFault, UserReset(t, f)
      PROVE  UserInv'
  <2> USE <1>4 DEF UserReset, Enter, Between, ResetCheck, Goto, progVars, UserInv, TypeOK,
          FiberTypeOK
  <2>1. FiberTypeOK'
    BY ResetCheckType DEF UserLinks
  <2>2. TypeOK'
    BY <2>1 DEF Places, UserLinks, Pointers
  <2>3. ContextSaved'
    BY DEF ContextSaved, UserLinks, Truthful, StateAt, NoDestroyInUse
  <2>4. NoDestroyInUse'
    BY DEF NoDestroyInUse, UserLinks, Handles
  <2>5. fault' = NoFault => UserLinks'
    BY DEF UserLinks, Back, NoFault
  <2>6. fault' = NoFault => Truthful'
    BY DEF UserLinks, Truthful, StateAt, Handles, NoFault
  <2>7. fault' = NoFault => Handles'
    BY DEF UserLinks, Handles, NoFault
  <2>8. fault' = NoFault => Pointers'
    BY DEF UserLinks, Pointers, ContextSaved, NoFault
  <2> QED
    BY <2>2, <2>3, <2>4, <2>5, <2>6, <2>7, <2>8
<1>5. ASSUME NEW t \in Threads, fault = NoFault, UserResetStore(t)
      PROVE  UserInv'
  <2> USE <1>5 DEF UserResetStore, Leave, ResetStore, Goto, progVars, UserInv, TypeOK, FiberTypeOK
  <2>1. FiberTypeOK'
    BY ResetStoreType DEF UserLinks
  <2>2. TypeOK'
    BY <2>1 DEF Places, UserLinks, Pointers
  <2>3. ContextSaved'
    BY DEF ContextSaved, UserLinks, Truthful, StateAt, NoDestroyInUse
  <2>4. NoDestroyInUse'
    BY DEF NoDestroyInUse, UserLinks, Handles
  <2>5. fault' = NoFault => UserLinks'
    BY DEF UserLinks, Back, NoFault
  <2>6. fault' = NoFault => Truthful'
    BY DEF UserLinks, Truthful, StateAt, Handles, ContextSaved, NoFault
  <2>7. fault' = NoFault => Handles'
    BY DEF UserLinks, Handles, NoFault
  <2>8. fault' = NoFault => Pointers'
    BY DEF UserLinks, Pointers, ContextSaved, NoFault
  <2> QED
    BY <2>2, <2>3, <2>4, <2>5, <2>6, <2>7, <2>8
<1>6. ASSUME NEW t \in Threads, NEW f \in Fibers, fault = NoFault, UserResume(t, f)
      PROVE  UserInv'
  <2> USE <1>6 DEF UserResume, Enter, Between, ResumeCheck, Goto, progVars, UserInv, TypeOK,
          FiberTypeOK
  <2>1. FiberTypeOK'
    BY ResumeCheckType DEF UserLinks
  <2>2. TypeOK'
    BY <2>1 DEF Places, UserLinks, Pointers
  <2>3. ContextSaved'
    BY DEF ContextSaved, UserLinks, Truthful, StateAt, NoDestroyInUse
  <2>4. NoDestroyInUse'
    BY DEF NoDestroyInUse, UserLinks, Handles
  <2>5. fault' = NoFault => UserLinks'
    BY DEF UserLinks, Back, NoFault
  <2>6. fault' = NoFault => Truthful'
    BY DEF UserLinks, Truthful, StateAt, Handles, NoFault
  <2>7. fault' = NoFault => Handles'
    BY DEF UserLinks, Handles, NoFault
  <2>8. fault' = NoFault => Pointers'
    BY DEF UserLinks, Pointers, ContextSaved, NoFault
  <2> QED
    BY <2>2, <2>3, <2>4, <2>5, <2>6, <2>7, <2>8
<1>7. ASSUME NEW t \in Threads, fault = NoFault, UserResumeMark(t)
      PROVE  UserInv'
  <2> USE <1>7 DEF UserResumeMark, ResumeMark, Goto, progVars, UserInv, TypeOK, FiberTypeOK
  <2>1. FiberTypeOK'
    BY ResumeMarkType DEF UserLinks
  <2>2. TypeOK'
    BY <2>1 DEF Places, UserLinks, Pointers
  <2>3. ContextSaved'
    BY DEF ContextSaved, UserLinks, Truthful, StateAt, NoDestroyInUse
  <2>4. NoDestroyInUse'
    BY DEF NoDestroyInUse, UserLinks, Handles
  <2>5. fault' = NoFault => UserLinks'
    BY DEF UserLinks, Back, NoFault
  <2>6. fault' = NoFault => Truthful'
    BY DEF UserLinks, Truthful, StateAt, Handles, NoFault
  <2>7. fault' = NoFault => Handles'
    BY DEF UserLinks, Handles, NoFault
  <2>8. fault' = NoFault => Pointers'
    BY DEF UserLinks, Pointers, ContextSaved, NoFault
  <2> QED
    BY <2>2, <2>3, <2>4, <2>5, <2>6, <2>7, <2>8
<1>8. ASSUME NEW t \in Threads, fault = NoFault, UserSwapIn(t)
      PROVE  UserInv'
  <2> USE <1>8 DEF UserSwapIn, SwapIn, Switch, Back, Goto, progVars, UserInv, TypeOK, FiberTypeOK
  <2>1. FiberTypeOK'
    BY SwapInType DEF UserLinks
  <2>2. TypeOK'
    <3>1. target[t] \in Fibers
      BY DEF UserLinks
    <3>2. own' \in [Fibers -> Nat]
      BY <3>1
    <3> QED
      BY <2>1, <3>2 DEF Places
  <2>3. ContextSaved'
    <3>1. pc[t] = "swapin" /\ target[t] \in Fibers /\ exec[t] = t
      BY DEF UserLinks
    <3>2. CASE fault' # NoFault
      <4>1. UNCHANGED <<exec, m_ctx, m_state, target, overlapped>>
        BY <3>2
      <4>2. \A u \in Threads : u # t => pc'[u] = pc[u]
        OBVIOUS
      <4>3. exec[t] \notin Fibers /\ pc'[t] = "body"
        BY <3>1
      <4> QED
        BY <4>1, <4>2, <4>3 DEF ContextSaved
    <3>3. CASE fault' = NoFault
      <4>1. Back(t, target[t]) \in Threads
        BY <3>1, <3>3 DEF UserLinks, NoFault
      <4>2. m_ctx' = [m_ctx EXCEPT ![target[t]] = "live"]
            /\ m_ctx[target[t]] \notin {"live", "over"}
            /\ exec' = [exec EXCEPT ![t] = target[t]]
        BY <3>1, <3>3, <4>1 DEF NoFault
      <4>3. target[t] \notin overlapped => m_state[target[t]] = "RUNNING"
        BY <3>1 DEF Truthful, StateAt
      <4> QED
        BY <3>1, <4>2, <4>3 DEF ContextSaved
    <3> QED
      BY <3>2, <3>3
  <2>4. NoDestroyInUse'
    BY DEF NoDestroyInUse, UserLinks, Handles
  <2>5. fault' = NoFault => UserLinks'
    BY DEF UserLinks, Back, NoFault
  <2>6. fault' = NoFault => Truthful'
    BY DEF UserLinks, Truthful, StateAt, Handles, NoFault
  <2>7. fault' = NoFault => Handles'
    BY DEF UserLinks, Handles, NoFault
  <2>8. fault' = NoFault => Pointers'
    <3> SUFFICES ASSUME fault' = NoFault PROVE Pointers'
      OBVIOUS
    <3>1. pc[t] = "swapin" /\ target[t] \in Fibers
      BY DEF UserLinks
    <3>2. Back(t, target[t]) \in Threads
      BY <3>1 DEF UserLinks, NoFault
    <3>3. m_ctx' = [m_ctx EXCEPT ![target[t]] = "live"]
          /\ m_ctx[target[t]] \in {"none", "entry", "saved"}
      BY <3>1, <3>2 DEF NoFault, Context
    <3>4. m_ctx[target[t]] # "none"
      BY <3>1 DEF UserLinks, Handles
    <3>5. own'[target[t]] > 0
      BY <3>1, <3>3, <3>4 DEF Pointers
    <3>6. \A f \in Fibers : own'[f] >= own[f]
      BY <3>1
    <3>7. \A u \in Threads : pc[u] \in {"body", "swapout"} => target[u] \in Fibers
      BY DEF UserLinks
    <3>8. \A u \in Threads : u # t => pc'[u] = pc[u]
      OBVIOUS
    <3>9. own' \in [Fibers -> Nat]
      BY <2>2
    <3> QED
      BY <3>1, <3>3, <3>5, <3>6, <3>7, <3>8, <3>9 DEF Pointers
  <2> QED
    BY <2>2, <2>3, <2>4, <2>5, <2>6, <2>7, <2>8
<1>9. ASSUME NEW t \in Threads, fault = NoFault, UserYield(t)
      PROVE  UserInv'
  <2> USE <1>9 DEF UserYield, YieldMark, Goto, progVars, UserInv, TypeOK, FiberTypeOK
  <2>1. FiberTypeOK'
    BY YieldMarkType DEF UserLinks
  <2>2. TypeOK'
    BY <2>1 DEF Places, UserLinks, Pointers
  <2>3. ContextSaved'
    BY DEF ContextSaved, UserLinks, Truthful, StateAt, NoDestroyInUse
  <2>4. NoDestroyInUse'
    BY DEF NoDestroyInUse, UserLinks, Handles
  <2>5. fault' = NoFault => UserLinks'
    BY DEF UserLinks, Back, NoFault
  <2>6. fault' = NoFault => Truthful'
    BY DEF UserLinks, Truthful, StateAt, Handles, NoFault
  <2>7. fault' = NoFault => Handles'
    BY DEF UserLinks, Handles, NoFault
  <2>8. fault' = NoFault => Pointers'
    BY DEF UserLinks, Pointers, ContextSaved, NoFault
  <2> QED
    BY <2>2, <2>3, <2>4, <2>5, <2>6, <2>7, <2>8
<1>10. ASSUME NEW t \in Threads, fault = NoFault, UserSwapOut(t)
      PROVE  UserInv'
  <2> USE <1>10 DEF UserSwapOut, Leave, SwapOut, Switch, Back, Goto, progVars, UserInv, TypeOK,
          FiberTypeOK
  <2>1. FiberTypeOK'
    <3>1. exec[t] \in Fibers /\ Back(t, exec[t]) # Null
      BY DEF UserLinks
    <3>2. SwapOut(t, exec[t]) /\ FiberTypeOK
      OBVIOUS
    <3> QED
      BY ONLY <1>10, <3>1, <3>2, SwapOutType
  <2>2. TypeOK'
    BY <2>1 DEF Places, UserLinks, Pointers
  <2>3. ContextSaved'
    BY DEF ContextSaved, UserLinks, Truthful, StateAt, NoDestroyInUse
  <2>4. NoDestroyInUse'
    BY DEF NoDestroyInUse, UserLinks, Handles
  <2>5. fault' = NoFault => UserLinks'
    BY DEF UserLinks, Back, NoFault
  <2>6. fault' = NoFault => Truthful'
    BY DEF UserLinks, Truthful, StateAt, Handles, NoFault
  <2>7. fault' = NoFault => Handles'
    BY DEF UserLinks, Handles, NoFault
  <2>8. fault' = NoFault => Pointers'
    BY DEF UserLinks, Pointers, ContextSaved, NoFault
  <2> QED
    BY <2>2, <2>3, <2>4, <2>5, <2>6, <2>7, <2>8
<1>11. ASSUME NEW t \in Threads, fault = NoFault, UserReturn(t)
      PROVE  UserInv'
  <2> USE <1>11 DEF UserReturn, MainFuncTerm, Goto, progVars, UserInv, TypeOK, FiberTypeOK
  <2>1. FiberTypeOK'
    BY MainFuncTermType DEF UserLinks
  <2>2. TypeOK'
    BY <2>1 DEF Places, UserLinks, Pointers
  <2>3. ContextSaved'
    BY DEF ContextSaved, UserLinks, Truthful, StateAt, NoDestroyInUse
  <2>4. NoDestroyInUse'
    BY DEF NoDestroyInUse, UserLinks, Handles
  <2>5. fault' = NoFault => UserLinks'
    BY DEF UserLinks, Back, NoFault
  <2>6. fault' = NoFault => Truthful'
    BY DEF UserLinks, Truthful, StateAt, Handles, NoFault
  <2>7. fault' = NoFault => Handles'
    BY DEF UserLinks, Handles, NoFault
  <2>8. fault' = NoFault => Pointers'
    BY DEF UserLinks, Pointers, ContextSaved, NoFault
  <2> QED
    BY <2>2, <2>3, <2>4, <2>5, <2>6, <2>7, <2>8
<1>12. ASSUME NEW t \in Threads, fault = NoFault, UserFinalYield(t)
      PROVE  UserInv'
  <2> USE <1>12 DEF UserFinalYield, YieldMark, Goto, progVars, UserInv, TypeOK, FiberTypeOK
  <2>1. FiberTypeOK'
    BY YieldMarkType DEF UserLinks
  <2>2. TypeOK'
    BY <2>1 DEF Places, UserLinks, Pointers
  <2>3. ContextSaved'
    BY DEF ContextSaved, UserLinks, Truthful, StateAt, NoDestroyInUse
  <2>4. NoDestroyInUse'
    BY DEF NoDestroyInUse, UserLinks, Handles
  <2>5. fault' = NoFault => UserLinks'
    BY DEF UserLinks, Back, NoFault
  <2>6. fault' = NoFault => Truthful'
    BY DEF UserLinks, Truthful, StateAt, Handles, NoFault
  <2>7. fault' = NoFault => Handles'
    BY DEF UserLinks, Handles, NoFault
  <2>8. fault' = NoFault => Pointers'
    BY DEF UserLinks, Pointers, ContextSaved, NoFault
  <2> QED
    BY <2>2, <2>3, <2>4, <2>5, <2>6, <2>7, <2>8
<1>13. ASSUME NEW t \in Threads, fault = NoFault, UserFinalSwapOut(t)
      PROVE  UserInv'
  <2> USE <1>13 DEF UserFinalSwapOut, Leave, SwapOutLast, Back, Goto, progVars, UserInv,
          TypeOK, FiberTypeOK
  <2>1. FiberTypeOK'
    <3>1. exec[t] \in Fibers /\ Back(t, exec[t]) # Null
      BY DEF UserLinks
    <3>2. SwapOutLast(t, exec[t]) /\ FiberTypeOK
      OBVIOUS
    <3> QED
      BY ONLY <1>13, <3>1, <3>2, SwapOutLastType
  <2>2. TypeOK'
    BY <2>1 DEF Places, UserLinks, Pointers
  <2>3. ContextSaved'
    BY DEF ContextSaved, UserLinks, Truthful, StateAt, NoDestroyInUse
  <2>4. NoDestroyInUse'
    BY DEF NoDestroyInUse, UserLinks, Handles
  <2>5. fault' = NoFault => UserLinks'
    BY DEF UserLinks, Back, NoFault
  <2>6. fault' = NoFault => Truthful'
    BY DEF UserLinks, Truthful, StateAt, Handles, NoFault
  <2>7. fault' = NoFault => Handles'
    BY DEF UserLinks, Handles, NoFault
  <2>8. fault' = NoFault => Pointers'
    BY DEF UserLinks, Pointers, ContextSaved, NoFault
  <2> QED
    BY <2>2, <2>3, <2>4, <2>5, <2>6, <2>7, <2>8
<1>14. ASSUME NEW t \in Threads, NEW f \in Fibers, fault = NoFault, UserDrop(t, f)
      PROVE  UserInv'
  <2> USE <1>14 DEF UserDrop, Destroy, ReferencedBesides, OwnReference, fiberVars, progVars,
          UserInv, TypeOK, FiberTypeOK
  <2>1. FiberTypeOK'
    BY DestroyType DEF UserLinks
  <2>2. TypeOK'
    BY <2>1 DEF Places, UserLinks, Pointers
  <2>3. ContextSaved'
    <3>1. ASSUME ~ReferencedBesides(t, f)
          PROVE  \A u \in Threads : exec[u] # f /\ target[u] # f
      BY <3>1 DEF UserLinks, Places
    <3> QED
      BY <3>1 DEF ContextSaved
  <2>4. NoDestroyInUse'
    <3>1. ASSUME ~ReferencedBesides(t, f)
          PROVE  \A u \in Threads : exec[u] # f /\ target[u] # f
      BY <3>1 DEF UserLinks, Places
    <3> QED
      BY <3>1 DEF NoDestroyInUse
  <2>5. fault' = NoFault => UserLinks'
    BY DEF UserLinks, Back, NoFault
  <2>6. fault' = NoFault => Truthful'
    BY DEF UserLinks, Truthful, StateAt, Handles, NoFault
  <2>7. fault' = NoFault => Handles'
    BY DEF UserLinks, Handles, NoFault
  <2>8. fault' = NoFault => Pointers'
    BY DEF UserLinks, Pointers, ContextSaved, NoFault
  <2> QED
    BY <2>2, <2>3, <2>4, <2>5, <2>6, <2>7, <2>8
<1>15. ASSUME NEW t \in Threads, fault = NoFault, UserExit(t)
      PROVE  UserInv'
  <2> USE <1>15 DEF UserExit, DestroyMain, Goto, progVars, UserInv, TypeOK, FiberTypeOK
  <2>1. FiberTypeOK'
    BY DestroyMainType DEF UserLinks
  <2>2. TypeOK'
    BY <2>1 DEF Places, UserLinks, Pointers
  <2>3. ContextSaved'
    BY DEF ContextSaved, UserLinks, Truthful, StateAt, NoDestroyInUse
  <2>4. NoDestroyInUse'
    BY DEF NoDestroyInUse, UserLinks, Handles
  <2>5. fault' = NoFault => UserLinks'
    BY DEF UserLinks, Back, NoFault
  <2>6. fault' = NoFault => Truthful'
    BY DEF UserLinks, Truthful, StateAt, Handles, NoFault
  <2>7. fault' = NoFault => Handles'
    BY DEF UserLinks, Handles, NoFault
  <2>8. fault' = NoFault => Pointers'
    BY DEF UserLinks, Pointers, ContextSaved, NoFault
  <2> QED
    BY <2>2, <2>3, <2>4, <2>5, <2>6, <2>7, <2>8
<1>16. ASSUME UNCHANGED vars PROVE UserInv'
    BY <1>16 DEF vars, fiberVars, progVars, UserInv, TypeOK, FiberTypeOK, ContextSaved,
                NoDestroyInUse, UserLinks, Back, Truthful, Handles, Pointers
<1> QED
    BY <1>1, <1>2, <1>3, <1>4, <1>5, <1>6, <1>7, <1>8, <1>9, <1>10, <1>11, <1>12, <1>13, <1>14,
       <1>15, <1>16 DEF Next, UserStep, Ended
-----------------------------------------------------------------------------
\* The inductive invariant holds of every behaviour.
THEOREM UserInvCorrect == Spec => []UserInv
<1> QED
    BY UserInit, UserInvStep, PTL DEF Spec

\* The state of the fibers and of the program keeps its types.
THEOREM UserTypeCorrect == Spec => []TypeOK
<1>1. UserInv => TypeOK
    BY DEF UserInv
<1> QED
    BY <1>1, UserInvCorrect, PTL

\* t_fiber is the fiber on whose stack a thread is, in a body and in main alike.
THEOREM CurrentFiberCorrect == Spec => []CurrentFiber
<1>1. UserInv => CurrentFiber
    BY DEF UserInv, UserLinks, CurrentFiber
<1> QED
    BY <1>1, UserInvCorrect, PTL

\* A fiber is executed by one thread at most, and exactly while its context is not
\* saved; and m_state tells the truth of it, unless two calls have overlapped on it.
THEOREM ContextSavedCorrect == Spec => []ContextSaved
<1>1. UserInv => ContextSaved
    BY DEF UserInv
<1> QED
    BY <1>1, UserInvCorrect, PTL

\* No fiber that is executed or resumed is destroyed.
THEOREM NoDestroyInUseCorrect == Spec => []NoDestroyInUse
<1>1. UserInv => NoDestroyInUse
    BY DEF UserInv
<1> QED
    BY <1>1, UserInvCorrect, PTL
=============================================================================
