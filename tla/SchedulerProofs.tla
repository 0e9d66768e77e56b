-------------------------- MODULE SchedulerProofs --------------------------
(***************************************************************************)
(* Proofs about Scheduler, for any finite set of threads and any set of    *)
(* tasks.                                                                  *)
(*                                                                         *)
(* Structure is the inductive invariant: the types, how the program         *)
(* counters of the threads fit the state of the owner (MainLinks) and the   *)
(* thread-local pointers (ThreadLinks), and the counters.  They need one    *)
(* another: a counter stays a natural number only if it is exact, and yield *)
(* returns to a fiber, not to nullptr, only by ThreadLinks.  QuiescentExit  *)
(* is then inductive relative to Structure.                                 *)
(***************************************************************************)
EXTENDS Scheduler, FiberProofs, FiniteSetTheorems, SequenceTheorems, TLAPS

\* Erasing an element of a list of tasks leaves a list of tasks.
LEMMA RemoveAtType ==
    ASSUME NEW S, NEW s \in Seq(S), NEW i \in DOMAIN s
    PROVE  RemoveAt(s, i) \in Seq(S)
<1>1. i \in 1..Len(s)
    OBVIOUS
<1>2. SubSeq(s, 1, i-1) \in Seq(S)
    BY <1>1
<1>3. SubSeq(s, i+1, Len(s)) \in Seq(S)
    BY <1>1
<1> QED
    BY <1>2, <1>3 DEF RemoveAt

\* A thread that moves into, or out of, a set of places of the program changes the
\* number of threads there by one, and any other move leaves them as they are.
LEMMA CountMove ==
    ASSUME NEW S, NEW t \in Threads, NEW to,
           pc \in [Threads -> PC], pc' = [pc EXCEPT ![t] = to]
    PROVE  /\ Cardinality(At(S)) \in Nat /\ Cardinality(At(S)') \in Nat
           /\ pc[t] \in S /\ to \in S => At(S)' = At(S)
           /\ pc[t] \notin S /\ to \notin S => At(S)' = At(S)
           /\ pc[t] \notin S /\ to \in S =>
                 Cardinality(At(S)') = Cardinality(At(S)) + 1
           /\ pc[t] \in S /\ to \notin S =>
                 Cardinality(At(S)) = Cardinality(At(S)') + 1
<1>1. IsFiniteSet(At(S)) /\ IsFiniteSet(At(S)')
  <2>1. At(S) \subseteq Threads /\ At(S)' \subseteq Threads
    BY DEF At
  <2> QED
    BY <2>1, FS_Subset, SchedulerAssumption DEF SchedulerAssumption
<1>2. Cardinality(At(S)) \in Nat /\ Cardinality(At(S)') \in Nat
    BY <1>1, FS_CardinalityType
<1>3. (pc[t] \in S /\ to \in S) \/ (pc[t] \notin S /\ to \notin S) => At(S)' = At(S)
    BY DEF At
<1>4. ASSUME pc[t] \notin S, to \in S
      PROVE  Cardinality(At(S)') = Cardinality(At(S)) + 1
  <2>1. At(S)' = At(S) \cup {t} /\ t \notin At(S)
    BY <1>4 DEF At
  <2> QED
    BY <2>1, <1>1, FS_AddElement
<1>5. ASSUME pc[t] \in S, to \notin S
      PROVE  Cardinality(At(S)) = Cardinality(At(S)') + 1
  <2>1. At(S) = At(S)' \cup {t} /\ t \notin At(S)'
    BY <1>5 DEF At
  <2> QED
    BY <2>1, <1>1, FS_AddElement
<1> QED
    BY <1>2, <1>3, <1>4, <1>5

\* So the two counters stay exact if they change when, and as, a thread moves.
LEMMA CountersMove ==
    ASSUME TypeOK, CountersExact, NEW t \in Threads, NEW to \in PC,
           pc' = [pc EXCEPT ![t] = to],
           \/ (pc[t] \in InTask <=> to \in InTask)
              /\ m_activeThreadCount' = m_activeThreadCount
           \/ pc[t] \notin InTask /\ to \in InTask
              /\ m_activeThreadCount' = m_activeThreadCount + 1
           \/ pc[t] \in InTask /\ to \notin InTask
              /\ m_activeThreadCount' = m_activeThreadCount - 1,
           \/ (pc[t] = "idle" <=> to = "idle")
              /\ m_idleThreadCount' = m_idleThreadCount
           \/ pc[t] # "idle" /\ to = "idle"
              /\ m_idleThreadCount' = m_idleThreadCount + 1
           \/ pc[t] = "idle" /\ to # "idle"
              /\ m_idleThreadCount' = m_idleThreadCount - 1
    PROVE  CountersExact' /\ m_activeThreadCount' \in Nat /\ m_idleThreadCount' \in Nat
<1>1. pc \in [Threads -> PC]
    BY DEF TypeOK
<1>2. /\ m_activeThreadCount' = Cardinality(At(InTask)')
      /\ Cardinality(At(InTask)') \in Nat
  <2>1. m_activeThreadCount = Cardinality(At(InTask))
    BY DEF CountersExact, Active
  <2>2. /\ Cardinality(At(InTask)) \in Nat /\ Cardinality(At(InTask)') \in Nat
        /\ pc[t] \in InTask /\ to \in InTask => At(InTask)' = At(InTask)
        /\ pc[t] \notin InTask /\ to \notin InTask => At(InTask)' = At(InTask)
        /\ pc[t] \notin InTask /\ to \in InTask =>
              Cardinality(At(InTask)') = Cardinality(At(InTask)) + 1
        /\ pc[t] \in InTask /\ to \notin InTask =>
              Cardinality(At(InTask)) = Cardinality(At(InTask)') + 1
    BY <1>1, CountMove
  <2> QED
    BY <2>1, <2>2
<1>3. /\ m_idleThreadCount' = Cardinality(At({"idle"})')
      /\ Cardinality(At({"idle"})') \in Nat
  <2>1. m_idleThreadCount = Cardinality(At({"idle"}))
    BY DEF CountersExact, Idle
  <2> DEFINE S == {"idle"}
  <2>2. /\ pc[t] \in S <=> pc[t] = "idle"
        /\ to \in S <=> to = "idle"
    OBVIOUS
  <2>3. m_idleThreadCount = Cardinality(At(S))
    BY <2>1
  <2>4. /\ Cardinality(At(S)) \in Nat /\ Cardinality(At(S)') \in Nat
        /\ pc[t] \in S /\ to \in S => At(S)' = At(S)
        /\ pc[t] \notin S /\ to \notin S => At(S)' = At(S)
        /\ pc[t] \notin S /\ to \in S =>
              Cardinality(At(S)') = Cardinality(At(S)) + 1
        /\ pc[t] \in S /\ to \notin S =>
              Cardinality(At(S)) = Cardinality(At(S)') + 1
    BY <1>1, CountMove
  <2>5. m_idleThreadCount' = Cardinality(At(S)') /\ Cardinality(At(S)') \in Nat
    <3> HIDE DEF S
    <3> QED
      BY <2>2, <2>3, <2>4
  <2> QED
    BY <2>5
<1> QED
    BY <1>2, <1>3 DEF CountersExact, Active, Idle

-----------------------------------------------------------------------------
\* The owner of the scheduler: m_stopping is set as it leaves "user"; it executes
\* run() only inside stop() and only with use_caller; no worker before start().
MainLinks ==
    /\ m_stopping <=> main # "user"
    /\ main \in {"resume", "swapin", "run"} => UseCaller
    /\ main # "run" => pc[Caller] \in {"off", "exited"}
    /\ pc[Caller] # "off" => UseCaller /\ m_stopping
    /\ ~started => \A t \in Workers : pc[t] = "off"

\* A thread in run(): it has a fiber to switch back to, and from taking a task to
\* returning from it a task that may run there; while the process is healthy its
\* stack and t_fiber are those of that task.
ThreadLinks ==
    /\ UseCaller => t_scheduler_fiber[Caller] = Root /\ t_thread_fiber[Caller] = Caller
    /\ \A t \in Threads :
          /\ pc[t] \in InTask =>
                task[t] \in ScheduleTask /\ task[t].thread \in {Null, t}
          /\ pc[t] \notin {"off", "init", "exited"} => t_scheduler_fiber[t] # Null
          /\ fault = NoFault /\ pc[t] \in {"body", "leaving", "swapout"} =>
                exec[t] = task[t].fiber
          /\ fault = NoFault /\ pc[t] \in {"swapin", "body", "leaving"} =>
                t_fiber[t] = task[t].fiber

Structure == TypeOK /\ MainLinks /\ ThreadLinks /\ CountersExact

\* The constructor establishes it.
LEMMA StructureInit == Init => Structure
<1> SUFFICES ASSUME Init PROVE Structure
    OBVIOUS
<1> USE FiberAssumption, SchedulerAssumption
    DEF FiberAssumption, SchedulerAssumption
<1>1. TypeOK
  <2>1. FiberTypeOK
    BY DEF Init, FiberTypeOK, FiberState, Context, NoFault, Faults
  <2>2. m_tasks \in Seq(ScheduleTask)
    BY DEF Init
  <2>3. task \in [Threads -> ScheduleTask \cup {NoTask}]
    BY DEF Init
  <2>4. idle \in [Threads -> FiberState]
    BY DEF Init, FiberState
  <2>5. pc \in [Threads -> PC] /\ main \in Main
    BY DEF Init, PC, InTask, Main
  <2>6. m_stopping \in BOOLEAN /\ started \in BOOLEAN
    BY DEF Init
  <2> QED
    BY <2>1, <2>2, <2>3, <2>4, <2>5, <2>6 DEF Init, TypeOK
<1>2. MainLinks
    BY DEF Init, MainLinks, Workers
<1>3. ThreadLinks
    BY DEF Init, ThreadLinks, InTask
<1>4. CountersExact
  <2>1. Active = {} /\ Idle = {}
    BY DEF Init, Active, Idle, At, InTask
  <2> QED
    BY <2>1, FS_EmptySet DEF Init, CountersExact
<1> QED
    BY <1>1, <1>2, <1>3, <1>4 DEF Structure

\* schedule() of a new task pushes a well-formed ScheduleTask.
LEMMA ScheduleNewType ==
    ASSUME TypeOK, NEW f \in Tasks, ScheduleNew(f)
    PROVE  TypeOK'
<1> USE FiberAssumption, SchedulerAssumption
    DEF FiberAssumption, SchedulerAssumption
<1>1. PICK p \in Pins : Push(f, f \in Callbacks, p)
    BY DEF ScheduleNew
<1>2. [fiber |-> f, cb |-> f \in Callbacks, thread |-> p] \in ScheduleTask
    BY DEF ScheduleTask, Pins, Workers
<1>3. m_tasks' \in Seq(ScheduleTask)
    BY <1>1, <1>2 DEF Push, TypeOK
<1>4. FiberTypeOK'
    BY DEF ScheduleNew, Construct, Tasks, TypeOK, FiberTypeOK, FiberState, Context
<1> QED
    BY <1>3, <1>4 DEF ScheduleNew, TypeOK

\* So does schedule() of a fiber that is woken.
LEMMA WakeType ==
    ASSUME TypeOK, NEW f \in Tasks, Wake(f)
    PROVE  TypeOK'
<1> USE FiberAssumption, SchedulerAssumption
    DEF FiberAssumption, SchedulerAssumption
<1>1. PICK p \in Pins : Push(f, FALSE, p)
    BY DEF Wake
<1>2. [fiber |-> f, cb |-> FALSE, thread |-> p] \in ScheduleTask
    BY DEF ScheduleTask, Pins, Workers
<1>3. m_tasks' \in Seq(ScheduleTask)
    BY <1>1, <1>2 DEF Push, TypeOK
<1>4. FiberTypeOK'
    BY DEF Wake, fiberVars, TypeOK, FiberTypeOK
<1> QED
    BY <1>3, <1>4 DEF Wake, TypeOK

\* Steps that move no thread and leave its pointers alone keep the links of threads.
LEMMA SameThreads ==
    ASSUME Structure,
           UNCHANGED <<exec, t_fiber, t_thread_fiber, t_scheduler_fiber, pc, task,
                       m_activeThreadCount, m_idleThreadCount>>,
           fault' = NoFault => fault = NoFault
    PROVE  ThreadLinks' /\ CountersExact'
    BY DEF Structure, ThreadLinks, CountersExact, Active, Idle, At

\* Scheduling is such a step.
LEMMA SameMain ==
    ASSUME Structure, \E f \in Tasks : ScheduleNew(f) \/ Wake(f)
    PROVE  MainLinks' /\ ThreadLinks' /\ CountersExact'
<1>1. UNCHANGED <<exec, t_fiber, t_thread_fiber, t_scheduler_fiber, pc, task, fault,
                  m_activeThreadCount, m_idleThreadCount, main, m_stopping, started>>
    BY DEF ScheduleNew, Wake, fiberVars
<1> QED
    BY <1>1, SameThreads DEF Structure, MainLinks

\* Every step of the scheduler and of the program that uses it preserves Structure.
LEMMA StructureStep == Structure /\ [Next]_vars => Structure'
<1> USE FiberAssumption, SchedulerAssumption
    DEF FiberAssumption, SchedulerAssumption
<1> SUFFICES ASSUME Structure, [Next]_vars PROVE Structure'
    OBVIOUS
<1>1. ASSUME fault = NoFault, MainSchedule PROVE Structure'
  <2>1. MainLinks' /\ ThreadLinks' /\ CountersExact'
    BY <1>1, SameMain DEF MainSchedule
  <2>2. TypeOK'
    BY <1>1, ScheduleNewType, WakeType DEF MainSchedule, Structure
  <2> QED
    BY <2>2, <2>1 DEF Structure
<1>2. ASSUME fault = NoFault, Start PROVE Structure'
  <2>1. CountersExact'
    <3>1. At(InTask)' = At(InTask) /\ At({"idle"})' = At({"idle"})
      BY <1>2 DEF Start, At, InTask, Structure, MainLinks, TypeOK
    <3> QED
      BY <1>2, <3>1 DEF Start, CountersExact, Active, Idle, Structure
  <2>2. FiberTypeOK'
    BY <1>2 DEF Start, FiberTypeOK, Faults, TypeOK, Structure
  <2>3. pc' \in [Threads -> PC]
    BY <1>2 DEF Start, PC, TypeOK, Structure
  <2>4. started' \in BOOLEAN
    BY <1>2 DEF Start, TypeOK, Structure
  <2>5. TypeOK'
    BY <1>2, <2>2, <2>3, <2>4 DEF Start, TypeOK, Structure
  <2>6. MainLinks'
    BY <1>2 DEF Start, TypeOK, FiberTypeOK, fiberVars, schedVars, InTask, Workers,
                Structure, MainLinks
  <2>7. ThreadLinks'
    BY <1>2 DEF Start, TypeOK, FiberTypeOK, fiberVars, schedVars, InTask, Workers,
                Structure, Back, MainLinks, ThreadLinks
  <2> QED
    BY <2>5, <2>6, <2>7, <2>1 DEF Structure
<1>3. ASSUME fault = NoFault, Stop PROVE Structure'
  <2>1. ThreadLinks' /\ CountersExact'
    BY <1>3, SameThreads DEF Stop, fiberVars, schedVars
  <2>2. TypeOK'
    BY <1>3 DEF Stop, TypeOK, FiberTypeOK, fiberVars, schedVars, PC, Main, FiberState,
                Structure
  <2>3. MainLinks'
    BY <1>3 DEF Stop, TypeOK, FiberTypeOK, fiberVars, schedVars, InTask, Workers,
                Structure, MainLinks
  <2> QED
    BY <2>2, <2>3, <2>1 DEF Structure
<1>4. ASSUME fault = NoFault, StopResume PROVE Structure'
  <2>1. CountersExact'
    BY <1>4 DEF StopResume, schedVars, CountersExact, Active, Idle, At, Structure
  <2>2. FiberTypeOK'
    BY <1>4, ResumeEnterType DEF StopResume, TypeOK, Structure
  <2>3. TypeOK'
    BY <1>4, <2>2 DEF StopResume, TypeOK, Main, schedVars, Structure
  <2>4. MainLinks'
    BY <1>4 DEF StopResume, ResumeEnter, TypeOK, FiberTypeOK, fiberVars, schedVars,
                InTask, Workers, Structure, MainLinks
  <2>5. ThreadLinks'
    BY <1>4 DEF StopResume, ResumeEnter, TypeOK, FiberTypeOK, fiberVars, schedVars,
                InTask, Workers, Structure, Back, MainLinks, ThreadLinks
  <2> QED
    BY <2>3, <2>4, <2>5, <2>1 DEF Structure
<1>5. ASSUME fault = NoFault, StopSwapIn PROVE Structure'
  <2>1. CountersExact' /\ m_activeThreadCount' \in Nat /\ m_idleThreadCount' \in Nat
    BY <1>5, CountersMove DEF StopSwapIn, Goto, InTask, PC, schedVars, Structure
  <2>2. FiberTypeOK'
    BY <1>5, SwapInType DEF StopSwapIn, TypeOK, Structure
  <2>3. TypeOK'
    BY <1>5, <2>2 DEF StopSwapIn, Goto, TypeOK, PC, Main, schedVars, Structure
  <2>4. MainLinks'
    BY <1>5 DEF StopSwapIn, SwapIn, Goto, TypeOK, FiberTypeOK, fiberVars, schedVars,
                InTask, Workers, Structure, MainLinks
  <2>5. ThreadLinks'
    BY <1>5 DEF StopSwapIn, SwapIn, Goto, TypeOK, FiberTypeOK, fiberVars, schedVars,
                InTask, Workers, Structure, Back, MainLinks, ThreadLinks
  <2> QED
    BY <2>3, <2>4, <2>5, <2>1 DEF Structure
<1>6. ASSUME fault = NoFault, Join PROVE Structure'
  <2>1. ThreadLinks' /\ CountersExact'
    BY <1>6, SameThreads DEF Join, fiberVars, schedVars
  <2>2. TypeOK'
    BY <1>6 DEF Join, TypeOK, FiberTypeOK, fiberVars, schedVars, PC, Main, FiberState,
                Structure
  <2>3. MainLinks'
    BY <1>6 DEF Join, TypeOK, FiberTypeOK, fiberVars, schedVars, InTask, Workers,
                Structure, MainLinks
  <2> QED
    BY <2>2, <2>3, <2>1 DEF Structure
<1>7. ASSUME fault = NoFault, DestroyScheduler PROVE Structure'
  <2>1. ThreadLinks' /\ CountersExact'
    BY <1>7, SameThreads DEF DestroyScheduler, fiberVars, schedVars
  <2>2. FiberTypeOK'
    BY <1>7 DEF DestroyScheduler, FiberTypeOK, Faults, TypeOK, Structure
  <2>3. TypeOK'
    BY <1>7, <2>2 DEF DestroyScheduler, TypeOK, Main, Structure
  <2>4. MainLinks'
    BY <1>7 DEF DestroyScheduler, TypeOK, FiberTypeOK, fiberVars, schedVars, InTask,
                Workers, Structure, MainLinks
  <2> QED
    BY <2>3, <2>4, <2>1 DEF Structure
<1>8. ASSUME NEW t \in Threads, fault = NoFault, RunInit(t) PROVE Structure'
  <2>1. CountersExact' /\ m_activeThreadCount' \in Nat /\ m_idleThreadCount' \in Nat
    BY <1>8, CountersMove DEF RunInit, Goto, InTask, PC, schedVars, Structure
  <2>2. FiberTypeOK'
    BY <1>8 DEF RunInit, GetThis, FiberTypeOK, TypeOK, Structure
  <2>3. TypeOK'
    BY <1>8, <2>2 DEF RunInit, Goto, TypeOK, PC, FiberState, schedVars, Structure
  <2>4. MainLinks'
    BY <1>8 DEF RunInit, GetThis, Goto, TypeOK, FiberTypeOK, fiberVars, schedVars,
                InTask, Workers, Structure, MainLinks
  <2>5. ThreadLinks'
    BY <1>8 DEF RunInit, GetThis, Goto, TypeOK, FiberTypeOK, fiberVars, schedVars,
                InTask, Workers, Structure, Back, MainLinks, ThreadLinks
  <2> QED
    BY <2>3, <2>4, <2>5, <2>1 DEF Structure
<1>9. ASSUME NEW t \in Threads, fault = NoFault, PickTask(t) PROVE Structure'
  <2>1. CountersExact' /\ m_activeThreadCount' \in Nat /\ m_idleThreadCount' \in Nat
    BY <1>9, CountersMove DEF PickTask, Goto, InTask, PC, schedVars, Structure
  <2>2. PICK i \in DOMAIN m_tasks :
             /\ Eligible(t, i)
             /\ task' = [task EXCEPT ![t] = m_tasks[i]]
             /\ m_tasks' = RemoveAt(m_tasks, i)
    BY <1>9 DEF PickTask, Erase
  <2>3. m_tasks' \in Seq(ScheduleTask)
    BY <2>2, RemoveAtType DEF TypeOK, Structure
  <2>4. m_tasks[i] \in ScheduleTask
    BY <2>2 DEF TypeOK, Structure
  <2>5. task' \in [Threads -> ScheduleTask \cup {NoTask}]
    BY <2>2, <2>4 DEF TypeOK, Structure
  <2>6. FiberTypeOK'
    BY <1>9 DEF PickTask, fiberVars, FiberTypeOK, TypeOK, Structure
  <2>7. TypeOK'
    BY <1>9, <2>3, <2>5, <2>6 DEF PickTask, Goto, PC, InTask, TypeOK, Structure
  <2>8. MainLinks'
    BY <1>9 DEF PickTask, Goto, Eligible, TypeOK, FiberTypeOK, fiberVars, schedVars,
                InTask, Workers, Structure, MainLinks
  <2>9. ThreadLinks'
    BY <1>9 DEF PickTask, Goto, Eligible, TypeOK, FiberTypeOK, fiberVars, schedVars,
                InTask, Workers, Structure, Back, MainLinks, ThreadLinks
  <2> QED
    BY <2>7, <2>8, <2>9, <2>1 DEF Structure
<1>10. ASSUME NEW t \in Threads, fault = NoFault, EnterIdle(t) PROVE Structure'
  <2>1. CountersExact' /\ m_activeThreadCount' \in Nat /\ m_idleThreadCount' \in Nat
    BY <1>10, CountersMove DEF EnterIdle, Goto, InTask, PC, schedVars, Structure
  <2>2. TypeOK'
    BY <1>10 DEF EnterIdle, Goto, TypeOK, FiberTypeOK, fiberVars, schedVars, PC, Main,
                 FiberState, Structure
  <2>3. MainLinks'
    BY <1>10 DEF EnterIdle, Goto, TypeOK, FiberTypeOK, fiberVars, schedVars, InTask,
                 Workers, Structure, MainLinks
  <2>4. ThreadLinks'
    BY <1>10 DEF EnterIdle, Goto, TypeOK, FiberTypeOK, fiberVars, schedVars, InTask,
                 Workers, Structure, Back, MainLinks, ThreadLinks
  <2> QED
    BY <2>2, <2>3, <2>4, <2>1 DEF Structure
<1>11. ASSUME NEW t \in Threads, fault = NoFault, LeaveIdle(t) PROVE Structure'
  <2>1. CountersExact' /\ m_activeThreadCount' \in Nat /\ m_idleThreadCount' \in Nat
    BY <1>11, CountersMove DEF LeaveIdle, Goto, InTask, PC, schedVars, Structure
  <2>2. FiberTypeOK'
    BY <1>11 DEF LeaveIdle, FiberTypeOK, TypeOK, Structure
  <2>3. m_idleThreadCount' \in Nat
    BY <2>1
  <2>4. TypeOK'
    BY <1>11, <2>2, <2>3 DEF LeaveIdle, Goto, TypeOK, PC, FiberState, Structure
  <2>5. MainLinks'
    BY <1>11 DEF LeaveIdle, Goto, TypeOK, FiberTypeOK, fiberVars, schedVars, InTask,
                 Workers, Structure, MainLinks
  <2>6. ThreadLinks'
    BY <1>11 DEF LeaveIdle, Goto, TypeOK, FiberTypeOK, fiberVars, schedVars, InTask,
                 Workers, Structure, Back, MainLinks, ThreadLinks
  <2> QED
    BY <2>4, <2>5, <2>6, <2>1 DEF Structure
<1>12. ASSUME NEW t \in Threads, fault = NoFault, ExitWorker(t) PROVE Structure'
  <2>1. CountersExact' /\ m_activeThreadCount' \in Nat /\ m_idleThreadCount' \in Nat
    BY <1>12, CountersMove DEF ExitWorker, Goto, InTask, PC, schedVars, Structure
  <2>2. FiberTypeOK'
    BY <1>12, DestroyMainType DEF ExitWorker, TypeOK, Structure
  <2>3. TypeOK'
    BY <1>12, <2>2 DEF ExitWorker, Goto, TypeOK, PC, schedVars, Structure
  <2>4. MainLinks'
    BY <1>12 DEF ExitWorker, Goto, DestroyMain, TypeOK, FiberTypeOK, fiberVars,
                 schedVars, InTask, Workers, Structure, MainLinks
  <2>5. ThreadLinks'
    BY <1>12 DEF ExitWorker, Goto, DestroyMain, TypeOK, FiberTypeOK, fiberVars,
                 schedVars, InTask, Workers, Structure, Back, MainLinks, ThreadLinks
  <2> QED
    BY <2>3, <2>4, <2>5, <2>1 DEF Structure
<1>13. ASSUME NEW t \in Threads, fault = NoFault, RootReturn(t) PROVE Structure'
  <2>1. CountersExact' /\ m_activeThreadCount' \in Nat /\ m_idleThreadCount' \in Nat
    BY <1>13, CountersMove DEF RootReturn, Goto, InTask, PC, schedVars, Structure
  <2>2. FiberTypeOK'
    BY <1>13, MainFuncEndType DEF RootReturn, TypeOK, Structure
  <2>3. TypeOK'
    BY <1>13, <2>2 DEF RootReturn, Goto, TypeOK, PC, schedVars, Structure
  <2>4. MainLinks'
    BY <1>13 DEF RootReturn, Goto, MainFuncEnd, TypeOK, FiberTypeOK, fiberVars,
                 schedVars, InTask, Workers, Structure, MainLinks
  <2>5. ThreadLinks'
    BY <1>13 DEF RootReturn, Goto, MainFuncEnd, TypeOK, FiberTypeOK, fiberVars,
                 schedVars, InTask, Workers, Structure, Back, MainLinks, ThreadLinks
  <2> QED
    BY <2>3, <2>4, <2>5, <2>1 DEF Structure
<1>14. ASSUME NEW t \in Threads, fault = NoFault, RootSwapOut(t) PROVE Structure'
  <2>1. CountersExact' /\ m_activeThreadCount' \in Nat /\ m_idleThreadCount' \in Nat
    BY <1>14, CountersMove DEF RootSwapOut, Goto, InTask, PC, schedVars, Structure
  <2>2. Back(t, Root) # Null
    BY <1>14 DEF RootSwapOut, Goto, Back, MainLinks, ThreadLinks, Structure
  <2>3. FiberTypeOK'
    BY <1>14, <2>2, SwapOutType DEF RootSwapOut, TypeOK, Structure
  <2>4. TypeOK'
    BY <1>14, <2>3 DEF RootSwapOut, Goto, TypeOK, PC, Main, schedVars, Structure
  <2>5. MainLinks'
    BY <1>14 DEF RootSwapOut, Goto, SwapOut, TypeOK, FiberTypeOK, fiberVars,
                 schedVars, InTask, Workers, Structure, MainLinks
  <2>6. ThreadLinks'
    BY <1>14 DEF RootSwapOut, Goto, SwapOut, TypeOK, FiberTypeOK, fiberVars,
                 schedVars, InTask, Workers, Structure, Back, MainLinks, ThreadLinks
  <2> QED
    BY <2>4, <2>5, <2>6, <2>1 DEF Structure
<1>15. ASSUME NEW t \in Threads, fault = NoFault, RunFiber(t) PROVE Structure'
  <2>1. CountersExact' /\ m_activeThreadCount' \in Nat /\ m_idleThreadCount' \in Nat
    BY <1>15, CountersMove DEF RunFiber, Goto, InTask, PC, schedVars, Structure
  <2>2. task[t].fiber \in Fibers
    BY <1>15 DEF RunFiber, Goto, InTask, ScheduleTask, Tasks, ThreadLinks, Structure
  <2>3. FiberTypeOK'
    BY <1>15, <2>2, ResumeEnterType DEF RunFiber, TypeOK, Structure
  <2>4. TypeOK'
    BY <1>15, <2>3 DEF RunFiber, Goto, TypeOK, PC, InTask, schedVars, Structure
  <2>5. MainLinks'
    BY <1>15 DEF RunFiber, Goto, ResumeEnter, TypeOK, FiberTypeOK, fiberVars,
                 schedVars, InTask, Workers, Structure, MainLinks
  <2>6. ThreadLinks'
    <3>1. CASE fault' = NoFault
      BY <1>15, <3>1 DEF RunFiber, Goto, ResumeEnter, TypeOK, FiberTypeOK, fiberVars,
                         schedVars, InTask, Workers, Structure, ScheduleTask, NoFault,
                         Back, MainLinks, ThreadLinks
    <3>2. CASE fault' # NoFault
      BY <1>15, <3>2 DEF RunFiber, Goto, ResumeEnter, TypeOK, FiberTypeOK, fiberVars,
                         schedVars, InTask, Workers, Structure, ScheduleTask, NoFault,
                         Back, MainLinks, ThreadLinks
    <3> QED
      BY <3>1, <3>2
  <2> QED
    BY <2>4, <2>5, <2>6, <2>1 DEF Structure
<1>16. ASSUME NEW t \in Threads, fault = NoFault, RunCallback(t) PROVE Structure'
  <2>1. CountersExact' /\ m_activeThreadCount' \in Nat /\ m_idleThreadCount' \in Nat
    BY <1>16, CountersMove DEF RunCallback, Goto, InTask, PC, schedVars, Structure
  <2>2. task[t].fiber \in Fibers
    BY <1>16 DEF RunCallback, Goto, InTask, ScheduleTask, Tasks, ThreadLinks,
                 Structure
  <2>3. FiberTypeOK'
    BY <1>16, <2>2 DEF RunCallback, FiberTypeOK, FiberState, Context, TypeOK,
                       Structure
  <2>4. TypeOK'
    BY <1>16, <2>3 DEF RunCallback, Goto, TypeOK, PC, InTask, schedVars, Structure
  <2>5. MainLinks'
    BY <1>16 DEF RunCallback, Goto, TypeOK, FiberTypeOK, fiberVars, schedVars, InTask,
                 Workers, Structure, MainLinks
  <2>6. ThreadLinks'
    BY <1>16 DEF RunCallback, Goto, TypeOK, FiberTypeOK, fiberVars, schedVars, InTask,
                 Workers, Structure, Back, MainLinks, ThreadLinks
  <2> QED
    BY <2>4, <2>5, <2>6, <2>1 DEF Structure
<1>17. ASSUME NEW t \in Threads, fault = NoFault, TaskSwapIn(t) PROVE Structure'
  <2>1. CountersExact' /\ m_activeThreadCount' \in Nat /\ m_idleThreadCount' \in Nat
    BY <1>17, CountersMove DEF TaskSwapIn, Goto, InTask, PC, schedVars, Structure
  <2>2. task[t].fiber \in Fibers
    BY <1>17 DEF TaskSwapIn, Goto, InTask, ScheduleTask, Tasks, ThreadLinks, Structure
  <2>3. FiberTypeOK'
    BY <1>17, <2>2, SwapInType DEF TaskSwapIn, TypeOK, Structure
  <2>4. TypeOK'
    BY <1>17, <2>3 DEF TaskSwapIn, Goto, TypeOK, PC, InTask, schedVars, Structure
  <2>5. MainLinks'
    BY <1>17 DEF TaskSwapIn, Goto, SwapIn, TypeOK, FiberTypeOK, fiberVars, schedVars,
                 InTask, Workers, Structure, MainLinks
  <2>6. ThreadLinks'
    <3>1. CASE fault' = NoFault
      BY <1>17, <3>1 DEF TaskSwapIn, Goto, SwapIn, TypeOK, FiberTypeOK, fiberVars,
                         schedVars, InTask, Workers, Structure, ScheduleTask, NoFault,
                         Back, MainLinks, ThreadLinks
    <3>2. CASE fault' # NoFault
      BY <1>17, <3>2 DEF TaskSwapIn, Goto, SwapIn, TypeOK, FiberTypeOK, fiberVars,
                         schedVars, InTask, Workers, Structure, ScheduleTask, NoFault,
                         Back, MainLinks, ThreadLinks
    <3> QED
      BY <3>1, <3>2
  <2> QED
    BY <2>4, <2>5, <2>6, <2>1 DEF Structure
<1>18. ASSUME NEW t \in Threads, fault = NoFault, BodySchedule(t) PROVE Structure'
  <2>1. MainLinks' /\ ThreadLinks' /\ CountersExact'
    BY <1>18, SameMain DEF BodySchedule
  <2>2. TypeOK'
    BY <1>18, ScheduleNewType, WakeType DEF BodySchedule, Structure
  <2> QED
    BY <2>2, <2>1 DEF Structure
<1>19. ASSUME NEW t \in Threads, fault = NoFault, BodyReschedule(t) PROVE Structure'
  <2>1. CountersExact' /\ m_activeThreadCount' \in Nat /\ m_idleThreadCount' \in Nat
    BY <1>19, CountersMove DEF BodyReschedule, Goto, InTask, PC, schedVars, Structure
  <2>2. t_fiber[t] \in Tasks
    BY <1>19 DEF BodyReschedule, Goto, InTask, ScheduleTask, ThreadLinks, Structure
  <2>3. PICK p \in Pins : Push(t_fiber[t], FALSE, p)
    BY <1>19 DEF BodyReschedule
  <2>4. [fiber |-> t_fiber[t], cb |-> FALSE, thread |-> p] \in ScheduleTask
    BY <2>2 DEF ScheduleTask, Pins, Workers
  <2>5. m_tasks' \in Seq(ScheduleTask)
    BY <2>3, <2>4 DEF Push, TypeOK, Structure
  <2>6. TypeOK'
    BY <1>19, <2>5 DEF BodyReschedule, Goto, fiberVars, FiberTypeOK, PC, InTask,
                      TypeOK, Structure
  <2>7. MainLinks'
    BY <1>19 DEF BodyReschedule, Goto, TypeOK, FiberTypeOK, fiberVars, schedVars,
                 InTask, Workers, Structure, MainLinks
  <2>8. ThreadLinks'
    BY <1>19 DEF BodyReschedule, Goto, TypeOK, FiberTypeOK, fiberVars, schedVars,
                 InTask, Workers, Structure, Back, MainLinks, ThreadLinks
  <2> QED
    BY <2>6, <2>7, <2>8, <2>1 DEF Structure
<1>20. ASSUME NEW t \in Threads, fault = NoFault, BodyPark(t) PROVE Structure'
  <2>1. CountersExact' /\ m_activeThreadCount' \in Nat /\ m_idleThreadCount' \in Nat
    BY <1>20, CountersMove DEF BodyPark, Goto, InTask, PC, schedVars, Structure
  <2>2. t_fiber[t] \in Tasks
    BY <1>20 DEF BodyPark, Goto, InTask, ScheduleTask, ThreadLinks, Structure
  <2>3. TypeOK'
    BY <1>20, <2>2 DEF BodyPark, Goto, fiberVars, schedVars, FiberTypeOK, PC, InTask,
                      TypeOK, Structure
  <2>4. MainLinks'
    BY <1>20 DEF BodyPark, Goto, TypeOK, FiberTypeOK, fiberVars, schedVars, InTask,
                 Workers, Structure, MainLinks
  <2>5. ThreadLinks'
    BY <1>20 DEF BodyPark, Goto, TypeOK, FiberTypeOK, fiberVars, schedVars, InTask,
                 Workers, Structure, Back, MainLinks, ThreadLinks
  <2> QED
    BY <2>3, <2>4, <2>5, <2>1 DEF Structure
<1>21. ASSUME NEW t \in Threads, fault = NoFault, BodyYield(t) PROVE Structure'
  <2>1. CountersExact' /\ m_activeThreadCount' \in Nat /\ m_idleThreadCount' \in Nat
    BY <1>21, CountersMove DEF BodyYield, Goto, InTask, PC, schedVars, Structure
  <2>2. t_fiber[t] \in Fibers
    BY <1>21 DEF BodyYield, Goto, InTask, ScheduleTask, Tasks, ThreadLinks, Structure
  <2>3. FiberTypeOK'
    BY <1>21, <2>2, YieldMarkType DEF BodyYield, TypeOK, Structure
  <2>4. TypeOK'
    BY <1>21, <2>3 DEF BodyYield, Goto, TypeOK, PC, InTask, schedVars, Structure
  <2>5. MainLinks'
    BY <1>21 DEF BodyYield, Goto, YieldMark, TypeOK, FiberTypeOK, fiberVars,
                 schedVars, InTask, Workers, Structure, MainLinks
  <2>6. ThreadLinks'
    BY <1>21 DEF BodyYield, Goto, YieldMark, TypeOK, FiberTypeOK, fiberVars,
                 schedVars, InTask, Workers, Structure, Back, MainLinks, ThreadLinks
  <2> QED
    BY <2>4, <2>5, <2>6, <2>1 DEF Structure
<1>22. ASSUME NEW t \in Threads, fault = NoFault, BodyReturn(t) PROVE Structure'
  <2>1. CountersExact' /\ m_activeThreadCount' \in Nat /\ m_idleThreadCount' \in Nat
    BY <1>22, CountersMove DEF BodyReturn, Goto, InTask, PC, schedVars, Structure
  <2>2. exec[t] \in Fibers
    BY <1>22 DEF BodyReturn, Goto, InTask, ScheduleTask, Tasks, ThreadLinks, Structure
  <2>3. FiberTypeOK'
    BY <1>22, <2>2, MainFuncEndType DEF BodyReturn, TypeOK, Structure
  <2>4. TypeOK'
    BY <1>22, <2>3 DEF BodyReturn, Goto, TypeOK, PC, InTask, schedVars, Structure
  <2>5. MainLinks'
    BY <1>22 DEF BodyReturn, Goto, MainFuncEnd, TypeOK, FiberTypeOK, fiberVars,
                 schedVars, InTask, Workers, Structure, MainLinks
  <2>6. ThreadLinks'
    BY <1>22 DEF BodyReturn, Goto, MainFuncEnd, TypeOK, FiberTypeOK, fiberVars,
                 schedVars, InTask, Workers, Structure, Back, MainLinks, ThreadLinks
  <2> QED
    BY <2>4, <2>5, <2>6, <2>1 DEF Structure
<1>23. ASSUME NEW t \in Threads, fault = NoFault, TaskSwapOut(t) PROVE Structure'
  <2>1. CountersExact' /\ m_activeThreadCount' \in Nat /\ m_idleThreadCount' \in Nat
    BY <1>23, CountersMove DEF TaskSwapOut, Goto, InTask, PC, schedVars, Structure
  <2>2. exec[t] \in Tasks /\ t_scheduler_fiber[t] # Null
    BY <1>23 DEF TaskSwapOut, Goto, InTask, ScheduleTask, ThreadLinks, Structure
  <2>3. FiberTypeOK'
    BY <1>23, <2>2, SwapOutType DEF TaskSwapOut, Back, Tasks, TypeOK, Structure
  <2>4. TypeOK'
    BY <1>23, <2>3 DEF TaskSwapOut, Goto, TypeOK, PC, InTask, schedVars, Structure
  <2>5. MainLinks'
    BY <1>23 DEF TaskSwapOut, Goto, SwapOut, TypeOK, FiberTypeOK, fiberVars,
                 schedVars, InTask, Workers, Structure, MainLinks
  <2>6. ThreadLinks'
    BY <1>23 DEF TaskSwapOut, Goto, SwapOut, TypeOK, FiberTypeOK, fiberVars,
                 schedVars, InTask, Workers, Structure, Back, MainLinks, ThreadLinks
  <2> QED
    BY <2>4, <2>5, <2>6, <2>1 DEF Structure
<1>24. ASSUME NEW t \in Threads, fault = NoFault, TaskDone(t) PROVE Structure'
  <2>1. CountersExact' /\ m_activeThreadCount' \in Nat /\ m_idleThreadCount' \in Nat
    BY <1>24, CountersMove DEF TaskDone, Goto, InTask, PC, schedVars, Structure
  <2>2. m_activeThreadCount' \in Nat
    BY <2>1
  <2>3. TypeOK'
    BY <1>24, <2>2 DEF TaskDone, Goto, TypeOK, PC, InTask, fiberVars, FiberTypeOK,
                       Structure
  <2>4. MainLinks'
    BY <1>24 DEF TaskDone, Goto, TypeOK, FiberTypeOK, fiberVars, schedVars, InTask,
                 Workers, Structure, MainLinks
  <2>5. ThreadLinks'
    BY <1>24 DEF TaskDone, Goto, TypeOK, FiberTypeOK, fiberVars, schedVars, InTask,
                 Workers, Structure, Back, MainLinks, ThreadLinks
  <2> QED
    BY <2>3, <2>4, <2>5, <2>1 DEF Structure
<1>25. ASSUME UNCHANGED vars PROVE Structure'
    BY <1>25 DEF vars, fiberVars, schedVars, Structure, TypeOK, FiberTypeOK,
                 MainLinks,
                ThreadLinks, CountersExact, Active, Idle, At
<1> QED
    BY <1>1, <1>2, <1>3, <1>4, <1>5, <1>6, <1>7, <1>8, <1>9, <1>10, <1>11, <1>12,
       <1>13, <1>14, <1>15, <1>16, <1>17, <1>18, <1>19, <1>20, <1>21, <1>22, <1>23,
       <1>24, <1>25
    DEF Next, Step, Ended, MainStep, ThreadStep

-----------------------------------------------------------------------------
\* stopping() is stable.  Given Structure, an action that could add a task or take
\* one contradicts what stopping() has seen: the main thread schedules only before
\* m_stopping is set, and only a thread with a task in hand, hence counted, may
\* schedule otherwise.
Quiet == m_stopping /\ m_tasks = <<>> /\ Active = {}

\* What stopping() sees is quiet, because the count of active threads is exact.
LEMMA StoppingIsQuiet ==
    ASSUME Structure, stopping
    PROVE  Quiet
<1>1. IsFiniteSet(Active)
  <2>1. Active \subseteq Threads
    BY DEF Active, At
  <2> QED
    BY <2>1, FS_Subset, SchedulerAssumption DEF SchedulerAssumption
<1> QED
    BY <1>1, FS_EmptySet DEF stopping, Structure, CountersExact, Quiet

\* What is quiet stays so.
LEMMA QuietStep ==
    ASSUME Structure, Quiet, [Next]_vars
    PROVE  Quiet'
<1> USE FiberAssumption, SchedulerAssumption
    DEF FiberAssumption, SchedulerAssumption
<1>1. main # "user"
    BY DEF Quiet, Structure, MainLinks
<1>2. \A t \in Threads : pc[t] \notin InTask
    BY DEF Quiet, Active, At
<1>3. ~MainSchedule
    BY <1>1 DEF MainSchedule
<1>4. ASSUME Start \/ Stop \/ StopResume \/ Join \/ DestroyScheduler
      PROVE  Quiet'
    BY <1>4 DEF Start, Stop, StopResume, Join, DestroyScheduler, Quiet, schedVars,
                Active, At
<1>5. ASSUME StopSwapIn
      PROVE  Quiet'
    BY <1>2, <1>5 DEF StopSwapIn, Goto, Quiet, schedVars, Active, At, InTask,
                      Structure, TypeOK
<1>6. ASSUME NEW t \in Threads, ThreadStep(t)
      PROVE  Quiet'
  <2>1. ~PickTask(t)
    BY DEF PickTask, Quiet
  <2>2. /\ ~RunFiber(t) /\ ~RunCallback(t) /\ ~TaskSwapIn(t) /\ ~BodySchedule(t)
        /\ ~BodyReschedule(t) /\ ~BodyPark(t) /\ ~BodyYield(t) /\ ~BodyReturn(t)
        /\ ~TaskSwapOut(t) /\ ~TaskDone(t)
    BY <1>2 DEF RunFiber, RunCallback, TaskSwapIn, BodySchedule, BodyReschedule,
                BodyPark, BodyYield, BodyReturn, TaskSwapOut, TaskDone, Goto, InTask
  <2>3. CASE RunInit(t) \/ EnterIdle(t) \/ LeaveIdle(t)
    BY <1>2, <2>3 DEF RunInit, EnterIdle, LeaveIdle, Goto, Quiet, schedVars, Active,
                      At, InTask, Structure, TypeOK
  <2>4. CASE ExitWorker(t) \/ RootReturn(t) \/ RootSwapOut(t)
    BY <1>2, <2>4 DEF ExitWorker, RootReturn, RootSwapOut, Goto, Quiet, schedVars,
                      Active, At, InTask, Structure, TypeOK
  <2> QED
    BY <1>6, <2>1, <2>2, <2>3, <2>4 DEF ThreadStep
<1>7. ASSUME UNCHANGED vars
      PROVE  Quiet'
    BY <1>7 DEF vars, schedVars, Quiet, Active, At
<1> QED
    BY <1>3, <1>4, <1>5, <1>6, <1>7 DEF Next, Step, Ended, MainStep

\* The idle fiber of a thread ends only where stopping() is seen.
LEMMA IdleEndsQuiet ==
    ASSUME Structure, [Next]_vars, NEW t \in Threads, idle'[t] = "TERM"
    PROVE  idle[t] = "TERM" \/ Quiet
<1>1. ASSUME NEW u \in Threads, LeaveIdle(u)
      PROVE  idle[t] = "TERM" \/ Quiet
  <2>1. CASE stopping
    BY <2>1, StoppingIsQuiet
  <2>2. CASE ~stopping
    BY <1>1, <2>2 DEF LeaveIdle, Structure, TypeOK
  <2> QED
    BY <2>1, <2>2
<1>2. ASSUME NEW u \in Threads, RunInit(u) \/ EnterIdle(u)
      PROVE  idle[t] = "TERM"
    BY <1>2 DEF RunInit, EnterIdle, Structure, TypeOK
<1>3. ASSUME MainStep
      PROVE  idle'[t] = idle[t]
    BY <1>3 DEF MainStep, MainSchedule, ScheduleNew, Wake, Start, Stop, StopResume,
                StopSwapIn, Join, DestroyScheduler
<1>4. ASSUME NEW u \in Threads, ThreadStep(u),
             ~LeaveIdle(u), ~RunInit(u), ~EnterIdle(u)
      PROVE  idle'[t] = idle[t]
    BY <1>4 DEF ThreadStep, PickTask, ExitWorker, RootReturn, RootSwapOut, RunFiber,
                RunCallback, TaskSwapIn, BodySchedule, ScheduleNew, Wake,
                BodyReschedule, BodyPark, BodyYield, BodyReturn, TaskSwapOut, TaskDone
<1>5. ASSUME UNCHANGED vars
      PROVE  idle'[t] = idle[t]
    BY <1>5 DEF vars
<1> QED
    BY <1>1, <1>2, <1>3, <1>4, <1>5 DEF Next, Step, Ended

-----------------------------------------------------------------------------
\* The inductive invariant holds of every behaviour of the scheduler.
THEOREM StructureCorrect == Spec => []Structure
<1> QED
    BY StructureInit, StructureStep, PTL DEF Spec

\* The state of the scheduler keeps its types, in every instance; in particular
\* neither counter is ever taken below zero.
THEOREM TypeCorrect == Spec => []TypeOK
<1>1. Structure => TypeOK
    BY DEF Structure
<1> QED
    BY <1>1, StructureCorrect, PTL

\* m_activeThreadCount and m_idleThreadCount count the threads exactly.
THEOREM CountersCorrect == Spec => []CountersExact
<1>1. Structure => CountersExact
    BY DEF Structure
<1> QED
    BY <1>1, StructureCorrect, PTL

\* GetThis() in the code of a task is that task's fiber, on the thread it is bound to.
THEOREM CurrentTaskCorrect == Spec => []CurrentTask
<1>1. Structure => CurrentTask
    BY DEF Structure, ThreadLinks, CurrentTask, InTask
<1> QED
    BY <1>1, StructureCorrect, PTL

\* No thread leaves run() while a task is queued or running, for any number of
\* threads and tasks.
THEOREM QuiescentExitCorrect == Spec => []QuiescentExit
<1>1. Init => QuiescentExit
    BY DEF Init, QuiescentExit
<1>2. Structure /\ QuiescentExit /\ [Next]_vars => QuiescentExit'
  <2> SUFFICES ASSUME Structure, QuiescentExit, [Next]_vars,
                      NEW t \in Threads, idle'[t] = "TERM"
               PROVE  Quiet'
    BY DEF QuiescentExit, Quiet
  <2>1. Quiet
    BY IdleEndsQuiet DEF QuiescentExit, Quiet
  <2> QED
    BY <2>1, QuietStep
<1> QED
    BY <1>1, <1>2, StructureCorrect, PTL DEF Spec
=============================================================================
