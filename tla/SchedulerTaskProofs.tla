------------------------- MODULE SchedulerTaskProofs -------------------------
(***************************************************************************)
(* Proofs about the tasks of Scheduler: where a task can be and what state   *)
(* its fiber is in there; hence no task is lost, doubled or resumed while it  *)
(* runs, stop() leaves none behind, and the scheduler implements TaskPool.   *)
(***************************************************************************)
EXTENDS SchedulerProofs

\* The queue, as far as one task is concerned: its positions, and whether it is
\* there as a function (TRUE) or as a fiber (FALSE).
Pos(f)  == {i \in DOMAIN m_tasks : m_tasks[i].fiber = f}
Cbs(f)  == {m_tasks[i].cb : i \in Pos(f)}
Once(f) == \A i, j \in Pos(f) : i = j

\* Where the task f is, and the state of its fiber there.  A thread that holds it
\* may have put it back, or parked it, before it has yielded ("leaving"); then it
\* is RUNNING, which is what keeps the other threads from taking it.  In nobody's
\* hands it is queued, or parked, or has ended.
Place(f) ==
    /\ Once(f)
    /\ \A t, u \in Threads : Holds(t, f) /\ Holds(u, f) => t = u
    /\ f \in parked => Cbs(f) = {}
    /\ \A t \in Threads : Holds(t, f) =>
          /\ m_state[f] = IF pc[t] # "picked" THEN "RUNNING"
                          ELSE IF task[t].cb THEN "none" ELSE "READY"
          /\ pc[t] = "leaving" <=> Cbs(f) # {} \/ f \in parked
          /\ TRUE \notin Cbs(f)
    /\ (\A t \in Threads : ~Holds(t, f)) =>
          /\ Cbs(f) # {} => m_state[f] = IF TRUE \in Cbs(f) THEN "none" ELSE "READY"
          /\ f \in parked => m_state[f] = "READY"
          /\ Cbs(f) = {} /\ f \notin parked =>
                m_state[f] = IF f \in submitted THEN "TERM" ELSE "none"
    /\ f \notin submitted =>
          Cbs(f) = {} /\ f \notin parked /\ \A t \in Threads : ~Holds(t, f)

Places == fault = NoFault /\ main # "destroyed" => \A f \in Tasks : Place(f)

\* How the threads come to an end, and stop() with them.  The root fiber is not
\* resumed before the first stop().
Ends ==
    /\ \A t \in Threads : pc[t] \in {"rootout", "exited"} => idle[t] = "TERM"
    /\ started => \A t \in Workers : pc[t] # "off"
    /\ main \in {"stopped", "destroyed"} =>
          \A t \in Threads : pc[t] \in {"off", "exited"}
    /\ UseCaller /\ main \in {"join", "stopped", "destroyed"} => pc[Caller] = "exited"
    /\ UseCaller /\ main \in {"user", "resume"} => m_state[Root] = "READY"

Base == Structure /\ QuiescentExit /\ Ends
-----------------------------------------------------------------------------
\* What erasing one element of a sequence leaves at each position.
LEMMA RemoveAtElements ==
    ASSUME NEW S, NEW s \in Seq(S), NEW i \in DOMAIN s
    PROVE  /\ DOMAIN RemoveAt(s, i) = 1..(Len(s) - 1)
           /\ \A j \in 1..(Len(s) - 1) :
                 RemoveAt(s, i)[j] = s[IF j < i THEN j ELSE j + 1]
<1>1. i \in 1..Len(s) /\ Len(s) \in Nat /\ \A j \in 1..Len(s) : s[j] \in S
  OBVIOUS
<1> DEFINE a == SubSeq(s, 1, i-1)
           b == SubSeq(s, i+1, Len(s))
<1>2. a \in Seq(S) /\ Len(a) = i - 1 /\ \A j \in 1..(i-1) : a[j] = s[j]
  BY <1>1
<1>3. b \in Seq(S) /\ Len(b) = Len(s) - i /\ \A j \in 1..(Len(s) - i) : b[j] = s[i + j]
  BY <1>1
<1>4. RemoveAt(s, i) = a \o b
  BY DEF RemoveAt
<1> HIDE DEF a, b
<1>5. /\ Len(a \o b) = Len(s) - 1 /\ a \o b \in Seq(S)
      /\ \A j \in 1..(Len(s) - 1) :
            (a \o b)[j] = IF j <= i - 1 THEN a[j] ELSE b[j - (i - 1)]
  <2>1. Len(a \o b) = Len(s) - 1
    BY <1>1, <1>2, <1>3
  <2>2. a \o b \in Seq(S)
    BY <1>2, <1>3
  <2>3. ASSUME NEW j \in 1..(Len(s) - 1)
        PROVE  (a \o b)[j] = IF j <= i - 1 THEN a[j] ELSE b[j - (i - 1)]
    <3>1. a \in Seq(S) /\ b \in Seq(S)
      BY <1>2, <1>3
    <3>2. j \in 1..(Len(a) + Len(b)) /\ Len(a) = i - 1
      BY <1>1, <1>2, <1>3
    <3>3. (a \o b)[j] = IF j <= Len(a) THEN a[j] ELSE b[j - Len(a)]
      BY ONLY <3>1, <3>2
    <3> QED
      BY <3>2, <3>3
  <2> QED
    BY <2>1, <2>2, <2>3
<1>6. DOMAIN RemoveAt(s, i) = 1..(Len(s) - 1)
  BY <1>4, <1>5
<1>7. ASSUME NEW j \in 1..(Len(s) - 1), j < i
      PROVE  RemoveAt(s, i)[j] = s[j]
  BY <1>1, <1>2, <1>4, <1>5, <1>7
<1>8. ASSUME NEW j \in 1..(Len(s) - 1), ~(j < i)
      PROVE  RemoveAt(s, i)[j] = s[j + 1]
  <2>1. j - (i - 1) \in 1..(Len(s) - i) /\ i + (j - (i - 1)) = j + 1 /\ ~(j <= i - 1)
    BY <1>1, <1>8
  <2>2. (a \o b)[j] = b[j - (i - 1)]
    BY <1>5, <2>1
  <2>3. b[j - (i - 1)] = s[i + (j - (i - 1))]
    BY <1>3, <2>1
  <2> QED
    BY <1>4, <2>1, <2>2, <2>3
<1> QED
  BY <1>6, <1>7, <1>8

\* A task handed to the queue is in it, once if it was not; the others are where
\* they were.
LEMMA PushFacts ==
    ASSUME TypeOK, NEW f, NEW cb, NEW p, Push(f, cb, p)
    PROVE  /\ Cbs(f)' = Cbs(f) \cup {cb}
           /\ Cbs(f) = {} => Once(f)'
           /\ \A g : g # f => Cbs(g)' = Cbs(g) /\ (Once(g) => Once(g)')
<1> DEFINE n == Len(m_tasks) + 1
<1>1. /\ n \in Nat /\ DOMAIN m_tasks = 1..Len(m_tasks) /\ Len(m_tasks) \in Nat
      /\ DOMAIN m_tasks' = DOMAIN m_tasks \cup {n}
      /\ n \notin DOMAIN m_tasks
      /\ m_tasks'[n] = [fiber |-> f, cb |-> cb, thread |-> p]
      /\ \A i \in DOMAIN m_tasks : m_tasks'[i] = m_tasks[i]
  BY DEF Push, TypeOK
<1> HIDE DEF n
<1>2. Pos(f)' = Pos(f) \cup {n} /\ \A g : g # f => Pos(g)' = Pos(g)
  BY <1>1 DEF Pos
<1>3. \A g : \A i \in Pos(g) : m_tasks'[i].cb = m_tasks[i].cb
  BY <1>1 DEF Pos
<1>4. Cbs(f)' = Cbs(f) \cup {cb}
  BY <1>1, <1>2, <1>3 DEF Cbs
<1>5. \A g : g # f => Cbs(g)' = Cbs(g) /\ (Once(g) => Once(g)')
  BY <1>2, <1>3 DEF Cbs, Once
<1>6. Cbs(f) = {} => Once(f)'
  BY <1>2 DEF Cbs, Once
<1> QED
  BY <1>4, <1>5, <1>6

\* A task taken from the queue is no longer in it, if it was there once; the
\* others are still there.
LEMMA EraseFacts ==
    ASSUME TypeOK, NEW i \in DOMAIN m_tasks, m_tasks' = Erase(i),
           NEW f, f = m_tasks[i].fiber
    PROVE  /\ Once(f) => Cbs(f)' = {} /\ Once(f)'
           /\ \A g : g # f => Cbs(g)' = Cbs(g) /\ (Once(g) => Once(g)')
<1> DEFINE Was(j) == IF j < i THEN j ELSE j + 1
           N == Len(m_tasks)
<1>1. N \in Nat /\ DOMAIN m_tasks = 1..N /\ i \in 1..N
  BY DEF TypeOK
<1>2. /\ DOMAIN m_tasks' = 1..(N - 1)
      /\ \A j \in 1..(N - 1) : m_tasks'[j] = m_tasks[Was(j)]
  <2>1. m_tasks' = RemoveAt(m_tasks, i) /\ m_tasks \in Seq(ScheduleTask)
    BY DEF Erase, TypeOK
  <2> QED
    BY <2>1, RemoveAtElements
<1>3. /\ \A j \in 1..(N - 1) : Was(j) \in 1..N /\ Was(j) # i
      /\ \A j, k \in 1..(N - 1) : Was(j) = Was(k) => j = k
      /\ \A k \in 1..N : k # i => \E j \in 1..(N - 1) : Was(j) = k
  <2>1. \A k \in 1..N : k < i => k \in 1..(N - 1) /\ Was(k) = k
    BY <1>1
  <2>2. \A k \in 1..N : k > i => k - 1 \in 1..(N - 1) /\ Was(k - 1) = k
    BY <1>1
  <2> QED
    BY <1>1, <2>1, <2>2
<1> HIDE DEF Was, N
<1>4. \A g : \A j \in Pos(g)' : /\ j \in 1..(N - 1) /\ Was(j) \in Pos(g) /\ Was(j) # i
                                /\ m_tasks'[j].cb = m_tasks[Was(j)].cb
  BY <1>1, <1>2, <1>3 DEF Pos
<1>5. \A g : g # f => \A k \in Pos(g) : \E j \in Pos(g)' : Was(j) = k
  BY <1>1, <1>2, <1>3 DEF Pos
<1>6. \A g : Once(g) => Once(g)'
  BY <1>3, <1>4 DEF Once
<1>7. \A g : g # f => Cbs(g)' = Cbs(g)
  BY <1>4, <1>5 DEF Cbs
<1>8. i \in Pos(f)
  BY DEF Pos
<1>9. Once(f) => Cbs(f)' = {}
  BY <1>4, <1>8 DEF Once, Cbs
<1> QED
  BY <1>6, <1>7, <1>9

\* Queued(f) in terms of the positions; with one at most, their number.
LEMMA QueuedFacts ==
    ASSUME TypeOK, NEW f
    PROVE  /\ Queued(f) <=> Cbs(f) # {}
           /\ Once(f) => Cardinality(Pos(f)) = IF Cbs(f) = {} THEN 0 ELSE 1
<1>1. Queued(f) <=> Pos(f) # {}
  <2>1. ToSet(m_tasks) = {m_tasks[i] : i \in DOMAIN m_tasks}
    BY DEF ToSet, TypeOK
  <2> QED
    BY <2>1 DEF Queued, Pos
<1>2. Cbs(f) # {} <=> Pos(f) # {}
  BY DEF Cbs
<1>3. ASSUME Once(f), Pos(f) # {}
      PROVE  Cardinality(Pos(f)) = 1
  <2>1. PICK i \in Pos(f) : TRUE
    BY <1>3
  <2>2. Pos(f) = {i}
    BY <1>3, <2>1 DEF Once
  <2> QED
    BY <2>2, FS_Singleton
<1> QED
  BY <1>1, <1>2, <1>3, FS_EmptySet

\* A task that a step does not concern stays where it is.
LEMMA PlaceFrame ==
    ASSUME NEW f, Place(f), Once(f)', Cbs(f)' = Cbs(f), m_state'[f] = m_state[f],
           f \in parked' <=> f \in parked, f \in submitted' <=> f \in submitted,
           \A t \in Threads : Holds(t, f)' <=> Holds(t, f),
           \A t \in Threads : Holds(t, f) => /\ pc'[t] = "picked" <=> pc[t] = "picked"
                                             /\ pc'[t] = "leaving" <=> pc[t] = "leaving"
                                             /\ task'[t].cb = task[t].cb
    PROVE  Place(f)'
BY DEF Place
-----------------------------------------------------------------------------
\* When nothing is queued and no thread has a task, stopping() holds.
LEMMA QuietIsStopping ==
    ASSUME Structure, Quiet
    PROVE  stopping
BY FS_EmptySet DEF Quiet, stopping, Structure, CountersExact

\* The constructor establishes Ends.
LEMMA EndsInit == Init => Ends
BY SchedulerAssumption DEF Init, Ends, SchedulerAssumption

\* Scheduling moves no thread and leaves the root fiber alone.
LEMMA ScheduleEnds ==
    ASSUME Base, NEW f \in Tasks, ScheduleNew(f) \/ Wake(f)
    PROVE  Ends'
<1>1. UNCHANGED <<pc, idle, started, main>>
  BY DEF ScheduleNew, Wake
<1>2. m_state'[Root] = m_state[Root]
  <2>1. Root # f /\ Root \in Fibers
    BY SchedulerAssumption DEF Tasks, SchedulerAssumption
  <2>2. m_state' = m_state \/ m_state' = [m_state EXCEPT ![f] = "READY"]
    BY DEF ScheduleNew, Wake, Construct, fiberVars
  <2> QED
    BY <2>1, <2>2 DEF Base, Structure, TypeOK, FiberTypeOK
<1> QED
  BY <1>1, <1>2 DEF Base, Ends

\* Every step keeps Ends.
LEMMA EndsStep ==
    ASSUME Base, [Next]_vars
    PROVE  Ends'
<1> USE SchedulerAssumption DEF SchedulerAssumption
<1>1. ASSUME fault = NoFault, MainSchedule PROVE Ends'
  BY <1>1, ScheduleEnds DEF MainSchedule
<1>2. ASSUME fault = NoFault, Start PROVE Ends'
  BY <1>2 DEF Start, fiberVars, schedVars, Base, Structure,
       MainLinks, ThreadLinks, TypeOK, FiberTypeOK, InTask, ScheduleTask, Workers, Tasks, Ends
<1>3. ASSUME fault = NoFault, Stop PROVE Ends'
  <2>1. main = "stopped" => ~UseCaller
    <3> SUFFICES ASSUME main = "stopped", UseCaller PROVE FALSE
      OBVIOUS
    <3>1. idle[Caller] = "TERM"
      BY DEF Base, Ends
    <3>2. Quiet
      BY <3>1 DEF Base, QuiescentExit, Quiet
    <3> QED
      BY <1>3, <3>2, QuietIsStopping DEF Stop, Base
  <2> QED
    BY <1>3, <2>1 DEF Stop, fiberVars, Base, Ends
<1>4. ASSUME fault = NoFault, StopResume PROVE Ends'
  BY <1>4 DEF StopResume, ResumeEnter, fiberVars, schedVars, Base, Structure,
       MainLinks, ThreadLinks, TypeOK, FiberTypeOK, InTask, ScheduleTask, Workers, Tasks, Ends
<1>5. ASSUME fault = NoFault, StopSwapIn PROVE Ends'
  BY <1>5 DEF StopSwapIn, SwapIn, Goto, fiberVars, schedVars, Base, Structure,
       MainLinks, ThreadLinks, TypeOK, FiberTypeOK, InTask, ScheduleTask, Workers, Tasks, Ends
<1>6. ASSUME fault = NoFault, Join PROVE Ends'
  BY <1>6 DEF Join, fiberVars, schedVars, Base, Structure,
       MainLinks, ThreadLinks, TypeOK, FiberTypeOK, InTask, ScheduleTask, Workers, Tasks, Ends
<1>7. ASSUME fault = NoFault, DestroyScheduler PROVE Ends'
  BY <1>7 DEF DestroyScheduler, fiberVars, schedVars, Base, Structure,
       MainLinks, ThreadLinks, TypeOK, FiberTypeOK, InTask, ScheduleTask, Workers, Tasks, Ends
<1>8. ASSUME NEW t \in Threads, fault = NoFault, RunInit(t) PROVE Ends'
  BY <1>8 DEF RunInit, Goto, fiberVars, schedVars, Base, Structure,
       MainLinks, ThreadLinks, TypeOK, FiberTypeOK, InTask, ScheduleTask, Workers, Tasks, Ends
<1>9. ASSUME NEW t \in Threads, fault = NoFault, PickTask(t) PROVE Ends'
  BY <1>9 DEF PickTask, Goto, fiberVars, schedVars, Base, Structure,
       MainLinks, ThreadLinks, TypeOK, FiberTypeOK, InTask, ScheduleTask, Workers, Tasks, Ends
<1>10. ASSUME NEW t \in Threads, fault = NoFault, EnterIdle(t) PROVE Ends'
  BY <1>10 DEF EnterIdle, Goto, fiberVars, schedVars, Base, Structure,
       MainLinks, ThreadLinks, TypeOK, FiberTypeOK, InTask, ScheduleTask, Workers, Tasks, Ends
<1>11. ASSUME NEW t \in Threads, fault = NoFault, LeaveIdle(t) PROVE Ends'
  BY <1>11 DEF LeaveIdle, Goto, fiberVars, schedVars, Base, Structure,
       MainLinks, ThreadLinks, TypeOK, FiberTypeOK, InTask, ScheduleTask, Workers, Tasks, Ends
<1>12. ASSUME NEW t \in Threads, fault = NoFault, ExitWorker(t) PROVE Ends'
  BY <1>12 DEF ExitWorker, DestroyMain, Goto, fiberVars, schedVars, Base, Structure,
       MainLinks, ThreadLinks, TypeOK, FiberTypeOK, InTask, ScheduleTask, Workers, Tasks, Ends
<1>13. ASSUME NEW t \in Threads, fault = NoFault, RootReturn(t) PROVE Ends'
  BY <1>13 DEF RootReturn, MainFuncEnd, Goto, fiberVars, schedVars, Base, Structure,
       MainLinks, ThreadLinks, TypeOK, FiberTypeOK, InTask, ScheduleTask, Workers, Tasks, Ends
<1>14. ASSUME NEW t \in Threads, fault = NoFault, RootSwapOut(t) PROVE Ends'
  BY <1>14 DEF RootSwapOut, SwapOut, Goto, fiberVars, schedVars, Base, Structure,
       MainLinks, ThreadLinks, TypeOK, FiberTypeOK, InTask, ScheduleTask, Workers, Tasks, Ends
<1>15. ASSUME NEW t \in Threads, fault = NoFault, RunFiber(t) PROVE Ends'
  BY <1>15 DEF RunFiber, ResumeEnter, Goto, fiberVars, schedVars, Base, Structure,
       MainLinks, ThreadLinks, TypeOK, FiberTypeOK, InTask, ScheduleTask, Workers, Tasks, Ends
<1>16. ASSUME NEW t \in Threads, fault = NoFault, RunCallback(t) PROVE Ends'
  BY <1>16 DEF RunCallback, Goto, fiberVars, schedVars, Base, Structure,
       MainLinks, ThreadLinks, TypeOK, FiberTypeOK, InTask, ScheduleTask, Workers, Tasks, Ends
<1>17. ASSUME NEW t \in Threads, fault = NoFault, TaskSwapIn(t) PROVE Ends'
  BY <1>17 DEF TaskSwapIn, SwapIn, Goto, fiberVars, schedVars, Base, Structure,
       MainLinks, ThreadLinks, TypeOK, FiberTypeOK, InTask, ScheduleTask, Workers, Tasks, Ends
<1>18. ASSUME NEW t \in Threads, fault = NoFault, BodySchedule(t) PROVE Ends'
  BY <1>18, ScheduleEnds DEF BodySchedule
<1>19. ASSUME NEW t \in Threads, fault = NoFault, BodyReschedule(t) PROVE Ends'
  BY <1>19 DEF BodyReschedule, Goto, fiberVars, schedVars, Base, Structure,
       MainLinks, ThreadLinks, TypeOK, FiberTypeOK, InTask, ScheduleTask, Workers, Tasks, Ends
<1>20. ASSUME NEW t \in Threads, fault = NoFault, BodyPark(t) PROVE Ends'
  BY <1>20 DEF BodyPark, Goto, fiberVars, schedVars, Base, Structure,
       MainLinks, ThreadLinks, TypeOK, FiberTypeOK, InTask, ScheduleTask, Workers, Tasks, Ends
<1>21. ASSUME NEW t \in Threads, fault = NoFault, BodyYield(t) PROVE Ends'
  BY <1>21 DEF BodyYield, YieldMark, Goto, fiberVars, schedVars, Base, Structure,
       MainLinks, ThreadLinks, TypeOK, FiberTypeOK, InTask, ScheduleTask, Workers, Tasks, Ends
<1>22. ASSUME NEW t \in Threads, fault = NoFault, BodyReturn(t) PROVE Ends'
  BY <1>22 DEF BodyReturn, MainFuncEnd, Goto, fiberVars, schedVars, Base, Structure,
       MainLinks, ThreadLinks, TypeOK, FiberTypeOK, InTask, ScheduleTask, Workers, Tasks, Ends
<1>23. ASSUME NEW t \in Threads, fault = NoFault, TaskSwapOut(t) PROVE Ends'
  BY <1>23 DEF TaskSwapOut, SwapOut, Goto, fiberVars, schedVars, Base, Structure,
       MainLinks, ThreadLinks, TypeOK, FiberTypeOK, InTask, ScheduleTask, Workers, Tasks, Ends
<1>24. ASSUME NEW t \in Threads, fault = NoFault, TaskDone(t) PROVE Ends'
  BY <1>24 DEF TaskDone, Goto, fiberVars, schedVars, Base, Structure,
       MainLinks, ThreadLinks, TypeOK, FiberTypeOK, InTask, ScheduleTask, Workers, Tasks, Ends
<1>25. CASE UNCHANGED vars
  BY <1>25 DEF vars, fiberVars, schedVars, Base, Ends
<1> QED
  BY <1>1, <1>2, <1>3, <1>4, <1>5, <1>6, <1>7, <1>8, <1>9, <1>10, <1>11, <1>12,
     <1>13, <1>14, <1>15, <1>16, <1>17, <1>18, <1>19, <1>20, <1>21, <1>22, <1>23, <1>24,
     <1>25 DEF Next, Step, Ended, MainStep, ThreadStep
-----------------------------------------------------------------------------
\* A step that leaves the queue alone.
LEMMA SameQueue ==
    ASSUME NEW f, UNCHANGED m_tasks
    PROVE  Pos(f)' = Pos(f) /\ Cbs(f)' = Cbs(f) /\ (Once(f)' <=> Once(f))
BY DEF Pos, Cbs, Once

\* A step of the thread t that leaves the other threads alone, and concerns another
\* task than f.
LEMMA Elsewhere ==
    ASSUME NEW f, Place(f), Once(f)', Cbs(f)' = Cbs(f), m_state'[f] = m_state[f],
           f \in parked' <=> f \in parked, f \in submitted' <=> f \in submitted,
           NEW t \in Threads, ~Holds(t, f), ~Holds(t, f)',
           \A u \in Threads \ {t} : pc'[u] = pc[u] /\ task'[u] = task[u]
    PROVE  Place(f)'
<1>1. \A u \in Threads \ {t} : Holds(u, f)' <=> Holds(u, f)
  BY DEF Holds
<1>2. \A u \in Threads : Holds(u, f)' <=> Holds(u, f)
  BY <1>1
<1>3. \A u \in Threads : Holds(u, f) => pc'[u] = pc[u] /\ task'[u] = task[u]
  OBVIOUS
<1> QED
  BY <1>2, <1>3, PlaceFrame

\* A step of the thread that holds a task: no other thread held it or does now.
LEMMA OnlyHolder ==
    ASSUME NEW g, Place(g), NEW t \in Threads, Holds(t, g),
           \A u \in Threads \ {t} : pc'[u] = pc[u] /\ task'[u] = task[u]
    PROVE  \A u \in Threads \ {t} : ~Holds(u, g) /\ ~Holds(u, g)'
<1>1. \A u \in Threads \ {t} : ~Holds(u, g)
  BY DEF Place
<1>2. \A u \in Threads \ {t} : Holds(u, g)' <=> Holds(u, g)
  BY DEF Holds
<1> QED
  BY <1>1, <1>2

\* A thread moves while it has no task in hand: no task is concerned.
LEMMA MoveWithoutTask ==
    ASSUME TypeOK, \A f \in Tasks : Place(f),
           NEW t \in Threads, NEW from, NEW to, Goto(t, from, to),
           {from, to} \cap {"picked", "swapin", "body", "leaving"} = {},
           \A u \in Threads \ {t} : task'[u] = task[u],
           \A f \in Tasks : m_state'[f] = m_state[f],
           UNCHANGED <<m_tasks, parked, submitted>>
    PROVE  \A f \in Tasks : Place(f)'
<1> SUFFICES ASSUME NEW f \in Tasks PROVE Place(f)'
  OBVIOUS
<1>1. pc[t] = from /\ pc'[t] = to /\ \A u \in Threads \ {t} : pc'[u] = pc[u]
  BY DEF Goto, TypeOK
<1>2. ~Holds(t, f) /\ ~Holds(t, f)'
  BY <1>1 DEF Holds
<1>3. Cbs(f)' = Cbs(f) /\ Once(f)'
  BY SameQueue DEF Place
<1> QED
  BY <1>1, <1>2, <1>3, Elsewhere

\* The thread t moves with the task g in hand before or after: the others stay where
\* they are, and what is left to show is where g is.
LEMMA MoveWithTask ==
    ASSUME TypeOK, \A f \in Tasks : Place(f),
           NEW t \in Threads, NEW to, pc' = [pc EXCEPT ![t] = to],
           NEW g \in Tasks, Holds(t, g), Place(g)',
           UNCHANGED task,
           \A f \in Tasks \ {g} : /\ m_state'[f] = m_state[f]
                                  /\ Cbs(f)' = Cbs(f) /\ Once(f)'
                                  /\ f \in parked' <=> f \in parked,
           UNCHANGED submitted
    PROVE  \A f \in Tasks : Place(f)'
<1> SUFFICES ASSUME NEW f \in Tasks, f # g PROVE Place(f)'
  OBVIOUS
<1>1. \A u \in Threads \ {t} : pc'[u] = pc[u] /\ task'[u] = task[u]
  BY DEF TypeOK
<1>2. ~Holds(t, f) /\ ~Holds(t, f)'
  BY DEF Holds
<1> QED
  BY <1>1, <1>2, Elsewhere

\* Scheduling a task that was never scheduled, or that waits to be woken.
LEMMA SchedulePlaces ==
    ASSUME TypeOK, \A f \in Tasks : Place(f), NEW g \in Tasks, ScheduleNew(g) \/ Wake(g)
    PROVE  \A f \in Tasks : Place(f)'
<1>1. /\ UNCHANGED <<pc, task>>
      /\ \A f \in Tasks \ {g} : m_state'[f] = m_state[f]
      /\ \A f \in Tasks \ {g} : f \in parked' <=> f \in parked
      /\ \A f \in Tasks \ {g} : f \in submitted' <=> f \in submitted
  BY DEF ScheduleNew, Wake, Construct, fiberVars, TypeOK, FiberTypeOK, Tasks
<1>2. ASSUME ScheduleNew(g)
      PROVE  Cbs(g)' = Cbs(g) \cup {IF g \in Callbacks THEN TRUE ELSE FALSE}
  <2>1. PICK p \in Pins : Push(g, g \in Callbacks, p)
    BY <1>2 DEF ScheduleNew
  <2>2. CASE g \in Callbacks
    <3>1. (g \in Callbacks) = TRUE
      BY <2>2, Zenon
    <3>2. Push(g, TRUE, p)
      BY <2>1, <3>1, Zenon
    <3> QED
      BY <2>2, <3>2, PushFacts, Zenon
  <2>3. CASE g \notin Callbacks
    <3>1. (g \in Callbacks) = FALSE
      BY <2>3
    <3>2. Push(g, FALSE, p)
      BY <2>1, <3>1, Zenon
    <3> QED
      BY <2>3, <3>2, PushFacts, Zenon
  <2> QED
    BY <2>2, <2>3
<1>3. /\ Wake(g) => Cbs(g)' = Cbs(g) \cup {FALSE}
      /\ Cbs(g) = {} => Once(g)'
      /\ \A f : f # g => Cbs(f)' = Cbs(f) /\ (Once(f) => Once(f)')
  BY PushFacts DEF ScheduleNew, Wake
<1>4. \A f : \A t \in Threads : Holds(t, f)' <=> Holds(t, f)
  BY <1>1 DEF Holds
<1>5. ASSUME NEW f \in Tasks, f # g PROVE Place(f)'
  <2>1. Once(f)' /\ Cbs(f)' = Cbs(f)
    BY <1>3, <1>5 DEF Place
  <2> QED
    BY <1>1, <1>4, <1>5, <2>1, PlaceFrame
<1>6. CASE ScheduleNew(g)
  <2>1. /\ Cbs(g) = {} /\ g \notin parked /\ \A t \in Threads : ~Holds(t, g)
        /\ m_state[g] = "none"
    BY <1>6 DEF ScheduleNew, Place
  <2>2. g \notin parked' /\ g \in submitted'
    BY <1>6, <2>1 DEF ScheduleNew
  <2>3. m_state'[g] = IF g \in Callbacks THEN "none" ELSE "READY"
    BY <1>6, <2>1 DEF ScheduleNew, Construct, TypeOK, FiberTypeOK, Tasks
  <2>4. /\ Cbs(g)' = {IF g \in Callbacks THEN TRUE ELSE FALSE}
        /\ Once(g)' /\ \A t \in Threads : ~Holds(t, g)'
    BY <1>2, <1>3, <1>4, <1>6, <2>1
  <2>5. CASE g \in Callbacks
    <3>1. Cbs(g)' = {TRUE} /\ m_state'[g] = "none"
      BY <2>3, <2>4, <2>5
    <3> QED
      BY <1>5, <2>2, <2>4, <3>1 DEF Place
  <2>6. CASE g \notin Callbacks
    <3>1. Cbs(g)' = {FALSE} /\ m_state'[g] = "READY"
      BY <2>3, <2>4, <2>6
    <3> QED
      BY <1>5, <2>2, <2>4, <3>1 DEF Place
  <2> QED
    BY <2>5, <2>6
<1>7. CASE Wake(g)
  <2>1. /\ Cbs(g) = {} /\ g \in parked /\ g \notin parked'
        /\ g \in submitted /\ submitted' = submitted /\ m_state' = m_state
    BY <1>7 DEF Wake, Place, fiberVars
  <2>2. Cbs(g)' = {FALSE} /\ Once(g)'
    BY <1>3, <1>7, <2>1
  <2>3. Place(g)'
    BY <1>1, <1>4, <2>1, <2>2 DEF Place
  <2> QED
    BY <1>5, <2>3
<1> QED
  BY <1>6, <1>7

\* No thread with a task moves, and nothing is scheduled.
LEMMA SameThreadsPlaces ==
    ASSUME \A f \in Tasks : Place(f), UNCHANGED <<m_tasks, task, parked, submitted>>,
           \A f \in Tasks : m_state'[f] = m_state[f],
           \A f : \A t \in Threads : (~Holds(t, f) /\ ~Holds(t, f)') \/ pc'[t] = pc[t]
    PROVE  \A f \in Tasks : Place(f)'
<1> SUFFICES ASSUME NEW f \in Tasks PROVE Place(f)'
  OBVIOUS
<1>1. Cbs(f)' = Cbs(f) /\ Once(f)'
  BY SameQueue DEF Place
<1>2. \A t \in Threads : /\ Holds(t, f)' <=> Holds(t, f)
                         /\ Holds(t, f) => pc'[t] = pc[t]
  BY DEF Holds
<1> QED
  BY <1>1, <1>2, PlaceFrame

\* A thread takes the first task it may run.  It is in nobody's hands: a fiber that
\* somebody still runs is RUNNING and is skipped, a function was never run.
LEMMA PickPlaces ==
    ASSUME TypeOK, \A f \in Tasks : Place(f), NEW t \in Threads, PickTask(t)
    PROVE  \A f \in Tasks : Place(f)'
<1>1. PICK i \in DOMAIN m_tasks :
         /\ m_tasks[i].cb \/ m_state[m_tasks[i].fiber] # "RUNNING"
         /\ pc[t] = "loop" /\ pc' = [pc EXCEPT ![t] = "picked"]
         /\ task' = [task EXCEPT ![t] = m_tasks[i]]
         /\ m_tasks' = Erase(i)
         /\ UNCHANGED <<m_state, parked, submitted>>
  BY DEF PickTask, Eligible, Goto, fiberVars
<1>2. m_tasks[i] \in ScheduleTask
  BY DEF TypeOK
<1>3. PICK g \in Tasks : g = m_tasks[i].fiber
  BY <1>2 DEF ScheduleTask
<1>4. /\ Once(g) /\ m_tasks[i].cb \in BOOLEAN
      /\ Cbs(g) = {m_tasks[i].cb}
  <2>1. i \in Pos(g) /\ Once(g)
    BY <1>3 DEF Pos, Place
  <2>2. Pos(g) = {i}
    BY <2>1 DEF Once
  <2> QED
    BY <1>2, <2>1, <2>2 DEF Cbs, ScheduleTask
<1>5. /\ Cbs(g)' = {} /\ Once(g)'
      /\ \A f : f # g => Cbs(f)' = Cbs(f) /\ (Once(f) => Once(f)')
  BY <1>1, <1>3, <1>4, EraseFacts
<1>6. /\ pc'[t] = "picked" /\ task'[t] = m_tasks[i]
      /\ \A u \in Threads \ {t} : pc'[u] = pc[u] /\ task'[u] = task[u]
  BY <1>1 DEF TypeOK
<1>7. \A u \in Threads : ~Holds(u, g)
  <2> SUFFICES ASSUME NEW u \in Threads, Holds(u, g) PROVE FALSE
    OBVIOUS
  <2>1. TRUE \notin Cbs(g) /\ pc[u] = "leaving" /\ m_state[g] = "RUNNING"
    BY <1>4 DEF Place
  <2> QED
    BY <1>1, <1>3, <1>4, <2>1
<1>8. Holds(t, g)' /\ \A u \in Threads \ {t} : ~Holds(u, g)'
  BY <1>3, <1>6, <1>7 DEF Holds
<1>9. g \notin parked /\ g \in submitted
  BY <1>4 DEF Place
<1>10. m_state[g] = IF m_tasks[i].cb THEN "none" ELSE "READY"
  BY <1>4, <1>7 DEF Place
<1>11. Place(g)'
  BY <1>1, <1>5, <1>6, <1>8, <1>9, <1>10 DEF Place
<1>12. ASSUME NEW f \in Tasks, f # g PROVE Place(f)'
  <2>1. ~Holds(t, f) /\ ~Holds(t, f)'
    BY <1>1, <1>3, <1>6, <1>12 DEF Holds
  <2>2. Once(f)' /\ Cbs(f)' = Cbs(f)
    BY <1>5, <1>12 DEF Place
  <2> QED
    BY <1>1, <1>6, <2>1, <2>2, Elsewhere
<1> QED
  BY <1>11, <1>12

\* Every step keeps each task in its place, until the process faults or the
\* scheduler is destroyed.
LEMMA PlacesStep ==
    ASSUME Base, fault = NoFault, \A f \in Tasks : Place(f), [Next]_vars,
           fault' = NoFault, main' # "destroyed"
    PROVE  \A f \in Tasks : Place(f)'
<1> USE SchedulerAssumption DEF SchedulerAssumption
<1>1. ASSUME MainSchedule PROVE \A f \in Tasks : Place(f)'
  BY <1>1, SchedulePlaces DEF MainSchedule, Base, Structure
<1>2. ASSUME Start PROVE \A f \in Tasks : Place(f)'
  <2>1. \A f : \A t \in Threads : (~Holds(t, f) /\ ~Holds(t, f)') \/ pc'[t] = pc[t]
    BY <1>2 DEF Start, Holds, Base, Structure, MainLinks, TypeOK
  <2>2. UNCHANGED <<m_tasks, m_state, task, parked, submitted>>
    BY <1>2 DEF Start
  <2> QED
    BY <2>1, <2>2, SameThreadsPlaces
<1>3. ASSUME Stop PROVE \A f \in Tasks : Place(f)'
  <2>1. UNCHANGED <<m_tasks, m_state, pc, task, parked, submitted>>
    BY <1>3 DEF Stop, fiberVars, schedVars
  <2> QED
    BY <2>1, SameThreadsPlaces
<1>4. ASSUME StopResume PROVE \A f \in Tasks : Place(f)'
  <2>1. /\ UNCHANGED <<m_tasks, pc, task, parked, submitted>>
        /\ \A f \in Tasks : m_state'[f] = m_state[f]
    BY <1>4 DEF StopResume, ResumeEnter, schedVars, Base, Structure, TypeOK, FiberTypeOK, Tasks
  <2> QED
    BY <2>1, SameThreadsPlaces
<1>5. ASSUME StopSwapIn PROVE \A f \in Tasks : Place(f)'
  <2>1. \A f \in Tasks : m_state'[f] = m_state[f]
    BY <1>5 DEF StopSwapIn, SwapIn, fiberVars
  <2> QED
    BY <1>5, <2>1, MoveWithoutTask DEF StopSwapIn, schedVars, Base, Structure
<1>6. ASSUME Join PROVE \A f \in Tasks : Place(f)'
  <2>1. UNCHANGED <<m_tasks, m_state, pc, task, parked, submitted>>
    BY <1>6 DEF Join, fiberVars, schedVars
  <2> QED
    BY <2>1, SameThreadsPlaces
<1>7. ASSUME DestroyScheduler PROVE \A f \in Tasks : Place(f)'
  BY <1>7 DEF DestroyScheduler
<1>8. ASSUME NEW t \in Threads, RunInit(t) PROVE \A f \in Tasks : Place(f)'
  <2>1. \A f \in Tasks : m_state'[f] = m_state[f]
    BY <1>8 DEF RunInit, fiberVars
  <2> QED
    BY <1>8, <2>1, MoveWithoutTask DEF RunInit, schedVars, Base, Structure
<1>9. ASSUME NEW t \in Threads, PickTask(t) PROVE \A f \in Tasks : Place(f)'
  BY <1>9, PickPlaces DEF Base, Structure
<1>10. ASSUME NEW t \in Threads, EnterIdle(t) PROVE \A f \in Tasks : Place(f)'
  <2>1. \A f \in Tasks : m_state'[f] = m_state[f]
    BY <1>10 DEF EnterIdle, fiberVars
  <2> QED
    BY <1>10, <2>1, MoveWithoutTask DEF EnterIdle, schedVars, Base, Structure
<1>11. ASSUME NEW t \in Threads, LeaveIdle(t) PROVE \A f \in Tasks : Place(f)'
  <2>1. \A f \in Tasks : m_state'[f] = m_state[f]
    BY <1>11 DEF LeaveIdle, fiberVars
  <2> QED
    BY <1>11, <2>1, MoveWithoutTask DEF LeaveIdle, schedVars, Base, Structure
<1>12. ASSUME NEW t \in Threads, ExitWorker(t) PROVE \A f \in Tasks : Place(f)'
  <2>1. \A f \in Tasks : m_state'[f] = m_state[f]
    BY <1>12 DEF ExitWorker, DestroyMain, fiberVars
  <2> QED
    BY <1>12, <2>1, MoveWithoutTask DEF ExitWorker, schedVars, Base, Structure
<1>13. ASSUME NEW t \in Threads, RootReturn(t) PROVE \A f \in Tasks : Place(f)'
  <2>1. \A f \in Tasks : m_state'[f] = m_state[f]
    BY <1>13 DEF RootReturn, MainFuncEnd, fiberVars, Tasks, Base, Structure, TypeOK,
       FiberTypeOK
  <2> QED
    BY <1>13, <2>1, MoveWithoutTask DEF RootReturn, schedVars, Base, Structure
<1>14. ASSUME NEW t \in Threads, RootSwapOut(t) PROVE \A f \in Tasks : Place(f)'
  <2>1. \A f \in Tasks : m_state'[f] = m_state[f]
    BY <1>14 DEF RootSwapOut, SwapOut, fiberVars
  <2> QED
    BY <1>14, <2>1, MoveWithoutTask DEF RootSwapOut, schedVars, Base, Structure
<1>15. ASSUME NEW t \in Threads, RunFiber(t) PROVE \A f \in Tasks : Place(f)'
  <2>1. PICK g \in Tasks : g = task[t].fiber
    BY <1>15 DEF RunFiber, Goto, Base, Structure, ThreadLinks, InTask, ScheduleTask
  <2>2. /\ pc[t] = "picked" /\ pc' = [pc EXCEPT ![t] = "swapin"]
        /\ \A u \in Threads \ {t} : pc'[u] = pc[u] /\ task'[u] = task[u]
        /\ pc'[t] = "swapin" /\ UNCHANGED <<task, submitted>>
    BY <1>15 DEF RunFiber, Goto, Base, Structure, TypeOK
  <2>3. Holds(t, g)
    BY <2>1, <2>2 DEF Holds
  <2>4. m_state'[g] = "RUNNING" /\ \A f \in Tasks \ {g} : m_state'[f] = m_state[f]
    BY <1>15, <2>1 DEF RunFiber, ResumeEnter, Base, Structure, TypeOK, FiberTypeOK, Tasks,
       NoFault
  <2>5. UNCHANGED <<m_tasks, parked>>
    BY <1>15 DEF RunFiber, schedVars
  <2>6. \A f \in Tasks : Cbs(f)' = Cbs(f) /\ Once(f)'
    BY <2>5, SameQueue DEF Place
  <2>7. Holds(t, g)' /\ \A u \in Threads \ {t} : ~Holds(u, g)'
    BY <2>1, <2>2, <2>3, OnlyHolder DEF Holds
  <2>8. Cbs(g) = {} /\ g \notin parked /\ g \in submitted
    BY <2>2, <2>3 DEF Place
  <2>9. Place(g)'
    BY <2>2, <2>4, <2>5, <2>6, <2>7, <2>8 DEF Place
  <2> QED
    BY <2>2, <2>3, <2>4, <2>5, <2>6, <2>9, MoveWithTask DEF Base, Structure
<1>16. ASSUME NEW t \in Threads, RunCallback(t) PROVE \A f \in Tasks : Place(f)'
  <2>1. PICK g \in Tasks : g = task[t].fiber
    BY <1>16 DEF RunCallback, Goto, Base, Structure, ThreadLinks, InTask, ScheduleTask
  <2>2. /\ pc[t] = "picked" /\ pc' = [pc EXCEPT ![t] = "swapin"]
        /\ \A u \in Threads \ {t} : pc'[u] = pc[u] /\ task'[u] = task[u]
        /\ pc'[t] = "swapin" /\ UNCHANGED <<task, submitted>>
    BY <1>16 DEF RunCallback, Goto, Base, Structure, TypeOK
  <2>3. Holds(t, g)
    BY <2>1, <2>2 DEF Holds
  <2>4. m_state'[g] = "RUNNING" /\ \A f \in Tasks \ {g} : m_state'[f] = m_state[f]
    BY <1>16, <2>1 DEF RunCallback, Base, Structure, TypeOK, FiberTypeOK, Tasks
  <2>5. UNCHANGED <<m_tasks, parked>>
    BY <1>16 DEF RunCallback, schedVars
  <2>6. \A f \in Tasks : Cbs(f)' = Cbs(f) /\ Once(f)'
    BY <2>5, SameQueue DEF Place
  <2>7. Holds(t, g)' /\ \A u \in Threads \ {t} : ~Holds(u, g)'
    BY <2>1, <2>2, <2>3, OnlyHolder DEF Holds
  <2>8. Cbs(g) = {} /\ g \notin parked /\ g \in submitted
    BY <2>2, <2>3 DEF Place
  <2>9. Place(g)'
    BY <2>2, <2>4, <2>5, <2>6, <2>7, <2>8 DEF Place
  <2> QED
    BY <2>2, <2>3, <2>4, <2>5, <2>6, <2>9, MoveWithTask DEF Base, Structure
<1>17. ASSUME NEW t \in Threads, TaskSwapIn(t) PROVE \A f \in Tasks : Place(f)'
  <2>1. PICK g \in Tasks : g = task[t].fiber
    BY <1>17 DEF TaskSwapIn, Goto, Base, Structure, ThreadLinks, InTask, ScheduleTask
  <2>2. /\ pc[t] = "swapin" /\ pc' = [pc EXCEPT ![t] = "body"]
        /\ \A u \in Threads \ {t} : pc'[u] = pc[u] /\ task'[u] = task[u]
        /\ pc'[t] = "body" /\ UNCHANGED <<task, submitted>>
    BY <1>17 DEF TaskSwapIn, Goto, Base, Structure, TypeOK
  <2>3. Holds(t, g)
    BY <2>1, <2>2 DEF Holds
  <2>4. m_state'[g] = "RUNNING" /\ \A f \in Tasks \ {g} : m_state'[f] = m_state[f]
    BY <1>17, <2>2, <2>3 DEF TaskSwapIn, SwapIn, Place
  <2>5. UNCHANGED <<m_tasks, parked>>
    BY <1>17 DEF TaskSwapIn, schedVars
  <2>6. \A f \in Tasks : Cbs(f)' = Cbs(f) /\ Once(f)'
    BY <2>5, SameQueue DEF Place
  <2>7. Holds(t, g)' /\ \A u \in Threads \ {t} : ~Holds(u, g)'
    BY <2>1, <2>2, <2>3, OnlyHolder DEF Holds
  <2>8. Cbs(g) = {} /\ g \notin parked /\ g \in submitted
    BY <2>2, <2>3 DEF Place
  <2>9. Place(g)'
    BY <2>2, <2>4, <2>5, <2>6, <2>7, <2>8 DEF Place
  <2> QED
    BY <2>2, <2>3, <2>4, <2>5, <2>6, <2>9, MoveWithTask DEF Base, Structure
<1>18. ASSUME NEW t \in Threads, BodySchedule(t) PROVE \A f \in Tasks : Place(f)'
  BY <1>18, SchedulePlaces DEF BodySchedule, Base, Structure
<1>19. ASSUME NEW t \in Threads, BodyReschedule(t) PROVE \A f \in Tasks : Place(f)'
  <2>1. PICK g \in Tasks : g = task[t].fiber
    BY <1>19 DEF BodyReschedule, Goto, Base, Structure, ThreadLinks, InTask, ScheduleTask
  <2>2. /\ pc[t] = "body" /\ pc' = [pc EXCEPT ![t] = "leaving"]
        /\ \A u \in Threads \ {t} : pc'[u] = pc[u] /\ task'[u] = task[u]
        /\ pc'[t] = "leaving" /\ UNCHANGED <<task, submitted>>
    BY <1>19 DEF BodyReschedule, Goto, Base, Structure, TypeOK
  <2>3. Holds(t, g)
    BY <2>1, <2>2 DEF Holds
  <2>4. UNCHANGED <<m_state, parked>>
    BY <1>19 DEF BodyReschedule, fiberVars
  <2>5. PICK p \in Pins : Push(g, FALSE, p)
    BY <1>19, <2>1, <2>2 DEF BodyReschedule, Base, Structure, ThreadLinks
  <2>6. Cbs(g) = {} /\ g \notin parked /\ g \in submitted /\ m_state[g] = "RUNNING"
    BY <2>2, <2>3 DEF Place
  <2>7. /\ Cbs(g)' = {FALSE} /\ Once(g)'
        /\ \A f \in Tasks \ {g} : Cbs(f)' = Cbs(f) /\ Once(f)'
    <3>1. /\ Cbs(g)' = Cbs(g) \cup {FALSE}
          /\ Cbs(g) = {} => Once(g)'
          /\ \A f : f # g => Cbs(f)' = Cbs(f) /\ (Once(f) => Once(f)')
      BY <2>5, PushFacts DEF Base, Structure
    <3> QED
      BY <2>6, <3>1 DEF Place
  <2>8. Holds(t, g)' /\ \A u \in Threads \ {t} : ~Holds(u, g)'
    BY <2>1, <2>2, <2>3, OnlyHolder DEF Holds
  <2>9. Place(g)'
    BY <2>2, <2>4, <2>6, <2>7, <2>8 DEF Place
  <2> QED
    BY <2>2, <2>3, <2>4, <2>7, <2>9, MoveWithTask DEF Base, Structure
<1>20. ASSUME NEW t \in Threads, BodyPark(t) PROVE \A f \in Tasks : Place(f)'
  <2>1. PICK g \in Tasks : g = task[t].fiber
    BY <1>20 DEF BodyPark, Goto, Base, Structure, ThreadLinks, InTask, ScheduleTask
  <2>2. /\ pc[t] = "body" /\ pc' = [pc EXCEPT ![t] = "leaving"]
        /\ \A u \in Threads \ {t} : pc'[u] = pc[u] /\ task'[u] = task[u]
        /\ pc'[t] = "leaving" /\ UNCHANGED <<task, submitted>>
    BY <1>20 DEF BodyPark, Goto, Base, Structure, TypeOK
  <2>3. Holds(t, g)
    BY <2>1, <2>2 DEF Holds
  <2>4. UNCHANGED <<m_state, m_tasks>> /\ parked' = parked \cup {g}
    BY <1>20, <2>1, <2>2 DEF BodyPark, fiberVars, schedVars, Base, Structure, ThreadLinks
  <2>5. Cbs(g) = {} /\ g \notin parked /\ g \in submitted /\ m_state[g] = "RUNNING"
    BY <2>2, <2>3 DEF Place
  <2>6. \A f \in Tasks : Cbs(f)' = Cbs(f) /\ Once(f)'
    BY <2>4, SameQueue DEF Place
  <2>7. Holds(t, g)' /\ \A u \in Threads \ {t} : ~Holds(u, g)'
    BY <2>1, <2>2, <2>3, OnlyHolder DEF Holds
  <2>8. Place(g)'
    BY <2>2, <2>4, <2>5, <2>6, <2>7 DEF Place
  <2> QED
    BY <2>2, <2>3, <2>4, <2>6, <2>8, MoveWithTask DEF Base, Structure
<1>21. ASSUME NEW t \in Threads, BodyYield(t) PROVE \A f \in Tasks : Place(f)'
  <2>1. PICK g \in Tasks : g = task[t].fiber
    BY <1>21 DEF BodyYield, Goto, Base, Structure, ThreadLinks, InTask, ScheduleTask
  <2>2. /\ pc[t] = "leaving" /\ pc' = [pc EXCEPT ![t] = "swapout"]
        /\ \A u \in Threads \ {t} : pc'[u] = pc[u] /\ task'[u] = task[u]
        /\ pc'[t] = "swapout" /\ UNCHANGED <<task, submitted>>
    BY <1>21 DEF BodyYield, Goto, Base, Structure, TypeOK
  <2>3. Holds(t, g)
    BY <2>1, <2>2 DEF Holds
  <2>4. /\ m_state'[g] = "READY" /\ \A f \in Tasks \ {g} : m_state'[f] = m_state[f]
    <3>1. t_fiber[t] = g /\ m_state[g] = "RUNNING"
      BY <1>21, <2>1, <2>2, <2>3 DEF Base, Structure, ThreadLinks, Place
    <3> QED
      BY <1>21, <3>1 DEF BodyYield, YieldMark, Base, Structure, TypeOK, FiberTypeOK, Tasks
  <2>5. UNCHANGED <<m_tasks, parked>>
    BY <1>21 DEF BodyYield, schedVars
  <2>6. \A f \in Tasks : Cbs(f)' = Cbs(f) /\ Once(f)'
    BY <2>5, SameQueue DEF Place
  <2>7. ~Holds(t, g)' /\ \A u \in Threads \ {t} : ~Holds(u, g)'
    BY <2>1, <2>2, <2>3, OnlyHolder DEF Holds
  <2>8. /\ Cbs(g) # {} \/ g \in parked
        /\ g \in submitted /\ TRUE \notin Cbs(g)
        /\ g \in parked => Cbs(g) = {}
    BY <2>2, <2>3 DEF Place
  <2>9. Place(g)'
    BY <2>2, <2>4, <2>5, <2>6, <2>7, <2>8 DEF Place
  <2> QED
    BY <2>2, <2>3, <2>4, <2>5, <2>6, <2>9, MoveWithTask DEF Base, Structure
<1>22. ASSUME NEW t \in Threads, BodyReturn(t) PROVE \A f \in Tasks : Place(f)'
  <2>1. PICK g \in Tasks : g = task[t].fiber
    BY <1>22 DEF BodyReturn, Goto, Base, Structure, ThreadLinks, InTask, ScheduleTask
  <2>2. /\ pc[t] = "body" /\ pc' = [pc EXCEPT ![t] = "swapout"]
        /\ \A u \in Threads \ {t} : pc'[u] = pc[u] /\ task'[u] = task[u]
        /\ pc'[t] = "swapout" /\ UNCHANGED <<task, submitted>>
    BY <1>22 DEF BodyReturn, Goto, Base, Structure, TypeOK
  <2>3. Holds(t, g)
    BY <2>1, <2>2 DEF Holds
  <2>4. /\ m_state'[g] = "TERM" /\ \A f \in Tasks \ {g} : m_state'[f] = m_state[f]
    BY <1>22, <2>1, <2>2 DEF BodyReturn, MainFuncEnd, Base, Structure, ThreadLinks,
       TypeOK, FiberTypeOK, Tasks
  <2>5. UNCHANGED <<m_tasks, parked>>
    BY <1>22 DEF BodyReturn, schedVars
  <2>6. \A f \in Tasks : Cbs(f)' = Cbs(f) /\ Once(f)'
    BY <2>5, SameQueue DEF Place
  <2>7. ~Holds(t, g)' /\ \A u \in Threads \ {t} : ~Holds(u, g)'
    BY <2>1, <2>2, <2>3, OnlyHolder DEF Holds
  <2>8. Cbs(g) = {} /\ g \notin parked /\ g \in submitted
    BY <2>2, <2>3 DEF Place
  <2>9. Place(g)'
    BY <2>2, <2>4, <2>5, <2>6, <2>7, <2>8 DEF Place
  <2> QED
    BY <2>2, <2>3, <2>4, <2>5, <2>6, <2>9, MoveWithTask DEF Base, Structure
<1>23. ASSUME NEW t \in Threads, TaskSwapOut(t) PROVE \A f \in Tasks : Place(f)'
  <2>1. \A f \in Tasks : m_state'[f] = m_state[f]
    BY <1>23 DEF TaskSwapOut, SwapOut, fiberVars
  <2> QED
    BY <1>23, <2>1, MoveWithoutTask DEF TaskSwapOut, schedVars, Base, Structure
<1>24. ASSUME NEW t \in Threads, TaskDone(t) PROVE \A f \in Tasks : Place(f)'
  <2>1. \A f \in Tasks : m_state'[f] = m_state[f]
    BY <1>24 DEF TaskDone, fiberVars
  <2>2. \A u \in Threads \ {t} : task'[u] = task[u]
    BY <1>24 DEF TaskDone, Base, Structure, TypeOK
  <2> QED
    BY <1>24, <2>1, <2>2, MoveWithoutTask DEF TaskDone, Base, Structure
<1>25. CASE UNCHANGED vars
  <2>1. UNCHANGED <<m_tasks, m_state, pc, task, parked, submitted>>
    BY <1>25 DEF vars, fiberVars, schedVars
  <2> QED
    BY <2>1, SameThreadsPlaces
<1> QED
  BY <1>1, <1>2, <1>3, <1>4, <1>5, <1>6, <1>7, <1>8, <1>9, <1>10, <1>11, <1>12,
     <1>13, <1>14, <1>15, <1>16, <1>17, <1>18, <1>19, <1>20, <1>21, <1>22, <1>23, <1>24,
     <1>25 DEF Next, Step, Ended, MainStep, ThreadStep

-----------------------------------------------------------------------------
\* Nothing happens once the scheduler is destroyed.
LEMMA DestroyedStops ==
    ASSUME Base, main = "destroyed", Step
    PROVE  FALSE
<1>1. \A t \in Threads : pc[t] \in {"off", "exited"}
  BY DEF Base, Ends
<1>2. ~MainStep
  BY DEF MainStep, MainSchedule, Start, Stop, StopResume, StopSwapIn, Join,
         DestroyScheduler
<1>3. ASSUME NEW t \in Threads, ThreadStep(t) PROVE FALSE
  BY <1>1, <1>3 DEF ThreadStep, RunInit, PickTask, EnterIdle, LeaveIdle, ExitWorker,
     RootReturn, RootSwapOut, RunFiber, RunCallback, TaskSwapIn, BodySchedule,
     BodyReschedule, BodyPark, BodyYield, BodyReturn, TaskSwapOut, TaskDone, Goto
<1> QED
  BY <1>2, <1>3 DEF Step

\* Of the steps only the assertion of resume() reports a resume error, and it holds:
\* the root fiber is resumed once, and a fiber taken from the queue is READY.
LEMMA NoResumeErrorStep ==
    ASSUME Base, Places, NoResumeError, [Next]_vars
    PROVE  NoResumeError'
<1>1. ASSUME fault = NoFault, StopResume PROVE NoResumeError'
  <2>1. m_state[Root] = "READY"
    BY <1>1 DEF StopResume, Base, Ends, Structure, MainLinks
  <2> QED
    BY <1>1, <2>1 DEF StopResume, ResumeEnter, NoResumeError
<1>2. ASSUME fault = NoFault, NEW t \in Threads, RunFiber(t) PROVE NoResumeError'
  <2>1. pc[t] = "picked" /\ task[t].fiber \in Tasks /\ ~task[t].cb
    BY <1>2 DEF RunFiber, Goto, Base, Structure, ThreadLinks, InTask, ScheduleTask
  <2>2. main # "destroyed"
    BY <2>1 DEF Base, Ends
  <2>3. Place(task[t].fiber) /\ Holds(t, task[t].fiber)
    BY <1>2, <2>1, <2>2 DEF Places, Holds
  <2>4. m_state[task[t].fiber] = "READY"
    BY <2>1, <2>3 DEF Place
  <2> QED
    BY <1>2, <2>4 DEF RunFiber, ResumeEnter, NoResumeError
<1>3. ASSUME MainStep, ~StopResume PROVE NoResumeError'
  BY <1>3 DEF MainStep, MainSchedule, ScheduleNew, Wake, Start, Stop, StopSwapIn, SwapIn,
     Join, DestroyScheduler, fiberVars, NoResumeError
<1>4. ASSUME NEW t \in Threads, ThreadStep(t), ~RunFiber(t) PROVE NoResumeError'
  BY <1>4 DEF ThreadStep, RunInit, PickTask, EnterIdle, LeaveIdle, ExitWorker,
     DestroyMain, RootReturn, RootSwapOut, RunCallback, TaskSwapIn, SwapIn,
     BodySchedule, ScheduleNew, Wake, BodyReschedule, BodyPark, BodyYield, YieldMark,
     BodyReturn, MainFuncEnd, TaskSwapOut, SwapOut, TaskDone, fiberVars, NoResumeError
<1>5. CASE UNCHANGED vars
  BY <1>5 DEF vars, fiberVars, NoResumeError
<1> QED
  BY <1>1, <1>2, <1>3, <1>4, <1>5 DEF Next, Step, Ended

TaskInv == Base /\ Places /\ NoResumeError

\* Every task of every instance stays in one place, in the state that belongs to it.
THEOREM TaskInvCorrect == Spec => []TaskInv
<1>1. Init => Ends /\ Places /\ NoResumeError
  <2> SUFFICES ASSUME Init PROVE Ends /\ Places /\ NoResumeError
    OBVIOUS
  <2>1. \A f : Pos(f) = {} /\ Cbs(f) = {} /\ Once(f)
    BY DEF Init, Pos, Cbs, Once
  <2>2. \A f : \A t \in Threads : ~Holds(t, f)
    BY DEF Init, Holds
  <2>3. \A f \in Tasks : m_state[f] = "none" /\ f \notin parked /\ f \notin submitted
    BY DEF Init, Tasks
  <2>4. Places
    BY <2>1, <2>2, <2>3 DEF Places, Place
  <2> QED
    BY <2>4, EndsInit DEF Init, NoResumeError, NoFault
<1>2. Base /\ Places /\ [Next]_vars => Places'
  <2> SUFFICES ASSUME Base, Places, [Next]_vars, fault' = NoFault, main' # "destroyed"
               PROVE  \A f \in Tasks : Place(f)'
    BY DEF Places
  <2>1. fault = NoFault /\ main # "destroyed"
    BY DestroyedStops DEF Next, Step, Ended, vars, fiberVars
  <2> QED
    BY <2>1, PlacesStep DEF Places
<1> QED
  BY <1>1, <1>2, EndsStep, NoResumeErrorStep, StructureCorrect, QuiescentExitCorrect, PTL
     DEF Spec, Base, TaskInv

\* The assertion of resume() never fails: skipping the fibers that are RUNNING is
\* enough, however early a fiber is woken or re-scheduled.
THEOREM NoResumeErrorCorrect == Spec => []NoResumeError
<1>1. TaskInv => NoResumeError
  BY DEF TaskInv
<1> QED
  BY <1>1, TaskInvCorrect, PTL

\* No task is lost or doubled between the queue and the threads.
THEOREM TaskConservedCorrect == Spec => []TaskConserved
<1>1. TaskInv => TaskConserved
  <2> SUFFICES ASSUME TaskInv, fault = NoFault, main # "destroyed", NEW f \in submitted
               PROVE
                  /\ \/ m_state[f] = "TERM" \/ f \in parked \/ Queued(f)
                     \/ \E t \in Threads : Holds(t, f)
                  /\ \A i, j \in DOMAIN m_tasks :
                        m_tasks[i].fiber = f /\ m_tasks[j].fiber = f => i = j
                  /\ \A t, u \in Threads : Holds(t, f) /\ Holds(u, f) => t = u
                  /\ \A t \in Threads : Holds(t, f) /\ Queued(f) => pc[t] = "leaving"
    BY DEF TaskConserved
  <2>1. TypeOK /\ f \in Tasks
    BY DEF TaskInv, Base, Structure, TypeOK
  <2>2. Place(f)
    BY <2>1 DEF TaskInv, Places
  <2>3. Queued(f) <=> Cbs(f) # {}
    BY <2>1, QueuedFacts
  <2>4. \A i, j \in DOMAIN m_tasks : m_tasks[i].fiber = f /\ m_tasks[j].fiber = f => i = j
    BY <2>2 DEF Place, Once, Pos
  <2> QED
    BY <2>2, <2>3, <2>4 DEF Place
<1> QED
  BY <1>1, TaskInvCorrect, PTL

\* Once every thread that serves the queue has left run(), it is empty and nothing
\* runs.
LEMMA ServedIsQuiet ==
    ASSUME Base, Served, \A t \in Workers : pc[t] \in {"off", "exited"},
           UseCaller => pc[Caller] = "exited"
    PROVE  Quiet
<1>1. PICK t \in Threads : pc[t] = "exited"
  BY SchedulerAssumption DEF Served, SchedulerAssumption, Base, Ends, Workers
<1>2. idle[t] = "TERM"
  BY <1>1 DEF Base, Ends
<1> QED
  BY <1>2 DEF Base, QuiescentExit, Quiet

\* So it is when stop() has returned.
LEMMA StoppedIsQuiet ==
    ASSUME Base, Served, main \in {"stopped", "destroyed"}
    PROVE  Quiet
BY ServedIsQuiet DEF Base, Ends, Workers

\* stop() returns only when every task has ended or waits for a wake-up that was
\* never sent.
THEOREM StopDrainsCorrect == Spec => []StopDrains
<1>1. TaskInv => StopDrains
  <2> SUFFICES ASSUME TaskInv, main = "stopped", fault = NoFault, UseCaller \/ started
               PROVE  /\ m_tasks = <<>>
                      /\ \A f \in submitted : m_state[f] = "TERM" \/ f \in parked
    BY DEF StopDrains
  <2>1. Quiet
    BY StoppedIsQuiet DEF TaskInv, Served
  <2>2. \A f : \A t \in Threads : ~Holds(t, f)
    BY <2>1 DEF Quiet, Active, At, InTask, Holds
  <2>3. \A f : Cbs(f) = {}
    BY <2>1 DEF Quiet, Cbs, Pos
  <2>4. \A f \in submitted : f \in Tasks /\ Place(f)
    BY DEF TaskInv, Places, Base, Structure, TypeOK
  <2> QED
    BY <2>1, <2>2, <2>3, <2>4 DEF Quiet, Place
<1> QED
  BY <1>1, TaskInvCorrect, PTL
-----------------------------------------------------------------------------
\* The abstract state of the pool that a state of the scheduler stands for.
Waiting  == [f \in Tasks |-> Cardinality(Pos(f))]
Running  == {f \in Tasks : \E t \in Threads : Holds(t, f)}
Finished == {f \in submitted : m_state[f] = "TERM"}
Phase    == IF main \in {"stopped", "destroyed"} /\ Served THEN "over"
            ELSE IF m_stopping THEN "closing" ELSE "open"

\* The steps of the pool, in terms of these.  It does nothing,
LEMMA PoolStutter ==
    ASSUME UNCHANGED <<Waiting, Running, Finished, Phase>>
    PROVE  UNCHANGED Pool!poolVars
BY DEF Waiting, Running, Finished, Phase, Pos, Pool!poolVars

\* A task is handed in.
LEMMA PoolSubmit ==
    ASSUME NEW x \in Tasks, Phase # "over", Waiting[x] = 0, x \notin Finished,
           Waiting' = [Waiting EXCEPT ![x] = 1],
           UNCHANGED <<Running, Finished, Phase>>
    PROVE  Pool!Next
<1>1. Pool!Submit(x)
  BY DEF Waiting, Running, Finished, Phase, Pos, Pool!Submit
<1> QED
  BY <1>1 DEF Pool!Next

\* A task is taken.
LEMMA PoolTake ==
    ASSUME NEW x \in Tasks, Phase # "over", Waiting[x] = 1, x \notin Running,
           x \notin Finished, Waiting' = [Waiting EXCEPT ![x] = 0],
           Running' = Running \cup {x}, UNCHANGED <<Finished, Phase>>
    PROVE  Pool!Next
<1>1. Pool!Take(x)
  BY DEF Waiting, Running, Finished, Phase, Pos, Pool!Take
<1> QED
  BY <1>1 DEF Pool!Next

\* A task is let go of.
LEMMA PoolRelease ==
    ASSUME NEW x \in Tasks, x \in Running, Running' = Running \ {x},
           UNCHANGED <<Waiting, Finished, Phase>>
    PROVE  Pool!Next
<1>1. Pool!Release(x)
  BY DEF Waiting, Running, Finished, Phase, Pos, Pool!Release
<1> QED
  BY <1>1 DEF Pool!Next

\* A task ends.
LEMMA PoolFinish ==
    ASSUME NEW x \in Tasks, x \in Running, Waiting[x] = 0, Running' = Running \ {x},
           Finished' = Finished \cup {x}, UNCHANGED <<Waiting, Phase>>
    PROVE  Pool!Next
<1>1. Pool!Finish(x)
  BY DEF Waiting, Running, Finished, Phase, Pos, Pool!Finish
<1> QED
  BY <1>1 DEF Pool!Next

\* The pool is told to close.
LEMMA PoolClose ==
    ASSUME Phase = "open", Phase' = "closing", UNCHANGED <<Waiting, Running, Finished>>
    PROVE  Pool!Next
<1>1. Pool!Close
  BY DEF Waiting, Running, Finished, Phase, Pos, Pool!Close
<1> QED
  BY <1>1 DEF Pool!Next

\* The pool is over.
LEMMA PoolComplete ==
    ASSUME Phase = "closing", Phase' = "over", Running = {},
           \A x \in Tasks : Waiting[x] = 0, UNCHANGED <<Waiting, Running, Finished>>
    PROVE  Pool!Next
<1>1. Pool!Complete
  BY DEF Waiting, Running, Finished, Phase, Pos, Pool!Complete
<1> QED
  BY <1>1 DEF Pool!Next

\* A pool nobody serves is thrown away.
LEMMA PoolDiscard ==
    ASSUME Phase = "closing", Running = {}, Waiting' = [x \in Tasks |-> 0],
           UNCHANGED <<Running, Finished, Phase>>
    PROVE  Pool!Next
<1>1. Pool!Discard
  BY DEF Waiting, Running, Finished, Phase, Pos, Pool!Discard
<1> QED
  BY <1>1 DEF Pool!Next

\* The number of elements of a set with one at most.
LEMMA OneOrNone ==
    ASSUME NEW P, \A i, j \in P : i = j
    PROVE  Cardinality(P) = IF P = {} THEN 0 ELSE 1
<1>1. ASSUME NEW i \in P PROVE Cardinality(P) = 1
  <2>1. P = {i}
    OBVIOUS
  <2> QED
    BY <2>1, FS_Singleton
<1> QED
  BY <1>1, FS_EmptySet

\* What waits, when every task is in the queue once at most.
LEMMA WaitingIs ==
    ASSUME \A f \in Tasks : Place(f)
    PROVE  \A f \in Tasks : Waiting[f] = IF Cbs(f) = {} THEN 0 ELSE 1
<1>1. \A f \in Tasks : Cardinality(Pos(f)) = IF Pos(f) = {} THEN 0 ELSE 1
  BY OneOrNone DEF Place, Once
<1>2. \A f \in Tasks : Cbs(f) = {} <=> Pos(f) = {}
  BY DEF Cbs
<1> QED
  BY <1>1, <1>2 DEF Waiting

\* The same after a step.
LEMMA WaitingIsNext ==
    ASSUME \A f \in Tasks : Place(f)'
    PROVE  \A f \in Tasks : Waiting'[f] = IF Cbs(f)' = {} THEN 0 ELSE 1
<1>1. \A f \in Tasks : Cardinality(Pos(f)') = IF Pos(f)' = {} THEN 0 ELSE 1
  <2> SUFFICES ASSUME NEW f \in Tasks
               PROVE  Cardinality(Pos(f)') = IF Pos(f)' = {} THEN 0 ELSE 1
    OBVIOUS
  <2> DEFINE P == Pos(f)'
  <2>1. \A i, j \in P : i = j
    BY DEF Place, Once
  <2> HIDE DEF P
  <2>2. Cardinality(P) = IF P = {} THEN 0 ELSE 1
    BY <2>1, OneOrNone
  <2> QED
    BY <2>2 DEF P
<1>2. \A f \in Tasks : Cbs(f)' = {} <=> Pos(f)' = {}
  BY DEF Cbs
<1> QED
  BY <1>1, <1>2 DEF Waiting

\* A step that leaves the queue alone leaves the waiting tasks alone.
LEMMA WaitingSame ==
    ASSUME UNCHANGED m_tasks
    PROVE  UNCHANGED Waiting
BY DEF Waiting, Pos

\* One that leaves main(), m_stopping and started alone leaves the phase alone; so
\* does one of the thread that owns the scheduler between stop() and its return.
LEMMA PhaseSame ==
    ASSUME \/ UNCHANGED <<main, m_stopping, started>>
           \/ /\ main \notin {"stopped", "destroyed"}
              /\ main' \notin {"stopped", "destroyed"}
              /\ UNCHANGED m_stopping
    PROVE  UNCHANGED Phase
BY DEF Phase, Served

\* One that ends no task.
LEMMA FinishedSame ==
    ASSUME UNCHANGED submitted,
           \A f \in submitted : m_state'[f] = "TERM" <=> m_state[f] = "TERM"
    PROVE  UNCHANGED Finished
BY DEF Finished

\* One of a thread that has no task in hand, before or after.
LEMMA RunningFree ==
    ASSUME NEW t \in Threads,
           {pc[t], pc'[t]} \cap {"picked", "swapin", "body", "leaving"} = {},
           \A u \in Threads \ {t} : pc'[u] = pc[u] /\ task'[u] = task[u]
    PROVE  UNCHANGED Running
<1>1. \A f : \A u \in Threads : Holds(u, f)' <=> Holds(u, f)
  BY DEF Holds
<1> QED
  BY <1>1 DEF Running

\* One of a thread that keeps the task it has in hand.
LEMMA RunningKept ==
    ASSUME NEW t \in Threads,
           {pc[t], pc'[t]} \subseteq {"picked", "swapin", "body", "leaving"},
           UNCHANGED task,
           \A u \in Threads \ {t} : pc'[u] = pc[u]
    PROVE  UNCHANGED Running
<1>1. \A f : \A u \in Threads : Holds(u, f)' <=> Holds(u, f)
  BY DEF Holds
<1> QED
  BY <1>1 DEF Running

\* One of a thread that lets go of the task it has in hand.
LEMMA RunningGone ==
    ASSUME NEW t \in Threads, NEW g \in Tasks, Place(g), Holds(t, g),
           pc'[t] \notin {"picked", "swapin", "body", "leaving"},
           UNCHANGED task,
           \A u \in Threads \ {t} : pc'[u] = pc[u]
    PROVE  g \in Running /\ Running' = Running \ {g}
<1>1. \A u \in Threads \ {t} : ~Holds(u, g)'
  BY OnlyHolder
<1>2. \A f : \A u \in Threads \ {t} : Holds(u, f)' <=> Holds(u, f)
  BY DEF Holds
<1>3. \A f : ~Holds(t, f)' /\ (f # g => ~Holds(t, f))
  BY DEF Holds
<1>4. \A f \in Tasks : (\E u \in Threads : Holds(u, f)') <=>
                       f # g /\ \E u \in Threads : Holds(u, f)
  BY <1>1, <1>2, <1>3
<1> QED
  BY <1>4 DEF Running

\* Pushing a task that is not in the queue and has not ended hands it in.
LEMMA PushSubmits ==
    ASSUME TypeOK, \A f \in Tasks : Place(f), \A f \in Tasks : Place(f)',
           NEW g \in Tasks, NEW b, NEW p, Push(g, b, p), Cbs(g) = {}, g \notin Finished,
           Phase # "over", UNCHANGED <<Running, Finished, Phase>>
    PROVE  Pool!Next
<1>1. Cbs(g)' # {} /\ \A f \in Tasks \ {g} : Cbs(f)' = Cbs(f)
  BY PushFacts
<1>2. Waiting[g] = 0 /\ Waiting'[g] = 1
  BY <1>1, WaitingIs, WaitingIsNext
<1>3. \A f \in Tasks \ {g} : Waiting'[f] = Waiting[f]
  BY <1>1, WaitingIs, WaitingIsNext
<1>4. Waiting' = [Waiting EXCEPT ![g] = 1]
  BY <1>2, <1>3 DEF Waiting
<1> QED
  BY <1>2, <1>4, PoolSubmit

\* Scheduling a new task, or waking one, hands it in.
LEMMA ScheduleSubmits ==
    ASSUME TypeOK, \A f \in Tasks : Place(f), Phase # "over",
           NEW g \in Tasks, ScheduleNew(g) \/ Wake(g)
    PROVE  Pool!Next
<1>1. \A f \in Tasks : Place(f)'
  BY SchedulePlaces
<1>2. /\ UNCHANGED <<pc, task, main, m_stopping, started>>
      /\ \E b, p : Push(g, b, p)
  BY DEF ScheduleNew, Wake
<1>3. UNCHANGED <<Running, Phase>>
  <2>1. \A f : \A t \in Threads : Holds(t, f)' <=> Holds(t, f)
    BY <1>2 DEF Holds
  <2> QED
    BY <1>2, <2>1, PhaseSame DEF Running
<1>4. CASE ScheduleNew(g)
  <2>1. g \notin submitted /\ submitted' = submitted \cup {g} /\ Cbs(g) = {}
    BY <1>4 DEF ScheduleNew, Place
  <2>2. m_state[g] = "none" /\ m_state'[g] # "TERM"
    BY <1>4, <2>1 DEF ScheduleNew, Construct, Place, TypeOK, FiberTypeOK, Tasks
  <2>3. \A f \in Tasks \ {g} : m_state'[f] = m_state[f]
    BY <1>4 DEF ScheduleNew, Construct, TypeOK, FiberTypeOK, Tasks
  <2>4. UNCHANGED Finished /\ g \notin Finished
    BY <2>1, <2>2, <2>3 DEF Finished, TypeOK
  <2> QED
    BY <1>1, <1>2, <1>3, <2>1, <2>4, PushSubmits
<1>5. CASE Wake(g)
  <2>1. g \in parked /\ Cbs(g) = {} /\ UNCHANGED <<submitted, m_state>>
    BY <1>5 DEF Wake, Place, fiberVars
  <2>2. m_state[g] # "TERM"
    BY <2>1 DEF Place
  <2>3. UNCHANGED Finished /\ g \notin Finished
    BY <2>1, <2>2 DEF Finished
  <2> QED
    BY <1>1, <1>2, <1>3, <2>1, <2>3, PushSubmits
<1> QED
  BY <1>4, <1>5

\* Taking a task from the queue takes it in the pool.
LEMMA PickTakes ==
    ASSUME Base, \A f \in Tasks : Place(f), \A f \in Tasks : Place(f)',
           NEW t \in Threads, PickTask(t)
    PROVE  Pool!Next
<1>1. PICK i \in DOMAIN m_tasks :
         /\ m_tasks[i].cb \/ m_state[m_tasks[i].fiber] # "RUNNING"
         /\ pc[t] = "loop" /\ pc' = [pc EXCEPT ![t] = "picked"]
         /\ task' = [task EXCEPT ![t] = m_tasks[i]]
         /\ m_tasks' = Erase(i)
         /\ UNCHANGED <<m_state, submitted, main, m_stopping, started>>
  BY DEF PickTask, Eligible, Goto, fiberVars
<1>2. TypeOK /\ m_tasks[i] \in ScheduleTask
  BY DEF Base, Structure, TypeOK
<1>3. PICK g \in Tasks : g = m_tasks[i].fiber
  BY <1>2 DEF ScheduleTask
<1>4. Cbs(g) # {} /\ Once(g)
  BY <1>3 DEF Cbs, Pos, Place
<1>5. Cbs(g)' = {} /\ \A f \in Tasks \ {g} : Cbs(f)' = Cbs(f)
  BY <1>1, <1>2, <1>3, <1>4, EraseFacts
<1>6. Waiting[g] = 1 /\ Waiting'[g] = 0 /\ \A f \in Tasks \ {g} : Waiting'[f] = Waiting[f]
  BY <1>4, <1>5, WaitingIs, WaitingIsNext
<1>7. Waiting' = [Waiting EXCEPT ![g] = 0]
  BY <1>6 DEF Waiting
<1>8. /\ pc'[t] = "picked" /\ task'[t].fiber = g
      /\ \A u \in Threads \ {t} : pc'[u] = pc[u] /\ task'[u] = task[u]
  BY <1>1, <1>2, <1>3 DEF TypeOK
<1>9. /\ Holds(t, g)'
      /\ \A f : \A u \in Threads : u # t \/ f # g => (Holds(u, f)' <=> Holds(u, f))
  BY <1>1, <1>8 DEF Holds
<1>10. \A u \in Threads : ~Holds(u, g)
  <2> SUFFICES ASSUME NEW u \in Threads, Holds(u, g) PROVE FALSE
    OBVIOUS
  <2>1. u # t
    BY <1>1 DEF Holds
  <2>2. Holds(u, g)'
    BY <1>9, <2>1
  <2> QED
    BY <1>9, <2>1, <2>2 DEF Place
<1>11. g \notin Running /\ Running' = Running \cup {g}
  BY <1>9, <1>10 DEF Running
<1>12. g \notin Finished
  BY <1>4, <1>10 DEF Finished, Place
<1>13. UNCHANGED <<Finished, Phase>> /\ Phase # "over"
  BY <1>1, FinishedSame, PhaseSame DEF Phase, Base, Ends
<1> QED
  BY <1>6, <1>7, <1>11, <1>12, <1>13, PoolTake

\* Every step of a healthy scheduler is a step of the pool, or none.
LEMMA PoolStep ==
    ASSUME Base, fault = NoFault, main # "destroyed", \A f \in Tasks : Place(f), [Next]_vars
    PROVE  [Pool!Next]_(Pool!poolVars)
<1> USE SchedulerAssumption DEF SchedulerAssumption
<1>1. ASSUME MainSchedule PROVE [Pool!Next]_(Pool!poolVars)
  <2>1. Phase # "over"
    BY <1>1 DEF MainSchedule, Phase
  <2> QED
    BY <1>1, <2>1, ScheduleSubmits DEF MainSchedule, Base, Structure
<1>2. ASSUME Start PROVE [Pool!Next]_(Pool!poolVars)
  <2>1. UNCHANGED <<Waiting, Finished>>
    BY <1>2, WaitingSame, FinishedSame DEF Start
  <2>2. \A f : \A t \in Threads : Holds(t, f)' <=> Holds(t, f)
    BY <1>2 DEF Start, Holds, Base, Structure, MainLinks, TypeOK
  <2>3. UNCHANGED Running
    BY <2>2 DEF Running
  <2>4. UNCHANGED Phase
    BY <1>2, PhaseSame DEF Start, Base, Structure, MainLinks
  <2> QED
    BY <2>1, <2>3, <2>4, PoolStutter
<1>3. ASSUME Stop PROVE [Pool!Next]_(Pool!poolVars)
  <2>1. UNCHANGED <<m_tasks, m_state, pc, task, submitted, started>>
    BY <1>3 DEF Stop, fiberVars
  <2>2. UNCHANGED <<Waiting, Finished, Running>>
    BY <2>1, WaitingSame, FinishedSame DEF Running, Holds
  <2>3. CASE main = "user"
    <3>1. Phase = "open" /\ Phase' = "closing"
      BY <1>3, <2>3 DEF Stop, Phase, Base, Structure, MainLinks
    <3> QED
      BY <2>2, <3>1, PoolClose
  <2>4. CASE main = "stopped"
    <3>1. ~Served
      BY <1>3, <2>4, StoppedIsQuiet, QuietIsStopping DEF Stop, Base
    <3>2. Phase' = Phase
      BY <1>3, <2>1, <2>4, <3>1 DEF Stop, Phase, Served, Base, Structure, MainLinks
    <3> QED
      BY <2>2, <3>2, PoolStutter
  <2> QED
    BY <1>3, <2>3, <2>4 DEF Stop
<1>4. ASSUME StopResume PROVE [Pool!Next]_(Pool!poolVars)
  <2>1. UNCHANGED <<Waiting, Phase>>
    BY <1>4, WaitingSame, PhaseSame DEF StopResume, schedVars
  <2>2. UNCHANGED Finished
    BY <1>4, FinishedSame DEF StopResume, ResumeEnter, Base, Structure, TypeOK, FiberTypeOK,
       Tasks
  <2>3. UNCHANGED Running
    BY <1>4 DEF StopResume, Running, Holds
  <2> QED
    BY <2>1, <2>2, <2>3, PoolStutter
<1>5. ASSUME StopSwapIn PROVE [Pool!Next]_(Pool!poolVars)
  <2>1. UNCHANGED <<Waiting, Phase>>
    BY <1>5, WaitingSame, PhaseSame DEF StopSwapIn, schedVars
  <2>2. UNCHANGED Finished
    BY <1>5, FinishedSame DEF StopSwapIn, SwapIn, fiberVars
  <2>3. UNCHANGED Running
    BY <1>5, RunningFree DEF StopSwapIn, Goto, Base, Structure, TypeOK
  <2> QED
    BY <2>1, <2>2, <2>3, PoolStutter
<1>6. ASSUME Join PROVE [Pool!Next]_(Pool!poolVars)
  <2>1. UNCHANGED <<m_tasks, m_state, pc, task, submitted, m_stopping, started>>
    BY <1>6 DEF Join, fiberVars, schedVars
  <2>2. UNCHANGED <<Waiting, Finished, Running>>
    BY <2>1, WaitingSame, FinishedSame DEF Running, Holds
  <2>3. CASE Served
    <3>1. Quiet
      BY <1>6, <2>3, ServedIsQuiet DEF Join, Base, Ends
    <3>2. Phase = "closing" /\ Phase' = "over"
      BY <1>6, <2>1, <2>3, <3>1 DEF Join, Phase, Served, Quiet
    <3>3. Running = {}
      BY <3>1 DEF Quiet, Active, At, InTask, Running, Holds
    <3>4. \A f \in Tasks : Waiting[f] = 0
      BY <3>1, FS_EmptySet DEF Quiet, Waiting, Pos
    <3> QED
      BY <2>2, <3>2, <3>3, <3>4, PoolComplete
  <2>4. CASE ~Served
    <3>1. UNCHANGED Phase
      BY <1>6, <2>1, <2>4 DEF Join, Phase, Served
    <3> QED
      BY <2>2, <3>1, PoolStutter
  <2> QED
    BY <2>3, <2>4
<1>7. ASSUME DestroyScheduler PROVE [Pool!Next]_(Pool!poolVars)
  <2>1. /\ UNCHANGED <<m_state, pc, task, submitted, m_stopping, started>>
        /\ m_tasks' = <<>>
    BY <1>7 DEF DestroyScheduler
  <2>2. UNCHANGED <<Finished, Running>>
    BY <2>1, FinishedSame DEF Running, Holds
  <2>3. UNCHANGED Phase
    BY <1>7, <2>1 DEF DestroyScheduler, Phase, Served
  <2>4. CASE Served
    <3>1. m_tasks = <<>>
      BY <1>7, <2>4, StoppedIsQuiet DEF DestroyScheduler, Quiet
    <3>2. UNCHANGED Waiting
      BY <2>1, <3>1, WaitingSame
    <3> QED
      BY <2>2, <2>3, <3>2, PoolStutter
  <2>5. CASE ~Served
    <3>1. Phase = "closing"
      BY <1>7, <2>5 DEF DestroyScheduler, Phase, Base, Structure, MainLinks
    <3>2. Running = {}
      BY <1>7 DEF DestroyScheduler, Base, Ends, Running, Holds
    <3>3. \A f : Pos(f)' = {}
      BY <2>1 DEF Pos
    <3>4. Waiting' = [f \in Tasks |-> 0]
      BY <3>3, FS_EmptySet DEF Waiting
    <3> QED
      BY <2>2, <2>3, <3>1, <3>2, <3>4, PoolDiscard
  <2> QED
    BY <2>4, <2>5
<1>8. ASSUME NEW t \in Threads, RunInit(t) PROVE [Pool!Next]_(Pool!poolVars)
  <2>1. UNCHANGED <<Waiting, Phase>>
    BY <1>8, WaitingSame, PhaseSame DEF RunInit, schedVars
  <2>2. UNCHANGED Finished
    BY <1>8, FinishedSame DEF RunInit, fiberVars
  <2>3. UNCHANGED Running
    BY <1>8, RunningFree DEF RunInit, Goto, Base, Structure, TypeOK
  <2> QED
    BY <2>1, <2>2, <2>3, PoolStutter
<1>9. ASSUME NEW t \in Threads, PickTask(t) PROVE [Pool!Next]_(Pool!poolVars)
  <2>1. \A f \in Tasks : Place(f)'
    <3>1. fault' = NoFault /\ main' # "destroyed"
      BY <1>9 DEF PickTask, fiberVars
    <3> QED
      BY <3>1, PlacesStep
  <2> QED
    BY <1>9, <2>1, PickTakes
<1>10. ASSUME NEW t \in Threads, EnterIdle(t) PROVE [Pool!Next]_(Pool!poolVars)
  <2>1. UNCHANGED <<Waiting, Phase>>
    BY <1>10, WaitingSame, PhaseSame DEF EnterIdle, schedVars
  <2>2. UNCHANGED Finished
    BY <1>10, FinishedSame DEF EnterIdle, fiberVars
  <2>3. UNCHANGED Running
    BY <1>10, RunningFree DEF EnterIdle, Goto, Base, Structure, TypeOK
  <2> QED
    BY <2>1, <2>2, <2>3, PoolStutter
<1>11. ASSUME NEW t \in Threads, LeaveIdle(t) PROVE [Pool!Next]_(Pool!poolVars)
  <2>1. UNCHANGED <<Waiting, Phase>>
    BY <1>11, WaitingSame, PhaseSame DEF LeaveIdle, schedVars
  <2>2. UNCHANGED Finished
    BY <1>11, FinishedSame DEF LeaveIdle, fiberVars
  <2>3. UNCHANGED Running
    BY <1>11, RunningFree DEF LeaveIdle, Goto, Base, Structure, TypeOK
  <2> QED
    BY <2>1, <2>2, <2>3, PoolStutter
<1>12. ASSUME NEW t \in Threads, ExitWorker(t) PROVE [Pool!Next]_(Pool!poolVars)
  <2>1. UNCHANGED <<Waiting, Phase>>
    BY <1>12, WaitingSame, PhaseSame DEF ExitWorker, schedVars
  <2>2. UNCHANGED Finished
    BY <1>12, FinishedSame DEF ExitWorker, DestroyMain, fiberVars
  <2>3. UNCHANGED Running
    BY <1>12, RunningFree DEF ExitWorker, Goto, Base, Structure, TypeOK
  <2> QED
    BY <2>1, <2>2, <2>3, PoolStutter
<1>13. ASSUME NEW t \in Threads, RootReturn(t) PROVE [Pool!Next]_(Pool!poolVars)
  <2>1. UNCHANGED <<Waiting, Phase>>
    BY <1>13, WaitingSame, PhaseSame DEF RootReturn, schedVars
  <2>2. UNCHANGED Finished
    BY <1>13, FinishedSame DEF RootReturn, MainFuncEnd, fiberVars, Tasks, Base, Structure,
       TypeOK,
       FiberTypeOK
  <2>3. UNCHANGED Running
    BY <1>13, RunningFree DEF RootReturn, Goto, Base, Structure, TypeOK
  <2> QED
    BY <2>1, <2>2, <2>3, PoolStutter
<1>14. ASSUME NEW t \in Threads, RootSwapOut(t) PROVE [Pool!Next]_(Pool!poolVars)
  <2>1. UNCHANGED <<Waiting, Phase>>
    BY <1>14, WaitingSame, PhaseSame DEF RootSwapOut, Goto, schedVars, Base, Ends
  <2>2. UNCHANGED Finished
    BY <1>14, FinishedSame DEF RootSwapOut, SwapOut, fiberVars
  <2>3. UNCHANGED Running
    BY <1>14, RunningFree DEF RootSwapOut, Goto, Base, Structure, TypeOK
  <2> QED
    BY <2>1, <2>2, <2>3, PoolStutter
<1>15. ASSUME NEW t \in Threads, RunFiber(t) PROVE [Pool!Next]_(Pool!poolVars)
  <2>1. UNCHANGED <<Waiting, Phase>>
    BY <1>15, WaitingSame, PhaseSame DEF RunFiber, schedVars
  <2>2. UNCHANGED Finished
    <3>1. PICK g \in Tasks : g = task[t].fiber
      BY <1>15 DEF RunFiber, Goto, Base, Structure, ThreadLinks, InTask, ScheduleTask
    <3>2. m_state[g] # "TERM"
      BY <1>15, <3>1 DEF RunFiber, Goto, Place, Holds
    <3>3. m_state'[g] # "TERM" /\ \A f \in Tasks \ {g} : m_state'[f] = m_state[f]
      BY <1>15, <3>1, <3>2 DEF RunFiber, ResumeEnter, Base, Structure, TypeOK, FiberTypeOK,
         Tasks
    <3> QED
      BY <1>15, <3>2, <3>3, FinishedSame DEF RunFiber, Base, Structure, TypeOK
  <2>3. UNCHANGED Running
    BY <1>15, RunningKept DEF RunFiber, Goto, Base, Structure, TypeOK
  <2> QED
    BY <2>1, <2>2, <2>3, PoolStutter
<1>16. ASSUME NEW t \in Threads, RunCallback(t) PROVE [Pool!Next]_(Pool!poolVars)
  <2>1. UNCHANGED <<Waiting, Phase>>
    BY <1>16, WaitingSame, PhaseSame DEF RunCallback, schedVars
  <2>2. UNCHANGED Finished
    <3>1. PICK g \in Tasks : g = task[t].fiber
      BY <1>16 DEF RunCallback, Goto, Base, Structure, ThreadLinks, InTask, ScheduleTask
    <3>2. m_state[g] # "TERM"
      BY <1>16, <3>1 DEF RunCallback, Goto, Place, Holds
    <3>3. m_state'[g] # "TERM" /\ \A f \in Tasks \ {g} : m_state'[f] = m_state[f]
      BY <1>16, <3>1, <3>2 DEF RunCallback, ResumeEnter, Base, Structure, TypeOK,
         FiberTypeOK, Tasks
    <3> QED
      BY <1>16, <3>2, <3>3, FinishedSame DEF RunCallback, Base, Structure, TypeOK
  <2>3. UNCHANGED Running
    BY <1>16, RunningKept DEF RunCallback, Goto, Base, Structure, TypeOK
  <2> QED
    BY <2>1, <2>2, <2>3, PoolStutter
<1>17. ASSUME NEW t \in Threads, TaskSwapIn(t) PROVE [Pool!Next]_(Pool!poolVars)
  <2>1. UNCHANGED <<Waiting, Phase>>
    BY <1>17, WaitingSame, PhaseSame DEF TaskSwapIn, schedVars
  <2>2. UNCHANGED Finished
    <3>1. PICK g \in Tasks : g = task[t].fiber
      BY <1>17 DEF TaskSwapIn, Goto, Base, Structure, ThreadLinks, InTask, ScheduleTask
    <3>2. m_state[g] # "TERM"
      BY <1>17, <3>1 DEF TaskSwapIn, Goto, Place, Holds
    <3>3. m_state'[g] # "TERM" /\ \A f \in Tasks \ {g} : m_state'[f] = m_state[f]
      BY <1>17, <3>1, <3>2 DEF TaskSwapIn, SwapIn, Base, Structure, TypeOK, FiberTypeOK, Tasks
    <3> QED
      BY <1>17, <3>2, <3>3, FinishedSame DEF TaskSwapIn, Base, Structure, TypeOK
  <2>3. UNCHANGED Running
    BY <1>17, RunningKept DEF TaskSwapIn, Goto, Base, Structure, TypeOK
  <2> QED
    BY <2>1, <2>2, <2>3, PoolStutter
<1>18. ASSUME NEW t \in Threads, BodySchedule(t) PROVE [Pool!Next]_(Pool!poolVars)
  <2>1. Phase # "over"
    BY <1>18 DEF BodySchedule, Phase, Base, Ends
  <2> QED
    BY <1>18, <2>1, ScheduleSubmits DEF BodySchedule, Base, Structure
<1>19. ASSUME NEW t \in Threads, BodyReschedule(t) PROVE [Pool!Next]_(Pool!poolVars)
  <2>1. \A f \in Tasks : Place(f)'
    <3>1. fault' = NoFault /\ main' # "destroyed"
      BY <1>19 DEF BodyReschedule, fiberVars
    <3> QED
      BY <3>1, PlacesStep
  <2>2. PICK g \in Tasks : g = task[t].fiber
    BY <1>19 DEF BodyReschedule, Goto, Base, Structure, ThreadLinks, InTask, ScheduleTask
  <2>3. PICK p \in Pins : Push(g, FALSE, p)
    BY <1>19, <2>2 DEF BodyReschedule, Goto, Base, Structure, ThreadLinks
  <2>4. Cbs(g) = {} /\ m_state[g] # "TERM" /\ g \notin Finished
    BY <1>19, <2>2 DEF BodyReschedule, Goto, Holds, Place, Finished
  <2>5. UNCHANGED <<Finished, Phase>> /\ Phase # "over"
    BY <1>19, FinishedSame, PhaseSame DEF BodyReschedule, Goto, fiberVars, Phase, Base, Ends
  <2>6. UNCHANGED Running
    BY <1>19, RunningKept DEF BodyReschedule, Goto, Base, Structure, TypeOK
  <2> QED
    BY <2>1, <2>3, <2>4, <2>5, <2>6, PushSubmits DEF Base, Structure
<1>20. ASSUME NEW t \in Threads, BodyPark(t) PROVE [Pool!Next]_(Pool!poolVars)
  <2>1. UNCHANGED <<Waiting, Phase>>
    BY <1>20, WaitingSame, PhaseSame DEF BodyPark, schedVars
  <2>2. UNCHANGED Finished
    <3>1. PICK g \in Tasks : g = task[t].fiber
      BY <1>20 DEF BodyPark, Goto, Base, Structure, ThreadLinks, InTask, ScheduleTask
    <3>2. m_state[g] # "TERM"
      BY <1>20, <3>1 DEF BodyPark, Goto, Place, Holds
    <3>3. m_state'[g] # "TERM" /\ \A f \in Tasks \ {g} : m_state'[f] = m_state[f]
      BY <1>20, <3>1, <3>2 DEF BodyPark, fiberVars, Base, Structure, TypeOK, FiberTypeOK, Tasks
    <3> QED
      BY <1>20, <3>2, <3>3, FinishedSame DEF BodyPark, Base, Structure, TypeOK
  <2>3. UNCHANGED Running
    BY <1>20, RunningKept DEF BodyPark, Goto, Base, Structure, TypeOK
  <2> QED
    BY <2>1, <2>2, <2>3, PoolStutter
<1>21. ASSUME NEW t \in Threads, BodyYield(t) PROVE [Pool!Next]_(Pool!poolVars)
  <2>1. PICK g \in Tasks : g = task[t].fiber
    BY <1>21 DEF BodyYield, Goto, Base, Structure, ThreadLinks, InTask, ScheduleTask
  <2>2. t_fiber[t] = g /\ Holds(t, g) /\ m_state[g] = "RUNNING"
    BY <1>21, <2>1 DEF BodyYield, Goto, Base, Structure, ThreadLinks, Holds, Place
  <2>3. UNCHANGED <<Waiting, Phase>>
    BY <1>21, WaitingSame, PhaseSame DEF BodyYield, schedVars
  <2>4. UNCHANGED Finished
    <3>1. \A f \in Tasks : m_state'[f] = "TERM" <=> m_state[f] = "TERM"
      BY <1>21, <2>2 DEF BodyYield, YieldMark, Base, Structure, TypeOK, FiberTypeOK, Tasks
    <3> QED
      BY <1>21, <3>1, FinishedSame DEF BodyYield, Base, Structure, TypeOK
  <2>5. g \in Running /\ Running' = Running \ {g}
    BY <1>21, <2>2, RunningGone DEF BodyYield, Goto, Base, Structure, TypeOK
  <2> QED
    BY <2>3, <2>4, <2>5, PoolRelease
<1>22. ASSUME NEW t \in Threads, BodyReturn(t) PROVE [Pool!Next]_(Pool!poolVars)
  <2>1. PICK g \in Tasks : g = task[t].fiber
    BY <1>22 DEF BodyReturn, Goto, Base, Structure, ThreadLinks, InTask, ScheduleTask
  <2>2. exec[t] = g /\ Holds(t, g)
    BY <1>22, <2>1 DEF BodyReturn, Goto, Base, Structure, ThreadLinks, Holds
  <2>3. UNCHANGED <<Waiting, Phase>>
    BY <1>22, WaitingSame, PhaseSame DEF BodyReturn, schedVars
  <2>4. g \in submitted /\ Waiting[g] = 0
    BY <1>22, <2>2, WaitingIs DEF BodyReturn, Goto, Place
  <2>5. Finished' = Finished \cup {g}
    <3>1. m_state'[g] = "TERM" /\ \A f \in Tasks \ {g} : m_state'[f] = m_state[f]
      BY <1>22, <2>2 DEF BodyReturn, MainFuncEnd, Base, Structure, TypeOK, FiberTypeOK, Tasks
    <3> QED
      BY <1>22, <2>4, <3>1 DEF BodyReturn, Finished, Base, Structure, TypeOK
  <2>6. g \in Running /\ Running' = Running \ {g}
    BY <1>22, <2>2, RunningGone DEF BodyReturn, Goto, Base, Structure, TypeOK
  <2> QED
    BY <2>3, <2>4, <2>5, <2>6, PoolFinish
<1>23. ASSUME NEW t \in Threads, TaskSwapOut(t) PROVE [Pool!Next]_(Pool!poolVars)
  <2>1. UNCHANGED <<Waiting, Phase>>
    BY <1>23, WaitingSame, PhaseSame DEF TaskSwapOut, schedVars
  <2>2. UNCHANGED Finished
    BY <1>23, FinishedSame DEF TaskSwapOut, SwapOut, fiberVars
  <2>3. UNCHANGED Running
    BY <1>23, RunningFree DEF TaskSwapOut, Goto, Base, Structure, TypeOK
  <2> QED
    BY <2>1, <2>2, <2>3, PoolStutter
<1>24. ASSUME NEW t \in Threads, TaskDone(t) PROVE [Pool!Next]_(Pool!poolVars)
  <2>1. UNCHANGED <<Waiting, Phase>>
    BY <1>24, WaitingSame, PhaseSame DEF TaskDone, schedVars
  <2>2. UNCHANGED Finished
    BY <1>24, FinishedSame DEF TaskDone, fiberVars
  <2>3. UNCHANGED Running
    BY <1>24, RunningFree DEF TaskDone, Goto, Base, Structure, TypeOK
  <2> QED
    BY <2>1, <2>2, <2>3, PoolStutter
<1>25. CASE UNCHANGED vars
  <2>1. UNCHANGED <<m_tasks, m_state, pc, task, submitted, main, m_stopping, started>>
    BY <1>25 DEF vars, fiberVars, schedVars
  <2>2. UNCHANGED <<Waiting, Finished, Running, Phase>>
    BY <2>1, WaitingSame, FinishedSame, PhaseSame DEF Running, Holds
  <2> QED
    BY <2>2, PoolStutter
<1> QED
  BY <1>1, <1>2, <1>3, <1>4, <1>5, <1>6, <1>7, <1>8, <1>9, <1>10, <1>11, <1>12,
     <1>13, <1>14, <1>15, <1>16, <1>17, <1>18, <1>19, <1>20, <1>21, <1>22, <1>23, <1>24,
     <1>25 DEF Next, Step, Ended, MainStep, ThreadStep

\* The scheduler implements the pool of tasks: for any number of threads and tasks,
\* with or without the caller's thread, every step hands in, takes, lets go of or
\* ends one task, or none, and stop() ends it only when nothing waits or runs.
THEOREM TaskPoolCorrect == Spec => ImplementsTaskPool
<1>1. Init => Pool!Init
  <2> SUFFICES ASSUME Init PROVE Pool!Init
    OBVIOUS
  <2>1. \A f : {i \in DOMAIN m_tasks : m_tasks[i].fiber = f} = {}
    BY DEF Init
  <2>2. \A f : \A t \in Threads : ~Holds(t, f)
    BY DEF Init, Holds
  <2> QED
    BY <2>1, <2>2, FS_EmptySet DEF Init, Pool!Init
<1>2. TaskInv /\ [Next]_vars => [Pool!Next]_(Pool!poolVars)
  <2> SUFFICES ASSUME TaskInv, [Next]_vars
               PROVE  [Pool!Next]_(Pool!poolVars)
    OBVIOUS
  <2>1. CASE fault = NoFault /\ main # "destroyed"
    BY <2>1, PoolStep DEF TaskInv, Places
  <2>2. CASE ~(fault = NoFault /\ main # "destroyed")
    <3>1. UNCHANGED vars
      BY <2>2, DestroyedStops DEF TaskInv, Next, Step, Ended
    <3>2. UNCHANGED <<m_tasks, m_state, pc, task, submitted, main, m_stopping, started>>
      BY <3>1 DEF vars, fiberVars, schedVars
    <3>3. UNCHANGED <<Waiting, Finished, Running, Phase>>
      BY <3>2, WaitingSame, FinishedSame, PhaseSame DEF Running, Holds
    <3> QED
      BY <3>3, PoolStutter
  <2> QED
    BY <2>1, <2>2
<1> QED
  BY <1>1, <1>2, TaskInvCorrect, PTL DEF Spec, ImplementsTaskPool, Pool!Spec
=============================================================================
