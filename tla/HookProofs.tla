----------------------------- MODULE HookProofs -----------------------------
(***************************************************************************)
(* Proofs about Hook and the IOManager, for any threads, tasks, programs     *)
(* and descriptors: the types, the exactness of m_pendingEventCount, what    *)
(* wakes a connect() and what stop() leaves behind.  They are for programs   *)
(* that use a descriptor in one direction at a time (~Duplex); for others    *)
(* FdContextAtomic is violated.                                             *)
(*                                                                         *)
(* HookInv is the inductive invariant, up to the first fault.  addEvent()    *)
(* takes no lock, and what makes it safe is not in IOManager: who may be in  *)
(* a call about a descriptor that someone else uses (Alone), and that a      *)
(* fiber that waits is scheduled by its own registration or timer and by     *)
(* nothing else (Contexts, Sleeps, Queue).                                   *)
(***************************************************************************)
EXTENDS Hook, FiniteSetTheorems, TLAPS

\* Where a call of each kind can be.
StepsOf(o) ==
    CASE o = "sleep"   -> {"yield", "away", "woken"}
      [] o = "connect" -> Registering \cup {"yield", "away", "woken"}
      [] o = "read"    -> Registering \cup {"try", "yield", "away", "woken"}
      [] o = "watch"   -> Registering
      [] o \in Cancels -> {"cancel", "trigger", "reset"}
      [] o = "close"   -> {"cancel", "trigger", "reset", "close"}
      [] o = "del"     -> {"del", "drop"}
      [] OTHER         -> {}

\* And a callback.
CallbackSteps(k) ==
    IF k = "timeout" THEN {"start", "mark", "cancel", "trigger", "reset", "done"}
    ELSE {"start", "done"}

\* A call is at one of its steps, and about a descriptor unless it is sleep().
Sites ==
    /\ \A f \in Fibers : InCall(f) =>
          /\ at[f] \in StepsOf(op[f]) /\ call[f] # 0
          /\ IF op[f] = "sleep" THEN fd[f] = Null ELSE fd[f] \in Fds
    /\ \A c \in Callbacks : at[c] \in CallbackSteps(c[1])

\* In the queue; once at most; under way to be executed, or being executed.
Queued(x) == \E i \in DOMAIN m_tasks : m_tasks[i] = x
Once(x)   == \A i, j \in DOMAIN m_tasks : m_tasks[i] = x /\ m_tasks[j] = x => i = j
Live(c)   == c \in m_timers \/ Queued(c) \/ \E t \in Threads : c \in cbs[t] \/ task[t] = c

\* A fiber in the queue is once in it, and waits, or has not been taken yet.
Queue ==
    \A f \in Fibers :
        /\ Once(f)
        /\ Queued(f) => at[f] \in {"start", "yield", "away"}
        /\ at[f] = "new" \/ (Queued(f) /\ at[f] = "start") => f \notin Held

\* The callback of a timeout belongs to a call that has begun, and if that still goes
\* on it is the connect() that has armed it.
Issued ==
    \A c \in Callbacks :
        c[1] = "timeout" /\ (Live(c) \/ at[c] # "start") =>
            /\ c[3] <= call[c[2]] /\ fd[c] \in Fds
            /\ Alive(c) => op[c[2]] = "connect" /\ fd[c] = fd[c[2]]

\* The callback of a sleep() that has not run: the sleep() goes on.
Sleeps ==
    \A c \in Callbacks :
        c[1] = "wake" /\ Live(c) /\ at[c] = "start" =>
            /\ op[c[2]] = "sleep" /\ call[c[2]] = c[3]
            /\ at[c[2]] \in {"yield", "away"} /\ ~Queued(c[2])

\* f cancels, and g is in a call that has waited already.
Disturbs(f, g) ==
    /\ op[f] \in Cancels \cup {"close"} /\ op[g] \in {"connect", "read"}
    /\ op[g] = "connect" => at[g] \in {"away", "woken"}

\* Two fibers in calls about one descriptor: one disturbs the other.
Alone ==
    \A f, g \in Fibers :
        f # g /\ InCall(f) /\ InCall(g) /\ fd[f] = fd[g] /\ fd[f] # Null
            => Disturbs(f, g) \/ Disturbs(g, f)

\* What a cancellation by x has still to trigger, if it is in progress.
ToTrigger(x) ==
    IF x \in Callbacks THEN {<<"WRITE">>}
    ELSE IF op[x] = "close" THEN {<<"READ", "WRITE">>, <<"WRITE">>} ELSE {<<EventOf(x)>>}

\* A cancellation and a deletion hold the lock of the context.
Locking ==
    \A x \in Tasks :
        /\ at[x] \in {"trigger", "reset", "drop"} => mtx[fd[x]] = x
        /\ at[x] \in {"trigger", "reset"} => left[x] \in ToTrigger(x)

\* The event e of d has been triggered, and its context not been reset yet.
Resetting(d, e) == \E x \in Tasks : at[x] = "reset" /\ fd[x] = d /\ Head(left[x]) = e

\* What a registration under way relies on, without a lock, and a deletion.
Registers(f) ==
    /\ at[f] \in {"ctl", "set"} => EventOf(f) \notin events[fd[f]]
    /\ at[f] = "set" => seen[f] = events[fd[f]]
    /\ at[f] = "drop" => "READ" \in events[fd[f]] /\ seen[f] = events[fd[f]] \ {"READ"}

Registrations == \A f \in Fibers : Registers(f)

\* The fiber f waits for event e of descriptor d, and nobody has woken it.
Waits(f, d, e) ==
    /\ op[f] \in {"connect", "read"} /\ fd[f] = d /\ EventOf(f) = e
    /\ at[f] \in {"yield", "away"} /\ ~Queued(f)

\* Who is in a context: a function given to addEvent(), or a fiber that waits for the
\* event, registered or not (its registration may have been cancelled before the fiber
\* was stored), unless the context is about to be reset.
Context(d, e) ==
    /\ ctx[d][e] \in Callbacks => ctx[d][e][1] = "event"
    /\ ctx[d][e] \in Fibers => Waits(ctx[d][e], d, e) \/ Resetting(d, e)

Contexts == \A d \in Fds, e \in Event : Context(d, e)

\* Only a connect() registers for output, and it stays until the event is cleared.
Connects(f, d) ==
    /\ op[f] = "connect" /\ fd[f] = d
    /\ at[f] \in {"fill", "store", "yield", "away"} /\ ~Queued(f)

Output == \A d \in Fds : "WRITE" \in events[d] => \E f \in Fibers : Connects(f, d)

\* The callback of a timeout that is past the weak pointer.
Expires(c) ==
    /\ at[c] = "trigger" => "WRITE" \in events[fd[c]]
    /\ at[c] \in {"mark", "cancel", "trigger"} /\ "overtaken" \notin past =>
          Alive(c) /\ (at[c] # "mark" => c[2] \in cancelled)

Expiring == \A c \in Callbacks : c[1] = "timeout" => Expires(c)

\* Why a connect() that was woken may go on while the connection is being made.
Excused(f) == f \in cancelled \cup roused \/ "overtaken" \in past

Awakened(f) == at[f] = "woken" \/ (at[f] \in {"yield", "away"} /\ Queued(f))

Awake ==
    \A f \in Fibers :
        op[f] = "connect" /\ sock[fd[f]] = "connecting" /\ Awakened(f) => Excused(f)

\* The threads that run tasks.
Serving == IF UseCaller THEN Threads ELSE Workers

\* What the place of a thread says of the rest of its state.
Loops ==
    /\ \A t \in Threads :
          /\ pc[t] = "user" <=> t = Caller /\ ~m_stopping
          /\ pc[t] = "joined" => t = Caller
          /\ pc[t] = "body" <=> task[t] # Null
          /\ cbs[t] # {} => pc[t] = "cbs"
          /\ t \in ended =>
                m_stopping /\ ("late" \in past \/ pc[t] \in {"scan", "exited", "joined"})
          /\ t \in Serving /\ pc[t] \in {"exited", "joined"} => t \in ended
          /\ t \notin Serving => pc[t] \in {"user", "exited", "joined"}
    /\ pc[Caller] = "joined" => fault = "none" /\ \A t \in Workers : pc[t] = "exited"

\* Whatever is left, some thread will look at it again before its idle fiber ends.
Attended ==
    "late" \notin past =>
        /\ m_tasks # <<>> => Serving \ ended # {}
        /\ m_timers # {} =>
              \E t \in Serving \ ended : pc[t] \in {"scan", "body", "timers", "wait", "cbs"}
        /\ m_pendingEventCount # 0 =>
              \E t \in Serving \ ended :
                  pc[t] \in {"scan", "body", "timers", "pending", "wait", "cbs"}

Safe ==
    /\ Sites /\ Queue /\ Issued /\ Sleeps /\ Alone /\ Locking /\ Registrations /\ Contexts
    /\ Output /\ Expiring

HookInv ==
    /\ ~Duplex
    /\ TypeOK /\ PendingExact /\ Loops /\ Attended /\ Awake
    /\ fault = "none" => Safe
-----------------------------------------------------------------------------
USE DEF Cancels, Registering, Place, histVars

\* What tasks are made of.
LEMMA TaskFacts ==
    /\ Fibers \subseteq Tasks /\ Callbacks \subseteq Tasks
    /\ \A x \in Tasks : x \in Fibers <=> x \notin Callbacks
    /\ Null \notin Tasks /\ Null \notin Fds
    /\ \A c \in Callbacks : /\ c = <<c[1], c[2], c[3]>> /\ c[2] \in Fibers
                            /\ c[3] \in 1..MaxCalls
                            /\ c[1] \in {"wake", "timeout", "event"}
    /\ \A k \in {"wake", "timeout", "event"}, f \in Fibers, n \in 1..MaxCalls :
          <<k, f, n>> \in Callbacks
BY IOAssumption DEF IOAssumption, Tasks, Callbacks

\* There are finitely many of them, and of events.
LEMMA TasksFinite == IsFiniteSet(Tasks) /\ IsFiniteSet(Fds \X Event)
<1>1. IsFiniteSet(1..MaxCalls)
  BY FS_Interval, IOAssumption DEF IOAssumption
<1>2. IsFiniteSet({"wake", "timeout", "event"}) /\ IsFiniteSet(Event)
  <2>1. IsFiniteSet({}) /\ IsFiniteSet({} \cup {"wake"})
    BY FS_EmptySet, FS_AddElement
  <2>2. IsFiniteSet(({} \cup {"wake"}) \cup {"timeout"})
    BY <2>1, FS_AddElement
  <2>3. IsFiniteSet((({} \cup {"wake"}) \cup {"timeout"}) \cup {"event"})
    BY <2>2, FS_AddElement
  <2>4. {"wake", "timeout", "event"} = (({} \cup {"wake"}) \cup {"timeout"}) \cup {"event"}
    OBVIOUS
  <2>5. IsFiniteSet({} \cup {"READ"})
    BY <2>1, FS_AddElement
  <2>6. IsFiniteSet(({} \cup {"READ"}) \cup {"WRITE"})
    BY <2>5, FS_AddElement
  <2>7. Event = ({} \cup {"READ"}) \cup {"WRITE"}
    BY DEF Event
  <2> QED
    BY <2>3, <2>4, <2>6, <2>7
<1>3. IsFiniteSet({"wake", "timeout", "event"} \X Fibers)
  BY <1>2, FS_Product, IOAssumption DEF IOAssumption
<1>4. IsFiniteSet(({"wake", "timeout", "event"} \X Fibers) \X (1..MaxCalls))
  BY <1>1, <1>3, FS_Product
<1>5. IsFiniteSet(Callbacks)
  <2> DEFINE A == ({"wake", "timeout", "event"} \X Fibers) \X (1..MaxCalls)
             Nested == [c \in Callbacks |-> <<<<c[1], c[2]>>, c[3]>>]
  <2>1. Nested \in [Callbacks -> A]
    BY TaskFacts
  <2>2. \A b, c \in Callbacks : Nested[b] = Nested[c] => b = c
    BY TaskFacts
  <2>3. Nested \in Injection(Callbacks, A)
    BY <2>1, <2>2 DEF Injection, IsInjective
  <2> HIDE DEF Nested, A
  <2>4. IsFiniteSet(A)
    BY <1>4 DEF A
  <2> QED
    BY <2>3, <2>4, FS_Injection
<1> QED
  BY <1>2, <1>5, FS_Union, FS_Product, IOAssumption DEF IOAssumption, Tasks

\* The two sets that m_pendingEventCount counts.
Registered == {r \in Fds \X Event : r[2] \in events[r[1]]}
Changing   == {x \in Tasks : at[x] \in {"set", "reset"}}

LEMMA CountedFinite ==
    /\ IsFiniteSet(Registered) /\ IsFiniteSet(Changing)
    /\ Cardinality(Registered) \in Nat /\ Cardinality(Changing) \in Nat
    /\ IsFiniteSet(Registered') /\ IsFiniteSet(Changing')
    /\ Cardinality(Registered)' \in Nat /\ Cardinality(Changing)' \in Nat
<1>1. /\ Registered \subseteq Fds \X Event /\ Changing \subseteq Tasks
      /\ Registered' \subseteq Fds \X Event /\ Changing' \subseteq Tasks
  BY DEF Registered, Changing
<1> QED
  BY <1>1, TasksFinite, FS_Subset, FS_CardinalityType

\* One more task is between the count and the event,
LEMMA ChangingMore ==
    ASSUME NEW x \in Tasks, \A y \in Tasks \ {x} : at'[y] = at[y],
           at[x] \notin {"set", "reset"}, at'[x] \in {"set", "reset"}
    PROVE  Cardinality(Changing)' = Cardinality(Changing) + 1
<1>1. Changing' = Changing \cup {x} /\ x \notin Changing
  BY DEF Changing
<1> QED
  BY <1>1, CountedFinite, FS_AddElement

\* or one less.
LEMMA ChangingLess ==
    ASSUME NEW x \in Tasks, \A y \in Tasks \ {x} : at'[y] = at[y],
           at[x] \in {"set", "reset"}, at'[x] \notin {"set", "reset"}
    PROVE  Cardinality(Changing) = Cardinality(Changing)' + 1
<1>1. Changing = Changing' \cup {x} /\ x \notin Changing'
  BY DEF Changing
<1>2. Cardinality(Changing' \cup {x}) = Cardinality(Changing') + 1
  BY <1>1, CountedFinite, FS_AddElement
<1> QED
  BY <1>1, <1>2

\* One more event is registered,
LEMMA RegisteredMore ==
    ASSUME TypeOK, NEW d \in Fds, NEW e \in Event, e \notin events[d],
           events' = [events EXCEPT ![d] = events[d] \cup {e}]
    PROVE  Cardinality(Registered)' = Cardinality(Registered) + 1
<1>1. Registered' = Registered \cup {<<d, e>>} /\ <<d, e>> \notin Registered
  BY DEF Registered, TypeOK
<1> QED
  BY <1>1, CountedFinite, FS_AddElement

\* or one less.
LEMMA RegisteredLess ==
    ASSUME TypeOK, NEW d \in Fds, NEW e \in Event, e \in events[d],
           events' = [events EXCEPT ![d] = events[d] \ {e}]
    PROVE  Cardinality(Registered) = Cardinality(Registered)' + 1
<1>1. Registered = Registered' \cup {<<d, e>>} /\ <<d, e>> \notin Registered'
  BY DEF Registered, TypeOK
<1>2. Cardinality(Registered' \cup {<<d, e>>}) = Cardinality(Registered') + 1
  BY <1>1, CountedFinite, FS_AddElement
<1> QED
  BY <1>1, <1>2
-----------------------------------------------------------------------------
\* What erasing one element of a sequence leaves at each position.
LEMMA RemoveAtElements ==
    ASSUME NEW S, NEW s \in Seq(S), NEW i \in DOMAIN s
    PROVE  /\ DOMAIN RemoveAt(s, i) = 1..(Len(s) - 1)
           /\ RemoveAt(s, i) \in Seq(S)
           /\ \A j \in 1..(Len(s) - 1) :
                 RemoveAt(s, i)[j] = s[IF j < i THEN j ELSE j + 1]
<1>1. i \in 1..Len(s) /\ Len(s) \in Nat /\ \A j \in 1..Len(s) : s[j] \in S
  OBVIOUS
<1> DEFINE a == SubSeq(s, 1, i-1)
           b == SubSeq(s, i+1, Len(s))
<1>2. a \in Seq(S) /\ Len(a) = i - 1 /\ \A j \in 1..(i-1) : a[j] = s[j]
  BY <1>1
<1>3. b \in Seq(S) /\ Len(b) = Len(s) - i /\ \A j \in 1..(Len(s) - i) : b[j] = s[i + j]
  BY <1>1
<1>4. RemoveAt(s, i) = a \o b
  BY DEF RemoveAt
<1> HIDE DEF a, b
<1>5. /\ Len(a \o b) = Len(s) - 1 /\ a \o b \in Seq(S)
      /\ \A j \in 1..(Len(s) - 1) :
            (a \o b)[j] = IF j <= i - 1 THEN a[j] ELSE b[j - (i - 1)]
  <2>1. Len(a) + Len(b) = Len(s) - 1
    BY <1>1, <1>2, <1>3
  <2>2. /\ a \o b \in Seq(S) /\ Len(a \o b) = Len(a) + Len(b)
        /\ \A j \in 1..(Len(a) + Len(b)) :
              (a \o b)[j] = IF j <= Len(a) THEN a[j] ELSE b[j - Len(a)]
    BY <1>2, <1>3
  <2> QED
    BY <1>2, <2>1, <2>2
<1>6. DOMAIN RemoveAt(s, i) = 1..(Len(s) - 1) /\ RemoveAt(s, i) \in Seq(S)
  BY <1>4, <1>5
<1>7. ASSUME NEW j \in 1..(Len(s) - 1), j < i
      PROVE  RemoveAt(s, i)[j] = s[j]
  BY <1>1, <1>2, <1>4, <1>5, <1>7
<1>8. ASSUME NEW j \in 1..(Len(s) - 1), ~(j < i)
      PROVE  RemoveAt(s, i)[j] = s[j + 1]
  <2>1. j - (i - 1) \in 1..(Len(s) - i) /\ i + (j - (i - 1)) = j + 1 /\ ~(j <= i - 1)
    BY <1>1, <1>8
  <2>2. (a \o b)[j] = b[j - (i - 1)]
    BY <1>5, <2>1
  <2>3. b[j - (i - 1)] = s[i + (j - (i - 1))]
    BY <1>3, <2>1
  <2> QED
    BY <1>4, <2>1, <2>2, <2>3
<1> QED
  BY <1>6, <1>7, <1>8

\* schedule(): the task is in the queue, once if it was not; the others stay.
LEMMA ScheduleFacts ==
    ASSUME m_tasks \in Seq(Tasks), NEW x \in Tasks, Schedule(x)
    PROVE  /\ m_tasks' \in Seq(Tasks) /\ m_tasks' # <<>>
           /\ \A y : Queued(y)' <=> Queued(y) \/ y = x
           /\ \A y : Once(y) /\ (y = x => ~Queued(y)) => Once(y)'
<1> DEFINE n == Len(m_tasks) + 1
<1>1. /\ n \in Nat /\ DOMAIN m_tasks = 1..Len(m_tasks) /\ Len(m_tasks) \in Nat
      /\ DOMAIN m_tasks' = DOMAIN m_tasks \cup {n}
      /\ n \notin DOMAIN m_tasks /\ m_tasks'[n] = x
      /\ \A i \in DOMAIN m_tasks : m_tasks'[i] = m_tasks[i]
      /\ m_tasks' \in Seq(Tasks)
  BY DEF Schedule
<1> HIDE DEF n
<1>2. m_tasks' # <<>>
  BY <1>1
<1>3. \A y : Queued(y)' <=> Queued(y) \/ y = x
  BY <1>1 DEF Queued
<1>4. \A y : Once(y) /\ (y = x => ~Queued(y)) => Once(y)'
  BY <1>1 DEF Once, Queued
<1> QED
  BY <1>1, <1>2, <1>3, <1>4

\* A task taken from the queue is no longer in it, if it was there once; the others
\* stay.
LEMMA TakeFacts ==
    ASSUME m_tasks \in Seq(Tasks), NEW i \in DOMAIN m_tasks, m_tasks' = RemoveAt(m_tasks, i),
           NEW x, x = m_tasks[i]
    PROVE  /\ m_tasks' \in Seq(Tasks) /\ x \in Tasks /\ Queued(x)
           /\ \A y : y # x => (Queued(y)' <=> Queued(y))
           /\ \A y : Queued(y)' => Queued(y)
           /\ Once(x) => ~Queued(x)'
           /\ \A y : Once(y) => Once(y)'
<1> DEFINE Was(j) == IF j < i THEN j ELSE j + 1
           N == Len(m_tasks)
<1>1. N \in Nat /\ DOMAIN m_tasks = 1..N /\ i \in 1..N
  OBVIOUS
<1>2. /\ DOMAIN m_tasks' = 1..(N - 1) /\ m_tasks' \in Seq(Tasks)
      /\ \A j \in 1..(N - 1) : m_tasks'[j] = m_tasks[Was(j)]
  BY RemoveAtElements
<1>3. /\ \A j \in 1..(N - 1) : Was(j) \in 1..N /\ Was(j) # i
      /\ \A j, k \in 1..(N - 1) : Was(j) = Was(k) => j = k
      /\ \A k \in 1..N : k # i => \E j \in 1..(N - 1) : Was(j) = k
  <2>1. \A k \in 1..N : k < i => k \in 1..(N - 1) /\ Was(k) = k
    BY <1>1
  <2>2. \A k \in 1..N : k > i => k - 1 \in 1..(N - 1) /\ Was(k - 1) = k
    BY <1>1
  <2> QED
    BY <1>1, <2>1, <2>2
<1> HIDE DEF Was, N
<1>5. \A y : Queued(y)' => Queued(y)
  BY <1>1, <1>2, <1>3 DEF Queued
<1>4. ASSUME NEW y, y # x, Queued(y) PROVE Queued(y)'
  <2>1. PICK k \in 1..N : m_tasks[k] = y /\ k # i
    BY <1>1, <1>4 DEF Queued
  <2>2. PICK j \in 1..(N - 1) : Was(j) = k
    BY <1>3, <2>1
  <2> QED
    BY <1>2, <2>1, <2>2 DEF Queued
<1>6. Once(x) => ~Queued(x)'
  BY <1>1, <1>2, <1>3 DEF Queued, Once
<1>7. \A y : Once(y) => Once(y)'
  BY <1>1, <1>2, <1>3 DEF Once
<1>8. x \in Tasks /\ Queued(x)
  BY DEF Queued
<1> QED
  BY <1>2, <1>4, <1>5, <1>6, <1>7, <1>8

\* A step that leaves the queue alone.
LEMMA SameQueue ==
    ASSUME UNCHANGED m_tasks
    PROVE  \A x : (Queued(x)' <=> Queued(x)) /\ (Once(x)' <=> Once(x))
BY DEF Queued, Once
-----------------------------------------------------------------------------
\* A step of a task, whatever it adds: its thread will look again.
LEMMA BodyLoops ==
    ASSUME HookInv, fault = "none", NEW t \in Threads, task[t] # Null,
           UNCHANGED <<m_stopping, pc, task, ended, cbs>>, "late" \in past' <=> "late" \in past
    PROVE  Loops' /\ Attended'
<1>1. pc[t] = "body" /\ Loops /\ Attended
  BY DEF HookInv, Loops
<1>2. t \in Serving
  BY <1>1 DEF Loops
<1>3. "late" \in past \/ t \notin ended
  BY <1>1 DEF Loops
<1>4. pc[Caller] # "joined"
  BY <1>1, IOAssumption DEF Loops, Workers, IOAssumption
<1>5. Loops'
  BY <1>1, <1>4 DEF Loops
<1> QED
  BY <1>1, <1>2, <1>3, <1>5 DEF Attended

\* The kind of a call, from where it is.
LEMMA CallFacts ==
    ASSUME TypeOK, Sites
    PROVE  /\ \A f \in Fibers :
              /\ at[f] = "try" => op[f] = "read"
              /\ at[f] \in Registering => op[f] \in {"connect", "read", "watch"}
              /\ at[f] \in {"yield", "away", "woken"} => op[f] \in {"sleep", "connect", "read"}
              /\ at[f] \in {"cancel", "trigger", "reset"} => op[f] \in Cancels \cup {"close"}
              /\ at[f] = "close" => op[f] = "close"
              /\ at[f] \in {"del", "drop"} => op[f] = "del"
              /\ at[f] # "mark"
              /\ InCall(f) => IF op[f] = "sleep" THEN fd[f] = Null ELSE fd[f] \in Fds
              /\ InCall(f) => call[f] \in 1..MaxCalls
              /\ EventOf(f) \in Event
              /\ EventOf(f) = "WRITE" <=> op[f] \in {"connect", "cancel_WRITE"}
           /\ \A c \in Callbacks :
              /\ at[c] \in {"start", "mark", "cancel", "trigger", "reset", "done"}
              /\ at[c] \in {"mark", "cancel", "trigger", "reset"} => c[1] = "timeout"
<1> USE TaskFacts
<1>1. ASSUME NEW f \in Fibers, InCall(f)
      PROVE  /\ at[f] \in StepsOf(op[f]) /\ call[f] # 0
             /\ IF op[f] = "sleep" THEN fd[f] = Null ELSE fd[f] \in Fds
  BY <1>1 DEF Sites
<1>2. ASSUME NEW f \in Fibers
      PROVE  /\ at[f] = "try" => op[f] = "read"
             /\ at[f] \in Registering =>
                   op[f] \in {"connect", "read", "watch"}
             /\ at[f] \in {"yield", "away", "woken"} => op[f] \in {"sleep", "connect", "read"}
             /\ at[f] \in {"cancel", "trigger", "reset"} => op[f] \in Cancels \cup {"close"}
             /\ at[f] = "close" => op[f] = "close"
             /\ at[f] \in {"del", "drop"} => op[f] = "del"
             /\ at[f] # "mark"
             /\ InCall(f) => IF op[f] = "sleep" THEN fd[f] = Null ELSE fd[f] \in Fds
             /\ EventOf(f) \in Event
             /\ EventOf(f) = "WRITE" <=> op[f] \in {"connect", "cancel_WRITE"}
  BY <1>1 DEF TypeOK, InCall, StepsOf, EventOf, Direction, Event, Ops
<1>4. ASSUME NEW f \in Fibers, InCall(f)
      PROVE  call[f] \in 1..MaxCalls
  BY <1>1, <1>4, IOAssumption DEF IOAssumption, TypeOK
<1>3. ASSUME NEW c \in Callbacks
      PROVE  /\ at[c] \in {"start", "mark", "cancel", "trigger", "reset", "done"}
             /\ at[c] \in {"mark", "cancel", "trigger", "reset"} => c[1] = "timeout"
  BY DEF Sites, CallbackSteps
<1> QED
  BY <1>2, <1>3, <1>4

\* A step in which nobody triggers an event or resets a context.
LEMMA SameResetting ==
    ASSUME \A x \in Tasks : at'[x] = "reset" <=> at[x] = "reset",
           \A x \in Tasks : at[x] = "reset" => fd'[x] = fd[x] /\ left'[x] = left[x]
    PROVE  \A d, e : Resetting(d, e)' <=> Resetting(d, e)
BY DEF Resetting

\* A step that changes neither the count nor the events.
LEMMA SamePending ==
    ASSUME TypeOK, PendingExact, fault = "none", UNCHANGED <<m_pendingEventCount, events>>,
           \A x \in Tasks : at'[x] \in {"set", "reset"} <=> at[x] \in {"set", "reset"}
    PROVE  PendingExact'
<1>1. Registered' = Registered /\ Changing' = Changing
  BY DEF Registered, Changing
<1> QED
  BY <1>1 DEF PendingExact, Registered, Changing

\* At most one waits for, registers or watches a descriptor, and it is not a task
\* that cancels.
LEMMA AloneFacts ==
    ASSUME TypeOK, Sites, Alone, NEW f \in Fibers, NEW g \in Fibers, f # g,
           InCall(f), InCall(g), fd[f] = fd[g], fd[f] \in Fds
    PROVE  /\ op[f] \in {"connect", "read", "watch", "del"} => op[g] \in Cancels \cup {"close"}
           /\ op[f] \in Cancels \cup {"close"} => op[g] \in {"connect", "read"}
           /\ op[f] = "connect" => at[f] \in {"away", "woken"}
           /\ op[f] \notin {"watch", "del"}
BY TaskFacts DEF Alone, Disturbs

\* Who cancels, which events, and where it goes on.
Canceller(x, es, to) ==
    \/ x \in Fibers /\ op[x] \in Cancels /\ es = <<EventOf(x)>> /\ to = "start"
    \/ x \in Fibers /\ op[x] = "close" /\ es = <<"READ", "WRITE">> /\ to = "close"
    \/ x \in Callbacks /\ x[1] = "timeout" /\ es = <<"WRITE">> /\ to = "done"

\* It is about a descriptor, and no other holds its lock.
LEMMA CancelFacts ==
    ASSUME TypeOK, Safe, NEW x \in Tasks,
           at[x] \in {"cancel", "del", "trigger", "reset", "drop", "mark"}
    PROVE  /\ fd[x] \in Fds
           /\ x \in Fibers => InCall(x) /\ op[x] \in Cancels \cup {"close", "del"}
           /\ x \in Callbacks => x[1] = "timeout"
           /\ \A y \in Tasks : /\ fd[y] = fd[x] /\ at[y] \in {"trigger", "reset", "drop"}
                              /\ at[x] \in {"trigger", "reset", "drop"}
                              => y = x
<1>1. Sites /\ Locking /\ Issued
  BY DEF Safe
<1>2. x \in Fibers => InCall(x) /\ op[x] \in Cancels \cup {"close", "del"} /\ fd[x] \in Fds
  BY <1>1, CallFacts DEF InCall
<1>3. x \in Callbacks => x[1] = "timeout" /\ fd[x] \in Fds
  BY <1>1, CallFacts DEF Issued
<1> QED
  BY <1>1, <1>2, <1>3, TaskFacts DEF Locking

\* The events of the cancellations, as sets.
LEMMA EventSets ==
    /\ ToSet(<<"READ">>) = {"READ"} /\ ToSet(<<"WRITE">>) = {"WRITE"}
    /\ ToSet(<<"READ", "WRITE">>) = {"READ", "WRITE"}
BY DEF ToSet

\* The event that is triggered next.
LEMMA TriggerFacts ==
    ASSUME TypeOK, Safe, NEW x \in Tasks, at[x] \in {"trigger", "reset"}
    PROVE  /\ left[x] \in ToTrigger(x) /\ Head(left[x]) \in Event
           /\ x \in Callbacks => Head(left[x]) = "WRITE"
           /\ x \in Fibers /\ op[x] \in Cancels => Head(left[x]) = EventOf(x)
           /\ Len(left[x]) \in {1, 2} /\ (Len(left[x]) = 2 => x \in Fibers /\ op[x] = "close")
           /\ Len(left[x]) = 2 => Tail(left[x]) = <<"WRITE">>
           /\ Tail(left[x]) \in Seq(Event)
<1>1. left[x] \in ToTrigger(x)
  BY DEF Safe, Locking
<1>2. /\ Head(<<"READ">>) = "READ" /\ Head(<<"WRITE">>) = "WRITE"
      /\ Head(<<"READ", "WRITE">>) = "READ" /\ Tail(<<"READ", "WRITE">>) = <<"WRITE">>
      /\ Tail(<<"READ">>) = <<>> /\ Tail(<<"WRITE">>) = <<>>
      /\ Len(<<"READ">>) = 1 /\ Len(<<"WRITE">>) = 1 /\ Len(<<"READ", "WRITE">>) = 2
  OBVIOUS
<1>3. <<>> \in Seq(Event) /\ <<"WRITE">> \in Seq(Event)
  BY DEF Event
<1>4. CASE left[x] = <<"READ", "WRITE">>
  BY <1>1, <1>2, <1>3, <1>4, TaskFacts DEF ToTrigger, EventOf, Event
<1>5. CASE left[x] = <<"WRITE">>
  BY <1>1, <1>2, <1>3, <1>5, TaskFacts DEF ToTrigger, EventOf, Event
<1>6. CASE left[x] = <<"READ">>
  BY <1>1, <1>2, <1>3, <1>6, TaskFacts DEF ToTrigger, EventOf, Event
<1> QED
  BY <1>1, <1>4, <1>5, <1>6, TaskFacts DEF ToTrigger, EventOf, Direction

\* A call of f about k begins, and what it does first takes it to w.
Opens(f, o, k, w) ==
    /\ Enter(f, o, k) /\ at' = [at EXCEPT ![f] = w]
    /\ \/ /\ o = "sleep" /\ k = Null /\ w = "yield"
          /\ m_timers' = m_timers \cup {<<"wake", f, call[f] + 1>>} /\ UNCHANGED sock
       \/ /\ o = "connect" /\ k \in Fds /\ Unused(f, o, k) /\ w = "start"
          /\ sock[k] = "fresh" /\ sock' = [sock EXCEPT ![k] = "open"] /\ UNCHANGED m_timers
       \/ /\ o = "connect" /\ k \in Fds /\ Unused(f, o, k) /\ w = "add"
          /\ m_timers' = m_timers \cup {<<"timeout", f, call[f] + 1>>}
          /\ sock[k] = "fresh" /\ sock' = [sock EXCEPT ![k] = "connecting"]
       \/ /\ o \in {"read", "watch", "del", "close"} \cup Cancels /\ w = First(o)
          /\ k \in Fds /\ Unused(f, o, k) /\ UNCHANGED <<m_timers, sock>>

\* What a cancellation does to the variables of the calls.
Touches ==
    /\ UNCHANGED <<call, op, cancelled, sock>>
    /\ early' \subseteq Fibers /\ roused' \subseteq Fibers /\ roused \subseteq roused'

\* A call finds nothing to cancel or to delete.
Abandons(x, to) ==
    /\ \/ at[x] \in {"cancel", "del"} /\ x \in Fibers /\ op[x] # "close" /\ to = "start"
       \/ at[x] = "cancel" /\ x \in Fibers /\ op[x] = "close" /\ to = "close"
       \/ at[x] = "cancel" /\ x \in Callbacks /\ to = "done"
    /\ at' = [at EXCEPT ![x] = to]
    /\ UNCHANGED <<threadVars, m_tasks, m_timers, fdVars, fd, seen, left, fault>>
    /\ Touches

\* The task ends.
LEMMA ReturnStep ==
    ASSUME HookInv, fault = "none", NEW t \in Threads, NEW f \in Fibers, task[t] = f, Return(f)
    PROVE  HookInv'
<1> USE TaskFacts, IOAssumption DEF Return, Move, threadVars, fdVars, hookVars, codeVars
<1>1. ~Duplex /\ TypeOK /\ Safe /\ PendingExact /\ Awake
  BY DEF HookInv
<1>2. TypeOK /\ Sites
  BY <1>1 DEF Safe
<1>3. \A y : (Queued(y)' <=> Queued(y)) /\ (Once(y)' <=> Once(y))
  BY SameQueue
<1>4. \A d, e : Resetting(d, e)' <=> Resetting(d, e)
  BY <1>1, SameResetting DEF TypeOK
<1>5. TypeOK'
  BY <1>1, <1>2, CallFacts, <1>3, <1>4 DEF TypeOK, Safe, Event, Faults
<1>6. PendingExact'
  BY <1>1, SamePending DEF TypeOK
<1>7. Sites'
  BY <1>1, <1>2, CallFacts, <1>3, <1>4 DEF TypeOK, Safe, Sites, InCall, StepsOf, CallbackSteps
<1>8. Queue'
  BY <1>1, <1>2, CallFacts, <1>3, <1>4 DEF TypeOK, Safe, Queue, Held
<1>9. Issued'
  BY <1>1, <1>2, CallFacts, <1>3, <1>4 DEF TypeOK, Safe, Issued, Live, Alive, InCall
<1>10. Sleeps'
  BY <1>1, <1>2, CallFacts, <1>3, <1>4 DEF TypeOK, Safe, Sleeps, Live
<1>11. Alone'
  BY <1>1, <1>2, CallFacts, <1>3, <1>4 DEF TypeOK, Safe, Alone, Disturbs, InCall
<1>12. Locking'
  BY <1>1, <1>2, CallFacts, <1>3, <1>4 DEF TypeOK, Safe, Locking, ToTrigger, EventOf
<1>13. Registrations'
  BY <1>1, <1>2, CallFacts, <1>3, <1>4 DEF TypeOK, Safe, Registrations, Registers, EventOf,
     Direction
<1>14. Contexts'
  BY <1>1, <1>2, CallFacts, <1>3, <1>4 DEF TypeOK, Safe, Contexts, Context, Waits, EventOf,
     Direction
<1>15. Output'
  <2> SUFFICES ASSUME NEW d \in Fds, "WRITE" \in events'[d]
               PROVE  \E g \in Fibers : Connects(g, d)'
    BY DEF Output
  <2>1. PICK g \in Fibers : Connects(g, d)
    BY <1>1, <1>2, CallFacts, <1>3, <1>4 DEF Safe, Output, TypeOK
  <2> QED
    BY <1>1, <1>2, CallFacts, <1>3, <1>4, <2>1 DEF TypeOK, Connects
<1>16. Expiring'
  BY <1>1, <1>2, CallFacts, <1>3, <1>4 DEF TypeOK, Safe, Expiring, Expires, Alive, InCall
<1>17. Awake'
  BY <1>1, <1>2, CallFacts, <1>3, <1>4 DEF TypeOK, Safe, Awake, Awakened, Excused, InCall
<1>18. Loops' /\ Attended'
  BY <1>1, BodyLoops DEF TypeOK
<1> QED
  BY <1>1, <1>5, <1>6, <1>7, <1>8, <1>9, <1>10, <1>11, <1>12, <1>13, <1>14, <1>15, <1>16,
     <1>17, <1>18 DEF HookInv, Safe

\* do_io() makes the system call.
LEMMA TryStep ==
    ASSUME HookInv, fault = "none", NEW t \in Threads, NEW f \in Fibers, task[t] = f, Try(f)
    PROVE  HookInv'
<1> USE TaskFacts, IOAssumption DEF Try, Move, threadVars, fdVars, hookVars, codeVars
<1>1. ~Duplex /\ TypeOK /\ Safe /\ PendingExact /\ Awake
  BY DEF HookInv
<1>2. TypeOK /\ Sites
  BY <1>1 DEF Safe
<1>3. \A y : (Queued(y)' <=> Queued(y)) /\ (Once(y)' <=> Once(y))
  BY SameQueue
<1>4. \A d, e : Resetting(d, e)' <=> Resetting(d, e)
  BY <1>1, SameResetting DEF TypeOK
<1>5. fd[f] \in Fds /\ InCall(f)
  BY <1>2, CallFacts DEF InCall
<1>6. TypeOK'
  BY <1>1, <1>2, CallFacts, <1>3, <1>4, <1>5 DEF TypeOK, Sock
<1>7. PendingExact'
  BY <1>1, SamePending DEF TypeOK
<1>8. Sites'
  BY <1>1, <1>2, CallFacts, <1>3, <1>4, <1>5 DEF TypeOK, Safe, Sites, InCall, StepsOf,
     CallbackSteps
<1>9. Queue'
  BY <1>1, <1>2, CallFacts, <1>3, <1>4, <1>5 DEF TypeOK, Safe, Queue, Held
<1>10. Issued'
  BY <1>1, <1>2, CallFacts, <1>3, <1>4, <1>5 DEF TypeOK, Safe, Issued, Live, Alive, InCall
<1>11. Sleeps'
  BY <1>1, <1>2, CallFacts, <1>3, <1>4, <1>5 DEF TypeOK, Safe, Sleeps, Live
<1>12. Alone'
  BY <1>1, <1>2, CallFacts, <1>3, <1>4, <1>5 DEF TypeOK, Safe, Alone, Disturbs, InCall
<1>13. Locking'
  BY <1>1, <1>2, CallFacts, <1>3, <1>4, <1>5 DEF TypeOK, Safe, Locking, ToTrigger, EventOf
<1>14. Registrations'
  BY <1>1, <1>2, CallFacts, <1>3, <1>4, <1>5 DEF TypeOK, Safe, Registrations, Registers, EventOf,
     Direction
<1>15. Contexts'
  BY <1>1, <1>2, CallFacts, <1>3, <1>4, <1>5 DEF TypeOK, Safe, Contexts, Context, Waits,
     EventOf, Direction
<1>16. Output'
  <2> SUFFICES ASSUME NEW d \in Fds, "WRITE" \in events'[d]
               PROVE  \E g \in Fibers : Connects(g, d)'
    BY DEF Output
  <2>1. PICK g \in Fibers : Connects(g, d)
    BY <1>1, <1>2, CallFacts, <1>3, <1>4, <1>5 DEF Safe, Output, TypeOK
  <2> QED
    BY <1>1, <1>2, CallFacts, <1>3, <1>4, <1>5, <2>1 DEF TypeOK, Connects
<1>17. Expiring'
  BY <1>1, <1>2, CallFacts, <1>3, <1>4, <1>5 DEF TypeOK, Safe, Expiring, Expires, Issued,
     Alive, InCall
<1>18. Awake'
  BY <1>1, <1>2, CallFacts, <1>3, <1>4, <1>5 DEF TypeOK, Safe, Awake, Awakened, Excused, InCall
<1>19. Loops' /\ Attended'
  BY <1>1, BodyLoops DEF TypeOK
<1> QED
  BY <1>1, <1>6, <1>7, <1>8, <1>9, <1>10, <1>11, <1>12, <1>13, <1>14, <1>15, <1>16, <1>17,
     <1>18, <1>19 DEF HookInv, Safe

\* addEvent() reads the events.
LEMMA AddCheckStep ==
    ASSUME HookInv, fault = "none", NEW t \in Threads, NEW f \in Fibers, task[t] = f,
           AddCheck(f, EventOf(f)), UNCHANGED hookVars
    PROVE  HookInv'
<1> USE TaskFacts, IOAssumption DEF AddCheck, Move, threadVars, fdVars, hookVars, codeVars
<1>1. ~Duplex /\ TypeOK /\ Safe /\ PendingExact /\ Awake
  BY DEF HookInv
<1>2. TypeOK /\ Sites
  BY <1>1 DEF Safe
<1>3. \A y : (Queued(y)' <=> Queued(y)) /\ (Once(y)' <=> Once(y))
  BY SameQueue
<1>4. \A d, e : Resetting(d, e)' <=> Resetting(d, e)
  BY <1>1, SameResetting DEF TypeOK
<1>5. fd[f] \in Fds /\ InCall(f)
  BY <1>2, CallFacts DEF InCall
<1>6. TypeOK'
  BY <1>1, <1>2, CallFacts, <1>3, <1>4, <1>5 DEF TypeOK, Safe, Event, Faults
<1>7. PendingExact'
  BY <1>1, SamePending DEF TypeOK
<1>8. ASSUME fault' = "none" PROVE Sites'
  BY <1>8, <1>1, <1>2, CallFacts, <1>3, <1>4, <1>5 DEF TypeOK, Safe, Sites, InCall, StepsOf,
     CallbackSteps
<1>9. ASSUME fault' = "none" PROVE Queue'
  BY <1>9, <1>1, <1>2, CallFacts, <1>3, <1>4, <1>5 DEF TypeOK, Safe, Queue, Held
<1>10. ASSUME fault' = "none" PROVE Issued'
  BY <1>10, <1>1, <1>2, CallFacts, <1>3, <1>4, <1>5 DEF TypeOK, Safe, Issued, Live, Alive, InCall
<1>11. ASSUME fault' = "none" PROVE Sleeps'
  BY <1>11, <1>1, <1>2, CallFacts, <1>3, <1>4, <1>5 DEF TypeOK, Safe, Sleeps, Live
<1>12. ASSUME fault' = "none" PROVE Alone'
  BY <1>12, <1>1, <1>2, CallFacts, <1>3, <1>4, <1>5 DEF TypeOK, Safe, Alone, Disturbs, InCall
<1>13. ASSUME fault' = "none" PROVE Locking'
  BY <1>13, <1>1, <1>2, CallFacts, <1>3, <1>4, <1>5 DEF TypeOK, Safe, Locking, ToTrigger, EventOf
<1>14. ASSUME fault' = "none" PROVE Registrations'
  BY <1>14, <1>1, <1>2, CallFacts, <1>3, <1>4, <1>5 DEF TypeOK, Safe, Registrations, Registers,
     EventOf, Direction
<1>15. ASSUME fault' = "none" PROVE Contexts'
  BY <1>15, <1>1, <1>2, CallFacts, <1>3, <1>4, <1>5 DEF TypeOK, Safe, Contexts, Context, Waits,
     EventOf, Direction
<1>16. ASSUME fault' = "none" PROVE Output'
  <2> SUFFICES ASSUME NEW d \in Fds, "WRITE" \in events'[d]
               PROVE  \E g \in Fibers : Connects(g, d)'
    BY DEF Output
  <2>1. PICK g \in Fibers : Connects(g, d)
    BY <1>16, <1>1, <1>2, CallFacts, <1>3, <1>4, <1>5 DEF Safe, Output, TypeOK
  <2> QED
    BY <1>16, <1>1, <1>2, CallFacts, <1>3, <1>4, <1>5, <2>1 DEF TypeOK, Connects
<1>17. ASSUME fault' = "none" PROVE Expiring'
  BY <1>17, <1>1, <1>2, CallFacts, <1>3, <1>4, <1>5 DEF TypeOK, Safe, Expiring, Expires, Alive,
     InCall
<1>18. Awake'
  BY <1>1, <1>2, CallFacts, <1>3, <1>4, <1>5 DEF TypeOK, Safe, Awake, Awakened, Excused, InCall
<1>19. Loops' /\ Attended'
  BY <1>1, BodyLoops DEF TypeOK
<1> QED
  BY <1>1, <1>6, <1>7, <1>8, <1>9, <1>10, <1>11, <1>12, <1>13, <1>14, <1>15, <1>16, <1>17,
     <1>18, <1>19 DEF HookInv, Safe

\* addEvent() asks the kernel and counts.
LEMMA AddCtlStep ==
    ASSUME HookInv, fault = "none", NEW t \in Threads, NEW f \in Fibers, task[t] = f,
           AddCtl(f), UNCHANGED hookVars
    PROVE  HookInv'
<1> USE TaskFacts, IOAssumption DEF AddCtl, Move, threadVars, fdVars, hookVars, codeVars
<1>1. ~Duplex /\ TypeOK /\ Safe /\ PendingExact /\ Awake
  BY DEF HookInv
<1>2. TypeOK /\ Sites
  BY <1>1 DEF Safe
<1>3. \A y : (Queued(y)' <=> Queued(y)) /\ (Once(y)' <=> Once(y))
  BY SameQueue
<1>4. \A d, e : Resetting(d, e)' <=> Resetting(d, e)
  BY <1>1, SameResetting DEF TypeOK
<1>5. fd[f] \in Fds /\ InCall(f)
  BY <1>2, CallFacts DEF InCall
<1>6. TypeOK'
  BY <1>1, <1>2, CallFacts, <1>3, <1>4, <1>5 DEF TypeOK, Safe, Event, Faults
<1>7. PendingExact'
  <2>1. Cardinality(Changing)' = Cardinality(Changing) + 1
    BY <1>1, ChangingMore DEF TypeOK
  <2>4. Registered' = Registered
    BY DEF Registered
  <2>2. m_pendingEventCount = Cardinality(Registered) + Cardinality(Changing)
    BY <1>1 DEF PendingExact, Registered, Changing
  <2>3. m_pendingEventCount' = Cardinality(Registered)' + Cardinality(Changing)'
    BY <2>1, <2>2, <2>4, CountedFinite DEF TypeOK
  <2> QED
    BY <2>3 DEF PendingExact, Registered, Changing
<1>8. Sites'
  BY <1>1, <1>2, CallFacts, <1>3, <1>4, <1>5 DEF TypeOK, Safe, Sites, InCall, StepsOf,
     CallbackSteps
<1>9. Queue'
  BY <1>1, <1>2, CallFacts, <1>3, <1>4, <1>5 DEF TypeOK, Safe, Queue, Held
<1>10. Issued'
  BY <1>1, <1>2, CallFacts, <1>3, <1>4, <1>5 DEF TypeOK, Safe, Issued, Live, Alive, InCall
<1>11. Sleeps'
  BY <1>1, <1>2, CallFacts, <1>3, <1>4, <1>5 DEF TypeOK, Safe, Sleeps, Live
<1>12. Alone'
  BY <1>1, <1>2, CallFacts, <1>3, <1>4, <1>5 DEF TypeOK, Safe, Alone, Disturbs, InCall
<1>13. Locking'
  BY <1>1, <1>2, CallFacts, <1>3, <1>4, <1>5 DEF TypeOK, Safe, Locking, ToTrigger, EventOf
<1>14. Registrations'
  BY <1>1, <1>2, CallFacts, <1>3, <1>4, <1>5 DEF TypeOK, Safe, Registrations, Registers, EventOf,
     Direction
<1>15. Contexts'
  BY <1>1, <1>2, CallFacts, <1>3, <1>4, <1>5 DEF TypeOK, Safe, Contexts, Context, Waits,
     EventOf, Direction
<1>16. Output'
  <2> SUFFICES ASSUME NEW d \in Fds, "WRITE" \in events'[d]
               PROVE  \E g \in Fibers : Connects(g, d)'
    BY DEF Output
  <2>1. PICK g \in Fibers : Connects(g, d)
    BY <1>1, <1>2, CallFacts, <1>3, <1>4, <1>5 DEF Safe, Output, TypeOK
  <2> QED
    BY <1>1, <1>2, CallFacts, <1>3, <1>4, <1>5, <2>1 DEF TypeOK, Connects
<1>17. Expiring'
  BY <1>1, <1>2, CallFacts, <1>3, <1>4, <1>5 DEF TypeOK, Safe, Expiring, Expires, Alive, InCall
<1>18. Awake'
  BY <1>1, <1>2, CallFacts, <1>3, <1>4, <1>5 DEF TypeOK, Safe, Awake, Awakened, Excused, InCall
<1>19. Loops' /\ Attended'
  BY <1>1, BodyLoops DEF TypeOK
<1> QED
  BY <1>1, <1>6, <1>7, <1>8, <1>9, <1>10, <1>11, <1>12, <1>13, <1>14, <1>15, <1>16, <1>17,
     <1>18, <1>19 DEF HookInv, Safe

\* addEvent() sets the event, without the lock.
LEMMA AddSetStep ==
    ASSUME HookInv, fault = "none", NEW t \in Threads, NEW f \in Fibers, task[t] = f, AddSet(f,
           EventOf(f)), UNCHANGED hookVars
    PROVE  HookInv'
<1> USE TaskFacts, IOAssumption DEF AddSet, Move, threadVars, fdVars, hookVars, codeVars
<1>1. ~Duplex /\ TypeOK /\ Safe /\ PendingExact /\ Awake
  BY DEF HookInv
<1>2. TypeOK /\ Sites
  BY <1>1 DEF Safe
<1>3. \A y : (Queued(y)' <=> Queued(y)) /\ (Once(y)' <=> Once(y))
  BY SameQueue
<1>4. \A d, e : Resetting(d, e)' <=> Resetting(d, e)
  BY <1>1, SameResetting DEF TypeOK
<1>5. fd[f] \in Fds /\ InCall(f)
  BY <1>2, CallFacts DEF InCall
<1>6. /\ EventOf(f) \notin events[fd[f]] /\ EventOf(f) \in Event
      /\ events' = [events EXCEPT ![fd[f]] = events[fd[f]] \cup {EventOf(f)}]
  BY <1>1, <1>2, CallFacts DEF Safe, Registrations, Registers
<1>7. TypeOK'
  BY <1>1, <1>2, CallFacts, <1>3, <1>4, <1>5, <1>6 DEF TypeOK, Safe, Event, Faults
<1>8. PendingExact'
  <2>1. Cardinality(Changing) = Cardinality(Changing)' + 1
    BY <1>1, ChangingLess DEF TypeOK
  <2>2. Cardinality(Registered)' = Cardinality(Registered) + 1
    BY <1>1, <1>5, <1>6, RegisteredMore
  <2>3. m_pendingEventCount = Cardinality(Registered) + Cardinality(Changing)
    BY <1>1 DEF PendingExact, Registered, Changing
  <2>4. Cardinality(Changing)' \in Nat /\ Cardinality(Registered)' \in Nat
    BY CountedFinite
  <2>5. m_pendingEventCount' = Cardinality(Registered)' + Cardinality(Changing)'
    BY <2>1, <2>2, <2>3, <2>4, CountedFinite
  <2> QED
    BY <2>5 DEF PendingExact, Registered, Changing
<1>9. Sites'
  BY <1>1, <1>2, CallFacts, <1>3, <1>4, <1>5, <1>6 DEF TypeOK, Safe, Sites, InCall, StepsOf,
     CallbackSteps
<1>10. Queue'
  BY <1>1, <1>2, CallFacts, <1>3, <1>4, <1>5, <1>6 DEF TypeOK, Safe, Queue, Held
<1>11. Issued'
  <2>1. \A c \in Callbacks : (Live(c)' <=> Live(c)) /\ (Alive(c)' <=> Alive(c)) /\ at'[c] = at[c]
    BY <1>1, <1>2, CallFacts, <1>3, <1>4, <1>5, <1>6 DEF TypeOK, Live, Alive, InCall
  <2> QED
    BY <1>1, <2>1 DEF Safe, Issued
<1>12. Sleeps'
  BY <1>1, <1>2, CallFacts, <1>3, <1>4, <1>5, <1>6 DEF TypeOK, Safe, Sleeps, Live
<1>13. Alone'
  BY <1>1, <1>2, CallFacts, <1>3, <1>4, <1>5, <1>6 DEF TypeOK, Safe, Alone, Disturbs, InCall
<1>14. Locking'
  BY <1>1, <1>2, CallFacts, <1>3, <1>4, <1>5, <1>6 DEF TypeOK, Safe, Locking, ToTrigger, EventOf
<1>15. Registrations'
  <2> SUFFICES ASSUME NEW g \in Fibers PROVE Registers(g)'
    BY DEF Registrations
  <2>1. Registers(g) /\ Registers(f) /\ EventOf(g)' = EventOf(g) /\ EventOf(f)' = EventOf(f)
    BY <1>1 DEF Safe, Registrations, EventOf
  <2>2. CASE g = f
    BY <1>1, <1>2, CallFacts, <1>3, <1>4, <1>5, <1>6, <2>1, <2>2 DEF TypeOK, Registers
  <2>3. CASE g # f /\ at[g] \in {"ctl", "set", "drop"}
    <3>1. InCall(g) /\ fd[g] \in Fds /\ fd[g] # fd[f]
      BY <1>1, <1>2, CallFacts, <1>3, <1>4, <1>5, <1>6, <2>3, AloneFacts DEF InCall, Safe
    <3> QED
      BY <1>1, <1>2, CallFacts, <1>3, <1>4, <1>5, <1>6, <2>1, <2>3, <3>1 DEF TypeOK, Registers
  <2>4. CASE g # f /\ at[g] \notin {"ctl", "set", "drop"}
    BY <1>1, <1>2, CallFacts, <1>3, <1>4, <1>5, <1>6, <2>4 DEF TypeOK, Registers
  <2> QED
    BY <2>2, <2>3, <2>4
<1>16. Contexts'
  <2> SUFFICES ASSUME NEW d \in Fds, NEW e \in Event PROVE Context(d, e)'
    BY DEF Contexts
  <2>1. Context(d, e) /\ \A g : EventOf(g)' = EventOf(g)
    BY <1>1 DEF Safe, Contexts, EventOf
  <2>2. ctx[d][e] \in Tasks \cup {Null}
    BY <1>1 DEF TypeOK
  <2>3. \A g \in Fibers : Waits(g, d, e) => Waits(g, d, e)'
    BY <1>1, <1>2, CallFacts, <1>3, <1>4, <1>5, <1>6, <2>1 DEF TypeOK, Waits
  <2> QED
    BY <1>1, <1>2, CallFacts, <1>3, <1>4, <1>5, <1>6, <2>1, <2>2, <2>3 DEF TypeOK, Context
<1>17. Output'
  <2> SUFFICES ASSUME NEW d \in Fds, "WRITE" \in events'[d]
               PROVE  \E g \in Fibers : Connects(g, d)'
    BY DEF Output
  <2>1. CASE "WRITE" \in events[d]
    <3>1. PICK g \in Fibers : Connects(g, d)
      BY <1>1, <2>1 DEF Safe, Output
    <3> QED
      BY <1>1, <1>2, CallFacts, <1>3, <1>4, <1>5, <1>6, <3>1 DEF TypeOK, Connects
  <2>2. CASE "WRITE" \notin events[d]
    <3>1. d = fd[f] /\ EventOf(f) = "WRITE"
      BY <1>1, <1>2, CallFacts, <1>3, <1>4, <1>5, <1>6, <2>2 DEF TypeOK
    <3>2. ~Queued(f)
      BY <1>1 DEF Safe, Queue
    <3> QED
      BY <1>1, <1>2, CallFacts, <1>3, <1>4, <1>5, <1>6, <3>1, <3>2 DEF TypeOK, Connects
  <2> QED
    BY <2>1, <2>2
<1>18. Expiring'
  <2> SUFFICES ASSUME NEW c \in Callbacks, c[1] = "timeout" PROVE Expires(c)'
    BY DEF Expiring
  <2>1. Expires(c) /\ (at[c] # "start" => fd[c] \in Fds)
    BY <1>1 DEF Safe, Expiring, Issued
  <2>2. Alive(c)' <=> Alive(c)
    BY <1>1 DEF TypeOK, Alive, InCall
  <2> QED
    BY <1>1, <1>2, CallFacts, <1>3, <1>4, <1>5, <1>6, <2>1, <2>2 DEF TypeOK, Expires
<1>19. Awake'
  BY <1>1, <1>2, CallFacts, <1>3, <1>4, <1>5, <1>6 DEF TypeOK, Safe, Awake, Awakened, Excused,
     InCall
<1>20. Loops' /\ Attended'
  BY <1>1, BodyLoops DEF TypeOK
<1> QED
  BY <1>1, <1>7, <1>8, <1>9, <1>10, <1>11, <1>12, <1>13, <1>14, <1>15, <1>16, <1>17, <1>18,
     <1>19, <1>20 DEF HookInv, Safe

\* addEvent() finds the context empty and sets its scheduler.
LEMMA AddFillStep ==
    ASSUME HookInv, fault = "none", NEW t \in Threads, NEW f \in Fibers, task[t] = f,
           AddFill(f, EventOf(f)), UNCHANGED hookVars
    PROVE  HookInv'
<1> USE TaskFacts, IOAssumption DEF AddFill, Move, threadVars, fdVars, hookVars, codeVars
<1>1. ~Duplex /\ TypeOK /\ Safe /\ PendingExact /\ Awake
  BY DEF HookInv
<1>2. TypeOK /\ Sites
  BY <1>1 DEF Safe
<1>3. \A y : (Queued(y)' <=> Queued(y)) /\ (Once(y)' <=> Once(y))
  BY SameQueue
<1>4. \A d, e : Resetting(d, e)' <=> Resetting(d, e)
  BY <1>1, SameResetting DEF TypeOK
<1>5. fd[f] \in Fds /\ InCall(f)
  BY <1>2, CallFacts DEF InCall
<1>6. ~Queued(f)
  BY <1>1 DEF Safe, Queue
<1>7. TypeOK'
  BY <1>1, <1>2, CallFacts, <1>3, <1>4, <1>5, <1>6 DEF TypeOK, Safe, Event, Faults
<1>8. PendingExact'
  BY <1>1, SamePending DEF TypeOK
<1>9. ASSUME fault' = "none" PROVE Sites'
  BY <1>9, <1>1, <1>2, CallFacts, <1>3, <1>4, <1>5, <1>6 DEF TypeOK, Safe, Sites, InCall,
     StepsOf, CallbackSteps
<1>10. ASSUME fault' = "none" PROVE Queue'
  BY <1>10, <1>1, <1>2, CallFacts, <1>3, <1>4, <1>5, <1>6 DEF TypeOK, Safe, Queue, Held
<1>11. ASSUME fault' = "none" PROVE Issued'
  BY <1>11, <1>1, <1>2, CallFacts, <1>3, <1>4, <1>5, <1>6 DEF TypeOK, Safe, Issued, Live,
     Alive, InCall
<1>12. ASSUME fault' = "none" PROVE Sleeps'
  BY <1>12, <1>1, <1>2, CallFacts, <1>3, <1>4, <1>5, <1>6 DEF TypeOK, Safe, Sleeps, Live
<1>13. ASSUME fault' = "none" PROVE Alone'
  <2> SUFFICES ASSUME NEW g \in Fibers, NEW h \in Fibers, g # h, InCall(g)', InCall(h)',
                      fd'[g] = fd'[h], fd'[g] # Null
               PROVE  Disturbs(g, h)' \/ Disturbs(h, g)'
    BY DEF Alone
  <2>1. Disturbs(g, h) \/ Disturbs(h, g)
    BY <1>13, <1>1, <1>2, CallFacts, <1>3, <1>4, <1>5, <1>6 DEF Safe, Alone, InCall, TypeOK
  <2> QED
    BY <1>13, <1>1, <1>2, CallFacts, <1>3, <1>4, <1>5, <1>6, <2>1 DEF Disturbs, TypeOK
<1>14. ASSUME fault' = "none" PROVE Locking'
  BY <1>14, <1>1, <1>2, CallFacts, <1>3, <1>4, <1>5, <1>6 DEF TypeOK, Safe, Locking, ToTrigger,
     EventOf
<1>15. ASSUME fault' = "none" PROVE Registrations'
  <2> SUFFICES ASSUME NEW g \in Fibers PROVE Registers(g)'
    BY DEF Registrations
  <2>1. Registers(g) /\ EventOf(g)' = EventOf(g)
    BY <1>1 DEF Safe, Registrations, EventOf
  <2>2. CASE g = f
    BY <1>15, <1>1, <1>2, CallFacts, <1>3, <1>4, <1>5, <1>6, <2>1, <2>2 DEF TypeOK, Registers
  <2>3. CASE g # f /\ at[g] \in {"ctl", "set", "drop"}
    <3>1. InCall(g) /\ fd[g] \in Fds /\ fd[g] # fd[f]
      BY <1>15, <1>1, <1>2, CallFacts, <1>3, <1>4, <1>5, <1>6, <2>3, AloneFacts DEF InCall, Safe
    <3> QED
      BY <1>15, <1>1, <1>2, CallFacts, <1>3, <1>4, <1>5, <1>6, <2>1, <2>3, <3>1 DEF TypeOK,
         Registers
  <2>4. CASE g # f /\ at[g] \notin {"ctl", "set", "drop"}
    BY <1>15, <1>1, <1>2, CallFacts, <1>3, <1>4, <1>5, <1>6, <2>4 DEF TypeOK, Registers
  <2> QED
    BY <2>2, <2>3, <2>4
<1>16. ASSUME fault' = "none" PROVE Contexts'
  <2> SUFFICES ASSUME NEW d \in Fds, NEW e \in Event PROVE Context(d, e)'
    BY DEF Contexts
  <2>1. Context(d, e) /\ \A g : EventOf(g)' = EventOf(g)
    BY <1>1 DEF Safe, Contexts, EventOf
  <2>2. \A g \in Fibers : Waits(g, d, e) => Waits(g, d, e)'
    BY <1>16, <1>1, <1>2, CallFacts, <1>3, <1>4, <1>5, <1>6, <2>1 DEF TypeOK, Waits
  <2> QED
    BY <1>16, <1>1, <1>4, <2>1, <2>2 DEF TypeOK, Context
<1>17. ASSUME fault' = "none" PROVE Output'
  <2> SUFFICES ASSUME NEW d \in Fds, "WRITE" \in events'[d]
               PROVE  \E g \in Fibers : Connects(g, d)'
    BY DEF Output
  <2>1. PICK g \in Fibers : Connects(g, d)
    BY <1>17, <1>1, <1>2, CallFacts, <1>3, <1>4, <1>5, <1>6 DEF Safe, Output, TypeOK
  <2> QED
    BY <1>17, <1>1, <1>2, CallFacts, <1>3, <1>4, <1>5, <1>6, <2>1 DEF TypeOK, Connects
<1>18. ASSUME fault' = "none" PROVE Expiring'
  BY <1>18, <1>1, <1>2, CallFacts, <1>3, <1>4, <1>5, <1>6 DEF TypeOK, Safe, Expiring, Expires,
     Alive, InCall
<1>19. Awake'
  BY <1>1, <1>2, CallFacts, <1>3, <1>4, <1>5, <1>6 DEF TypeOK, Safe, Queue, Awake, Awakened,
     Excused, InCall
<1>20. Loops' /\ Attended'
  BY <1>1, BodyLoops DEF TypeOK
<1> QED
  BY <1>1, <1>7, <1>8, <1>9, <1>10, <1>11, <1>12, <1>13, <1>14, <1>15, <1>16, <1>17, <1>18,
     <1>19, <1>20 DEF HookInv, Safe

\* addEvent() stores the fiber that waits.
LEMMA AddStoreStep ==
    ASSUME HookInv, fault = "none", NEW t \in Threads, NEW f \in Fibers, task[t] = f,
           op[f] # "watch",
           AddStore(f, EventOf(f), f, "yield"), UNCHANGED hookVars
    PROVE  HookInv'
<1> USE TaskFacts, IOAssumption DEF AddStore, Move, threadVars, fdVars, hookVars, codeVars
<1>1. ~Duplex /\ TypeOK /\ Safe /\ PendingExact /\ Awake
  BY DEF HookInv
<1>2. TypeOK /\ Sites
  BY <1>1 DEF Safe
<1>3. \A y : (Queued(y)' <=> Queued(y)) /\ (Once(y)' <=> Once(y))
  BY SameQueue
<1>4. \A d, e : Resetting(d, e)' <=> Resetting(d, e)
  BY <1>1, SameResetting DEF TypeOK
<1>5. fd[f] \in Fds /\ InCall(f)
  BY <1>2, CallFacts DEF InCall
<1>6. ~Queued(f)
  BY <1>1 DEF Safe, Queue
<1>7. TypeOK'
  BY <1>1, <1>2, CallFacts, <1>3, <1>4, <1>5, <1>6 DEF TypeOK, Safe, Event, Faults
<1>8. PendingExact'
  BY <1>1, SamePending DEF TypeOK
<1>9. Sites'
  BY <1>1, <1>2, CallFacts, <1>3, <1>4, <1>5, <1>6 DEF TypeOK, Safe, Sites, InCall,
     StepsOf, CallbackSteps
<1>10. Queue'
  BY <1>1, <1>2, CallFacts, <1>3, <1>4, <1>5, <1>6 DEF TypeOK, Safe, Queue, Held
<1>11. Issued'
  BY <1>1, <1>2, CallFacts, <1>3, <1>4, <1>5, <1>6 DEF TypeOK, Safe, Issued, Live,
     Alive, InCall
<1>12. Sleeps'
  BY <1>1, <1>2, CallFacts, <1>3, <1>4, <1>5, <1>6 DEF TypeOK, Safe, Sleeps, Live
<1>13. Alone'
  <2> SUFFICES ASSUME NEW g \in Fibers, NEW h \in Fibers, g # h, InCall(g)', InCall(h)',
                      fd'[g] = fd'[h], fd'[g] # Null
               PROVE  Disturbs(g, h)' \/ Disturbs(h, g)'
    BY DEF Alone
  <2>1. Disturbs(g, h) \/ Disturbs(h, g)
    BY <1>1, <1>2, CallFacts, <1>3, <1>4, <1>5, <1>6 DEF Safe, Alone, InCall, TypeOK
  <2> QED
    BY <1>1, <1>2, CallFacts, <1>3, <1>4, <1>5, <1>6, <2>1 DEF Disturbs, TypeOK
<1>14. Locking'
  BY <1>1, <1>2, CallFacts, <1>3, <1>4, <1>5, <1>6 DEF TypeOK, Safe, Locking, ToTrigger, EventOf
<1>15. Registrations'
  <2> SUFFICES ASSUME NEW g \in Fibers PROVE Registers(g)'
    BY DEF Registrations
  <2>1. Registers(g) /\ EventOf(g)' = EventOf(g)
    BY <1>1 DEF Safe, Registrations, EventOf
  <2>2. CASE g = f
    BY <1>1, <1>2, CallFacts, <1>3, <1>4, <1>5, <1>6, <2>1, <2>2 DEF TypeOK, Registers
  <2>3. CASE g # f /\ at[g] \in {"ctl", "set", "drop"}
    <3>1. InCall(g) /\ fd[g] \in Fds /\ fd[g] # fd[f]
      BY <1>1, <1>2, CallFacts, <1>3, <1>4, <1>5, <1>6, <2>3, AloneFacts DEF InCall, Safe
    <3> QED
      BY <1>1, <1>2, CallFacts, <1>3, <1>4, <1>5, <1>6, <2>1, <2>3, <3>1 DEF TypeOK,
         Registers
  <2>4. CASE g # f /\ at[g] \notin {"ctl", "set", "drop"}
    BY <1>1, <1>2, CallFacts, <1>3, <1>4, <1>5, <1>6, <2>4 DEF TypeOK, Registers
  <2> QED
    BY <2>2, <2>3, <2>4
<1>16. Contexts'
  <2> SUFFICES ASSUME NEW d \in Fds, NEW e \in Event PROVE Context(d, e)'
    BY DEF Contexts
  <2>1. Context(d, e) /\ \A g : EventOf(g)' = EventOf(g)
    BY <1>1 DEF Safe, Contexts, EventOf
  <2>2. CASE d = fd[f] /\ e = EventOf(f)
    <3>1. ctx'[d][e] = f
      BY <1>1, <1>2, CallFacts, <1>3, <1>4, <1>5, <1>6, <2>2 DEF TypeOK
    <3>2. op[f] \in {"connect", "read"} /\ at'[f] = "yield" /\ ~Queued(f)'
      BY <1>1, <1>2, CallFacts, <1>3, <1>6 DEF TypeOK
    <3>3. Waits(f, d, e)'
      BY <2>1, <2>2, <3>2 DEF Waits
    <3> QED
      BY <3>1, <3>3 DEF Context
  <2>3. CASE ~(d = fd[f] /\ e = EventOf(f))
    <3>1. ctx'[d][e] = ctx[d][e] /\ ctx[d][e] \in Tasks \cup {Null}
      BY <1>1, <1>2, CallFacts, <1>3, <1>4, <1>5, <1>6, <2>3 DEF TypeOK
    <3>2. \A g \in Fibers : Waits(g, d, e) => Waits(g, d, e)'
      BY <1>1, <1>2, CallFacts, <1>3, <1>4, <1>5, <1>6, <2>1 DEF TypeOK, Waits
    <3> QED
      BY <1>1, <1>2, CallFacts, <1>3, <1>4, <1>5, <1>6, <2>1, <3>1, <3>2 DEF TypeOK,
         Context
  <2> QED
    BY <2>2, <2>3
<1>17. Output'
  <2> SUFFICES ASSUME NEW d \in Fds, "WRITE" \in events'[d]
               PROVE  \E g \in Fibers : Connects(g, d)'
    BY DEF Output
  <2>1. PICK g \in Fibers : Connects(g, d)
    BY <1>1, <1>2, CallFacts, <1>3, <1>4, <1>5, <1>6 DEF Safe, Output, TypeOK
  <2> QED
    BY <1>1, <1>2, CallFacts, <1>3, <1>4, <1>5, <1>6, <2>1 DEF TypeOK, Connects
<1>18. Expiring'
  BY <1>1, <1>2, CallFacts, <1>3, <1>4, <1>5, <1>6 DEF TypeOK, Safe, Expiring, Expires,
     Alive, InCall
<1>19. Awake'
  BY <1>1, <1>2, CallFacts, <1>3, <1>4, <1>5, <1>6 DEF TypeOK, Safe, Queue, Awake, Awakened,
     Excused, InCall
<1>20. Loops' /\ Attended'
  BY <1>1, BodyLoops DEF TypeOK
<1> QED
  BY <1>1, <1>7, <1>8, <1>9, <1>10, <1>11, <1>12, <1>13, <1>14, <1>15, <1>16, <1>17, <1>18,
     <1>19, <1>20 DEF HookInv, Safe

\* addEvent() stores a function.
LEMMA AddStoreWatchStep ==
    ASSUME HookInv, fault = "none", NEW t \in Threads, NEW f \in Fibers, task[t] = f,
           op[f] = "watch",
           AddStore(f, "READ", <<"event", f, call[f]>>, "start"), UNCHANGED hookVars
    PROVE  HookInv'
<1> USE TaskFacts, IOAssumption DEF AddStore, Move, threadVars, fdVars, hookVars, codeVars
<1>1. ~Duplex /\ TypeOK /\ Safe /\ PendingExact /\ Awake
  BY DEF HookInv
<1>2. TypeOK /\ Sites
  BY <1>1 DEF Safe
<1>3. \A y : (Queued(y)' <=> Queued(y)) /\ (Once(y)' <=> Once(y))
  BY SameQueue
<1>4. \A d, e : Resetting(d, e)' <=> Resetting(d, e)
  BY <1>1, SameResetting DEF TypeOK
<1>5. fd[f] \in Fds /\ InCall(f)
  BY <1>2, CallFacts DEF InCall, EventOf, Direction
<1>6. /\ ~Queued(f) /\ EventOf(f) = "READ" /\ <<"event", f, call[f]>> \in Callbacks
  BY <1>2, CallFacts, <1>1 DEF Safe, Queue, EventOf, Direction, InCall
<1>7. TypeOK'
  BY <1>1, <1>2, CallFacts, <1>3, <1>4, <1>5, <1>6 DEF TypeOK, Safe, Event, Faults
<1>8. PendingExact'
  BY <1>1, SamePending DEF TypeOK
<1>9. Sites'
  BY <1>1, <1>2, CallFacts, <1>3, <1>4, <1>5, <1>6 DEF TypeOK, Safe, Sites, InCall,
     StepsOf, CallbackSteps
<1>10. Queue'
  BY <1>1, <1>2, CallFacts, <1>3, <1>4, <1>5, <1>6 DEF TypeOK, Safe, Queue, Held
<1>11. Issued'
  BY <1>1, <1>2, CallFacts, <1>3, <1>4, <1>5, <1>6 DEF TypeOK, Safe, Issued, Live,
     Alive, InCall
<1>12. Sleeps'
  BY <1>1, <1>2, CallFacts, <1>3, <1>4, <1>5, <1>6 DEF TypeOK, Safe, Sleeps, Live
<1>13. Alone'
  BY <1>1, <1>2, CallFacts, <1>3, <1>4, <1>5, <1>6 DEF TypeOK, Safe, Alone, Disturbs,
     InCall
<1>14. Locking'
  BY <1>1, <1>2, CallFacts, <1>3, <1>4, <1>5, <1>6 DEF TypeOK, Safe, Locking, ToTrigger, EventOf
<1>15. Registrations'
  <2> SUFFICES ASSUME NEW g \in Fibers PROVE Registers(g)'
    BY DEF Registrations
  <2>1. Registers(g) /\ EventOf(g)' = EventOf(g)
    BY <1>1 DEF Safe, Registrations, EventOf
  <2>2. CASE g = f
    BY <1>1, <1>2, CallFacts, <1>3, <1>4, <1>5, <1>6, <2>1, <2>2 DEF TypeOK, Registers
  <2>3. CASE g # f /\ at[g] \in {"ctl", "set", "drop"}
    <3>1. InCall(g) /\ fd[g] \in Fds /\ fd[g] # fd[f]
      BY <1>1, <1>2, CallFacts, <1>3, <1>4, <1>5, <1>6, <2>3, AloneFacts DEF InCall, Safe
    <3> QED
      BY <1>1, <1>2, CallFacts, <1>3, <1>4, <1>5, <1>6, <2>1, <2>3, <3>1 DEF TypeOK,
         Registers
  <2>4. CASE g # f /\ at[g] \notin {"ctl", "set", "drop"}
    BY <1>1, <1>2, CallFacts, <1>3, <1>4, <1>5, <1>6, <2>4 DEF TypeOK, Registers
  <2> QED
    BY <2>2, <2>3, <2>4
<1>16. Contexts'
  <2> SUFFICES ASSUME NEW d \in Fds, NEW e \in Event PROVE Context(d, e)'
    BY DEF Contexts
  <2>1. Context(d, e) /\ \A g : EventOf(g)' = EventOf(g)
    BY <1>1 DEF Safe, Contexts, EventOf
  <2>2. CASE d = fd[f] /\ e = "READ"
    <3>1. ctx'[d][e] = <<"event", f, call[f]>>
      BY <1>1, <1>2, CallFacts, <1>3, <1>4, <1>5, <1>6, <2>2 DEF TypeOK
    <3> QED
      BY <1>1, <1>2, CallFacts, <1>3, <1>4, <1>5, <1>6, <2>1, <2>2, <3>1 DEF TypeOK,
         Context, Waits
  <2>3. CASE ~(d = fd[f] /\ e = "READ")
    <3>1. ctx'[d][e] = ctx[d][e] /\ ctx[d][e] \in Tasks \cup {Null}
      BY <1>1, <1>2, CallFacts, <1>3, <1>4, <1>5, <1>6, <2>3 DEF TypeOK
    <3>2. \A g \in Fibers : Waits(g, d, e) => Waits(g, d, e)'
      BY <1>1, <1>2, CallFacts, <1>3, <1>4, <1>5, <1>6, <2>1 DEF TypeOK, Waits
    <3> QED
      BY <1>1, <1>2, CallFacts, <1>3, <1>4, <1>5, <1>6, <2>1, <3>1, <3>2 DEF TypeOK,
         Context
  <2> QED
    BY <2>2, <2>3
<1>17. Output'
  <2> SUFFICES ASSUME NEW d \in Fds, "WRITE" \in events'[d]
               PROVE  \E g \in Fibers : Connects(g, d)'
    BY DEF Output
  <2>1. PICK g \in Fibers : Connects(g, d)
    BY <1>1, <1>2, CallFacts, <1>3, <1>4, <1>5, <1>6 DEF Safe, Output, TypeOK
  <2> QED
    BY <1>1, <1>2, CallFacts, <1>3, <1>4, <1>5, <1>6, <2>1 DEF TypeOK, Connects
<1>18. Expiring'
  <2> SUFFICES ASSUME NEW c \in Callbacks, c[1] = "timeout" PROVE Expires(c)'
    BY DEF Expiring
  <2>1. Expires(c) /\ (at[c] # "start" => fd[c] \in Fds)
    BY <1>1 DEF Safe, Expiring, Issued
  <2>2. at[c] # "start" /\ Alive(c) => op[c[2]] = "connect" /\ fd[c] = fd[c[2]]
    BY <1>1 DEF Safe, Issued
  <2>3. at[c] # "start" /\ Alive(c) => Alive(c)'
    BY <1>1, <1>2, CallFacts, <1>3, <1>4, <1>5, <1>6, <2>2 DEF TypeOK, Alive, InCall
  <2> QED
    BY <1>1, <1>2, CallFacts, <1>3, <1>4, <1>5, <1>6, <2>1, <2>3 DEF TypeOK, Expires
<1>19. Awake'
  BY <1>1, <1>2, CallFacts, <1>3, <1>4, <1>5, <1>6 DEF TypeOK, Safe, Awake, Awakened, Excused,
     InCall
<1>20. Loops' /\ Attended'
  BY <1>1, BodyLoops DEF TypeOK
<1> QED
  BY <1>1, <1>7, <1>8, <1>9, <1>10, <1>11, <1>12, <1>13, <1>14, <1>15, <1>16, <1>17, <1>18,
     <1>19, <1>20 DEF HookInv, Safe

\* addEvent() fails.
LEMMA AddFailedStep ==
    ASSUME HookInv, fault = "none", NEW t \in Threads, NEW f \in Fibers, task[t] = f, AddFailed(f)
    PROVE  HookInv'
<1> USE TaskFacts, IOAssumption DEF AddFailed, CancelTimer, Move, threadVars, fdVars, hookVars,
        codeVars
<1>1. ~Duplex /\ TypeOK /\ Safe /\ PendingExact /\ Awake
  BY DEF HookInv
<1>2. TypeOK /\ Sites
  BY <1>1 DEF Safe
<1>3. \A y : (Queued(y)' <=> Queued(y)) /\ (Once(y)' <=> Once(y))
  BY SameQueue
<1>4. \A d, e : Resetting(d, e)' <=> Resetting(d, e)
  BY <1>1, SameResetting DEF TypeOK
<1>5. fd[f] \in Fds /\ InCall(f)
  BY <1>2, CallFacts DEF InCall
<1>6. Timeout(f) \in Callbacks
  BY <1>2, CallFacts DEF InCall, Timeout
<1>7. \A g : EventOf(g)' = EventOf(g)
  BY DEF EventOf
<1>8. TypeOK'
  BY <1>1, <1>2, CallFacts, <1>3, <1>4, <1>5, <1>6, <1>7 DEF TypeOK, Rare
<1>9. PendingExact'
  BY <1>1, SamePending DEF TypeOK
<1>10. Sites'
  BY <1>1, <1>2, CallFacts, <1>3, <1>4, <1>5, <1>6, <1>7 DEF TypeOK, Safe, Sites, InCall,
     StepsOf, CallbackSteps
<1>11. Queue'
  BY <1>1, <1>2, CallFacts, <1>3, <1>4, <1>5, <1>6, <1>7 DEF TypeOK, Safe, Queue, Held
<1>12. Issued'
  BY <1>1, <1>2, CallFacts, <1>3, <1>4, <1>5, <1>6, <1>7 DEF TypeOK, Safe, Issued, Live, Alive,
     InCall
<1>13. Sleeps'
  BY <1>1, <1>2, CallFacts, <1>3, <1>4, <1>5, <1>6, <1>7 DEF TypeOK, Safe, Sleeps, Live
<1>14. Alone'
  BY <1>1, <1>2, CallFacts, <1>3, <1>4, <1>5, <1>6, <1>7 DEF TypeOK, Safe, Alone, Disturbs, InCall
<1>15. Locking'
  BY <1>1, <1>2, CallFacts, <1>3, <1>4, <1>5, <1>6, <1>7 DEF TypeOK, Safe, Locking, ToTrigger,
     EventOf
<1>16. Registrations'
  BY <1>1, <1>2, CallFacts, <1>3, <1>4, <1>5, <1>6, <1>7 DEF TypeOK, Safe, Registrations,
     Registers, EventOf, Direction
<1>17. Contexts'
  BY <1>1, <1>2, CallFacts, <1>3, <1>4, <1>5, <1>6, <1>7 DEF TypeOK, Safe, Contexts, Context,
     Waits, EventOf, Direction
<1>18. Output'
  <2> SUFFICES ASSUME NEW d \in Fds, "WRITE" \in events'[d]
               PROVE  \E g \in Fibers : Connects(g, d)'
    BY DEF Output
  <2>1. PICK g \in Fibers : Connects(g, d)
    BY <1>1, <1>2, CallFacts, <1>3, <1>4, <1>5, <1>6, <1>7 DEF Safe, Output, TypeOK
  <2> QED
    BY <1>1, <1>2, CallFacts, <1>3, <1>4, <1>5, <1>6, <1>7, <2>1 DEF TypeOK, Connects
<1>19. Expiring'
  <2> SUFFICES ASSUME NEW c \in Callbacks, c[1] = "timeout" PROVE Expires(c)'
    BY DEF Expiring
  <2>1. Expires(c) /\ at'[c] = at[c] /\ fd'[c] = fd[c]
    BY <1>1 DEF Safe, Expiring, TypeOK
  <2>2. at[c] # "start" /\ Alive(c) => op[c[2]] = "connect" /\ fd[c] = fd[c[2]]
    BY <1>1 DEF Safe, Issued
  <2>3. CASE Alive(c) /\ c[2] = f
    <3>1. c = Timeout(f)
      BY <2>3 DEF Alive, Timeout
    <3>2. at[c] # "trigger"
      BY <1>1, <1>2, CallFacts, <1>3, <1>4, <1>5, <1>6, <1>7, <2>1, <2>2, <2>3 DEF Expires,
         Safe, Registrations, Registers
    <3> QED
      BY <1>1, <1>2, CallFacts, <1>3, <1>4, <1>5, <1>6, <1>7, <2>1, <3>1, <3>2 DEF TypeOK, Expires
  <2>4. CASE ~(Alive(c) /\ c[2] = f)
    <3>1. Alive(c) => Alive(c)'
      BY <1>1, <1>2, CallFacts, <1>3, <1>4, <1>5, <1>6, <1>7, <2>4 DEF TypeOK, Alive, InCall
    <3> QED
      BY <1>1, <1>2, CallFacts, <1>3, <1>4, <1>5, <1>6, <1>7, <2>1, <3>1 DEF TypeOK, Expires
  <2> QED
    BY <2>3, <2>4
<1>20. Awake'
  <2> SUFFICES ASSUME NEW g \in Fibers, op[g] = "connect", sock[fd[g]] = "connecting", Awakened(g)'
               PROVE  Excused(g)'
    BY DEF Awake
  <2>1. Excused(g)
    BY <1>1, <1>2, CallFacts, <1>3, <1>4, <1>5, <1>6, <1>7 DEF Safe, Awake, Awakened, TypeOK
  <2> QED
    BY <1>1, <1>2, CallFacts, <1>3, <1>4, <1>5, <1>6, <1>7, <2>1 DEF Excused, InCall, TypeOK
<1>21. Loops' /\ Attended'
  BY <1>1, BodyLoops DEF TypeOK
<1> QED
  BY <1>1, <1>8, <1>9, <1>10, <1>11, <1>12, <1>13, <1>14, <1>15, <1>16, <1>17, <1>18, <1>19,
     <1>20, <1>21 DEF HookInv, Safe

\* The fiber goes on after its wait.
LEMMA WokenStep ==
    ASSUME HookInv, fault = "none", NEW t \in Threads, NEW f \in Fibers, task[t] = f, Woken(f)
    PROVE  HookInv'
<1> USE TaskFacts, IOAssumption DEF Woken, CancelTimer, Move, threadVars, fdVars, hookVars,
        codeVars
<1>1. ~Duplex /\ TypeOK /\ Safe /\ PendingExact /\ Awake
  BY DEF HookInv
<1>2. TypeOK /\ Sites
  BY <1>1 DEF Safe
<1>3. \A y : (Queued(y)' <=> Queued(y)) /\ (Once(y)' <=> Once(y))
  BY SameQueue
<1>4. \A d, e : Resetting(d, e)' <=> Resetting(d, e)
  BY <1>1, SameResetting DEF TypeOK
<1>5. InCall(f)
  BY DEF InCall
<1>6. Timeout(f) \in Callbacks
  BY <1>2, CallFacts DEF InCall, Timeout
<1>7. TypeOK'
  BY <1>1, <1>2, CallFacts, <1>3, <1>4, <1>5, <1>6 DEF TypeOK, Rare
<1>8. PendingExact'
  BY <1>1, SamePending DEF TypeOK
<1>9. Sites'
  BY <1>1, <1>2, CallFacts, <1>3, <1>4, <1>5, <1>6 DEF TypeOK, Safe, Sites, InCall, StepsOf,
     CallbackSteps
<1>10. Queue'
  BY <1>1, <1>2, CallFacts, <1>3, <1>4, <1>5, <1>6 DEF TypeOK, Safe, Queue, Held
<1>11. Issued'
  <2> SUFFICES ASSUME NEW c \in Callbacks, c[1] = "timeout", Live(c)' \/ at'[c] # "start"
               PROVE  /\ c[3] <= call'[c[2]] /\ fd'[c] \in Fds
                      /\ Alive(c)' => op'[c[2]] = "connect" /\ fd'[c] = fd'[c[2]]
    BY DEF Issued
  <2>1. Live(c)' => Live(c)
    BY <1>3 DEF Live
  <2>2. at'[c] = at[c]
    BY <1>1 DEF TypeOK
  <2>3. Alive(c)' => Alive(c)
    BY <1>1, <1>5 DEF TypeOK, Alive, InCall
  <2>4. /\ c[3] <= call[c[2]] /\ fd[c] \in Fds
        /\ Alive(c) => op[c[2]] = "connect" /\ fd[c] = fd[c[2]]
    BY <1>1, <2>1, <2>2 DEF Safe, Issued
  <2> QED
    BY <2>3, <2>4
<1>12. Sleeps'
  BY <1>1, <1>2, CallFacts, <1>3, <1>4, <1>5, <1>6 DEF TypeOK, Safe, Sleeps, Live
<1>13. Alone'
  BY <1>1, <1>2, CallFacts, <1>3, <1>4, <1>5, <1>6 DEF TypeOK, Safe, Alone, Disturbs, InCall
<1>14. Locking'
  BY <1>1, <1>2, CallFacts, <1>3, <1>4, <1>5, <1>6 DEF TypeOK, Safe, Locking, ToTrigger, EventOf
<1>15. Registrations'
  BY <1>1, <1>2, CallFacts, <1>3, <1>4, <1>5, <1>6 DEF TypeOK, Safe, Registrations, Registers,
     EventOf, Direction
<1>16. Contexts'
  BY <1>1, <1>2, CallFacts, <1>3, <1>4, <1>5, <1>6 DEF TypeOK, Safe, Contexts, Context, Waits,
     EventOf, Direction
<1>17. Output'
  <2> SUFFICES ASSUME NEW d \in Fds, "WRITE" \in events'[d]
               PROVE  \E g \in Fibers : Connects(g, d)'
    BY DEF Output
  <2>1. PICK g \in Fibers : Connects(g, d)
    BY <1>1, <1>2, CallFacts, <1>3, <1>4, <1>5, <1>6 DEF Safe, Output, TypeOK
  <2> QED
    BY <1>1, <1>2, CallFacts, <1>3, <1>4, <1>5, <1>6, <2>1 DEF TypeOK, Connects
<1>18. Expiring'
  <2> SUFFICES ASSUME NEW c \in Callbacks, c[1] = "timeout" PROVE Expires(c)'
    BY DEF Expiring
  <2>1. Expires(c) /\ at'[c] = at[c] /\ fd'[c] = fd[c]
    BY <1>1 DEF Safe, Expiring, TypeOK
  <2>2. at[c] # "start" /\ Alive(c) => op[c[2]] = "connect" /\ fd[c] = fd[c[2]]
    BY <1>1 DEF Safe, Issued
  <2>3. CASE Alive(c) /\ c[2] = f
    <3>1. c = Timeout(f)
      BY <2>3 DEF Alive, Timeout
    <3>2. at[c] # "trigger"
      <4> SUFFICES ASSUME at[c] = "trigger" PROVE FALSE
        OBVIOUS
      <4>1. op[f] = "connect" /\ fd[f] \in Fds /\ "WRITE" \in events[fd[f]]
        BY <1>1, <1>2, CallFacts, <1>3, <1>4, <1>5, <1>6, <2>1, <2>2, <2>3 DEF Expires
      <4>2. PICK g \in Fibers : Connects(g, fd[f])
        BY <1>1, <4>1 DEF Safe, Output
      <4> QED
        BY <1>1, <1>2, CallFacts, <1>3, <1>4, <1>5, <1>6, <4>1, <4>2, AloneFacts DEF Connects,
           InCall, Safe
    <3> QED
      BY <1>1, <1>2, CallFacts, <1>3, <1>4, <1>5, <1>6, <2>1, <3>1, <3>2 DEF TypeOK, Expires
  <2>4. CASE ~(Alive(c) /\ c[2] = f)
    <3>1. Alive(c) => Alive(c)'
      BY <1>1, <1>2, CallFacts, <1>3, <1>4, <1>5, <1>6, <2>4 DEF TypeOK, Alive, InCall
    <3> QED
      BY <1>1, <1>2, CallFacts, <1>3, <1>4, <1>5, <1>6, <2>1, <3>1 DEF TypeOK, Expires
  <2> QED
    BY <2>3, <2>4
<1>19. Awake'
  BY <1>1, <1>2, CallFacts, <1>3, <1>4, <1>5, <1>6 DEF TypeOK, Safe, Awake, Awakened, Excused,
     InCall
<1>20. Loops' /\ Attended'
  BY <1>1, BodyLoops DEF TypeOK
<1> QED
  BY <1>1, <1>7, <1>8, <1>9, <1>10, <1>11, <1>12, <1>13, <1>14, <1>15, <1>16, <1>17, <1>18,
     <1>19, <1>20 DEF HookInv, Safe

\* close_f().
LEMMA CloseStep ==
    ASSUME HookInv, fault = "none", NEW t \in Threads, NEW f \in Fibers, task[t] = f, Close(f)
    PROVE  HookInv'
<1> USE TaskFacts, IOAssumption DEF Close, Move, threadVars, fdVars, hookVars, codeVars
<1>1. ~Duplex /\ TypeOK /\ Safe /\ PendingExact /\ Awake
  BY DEF HookInv
<1>2. TypeOK /\ Sites
  BY <1>1 DEF Safe
<1>3. \A y : (Queued(y)' <=> Queued(y)) /\ (Once(y)' <=> Once(y))
  BY SameQueue
<1>4. \A d, e : Resetting(d, e)' <=> Resetting(d, e)
  BY <1>1, SameResetting DEF TypeOK
<1>5. fd[f] \in Fds /\ InCall(f)
  BY <1>2, CallFacts DEF InCall
<1>6. TypeOK'
  BY <1>1, <1>2, CallFacts, <1>3, <1>4, <1>5 DEF TypeOK, Sock
<1>7. PendingExact'
  BY <1>1, SamePending DEF TypeOK
<1>8. Sites'
  BY <1>1, <1>2, CallFacts, <1>3, <1>4, <1>5 DEF TypeOK, Safe, Sites, InCall, StepsOf,
     CallbackSteps
<1>9. Queue'
  BY <1>1, <1>2, CallFacts, <1>3, <1>4, <1>5 DEF TypeOK, Safe, Queue, Held
<1>10. Issued'
  BY <1>1, <1>2, CallFacts, <1>3, <1>4, <1>5 DEF TypeOK, Safe, Issued, Live, Alive, InCall
<1>11. Sleeps'
  BY <1>1, <1>2, CallFacts, <1>3, <1>4, <1>5 DEF TypeOK, Safe, Sleeps, Live
<1>12. Alone'
  BY <1>1, <1>2, CallFacts, <1>3, <1>4, <1>5 DEF TypeOK, Safe, Alone, Disturbs, InCall
<1>13. Locking'
  BY <1>1, <1>2, CallFacts, <1>3, <1>4, <1>5 DEF TypeOK, Safe, Locking, ToTrigger, EventOf
<1>14. Registrations'
  BY <1>1, <1>2, CallFacts, <1>3, <1>4, <1>5 DEF TypeOK, Safe, Registrations, Registers, EventOf,
     Direction
<1>15. Contexts'
  BY <1>1, <1>2, CallFacts, <1>3, <1>4, <1>5 DEF TypeOK, Safe, Contexts, Context, Waits,
     EventOf, Direction
<1>16. Output'
  <2> SUFFICES ASSUME NEW d \in Fds, "WRITE" \in events'[d]
               PROVE  \E g \in Fibers : Connects(g, d)'
    BY DEF Output
  <2>1. PICK g \in Fibers : Connects(g, d)
    BY <1>1, <1>2, CallFacts, <1>3, <1>4, <1>5 DEF Safe, Output, TypeOK
  <2> QED
    BY <1>1, <1>2, CallFacts, <1>3, <1>4, <1>5, <2>1 DEF TypeOK, Connects
<1>17. Expiring'
  <2> SUFFICES ASSUME NEW c \in Callbacks, c[1] = "timeout" PROVE Expires(c)'
    BY DEF Expiring
  <2>1. Expires(c) /\ (at[c] # "start" => fd[c] \in Fds)
    BY <1>1 DEF Safe, Expiring, Issued
  <2>2. at[c] # "start" /\ Alive(c) => op[c[2]] = "connect" /\ fd[c] = fd[c[2]]
    BY <1>1 DEF Safe, Issued
  <2>3. at[c] # "start" /\ Alive(c) => Alive(c)'
    BY <1>1, <1>2, CallFacts, <1>3, <1>4, <1>5, <2>2 DEF TypeOK, Alive, InCall
  <2> QED
    BY <1>1, <1>2, CallFacts, <1>3, <1>4, <1>5, <2>1, <2>3 DEF TypeOK, Expires
<1>18. Awake'
  BY <1>1, <1>2, CallFacts, <1>3, <1>4, <1>5 DEF TypeOK, Safe, Awake, Awakened, Excused, InCall
<1>19. Loops' /\ Attended'
  BY <1>1, BodyLoops DEF TypeOK
<1> QED
  BY <1>1, <1>6, <1>7, <1>8, <1>9, <1>10, <1>11, <1>12, <1>13, <1>14, <1>15, <1>16, <1>17,
     <1>18, <1>19 DEF HookInv, Safe

\* There is nothing to cancel or to delete.
LEMMA CancelNoneStep ==
    ASSUME HookInv, fault = "none", NEW t \in Threads, NEW x \in Tasks, task[t] = x, NEW to,
           Abandons(x, to)
    PROVE  HookInv'
<1> USE TaskFacts, IOAssumption DEF Touches, Abandons, Move, threadVars, fdVars, hookVars,
        codeVars
<1>1. ~Duplex /\ TypeOK /\ Safe /\ PendingExact /\ Awake
  BY DEF HookInv
<1>2. TypeOK /\ Sites
  BY <1>1 DEF Safe
<1>3. \A y : (Queued(y)' <=> Queued(y)) /\ (Once(y)' <=> Once(y))
  BY SameQueue
<1>4. \A d, e : Resetting(d, e)' <=> Resetting(d, e)
  BY <1>1, SameResetting DEF TypeOK
<1>5. /\ fd[x] \in Fds /\ (x \in Fibers => InCall(x)) /\ (x \in Callbacks => x[1] = "timeout")
      /\ \A y \in Tasks : fd[y] = fd[x] /\ at[y] \in {"trigger", "reset", "drop"}
                          /\ at[x] \in {"trigger", "reset", "drop"} => y = x
  BY <1>1, CancelFacts DEF Safe
<1>6. TypeOK'
  BY <1>1, <1>2, CallFacts, <1>3, <1>4, <1>5 DEF TypeOK, Safe, Event, Faults
<1>7. PendingExact'
  BY <1>1, SamePending DEF TypeOK
<1>8. Sites'
  BY <1>1, <1>2, CallFacts, <1>3, <1>4, <1>5 DEF TypeOK, Safe, Sites, InCall, StepsOf,
     CallbackSteps
<1>9. Queue'
  BY <1>1, <1>2, CallFacts, <1>3, <1>4, <1>5 DEF TypeOK, Safe, Queue, Held
<1>10. Issued'
  BY <1>1, <1>2, CallFacts, <1>3, <1>4, <1>5 DEF TypeOK, Safe, Issued, Live, Alive, InCall
<1>11. Sleeps'
  BY <1>1, <1>2, CallFacts, <1>3, <1>4, <1>5 DEF TypeOK, Safe, Sleeps, Live
<1>12. Alone'
  BY <1>1, <1>2, CallFacts, <1>3, <1>4, <1>5 DEF TypeOK, Safe, Alone, Disturbs, InCall
<1>13. Locking'
  BY <1>1, <1>2, CallFacts, <1>3, <1>4, <1>5 DEF TypeOK, Safe, Locking, ToTrigger, EventOf
<1>14. Registrations'
  BY <1>1, <1>2, CallFacts, <1>3, <1>4, <1>5 DEF TypeOK, Safe, Registrations, Registers, EventOf,
     Direction
<1>15. Contexts'
  BY <1>1, <1>2, CallFacts, <1>3, <1>4, <1>5 DEF TypeOK, Safe, Contexts, Context, Waits,
     EventOf, Direction
<1>16. Output'
  <2> SUFFICES ASSUME NEW d \in Fds, "WRITE" \in events'[d]
               PROVE  \E g \in Fibers : Connects(g, d)'
    BY DEF Output
  <2>1. PICK g \in Fibers : Connects(g, d)
    BY <1>1, <1>2, CallFacts, <1>3, <1>4, <1>5 DEF Safe, Output, TypeOK
  <2> QED
    BY <1>1, <1>2, CallFacts, <1>3, <1>4, <1>5, <2>1 DEF TypeOK, Connects
<1>17. Expiring'
  <2> SUFFICES ASSUME NEW c \in Callbacks, c[1] = "timeout" PROVE Expires(c)'
    BY DEF Expiring
  <2>1. Expires(c) /\ (at[c] # "start" => fd[c] \in Fds)
    BY <1>1 DEF Safe, Expiring, Issued
  <2>2. at[c] # "start" /\ Alive(c) => op[c[2]] = "connect" /\ fd[c] = fd[c[2]]
    BY <1>1 DEF Safe, Issued
  <2>3. at[c] # "start" /\ Alive(c) => Alive(c)'
    BY <1>1, <1>2, CallFacts, <1>3, <1>4, <1>5, <2>2 DEF TypeOK, Alive, InCall
  <2> QED
    BY <1>1, <1>2, CallFacts, <1>3, <1>4, <1>5, <2>1, <2>3 DEF TypeOK, Expires
<1>18. Awake'
  <2> SUFFICES ASSUME NEW g \in Fibers, op[g] = "connect", sock[fd[g]] = "connecting", Awakened(g)'
               PROVE  Excused(g)'
    BY DEF Awake
  <2>1. Excused(g)
    BY <1>1, <1>2, CallFacts, <1>3, <1>4, <1>5 DEF Safe, Awake, Awakened, TypeOK
  <2> QED
    BY <1>1, <1>2, CallFacts, <1>3, <1>4, <1>5, <2>1 DEF Excused, InCall, TypeOK
<1>19. Loops' /\ Attended'
  BY <1>1, BodyLoops DEF TypeOK
<1> QED
  BY <1>1, <1>6, <1>7, <1>8, <1>9, <1>10, <1>11, <1>12, <1>13, <1>14, <1>15, <1>16, <1>17,
     <1>18, <1>19 DEF HookInv, Safe

\* A cancellation takes the lock and the events off the epoll set.
LEMMA CancelCtlStep ==
    ASSUME HookInv, fault = "none", NEW t \in Threads, NEW x \in Tasks, task[t] = x, NEW es,
           NEW to, Canceller(x, es, to),
           CancelCtl(x, "cancel", es, "trigger"), Touches
    PROVE  HookInv'
<1> USE TaskFacts, IOAssumption DEF Touches, Canceller, CancelCtl, Move, threadVars, fdVars,
        hookVars,
        codeVars
<1>1. ~Duplex /\ TypeOK /\ Safe /\ PendingExact /\ Awake
  BY DEF HookInv
<1>2. TypeOK /\ Sites
  BY <1>1 DEF Safe
<1>3. \A y : (Queued(y)' <=> Queued(y)) /\ (Once(y)' <=> Once(y))
  BY SameQueue
<1>4. \A d, e : Resetting(d, e)' <=> Resetting(d, e)
  BY <1>1, SameResetting DEF TypeOK
<1>5. /\ fd[x] \in Fds /\ (x \in Fibers => InCall(x)) /\ (x \in Callbacks => x[1] = "timeout")
      /\ \A y \in Tasks : fd[y] = fd[x] /\ at[y] \in {"trigger", "reset", "drop"}
                          /\ at[x] \in {"trigger", "reset", "drop"} => y = x
  BY <1>1, CancelFacts DEF Safe
<1>6. es \in ToTrigger(x) /\ (x \in Callbacks => es = <<"WRITE">>)
  BY DEF ToTrigger, EventOf
<1>7. es \in Seq(Event) /\ (x \in Callbacks => "WRITE" \in events[fd[x]])
  <2>1. /\ <<"READ">> \in Seq(Event) /\ <<"WRITE">> \in Seq(Event)
        /\ <<"READ", "WRITE">> \in Seq(Event)
    BY DEF Event
  <2>2. x \in Callbacks => "WRITE" \in events[fd[x]]
    BY <1>6, EventSets DEF Matches
  <2>3. es \in {<<"READ">>, <<"WRITE">>, <<"READ", "WRITE">>}
    BY DEF EventOf, Direction
  <2> QED
    BY <2>1, <2>2, <2>3
<1>8. TypeOK'
  BY <1>1, <1>2, CallFacts, <1>3, <1>4, <1>5, <1>6, <1>7 DEF TypeOK, Safe, Event, Faults
<1>9. PendingExact'
  BY <1>1, SamePending DEF TypeOK
<1>10. Sites'
  BY <1>1, <1>2, CallFacts, <1>3, <1>4, <1>5, <1>6, <1>7 DEF TypeOK, Safe, Sites, InCall,
     StepsOf, CallbackSteps
<1>11. Queue'
  BY <1>1, <1>2, CallFacts, <1>3, <1>4, <1>5, <1>6, <1>7 DEF TypeOK, Safe, Queue, Held
<1>12. Issued'
  BY <1>1, <1>2, CallFacts, <1>3, <1>4, <1>5, <1>6, <1>7 DEF TypeOK, Safe, Issued, Live, Alive,
     InCall
<1>13. Sleeps'
  BY <1>1, <1>2, CallFacts, <1>3, <1>4, <1>5, <1>6, <1>7 DEF TypeOK, Safe, Sleeps, Live
<1>14. Alone'
  BY <1>1, <1>2, CallFacts, <1>3, <1>4, <1>5, <1>6, <1>7 DEF TypeOK, Safe, Alone, Disturbs, InCall
<1>15. Locking'
  BY <1>1, <1>2, CallFacts, <1>3, <1>4, <1>5, <1>6, <1>7 DEF TypeOK, Safe, Locking, ToTrigger,
     EventOf
<1>16. Registrations'
  BY <1>1, <1>2, CallFacts, <1>3, <1>4, <1>5, <1>6, <1>7 DEF TypeOK, Safe, Registrations,
     Registers, EventOf, Direction
<1>17. Contexts'
  BY <1>1, <1>2, CallFacts, <1>3, <1>4, <1>5, <1>6, <1>7 DEF TypeOK, Safe, Contexts, Context,
     Waits, EventOf, Direction
<1>18. Output'
  <2> SUFFICES ASSUME NEW d \in Fds, "WRITE" \in events'[d]
               PROVE  \E g \in Fibers : Connects(g, d)'
    BY DEF Output
  <2>1. PICK g \in Fibers : Connects(g, d)
    BY <1>1, <1>2, CallFacts, <1>3, <1>4, <1>5, <1>6, <1>7 DEF Safe, Output, TypeOK
  <2> QED
    BY <1>1, <1>2, CallFacts, <1>3, <1>4, <1>5, <1>6, <1>7, <2>1 DEF TypeOK, Connects
<1>19. Expiring'
  <2> SUFFICES ASSUME NEW c \in Callbacks, c[1] = "timeout" PROVE Expires(c)'
    BY DEF Expiring
  <2>1. Expires(c) /\ (at[c] # "start" => fd[c] \in Fds)
    BY <1>1 DEF Safe, Expiring, Issued
  <2>2. at[c] # "start" /\ Alive(c) => op[c[2]] = "connect" /\ fd[c] = fd[c[2]]
    BY <1>1 DEF Safe, Issued
  <2>3. at[c] # "start" /\ Alive(c) => Alive(c)'
    BY <1>1, <1>2, CallFacts, <1>3, <1>4, <1>5, <1>6, <1>7, <2>2 DEF TypeOK, Alive, InCall
  <2> QED
    BY <1>1, <1>2, CallFacts, <1>3, <1>4, <1>5, <1>6, <1>7, <2>1, <2>3 DEF TypeOK, Expires
<1>20. Awake'
  BY <1>1, <1>2, CallFacts, <1>3, <1>4, <1>5, <1>6, <1>7 DEF TypeOK, Safe, Awake, Awakened,
     Excused, InCall
<1>21. Loops' /\ Attended'
  BY <1>1, BodyLoops DEF TypeOK
<1> QED
  BY <1>1, <1>8, <1>9, <1>10, <1>11, <1>12, <1>13, <1>14, <1>15, <1>16, <1>17, <1>18, <1>19,
     <1>20, <1>21 DEF HookInv, Safe

\* So does a deletion.
LEMMA DelCtlStep ==
    ASSUME HookInv, fault = "none", NEW t \in Threads, NEW f \in Fibers, task[t] = f,
           op[f] = "del",
           CancelCtl(f, "del", <<"READ">>, "drop"), UNCHANGED hookVars
    PROVE  HookInv'
<1> USE TaskFacts, IOAssumption DEF CancelCtl, Move, threadVars, fdVars, hookVars, codeVars
<1>1. ~Duplex /\ TypeOK /\ Safe /\ PendingExact /\ Awake
  BY DEF HookInv
<1>2. TypeOK /\ Sites
  BY <1>1 DEF Safe
<1>3. \A y : (Queued(y)' <=> Queued(y)) /\ (Once(y)' <=> Once(y))
  BY SameQueue
<1>4. \A d, e : Resetting(d, e)' <=> Resetting(d, e)
  BY <1>1, SameResetting DEF TypeOK
<1>5. fd[f] \in Fds /\ InCall(f)
  BY <1>2, CallFacts DEF InCall
<1>6. ToSet(<<"READ">>) = {"READ"} /\ "READ" \in events[fd[f]] /\ <<"READ">> \in Seq(Event)
  BY EventSets DEF Matches, Event
<1>7. TypeOK'
  BY <1>1, <1>2, CallFacts, <1>3, <1>4, <1>5, <1>6 DEF TypeOK, Safe, Event, Faults
<1>8. PendingExact'
  BY <1>1, SamePending DEF TypeOK
<1>9. Sites'
  BY <1>1, <1>2, CallFacts, <1>3, <1>4, <1>5, <1>6 DEF TypeOK, Safe, Sites, InCall, StepsOf,
     CallbackSteps
<1>10. Queue'
  BY <1>1, <1>2, CallFacts, <1>3, <1>4, <1>5, <1>6 DEF TypeOK, Safe, Queue, Held
<1>11. Issued'
  BY <1>1, <1>2, CallFacts, <1>3, <1>4, <1>5, <1>6 DEF TypeOK, Safe, Issued, Live, Alive, InCall
<1>12. Sleeps'
  BY <1>1, <1>2, CallFacts, <1>3, <1>4, <1>5, <1>6 DEF TypeOK, Safe, Sleeps, Live
<1>13. Alone'
  BY <1>1, <1>2, CallFacts, <1>3, <1>4, <1>5, <1>6 DEF TypeOK, Safe, Alone, Disturbs, InCall
<1>14. Locking'
  BY <1>1, <1>2, CallFacts, <1>3, <1>4, <1>5, <1>6 DEF TypeOK, Safe, Locking, ToTrigger, EventOf
<1>15. Registrations'
  <2> SUFFICES ASSUME NEW g \in Fibers PROVE Registers(g)'
    BY DEF Registrations
  <2>1. Registers(g) /\ EventOf(g)' = EventOf(g)
    BY <1>1 DEF Safe, Registrations, EventOf
  <2>2. CASE g = f
    BY <1>1, <1>2, CallFacts, <1>3, <1>4, <1>5, <1>6, <2>1, <2>2 DEF TypeOK, Registers
  <2>3. CASE g # f /\ at[g] \in {"ctl", "set", "drop"}
    <3>1. InCall(g) /\ fd[g] \in Fds /\ fd[g] # fd[f]
      BY <1>1, <1>2, CallFacts, <1>3, <1>4, <1>5, <1>6, <2>3, AloneFacts DEF InCall, Safe
    <3> QED
      BY <1>1, <1>2, CallFacts, <1>3, <1>4, <1>5, <1>6, <2>1, <2>3, <3>1 DEF TypeOK, Registers
  <2>4. CASE g # f /\ at[g] \notin {"ctl", "set", "drop"}
    BY <1>1, <1>2, CallFacts, <1>3, <1>4, <1>5, <1>6, <2>4 DEF TypeOK, Registers
  <2> QED
    BY <2>2, <2>3, <2>4
<1>16. Contexts'
  BY <1>1, <1>2, CallFacts, <1>3, <1>4, <1>5, <1>6 DEF TypeOK, Safe, Contexts, Context, Waits,
     EventOf, Direction
<1>17. Output'
  <2> SUFFICES ASSUME NEW d \in Fds, "WRITE" \in events'[d]
               PROVE  \E g \in Fibers : Connects(g, d)'
    BY DEF Output
  <2>1. PICK g \in Fibers : Connects(g, d)
    BY <1>1, <1>2, CallFacts, <1>3, <1>4, <1>5, <1>6 DEF Safe, Output, TypeOK
  <2> QED
    BY <1>1, <1>2, CallFacts, <1>3, <1>4, <1>5, <1>6, <2>1 DEF TypeOK, Connects
<1>18. Expiring'
  BY <1>1, <1>2, CallFacts, <1>3, <1>4, <1>5, <1>6 DEF TypeOK, Safe, Expiring, Expires, Alive,
     InCall
<1>19. Awake'
  BY <1>1, <1>2, CallFacts, <1>3, <1>4, <1>5, <1>6 DEF TypeOK, Safe, Awake, Awakened, Excused,
     InCall
<1>20. Loops' /\ Attended'
  BY <1>1, BodyLoops DEF TypeOK
<1> QED
  BY <1>1, <1>7, <1>8, <1>9, <1>10, <1>11, <1>12, <1>13, <1>14, <1>15, <1>16, <1>17, <1>18,
     <1>19, <1>20 DEF HookInv, Safe

\* delEvent() stores the events and gives the lock back.
LEMMA DelDropStep ==
    ASSUME HookInv, fault = "none", NEW t \in Threads, NEW f \in Fibers, task[t] = f,
           op[f] = "del",
           DelDrop(f, "READ", "start"), UNCHANGED hookVars
    PROVE  HookInv'
<1> USE TaskFacts, IOAssumption DEF DelDrop, Clear, Move, threadVars, fdVars, hookVars, codeVars
<1>1. ~Duplex /\ TypeOK /\ Safe /\ PendingExact /\ Awake
  BY DEF HookInv
<1>2. TypeOK /\ Sites
  BY <1>1 DEF Safe
<1>3. \A y : (Queued(y)' <=> Queued(y)) /\ (Once(y)' <=> Once(y))
  BY SameQueue
<1>4. \A d, e : Resetting(d, e)' <=> Resetting(d, e)
  BY <1>1, SameResetting DEF TypeOK
<1>5. fd[f] \in Fds /\ InCall(f)
  BY <1>2, CallFacts DEF InCall
<1>6. /\ "READ" \in events[fd[f]] /\ "READ" \in Event
      /\ events' = [events EXCEPT ![fd[f]] = events[fd[f]] \ {"READ"}]
  BY <1>1 DEF Safe, Registrations, Registers, Event
<1>7. /\ m_pendingEventCount = Cardinality(Registered) + Cardinality(Changing)
      /\ Cardinality(Registered) = Cardinality(Registered)' + 1
  BY <1>1, <1>5, <1>6, RegisteredLess DEF PendingExact, Registered, Changing
<1>8. m_pendingEventCount' = Cardinality(Registered)' + Cardinality(Changing)
  BY <1>7, CountedFinite
<1>9. TypeOK'
  <2>1. m_pendingEventCount' \in Nat
    BY <1>8, CountedFinite
  <2>2. /\ events' \in [Fds -> SUBSET Event] /\ ctx' \in [Fds -> [Event -> Tasks \cup {Null}]]
        /\ sched' \in [Fds -> SUBSET Event]
    BY <1>1, <1>5, <1>6 DEF TypeOK, Clear
  <2> QED
    BY <1>1, <1>2, CallFacts, <1>3, <1>4, <1>5, <1>6, <1>7, <1>8, <2>1, <2>2 DEF TypeOK
<1>10. PendingExact'
  <2>1. Changing' = Changing
    BY <1>1 DEF TypeOK, Changing
  <2> QED
    BY <1>8, <2>1 DEF PendingExact, Registered, Changing
<1>11. Sites'
  BY <1>1, <1>2, CallFacts, <1>3, <1>4, <1>5, <1>6, <1>7, <1>8 DEF TypeOK, Safe, Sites, InCall,
     StepsOf, CallbackSteps
<1>12. Queue'
  BY <1>1, <1>2, CallFacts, <1>3, <1>4, <1>5, <1>6, <1>7, <1>8 DEF TypeOK, Safe, Queue, Held
<1>13. Issued'
  BY <1>1, <1>2, CallFacts, <1>3, <1>4, <1>5, <1>6, <1>7, <1>8 DEF TypeOK, Safe, Issued, Live,
     Alive, InCall
<1>14. Sleeps'
  BY <1>1, <1>2, CallFacts, <1>3, <1>4, <1>5, <1>6, <1>7, <1>8 DEF TypeOK, Safe, Sleeps, Live
<1>15. Alone'
  BY <1>1, <1>2, CallFacts, <1>3, <1>4, <1>5, <1>6, <1>7, <1>8 DEF TypeOK, Safe, Alone,
     Disturbs, InCall
<1>16. Locking'
  BY <1>1, <1>2, CallFacts, <1>3, <1>4, <1>5, <1>6, <1>7, <1>8 DEF TypeOK, Safe, Locking,
     ToTrigger, EventOf
<1>17. Registrations'
  <2> SUFFICES ASSUME NEW g \in Fibers PROVE Registers(g)'
    BY DEF Registrations
  <2>1. Registers(g) /\ EventOf(g)' = EventOf(g)
    BY <1>1 DEF Safe, Registrations, EventOf
  <2>2. CASE g = f
    BY <1>1, <1>2, CallFacts, <1>3, <1>4, <1>5, <1>6, <1>7, <1>8, <2>1, <2>2 DEF TypeOK, Registers
  <2>3. CASE g # f /\ at[g] \in {"ctl", "set", "drop"}
    <3>1. InCall(g) /\ fd[g] \in Fds /\ fd[g] # fd[f]
      BY <1>1, <1>2, CallFacts, <1>3, <1>4, <1>5, <1>6, <1>7, <1>8, <2>3, AloneFacts
      DEF InCall, Safe
    <3> QED
      BY <1>1, <1>2, CallFacts, <1>3, <1>4, <1>5, <1>6, <1>7, <1>8, <2>1, <2>3, <3>1
      DEF TypeOK, Registers
  <2>4. CASE g # f /\ at[g] \notin {"ctl", "set", "drop"}
    BY <1>1, <1>2, CallFacts, <1>3, <1>4, <1>5, <1>6, <1>7, <1>8, <2>4 DEF TypeOK, Registers
  <2> QED
    BY <2>2, <2>3, <2>4
<1>18. Contexts'
  <2> SUFFICES ASSUME NEW d \in Fds, NEW e \in Event PROVE Context(d, e)'
    BY DEF Contexts
  <2>1. Context(d, e) /\ \A g : EventOf(g)' = EventOf(g)
    BY <1>1 DEF Safe, Contexts, EventOf
  <2>2. CASE d = fd[f] /\ e = "READ"
    <3>1. ctx'[d][e] = Null
      BY <1>1, <1>2, CallFacts, <1>3, <1>4, <1>5, <1>6, <1>7, <1>8, <2>2 DEF TypeOK
    <3> QED
      BY <3>1 DEF Context
  <2>3. CASE ~(d = fd[f] /\ e = "READ")
    <3>1. /\ ctx'[d][e] = ctx[d][e] /\ ctx[d][e] \in Tasks \cup {Null}
          /\ e \in events'[d] <=> e \in events[d]
      BY <1>1, <1>2, CallFacts, <1>3, <1>4, <1>5, <1>6, <1>7, <1>8, <2>3 DEF TypeOK
    <3>2. \A g \in Fibers : Waits(g, d, e) => Waits(g, d, e)'
      BY <1>1, <1>2, CallFacts, <1>3, <1>4, <1>5, <1>6, <1>7, <1>8, <2>1 DEF TypeOK, Waits
    <3> QED
      BY <1>1, <1>2, CallFacts, <1>3, <1>4, <1>5, <1>6, <1>7, <1>8, <2>1, <3>1, <3>2 DEF Context
  <2> QED
    BY <2>2, <2>3
<1>19. Output'
  <2> SUFFICES ASSUME NEW d \in Fds, "WRITE" \in events'[d]
               PROVE  \E g \in Fibers : Connects(g, d)'
    BY DEF Output
  <2>1. PICK g \in Fibers : Connects(g, d)
    <3>1. "WRITE" \in events[d]
      BY <1>1, <1>2, CallFacts, <1>3, <1>4, <1>5, <1>6, <1>7, <1>8 DEF TypeOK
    <3> QED
      BY <1>1, <3>1 DEF Safe, Output
  <2> QED
    BY <1>1, <1>2, CallFacts, <1>3, <1>4, <1>5, <1>6, <1>7, <1>8, <2>1 DEF TypeOK, Connects
<1>20. Expiring'
  <2> SUFFICES ASSUME NEW c \in Callbacks, c[1] = "timeout" PROVE Expires(c)'
    BY DEF Expiring
  <2>1. Expires(c) /\ (at[c] # "start" => fd[c] \in Fds)
    BY <1>1 DEF Safe, Expiring, Issued
  <2>2. at[c] # "start" /\ Alive(c) => op[c[2]] = "connect" /\ fd[c] = fd[c[2]]
    BY <1>1 DEF Safe, Issued
  <2>3. at[c] # "start" /\ Alive(c) => Alive(c)'
    BY <1>1, <1>2, CallFacts, <1>3, <1>4, <1>5, <1>6, <1>7, <1>8, <2>2 DEF TypeOK, Alive, InCall
  <2>4. at[c] = "trigger" => fd[c] # fd[f]
    BY <1>1 DEF Safe, Locking
  <2> QED
    BY <1>1, <1>2, CallFacts, <1>3, <1>4, <1>5, <1>6, <1>7, <1>8, <2>1, <2>3, <2>4 DEF TypeOK,
       Expires
<1>21. Awake'
  BY <1>1, <1>2, CallFacts, <1>3, <1>4, <1>5, <1>6, <1>7, <1>8 DEF TypeOK, Safe, Awake, Awakened,
     Excused, InCall
<1>22. Loops' /\ Attended'
  BY <1>1, BodyLoops DEF TypeOK
<1> QED
  BY <1>1, <1>9, <1>10, <1>11, <1>12, <1>13, <1>14, <1>15, <1>16, <1>17, <1>18, <1>19, <1>20,
     <1>21, <1>22 DEF HookInv, Safe

\* The callback of a timeout locks the weak pointer.
LEMMA TimeoutCbStep ==
    ASSUME HookInv, fault = "none", NEW t \in Threads, NEW c \in Callbacks, task[t] = c,
           c[1] = "timeout", TimeoutCb(c)
    PROVE  HookInv'
<1> USE TaskFacts, IOAssumption DEF TimeoutCb, Move, threadVars, fdVars, hookVars, codeVars
<1>1. ~Duplex /\ TypeOK /\ Safe /\ PendingExact /\ Awake
  BY DEF HookInv
<1>2. TypeOK /\ Sites
  BY <1>1 DEF Safe
<1>3. \A y : (Queued(y)' <=> Queued(y)) /\ (Once(y)' <=> Once(y))
  BY SameQueue
<1>4. \A d, e : Resetting(d, e)' <=> Resetting(d, e)
  BY <1>1, SameResetting DEF TypeOK
<1>5. TypeOK'
  BY <1>1, <1>2, CallFacts, <1>3, <1>4 DEF TypeOK, Safe, Event, Faults
<1>6. PendingExact'
  BY <1>1, SamePending DEF TypeOK
<1>7. Sites'
  BY <1>1, <1>2, CallFacts, <1>3, <1>4 DEF TypeOK, Safe, Sites, InCall, StepsOf, CallbackSteps
<1>8. Queue'
  BY <1>1, <1>2, CallFacts, <1>3, <1>4 DEF TypeOK, Safe, Queue, Held
<1>9. Issued'
  BY <1>1, <1>2, CallFacts, <1>3, <1>4 DEF TypeOK, Safe, Issued, Live, Alive, InCall
<1>10. Sleeps'
  BY <1>1, <1>2, CallFacts, <1>3, <1>4 DEF TypeOK, Safe, Sleeps, Live
<1>11. Alone'
  BY <1>1, <1>2, CallFacts, <1>3, <1>4 DEF TypeOK, Safe, Alone, Disturbs, InCall
<1>12. Locking'
  BY <1>1, <1>2, CallFacts, <1>3, <1>4 DEF TypeOK, Safe, Locking, ToTrigger, EventOf
<1>13. Registrations'
  BY <1>1, <1>2, CallFacts, <1>3, <1>4 DEF TypeOK, Safe, Registrations, Registers, EventOf,
     Direction
<1>14. Contexts'
  BY <1>1, <1>2, CallFacts, <1>3, <1>4 DEF TypeOK, Safe, Contexts, Context, Waits, EventOf,
     Direction
<1>15. Output'
  <2> SUFFICES ASSUME NEW d \in Fds, "WRITE" \in events'[d]
               PROVE  \E g \in Fibers : Connects(g, d)'
    BY DEF Output
  <2>1. PICK g \in Fibers : Connects(g, d)
    BY <1>1, <1>2, CallFacts, <1>3, <1>4 DEF Safe, Output, TypeOK
  <2> QED
    BY <1>1, <1>2, CallFacts, <1>3, <1>4, <2>1 DEF TypeOK, Connects
<1>16. Expiring'
  BY <1>1, <1>2, CallFacts, <1>3, <1>4 DEF TypeOK, Safe, Expiring, Expires, Alive, InCall
<1>17. Awake'
  BY <1>1, <1>2, CallFacts, <1>3, <1>4 DEF TypeOK, Safe, Awake, Awakened, Excused, InCall
<1>18. Loops' /\ Attended'
  BY <1>1, BodyLoops DEF TypeOK
<1> QED
  BY <1>1, <1>5, <1>6, <1>7, <1>8, <1>9, <1>10, <1>11, <1>12, <1>13, <1>14, <1>15, <1>16,
     <1>17, <1>18 DEF HookInv, Safe

\* The callback sets cancelled.
LEMMA TimeoutMarkStep ==
    ASSUME HookInv, fault = "none", NEW t \in Threads, NEW c \in Callbacks, task[t] = c,
           c[1] = "timeout", TimeoutMark(c)
    PROVE  HookInv'
<1> USE TaskFacts, IOAssumption DEF TimeoutMark, Move, threadVars, fdVars, hookVars, codeVars
<1>1. ~Duplex /\ TypeOK /\ Safe /\ PendingExact /\ Awake
  BY DEF HookInv
<1>2. TypeOK /\ Sites
  BY <1>1 DEF Safe
<1>3. \A y : (Queued(y)' <=> Queued(y)) /\ (Once(y)' <=> Once(y))
  BY SameQueue
<1>4. \A d, e : Resetting(d, e)' <=> Resetting(d, e)
  BY <1>1, SameResetting DEF TypeOK
<1>5. TypeOK'
  BY <1>1, <1>2, CallFacts, <1>3, <1>4 DEF TypeOK, Safe, Event, Faults
<1>6. PendingExact'
  BY <1>1, SamePending DEF TypeOK
<1>7. Sites'
  BY <1>1, <1>2, CallFacts, <1>3, <1>4 DEF TypeOK, Safe, Sites, InCall, StepsOf, CallbackSteps
<1>8. Queue'
  BY <1>1, <1>2, CallFacts, <1>3, <1>4 DEF TypeOK, Safe, Queue, Held
<1>9. Issued'
  BY <1>1, <1>2, CallFacts, <1>3, <1>4 DEF TypeOK, Safe, Issued, Live, Alive, InCall
<1>10. Sleeps'
  BY <1>1, <1>2, CallFacts, <1>3, <1>4 DEF TypeOK, Safe, Sleeps, Live
<1>11. Alone'
  BY <1>1, <1>2, CallFacts, <1>3, <1>4 DEF TypeOK, Safe, Alone, Disturbs, InCall
<1>12. Locking'
  BY <1>1, <1>2, CallFacts, <1>3, <1>4 DEF TypeOK, Safe, Locking, ToTrigger, EventOf
<1>13. Registrations'
  BY <1>1, <1>2, CallFacts, <1>3, <1>4 DEF TypeOK, Safe, Registrations, Registers, EventOf,
     Direction
<1>14. Contexts'
  BY <1>1, <1>2, CallFacts, <1>3, <1>4 DEF TypeOK, Safe, Contexts, Context, Waits, EventOf,
     Direction
<1>15. Output'
  <2> SUFFICES ASSUME NEW d \in Fds, "WRITE" \in events'[d]
               PROVE  \E g \in Fibers : Connects(g, d)'
    BY DEF Output
  <2>1. PICK g \in Fibers : Connects(g, d)
    BY <1>1, <1>2, CallFacts, <1>3, <1>4 DEF Safe, Output, TypeOK
  <2> QED
    BY <1>1, <1>2, CallFacts, <1>3, <1>4, <2>1 DEF TypeOK, Connects
<1>16. Expiring'
  BY <1>1, <1>2, CallFacts, <1>3, <1>4 DEF TypeOK, Safe, Expiring, Expires, Alive, InCall
<1>17. Awake'
  BY <1>1, <1>2, CallFacts, <1>3, <1>4 DEF TypeOK, Safe, Awake, Awakened, Excused, InCall
<1>18. Loops' /\ Attended'
  BY <1>1, BodyLoops DEF TypeOK
<1> QED
  BY <1>1, <1>5, <1>6, <1>7, <1>8, <1>9, <1>10, <1>11, <1>12, <1>13, <1>14, <1>15, <1>16,
     <1>17, <1>18 DEF HookInv, Safe

\* A call begins.
LEMMA EnterStep ==
    ASSUME HookInv, fault = "none", NEW t \in Threads, NEW f \in Fibers, task[t] = f, NEW o,
           NEW k, NEW w, Opens(f, o, k, w)
    PROVE  HookInv'
<1> USE TaskFacts, IOAssumption
<1>1. ~Duplex /\ TypeOK /\ Safe /\ PendingExact /\ Awake
  BY DEF HookInv
<1>2. TypeOK /\ Sites
  BY <1>1 DEF Safe
<1>3. /\ UNCHANGED <<m_stopping, pc, task, ended, past, cbs, m_tasks, m_pendingEventCount,
                    events, ctx, sched, mtx, epoll, seen, left, fault>>
      /\ cancelled' = cancelled \ {f}
      /\ \A y : (Queued(y)' <=> Queued(y)) /\ (Once(y)' <=> Once(y))
  <2>1. /\ UNCHANGED <<m_stopping, pc, task, ended, past, cbs, m_tasks, m_pendingEventCount,
                      events, ctx, sched, mtx, epoll, seen, left, fault>>
        /\ cancelled' = cancelled \ {f}
    BY DEF Opens, Enter, threadVars, fdVars
  <2> QED
    BY <2>1, SameQueue
<1>4. /\ call[f] \in Nat /\ call[f] + 1 \in 1..MaxCalls /\ call'[f] = call[f] + 1
      /\ \A g \in Fibers \ {f} : call'[g] = call[g] /\ op'[g] = op[g]
      /\ at[f] = "start" /\ at'[f] = w /\ op'[f] = o /\ fd'[f] = k
      /\ \A x \in Tasks \ {f} : at'[x] = at[x]
  BY <1>3, <1>1 DEF TypeOK, IOAssumption, Opens, Enter
<1>5. /\ <<"timeout", f, call[f] + 1>> \in Callbacks /\ <<"wake", f, call[f] + 1>> \in Callbacks
      /\ \A g \in Fibers : g # <<"timeout", f, call[f] + 1>>
  BY <1>3, <1>4
<1>6. ~InCall(f) /\ ~Queued(f)
  BY <1>3, <1>1, <1>4 DEF InCall, Safe, Queue, Held
<1>7. \A c \in Callbacks : c[1] = "timeout" /\ (Live(c) \/ at[c] # "start") =>
            c # <<"timeout", f, call[f] + 1>> /\ c[3] <= call[c[2]]
  BY <1>3, <1>1, <1>4 DEF Safe, Issued, TypeOK
<1>8. /\ \A x \in Tasks : x # f /\ x # <<"timeout", f, call[f] + 1>> => fd'[x] = fd[x]
      /\ fd'[<<"timeout", f, call[f] + 1>>] = k
      /\ \A c \in Callbacks : at[c] # "start" => fd'[c] = fd[c]
  <2>1. /\ \A x \in Tasks : x # f /\ x # <<"timeout", f, call[f] + 1>> => fd'[x] = fd[x]
        /\ fd'[<<"timeout", f, call[f] + 1>>] = k
    BY <1>3, <1>1, <1>5 DEF TypeOK, Opens, Enter
  <2> QED
    BY <1>3, <1>2, <1>7, <2>1, CallFacts
<1>9. /\ o \in Ops /\ o \in {"sleep", "connect", "read", "watch", "del", "close"} \cup Cancels
      /\ w \in {"start", "yield", "try", "add", "cancel", "del"}
      /\ w = "yield" <=> o = "sleep"
      /\ w = "start" => o = "connect"
      /\ w # "start" => w \in StepsOf(o)
      /\ IF o = "sleep" THEN k = Null ELSE k \in Fds
  BY DEF Opens, First, StepsOf, Ops
<1>10. \A g \in Fibers \ {f} : InCall(g) /\ fd[g] = k /\ k # Null =>
            at[g] = "away" /\ op[g] \in {"connect", "read"} /\ o \in Cancels \cup {"close"}
  BY <1>3, <1>1, <1>2, <1>9, CallFacts DEF Opens, Unused
<1>11. \A e, d : Resetting(d, e)' <=> Resetting(d, e)
  <2>1. \A x \in Tasks : at[x] = "reset" => x # f /\ x # <<"timeout", f, call[f] + 1>>
    BY <1>3, <1>2, <1>4, <1>7, CallFacts
  <2> QED
    BY <1>3, <1>4, <1>8, <1>9, <2>1, SameResetting
<1>12. \A g \in Fibers \ {f} :
          at'[g] = at[g] /\ fd'[g] = fd[g] /\ EventOf(g)' = EventOf(g) /\ (InCall(g)' <=> InCall(g))
  BY <1>3, <1>4, <1>5, <1>8 DEF EventOf, InCall
<1>13. TypeOK'
  <2>1. /\ at' \in [Tasks -> Place]
        /\ call' \in [Fibers -> 0..MaxCalls] /\ op' \in [Fibers -> Ops \cup {"none"}]
        /\ fd' \in [Tasks -> Fds \cup {Null}]
        /\ cancelled' \cup early' \cup roused' \subseteq Fibers
    <3>1. call' = [call EXCEPT ![f] = @ + 1] /\ op' = [op EXCEPT ![f] = o]
          /\ fd' = [fd EXCEPT ![f] = k, ![<<"timeout", f, call[f] + 1>>] = k]
          /\ at' = [at EXCEPT ![f] = w]
      BY DEF Opens, Enter
    <3> QED
      <4>1. call[f] + 1 \in 0..MaxCalls /\ k \in Fds \cup {Null} /\ o \in Ops
        BY <1>4, <1>9
      <4>2. call' \in [Fibers -> 0..MaxCalls] /\ op' \in [Fibers -> Ops \cup {"none"}]
        BY <1>1, <3>1, <4>1 DEF TypeOK
      <4>3. fd' \in [Tasks -> Fds \cup {Null}]
        BY <1>1, <3>1, <4>1 DEF TypeOK
      <4>4. at' \in [Tasks -> Place]
        BY <1>1, <1>9, <3>1 DEF TypeOK
      <4> QED
        BY <1>1, <1>3, <4>2, <4>3, <4>4 DEF TypeOK, Opens, Enter
  <2>2. m_timers' \subseteq Callbacks /\ sock' \in [Fds -> Sock]
    <3>1. m_timers' \subseteq Callbacks
      BY <1>1, <1>5 DEF TypeOK, Opens
    <3>2. sock' = sock \/ \E v \in Sock : sock' = [sock EXCEPT ![k] = v]
      BY DEF Opens, Sock
    <3>3. sock \in [Fds -> Sock]
      BY <1>1 DEF TypeOK
    <3>4. ASSUME NEW v \in Sock PROVE [sock EXCEPT ![k] = v] \in [Fds -> Sock]
      BY <3>3
    <3> QED
      BY <3>1, <3>2, <3>3, <3>4
  <2> QED
    BY <1>3, <1>1, <2>1, <2>2 DEF TypeOK
<1>14. PendingExact'
  BY <1>3, <1>1, <1>4, <1>9, SamePending
<1>15. Sites'
  <2>1. \A g \in Fibers : InCall(g)' =>
          /\ at'[g] \in StepsOf(op'[g]) /\ call'[g] # 0
          /\ IF op'[g] = "sleep" THEN fd'[g] = Null ELSE fd'[g] \in Fds
    BY <1>3, <1>2, <1>4, <1>9, <1>12 DEF Sites, InCall
  <2>2. \A c \in Callbacks : at'[c] \in CallbackSteps(c[1])
    BY <1>3, <1>2, <1>4 DEF Sites
  <2> QED
    BY <2>1, <2>2 DEF Sites
<1>16. Queue'
  BY <1>1, <1>3, <1>4, <1>6, <1>9 DEF Safe, Queue, Held
<1>17. Issued'
  <2> SUFFICES ASSUME NEW c \in Callbacks, c[1] = "timeout", Live(c)' \/ at'[c] # "start"
               PROVE  /\ c[3] <= call'[c[2]] /\ fd'[c] \in Fds
                      /\ Alive(c)' => op'[c[2]] = "connect" /\ fd'[c] = fd'[c[2]]
    BY DEF Issued
  <2>1. CASE Live(c) \/ at[c] # "start"
    <3>1. /\ c[3] <= call[c[2]] /\ fd[c] \in Fds /\ fd'[c] = fd[c]
          /\ Alive(c) => op[c[2]] = "connect" /\ fd[c] = fd[c[2]]
      BY <1>3, <1>1, <1>7, <1>8, <2>1 DEF Safe, Issued
    <3>2. CASE c[2] = f
      BY <1>3, <1>4, <3>1, <3>2 DEF Alive
    <3>3. CASE c[2] # f
      BY <1>3, <1>4, <1>12, <3>1, <3>3 DEF Alive
    <3> QED
      BY <3>2, <3>3
  <2>2. CASE ~(Live(c) \/ at[c] # "start")
    <3>1. c = <<"timeout", f, call[f] + 1>> /\ o = "connect" /\ k \in Fds
      BY <1>3, <1>4, <1>5, <2>2 DEF Live, Opens
    <3>2. c[2] = f /\ c[3] = call[f] + 1
      BY <3>1
    <3> QED
      BY <1>3, <1>4, <1>8, <3>1, <3>2
  <2> QED
    BY <2>1, <2>2
<1>18. Sleeps'
  <2> SUFFICES ASSUME NEW c \in Callbacks, c[1] = "wake", Live(c)', at'[c] = "start"
               PROVE  /\ op'[c[2]] = "sleep" /\ call'[c[2]] = c[3]
                      /\ at'[c[2]] \in {"yield", "away"} /\ ~Queued(c[2])'
    BY DEF Sleeps
  <2>1. CASE Live(c)
    BY <1>1, <1>3, <1>4, <2>1 DEF Safe, Sleeps
  <2>2. CASE ~Live(c)
    <3>1. c = <<"wake", f, call[f] + 1>> /\ o = "sleep" /\ w = "yield"
      BY <1>3, <1>4, <1>5, <2>2, <1>9 DEF Live, Opens
    <3>2. c[2] = f /\ c[3] = call[f] + 1
      BY <3>1
    <3> QED
      BY <1>3, <1>4, <1>6, <3>1, <3>2
  <2> QED
    BY <2>1, <2>2
<1>19. Alone'
  <2> SUFFICES ASSUME NEW g \in Fibers, NEW h \in Fibers, g # h, InCall(g)', InCall(h)',
                      fd'[g] = fd'[h], fd'[g] # Null
               PROVE  Disturbs(g, h)' \/ Disturbs(h, g)'
    BY DEF Alone
  <2>1. CASE g # f /\ h # f
    BY <1>3, <1>1, <1>4, <1>12, <2>1 DEF Safe, Alone, Disturbs
  <2>2. CASE g = f
    BY <1>3, <1>4, <1>10, <1>12, <2>2 DEF Disturbs
  <2>3. CASE h = f
    BY <1>3, <1>4, <1>10, <1>12, <2>3 DEF Disturbs
  <2> QED
    BY <2>1, <2>2, <2>3
<1>20. Locking'
  <2> SUFFICES ASSUME NEW x \in Tasks, at'[x] \in {"trigger", "reset", "drop"}
               PROVE  /\ mtx'[fd'[x]] = x
                      /\ at'[x] \in {"trigger", "reset"} => left'[x] \in ToTrigger(x)'
    BY DEF Locking
  <2>1. x # f /\ at'[x] = at[x] /\ fd'[x] = fd[x] /\ (x \in Fibers => op'[x] = op[x])
    BY <1>3, <1>4, <1>8, <1>9, <1>12
  <2> QED
    BY <1>3, <1>1, <2>1 DEF Safe, Locking, ToTrigger, EventOf
<1>21. Registrations'
  <2>1. \A g \in Fibers \ {f} : Registers(g)'
    BY <1>3, <1>1, <1>11, <1>12 DEF Safe, Registrations, Registers
  <2>2. Registers(f)'
    BY <1>3, <1>4, <1>9 DEF Registers
  <2> QED
    BY <2>1, <2>2 DEF Registrations
<1>22. Contexts'
  <2> SUFFICES ASSUME NEW d \in Fds, NEW e \in Event PROVE Context(d, e)'
    BY DEF Contexts
  <2>1. Context(d, e)
    BY <1>3, <1>1 DEF Safe, Contexts
  <2>2. \A g \in Fibers : Waits(g, d, e) => Waits(g, d, e)'
    BY <1>3, <1>4, <1>12 DEF Waits
  <2> QED
    BY <1>3, <1>11, <2>1, <2>2 DEF Context
<1>23. Output'
  <2> SUFFICES ASSUME NEW d \in Fds, "WRITE" \in events'[d]
               PROVE  \E g \in Fibers : Connects(g, d)'
    BY DEF Output
  <2>1. PICK g \in Fibers : Connects(g, d)
    BY <1>3, <1>1 DEF Safe, Output
  <2> QED
    BY <1>3, <1>4, <1>12, <2>1 DEF Connects
<1>24. Expiring'
  <2> SUFFICES ASSUME NEW c \in Callbacks, c[1] = "timeout" PROVE Expires(c)'
    BY DEF Expiring
  <2>1. Expires(c) /\ at'[c] = at[c]
    BY <1>3, <1>1, <1>4 DEF Safe, Expiring
  <2>2. Alive(c) => Alive(c)' /\ c[2] # f
    BY <1>3, <1>4, <1>6, <1>12 DEF Alive
  <2> QED
    BY <1>3, <1>8, <2>1, <2>2 DEF Expires
<1>25. Awake'
  <2> SUFFICES ASSUME NEW g \in Fibers, op'[g] = "connect", sock'[fd'[g]] = "connecting",
                      Awakened(g)'
               PROVE  Excused(g)'
    BY DEF Awake
  <2>1. g # f /\ Awakened(g) /\ InCall(g) /\ op[g] = "connect" /\ fd'[g] = fd[g]
    BY <1>3, <1>4, <1>6, <1>9, <1>12 DEF Awakened, InCall
  <2>2. fd[g] \in Fds
    BY <1>3, <1>2, <2>1, CallFacts
  <2>3. fd[g] = k => UNCHANGED sock
    BY <1>3, <1>10, <2>1, <2>2 DEF Opens
  <2>4. sock'[fd[g]] = sock[fd[g]]
    BY <1>3, <1>1, <2>2, <2>3 DEF TypeOK, Opens
  <2>5. Excused(g)
    BY <1>3, <1>1, <2>1, <2>4 DEF Awake
  <2> QED
    BY <1>3, <1>4, <1>6, <1>12, <2>1, <2>5 DEF Excused, Opens, Enter
<1>26. Loops' /\ Attended'
  BY <1>3, BodyLoops
<1> QED
  BY <1>1, <1>13, <1>14, <1>15, <1>16, <1>17, <1>18, <1>19, <1>20, <1>21, <1>22, <1>23, <1>24,
     <1>25, <1>26 DEF HookInv, Safe

\* A fault ends everything: it leaves the types, the threads and what was woken.
LEMMA FaultStep ==
    ASSUME HookInv, fault = "none", fault' # "none", NEW t \in Threads, task[t] # Null,
           UNCHANGED <<m_stopping, pc, task, ended, cbs, past>>, TypeOK', Awake'
    PROVE  HookInv'
<1>1. Loops' /\ Attended'
  BY BodyLoops
<1> QED
  BY <1>1 DEF HookInv, PendingExact

\* triggerEvent() clears the event and schedules who waits for it.
LEMMA TriggerStep ==
    ASSUME HookInv, fault = "none", fault' = "none", NEW t \in Threads, NEW x \in Tasks,
           task[t] = x, NEW k, k = fd[x], NEW v, v = Head(left[x]), Trigger(x),
           Touches, roused' = roused \cup Rouses(x)
    PROVE  HookInv'
<1> USE TaskFacts, IOAssumption
<1>1. ~Duplex /\ TypeOK /\ Safe /\ PendingExact /\ Awake
  BY DEF HookInv
<1>2. TypeOK /\ Sites
  BY <1>1 DEF Safe
<1>3. UNCHANGED <<m_stopping, pc, task, ended, past, cbs, m_timers, m_pendingEventCount, ctx,
                  sched, mtx, epoll, fd, seen, left, fault, call, op, cancelled, sock>>
  BY DEF Trigger, threadVars, Touches
<1>4. /\ at[x] = "trigger" /\ at'[x] = "reset" /\ \A y \in Tasks \ {x} : at'[y] = at[y]
      /\ v \in events[k] /\ events' = [events EXCEPT ![k] = events[k] \ {v}]
  BY <1>1 DEF Trigger, Move, TypeOK
<1>5. /\ k \in Fds /\ v \in Event /\ left[x] \in ToTrigger(x) /\ mtx[k] = x
      /\ x \in Fibers => InCall(x) /\ op[x] \in Cancels \cup {"close"}
      /\ x \in Callbacks => x[1] = "timeout" /\ v = "WRITE"
      /\ x \in Fibers /\ op[x] \in Cancels => v = EventOf(x)
  <2>1. at[x] \in {"trigger", "reset"}
    BY <1>4
  <2>2. /\ k \in Fds /\ (x \in Fibers => InCall(x) /\ op[x] \in Cancels \cup {"close"})
        /\ x \in Callbacks => x[1] = "timeout"
    BY <1>1, <1>2, <2>1, CancelFacts, CallFacts
  <2>3. /\ left[x] \in ToTrigger(x) /\ v \in Event /\ (x \in Callbacks => v = "WRITE")
        /\ x \in Fibers /\ op[x] \in Cancels => v = EventOf(x)
    BY <1>1, <2>1, TriggerFacts
  <2> QED
    BY <1>1, <2>1, <2>2, <2>3 DEF Safe, Locking
<1>6. /\ events'[k] = events[k] \ {v} /\ \A d \in Fds \ {k} : events'[d] = events[d]
      /\ \A d \in Fds, e \in Event : e \in events'[d] <=> e \in events[d] /\ ~(d = k /\ e = v)
  BY <1>1, <1>4, <1>5 DEF TypeOK
<1>7. /\ \A d, e : Resetting(d, e)' <=> Resetting(d, e) \/ (d = k /\ e = v)
      /\ \A e : ~Resetting(k, e)
      /\ \A y \in Tasks : at[y] = "trigger" /\ fd[y] = k => y = x
  <2>1. \A y \in Tasks : fd[y] = k /\ at[y] \in {"trigger", "reset"} => y = x
    BY <1>1, <1>4, CancelFacts
  <2>2. \A e : ~Resetting(k, e)
    BY <1>4, <2>1 DEF Resetting
  <2>3. \A d, e : Resetting(d, e)' <=> Resetting(d, e) \/ (d = k /\ e = v)
    BY <1>3, <1>4 DEF Resetting
  <2> QED
    BY <2>1, <2>2, <2>3
<1> DEFINE w == ctx[k][v]
<1>8. /\ w \in Tasks \cup {Null} /\ m_tasks' \in Seq(Tasks)
      /\ \A y \in Tasks : Queued(y)' <=> Queued(y) \/ y = w
      /\ \A y \in Tasks : Once(y) /\ (y = w => ~Queued(y)) => Once(y)'
  <2>1. w \in Tasks \cup {Null}
    BY <1>1, <1>5 DEF TypeOK
  <2>2. IF w # Null THEN Schedule(w) ELSE UNCHANGED m_tasks
    BY DEF Trigger
  <2>3. CASE w # Null
    BY <1>1, <2>1, <2>2, <2>3, ScheduleFacts DEF TypeOK
  <2>4. CASE w = Null
    BY <1>1, <2>1, <2>2, <2>4, SameQueue DEF TypeOK
  <2> QED
    BY <2>3, <2>4
<1>9. (w \in Fibers => Waits(w, k, v)) /\ (w \in Callbacks => w[1] = "event")
  BY <1>1, <1>4, <1>5, <1>7 DEF Safe, Contexts, Context
<1> HIDE DEF w
<1>10. \A g \in Fibers : (InCall(g)' <=> InCall(g)) /\ EventOf(g)' = EventOf(g)
  BY <1>3, <1>4, <1>5 DEF InCall, EventOf
<1>11. \A h, g \in Fibers : Connects(h, k) /\ InCall(g) /\ fd[g] = k /\ g # h =>
          op[g] \in Cancels \cup {"close"}
  BY <1>1, <1>2, <1>5, AloneFacts DEF Connects, InCall, Safe
<1>12. ASSUME NEW g \in Fibers, at[g] \in {"ctl", "set", "drop"}
       PROVE  fd[g] # k /\ fd[g] \in Fds /\ g # x
  <2>1. InCall(g) /\ op[g] \in {"connect", "read", "watch", "del"} /\ fd[g] \in Fds
    BY <1>2, <1>12, CallFacts DEF InCall
  <2>2. Registers(g) /\ (at[g] \in {"ctl", "set"} => op[g] # "del")
    BY <1>1, <1>2, <1>12, CallFacts DEF Safe, Registrations
  <2>3. ASSUME fd[g] = k, at[g] # "drop" PROVE v # EventOf(g)
    BY <1>4, <1>12, <2>2, <2>3 DEF Registers
  <2>4. fd[g] = k /\ v = "WRITE" => EventOf(g) = "WRITE" /\ at[g] # "drop"
    <3>1. SUFFICES ASSUME fd[g] = k, v = "WRITE" PROVE EventOf(g) = "WRITE" /\ at[g] # "drop"
      OBVIOUS
    <3>2. PICK h \in Fibers : Connects(h, k)
      BY <1>1, <1>4, <1>5, <3>1 DEF Safe, Output
    <3>3. g = h
      BY <1>11, <2>1, <3>1, <3>2
    <3> QED
      BY <1>2, <3>2, <3>3, CallFacts DEF Connects
  <2>5. fd[g] = k /\ v = "READ" => EventOf(g) = "READ" /\ at[g] # "drop"
    <3>1. SUFFICES ASSUME fd[g] = k, v = "READ" PROVE EventOf(g) = "READ" /\ at[g] # "drop"
      OBVIOUS
    <3>2. x \in Fibers /\ InCall(x) /\ op[x] \in Cancels \cup {"close"} /\ x # g
      BY <1>5, <2>1, <3>1
    <3>3. op[g] = "read"
      BY <1>1, <1>2, <1>5, <1>12, <2>1, <3>1, <3>2, AloneFacts DEF Safe
    <3> QED
      BY <1>2, <3>3, CallFacts DEF EventOf, Direction
  <2> QED
    BY <1>4, <1>5, <1>12, <2>1, <2>3, <2>4, <2>5 DEF Event
<1>13. TypeOK'
  <2>1. events' \in [Fds -> SUBSET Event]
    BY <1>1, <1>4, <1>5 DEF TypeOK
  <2>2. at' = [at EXCEPT ![x] = "reset"]
    BY DEF Trigger, Move
  <2> QED
    BY <1>1, <1>3, <1>8, <2>1, <2>2 DEF TypeOK, Touches
<1>14. PendingExact'
  <2>1. Cardinality(Changing)' = Cardinality(Changing) + 1
    BY <1>4, ChangingMore
  <2>2. Cardinality(Registered) = Cardinality(Registered)' + 1
    BY <1>1, <1>4, <1>5, RegisteredLess
  <2>3. m_pendingEventCount = Cardinality(Registered) + Cardinality(Changing)
    BY <1>1 DEF PendingExact, Registered, Changing
  <2>4. m_pendingEventCount' = Cardinality(Registered)' + Cardinality(Changing)'
    BY <1>3, <2>1, <2>2, <2>3, CountedFinite
  <2> QED
    BY <2>4 DEF PendingExact, Registered, Changing
<1>15. Sites'
  <2>1. \A g \in Fibers : InCall(g) => at'[g] \in StepsOf(op[g])
    BY <1>2, <1>4, <1>5 DEF Sites, StepsOf
  <2>2. \A c \in Callbacks : at'[c] \in CallbackSteps(c[1])
    BY <1>2, <1>4, <1>5 DEF Sites, CallbackSteps
  <2> QED
    BY <1>2, <1>3, <1>10, <2>1, <2>2 DEF Sites
<1>16. Queue'
  BY <1>1, <1>3, <1>4, <1>5, <1>8, <1>9 DEF Safe, Queue, Held, Waits, InCall
<1>17. Issued'
  <2>1. \A c \in Callbacks : c[1] = "timeout" =>
            (Live(c)' <=> Live(c)) /\ (at'[c] # "start" <=> at[c] # "start")
    BY <1>3, <1>4, <1>8, <1>9 DEF Live
  <2>2. \A c \in Callbacks : Alive(c)' <=> Alive(c)
    BY <1>3, <1>10 DEF Alive
  <2> QED
    BY <1>1, <1>3, <2>1, <2>2 DEF Safe, Issued
<1>18. Sleeps'
  <2> SUFFICES ASSUME NEW c \in Callbacks, c[1] = "wake", Live(c)', at'[c] = "start"
               PROVE  /\ op'[c[2]] = "sleep" /\ call'[c[2]] = c[3]
                      /\ at'[c[2]] \in {"yield", "away"} /\ ~Queued(c[2])'
    BY DEF Sleeps
  <2>1. Live(c) /\ at[c] = "start"
    BY <1>3, <1>4, <1>8, <1>9 DEF Live
  <2>2. /\ op[c[2]] = "sleep" /\ call[c[2]] = c[3]
        /\ at[c[2]] \in {"yield", "away"} /\ ~Queued(c[2])
    BY <1>1, <2>1 DEF Safe, Sleeps
  <2> QED
    BY <1>3, <1>4, <1>8, <1>9, <2>2 DEF Waits
<1>19. Alone'
  <2>1. \A g \in Fibers : op[g] = "connect" => at'[g] = at[g]
    BY <1>4, <1>5
  <2> QED
    BY <1>1, <1>3, <1>10, <2>1 DEF Safe, Alone, Disturbs
<1>20. Locking'
  BY <1>1, <1>3, <1>4, <1>5 DEF Safe, Locking, ToTrigger, EventOf
<1>21. Registrations'
  <2> SUFFICES ASSUME NEW g \in Fibers PROVE Registers(g)'
    BY DEF Registrations
  <2>1. CASE at[g] \in {"ctl", "set", "drop"}
    BY <1>1, <1>3, <1>4, <1>6, <1>7, <1>10, <1>12, <2>1 DEF Safe, Registrations, Registers
  <2>2. CASE at[g] \notin {"ctl", "set", "drop"}
    BY <1>4, <2>2 DEF Registers
  <2> QED
    BY <2>1, <2>2
<1>22. Contexts'
  <2> SUFFICES ASSUME NEW d \in Fds, NEW e \in Event PROVE Context(d, e)'
    BY DEF Contexts
  <2>1. Context(d, e)
    BY <1>1 DEF Safe, Contexts
  <2>2. CASE d = k /\ e = v
    BY <1>3, <1>6, <1>7, <2>1, <2>2 DEF Context
  <2>3. CASE ~(d = k /\ e = v)
    <3>1. \A g \in Fibers : Waits(g, d, e) => Waits(g, d, e)'
      BY <1>3, <1>4, <1>8, <1>9, <1>10, <2>3 DEF Waits
    <3> QED
      BY <1>3, <1>6, <1>7, <2>1, <2>3, <3>1 DEF Context
  <2> QED
    BY <2>2, <2>3
<1>23. Output'
  <2> SUFFICES ASSUME NEW d \in Fds, "WRITE" \in events'[d]
               PROVE  \E g \in Fibers : Connects(g, d)'
    BY DEF Output
  <2>1. "WRITE" \in events[d] /\ ~(d = k /\ v = "WRITE")
    BY <1>6 DEF Event
  <2>2. PICK h \in Fibers : Connects(h, d)
    BY <1>1, <2>1 DEF Safe, Output
  <2>3. h # w
    BY <1>2, <1>9, <2>1, <2>2, CallFacts DEF Connects, Waits
  <2> QED
    BY <1>3, <1>4, <1>8, <2>2, <2>3 DEF Connects
<1>24. Expiring'
  <2> SUFFICES ASSUME NEW c \in Callbacks, c[1] = "timeout" PROVE Expires(c)'
    BY DEF Expiring
  <2>1. Expires(c) /\ (at[c] # "start" => fd[c] \in Fds) /\ (Alive(c)' <=> Alive(c))
    BY <1>1, <1>3, <1>10 DEF Safe, Expiring, Issued, Alive
  <2>2. at'[c] = "trigger" => at[c] = "trigger" /\ fd[c] # k
    BY <1>4, <1>7
  <2> QED
    BY <1>3, <1>4, <1>6, <2>1, <2>2 DEF Expires
<1>25. Awake'
  <2> SUFFICES ASSUME NEW f \in Fibers, op[f] = "connect", sock[fd[f]] = "connecting", Awakened(f)'
               PROVE  Excused(f)'
    BY <1>3 DEF Awake
  <2>1. Excused(f) => Excused(f)'
    BY <1>3 DEF Excused
  <2>2. CASE Awakened(f)
    BY <1>1, <2>1, <2>2 DEF Awake
  <2>3. CASE ~Awakened(f)
    <3>1. f = w /\ Waits(f, k, v)
      BY <1>3, <1>4, <1>8, <1>9, <2>3 DEF Awakened
    <3>2. InCall(f) /\ fd[f] = k /\ v = "WRITE"
      BY <1>2, <3>1, CallFacts DEF Waits, InCall
    <3>3. CASE x \in Fibers
      <4>1. f \in Rouses(x)
        BY <1>4, <3>1, <3>3 DEF Rouses, w
      <4> QED
        BY <4>1 DEF Excused
    <3>4. CASE x \in Callbacks
      <4>1. "overtaken" \in past \/ (Alive(x) /\ x[2] \in cancelled)
        BY <1>1, <1>4, <1>5, <3>4 DEF Safe, Expiring, Expires
      <4>2. Alive(x) => InCall(x[2]) /\ op[x[2]] = "connect" /\ fd[x[2]] = k
        BY <1>1, <1>4, <1>5, <3>4 DEF Safe, Issued, Alive
      <4>3. Alive(x) => f = x[2]
        BY <1>1, <1>2, <1>5, <3>2, <3>4, <4>2, AloneFacts DEF Safe
      <4> QED
        BY <2>1, <4>1, <4>3 DEF Excused
    <3> QED
      BY <3>3, <3>4
  <2> QED
    BY <2>2, <2>3
<1>26. Loops' /\ Attended'
  BY <1>3, BodyLoops
<1> QED
  BY <1>1, <1>13, <1>14, <1>15, <1>16, <1>17, <1>18, <1>19, <1>20, <1>21, <1>22, <1>23, <1>24,
     <1>25, <1>26 DEF HookInv, Safe

\* triggerEvent() resets the context, and the cancellation goes on.
LEMMA ResetStep ==
    ASSUME HookInv, fault = "none", NEW t \in Threads, NEW x \in Tasks, task[t] = x,
           NEW k, k = fd[x], NEW v, v = Head(left[x]), NEW es, NEW to,
           Canceller(x, es, to), Reset(x, to), Touches
    PROVE  HookInv'
<1> USE TaskFacts, IOAssumption
<1>1. ~Duplex /\ TypeOK /\ Safe /\ PendingExact /\ Awake
  BY DEF HookInv
<1>2. TypeOK /\ Sites
  BY <1>1 DEF Safe
<1>3. UNCHANGED <<m_stopping, pc, task, ended, past, cbs, m_tasks, m_timers, events, epoll, fd,
                  seen, call, op, cancelled, sock>>
  BY DEF Reset, threadVars, Touches
<1>4. at[x] = "reset"
  BY DEF Reset
<1>5. /\ k \in Fds /\ v \in Event /\ mtx[k] = x /\ Len(left[x]) \in {1, 2}
      /\ x \in Fibers => InCall(x) /\ op[x] \in Cancels \cup {"close"}
      /\ Len(left[x]) = 2 => x \in Fibers /\ op[x] = "close" /\ Tail(left[x]) = <<"WRITE">>
      /\ Tail(left[x]) \in Seq(Event)
  <2>1. at[x] \in {"trigger", "reset"}
    BY <1>4
  <2>2. k \in Fds /\ (x \in Fibers => InCall(x) /\ op[x] \in Cancels \cup {"close"})
    BY <1>1, <1>2, <2>1, CancelFacts, CallFacts
  <2> QED
    BY <1>1, <2>1, <2>2, TriggerFacts DEF Safe, Locking
<1>6. /\ at' = [at EXCEPT ![x] = IF Len(left[x]) = 1 THEN to ELSE "trigger"]
      /\ left' = [left EXCEPT ![x] = Tail(left[x])]
      /\ mtx' = [mtx EXCEPT ![k] = IF Len(left[x]) = 1 THEN Null ELSE mtx[k]]
      /\ fault' \in {"none", "events_left"}
  BY DEF Reset, Proceed
<1>7. /\ at'[x] = (IF Len(left[x]) = 1 THEN to ELSE "trigger")
      /\ \A y \in Tasks \ {x} : at'[y] = at[y] /\ left'[y] = left[y]
      /\ left'[x] = Tail(left[x]) /\ (at'[x] = "trigger" => mtx'[k] = x)
      /\ \A d \in Fds \ {k} : mtx'[d] = mtx[d]
  <2>1. to # "trigger"
    BY DEF Canceller
  <2> QED
    BY <1>1, <1>5, <1>6, <2>1 DEF TypeOK
<1>8. /\ x \in Callbacks => at'[x] = "done"
      /\ x \in Fibers /\ op[x] \in Cancels => at'[x] = "start"
      /\ x \in Fibers /\ op[x] = "close" => at'[x] \in {"trigger", "close"}
      /\ at'[x] = "trigger" => x \in Fibers /\ op[x] = "close" /\ left'[x] = <<"WRITE">>
      /\ at'[x] \in {"start", "trigger", "close", "done"}
  BY <1>5, <1>7 DEF Canceller
<1>9. \A y \in Tasks \ {x} : at[y] \in {"trigger", "reset", "drop"} => fd[y] # k /\ fd[y] \in Fds
  BY <1>1, <1>4, CancelFacts
<1>10. \A d, e : Resetting(d, e)' <=> Resetting(d, e) /\ ~(d = k /\ e = v)
  <2>1. \A d, e : Resetting(d, e)' => Resetting(d, e)
    BY <1>3, <1>7, <1>8 DEF Resetting
  <2>2. \A e : ~Resetting(k, e)'
    BY <1>3, <1>7, <1>8, <1>9 DEF Resetting
  <2>3. \A d, e : Resetting(d, e) => Resetting(d, e)' \/ (d = k /\ e = v)
    BY <1>3, <1>7 DEF Resetting
  <2> QED
    BY <2>1, <2>2, <2>3
<1>11. /\ ctx' \in [Fds -> [Event -> Tasks \cup {Null}]] /\ ctx'[k][v] = Null
       /\ sched' \in [Fds -> SUBSET Event]
       /\ \A d \in Fds, e \in Event : ~(d = k /\ e = v) => ctx'[d][e] = ctx[d][e]
  <2>1. ctx' = [ctx EXCEPT ![k][v] = Null] /\ sched' = [sched EXCEPT ![k] = @ \ {v}]
    BY DEF Reset, Clear
  <2> QED
    BY <1>1, <1>5, <2>1 DEF TypeOK
<1>12. m_pendingEventCount' = Cardinality(Registered)' + Cardinality(Changing)'
  <2>1. Cardinality(Changing) = Cardinality(Changing)' + 1
    BY <1>4, <1>7, <1>8, ChangingLess
  <2>2. Registered' = Registered
    BY <1>3 DEF Registered
  <2>3. m_pendingEventCount = Cardinality(Registered) + Cardinality(Changing)
    BY <1>1 DEF PendingExact, Registered, Changing
  <2>4. m_pendingEventCount' = m_pendingEventCount - 1
    BY DEF Reset
  <2> QED
    BY <2>1, <2>2, <2>3, <2>4, CountedFinite
<1>13. PendingExact' /\ m_pendingEventCount' \in Nat
  BY <1>12, CountedFinite DEF PendingExact, Registered, Changing
<1>14. TypeOK'
  <2>1. left' \in [Tasks -> Seq(Event)] /\ mtx' \in [Fds -> Tasks \cup {Null}]
    BY <1>1, <1>5, <1>6 DEF TypeOK
  <2>2. \E b \in {"start", "trigger", "close", "done"} : at' = [at EXCEPT ![x] = b]
    BY <1>6, <1>7, <1>8
  <2>3. at' \in [Tasks -> Place]
    BY <1>1, <2>2 DEF TypeOK
  <2>4. fault' \in Faults
    BY <1>6 DEF Faults
  <2> QED
    BY <1>1, <1>3, <1>11, <1>13, <2>1, <2>3, <2>4 DEF TypeOK, Touches
<1>15. \A g \in Fibers :
          /\ EventOf(g)' = EventOf(g) /\ (InCall(g)' => InCall(g))
          /\ (op[g] \notin Cancels /\ InCall(g) => InCall(g)')
          /\ (op[g] \notin Cancels \cup {"close"} => at'[g] = at[g])
  BY <1>3, <1>5, <1>7, <1>8 DEF InCall, EventOf
<1>16. \A y : (Queued(y)' <=> Queued(y)) /\ (Once(y)' <=> Once(y))
  BY <1>3, SameQueue
<1>17. Sites'
  <2>1. \A g \in Fibers : InCall(g)' => at'[g] \in StepsOf(op[g])
    <3>1. CASE x \in Fibers /\ op[x] = "close"
      BY <1>2, <1>7, <1>8, <1>15, <3>1 DEF Sites, StepsOf
    <3>2. CASE ~(x \in Fibers /\ op[x] = "close")
      BY <1>2, <1>5, <1>7, <1>8, <1>15, <3>2 DEF Sites, InCall
    <3> QED
      BY <3>1, <3>2
  <2>2. \A c \in Callbacks : at'[c] \in CallbackSteps(c[1])
    BY <1>2, <1>7, <1>8 DEF Sites, CallbackSteps
  <2> QED
    BY <1>2, <1>3, <1>15, <2>1, <2>2 DEF Sites
<1>18. Queue'
  BY <1>1, <1>3, <1>4, <1>5, <1>7, <1>8, <1>16 DEF Safe, Queue, Held
<1>19. Issued'
  <2>1. \A c \in Callbacks : (Live(c)' <=> Live(c)) /\ (at'[c] # "start" => at[c] # "start")
    BY <1>3, <1>4, <1>7, <1>16 DEF Live
  <2>2. \A c \in Callbacks : Alive(c)' => Alive(c)
    BY <1>3, <1>15 DEF Alive
  <2> QED
    BY <1>1, <1>3, <2>1, <2>2 DEF Safe, Issued
<1>20. Sleeps'
  <2>1. \A c \in Callbacks : (Live(c)' <=> Live(c)) /\ (at'[c] = "start" => at[c] = "start")
    BY <1>3, <1>7, <1>8, <1>16 DEF Live
  <2>2. \A g \in Fibers : op[g] = "sleep" => at'[g] = at[g]
    BY <1>15
  <2> QED
    BY <1>1, <1>3, <1>16, <2>1, <2>2 DEF Safe, Sleeps
<1>21. Alone'
  BY <1>1, <1>3, <1>15 DEF Safe, Alone, Disturbs
<1>22. Locking'
  <2> SUFFICES ASSUME NEW y \in Tasks, at'[y] \in {"trigger", "reset", "drop"}
               PROVE  /\ mtx'[fd'[y]] = y
                      /\ at'[y] \in {"trigger", "reset"} => left'[y] \in ToTrigger(y)'
    BY DEF Locking
  <2>1. CASE y = x
    BY <1>3, <1>7, <1>8, <2>1 DEF ToTrigger, EventOf
  <2>2. CASE y # x
    <3>1. at[y] = at'[y] /\ mtx'[fd[y]] = mtx[fd[y]] /\ left'[y] = left[y]
      BY <1>7, <1>9, <2>2
    <3> QED
      BY <1>1, <1>3, <3>1 DEF Safe, Locking, ToTrigger, EventOf
  <2> QED
    BY <2>1, <2>2
<1>23. Registrations'
  <2> SUFFICES ASSUME NEW g \in Fibers PROVE Registers(g)'
    BY DEF Registrations
  <2>1. CASE at[g] \in {"ctl", "set", "drop"}
    <3>1. fd[g] \in Fds /\ EventOf(g) \in Event /\ at'[g] = at[g] /\ Registers(g)
      BY <1>1, <1>2, <1>4, <1>7, <2>1, CallFacts DEF InCall, Safe, Registrations
    <3> QED
      BY <1>3, <1>10, <1>11, <1>15, <2>1, <3>1 DEF Registers
  <2>2. CASE at[g] \notin {"ctl", "set", "drop"}
    BY <1>7, <1>8, <2>2 DEF Registers
  <2> QED
    BY <2>1, <2>2
<1>24. Contexts'
  <2> SUFFICES ASSUME NEW d \in Fds, NEW e \in Event PROVE Context(d, e)'
    BY DEF Contexts
  <2>1. Context(d, e)
    BY <1>1 DEF Safe, Contexts
  <2>2. \A g \in Fibers : Waits(g, d, e) => Waits(g, d, e)'
    BY <1>3, <1>7, <1>4, <1>15, <1>16 DEF Waits
  <2>3. CASE d = k /\ e = v
    BY <1>11, <2>3 DEF Context
  <2>4. CASE ~(d = k /\ e = v)
    BY <1>3, <1>10, <1>11, <2>1, <2>2, <2>4 DEF Context
  <2> QED
    BY <2>3, <2>4
<1>25. Output'
  <2> SUFFICES ASSUME NEW d \in Fds, "WRITE" \in events[d]
               PROVE  \E g \in Fibers : Connects(g, d)'
    BY <1>3 DEF Output
  <2>1. PICK h \in Fibers : Connects(h, d)
    BY <1>1 DEF Safe, Output
  <2> QED
    BY <1>3, <1>15, <1>16, <2>1 DEF Connects
<1>26. Expiring'
  <2> SUFFICES ASSUME NEW c \in Callbacks, c[1] = "timeout" PROVE Expires(c)'
    BY DEF Expiring
  <2>1. Expires(c) /\ (at[c] # "start" /\ Alive(c) => op[c[2]] = "connect")
    BY <1>1 DEF Safe, Expiring, Issued
  <2>2. at[c] # "start" /\ Alive(c) => Alive(c)'
    BY <1>3, <1>15, <2>1 DEF Alive
  <2>3. at'[c] = at[c] \/ at'[c] = "done"
    BY <1>7, <1>8
  <2> QED
    BY <1>3, <2>1, <2>2, <2>3 DEF Expires
<1>27. Awake'
  <2> SUFFICES ASSUME NEW f \in Fibers, op[f] = "connect", sock[fd[f]] = "connecting", Awakened(f)'
               PROVE  Excused(f)'
    BY <1>3 DEF Awake
  <2>1. Excused(f) => Excused(f)'
    BY <1>3 DEF Excused, Touches
  <2>2. Awakened(f)
    BY <1>15, <1>16 DEF Awakened
  <2> QED
    BY <1>1, <2>1, <2>2 DEF Awake
<1>28. Loops' /\ Attended'
  BY <1>3, BodyLoops
<1> QED
  BY <1>1, <1>13, <1>14, <1>17, <1>18, <1>19, <1>20, <1>21, <1>22, <1>23, <1>24, <1>25, <1>26,
     <1>27, <1>28 DEF HookInv, Safe

\* cancalAll() passes over an event that is not registered.
LEMMA TriggerSkipStep ==
    ASSUME HookInv, fault = "none", NEW t \in Threads, NEW x \in Tasks, task[t] = x,
           NEW k, k = fd[x], NEW v, v = Head(left[x]), NEW es, NEW to,
           Canceller(x, es, to), to = "close", TriggerSkip(x, to), Touches
    PROVE  HookInv'
<1> USE TaskFacts, IOAssumption
<1>1. ~Duplex /\ TypeOK /\ Safe /\ PendingExact /\ Awake
  BY DEF HookInv
<1>2. TypeOK /\ Sites
  BY <1>1 DEF Safe
<1>3. UNCHANGED <<m_stopping, pc, task, ended, past, cbs, m_tasks, m_timers, events, epoll, fd,
                  seen, call, op, cancelled, sock, ctx, sched, m_pendingEventCount>>
  BY DEF TriggerSkip, threadVars, Touches
<1>4. at[x] = "trigger"
  BY DEF TriggerSkip
<1>5. /\ k \in Fds /\ v \in Event /\ mtx[k] = x /\ Len(left[x]) \in {1, 2}
      /\ x \in Fibers => InCall(x) /\ op[x] \in Cancels \cup {"close"}
      /\ Len(left[x]) = 2 => x \in Fibers /\ op[x] = "close" /\ Tail(left[x]) = <<"WRITE">>
      /\ Tail(left[x]) \in Seq(Event)
  <2>1. at[x] \in {"trigger", "reset"}
    BY <1>4
  <2>2. k \in Fds /\ (x \in Fibers => InCall(x) /\ op[x] \in Cancels \cup {"close"})
    BY <1>1, <1>2, <2>1, CancelFacts, CallFacts
  <2> QED
    BY <1>1, <2>1, <2>2, TriggerFacts DEF Safe, Locking
<1>6. /\ at' = [at EXCEPT ![x] = IF Len(left[x]) = 1 THEN to ELSE "trigger"]
      /\ left' = [left EXCEPT ![x] = Tail(left[x])]
      /\ mtx' = [mtx EXCEPT ![k] = IF Len(left[x]) = 1 THEN Null ELSE mtx[k]]
      /\ fault' \in {"none", "events_left"}
  BY DEF TriggerSkip, Proceed
<1>7. /\ at'[x] = (IF Len(left[x]) = 1 THEN to ELSE "trigger")
      /\ \A y \in Tasks \ {x} : at'[y] = at[y] /\ left'[y] = left[y]
      /\ left'[x] = Tail(left[x]) /\ (at'[x] = "trigger" => mtx'[k] = x)
      /\ \A d \in Fds \ {k} : mtx'[d] = mtx[d]
  <2>1. to # "trigger"
    BY DEF Canceller
  <2> QED
    BY <1>1, <1>5, <1>6, <2>1 DEF TypeOK
<1>8. /\ x \in Callbacks => at'[x] = "done"
      /\ x \in Fibers /\ op[x] \in Cancels => at'[x] = "start"
      /\ x \in Fibers /\ op[x] = "close" => at'[x] \in {"trigger", "close"}
      /\ at'[x] = "trigger" => x \in Fibers /\ op[x] = "close" /\ left'[x] = <<"WRITE">>
      /\ at'[x] \in {"start", "trigger", "close", "done"}
  BY <1>5, <1>7 DEF Canceller
<1>9. \A y \in Tasks \ {x} : at[y] \in {"trigger", "reset", "drop"} => fd[y] # k /\ fd[y] \in Fds
  BY <1>1, <1>4, CancelFacts
<1>10. \A d, e : Resetting(d, e)' <=> Resetting(d, e)
  BY <1>3, <1>4, <1>7, <1>8, SameResetting
<1>11. ctx' \in [Fds -> [Event -> Tasks \cup {Null}]]
  BY <1>1, <1>3 DEF TypeOK
<1>13. PendingExact' /\ m_pendingEventCount' \in Nat
  BY <1>1, <1>3, <1>4, <1>7, <1>8, SamePending DEF TypeOK
<1>14. TypeOK'
  <2>1. left' \in [Tasks -> Seq(Event)] /\ mtx' \in [Fds -> Tasks \cup {Null}]
    BY <1>1, <1>5, <1>6 DEF TypeOK
  <2>2. \E b \in {"start", "trigger", "close", "done"} : at' = [at EXCEPT ![x] = b]
    BY <1>6, <1>7, <1>8
  <2>3. at' \in [Tasks -> Place]
    BY <1>1, <2>2 DEF TypeOK
  <2>4. fault' \in Faults
    BY <1>6 DEF Faults
  <2> QED
    BY <1>1, <1>3, <1>11, <1>13, <2>1, <2>3, <2>4 DEF TypeOK, Touches
<1>15. \A g \in Fibers :
          /\ EventOf(g)' = EventOf(g) /\ (InCall(g)' => InCall(g))
          /\ (op[g] \notin Cancels /\ InCall(g) => InCall(g)')
          /\ (op[g] \notin Cancels \cup {"close"} => at'[g] = at[g])
  BY <1>3, <1>5, <1>7, <1>8 DEF InCall, EventOf
<1>16. \A y : (Queued(y)' <=> Queued(y)) /\ (Once(y)' <=> Once(y))
  BY <1>3, SameQueue
<1>17. Sites'
  <2>1. \A g \in Fibers : InCall(g)' => at'[g] \in StepsOf(op[g])
    <3>1. CASE x \in Fibers /\ op[x] = "close"
      BY <1>2, <1>7, <1>8, <1>15, <3>1 DEF Sites, StepsOf
    <3>2. CASE ~(x \in Fibers /\ op[x] = "close")
      BY <1>2, <1>5, <1>7, <1>8, <1>15, <3>2 DEF Sites, InCall
    <3> QED
      BY <3>1, <3>2
  <2>2. \A c \in Callbacks : at'[c] \in CallbackSteps(c[1])
    BY <1>2, <1>7, <1>8 DEF Sites, CallbackSteps
  <2> QED
    BY <1>2, <1>3, <1>15, <2>1, <2>2 DEF Sites
<1>18. Queue'
  BY <1>1, <1>3, <1>4, <1>5, <1>7, <1>8, <1>16 DEF Safe, Queue, Held
<1>19. Issued'
  <2>1. \A c \in Callbacks : (Live(c)' <=> Live(c)) /\ (at'[c] # "start" => at[c] # "start")
    BY <1>3, <1>4, <1>7, <1>16 DEF Live
  <2>2. \A c \in Callbacks : Alive(c)' => Alive(c)
    BY <1>3, <1>15 DEF Alive
  <2> QED
    BY <1>1, <1>3, <2>1, <2>2 DEF Safe, Issued
<1>20. Sleeps'
  <2>1. \A c \in Callbacks : (Live(c)' <=> Live(c)) /\ (at'[c] = "start" => at[c] = "start")
    BY <1>3, <1>7, <1>8, <1>16 DEF Live
  <2>2. \A g \in Fibers : op[g] = "sleep" => at'[g] = at[g]
    BY <1>15
  <2> QED
    BY <1>1, <1>3, <1>16, <2>1, <2>2 DEF Safe, Sleeps
<1>21. Alone'
  BY <1>1, <1>3, <1>15 DEF Safe, Alone, Disturbs
<1>22. Locking'
  <2> SUFFICES ASSUME NEW y \in Tasks, at'[y] \in {"trigger", "reset", "drop"}
               PROVE  /\ mtx'[fd'[y]] = y
                      /\ at'[y] \in {"trigger", "reset"} => left'[y] \in ToTrigger(y)'
    BY DEF Locking
  <2>1. CASE y = x
    BY <1>3, <1>7, <1>8, <2>1 DEF ToTrigger, EventOf
  <2>2. CASE y # x
    <3>1. at[y] = at'[y] /\ mtx'[fd[y]] = mtx[fd[y]] /\ left'[y] = left[y]
      BY <1>7, <1>9, <2>2
    <3> QED
      BY <1>1, <1>3, <3>1 DEF Safe, Locking, ToTrigger, EventOf
  <2> QED
    BY <2>1, <2>2
<1>23. Registrations'
  <2> SUFFICES ASSUME NEW g \in Fibers PROVE Registers(g)'
    BY DEF Registrations
  <2>1. CASE at[g] \in {"ctl", "set", "drop"}
    <3>1. fd[g] \in Fds /\ EventOf(g) \in Event /\ at'[g] = at[g] /\ Registers(g)
      BY <1>1, <1>2, <1>4, <1>7, <2>1, CallFacts DEF InCall, Safe, Registrations
    <3> QED
      BY <1>3, <1>10, <1>15, <2>1, <3>1 DEF Registers
  <2>2. CASE at[g] \notin {"ctl", "set", "drop"}
    BY <1>7, <1>8, <2>2 DEF Registers
  <2> QED
    BY <2>1, <2>2
<1>24. Contexts'
  <2> SUFFICES ASSUME NEW d \in Fds, NEW e \in Event PROVE Context(d, e)'
    BY DEF Contexts
  <2>1. Context(d, e)
    BY <1>1 DEF Safe, Contexts
  <2>2. \A g \in Fibers : Waits(g, d, e) => Waits(g, d, e)'
    BY <1>3, <1>7, <1>4, <1>15, <1>16 DEF Waits
  <2> QED
    BY <1>3, <1>10, <2>1, <2>2 DEF Context
<1>25. Output'
  <2> SUFFICES ASSUME NEW d \in Fds, "WRITE" \in events[d]
               PROVE  \E g \in Fibers : Connects(g, d)'
    BY <1>3 DEF Output
  <2>1. PICK h \in Fibers : Connects(h, d)
    BY <1>1 DEF Safe, Output
  <2> QED
    BY <1>3, <1>15, <1>16, <2>1 DEF Connects
<1>26. Expiring'
  <2> SUFFICES ASSUME NEW c \in Callbacks, c[1] = "timeout" PROVE Expires(c)'
    BY DEF Expiring
  <2>1. Expires(c) /\ (at[c] # "start" /\ Alive(c) => op[c[2]] = "connect")
    BY <1>1 DEF Safe, Expiring, Issued
  <2>2. at[c] # "start" /\ Alive(c) => Alive(c)'
    BY <1>3, <1>15, <2>1 DEF Alive
  <2>3. at'[c] = at[c] \/ at'[c] = "done"
    BY <1>7, <1>8
  <2> QED
    BY <1>3, <2>1, <2>2, <2>3 DEF Expires
<1>27. Awake'
  <2> SUFFICES ASSUME NEW f \in Fibers, op[f] = "connect", sock[fd[f]] = "connecting", Awakened(f)'
               PROVE  Excused(f)'
    BY <1>3 DEF Awake
  <2>1. Excused(f) => Excused(f)'
    BY <1>3 DEF Excused, Touches
  <2>2. Awakened(f)
    BY <1>15, <1>16 DEF Awakened
  <2> QED
    BY <1>1, <2>1, <2>2 DEF Awake
<1>28. Loops' /\ Attended'
  BY <1>3, BodyLoops
<1> QED
  BY <1>1, <1>13, <1>14, <1>17, <1>18, <1>19, <1>20, <1>21, <1>22, <1>23, <1>24, <1>25, <1>26,
     <1>27, <1>28 DEF HookInv, Safe

\* Two assertions of a cancellation that fail.
LEMMA CancelFault ==
    ASSUME HookInv, fault = "none", fault' # "none", NEW t \in Threads, NEW x \in Tasks,
           task[t] = x, NEW to, Trigger(x) \/ (to # "close" /\ TriggerSkip(x, to)),
           Touches
    PROVE  HookInv'
<1> USE TaskFacts
<1>1. TypeOK /\ Safe /\ Awake
  BY DEF HookInv
<1>2. /\ UNCHANGED <<m_stopping, pc, task, ended, past, cbs, m_tasks, m_timers, fd, seen, left,
                    m_pendingEventCount, ctx, sched, mtx, epoll, call, op, cancelled, sock>>
      /\ fault' \in Faults /\ at[x] = "trigger"
  BY DEF Trigger, TriggerSkip, Move, threadVars, Touches, Faults
<1>3. /\ at' \in {at, [at EXCEPT ![x] = "reset"]}
      /\ events' \in {events, [events EXCEPT ![fd[x]] = events[fd[x]] \ {Head(left[x])}]}
  BY DEF Trigger, TriggerSkip, Move
<1>4. TypeOK'
  <2>1. events' \in [Fds -> SUBSET Event]
    <3>1. [events EXCEPT ![fd[x]] = events[fd[x]] \ {Head(left[x])}] \in [Fds -> SUBSET Event]
      BY <1>1 DEF TypeOK
    <3> QED
      BY <1>1, <1>3, <3>1 DEF TypeOK
  <2>2. at' \in [Tasks -> Place]
    BY <1>1, <1>3 DEF TypeOK
  <2> QED
    BY <1>1, <1>2, <2>1, <2>2 DEF TypeOK, Touches
<1>5. Awake'
  <2>1. \A y \in Tasks : (at'[y] = at[y] \/ (y = x /\ at'[y] = "reset"))
    BY <1>1, <1>3 DEF TypeOK
  <2>2. \A f \in Fibers : (Awakened(f)' => Awakened(f)) /\ (InCall(f) => InCall(f)')
    BY <1>2, <2>1, SameQueue DEF Awakened, InCall
  <2>3. \A f \in Fibers : Excused(f) => Excused(f)'
    BY <1>2 DEF Excused, Touches
  <2> QED
    BY <1>1, <1>2, <2>2, <2>3 DEF Awake
<1> QED
  BY <1>2, <1>4, <1>5, FaultStep

\* The callback of a sleep() schedules the fiber; that of an event just ends.
LEMMA WakeCbStep ==
    ASSUME HookInv, fault = "none", NEW t \in Threads, NEW c \in Callbacks, task[t] = c,
           c[1] # "timeout", WakeCb(c)
    PROVE  HookInv'
<1> USE TaskFacts, IOAssumption
<1>1. ~Duplex /\ TypeOK /\ Safe /\ PendingExact /\ Awake /\ Loops /\ Attended
  BY DEF HookInv
<1>2. TypeOK /\ Sites
  BY <1>1 DEF Safe
<1>3. UNCHANGED <<m_stopping, pc, task, ended, past, cbs, m_timers, m_pendingEventCount, events,
                  ctx, sched, mtx, epoll, fd, seen, left, fault, call, op, cancelled, sock,
                  early, roused>>
  BY DEF WakeCb, threadVars, fdVars, hookVars
<1>4. at[c] = "start" /\ at'[c] = "done" /\ \A y \in Tasks \ {c} : at'[y] = at[y]
  BY <1>1 DEF WakeCb, Move, TypeOK
<1>5. c[1] = "wake" =>
         /\ op[c[2]] = "sleep" /\ call[c[2]] = c[3]
         /\ at[c[2]] \in {"yield", "away"} /\ ~Queued(c[2])
  BY <1>1, <1>4 DEF Safe, Sleeps, Live
<1>6. /\ m_tasks' \in Seq(Tasks)
      /\ \A y : Queued(y)' <=> Queued(y) \/ (c[1] = "wake" /\ y = c[2])
      /\ \A y : Once(y) => Once(y)'
  <2>1. CASE c[1] = "wake"
    <3>1. Schedule(c[2])
      BY <2>1 DEF WakeCb
    <3>2. /\ m_tasks' \in Seq(Tasks)
          /\ \A y : Queued(y)' <=> Queued(y) \/ y = c[2]
          /\ \A y : Once(y) /\ (y = c[2] => ~Queued(y)) => Once(y)'
      BY <1>1, <3>1, ScheduleFacts DEF TypeOK
    <3> QED
      BY <1>5, <2>1, <3>2
  <2>2. CASE c[1] # "wake"
    <3>1. UNCHANGED m_tasks
      BY <2>2 DEF WakeCb
    <3> QED
      BY <1>1, <2>2, <3>1, SameQueue DEF TypeOK
  <2> QED
    BY <2>1, <2>2
<1>7. \A f \in Fibers :
         /\ at'[f] = at[f] /\ EventOf(f)' = EventOf(f) /\ (InCall(f)' <=> InCall(f))
         /\ (op[f] # "sleep" => (Queued(f)' <=> Queued(f)))
  BY <1>3, <1>4, <1>5, <1>6 DEF InCall, EventOf
<1>8. \A b \in Callbacks :
         /\ (Live(b)' <=> Live(b)) /\ (at'[b] = at[b] \/ b = c) /\ (Alive(b)' <=> Alive(b))
  BY <1>3, <1>4, <1>6, <1>7 DEF Live, Alive
<1>9. \A d, e : Resetting(d, e)' <=> Resetting(d, e)
  BY <1>3, <1>4, SameResetting
<1>10. TypeOK'
  <2>1. at' = [at EXCEPT ![c] = "done"]
    BY DEF WakeCb, Move
  <2> QED
    BY <1>1, <1>3, <1>6, <2>1 DEF TypeOK
<1>11. PendingExact'
  BY <1>1, <1>3, <1>4, SamePending
<1>12. Sites'
  <2>1. at'[c] \in CallbackSteps(c[1])
    BY <1>4 DEF CallbackSteps
  <2> QED
    BY <1>2, <1>3, <1>7, <1>8, <2>1 DEF Sites
<1>13. Queue'
  BY <1>1, <1>3, <1>5, <1>6, <1>7 DEF Safe, Queue, Held
<1>14. Issued'
  BY <1>1, <1>3, <1>8 DEF Safe, Issued
<1>15. Sleeps'
  <2> SUFFICES ASSUME NEW b \in Callbacks, b[1] = "wake", Live(b)', at'[b] = "start"
               PROVE  /\ op'[b[2]] = "sleep" /\ call'[b[2]] = b[3]
                      /\ at'[b[2]] \in {"yield", "away"} /\ ~Queued(b[2])'
    BY DEF Sleeps
  <2>1. b # c /\ op[b[2]] = "sleep" /\ call[b[2]] = b[3]
        /\ at[b[2]] \in {"yield", "away"} /\ ~Queued(b[2])
    BY <1>1, <1>4, <1>8 DEF Safe, Sleeps
  <2>2. ~(c[1] = "wake" /\ c[2] = b[2])
    <3>1. b = <<b[1], b[2], b[3]>> /\ c = <<c[1], c[2], c[3]>>
      OBVIOUS
    <3> QED
      BY <1>5, <2>1, <3>1
  <2> QED
    BY <1>3, <1>6, <1>7, <2>1, <2>2
<1>16. Alone'
  BY <1>1, <1>3, <1>7 DEF Safe, Alone, Disturbs
<1>17. Locking'
  BY <1>1, <1>3, <1>4 DEF Safe, Locking, ToTrigger, EventOf
<1>18. Registrations'
  BY <1>1, <1>3, <1>7, <1>9 DEF Safe, Registrations, Registers
<1>19. Contexts'
  <2>1. \A d \in Fds, e \in Event, g \in Fibers : Waits(g, d, e) => Waits(g, d, e)'
    BY <1>3, <1>7 DEF Waits
  <2> QED
    BY <1>1, <1>3, <1>9, <2>1 DEF Safe, Contexts, Context
<1>20. Output'
  <2>1. \A d \in Fds, g \in Fibers : Connects(g, d) => Connects(g, d)'
    BY <1>3, <1>7 DEF Connects
  <2> QED
    BY <1>1, <1>3, <2>1 DEF Safe, Output
<1>21. Expiring'
  BY <1>1, <1>3, <1>8 DEF Safe, Expiring, Expires
<1>22. Awake'
  <2>1. \A f \in Fibers : Excused(f) => Excused(f)'
    BY <1>3, <1>7 DEF Excused
  <2>2. \A f \in Fibers : op[f] = "connect" /\ Awakened(f)' => Awakened(f)
    BY <1>7 DEF Awakened
  <2> QED
    BY <1>1, <1>3, <2>1, <2>2 DEF Awake
<1>23. Loops' /\ Attended'
  BY <1>3, BodyLoops
<1> QED
  BY <1>1, <1>10, <1>11, <1>12, <1>13, <1>14, <1>15, <1>16, <1>17, <1>18, <1>19, <1>20, <1>21,
     <1>22, <1>23 DEF HookInv, Safe

-----------------------------------------------------------------------------
\* A thread that runs its loop: stop() has not returned.
LEMMA NotJoined ==
    ASSUME HookInv, NEW t \in Threads, pc[t] \notin {"user", "exited", "joined"}
    PROVE  t \in Serving /\ pc[Caller] # "joined"
BY IOAssumption DEF HookInv, Loops, Workers, IOAssumption

\* The scan takes a task.
LEMMA PickTaskStep ==
    ASSUME HookInv, fault = "none", NEW t \in Threads, PickTask(t), UNCHANGED hookVars
    PROVE  HookInv'
<1> USE TaskFacts, IOAssumption
<1>1. ~Duplex /\ TypeOK /\ Safe /\ PendingExact /\ Awake /\ Loops /\ Attended
  BY DEF HookInv
<1>2. TypeOK /\ Sites
  BY <1>1 DEF Safe
<1>3. PICK i \in DOMAIN m_tasks :
         /\ Eligible(i) /\ pc[t] = "scan" /\ pc' = [pc EXCEPT ![t] = "body"]
         /\ task' = [task EXCEPT ![t] = m_tasks[i]] /\ m_tasks' = RemoveAt(m_tasks, i)
         /\ at' = [at EXCEPT ![m_tasks[i]] = IF at[m_tasks[i]] = "away" THEN "woken"
                                             ELSE at[m_tasks[i]]]
         /\ past' = past \cup (IF t \in ended THEN {"late"} ELSE {})
  BY DEF PickTask, Goto
<1>4. UNCHANGED <<m_stopping, ended, cbs, m_timers, m_pendingEventCount, events, ctx, sched,
                  mtx, epoll, fd, seen, left, fault, call, op, cancelled, sock, early, roused>>
  BY DEF PickTask, fdVars, hookVars
<1> PICK y : y = m_tasks[i]
  OBVIOUS
<1>5. /\ m_tasks' \in Seq(Tasks) /\ y \in Tasks /\ Queued(y) /\ y \notin Held
      /\ \A z : z # y => (Queued(z)' <=> Queued(z))
      /\ \A z : Queued(z)' => Queued(z)
      /\ Once(y) => ~Queued(y)'
      /\ \A z : Once(z) => Once(z)'
  <2>1. y \notin Held /\ m_tasks \in Seq(Tasks) /\ m_tasks' = RemoveAt(m_tasks, i)
    BY <1>1, <1>3 DEF TypeOK, Eligible
  <2> QED
    BY <2>1, TakeFacts
<1>6. /\ \A z \in Tasks \ {y} : at'[z] = at[z]
      /\ at'[y] = (IF at[y] = "away" THEN "woken" ELSE at[y])
      /\ pc'[t] = "body" /\ task'[t] = y /\ task[t] = Null
      /\ \A s \in Threads \ {t} : pc'[s] = pc[s] /\ task'[s] = task[s]
      /\ "overtaken" \in past' <=> "overtaken" \in past
  <2>1. task[t] = Null
    BY <1>1, <1>3 DEF Loops
  <2> QED
    BY <1>1, <1>3, <1>5, <2>1 DEF TypeOK
<1>7. \A f \in Fibers :
         /\ (at'[f] = at[f] \/ (f = y /\ at[f] = "away" /\ at'[f] = "woken"))
         /\ EventOf(f)' = EventOf(f) /\ (InCall(f)' <=> InCall(f))
         /\ (f = y => at[f] \in {"start", "yield", "away"} /\ ~Queued(f)')
  <2>1. \A f \in Fibers : f = y => at[f] \in {"start", "yield", "away"} /\ ~Queued(f)'
    BY <1>1, <1>5 DEF Safe, Queue
  <2>2. \A f \in Fibers : at'[f] = at[f] \/ (f = y /\ at[f] = "away" /\ at'[f] = "woken")
    BY <1>5, <1>6
  <2> QED
    BY <1>4, <2>1, <2>2 DEF InCall, EventOf
<1>8. \A c \in Callbacks : at'[c] = at[c] /\ (Live(c)' => Live(c)) /\ (Alive(c)' <=> Alive(c))
  <2>1. \A c \in Callbacks : at[c] # "away"
    BY <1>2, CallFacts
  <2> QED
    BY <1>4, <1>5, <1>6, <1>7, <2>1 DEF Live, Alive
<1>9. \A d, e : Resetting(d, e)' <=> Resetting(d, e)
  BY <1>4, <1>6, SameResetting
<1>10. TypeOK'
  <2>1. at' \in [Tasks -> Place]
    <3>1. \E b : b \in {at[y], "woken"} /\ at' = [at EXCEPT ![y] = b]
      BY <1>3
    <3> QED
      BY <1>1, <1>5, <3>1 DEF TypeOK
  <2>2. task' \in [Threads -> Tasks \cup {Null}] /\ past' \subseteq Rare
    BY <1>1, <1>3, <1>5 DEF TypeOK, Rare
  <2> QED
    BY <1>1, <1>3, <1>4, <1>5, <2>1, <2>2 DEF TypeOK
<1>11. PendingExact'
  BY <1>1, <1>4, <1>6, SamePending
<1>12. Sites'
  <2>1. \A f \in Fibers : InCall(f) => at'[f] \in StepsOf(op[f])
    BY <1>2, <1>7 DEF Sites, StepsOf
  <2> QED
    BY <1>2, <1>4, <1>7, <1>8, <2>1 DEF Sites
<1>13. Queue'
  <2>1. Held' \subseteq Held \cup {y}
    BY <1>6 DEF Held
  <2> QED
    BY <1>1, <1>5, <1>6, <1>7, <2>1 DEF Safe, Queue
<1>14. Issued'
  BY <1>1, <1>4, <1>8 DEF Safe, Issued
<1>15. Sleeps'
  BY <1>1, <1>4, <1>5, <1>6, <1>8 DEF Safe, Sleeps
<1>16. Alone'
  BY <1>1, <1>4, <1>7 DEF Safe, Alone, Disturbs
<1>17. Locking'
  BY <1>1, <1>4, <1>6 DEF Safe, Locking, ToTrigger, EventOf
<1>18. Registrations'
  BY <1>1, <1>4, <1>7, <1>9 DEF Safe, Registrations, Registers
<1>19. Contexts'
  <2>1. \A d \in Fds, e \in Event, g \in Fibers : Waits(g, d, e) => Waits(g, d, e)'
    BY <1>4, <1>5, <1>6, <1>7 DEF Waits
  <2> QED
    BY <1>1, <1>4, <1>9, <2>1 DEF Safe, Contexts, Context
<1>20. Output'
  <2>1. \A d \in Fds, g \in Fibers : Connects(g, d) => Connects(g, d)'
    BY <1>4, <1>5, <1>6, <1>7 DEF Connects
  <2> QED
    BY <1>1, <1>4, <2>1 DEF Safe, Output
<1>21. Expiring'
  BY <1>1, <1>4, <1>6, <1>8 DEF Safe, Expiring, Expires
<1>22. Awake'
  <2>1. \A f \in Fibers : Excused(f) => Excused(f)'
    BY <1>4, <1>6, <1>7 DEF Excused
  <2>2. \A f \in Fibers : Awakened(f)' => Awakened(f)
    BY <1>5, <1>7 DEF Awakened
  <2> QED
    BY <1>1, <1>4, <2>1, <2>2 DEF Awake
<1>23. t \in Serving /\ pc[Caller] # "joined"
  BY <1>3, NotJoined
<1>24. Loops'
  BY <1>1, <1>3, <1>4, <1>5, <1>6, <1>23 DEF Loops
<1>25. Attended'
  <2>1. "late" \notin past' => t \notin ended
    BY <1>3
  <2> QED
    BY <1>4, <1>6, <1>23, <2>1 DEF Attended
<1> QED
  BY <1>1, <1>10, <1>11, <1>12, <1>13, <1>14, <1>15, <1>16, <1>17, <1>18, <1>19, <1>20, <1>21,
     <1>22, <1>24, <1>25 DEF HookInv, Safe

\* resume() returns: the task has yielded or ended.
LEMMA LeaveTaskStep ==
    ASSUME HookInv, fault = "none", NEW t \in Threads, LeaveTask(t), UNCHANGED hookVars
    PROVE  HookInv'
<1> USE TaskFacts, IOAssumption
<1>1. ~Duplex /\ TypeOK /\ Safe /\ PendingExact /\ Awake /\ Loops /\ Attended
  BY DEF HookInv
<1>2. TypeOK /\ Sites
  BY <1>1 DEF Safe
<1> DEFINE y == task[t]
<1>3. /\ at[y] \in {"yield", "done"} /\ pc[t] = "body" /\ pc' = [pc EXCEPT ![t] = "scan"]
      /\ task' = [task EXCEPT ![t] = Null]
      /\ at' = [at EXCEPT ![y] = IF at[y] = "yield" THEN "away" ELSE at[y]]
  BY DEF LeaveTask, Goto
<1>4. UNCHANGED <<m_tasks, m_stopping, ended, past, cbs, m_timers, m_pendingEventCount, events,
                  ctx, sched, mtx, epoll, fd, seen, left, fault, call, op, cancelled, sock,
                  early, roused>>
  BY DEF LeaveTask, fdVars, hookVars
<1>5. y \in Tasks
  BY <1>1, <1>3 DEF TypeOK, Loops
<1> HIDE DEF y
<1>6. /\ \A z \in Tasks : at'[z] = at[z] \/ (z = y /\ at[z] = "yield" /\ at'[z] = "away")
      /\ pc'[t] = "scan" /\ task'[t] = Null
      /\ \A s \in Threads \ {t} : pc'[s] = pc[s] /\ task'[s] = task[s]
  BY <1>1, <1>3, <1>5 DEF TypeOK
<1>7. \A f \in Fibers :
         /\ (at'[f] = at[f] \/ (at[f] = "yield" /\ at'[f] = "away"))
         /\ EventOf(f)' = EventOf(f) /\ (InCall(f)' <=> InCall(f))
  BY <1>4, <1>6 DEF InCall, EventOf
<1>8. \A z : (Queued(z)' <=> Queued(z)) /\ (Once(z)' <=> Once(z))
  BY <1>4, SameQueue
<1>9. \A c \in Callbacks : at'[c] = at[c] /\ (Live(c)' => Live(c)) /\ (Alive(c)' <=> Alive(c))
  <2>1. \A c \in Callbacks : at[c] # "yield"
    BY <1>2, CallFacts
  <2> QED
    BY <1>4, <1>6, <1>7, <1>8, <2>1 DEF Live, Alive
<1>10. \A d, e : Resetting(d, e)' <=> Resetting(d, e)
  BY <1>4, <1>6, SameResetting
<1>11. TypeOK'
  <2>1. at' \in [Tasks -> Place]
    <3>1. \E b : b \in {at[y], "away"} /\ at' = [at EXCEPT ![y] = b]
      BY <1>3
    <3> QED
      BY <1>1, <1>5, <3>1 DEF TypeOK
  <2> QED
    BY <1>1, <1>3, <1>4, <2>1 DEF TypeOK
<1>12. PendingExact'
  BY <1>1, <1>4, <1>6, SamePending
<1>13. Sites'
  <2>1. \A f \in Fibers : InCall(f) => at'[f] \in StepsOf(op[f])
    BY <1>2, <1>7 DEF Sites, StepsOf
  <2> QED
    BY <1>2, <1>4, <1>7, <1>9, <2>1 DEF Sites
<1>14. Queue'
  <2>1. Held' \subseteq Held
    BY <1>6 DEF Held
  <2> QED
    BY <1>1, <1>7, <1>8, <2>1 DEF Safe, Queue
<1>15. Issued'
  BY <1>1, <1>4, <1>9 DEF Safe, Issued
<1>16. Sleeps'
  BY <1>1, <1>4, <1>7, <1>8, <1>9 DEF Safe, Sleeps
<1>17. Alone'
  BY <1>1, <1>4, <1>7 DEF Safe, Alone, Disturbs
<1>18. Locking'
  BY <1>1, <1>4, <1>6 DEF Safe, Locking, ToTrigger, EventOf
<1>19. Registrations'
  BY <1>1, <1>4, <1>7, <1>10 DEF Safe, Registrations, Registers
<1>20. Contexts'
  <2>1. \A d \in Fds, e \in Event, g \in Fibers : Waits(g, d, e) => Waits(g, d, e)'
    BY <1>4, <1>7, <1>8 DEF Waits
  <2> QED
    BY <1>1, <1>4, <1>10, <2>1 DEF Safe, Contexts, Context
<1>21. Output'
  <2>1. \A d \in Fds, g \in Fibers : Connects(g, d) => Connects(g, d)'
    BY <1>4, <1>7, <1>8 DEF Connects
  <2> QED
    BY <1>1, <1>4, <2>1 DEF Safe, Output
<1>22. Expiring'
  BY <1>1, <1>4, <1>9 DEF Safe, Expiring, Expires
<1>23. Awake'
  <2>1. \A f \in Fibers : Excused(f) => Excused(f)'
    BY <1>4, <1>7 DEF Excused
  <2>2. \A f \in Fibers : Awakened(f)' => Awakened(f)
    BY <1>7, <1>8 DEF Awakened
  <2> QED
    BY <1>1, <1>4, <2>1, <2>2 DEF Awake
<1>24. t \in Serving /\ pc[Caller] # "joined"
  BY <1>3, NotJoined
<1>25. Loops'
  BY <1>1, <1>3, <1>4, <1>6, <1>24 DEF Loops
<1>26. Attended'
  <2>1. "late" \notin past' => t \notin ended
    BY <1>1, <1>3, <1>4 DEF Loops
  <2> QED
    BY <1>4, <1>6, <1>24, <2>1 DEF Attended
<1> QED
  BY <1>1, <1>11, <1>12, <1>13, <1>14, <1>15, <1>16, <1>17, <1>18, <1>19, <1>20, <1>21, <1>22,
     <1>23, <1>25, <1>26 DEF HookInv, Safe

\* A step of a thread or of the owner that no task sees, and no task takes part in.
LEMMA SafeSame ==
    ASSUME HookInv, fault = "none", fault' = "none",
           UNCHANGED <<task, past, events, ctx, sched, mtx, m_pendingEventCount, at, fd, seen,
                       left, call, op, cancelled, roused>>,
           \A c \in Callbacks : Live(c)' => Live(c),
           \A f \in Fibers : (Queued(f)' <=> Queued(f)) /\ (Once(f) => Once(f)')
    PROVE  Safe' /\ PendingExact'
<1> USE TaskFacts
<1>1. TypeOK /\ Safe /\ PendingExact
  BY DEF HookInv
<1>3. \A d, e : Resetting(d, e)' <=> Resetting(d, e)
  BY SameResetting
<1>4. \A f \in Fibers : (InCall(f)' <=> InCall(f)) /\ EventOf(f)' = EventOf(f)
  BY DEF InCall, EventOf
<1>5. \A c \in Callbacks : Alive(c)' <=> Alive(c)
  BY <1>4 DEF Alive
<1>6. PendingExact'
  BY <1>1, SamePending
<1>7. Sites' /\ Queue'
  BY <1>1, <1>4 DEF Safe, Sites, Queue, Held
<1>8. Issued' /\ Sleeps' /\ Expiring'
  BY <1>1, <1>5 DEF Safe, Issued, Sleeps, Expiring, Expires
<1>9. Alone' /\ Locking' /\ Registrations'
  BY <1>1, <1>3, <1>4 DEF Safe, Alone, Disturbs, Locking, ToTrigger, EventOf, Registrations,
     Registers
<1>10. Contexts'
  <2>1. \A d \in Fds, e \in Event, g \in Fibers : Waits(g, d, e) => Waits(g, d, e)'
    BY <1>4 DEF Waits
  <2> QED
    BY <1>1, <1>3, <2>1 DEF Safe, Contexts, Context
<1>11. Output'
  <2>1. \A d \in Fds, g \in Fibers : Connects(g, d) => Connects(g, d)'
    BY DEF Connects
  <2> QED
    BY <1>1, <2>1 DEF Safe, Output
<1> QED
  BY <1>6, <1>7, <1>8, <1>9, <1>10, <1>11 DEF Safe

\* Nor does it wake anyone.
LEMMA AwakeSame ==
    ASSUME HookInv, fault = "none", UNCHANGED <<past, at, fd, call, op, cancelled, roused>>,
           \A f \in Fibers : Queued(f)' <=> Queued(f),
           \A d \in Fds : sock'[d] = "connecting" => sock[d] = "connecting"
    PROVE  Awake'
<1>2. \A f \in Fibers : (InCall(f)' <=> InCall(f)) /\ (Awakened(f)' <=> Awakened(f))
  BY DEF InCall, Awakened
<1>3. \A f \in Fibers : Excused(f) => Excused(f)'
  BY <1>2 DEF Excused
<1>4. \A f \in Fibers : op[f] = "connect" /\ Awakened(f) => fd[f] \in Fds
  BY CallFacts DEF HookInv, Safe, Awakened, InCall
<1> QED
  BY <1>2, <1>3, <1>4 DEF HookInv, Awake

\* run() turns to the idle fiber, or returns.
LEMMA EnterIdleStep ==
    ASSUME HookInv, fault = "none", NEW t \in Threads, EnterIdle(t) \/ Exit(t),
           UNCHANGED hookVars
    PROVE  HookInv'
<1>1. TypeOK /\ Loops /\ Attended /\ ~Duplex
  BY DEF HookInv
<1>2. /\ UNCHANGED <<m_tasks, m_stopping, task, ended, past, m_timers, cbs, m_pendingEventCount,
                     events, ctx, sched, mtx, epoll, at, fd, seen, left, fault, call, op,
                     cancelled, sock, early, roused>>
      /\ pc[t] = "scan"
  BY DEF EnterIdle, Exit, Goto, fdVars, codeVars, hookVars
<1>3. \/ t \notin ended /\ pc' = [pc EXCEPT ![t] = "timers"]
      \/ t \in ended /\ pc' = [pc EXCEPT ![t] = "exited"]
  BY DEF EnterIdle, Exit, Goto
<1>4. TypeOK'
  BY <1>1, <1>2, <1>3 DEF TypeOK
<1>5. \A c \in Callbacks : Live(c)' => Live(c)
  BY <1>2, SameQueue DEF Live
<1>6. Safe' /\ PendingExact' /\ Awake'
  BY <1>2, <1>5, SafeSame, AwakeSame, SameQueue
<1>7. t \in Serving /\ pc[Caller] # "joined"
  BY <1>2, NotJoined
<1>8. \A s \in Threads : s # t => pc'[s] = pc[s]
  BY <1>1, <1>3 DEF TypeOK
<1>9. (t \notin ended /\ pc'[t] = "timers") \/ (t \in ended /\ pc'[t] = "exited")
  BY <1>1, <1>3 DEF TypeOK
<1>10. Loops'
  BY <1>1, <1>2, <1>7, <1>8, <1>9, IOAssumption DEF Loops, Workers, IOAssumption
<1>11. Attended'
  <2> Serving \subseteq Threads
    BY DEF Serving, Workers
  <2>1. \A s \in Serving \ ended : pc'[s] = pc[s] \/ (pc[s] = "scan" /\ pc'[s] = "timers")
    BY <1>2, <1>8, <1>9
  <2> QED
    BY <1>1, <1>2, <2>1 DEF Attended
<1> QED
  BY <1>1, <1>4, <1>6, <1>10, <1>11 DEF HookInv

\* stopping() looks at the timers, the count and the queue, in this order.
LEMMA StoppingStep ==
    ASSUME HookInv, fault = "none", NEW t \in Threads, Stopping(t), UNCHANGED hookVars
    PROVE  HookInv'
<1>1. TypeOK /\ Loops /\ Attended /\ ~Duplex
  BY DEF HookInv
<1>2. UNCHANGED <<m_tasks, m_stopping, task, past, m_timers, cbs, m_pendingEventCount, events,
                  ctx, sched, mtx, epoll, at, fd, seen, left, fault, call, op, cancelled, sock,
                  early, roused>>
  BY DEF Stopping, fdVars, codeVars, hookVars
<1>3. \E p \in {"pending", "queue", "wait", "scan"} :
         /\ pc' = [pc EXCEPT ![t] = p]
         /\ \/ /\ pc[t] = "timers" /\ p = (IF m_timers = {} THEN "pending" ELSE "wait")
               /\ ended' = ended
            \/ /\ pc[t] = "pending" /\ p = (IF m_pendingEventCount = 0 THEN "queue" ELSE "wait")
               /\ ended' = ended
            \/ pc[t] = "queue" /\ p = "wait" /\ ended' = ended
            \/ /\ pc[t] = "queue" /\ p = "scan" /\ ended' = ended \cup {t}
               /\ m_stopping /\ m_tasks = <<>>
  BY DEF Stopping, Goto
<1>4. /\ \/ pc[t] = "timers" /\ pc'[t] = "pending" /\ m_timers = {} /\ ended' = ended
         \/ pc[t] = "pending" /\ pc'[t] = "queue" /\ m_pendingEventCount = 0 /\ ended' = ended
         \/ pc[t] \in {"timers", "pending", "queue"} /\ pc'[t] = "wait" /\ ended' = ended
         \/ /\ pc[t] = "queue" /\ pc'[t] = "scan" /\ ended' = ended \cup {t}
            /\ m_stopping /\ m_tasks = <<>>
      /\ \A s \in Threads : s # t => pc'[s] = pc[s]
  BY <1>1, <1>3 DEF TypeOK
<1>5. pc[t] \in {"timers", "pending", "queue"}
  BY <1>4
<1>6. TypeOK'
  BY <1>1, <1>2, <1>3 DEF TypeOK
<1>7. \A c \in Callbacks : Live(c)' => Live(c)
  BY <1>2, SameQueue DEF Live
<1>8. Safe' /\ PendingExact' /\ Awake'
  BY <1>2, <1>7, SafeSame, AwakeSame, SameQueue
<1>9. t \in Serving /\ pc[Caller] # "joined" /\ ("late" \notin past => t \notin ended)
  BY <1>1, <1>5, NotJoined DEF Loops
<1>10. Loops'
  BY <1>1, <1>2, <1>4, <1>9, IOAssumption DEF Loops, Workers, IOAssumption
<1>11. Attended'
  <2> SUFFICES ASSUME "late" \notin past
               PROVE  /\ m_tasks # <<>> => Serving \ ended' # {}
                      /\ m_timers # {} => \E s \in Serving \ ended' :
                            pc'[s] \in {"scan", "body", "timers", "wait", "cbs"}
                      /\ m_pendingEventCount # 0 => \E s \in Serving \ ended' :
                            pc'[s] \in {"scan", "body", "timers", "pending", "wait", "cbs"}
    BY <1>2 DEF Attended
  <2> Serving \subseteq Threads
    BY DEF Serving, Workers
  <2>1. m_tasks # <<>> => Serving \ ended' # {}
    BY <1>1, <1>4 DEF Attended
  <2>2. ASSUME m_timers # {}
        PROVE  \E s \in Serving \ ended' : pc'[s] \in {"scan", "body", "timers", "wait", "cbs"}
    <3>1. PICK s \in Serving \ ended : pc[s] \in {"scan", "body", "timers", "wait", "cbs"}
      BY <1>1, <2>2 DEF Attended
    <3>2. s \notin ended' /\ pc'[s] \in {"scan", "body", "timers", "wait", "cbs"}
      BY <1>4, <2>2, <3>1
    <3> QED
      BY <3>1, <3>2
  <2>3. ASSUME m_pendingEventCount # 0
        PROVE  \E s \in Serving \ ended' :
                  pc'[s] \in {"scan", "body", "timers", "pending", "wait", "cbs"}
    <3>1. PICK s \in Serving \ ended :
             pc[s] \in {"scan", "body", "timers", "pending", "wait", "cbs"}
      BY <1>1, <2>3 DEF Attended
    <3>2. s \notin ended' /\ pc'[s] \in {"scan", "body", "timers", "pending", "wait", "cbs"}
      BY <1>4, <2>3, <3>1
    <3> QED
      BY <3>1, <3>2
  <2> QED
    BY <2>1, <2>2, <2>3
<1> QED
  BY <1>1, <1>6, <1>8, <1>10, <1>11 DEF HookInv

\* epoll_wait() returns and the timers that are due are collected.
LEMMA WaitStep ==
    ASSUME HookInv, fault = "none", NEW t \in Threads, Wait(t), UNCHANGED hookVars
    PROVE  HookInv'
<1>1. TypeOK /\ Loops /\ Attended /\ ~Duplex
  BY DEF HookInv
<1>2. PICK S \in SUBSET m_timers :
         /\ pc[t] = "wait" /\ pc' = [pc EXCEPT ![t] = IF S = {} THEN "scan" ELSE "cbs"]
         /\ m_timers' = m_timers \ S /\ cbs' = [cbs EXCEPT ![t] = S]
  BY DEF Wait, Goto
<1>3. UNCHANGED <<m_tasks, m_stopping, task, ended, past, m_pendingEventCount, events, ctx,
                  sched, mtx, epoll, at, fd, seen, left, fault, call, op, cancelled, sock,
                  early, roused>>
  BY DEF Wait, fdVars, codeVars, hookVars
<1>4. /\ pc'[t] = (IF S = {} THEN "scan" ELSE "cbs") /\ cbs'[t] = S
      /\ \A s \in Threads : s # t => pc'[s] = pc[s] /\ cbs'[s] = cbs[s]
  BY <1>1, <1>2 DEF TypeOK
<1>5. TypeOK'
  <2>1. cbs' \in [Threads -> SUBSET Callbacks] /\ m_timers' \subseteq Callbacks
    BY <1>1, <1>2 DEF TypeOK
  <2>2. \E p \in {"scan", "cbs"} : pc' = [pc EXCEPT ![t] = p]
    BY <1>2
  <2> QED
    BY <1>1, <1>3, <2>1, <2>2 DEF TypeOK
<1>6. \A c \in Callbacks : Live(c)' => Live(c)
  BY <1>2, <1>3, <1>4, SameQueue DEF Live
<1>7. Safe' /\ PendingExact' /\ Awake'
  BY <1>3, <1>6, SafeSame, AwakeSame, SameQueue
<1>8. t \in Serving /\ pc[Caller] # "joined" /\ ("late" \notin past => t \notin ended)
  BY <1>1, <1>2, NotJoined DEF Loops
<1>9. Loops'
  BY <1>1, <1>2, <1>3, <1>4, <1>8 DEF Loops
<1>10. Attended'
  BY <1>3, <1>4, <1>8 DEF Attended
<1> QED
  BY <1>1, <1>5, <1>7, <1>9, <1>10 DEF HookInv

\* A callback that was collected is scheduled.
LEMMA ScheduleCbStep ==
    ASSUME HookInv, fault = "none", NEW t \in Threads, ScheduleCb(t), UNCHANGED hookVars
    PROVE  HookInv'
<1> USE TaskFacts
<1>1. TypeOK /\ Loops /\ Attended /\ ~Duplex
  BY DEF HookInv
<1>2. PICK c \in cbs[t] :
         /\ pc[t] = "cbs" /\ pc' = [pc EXCEPT ![t] = IF cbs[t] = {c} THEN "scan" ELSE "cbs"]
         /\ cbs' = [cbs EXCEPT ![t] = cbs[t] \ {c}] /\ Schedule(c)
  BY DEF ScheduleCb, Goto
<1>3. UNCHANGED <<m_stopping, task, ended, past, m_timers, m_pendingEventCount, events, ctx,
                  sched, mtx, epoll, at, fd, seen, left, fault, call, op, cancelled, sock,
                  early, roused>>
  BY DEF ScheduleCb, fdVars, codeVars, hookVars
<1>4. /\ pc'[t] = (IF cbs[t] = {c} THEN "scan" ELSE "cbs") /\ cbs'[t] = cbs[t] \ {c}
      /\ \A s \in Threads : s # t => pc'[s] = pc[s] /\ cbs'[s] = cbs[s]
      /\ c \in Callbacks
  BY <1>1, <1>2 DEF TypeOK
<1>5. /\ m_tasks' \in Seq(Tasks)
      /\ \A y : Queued(y)' <=> Queued(y) \/ y = c
      /\ \A y : Once(y) /\ (y = c => ~Queued(y)) => Once(y)'
  BY <1>1, <1>2, <1>4, ScheduleFacts DEF TypeOK
<1>6. TypeOK'
  <2>1. cbs' \in [Threads -> SUBSET Callbacks]
    BY <1>1, <1>2 DEF TypeOK
  <2>2. \E p \in {"scan", "cbs"} : pc' = [pc EXCEPT ![t] = p]
    BY <1>2
  <2> QED
    BY <1>1, <1>3, <1>5, <2>1, <2>2 DEF TypeOK
<1>7. \A b \in Callbacks : Live(b)' => Live(b)
  BY <1>2, <1>3, <1>4, <1>5 DEF Live
<1>8. \A f \in Fibers : (Queued(f)' <=> Queued(f)) /\ (Once(f) => Once(f)')
  BY <1>4, <1>5
<1>9. Safe' /\ PendingExact' /\ Awake'
  BY <1>3, <1>7, <1>8, SafeSame, AwakeSame
<1>10. t \in Serving /\ pc[Caller] # "joined" /\ ("late" \notin past => t \notin ended)
  BY <1>1, <1>2, NotJoined DEF Loops
<1>11. Loops'
  BY <1>1, <1>2, <1>3, <1>4, <1>10, IOAssumption DEF Loops, Workers, IOAssumption
<1>12. Attended'
  BY <1>3, <1>4, <1>10 DEF Attended
<1> QED
  BY <1>1, <1>6, <1>9, <1>11, <1>12 DEF HookInv

\* The owner schedules a task.
LEMMA UserScheduleStep ==
    ASSUME HookInv, fault = "none", NEW f \in Fibers, UserSchedule(f)
    PROVE  HookInv'
<1> USE TaskFacts, IOAssumption
<1>1. ~Duplex /\ TypeOK /\ Safe /\ PendingExact /\ Awake /\ Loops /\ Attended
  BY DEF HookInv
<1>2. TypeOK /\ Sites
  BY <1>1 DEF Safe
<1>3. UNCHANGED <<m_stopping, pc, task, ended, past, cbs, m_timers, m_pendingEventCount, events,
                  ctx, sched, mtx, epoll, fd, seen, left, fault, call, op, cancelled, sock,
                  early, roused>>
  BY DEF UserSchedule, threadVars, fdVars, hookVars
<1>4. /\ at[f] = "new" /\ at'[f] = "start" /\ \A y \in Tasks \ {f} : at'[y] = at[y]
      /\ pc[Caller] = "user" /\ Schedule(f)
  BY <1>1 DEF UserSchedule, Move, TypeOK
<1>5. ~Queued(f) /\ f \notin Held
  BY <1>1, <1>4 DEF Safe, Queue
<1>6. /\ m_tasks' \in Seq(Tasks)
      /\ \A y : Queued(y)' <=> Queued(y) \/ y = f
      /\ \A y : Once(y) => Once(y)'
  BY <1>1, <1>4, <1>5, ScheduleFacts DEF TypeOK
<1>7. \A g \in Fibers :
         /\ EventOf(g)' = EventOf(g) /\ (InCall(g)' <=> InCall(g))
         /\ (InCall(g) => at'[g] = at[g] /\ (Queued(g)' <=> Queued(g)))
  BY <1>3, <1>4, <1>6 DEF InCall, EventOf
<1>8. \A c \in Callbacks : at'[c] = at[c] /\ (Live(c)' <=> Live(c)) /\ (Alive(c)' <=> Alive(c))
  BY <1>3, <1>4, <1>6, <1>7 DEF Live, Alive
<1>9. \A d, e : Resetting(d, e)' <=> Resetting(d, e)
  BY <1>3, <1>4, SameResetting
<1>10. TypeOK'
  <2>1. at' = [at EXCEPT ![f] = "start"]
    BY DEF UserSchedule, Move
  <2> QED
    BY <1>1, <1>3, <1>6, <2>1 DEF TypeOK
<1>11. PendingExact'
  BY <1>1, <1>3, <1>4, SamePending
<1>12. Sites'
  BY <1>2, <1>3, <1>7, <1>8 DEF Sites
<1>13. Queue'
  BY <1>1, <1>3, <1>4, <1>5, <1>6 DEF Safe, Queue, Held
<1>14. Issued'
  BY <1>1, <1>3, <1>8 DEF Safe, Issued
<1>15. Sleeps'
  BY <1>1, <1>3, <1>4, <1>6, <1>8 DEF Safe, Sleeps
<1>16. Alone'
  BY <1>1, <1>3, <1>7 DEF Safe, Alone, Disturbs
<1>17. Locking'
  BY <1>1, <1>3, <1>4 DEF Safe, Locking, ToTrigger, EventOf
<1>18. Registrations'
  <2>1. \A g \in Fibers : at'[g] \in {"ctl", "set", "drop"} => at'[g] = at[g]
    BY <1>4
  <2> QED
    BY <1>1, <1>3, <1>7, <1>9, <2>1 DEF Safe, Registrations, Registers
<1>19. Contexts'
  <2>1. \A d \in Fds, e \in Event, g \in Fibers : Waits(g, d, e) => Waits(g, d, e)'
    BY <1>3, <1>4, <1>6, <1>7 DEF Waits
  <2> QED
    BY <1>1, <1>3, <1>9, <2>1 DEF Safe, Contexts, Context
<1>20. Output'
  <2>1. \A d \in Fds, g \in Fibers : Connects(g, d) => Connects(g, d)'
    BY <1>3, <1>4, <1>6 DEF Connects
  <2> QED
    BY <1>1, <1>3, <2>1 DEF Safe, Output
<1>21. Expiring'
  BY <1>1, <1>3, <1>8 DEF Safe, Expiring, Expires
<1>22. Awake'
  <2>1. \A g \in Fibers : Excused(g) => Excused(g)'
    BY <1>3, <1>7 DEF Excused
  <2>2. \A g \in Fibers : Awakened(g)' => Awakened(g)
    BY <1>4, <1>6 DEF Awakened
  <2> QED
    BY <1>1, <1>3, <2>1, <2>2 DEF Awake
<1>23. Loops'
  BY <1>1, <1>3 DEF Loops
<1>24. Attended'
  <2>1. ended = {} /\ Serving # {}
    BY <1>1, <1>4 DEF Loops, TypeOK, Serving, Workers, IOAssumption
  <2> QED
    BY <1>1, <1>3, <2>1 DEF Attended
<1> QED
  BY <1>1, <1>10, <1>11, <1>12, <1>13, <1>14, <1>15, <1>16, <1>17, <1>18, <1>19, <1>20, <1>21,
     <1>22, <1>23, <1>24 DEF HookInv, Safe

\* The owner stops, and returns.
LEMMA StopStep ==
    ASSUME HookInv, fault = "none", Stop \/ Join, UNCHANGED hookVars
    PROVE  HookInv'
<1> USE IOAssumption
<1>1. TypeOK /\ Loops /\ Attended /\ ~Duplex /\ Caller \in Threads
  BY DEF HookInv, IOAssumption
<1>2. /\ UNCHANGED <<m_tasks, task, ended, past, m_timers, cbs, m_pendingEventCount, events,
                     ctx, sched, mtx, epoll, at, fd, seen, left, fault, call, op, cancelled,
                     sock, early, roused>>
      /\ m_stopping' \in BOOLEAN
  BY <1>1 DEF Stop, Join, fdVars, codeVars, hookVars, TypeOK
<1>3. \E p \in {"scan", "exited", "joined"} :
         /\ pc' = [pc EXCEPT ![Caller] = p]
         /\ \/ /\ pc[Caller] = "user" /\ p = (IF UseCaller THEN "scan" ELSE "exited")
               /\ m_stopping' = TRUE
            \/ /\ pc[Caller] = "exited" /\ p = "joined" /\ m_stopping' = m_stopping
               /\ \A s \in Workers : pc[s] = "exited"
  BY DEF Stop, Join, Goto
<1>4. /\ \/ /\ pc[Caller] = "user" /\ pc'[Caller] = (IF UseCaller THEN "scan" ELSE "exited")
            /\ m_stopping' = TRUE
         \/ /\ pc[Caller] = "exited" /\ pc'[Caller] = "joined" /\ m_stopping' = m_stopping
            /\ \A s \in Workers : pc[s] = "exited"
      /\ \A s \in Threads : s # Caller => pc'[s] = pc[s]
  BY <1>1, <1>3 DEF TypeOK
<1>5. TypeOK'
  BY <1>1, <1>2, <1>3 DEF TypeOK
<1>6. \A c \in Callbacks : Live(c)' => Live(c)
  BY <1>2, SameQueue DEF Live
<1>7. Safe' /\ PendingExact' /\ Awake'
  BY <1>2, <1>6, SafeSame, AwakeSame, SameQueue
<1>8. Loops'
  BY <1>1, <1>2, <1>4 DEF Loops, Serving, Workers, IOAssumption
<1>9. Attended'
  BY <1>1, <1>2, <1>4 DEF Attended, Serving, Workers
<1> QED
  BY <1>1, <1>5, <1>7, <1>8, <1>9 DEF HookInv

\* The network.
LEMMA NetworkStep ==
    ASSUME HookInv, fault = "none", Network
    PROVE  HookInv'
<1>1. TypeOK /\ Loops /\ Attended /\ ~Duplex
  BY DEF HookInv
<1>2. UNCHANGED <<m_tasks, m_stopping, pc, task, ended, past, m_timers, cbs, m_pendingEventCount,
                  events, ctx, sched, mtx, epoll, at, fd, seen, left, fault, call, op, cancelled,
                  early, roused>>
  BY DEF Network, threadVars, fdVars, codeVars
<1>3. PICK d \in Fds, v \in {"open", "fresh", "ready"} : sock' = [sock EXCEPT ![d] = v]
  <2>1. PICK d \in Fds, s \in {<<"connecting", "open">>, <<"connecting", "fresh">>,
                             <<"open", "ready">>} : sock' = [sock EXCEPT ![d] = s[2]]
    BY DEF Network
  <2>2. s[2] \in {"open", "fresh", "ready"}
    BY <2>1
  <2> QED
    BY <2>1, <2>2
<1>4. TypeOK'
  <2>1. v \in Sock
    BY DEF Sock
  <2>2. sock' \in [Fds -> Sock]
    BY <1>1, <1>3, <2>1 DEF TypeOK
  <2> QED
    BY <1>1, <1>2, <2>2 DEF TypeOK
<1>5. \A c \in Callbacks : Live(c)' => Live(c)
  BY <1>2, SameQueue DEF Live
<1>6. \A k \in Fds : sock'[k] = "connecting" => sock[k] = "connecting"
  BY <1>1, <1>3 DEF TypeOK
<1>7. Safe' /\ PendingExact' /\ Awake'
  BY <1>2, <1>5, <1>6, SafeSame, AwakeSame, SameQueue
<1>8. Loops' /\ Attended'
  BY <1>1, <1>2 DEF Loops, Attended
<1> QED
  BY <1>1, <1>4, <1>7, <1>8 DEF HookInv

-----------------------------------------------------------------------------
\* cancelEvent() and cancalAll().
LEMMA CancelStep ==
    ASSUME HookInv, fault = "none", NEW t \in Threads, NEW x \in Tasks, task[t] = x,
           NEW es, NEW to, Canceller(x, es, to), Cancel(x, es, to)
    PROVE  HookInv'
<1> USE TaskFacts
<1>1. Touches
  BY DEF Cancel, Touches, Misses, Rouses, HookInv, TypeOK
<1>2. CASE CancelNone(x, "cancel", es, to)
  <2>1. Abandons(x, to)
    BY <1>1, <1>2 DEF CancelNone, Move, Canceller, Abandons
  <2> QED
    BY <2>1, CancelNoneStep
<1>3. CASE CancelCtl(x, "cancel", es, "trigger")
  BY <1>1, <1>3, CancelCtlStep
<1>4. CASE Trigger(x)
  <2>1. CASE fault' = "none"
    BY <1>1, <1>4, <2>1, TriggerStep DEF Cancel
  <2>2. CASE fault' # "none"
    BY <1>1, <1>4, <2>2, CancelFault
  <2> QED
    BY <2>1, <2>2
<1>5. CASE Reset(x, to)
  BY <1>1, <1>5, ResetStep
<1>6. CASE TriggerSkip(x, to)
  <2>1. CASE to = "close"
    BY <1>1, <1>6, <2>1, TriggerSkipStep
  <2>2. CASE to # "close"
    <3>1. fault' # "none"
      BY <1>6, <2>2 DEF TriggerSkip
    <3> QED
      BY <1>1, <1>6, <2>2, <3>1, CancelFault
  <2> QED
    BY <2>1, <2>2
<1> QED
  BY <1>2, <1>3, <1>4, <1>5, <1>6 DEF Cancel

\* Whatever a task does.
LEMMA FiberCodeStep ==
    ASSUME HookInv, fault = "none", NEW t \in Threads, NEW f \in Fibers, task[t] = f,
           FiberCode(f)
    PROVE  HookInv'
<1> USE TaskFacts
<1>1. TypeOK
  BY DEF HookInv
<1>2. CASE Sleep(f)
  <2>1. Opens(f, "sleep", Null, "yield")
    BY <1>2 DEF Sleep, Opens, Move
  <2> QED
    BY <2>1, EnterStep
<1>3. ASSUME NEW d \in Fds, Connect(f, d) PROVE HookInv'
  <2>1. at[f] = "start" /\ at = [at EXCEPT ![f] = "start"]
    BY <1>1, <1>3 DEF Connect, Enter, TypeOK
  <2>2. Opens(f, "connect", d, "start") \/ Opens(f, "connect", d, "add")
    BY <1>3, <2>1 DEF Connect, Opens, Move
  <2> QED
    BY <2>2, EnterStep
<1>4. ASSUME NEW d \in Fds, NEW o \in Ops \ {"sleep", "connect"}, Begin(f, o, d) PROVE HookInv'
  <2>1. o \in {"read", "watch", "del", "close"} \cup Cancels
    BY DEF Ops
  <2>2. Opens(f, o, d, First(o))
    BY <1>4, <2>1 DEF Begin, Opens, Move
  <2> QED
    BY <2>2, EnterStep
<1>5. CASE AddEvent(f)
  <2>1. UNCHANGED hookVars
    BY <1>5 DEF AddEvent
  <2>2. CASE AddCheck(f, EventOf(f))
    BY <2>1, <2>2, AddCheckStep
  <2>3. CASE AddCtl(f)
    BY <2>1, <2>3, AddCtlStep
  <2>4. CASE AddSet(f, EventOf(f))
    BY <2>1, <2>4, AddSetStep
  <2>5. CASE AddFill(f, EventOf(f))
    BY <2>1, <2>5, AddFillStep
  <2>6. CASE op[f] = "watch" /\ AddStore(f, "READ", <<"event", f, call[f]>>, "start")
    BY <2>1, <2>6, AddStoreWatchStep
  <2>7. CASE op[f] # "watch" /\ AddStore(f, EventOf(f), f, "yield")
    BY <2>1, <2>7, AddStoreStep
  <2> QED
    BY <1>5, <2>2, <2>3, <2>4, <2>5, <2>6, <2>7 DEF AddEvent
<1>6. CASE op[f] \in Cancels /\ Cancel(f, <<EventOf(f)>>, "start")
  <2>1. Canceller(f, <<EventOf(f)>>, "start")
    BY <1>6 DEF Canceller
  <2> QED
    BY <1>6, <2>1, CancelStep
<1>7. CASE op[f] = "close" /\ Cancel(f, <<"READ", "WRITE">>, "close")
  <2>1. Canceller(f, <<"READ", "WRITE">>, "close")
    BY <1>7 DEF Canceller
  <2> QED
    BY <1>7, <2>1, CancelStep
<1>8. CASE op[f] = "del" /\ Delete(f)
  <2>1. UNCHANGED hookVars
    BY <1>8 DEF Delete
  <2>2. CASE CancelNone(f, "del", <<"READ">>, "start")
    <3>1. Abandons(f, "start")
      BY <1>1, <1>8, <2>1, <2>2 DEF CancelNone, Move, Abandons, Touches, hookVars, TypeOK
    <3> QED
      BY <3>1, CancelNoneStep
  <2>3. CASE CancelCtl(f, "del", <<"READ">>, "drop")
    BY <1>8, <2>1, <2>3, DelCtlStep
  <2>4. CASE DelDrop(f, "READ", "start")
    BY <1>8, <2>1, <2>4, DelDropStep
  <2> QED
    BY <1>8, <2>2, <2>3, <2>4 DEF Delete
<1>9. CASE Return(f) \/ Try(f)
  BY <1>9, ReturnStep, TryStep
<1>10. CASE AddFailed(f) \/ Woken(f) \/ Close(f)
  BY <1>10, AddFailedStep, WokenStep, CloseStep
<1> QED
  BY <1>2, <1>3, <1>4, <1>5, <1>6, <1>7, <1>8, <1>9, <1>10 DEF FiberCode

\* Whatever a callback does.
LEMMA CallbackCodeStep ==
    ASSUME HookInv, fault = "none", NEW t \in Threads, NEW c \in Callbacks, task[t] = c,
           CallbackCode(c)
    PROVE  HookInv'
<1> USE TaskFacts
<1>1. CASE c[1] = "timeout" /\ (TimeoutCb(c) \/ TimeoutMark(c))
  BY <1>1, TimeoutCbStep, TimeoutMarkStep
<1>2. CASE c[1] = "timeout" /\ Cancel(c, <<"WRITE">>, "done")
  <2>1. Canceller(c, <<"WRITE">>, "done")
    BY <1>2 DEF Canceller
  <2> QED
    BY <1>2, <2>1, CancelStep
<1>3. CASE c[1] # "timeout" /\ WakeCb(c)
  BY <1>3, WakeCbStep
<1> QED
  BY <1>1, <1>2, <1>3 DEF CallbackCode

\* A stuttering step.
LEMMA HookStutter ==
    ASSUME HookInv, UNCHANGED vars
    PROVE  HookInv'
<1>1. UNCHANGED <<m_tasks, m_stopping, pc, task, ended, past, m_timers, cbs,
                  m_pendingEventCount, events, ctx, sched, mtx, epoll, at, fd, seen, left,
                  fault, call, op, cancelled, sock, early, roused>>
  BY DEF vars, threadVars, fdVars, codeVars, hookVars
<1>2. TypeOK'
  BY <1>1 DEF HookInv, TypeOK
<1>3. Loops' /\ Attended' /\ PendingExact'
  BY <1>1 DEF HookInv, Loops, Attended, PendingExact
<1>4. Awake'
  BY <1>1 DEF HookInv, Awake, Awakened, Excused, InCall, Queued
<1>5. \A c \in Callbacks : Live(c)' => Live(c)
  BY <1>1, SameQueue DEF Live
<1>6. fault' = "none" => Safe'
  BY <1>1, <1>5, SafeSame, SameQueue
<1> QED
  BY <1>2, <1>3, <1>4, <1>6 DEF HookInv

\* Every step keeps the invariant.
LEMMA HookInvStep ==
    ASSUME HookInv, [Next]_vars
    PROVE  HookInv'
<1> USE TaskFacts
<1>1. ASSUME fault = "none", NEW t \in Threads, Body(t) PROVE HookInv'
  <2>1. task[t] \in Tasks
    BY <1>1 DEF Body, HookInv, Loops, TypeOK
  <2>2. CASE task[t] \in Fibers
    BY <1>1, <2>2, FiberCodeStep DEF Body
  <2>3. CASE task[t] \notin Fibers
    BY <1>1, <2>1, <2>3, CallbackCodeStep DEF Body
  <2> QED
    BY <2>2, <2>3
<1>2. ASSUME fault = "none", NEW t \in Threads, Loop(t), UNCHANGED hookVars PROVE HookInv'
  BY <1>2, PickTaskStep, LeaveTaskStep, EnterIdleStep, StoppingStep, WaitStep, ScheduleCbStep
  DEF Loop
<1>3. ASSUME fault = "none", Owner PROVE HookInv'
  BY <1>3, UserScheduleStep, StopStep DEF Owner
<1>4. CASE UNCHANGED vars
  BY <1>4, HookStutter
<1> QED
  BY <1>1, <1>2, <1>3, <1>4, NetworkStep DEF Next, Step, Ended, ThreadStep

\* It holds at first.
LEMMA HookInvInit == ~Duplex /\ Init => HookInv
<1> USE TaskFacts, IOAssumption DEF Init, IOInit
<1> SUFFICES ASSUME ~Duplex, Init PROVE HookInv
  OBVIOUS
<1>1. TypeOK
  <2>1. /\ m_tasks \in Seq(Tasks) /\ left \in [Tasks -> Seq(Event)] /\ m_stopping \in BOOLEAN
        /\ fault \in Faults /\ m_pendingEventCount \in Nat
    <3>1. <<>> \in Seq(Tasks) /\ <<>> \in Seq(Event)
      OBVIOUS
    <3>2. fault \in Faults
      BY DEF Faults
    <3> QED
      BY <3>1, <3>2
  <2>2. /\ call \in [Fibers -> 0..MaxCalls] /\ op \in [Fibers -> Ops \cup {"none"}]
        /\ cancelled \cup early \cup roused \subseteq Fibers
    BY DEF IOAssumption
  <2>3. sock \in [Fds -> Sock]
    BY DEF Sock
  <2>4. /\ events \in [Fds -> SUBSET Event] /\ ctx \in [Fds -> [Event -> Tasks \cup {Null}]]
        /\ sched \in [Fds -> SUBSET Event]
        /\ mtx \in [Fds -> Tasks \cup {Null}] /\ epoll \subseteq Fds
        /\ fd \in [Tasks -> Fds \cup {Null}] /\ seen \in [Tasks -> SUBSET Event]
    OBVIOUS
  <2> QED
    BY <2>1, <2>2, <2>3, <2>4 DEF TypeOK
<1>2. PendingExact
  <2>1. Registered = {} /\ Changing = {}
    BY DEF Registered, Changing
  <2> QED
    <3>1. Cardinality(Registered) = 0 /\ Cardinality(Changing) = 0
      BY <2>1, FS_EmptySet
    <3> QED
      BY <3>1 DEF PendingExact, Registered, Changing
<1>3. Loops
  BY DEF Loops, Serving, Workers, IOAssumption
<1>4. Attended
  BY DEF Attended
<1>5. /\ \A y : ~Queued(y) /\ Once(y)
      /\ \A c \in Callbacks : ~Live(c) /\ at[c] = "start"
      /\ \A f \in Fibers : ~InCall(f) /\ at[f] = "new"
      /\ Held = {}
  BY DEF Queued, Once, Live, InCall, Held
<1>6. Awake
  BY <1>5 DEF Awake, Awakened
<1>7. Sites /\ Queue /\ Issued /\ Sleeps /\ Alone
  BY <1>5 DEF Sites, CallbackSteps, Queue, Issued, Sleeps, Alone
<1>8. Locking /\ Registrations /\ Expiring
  BY <1>5 DEF Locking, Registrations, Registers, Expiring, Expires
<1>9. Contexts /\ Output
  BY DEF Contexts, Context, Output
<1> QED
  BY <1>1, <1>2, <1>3, <1>4, <1>6, <1>7, <1>8, <1>9 DEF HookInv, Safe
-----------------------------------------------------------------------------
\* The inductive invariant holds in every program that uses a descriptor in one
\* direction at a time.
THEOREM HookInvCorrect == ~Duplex /\ Spec => []HookInv
<1>1. ~Duplex /\ Init => HookInv
  BY HookInvInit
<1>2. HookInv /\ [Next]_vars => HookInv'
  BY HookInvStep
<1> QED
  BY <1>1, <1>2, PTL DEF Spec

\* The variables of the IOManager and of the tasks keep their types; in particular
\* m_pendingEventCount, a size_t that a cancellation and delEvent() take down, never
\* goes below 0.
THEOREM HookTypeCorrect == ~Duplex /\ Spec => []TypeOK
<1>1. HookInv => TypeOK
  BY DEF HookInv
<1> QED
  BY <1>1, HookInvCorrect, PTL

\* m_pendingEventCount counts the registered events, whoever adds, cancels, deletes or
\* closes on whatever thread.
THEOREM PendingExactCorrect == ~Duplex /\ Spec => []PendingExact
<1>1. HookInv => PendingExact
  BY DEF HookInv
<1> QED
  BY <1>1, HookInvCorrect, PTL

\* A connect() that goes on before the connection is made has timed out, or another task
\* has cancelled its event, for whichever direction, or is closing the descriptor.
THEOREM WokenByTimeoutCorrect == ~Duplex /\ Spec => []WokenByTimeout
<1>1. HookInv => WokenByTimeout
  BY DEF HookInv, Awake, Awakened, Excused, WokenByTimeout
<1> QED
  BY <1>1, HookInvCorrect, PTL

\* When stop() returns nothing is left, though stopping() reads the timers, the count
\* and the queue at different moments.
THEOREM StopLeavesNothingCorrect == ~Duplex /\ Spec => []StopLeavesNothing
<1>1. HookInv => StopLeavesNothing
  <2> SUFFICES ASSUME HookInv, pc[Caller] = "joined", "late" \notin past PROVE NothingLeft
    BY DEF StopLeavesNothing
  <2>1. TypeOK /\ Loops /\ Attended /\ PendingExact
    BY DEF HookInv
  <2>2. fault = "none" /\ \A t \in Threads : pc[t] \in {"exited", "joined"}
    BY <2>1, IOAssumption DEF Loops, Workers, IOAssumption
  <2>3. Serving \ ended = {}
    BY <2>1, <2>2 DEF Loops, Serving, Workers
  <2>4. m_tasks = <<>> /\ m_timers = {} /\ m_pendingEventCount = 0
    BY <2>1, <2>3 DEF Attended
  <2>5. \A t \in Threads : cbs[t] = {}
    BY <2>1, <2>2 DEF Loops
  <2>6. 0 = Cardinality(Registered) + Cardinality(Changing)
    BY <2>1, <2>2, <2>4 DEF PendingExact, Registered, Changing
  <2>7. Cardinality(Registered) = 0
    BY <2>6, CountedFinite
  <2>8. Registered = {}
    BY <2>7, CountedFinite, FS_EmptySet
  <2>9. \A d \in Fds : events[d] = {}
    <3>1. ASSUME NEW d \in Fds, NEW e \in Event, e \in events[d] PROVE FALSE
      <4>1. <<d, e>> \in Registered
        BY <3>1 DEF Registered
      <4> QED
        BY <2>8, <4>1
    <3> QED
      BY <2>1, <3>1 DEF TypeOK
  <2> QED
    BY <2>4, <2>5, <2>9 DEF NothingLeft
<1> QED
  BY <1>1, HookInvCorrect, PTL
=============================================================================
