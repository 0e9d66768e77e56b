------------------------------- MODULE Timer -------------------------------
(***************************************************************************)
(* Timer and TimerManager (Timer.h, Timer.cpp): timers kept in a std::set  *)
(* ordered by the time they are due, added and changed by any thread, and   *)
(* collected by the threads that wait for them.  The waiting threads        *)
(* ("dispatchers") are what IOManager::idle() makes of the class: ask       *)
(* getNextTimer() how long to wait, wait, collect the expired callbacks     *)
(* with listExpiredCb(), run them.                                          *)
(*                                                                         *)
(* A region under m_mutex is one action; the clock is read outside it where *)
(* the code does.  Time is in milliseconds; the clock is the system clock   *)
(* and may be set back.                                                     *)
(***************************************************************************)
EXTENDS Naturals, Integers

CONSTANTS
    Timers,      \* addresses of Timer objects, numbers above 0
    Dispatchers, \* threads that wait for timers
    Ms,          \* the delays callers ask for
    Hour,        \* the clock step detectClockRollover() takes for a set-back
    MaxClock,    \* bound on the clock
    MaxSetBacks, \* bound on how often the clock is set back
    MaxNotify    \* bound on the threads about to call onTimerInsertedAtFront()

\* Delays are 64-bit, so there is a longest one; some thread waits for the timers
\* (the constructor of IOManager's base asserts threads > 0).
ASSUME TimerAssumption ==
    /\ Timers \subseteq Nat \ {0}
    /\ Ms \subseteq Nat
    /\ \E m \in Ms : \A n \in Ms : n <= m
    /\ Dispatchers # {}
    /\ {Hour, MaxClock, MaxSetBacks, MaxNotify} \subseteq Nat

VARIABLES
    clock, setbacks,
    m_next, m_ms, m_recurring,
    m_cb,             \* the timers whose callback is not null
    m_timers,         \* the set: pairs <<m_next when it was inserted, timer>>
    m_tickled,
    m_previouseTime,
    fresh,            \* constructed by addTimer(), not yet inserted
    notify,           \* calls of onTimerInsertedAtFront() decided but not yet made
    signal,           \* a dispatcher is being woken
    pc, now, wait,    \* of each dispatcher; wait counts down while it is asleep
    cbs,              \* the callbacks each dispatcher has collected, not yet run
    ran, cancelled,   \* history: one-shot callbacks run; timers whose cancel() was true
    hastened,         \* history: a refresh() has brought a timer forward
    fault             \* "erase_end": m_timers.erase(m_timers.end())

timerVars == <<m_next, m_ms, m_recurring, m_cb, m_timers, fresh>>
waitVars  == <<pc, now, wait, cbs>>
ghostVars == <<ran, cancelled, hastened>>
vars == <<clock, setbacks, timerVars, m_tickled, m_previouseTime, notify, signal,
          waitVars, ghostVars, fault>>

Forever == -1   \* getNextTimer()'s milliseconds(~0ull)
Times   == 0..(MaxClock + CHOOSE m \in Ms : \A n \in Ms : n <= m)

TypeOK ==
    /\ clock \in 0..MaxClock /\ setbacks \in 0..MaxSetBacks
    /\ m_next \in [Timers -> Times] /\ m_ms \in [Timers -> Ms \cup {0}]
    /\ m_recurring \in [Timers -> BOOLEAN]
    /\ m_cb \subseteq Timers /\ fresh \subseteq Timers
    /\ m_timers \subseteq Times \X Timers
    /\ m_tickled \in BOOLEAN /\ signal \in BOOLEAN
    /\ hastened \in BOOLEAN
    /\ m_previouseTime \in 0..MaxClock
    /\ notify \in 0..MaxNotify
    /\ pc \in [Dispatchers -> {"awake", "asleep", "listing"}]
    /\ now \in [Dispatchers -> 0..MaxClock]
    /\ wait \in [Dispatchers -> Times \cup {Forever}]
    /\ cbs \in [Dispatchers -> SUBSET Timers]
    /\ ran \subseteq Timers /\ cancelled \subseteq Timers
    /\ fault \in {"none", "erase_end"}

Init ==
    /\ clock = 0 /\ setbacks = 0
    /\ m_next = [x \in Timers |-> 0] /\ m_ms = [x \in Timers |-> 0]
    /\ m_recurring = [x \in Timers |-> FALSE]
    /\ m_cb = {} /\ m_timers = {} /\ fresh = {}
    /\ m_tickled = FALSE /\ m_previouseTime = 0
    /\ notify = 0 /\ signal = FALSE
    /\ pc = [d \in Dispatchers |-> "awake"]
    /\ now = [d \in Dispatchers |-> 0]
    /\ wait = [d \in Dispatchers |-> 0]
    /\ cbs = [d \in Dispatchers |-> {}]
    /\ ran = {} /\ cancelled = {} /\ hastened = FALSE
    /\ fault = "none"
-----------------------------------------------------------------------------
\* Timer::Comparator: by time, then by address.
Less(a, b) == a[1] < b[1] \/ (a[1] = b[1] /\ a[2] < b[2])

\* *S.begin()
First(S) == CHOOSE a \in S : \A b \in S \ {a} : Less(a, b)

\* The set's find(): it compares with the timer's present m_next.
Entry(x) == <<m_next[x], x>>
Found(x) == Entry(x) \in m_timers

Created == m_cb \cup ran \cup cancelled \cup UNION {cbs[d] : d \in Dispatchers}

-----------------------------------------------------------------------------
\* addTimer(ms, cb, recurring): the constructor reads the clock before the lock.
AddTimer(x, ms, recurring) ==
    /\ x \notin Created
    /\ m_next' = [m_next EXCEPT ![x] = clock + ms]
    /\ m_ms' = [m_ms EXCEPT ![x] = ms]
    /\ m_recurring' = [m_recurring EXCEPT ![x] = recurring]
    /\ m_cb' = m_cb \cup {x}
    /\ fresh' = fresh \cup {x}
    /\ UNCHANGED <<clock, setbacks, m_timers, m_tickled, m_previouseTime, notify,
                   signal, waitVars, ghostVars, fault>>

\* The private addTimer(val, lock), given the set without the timer: the entry e
\* is inserted; at the front it is announced, once until getNextTimer() is called.
InsertAnnounced(S, e) ==
    LET at_front == First(S \cup {e}) = e /\ ~m_tickled
    IN  /\ m_timers' = S \cup {e}
        /\ m_tickled' = (m_tickled \/ at_front)
        /\ notify < MaxNotify
        /\ notify' = IF at_front THEN notify + 1 ELSE notify

Insert(x) ==
    /\ x \in fresh
    /\ fresh' = fresh \ {x}
    /\ InsertAnnounced(m_timers, Entry(x))
    /\ UNCHANGED <<clock, setbacks, m_next, m_ms, m_recurring, m_cb, m_previouseTime,
                   signal, waitVars, ghostVars, fault>>

\* The call itself, after the lock is released.  It concerns only a thread that
\* sleeps, or has asked for its timeout and is about to.
OnTimerInsertedAtFront ==
    /\ notify > 0 /\ notify' = notify - 1
    /\ signal' = (signal \/ \E d \in Dispatchers : pc[d] = "asleep")
    /\ UNCHANGED <<clock, setbacks, timerVars, m_tickled, m_previouseTime,
                   waitVars, ghostVars, fault>>

\* Timer::cancel() returning true.  With a null m_cb it changes nothing.
Cancel(x) ==
    /\ x \in m_cb \ fresh
    /\ m_cb' = m_cb \ {x}
    /\ cancelled' = cancelled \cup {x}
    /\ \/ Found(x) /\ m_timers' = m_timers \ {Entry(x)} /\ UNCHANGED fault
       \/ ~Found(x) /\ fault' = "erase_end" /\ UNCHANGED m_timers
    /\ UNCHANGED <<clock, setbacks, m_next, m_ms, m_recurring, fresh, m_tickled,
                   m_previouseTime, notify, signal, waitVars, ran, hastened>>

\* Mutant of Refresh: the delay counts from the time the timer was due.
MutRefreshFromNext(x) ==
    /\ x \in m_cb \ fresh /\ Found(x)
    /\ m_next' = [m_next EXCEPT ![x] = @ + m_ms[x]]
    /\ m_timers' = (m_timers \ {Entry(x)}) \cup {<<m_next[x] + m_ms[x], x>>}
    /\ UNCHANGED <<clock, setbacks, m_ms, m_recurring, m_cb, fresh, m_tickled,
                   m_previouseTime, notify, signal, waitVars, ghostVars, fault>>

\* Timer::refresh(); nobody is told if the timer comes to the front.
Refresh(x) ==
    /\ x \in m_cb \ fresh /\ Found(x)
    /\ m_next' = [m_next EXCEPT ![x] = clock + m_ms[x]]
    /\ m_timers' = (m_timers \ {Entry(x)}) \cup {<<clock + m_ms[x], x>>}
    /\ hastened' = (hastened \/ clock + m_ms[x] < m_next[x])
    /\ UNCHANGED <<clock, setbacks, m_ms, m_recurring, m_cb, fresh, m_tickled,
                   m_previouseTime, notify, signal, waitVars, ran, cancelled,
                   fault>>

\* Mutant of Reset: m_next is changed while the timer is in the ordered set.
MutResetInPlace(x, ms, from_now) ==
    /\ m_ms[x] # ms \/ from_now
    /\ x \in m_cb \ fresh /\ Found(x)
    /\ m_ms' = [m_ms EXCEPT ![x] = ms]
    /\ m_next' = [m_next EXCEPT ![x] = IF from_now THEN clock + ms ELSE @]
    /\ UNCHANGED <<clock, setbacks, m_timers, m_recurring, m_cb, fresh, m_tickled,
                   m_previouseTime, notify, signal, waitVars, ghostVars, fault>>

\* Timer::reset(ms, from_now), when it does not return early.  Counted from the
\* old start, m_next is m_next - ms + ms, with the new ms on both sides.
Reset(x, ms, from_now) ==
    LET start == IF from_now THEN clock ELSE m_next[x] - ms
        next  == start + ms
    IN  /\ m_ms[x] # ms \/ from_now
        /\ x \in m_cb \ fresh /\ Found(x)
        /\ m_ms' = [m_ms EXCEPT ![x] = ms]
        /\ m_next' = [m_next EXCEPT ![x] = next]
        /\ InsertAnnounced(m_timers \ {Entry(x)}, <<next, x>>)
        /\ UNCHANGED <<clock, setbacks, m_recurring, m_cb, fresh, m_previouseTime,
                       signal, waitVars, ghostVars, fault>>
-----------------------------------------------------------------------------
\* Mutant of GetNextTimer: m_tickled is not cleared.
MutGetNextTimerKeepsTickled(d) ==
    /\ pc[d] = "awake" /\ cbs[d] = {}
    /\ pc' = [pc EXCEPT ![d] = "asleep"]
    /\ wait' = [wait EXCEPT ![d] =
                  IF m_timers = {} THEN Forever
                  ELSE IF clock >= First(m_timers)[1] THEN 0
                  ELSE First(m_timers)[1] - clock]
    /\ UNCHANGED <<clock, setbacks, timerVars, m_tickled, m_previouseTime, notify,
                   signal, now, cbs, ghostVars, fault>>

\* getNextTimer(), and the thread goes to sleep for that long.
GetNextTimer(d) ==
    /\ pc[d] = "awake" /\ cbs[d] = {}
    /\ pc' = [pc EXCEPT ![d] = "asleep"]
    /\ m_tickled' = FALSE
    /\ wait' = [wait EXCEPT ![d] =
                  IF m_timers = {} THEN Forever
                  ELSE IF clock >= First(m_timers)[1] THEN 0
                  ELSE First(m_timers)[1] - clock]
    /\ UNCHANGED <<clock, setbacks, timerVars, m_previouseTime, notify, signal,
                   now, cbs, ghostVars, fault>>

\* The wait times out, or the thread is woken; listExpiredCb() reads the clock
\* before it takes the lock.
WakeUp(d) ==
    /\ pc[d] = "asleep" /\ (wait[d] = 0 \/ signal)
    /\ pc' = [pc EXCEPT ![d] = "listing"]
    /\ now' = [now EXCEPT ![d] = clock]
    /\ wait' = [wait EXCEPT ![d] = 0]
    /\ signal' = (signal /\ wait[d] = 0 /\ \E e \in Dispatchers \ {d} : pc[e] = "asleep")
    /\ UNCHANGED <<clock, setbacks, timerVars, m_tickled, m_previouseTime, notify,
                   cbs, ghostVars, fault>>

\* Mutant of detectClockRollover: any step back counts.
MutRolloverAny(n) == n < m_previouseTime

\* detectClockRollover(); m_previouseTime is written by listExpiredCb() only.
detectClockRollover(n) == n < m_previouseTime - Hour

\* lower_bound(now_timer), which is at address addr: it and what comes after it.
FromBound(n, addr) == {a \in m_timers : ~Less(a, <<n, addr>>)}

\* Mutant of Expired: without the loop over the timers due exactly now.
MutExpiredStrict(n, addr) == m_timers \ FromBound(n, addr)

\* What lies before the bound, and what the loop after it steps over: it stops at the
\* first timer whose m_next is not n.
Expired(n, addr) ==
    LET bound == FromBound(n, addr)
    IN  (m_timers \ bound) \cup
        {a \in bound : \A b \in bound : b = a \/ Less(b, a) => m_next[b[2]] = n}

\* Mutant of Collect: a recurring timer is not armed again.
MutCollectOnce(d, S) ==
    LET due == {a[2] : a \in S}
    IN  /\ cbs' = [cbs EXCEPT ![d] = due]
        /\ m_timers' = m_timers \ S
        /\ m_cb' = m_cb \ due
        /\ UNCHANGED m_next
\* Mutant of Collect: the callback of a one-shot timer is not cleared.
MutCollectKeepsCb(d, S) ==
    LET due   == {a[2] : a \in S}
        again == {x \in due : m_recurring[x]}
    IN  /\ cbs' = [cbs EXCEPT ![d] = due]
        /\ m_next' = [x \in Timers |-> IF x \in again THEN now[d] + m_ms[x] ELSE m_next[x]]
        /\ m_timers' = (m_timers \ S) \cup {<<now[d] + m_ms[x], x>> : x \in again}
        /\ UNCHANGED m_cb

\* The expired timers S leave the set; recurring ones return to it, the callback
\* of the others is cleared.
Collect(d, S) ==
    LET due   == {a[2] : a \in S}
        again == {x \in due : m_recurring[x]}
    IN  /\ cbs' = [cbs EXCEPT ![d] = due]
        /\ m_next' = [x \in Timers |-> IF x \in again THEN now[d] + m_ms[x] ELSE m_next[x]]
        /\ m_timers' = (m_timers \ S) \cup {<<now[d] + m_ms[x], x>> : x \in again}
        /\ m_cb' = m_cb \ (due \ again)

\* listExpiredCb() with timers in the set.  It returns early if the first is not due.
ListExpired(d) ==
    /\ pc[d] = "listing" /\ m_timers # {}
    /\ pc' = [pc EXCEPT ![d] = "awake"]
    /\ now' = [now EXCEPT ![d] = 0]
    /\ m_previouseTime' = now[d]
    /\ IF detectClockRollover(now[d]) THEN Collect(d, m_timers)
       ELSE IF m_next[First(m_timers)[2]] > now[d] THEN Collect(d, {})
       ELSE \E addr \in Timers \cup {0} : Collect(d, Expired(now[d], addr))
    /\ UNCHANGED <<clock, setbacks, m_ms, m_recurring, fresh, m_tickled, notify,
                   signal, wait, ran, cancelled, hastened, fault>>

\* Either test of m_timers.empty() succeeds.
ListNothing(d) ==
    /\ pc[d] = "listing" /\ m_timers = {}
    /\ pc' = [pc EXCEPT ![d] = "awake"]
    /\ now' = [now EXCEPT ![d] = 0]
    /\ UNCHANGED <<clock, setbacks, timerVars, m_tickled, m_previouseTime, notify,
                   signal, wait, cbs, ghostVars, fault>>

\* The dispatcher runs what it has collected, without the lock, before it waits
\* again.
RunCb(d, x) ==
    /\ pc[d] = "awake" /\ x \in cbs[d]
    /\ cbs' = [cbs EXCEPT ![d] = @ \ {x}]
    /\ ran' = IF m_recurring[x] THEN ran ELSE ran \cup {x}
    /\ UNCHANGED <<clock, setbacks, timerVars, m_tickled, m_previouseTime, notify,
                   signal, pc, now, wait, cancelled, hastened, fault>>
-----------------------------------------------------------------------------
\* Time passes, for the sleepers too.  No thread is held up for an Hour between
\* reading the clock and taking the lock.
Tick ==
    /\ clock < MaxClock
    /\ \A d \in Dispatchers : pc[d] = "listing" => clock < now[d] + Hour
    /\ clock' = clock + 1
    /\ wait' = [d \in Dispatchers |->
                  IF pc[d] = "asleep" /\ wait[d] > 0 THEN wait[d] - 1 ELSE wait[d]]
    /\ UNCHANGED <<setbacks, timerVars, m_tickled, m_previouseTime, notify, signal,
                   pc, now, cbs, ghostVars, fault>>

\* The system clock is set back.
SetBack(c) ==
    /\ setbacks < MaxSetBacks /\ c < clock
    /\ setbacks' = setbacks + 1
    /\ clock' = c
    /\ UNCHANGED <<timerVars, m_tickled, m_previouseTime, notify, signal, waitVars,
                   ran, cancelled, hastened, fault>>

Dispatch(d) ==
    \/ GetNextTimer(d) \/ WakeUp(d) \/ ListExpired(d) \/ ListNothing(d)
    \/ \E x \in Timers : RunCb(d, x)

User(x) ==
    \/ Insert(x) \/ Cancel(x) \/ Refresh(x)
    \/ \E ms \in Ms, b \in BOOLEAN : AddTimer(x, ms, b) \/ Reset(x, ms, b)

Next ==
    /\ fault = "none"
    /\ \/ \E d \in Dispatchers : Dispatch(d)
       \/ \E x \in Timers : User(x)
       \/ OnTimerInsertedAtFront
       \/ Tick
       \/ \E c \in 0..MaxClock : SetBack(c)

Spec == Init /\ [][Next]_vars

\* The threads that wait for timers run, a notification that is due is given and
\* time passes.
FairSpec ==
    /\ Spec
    /\ \A d \in Dispatchers : WF_vars(fault = "none" /\ Dispatch(d))
    /\ WF_vars(fault = "none" /\ OnTimerInsertedAtFront)
    /\ WF_vars(fault = "none" /\ Tick)
-----------------------------------------------------------------------------
InFlight(x) == {d \in Dispatchers : x \in cbs[d]}

\* A timer has a callback exactly while it is in the set, under the key it was
\* inserted with: so find() in cancel(), refresh() and reset() never misses it
\* and cancel() never erases end(), on whatever thread it is called.
ArmedIffStored ==
    /\ fault = "none"
    /\ m_timers = {Entry(x) : x \in m_cb \ fresh}

\* No timer is lost and no one-shot timer fires twice: it is in the set, or with
\* one thread that is about to run it, or has run, or was cancelled, and only one
\* of these; cancel() has returned true only if the callback does not run.  A
\* recurring timer stays in the set until it is cancelled.
TimerConserved ==
    \A x \in Created \ fresh :
        LET stored == \E a \in m_timers : a[2] = x
        IN  IF m_recurring[x] THEN stored # (x \in cancelled)
            ELSE /\ InFlight(x) # {} \/ stored \/ x \in ran \/ x \in cancelled
                 /\ \A d, e \in InFlight(x) : d = e
                 /\ InFlight(x) # {} => ~stored /\ x \notin ran \cup cancelled
                 /\ stored => x \notin ran \cup cancelled
                 /\ x \in ran => x \notin cancelled

\* Unless the clock was set back, listExpiredCb() takes every armed timer that was due
\* when it read the clock and no other, wherever now_timer lies among those with the
\* same time: it looks at the first, at the bound and at those after it only, and
\* relies on the order of the set being that of the present m_next.
ExpiredExact ==
    [][\A d \in Dispatchers :
          ListExpired(d) /\ ~detectClockRollover(now[d]) =>
              cbs'[d] = {x \in m_cb \ fresh : m_next[x] <= now[d]}]_vars

\* Some dispatcher is awake, or wakes when the first timer is due or earlier, or
\* is being notified.
WokenInTime ==
    \/ m_timers = {} \/ notify > 0 \/ signal
    \/ \E d \in Dispatchers :
          \/ pc[d] # "asleep" \/ wait[d] = 0
          \/ wait[d] # Forever /\ clock + wait[d] <= First(m_timers)[1]

\* The dispatchers never all sleep past the first timer with no notification on
\* its way: m_tickled never holds one back that is needed.  (Unless the clock was
\* set back, or a refresh() has brought a timer forward.)
NoOversleep == ~hastened /\ setbacks = 0 => WokenInTime

\* Until the clock is set back no timer is collected before it is due, though
\* two threads may come to the lock in another order than they read the clock.
NeverEarly ==
    [][\A d \in Dispatchers :
          ListExpired(d) /\ setbacks = 0 => \A x \in cbs'[d] : m_next[x] <= clock]_vars

\* A stored timer that becomes due within the bound of the clock is collected, or
\* put off or cancelled by its owner, although a thread without timers sleeps until
\* it is notified and the clock may be set back meanwhile.  (Unless a refresh() has
\* brought a timer forward.)
ComesDue(x) == \E n \in 0..MaxClock : <<n, x>> \in m_timers
DueTimerFires ==
    \A x \in Timers : ComesDue(x) ~> (~ComesDue(x) \/ InFlight(x) # {} \/ hastened)
=============================================================================
