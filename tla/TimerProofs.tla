---------------------------- MODULE TimerProofs ----------------------------
(***************************************************************************)
(* Proofs about Timer: the ordered set agrees with the timers' state, no    *)
(* timer is lost or fires twice, none fires early and the waiting threads    *)
(* never all sleep past the first timer, for every set of timers, threads    *)
(* and delays.                                                              *)
(***************************************************************************)
EXTENDS Timer, WellFoundedInduction, TLAPS

\* Every time a timer can be due at is a natural number, and a delay after a
\* reading of the clock is such a time.
LEMMA TimesFacts ==
    /\ Times \subseteq Nat
    /\ 0 \in Times
    /\ \A c \in 0..MaxClock, m \in Ms \cup {0} : c \in Nat /\ m \in Nat /\ c + m \in Times
    /\ \A a \in Times, c \in Nat : c <= a => a - c \in Times
<1> DEFINE Longest == CHOOSE m \in Ms : \A n \in Ms : n <= m
<1>1. Longest \in Ms /\ \A n \in Ms : n <= Longest
  BY TimerAssumption
<1>2. MaxClock \in Nat /\ Longest \in Nat
  BY <1>1, TimerAssumption
<1>3. Times = 0..(MaxClock + Longest)
  BY DEF Times
<1> HIDE DEF Longest
<1> QED
  BY <1>1, <1>2, <1>3, TimerAssumption

\* A nonempty set of natural numbers has a least element.
LEMMA LeastNat ==
    ASSUME NEW S \in SUBSET Nat, S # {}
    PROVE  \E m \in S : \A n \in S : m <= n
<1>1. PICK m \in S : \A n \in S : ~(<<n, m>> \in OpToRel(<, Nat))
  BY WFMin, NatLessThanWellFounded, Zenon
<1>2. ASSUME NEW n \in S
      PROVE  ~(n < m)
  BY <1>1, <1>2, Zenon DEF OpToRel
<1>3. \A n \in S : n \in Nat /\ m \in Nat
  OBVIOUS
<1> QED
  BY <1>2, <1>3

\* begin() of a nonempty set: an element of it, before every other one.
LEMMA FirstIsLeast ==
    ASSUME NEW S \in SUBSET (Nat \X Nat), S # {}
    PROVE  First(S) \in S /\ \A b \in S : First(S)[1] <= b[1]
<1> DEFINE Dues == {a[1] : a \in S}
<1>1. PICK t \in Dues : \A n \in Dues : t <= n
  <2>1. Dues \in SUBSET Nat /\ Dues # {}
    OBVIOUS
  <2> HIDE DEF Dues
  <2> QED
    BY <2>1, LeastNat
<1> DEFINE Addrs == {a[2] : a \in {b \in S : b[1] = t}}
<1>2. PICK x \in Addrs : \A n \in Addrs : x <= n
  <2>1. Addrs \in SUBSET Nat /\ Addrs # {}
    BY <1>1
  <2> HIDE DEF Addrs
  <2> QED
    BY <2>1, LeastNat
<1>3. <<t, x>> \in S /\ t \in Nat /\ x \in Nat
  BY <1>1, <1>2
<1>4. \A b \in S \ {<<t, x>>} : Less(<<t, x>>, b)
  <2> SUFFICES ASSUME NEW b \in S \ {<<t, x>>}
               PROVE  Less(<<t, x>>, b)
    OBVIOUS
  <2>1. b = <<b[1], b[2]>> /\ b[1] \in Nat /\ b[2] \in Nat
    OBVIOUS
  <2>2. t <= b[1]
    BY <1>1
  <2>3. b[1] = t => x <= b[2] /\ x # b[2]
    BY <1>2, <2>1
  <2> QED
    BY <1>3, <2>1, <2>2, <2>3 DEF Less
<1>5. First(S) \in S /\ \A b \in S \ {First(S)} : Less(First(S), b)
  BY <1>3, <1>4 DEF First
<1> QED
  BY <1>5 DEF Less
-----------------------------------------------------------------------------
\* The ordered set holds the timers that have a callback and are inserted, each
\* under its present m_next.
Stored ==
    /\ fresh \subseteq m_cb
    /\ ArmedIffStored

\* Where a timer can be.  A callback that was collected is run before the thread
\* waits again, so a thread that collects has none left.
Lives ==
    /\ \A d \in Dispatchers : pc[d] # "awake" => cbs[d] = {}
    /\ \A x \in m_cb : x \notin ran /\ x \notin cancelled
    /\ \A x \in fresh, d \in Dispatchers : x \notin cbs[d]
    /\ \A x \in ran : ~m_recurring[x] /\ x \notin cancelled
    /\ \A d \in Dispatchers : \A x \in cbs[d] :
          IF m_recurring[x] THEN x \in m_cb \/ x \in cancelled
          ELSE /\ x \notin m_cb /\ x \notin ran /\ x \notin cancelled
               /\ \A e \in Dispatchers : x \in cbs[e] => e = d

\* Until the clock is set back: what was read of it is not ahead of it, nor an
\* Hour behind when the lock is taken.
Monotone ==
    setbacks = 0 =>
        /\ m_previouseTime <= clock
        /\ \A d \in Dispatchers :
              pc[d] = "listing" => now[d] <= clock /\ clock <= now[d] + Hour

\* Some dispatcher looks at the timers again before it sleeps, or is told to.
Aware ==
    \/ notify > 0 \/ signal
    \/ \E d \in Dispatchers : pc[d] # "asleep" \/ wait[d] = 0

\* Some dispatcher wakes no later than every timer.
OnTime ==
    \/ m_timers = {}
    \/ \E d \in Dispatchers :
          wait[d] # Forever /\ \A b \in m_timers : clock + wait[d] <= b[1]

\* m_tickled holds a notification back only while one is on its way or somebody
\* is awake; otherwise the sleepers wake in time.
Punctual ==
    /\ m_tickled => Aware
    /\ ~hastened /\ setbacks = 0 => Aware \/ OnTime

TimerInv == TypeOK /\ Stored /\ Lives /\ Monotone /\ Punctual
-----------------------------------------------------------------------------
\* The numbers of a state that has its types.
LEMMA TypeNumbers ==
    ASSUME TypeOK
    PROVE  /\ clock \in Nat /\ clock \in 0..MaxClock
           /\ \A x \in Timers : /\ m_next[x] \in Nat /\ m_next[x] \in Times
                                /\ m_ms[x] \in Nat /\ clock + m_ms[x] \in Times
           /\ \A ms \in Ms : ms \in Nat /\ clock + ms \in Times
           /\ \A d \in Dispatchers : /\ wait[d] \in Nat \cup {Forever}
                                     /\ now[d] \in Nat
                                     /\ \A x \in Timers : now[d] + m_ms[x] \in Times
           /\ \A a \in m_timers : a[1] \in Nat /\ a[2] \in Timers
BY TimesFacts, TimerAssumption DEF TypeOK

\* The first timer of the set is one of it, and no other is due before it.
LEMMA FirstTimer ==
    ASSUME TypeOK, m_timers # {}
    PROVE  /\ First(m_timers) \in m_timers
           /\ First(m_timers)[1] \in Times
           /\ \A b \in m_timers : First(m_timers)[1] <= b[1]
<1>1. m_timers \in SUBSET (Nat \X Nat)
  BY TimesFacts, TimerAssumption DEF TypeOK
<1>2. First(m_timers) \in m_timers /\ \A b \in m_timers : First(m_timers)[1] <= b[1]
  BY <1>1, FirstIsLeast
<1> QED
  BY <1>2 DEF TypeOK

\* What the private addTimer() does: the entry is in the set, and unless a
\* notification is decided or held back some other timer is due no later.
LEMMA InsertFacts ==
    ASSUME TypeOK, NEW S \in SUBSET (Times \X Timers), NEW e \in Times \X Timers,
           InsertAnnounced(S, e)
    PROVE  /\ m_timers' = S \cup {e}
           /\ m_tickled' \in BOOLEAN
           /\ notify' \in 0..MaxNotify /\ notify <= notify'
           /\ m_tickled' => m_tickled \/ notify' > 0
           /\ m_tickled \/ notify' > 0 \/ \E b \in S : b[1] <= e[1]
<1>1. S \cup {e} \in SUBSET (Nat \X Nat)
  BY TimesFacts, TimerAssumption
<1>2. First(S \cup {e}) \in S \cup {e} /\ First(S \cup {e})[1] <= e[1]
  BY <1>1, FirstIsLeast
<1>3. /\ m_timers' = S \cup {e}
      /\ m_tickled' = (m_tickled \/ (First(S \cup {e}) = e /\ ~m_tickled))
      /\ notify < MaxNotify
      /\ notify' = IF First(S \cup {e}) = e /\ ~m_tickled THEN notify + 1 ELSE notify
  BY DEF InsertAnnounced
<1>4. notify \in Nat /\ MaxNotify \in Nat /\ m_tickled \in BOOLEAN
  BY TimerAssumption DEF TypeOK
<1>5. CASE First(S \cup {e}) = e
  BY <1>3, <1>4, <1>5
<1>6. CASE First(S \cup {e}) # e
  BY <1>2, <1>3, <1>4, <1>6
<1> QED
  BY <1>5, <1>6

\* What reset() does: the timer's entry is replaced by one for its new m_next.
LEMMA ResetFacts ==
    ASSUME TypeOK, NEW x \in Timers, NEW ms \in Ms, NEW b \in BOOLEAN, Reset(x, ms, b)
    PROVE  \E next \in Times :
              /\ m_ms' = [m_ms EXCEPT ![x] = ms]
              /\ m_next' = [m_next EXCEPT ![x] = next]
              /\ m_timers' = (m_timers \ {Entry(x)}) \cup {<<next, x>>}
              /\ m_tickled' \in BOOLEAN
              /\ notify' \in 0..MaxNotify /\ notify <= notify'
              /\ m_tickled' => m_tickled \/ notify' > 0
              /\ \/ m_tickled \/ notify' > 0
                 \/ \E a \in m_timers : a[1] <= next
<1> DEFINE next == (IF b THEN clock ELSE m_next[x] - ms) + ms
           S == m_timers \ {Entry(x)}
           e == <<next, x>>
<1>1. next \in Times
  <2>1. CASE b
    BY <2>1, TypeNumbers
  <2>2. CASE ~b
    <3>1. m_next[x] \in Nat /\ ms \in Nat /\ m_next[x] \in Times
      BY TypeNumbers
    <3>2. next = m_next[x]
      BY <2>2, <3>1
    <3> QED
      BY <3>1, <3>2
  <2> QED
    BY <2>1, <2>2
<1>2. S \in SUBSET (Times \X Timers) /\ S \subseteq m_timers
  BY DEF TypeOK
<1>3. /\ m_ms' = [m_ms EXCEPT ![x] = ms]
      /\ m_next' = [m_next EXCEPT ![x] = next]
      /\ InsertAnnounced(S, e)
  BY DEF Reset
<1> HIDE DEF next
<1>4. e \in Times \X Timers /\ e[1] = next
  BY <1>1
<1> HIDE DEF e, S
<1>5. /\ m_timers' = S \cup {e}
      /\ m_tickled' \in BOOLEAN
      /\ notify' \in 0..MaxNotify /\ notify <= notify'
      /\ m_tickled' => m_tickled \/ notify' > 0
      /\ m_tickled \/ notify' > 0 \/ \E a \in S : a[1] <= e[1]
  BY <1>2, <1>3, <1>4, InsertFacts
<1>6. S = m_timers \ {Entry(x)} /\ e = <<next, x>>
  BY DEF S, e
<1> QED
  BY <1>1, <1>2, <1>3, <1>4, <1>5, <1>6

\* listExpiredCb() collects some of the stored timers.
LEMMA ListCollects ==
    ASSUME NEW d \in Dispatchers, ListExpired(d)
    PROVE  \E S \in SUBSET m_timers : Collect(d, S)
<1>1. CASE detectClockRollover(now[d])
  BY <1>1 DEF ListExpired
<1>2. CASE ~detectClockRollover(now[d]) /\ m_next[First(m_timers)[2]] > now[d]
  BY <1>2 DEF ListExpired
<1>3. CASE ~detectClockRollover(now[d]) /\ ~(m_next[First(m_timers)[2]] > now[d])
  <2>1. PICK addr \in Timers \cup {0} : Collect(d, Expired(now[d], addr))
    BY <1>3 DEF ListExpired
  <2>2. Expired(now[d], addr) \in SUBSET m_timers
    BY DEF Expired, FromBound
  <2> QED
    BY <2>1, <2>2
<1> QED
  BY <1>1, <1>2, <1>3

\* What collecting the entries S changes.
LEMMA CollectFacts ==
    ASSUME TypeOK, Stored, NEW d \in Dispatchers, NEW S \in SUBSET m_timers,
           Collect(d, S)
    PROVE  \E due \in SUBSET (m_cb \ fresh) :
              LET again == {x \in due : m_recurring[x]}
              IN  /\ S = {Entry(x) : x \in due}
                  /\ cbs' = [cbs EXCEPT ![d] = due]
                  /\ m_next' = [x \in Timers |-> IF x \in again THEN now[d] + m_ms[x]
                                                 ELSE m_next[x]]
                  /\ m_timers' = (m_timers \ S) \cup {<<now[d] + m_ms[x], x>> : x \in again}
                  /\ m_cb' = m_cb \ (due \ again)
<1> DEFINE due == {a[2] : a \in S}
<1>1. \A a \in S : a[2] \in m_cb \ fresh /\ a = Entry(a[2])
  BY DEF Stored, ArmedIffStored, Entry
<1>2. due \in SUBSET (m_cb \ fresh) /\ S = {Entry(x) : x \in due}
  BY <1>1
<1> QED
  BY <1>2 DEF Collect

\* listExpiredCb() keeps the types: a recurring timer is due again one delay after
\* the clock was read.
LEMMA ListExpiredType ==
    ASSUME TypeOK, Stored, NEW d \in Dispatchers, ListExpired(d)
    PROVE  TypeOK'
<1>1. PICK S \in SUBSET m_timers : Collect(d, S)
  BY ListCollects
<1>2. \A x \in Timers : now[d] + m_ms[x] \in Times
  BY TypeNumbers
<1>3. PICK due \in SUBSET (m_cb \ fresh) :
            LET again == {x \in due : m_recurring[x]}
            IN  /\ cbs' = [cbs EXCEPT ![d] = due]
                /\ m_next' = [x \in Timers |-> IF x \in again THEN now[d] + m_ms[x]
                                               ELSE m_next[x]]
                /\ m_timers' = (m_timers \ S) \cup {<<now[d] + m_ms[x], x>> : x \in again}
                /\ m_cb' = m_cb \ (due \ again)
  BY <1>1, CollectFacts
<1>4. /\ m_next' \in [Timers -> Times] /\ m_timers' \subseteq Times \X Timers
      /\ m_cb' \subseteq Timers /\ cbs' \in [Dispatchers -> SUBSET Timers]
  BY <1>2, <1>3 DEF TypeOK
<1>5. 0 \in 0..MaxClock
  BY TimerAssumption
<1>6. /\ pc' = [pc EXCEPT ![d] = "awake"] /\ now' = [now EXCEPT ![d] = 0]
      /\ m_previouseTime' = now[d]
      /\ UNCHANGED <<clock, setbacks, m_ms, m_recurring, fresh, m_tickled, notify,
                     signal, wait, ran, cancelled, hastened, fault>>
  BY DEF ListExpired
<1> QED
  BY <1>4, <1>5, <1>6 DEF TypeOK

\* Every step keeps the types.
LEMMA TypeStep ==
    ASSUME TypeOK, Stored, [Next]_vars
    PROVE  TypeOK'
<1> USE TimerAssumption, TimesFacts
<1>1. ASSUME NEW d \in Dispatchers, GetNextTimer(d), fault = "none" PROVE TypeOK'
  <2>1. m_timers # {} => First(m_timers)[1] \in Times
    BY FirstTimer
  <2>2. (IF m_timers = {} THEN Forever
            ELSE IF clock >= First(m_timers)[1] THEN 0
            ELSE First(m_timers)[1] - clock) \in Times \cup {Forever}
    <3>1. CASE m_timers # {} /\ ~(clock >= First(m_timers)[1])
      <4>1. First(m_timers)[1] \in Nat /\ clock \in Nat
        BY <2>1, <3>1, TypeNumbers
      <4>2. First(m_timers)[1] - clock \in Times
        BY <2>1, <3>1, <4>1
      <4> QED
        BY <3>1, <4>2
    <3>2. CASE m_timers = {} \/ clock >= First(m_timers)[1]
      BY <3>2
    <3> QED
      BY <3>1, <3>2
  <2> QED
    BY <1>1, <2>2 DEF GetNextTimer, TypeOK, timerVars, ghostVars
<1>2. ASSUME NEW d \in Dispatchers, WakeUp(d), fault = "none" PROVE TypeOK'
  BY <1>2 DEF WakeUp, TypeOK, Forever, timerVars, waitVars, ghostVars
<1>3. ASSUME NEW d \in Dispatchers, ListExpired(d), fault = "none" PROVE TypeOK'
  BY <1>3, ListExpiredType
<1>4. ASSUME NEW d \in Dispatchers, ListNothing(d), fault = "none" PROVE TypeOK'
  BY <1>4 DEF ListNothing, TypeOK, Forever, timerVars, waitVars, ghostVars
<1>5. ASSUME NEW d \in Dispatchers, NEW x \in Timers, RunCb(d, x), fault = "none" PROVE TypeOK'
  BY <1>5 DEF RunCb, TypeOK, Forever, timerVars, waitVars, ghostVars
<1>6. ASSUME NEW x \in Timers, Insert(x), fault = "none" PROVE TypeOK'
  <2>1. Entry(x) \in Times \X Timers /\ m_timers \in SUBSET (Times \X Timers)
    BY DEF Entry, TypeOK
  <2>2. /\ m_timers' = m_timers \cup {Entry(x)}
        /\ m_tickled' \in BOOLEAN /\ notify' \in 0..MaxNotify
    BY <1>6, <2>1, InsertFacts DEF Insert
  <2> QED
    BY <1>6, <2>1, <2>2 DEF Insert, TypeOK, waitVars, ghostVars
<1>7. ASSUME NEW x \in Timers, Cancel(x), fault = "none" PROVE TypeOK'
  BY <1>7 DEF Cancel, TypeOK, Forever, timerVars, waitVars, ghostVars
<1>8. ASSUME NEW x \in Timers, Refresh(x), fault = "none" PROVE TypeOK'
  <2>1. clock + m_ms[x] \in Times
    BY DEF TypeOK
  <2>2. m_timers' \subseteq Times \X Timers
    BY <1>8, <2>1 DEF Refresh, TypeOK
  <2> QED
    BY <1>8, <2>1, <2>2 DEF Refresh, TypeOK, waitVars
<1>9. ASSUME NEW x \in Timers, NEW ms \in Ms, NEW b \in BOOLEAN, AddTimer(x, ms, b),
             fault = "none" PROVE TypeOK'
  BY <1>9 DEF AddTimer, TypeOK, Forever, timerVars, waitVars, ghostVars
<1>10. ASSUME NEW x \in Timers, NEW ms \in Ms, NEW b \in BOOLEAN, Reset(x, ms, b),
              fault = "none" PROVE TypeOK'
  <2>1. PICK next \in Times :
          /\ m_ms' = [m_ms EXCEPT ![x] = ms]
          /\ m_next' = [m_next EXCEPT ![x] = next]
          /\ m_timers' = (m_timers \ {Entry(x)}) \cup {<<next, x>>}
          /\ m_tickled' \in BOOLEAN /\ notify' \in 0..MaxNotify
    BY <1>10, ResetFacts
  <2>2. m_timers' \subseteq Times \X Timers
    BY <2>1 DEF TypeOK
  <2>3. UNCHANGED <<clock, setbacks, m_recurring, m_cb, fresh, m_previouseTime,
                    signal, waitVars, ghostVars, fault>>
    BY <1>10 DEF Reset
  <2> QED
    BY <2>1, <2>2, <2>3 DEF TypeOK, waitVars, ghostVars
<1>11. ASSUME OnTimerInsertedAtFront, fault = "none" PROVE TypeOK'
  BY <1>11 DEF OnTimerInsertedAtFront, TypeOK, Forever, timerVars, waitVars, ghostVars
<1>12. ASSUME Tick, fault = "none" PROVE TypeOK'
  <2>1. \A d \in Dispatchers :
           (IF pc[d] = "asleep" /\ wait[d] > 0 THEN wait[d] - 1 ELSE wait[d])
              \in Times \cup {Forever}
    <3> SUFFICES ASSUME NEW d \in Dispatchers, wait[d] > 0
                 PROVE  wait[d] - 1 \in Times \cup {Forever}
      BY DEF TypeOK
    <3>1. wait[d] \in Nat /\ 1 \in Nat /\ 1 <= wait[d]
      BY TypeNumbers DEF Forever
    <3>2. wait[d] \in Times
      BY <3>1 DEF TypeOK, Forever
    <3> QED
      BY <3>1, <3>2
  <2> QED
    BY <1>12, <2>1 DEF Tick, TypeOK, timerVars, ghostVars
<1>13. ASSUME NEW c \in 0..MaxClock, SetBack(c), fault = "none" PROVE TypeOK'
  BY <1>13 DEF SetBack, TypeOK, Forever, timerVars, waitVars, ghostVars
<1>14. CASE UNCHANGED vars
  BY <1>14 DEF vars, TypeOK, Forever, timerVars, waitVars, ghostVars
<1> QED
  BY <1>1, <1>2, <1>3, <1>4, <1>5, <1>6, <1>7, <1>8, <1>9, <1>10, <1>11, <1>12, <1>13,
     <1>14 DEF Next, Dispatch, User

\* Every step keeps the set and the timers' state in agreement: the key of a
\* stored timer changes only together with its entry.
LEMMA StoredStep ==
    ASSUME TypeOK, Stored, [Next]_vars
    PROVE  Stored'
<1>1. ASSUME NEW d \in Dispatchers, GetNextTimer(d), fault = "none" PROVE Stored'
  BY <1>1 DEF GetNextTimer, TypeOK, Stored, ArmedIffStored, Entry, Found, timerVars,
     waitVars, ghostVars
<1>2. ASSUME NEW d \in Dispatchers, WakeUp(d), fault = "none" PROVE Stored'
  BY <1>2 DEF WakeUp, TypeOK, Stored, ArmedIffStored, Entry, Found, timerVars, waitVars,
     ghostVars
<1>3. ASSUME NEW d \in Dispatchers, ListExpired(d), fault = "none" PROVE Stored'
  <2>1. PICK S \in SUBSET m_timers : Collect(d, S)
    BY <1>3, ListCollects
  <2>2. PICK due \in SUBSET (m_cb \ fresh) :
              LET again == {x \in due : m_recurring[x]}
              IN  /\ S = {Entry(x) : x \in due}
                  /\ m_next' = [x \in Timers |-> IF x \in again THEN now[d] + m_ms[x]
                                                 ELSE m_next[x]]
                  /\ m_timers' = (m_timers \ S) \cup {<<now[d] + m_ms[x], x>> : x \in again}
                  /\ m_cb' = m_cb \ (due \ again)
    BY <2>1, CollectFacts
  <2>3. fresh' = fresh /\ fault' = fault
    BY <1>3 DEF ListExpired
  <2> DEFINE again == {x \in due : m_recurring[x]}
  <2>4. m_timers' = {Entry(x) : x \in (m_cb \ fresh) \ due}
                      \cup {<<now[d] + m_ms[x], x>> : x \in again}
    BY <2>2 DEF Stored, ArmedIffStored, Entry
  <2>5. m_cb' \ fresh' = ((m_cb \ fresh) \ due) \cup again
    BY <2>2, <2>3
  <2>6. /\ \A x \in again : Entry(x)' = <<now[d] + m_ms[x], x>>
        /\ \A x \in (m_cb \ fresh) \ due : Entry(x)' = Entry(x)
    BY <2>2 DEF Entry, TypeOK
  <2>7. m_timers' = {Entry(x)' : x \in m_cb' \ fresh'}
    <3> HIDE DEF again
    <3> QED
      BY <2>4, <2>5, <2>6
  <2>8. fresh' \subseteq m_cb'
    BY <2>2, <2>3 DEF Stored
  <2> QED
    BY <2>3, <2>7, <2>8 DEF Stored, ArmedIffStored
<1>4. ASSUME NEW d \in Dispatchers, ListNothing(d), fault = "none" PROVE Stored'
  BY <1>4 DEF ListNothing, TypeOK, Stored, ArmedIffStored, Entry, Found, timerVars, waitVars,
     ghostVars
<1>5. ASSUME NEW d \in Dispatchers, NEW x \in Timers, RunCb(d, x), fault = "none" PROVE Stored'
  BY <1>5 DEF RunCb, TypeOK, Stored, ArmedIffStored, Entry, Found, timerVars, waitVars,
     ghostVars
<1>6. ASSUME NEW x \in Timers, Insert(x), fault = "none" PROVE Stored'
  <2>1. Entry(x) \in Times \X Timers /\ m_timers \in SUBSET (Times \X Timers)
    BY DEF Entry, TypeOK
  <2>2. m_timers' = m_timers \cup {Entry(x)}
    BY <1>6, <2>1, InsertFacts DEF Insert
  <2>3. \A y \in Timers : Entry(y)' = Entry(y)
    BY <1>6 DEF Insert, Entry
  <2>4. m_cb' \ fresh' = (m_cb \ fresh) \cup {x} /\ m_cb \subseteq Timers
    BY <1>6 DEF Insert, Stored, TypeOK
  <2> QED
    BY <1>6, <2>2, <2>3, <2>4 DEF Insert, Stored, ArmedIffStored
<1>7. ASSUME NEW x \in Timers, Cancel(x), fault = "none" PROVE Stored'
  BY <1>7 DEF Cancel, TypeOK, Stored, ArmedIffStored, Entry, Found, timerVars, waitVars,
     ghostVars
<1>8. ASSUME NEW x \in Timers, Refresh(x), fault = "none" PROVE Stored'
  BY <1>8 DEF Refresh, TypeOK, Stored, ArmedIffStored, Entry, Found, timerVars, waitVars,
     ghostVars
<1>9. ASSUME NEW x \in Timers, NEW ms \in Ms, NEW b \in BOOLEAN, AddTimer(x, ms, b),
             fault = "none" PROVE Stored'
  <2>1. x \notin m_cb
    BY <1>9 DEF AddTimer, Created
  <2>2. m_cb' \ fresh' = m_cb \ fresh /\ fresh' \subseteq m_cb'
    BY <1>9, <2>1 DEF AddTimer, Stored
  <2>3. \A y \in m_cb \ fresh : Entry(y)' = Entry(y)
    BY <1>9, <2>1 DEF AddTimer, Entry, TypeOK
  <2>4. m_timers' = m_timers /\ fault' = fault
    BY <1>9 DEF AddTimer
  <2> QED
    BY <2>2, <2>3, <2>4 DEF Stored, ArmedIffStored
<1>10. ASSUME NEW x \in Timers, NEW ms \in Ms, NEW b \in BOOLEAN, Reset(x, ms, b),
              fault = "none" PROVE Stored'
  <2>1. PICK next \in Times :
          /\ m_next' = [m_next EXCEPT ![x] = next]
          /\ m_timers' = (m_timers \ {Entry(x)}) \cup {<<next, x>>}
    BY <1>10, ResetFacts
  <2>2. /\ x \in m_cb \ fresh
        /\ m_cb' = m_cb /\ fresh' = fresh /\ fault' = fault
    BY <1>10 DEF Reset
  <2>3. Entry(x)' = <<next, x>> /\ \A y \in m_cb \ {x} : Entry(y)' = Entry(y)
    BY <2>1 DEF Entry, TypeOK
  <2>4. m_timers \ {Entry(x)} = {Entry(y) : y \in (m_cb \ fresh) \ {x}}
    BY DEF Stored, ArmedIffStored, Entry
  <2> QED
    BY <2>1, <2>2, <2>3, <2>4 DEF Stored, ArmedIffStored
<1>11. ASSUME OnTimerInsertedAtFront, fault = "none" PROVE Stored'
  BY <1>11 DEF OnTimerInsertedAtFront, TypeOK, Stored, ArmedIffStored, Entry, Found,
     timerVars, waitVars, ghostVars
<1>12. ASSUME Tick, fault = "none" PROVE Stored'
  BY <1>12 DEF Tick, TypeOK, Stored, ArmedIffStored, Entry, Found, timerVars, waitVars,
     ghostVars
<1>13. ASSUME NEW c \in 0..MaxClock, SetBack(c), fault = "none" PROVE Stored'
  BY <1>13 DEF SetBack, TypeOK, Stored, ArmedIffStored, Entry, Found, timerVars, waitVars,
     ghostVars
<1>14. CASE UNCHANGED vars
  BY <1>14 DEF vars, TypeOK, Stored, ArmedIffStored, Entry, Found, timerVars, waitVars,
     ghostVars
<1> QED
  BY <1>1, <1>2, <1>3, <1>4, <1>5, <1>6, <1>7, <1>8, <1>9, <1>10, <1>11, <1>12, <1>13,
     <1>14 DEF Next, Dispatch, User

\* Every step keeps each timer in one place.
LEMMA LivesStep ==
    ASSUME TypeOK, Stored, Lives, [Next]_vars
    PROVE  Lives'
<1>1. ASSUME NEW d \in Dispatchers, GetNextTimer(d), fault = "none" PROVE Lives'
  BY <1>1 DEF GetNextTimer, TypeOK, Stored, ArmedIffStored, Entry, Found, Lives, timerVars,
     waitVars, ghostVars
<1>2. ASSUME NEW d \in Dispatchers, WakeUp(d), fault = "none" PROVE Lives'
  BY <1>2 DEF WakeUp, TypeOK, Stored, ArmedIffStored, Entry, Found, Lives, timerVars,
     waitVars, ghostVars
<1>3. ASSUME NEW d \in Dispatchers, ListExpired(d), fault = "none" PROVE Lives'
  <2>1. PICK S \in SUBSET m_timers : Collect(d, S)
    BY <1>3, ListCollects
  <2>2. PICK due \in SUBSET (m_cb \ fresh) :
                  /\ cbs' = [cbs EXCEPT ![d] = due]
                  /\ m_cb' = m_cb \ (due \ {x \in due : m_recurring[x]})
    BY <2>1, CollectFacts
  <2>3. /\ pc[d] = "listing" /\ pc' = [pc EXCEPT ![d] = "awake"]
        /\ UNCHANGED <<fresh, m_recurring, ran, cancelled>>
    BY <1>3 DEF ListExpired
  <2> QED
    BY <2>2, <2>3 DEF Lives, TypeOK, Stored
<1>4. ASSUME NEW d \in Dispatchers, ListNothing(d), fault = "none" PROVE Lives'
  BY <1>4 DEF ListNothing, TypeOK, Stored, ArmedIffStored, Entry, Found, Lives, timerVars,
     waitVars, ghostVars
<1>5. ASSUME NEW d \in Dispatchers, NEW x \in Timers, RunCb(d, x), fault = "none" PROVE Lives'
  BY <1>5 DEF RunCb, TypeOK, Stored, ArmedIffStored, Entry, Found, Lives, timerVars,
     waitVars, ghostVars
<1>6. ASSUME NEW x \in Timers, Insert(x), fault = "none" PROVE Lives'
  BY <1>6 DEF Insert, TypeOK, Stored, ArmedIffStored, Entry, Found, Lives, timerVars,
     waitVars, ghostVars
<1>7. ASSUME NEW x \in Timers, Cancel(x), fault = "none" PROVE Lives'
  BY <1>7 DEF Cancel, TypeOK, Stored, ArmedIffStored, Entry, Found, Lives, timerVars,
     waitVars, ghostVars
<1>8. ASSUME NEW x \in Timers, Refresh(x), fault = "none" PROVE Lives'
  BY <1>8 DEF Refresh, TypeOK, Stored, ArmedIffStored, Entry, Found, Lives, timerVars,
     waitVars, ghostVars
<1>9. ASSUME NEW x \in Timers, NEW ms \in Ms, NEW b \in BOOLEAN, AddTimer(x, ms, b),
             fault = "none" PROVE Lives'
  <2>1. /\ x \notin m_cb /\ x \notin ran /\ x \notin cancelled
        /\ \A d \in Dispatchers : x \notin cbs[d]
    BY <1>9 DEF AddTimer, Created
  <2>2. /\ m_recurring' = [m_recurring EXCEPT ![x] = b]
        /\ m_cb' = m_cb \cup {x} /\ fresh' = fresh \cup {x}
        /\ UNCHANGED <<pc, cbs, ran, cancelled>>
    BY <1>9 DEF AddTimer, waitVars, ghostVars
  <2>3. \A y \in Timers \ {x} : m_recurring'[y] = m_recurring[y]
    BY <2>2 DEF TypeOK
  <2>4. \A d \in Dispatchers : \A y \in cbs[d] : y \in Timers \ {x}
    BY <2>1 DEF TypeOK
  <2>5. ran \subseteq Timers \ {x}
    BY <2>1 DEF TypeOK
  <2> QED
    BY <2>1, <2>2, <2>3, <2>4, <2>5 DEF Lives
<1>10. ASSUME NEW x \in Timers, NEW ms \in Ms, NEW b \in BOOLEAN, Reset(x, ms, b),
              fault = "none" PROVE Lives'
  BY <1>10 DEF Reset, TypeOK, Stored, ArmedIffStored, Entry, Found, Lives, timerVars,
     waitVars, ghostVars
<1>11. ASSUME OnTimerInsertedAtFront, fault = "none" PROVE Lives'
  BY <1>11 DEF OnTimerInsertedAtFront, TypeOK, Stored, ArmedIffStored, Entry, Found, Lives,
     timerVars, waitVars, ghostVars
<1>12. ASSUME Tick, fault = "none" PROVE Lives'
  BY <1>12 DEF Tick, TypeOK, Stored, ArmedIffStored, Entry, Found, Lives, timerVars,
     waitVars, ghostVars
<1>13. ASSUME NEW c \in 0..MaxClock, SetBack(c), fault = "none" PROVE Lives'
  BY <1>13 DEF SetBack, TypeOK, Stored, ArmedIffStored, Entry, Found, Lives, timerVars,
     waitVars, ghostVars
<1>14. CASE UNCHANGED vars
  BY <1>14 DEF vars, TypeOK, Stored, ArmedIffStored, Entry, Found, Lives, timerVars,
     waitVars, ghostVars
<1> QED
  BY <1>1, <1>2, <1>3, <1>4, <1>5, <1>6, <1>7, <1>8, <1>9, <1>10, <1>11, <1>12, <1>13,
     <1>14 DEF Next, Dispatch, User

\* Every step keeps the readings of the clock close to it.
LEMMA MonotoneStep ==
    ASSUME TypeOK, Monotone, [Next]_vars
    PROVE  Monotone'
<1> USE TimerAssumption, TimesFacts
<1>1. ASSUME NEW d \in Dispatchers, GetNextTimer(d), fault = "none" PROVE Monotone'
  BY <1>1 DEF GetNextTimer, TypeOK, Monotone, timerVars, waitVars, ghostVars
<1>2. ASSUME NEW d \in Dispatchers, WakeUp(d), fault = "none" PROVE Monotone'
  BY <1>2 DEF WakeUp, TypeOK, Monotone, timerVars, waitVars, ghostVars
<1>3. ASSUME NEW d \in Dispatchers, ListExpired(d), fault = "none" PROVE Monotone'
  BY <1>3 DEF ListExpired, TypeOK, Monotone, timerVars, waitVars, ghostVars
<1>4. ASSUME NEW d \in Dispatchers, ListNothing(d), fault = "none" PROVE Monotone'
  BY <1>4 DEF ListNothing, TypeOK, Monotone, timerVars, waitVars, ghostVars
<1>5. ASSUME NEW d \in Dispatchers, NEW x \in Timers, RunCb(d, x), fault = "none"
      PROVE Monotone'
  BY <1>5 DEF RunCb, TypeOK, Monotone, timerVars, waitVars, ghostVars
<1>6. ASSUME NEW x \in Timers, Insert(x), fault = "none" PROVE Monotone'
  BY <1>6 DEF Insert, TypeOK, Monotone, timerVars, waitVars, ghostVars
<1>7. ASSUME NEW x \in Timers, Cancel(x), fault = "none" PROVE Monotone'
  BY <1>7 DEF Cancel, TypeOK, Monotone, timerVars, waitVars, ghostVars
<1>8. ASSUME NEW x \in Timers, Refresh(x), fault = "none" PROVE Monotone'
  BY <1>8 DEF Refresh, TypeOK, Monotone, timerVars, waitVars, ghostVars
<1>9. ASSUME NEW x \in Timers, NEW ms \in Ms, NEW b \in BOOLEAN, AddTimer(x, ms, b),
             fault = "none" PROVE Monotone'
  BY <1>9 DEF AddTimer, TypeOK, Monotone, timerVars, waitVars, ghostVars
<1>10. ASSUME NEW x \in Timers, NEW ms \in Ms, NEW b \in BOOLEAN, Reset(x, ms, b),
              fault = "none" PROVE Monotone'
  BY <1>10 DEF Reset, TypeOK, Monotone, timerVars, waitVars, ghostVars
<1>11. ASSUME OnTimerInsertedAtFront, fault = "none" PROVE Monotone'
  BY <1>11 DEF OnTimerInsertedAtFront, TypeOK, Monotone, timerVars, waitVars, ghostVars
<1>12. ASSUME Tick, fault = "none" PROVE Monotone'
  BY <1>12 DEF Tick, TypeOK, Monotone, timerVars, waitVars, ghostVars
<1>13. ASSUME NEW c \in 0..MaxClock, SetBack(c), fault = "none" PROVE Monotone'
  BY <1>13 DEF SetBack, TypeOK, Monotone, timerVars, waitVars, ghostVars
<1>14. CASE UNCHANGED vars
  BY <1>14 DEF vars, TypeOK, Monotone, timerVars, waitVars, ghostVars
<1> QED
  BY <1>1, <1>2, <1>3, <1>4, <1>5, <1>6, <1>7, <1>8, <1>9, <1>10, <1>11, <1>12, <1>13,
     <1>14 DEF Next, Dispatch, User

\* Every step keeps some dispatcher aware of the timers or waking in time.
LEMMA PunctualStep ==
    ASSUME TypeOK, Stored, Punctual, [Next]_vars
    PROVE  Punctual'
<1> USE TimerAssumption, TimesFacts
<1>1. ASSUME NEW d \in Dispatchers, GetNextTimer(d), fault = "none" PROVE Punctual'
  <2>1. m_timers # {} => /\ First(m_timers)[1] \in Times
                         /\ \A b \in m_timers : First(m_timers)[1] <= b[1]
    BY FirstTimer
  <2>2. /\ ~m_tickled' /\ m_timers' = m_timers /\ clock' = clock
        /\ wait'[d] = IF m_timers = {} THEN Forever
                      ELSE IF clock >= First(m_timers)[1] THEN 0
                      ELSE First(m_timers)[1] - clock
    BY <1>1 DEF GetNextTimer, timerVars, TypeOK
  <2>3. CASE m_timers = {}
    BY <2>2, <2>3 DEF Punctual, OnTime
  <2>4. CASE m_timers # {} /\ clock >= First(m_timers)[1]
    BY <2>2, <2>4 DEF Punctual, Aware
  <2>5. CASE m_timers # {} /\ ~(clock >= First(m_timers)[1])
    <3>1. /\ wait'[d] \in Nat /\ clock' + wait'[d] = First(m_timers)[1]
      <4>1. clock \in Nat /\ First(m_timers)[1] \in Nat
        BY <2>1, <2>5, TypeNumbers
      <4> QED
        BY <2>2, <2>5, <4>1
    <3>2. OnTime'
      BY <2>1, <2>2, <2>5, <3>1 DEF OnTime, Forever
    <3> QED
      BY <2>2, <3>2 DEF Punctual
  <2> QED
    BY <2>3, <2>4, <2>5
<1>2. ASSUME NEW d \in Dispatchers, WakeUp(d), fault = "none" PROVE Punctual'
  BY <1>2 DEF WakeUp, TypeOK, Punctual, Aware, OnTime, Forever, timerVars, waitVars, ghostVars
<1>3. ASSUME NEW d \in Dispatchers, ListExpired(d), fault = "none" PROVE Punctual'
  BY <1>3 DEF ListExpired, TypeOK, Punctual, Aware, OnTime, Forever, timerVars, waitVars,
     ghostVars
<1>4. ASSUME NEW d \in Dispatchers, ListNothing(d), fault = "none" PROVE Punctual'
  BY <1>4 DEF ListNothing, TypeOK, Punctual, Aware, OnTime, Forever, timerVars, waitVars,
     ghostVars
<1>5. ASSUME NEW d \in Dispatchers, NEW x \in Timers, RunCb(d, x), fault = "none"
      PROVE Punctual'
  BY <1>5 DEF RunCb, TypeOK, Punctual, Aware, OnTime, Forever, timerVars, waitVars, ghostVars
<1>6. ASSUME NEW x \in Timers, Insert(x), fault = "none" PROVE Punctual'
  <2>1. Entry(x) \in Times \X Timers /\ m_timers \in SUBSET (Times \X Timers)
    BY DEF Entry, TypeOK
  <2>2. /\ m_timers' = m_timers \cup {Entry(x)}
        /\ notify' \in 0..MaxNotify /\ notify <= notify'
        /\ m_tickled' => m_tickled \/ notify' > 0
        /\ m_tickled \/ notify' > 0 \/ \E b \in m_timers : b[1] <= Entry(x)[1]
    BY <1>6, <2>1, InsertFacts DEF Insert
  <2>3. UNCHANGED <<clock, setbacks, signal, pc, wait, hastened>>
    BY <1>6 DEF Insert, waitVars, ghostVars
  <2>4. Aware \/ notify' > 0 => Aware'
    BY <2>2, <2>3 DEF Aware, TypeOK
  <2>5. ASSUME OnTime, NEW b \in m_timers, b[1] <= Entry(x)[1]
        PROVE  OnTime'
    <3>1. PICK d \in Dispatchers :
             wait[d] # Forever /\ \A a \in m_timers : clock + wait[d] <= a[1]
      BY <2>5 DEF OnTime
    <3>2. clock + wait[d] <= Entry(x)[1]
      <4>1. clock \in Nat /\ wait[d] \in Nat /\ b[1] \in Nat /\ Entry(x)[1] \in Nat
        BY <2>1, <3>1, TypeNumbers
      <4> QED
        BY <2>5, <3>1, <4>1
    <3> QED
      BY <2>2, <2>3, <3>1, <3>2 DEF OnTime
  <2> QED
    BY <2>2, <2>3, <2>4, <2>5 DEF Punctual
<1>7. ASSUME NEW x \in Timers, Cancel(x), fault = "none" PROVE Punctual'
  BY <1>7 DEF Cancel, TypeOK, Punctual, Aware, OnTime, Forever, timerVars, waitVars, ghostVars
<1>8. ASSUME NEW x \in Timers, Refresh(x), fault = "none" PROVE Punctual'
  <2>1. clock + m_ms[x] \in Nat /\ m_next[x] \in Nat /\ Entry(x) \in m_timers
    BY <1>8, TypeNumbers DEF Refresh, Found
  <2>2. /\ m_timers' = (m_timers \ {Entry(x)}) \cup {<<clock + m_ms[x], x>>}
        /\ hastened' = (hastened \/ clock + m_ms[x] < m_next[x])
        /\ UNCHANGED <<clock, setbacks, m_tickled, notify, signal, pc, wait>>
    BY <1>8 DEF Refresh, waitVars
  <2>3. Aware => Aware'
    BY <2>2 DEF Aware
  <2>4. OnTime /\ ~hastened' => OnTime'
    <3> SUFFICES ASSUME OnTime, ~hastened'
                 PROVE  OnTime'
      OBVIOUS
    <3>1. PICK d \in Dispatchers :
             wait[d] # Forever /\ \A a \in m_timers : clock + wait[d] <= a[1]
      BY <2>1 DEF OnTime
    <3>2. clock + wait[d] <= clock + m_ms[x]
      <4>1. clock \in Nat /\ wait[d] \in Nat
        BY <3>1, TypeNumbers
      <4>2. clock + wait[d] <= m_next[x]
        BY <2>1, <3>1 DEF Entry
      <4>3. ~(clock + m_ms[x] < m_next[x])
        BY <2>2
      <4>4. m_ms[x] \in Nat
        BY TypeNumbers
      <4> QED
        BY <2>1, <4>1, <4>2, <4>3, <4>4
    <3> QED
      BY <2>2, <3>1, <3>2 DEF OnTime
  <2> QED
    BY <2>2, <2>3, <2>4 DEF Punctual
<1>9. ASSUME NEW x \in Timers, NEW ms \in Ms, NEW b \in BOOLEAN, AddTimer(x, ms, b),
             fault = "none" PROVE Punctual'
  BY <1>9 DEF AddTimer, TypeOK, Punctual, Aware, OnTime, Forever, timerVars, waitVars,
     ghostVars
<1>10. ASSUME NEW x \in Timers, NEW ms \in Ms, NEW b \in BOOLEAN, Reset(x, ms, b),
              fault = "none" PROVE Punctual'
  <2>1. PICK next \in Times :
          /\ m_timers' = (m_timers \ {Entry(x)}) \cup {<<next, x>>}
          /\ notify' \in 0..MaxNotify /\ notify <= notify'
          /\ m_tickled' => m_tickled \/ notify' > 0
          /\ m_tickled \/ notify' > 0 \/ \E a \in m_timers : a[1] <= next
    BY <1>10, ResetFacts
  <2>2. UNCHANGED <<clock, setbacks, signal, pc, wait, hastened>>
    BY <1>10 DEF Reset, waitVars, ghostVars
  <2>3. Aware \/ notify' > 0 => Aware'
    BY <2>1, <2>2 DEF Aware, TypeOK
  <2>4. ASSUME OnTime, NEW a \in m_timers, a[1] <= next
        PROVE  OnTime'
    <3>1. PICK d \in Dispatchers :
             wait[d] # Forever /\ \A c \in m_timers : clock + wait[d] <= c[1]
      BY <2>4 DEF OnTime
    <3>2. clock + wait[d] <= next
      <4>1. clock \in Nat /\ wait[d] \in Nat /\ a[1] \in Nat /\ next \in Nat
        BY <3>1, TypeNumbers
      <4> QED
        BY <2>4, <3>1, <4>1
    <3> QED
      BY <2>1, <2>2, <3>1, <3>2 DEF OnTime
  <2> QED
    BY <2>1, <2>2, <2>3, <2>4 DEF Punctual
<1>11. ASSUME OnTimerInsertedAtFront, fault = "none" PROVE Punctual'
  BY <1>11 DEF OnTimerInsertedAtFront, TypeOK, Punctual, Aware, OnTime, Forever, timerVars,
     waitVars, ghostVars
<1>12. ASSUME Tick, fault = "none" PROVE Punctual'
  <2>1. /\ clock' = clock + 1
        /\ \A d \in Dispatchers : wait'[d] = IF pc[d] = "asleep" /\ wait[d] > 0
                                             THEN wait[d] - 1 ELSE wait[d]
        /\ UNCHANGED <<m_timers, setbacks, m_tickled, notify, signal, pc, hastened>>
    BY <1>12 DEF Tick, timerVars, ghostVars
  <2>2. \A d \in Dispatchers : wait[d] \in Nat \cup {Forever}
    BY TypeNumbers
  <2>3. Aware => Aware'
    BY <2>1, <2>2 DEF Aware, Forever
  <2>4. OnTime /\ ~Aware => OnTime'
    <3> SUFFICES ASSUME OnTime, ~Aware, m_timers # {}
                 PROVE  OnTime'
      BY <2>1 DEF OnTime
    <3>1. PICK d \in Dispatchers :
             wait[d] # Forever /\ \A a \in m_timers : clock + wait[d] <= a[1]
      BY DEF OnTime
    <3>2. pc[d] = "asleep" /\ wait[d] > 0 /\ clock \in Nat
      BY <2>2, <3>1 DEF Aware, TypeOK
    <3>3. wait'[d] # Forever /\ clock' + wait'[d] = clock + wait[d]
      BY <2>1, <2>2, <3>1, <3>2 DEF Forever
    <3> QED
      BY <2>1, <3>1, <3>3 DEF OnTime
  <2> QED
    BY <2>1, <2>3, <2>4 DEF Punctual
<1>13. ASSUME NEW c \in 0..MaxClock, SetBack(c), fault = "none" PROVE Punctual'
  BY <1>13 DEF SetBack, TypeOK, Punctual, Aware, OnTime, Forever, timerVars, waitVars,
     ghostVars
<1>14. CASE UNCHANGED vars
  BY <1>14 DEF vars, TypeOK, Punctual, Aware, OnTime, Forever, timerVars, waitVars, ghostVars
<1> QED
  BY <1>1, <1>2, <1>3, <1>4, <1>5, <1>6, <1>7, <1>8, <1>9, <1>10, <1>11, <1>12, <1>13,
     <1>14 DEF Next, Dispatch, User


\* The invariant holds at the start.
LEMMA TimerInvInit == Init => TimerInv
<1> SUFFICES ASSUME Init PROVE TimerInv
  OBVIOUS
<1>1. TypeOK
  <2>1. {MaxClock, MaxSetBacks, MaxNotify} \subseteq Nat
    BY TimerAssumption
  <2>2. 0 \in 0..MaxClock /\ 0 \in 0..MaxSetBacks /\ 0 \in 0..MaxNotify
    BY <2>1
  <2> QED
    BY <2>2, TimesFacts DEF Init, TypeOK
<1>2. Stored /\ Lives /\ Monotone
  BY TimerAssumption DEF Init, Stored, ArmedIffStored, Lives, Monotone
<1>3. Punctual
  BY DEF Init, Punctual, OnTime
<1> QED
  BY <1>1, <1>2, <1>3 DEF TimerInv

\* Every step keeps the invariant.
LEMMA TimerInvStep == TimerInv /\ [Next]_vars => TimerInv'
BY TypeStep, StoredStep, LivesStep, MonotoneStep, PunctualStep DEF TimerInv

\* The ordered set, the timers and the dispatchers stay in agreement, for any
\* number of timers, threads and delays, and however often the clock is set back.
THEOREM TimerInvCorrect == Spec => []TimerInv
BY TimerInvInit, TimerInvStep, PTL DEF Spec

\* Every variable keeps its type; the times stay within the clock's bound and the
\* longest delay.
THEOREM TimerTypeCorrect == Spec => []TypeOK
<1>1. TimerInv => TypeOK
  BY DEF TimerInv
<1> QED
  BY <1>1, TimerInvCorrect, PTL

\* cancel(), refresh() and reset() find a timer that has a callback, whatever
\* other threads do: m_next of a stored timer changes only with its entry, under
\* the lock.  cancel() never erases end().
THEOREM ArmedIffStoredCorrect == Spec => []ArmedIffStored
<1>1. TimerInv => ArmedIffStored
  BY DEF TimerInv, Stored
<1> QED
  BY <1>1, TimerInvCorrect, PTL

\* A timer is never lost and a one-shot callback never runs twice or after
\* cancel() has returned true.
THEOREM TimerConservedCorrect == Spec => []TimerConserved
<1>1. TimerInv => TimerConserved
  <2> SUFFICES ASSUME TimerInv, NEW x \in Created \ fresh
               PROVE  LET stored == \E a \in m_timers : a[2] = x
                      IN  IF m_recurring[x] THEN stored # (x \in cancelled)
                          ELSE /\ InFlight(x) # {} \/ stored \/ x \in ran \/ x \in cancelled
                               /\ \A d, e \in InFlight(x) : d = e
                               /\ InFlight(x) # {} => ~stored /\ x \notin ran \cup cancelled
                               /\ stored => x \notin ran \cup cancelled
                               /\ x \in ran => x \notin cancelled
    BY DEF TimerConserved
  <2> DEFINE stored == \E a \in m_timers : a[2] = x
  <2>1. stored <=> x \in m_cb
    <3>1. m_timers = {<<m_next[y], y>> : y \in m_cb \ fresh}
      BY DEF TimerInv, Stored, ArmedIffStored, Entry
    <3>2. x \in m_cb => <<m_next[x], x>> \in m_timers
      BY <3>1
    <3>3. <<m_next[x], x>>[2] = x
      OBVIOUS
    <3>4. \A a \in m_timers : a[2] \in m_cb
      BY <3>1
    <3> QED
      BY <3>2, <3>3, <3>4, Zenon
  <2>2. /\ x \in m_cb \/ x \in ran \/ x \in cancelled \/ InFlight(x) # {}
        /\ \A d : d \in InFlight(x) <=> d \in Dispatchers /\ x \in cbs[d]
    BY DEF Created, InFlight
  <2>3. m_recurring[x] => (x \in m_cb <=> x \notin cancelled)
    BY <2>2 DEF TimerInv, Lives
  <2>4. ~m_recurring[x] =>
           /\ \A d, e \in InFlight(x) : d = e
           /\ InFlight(x) # {} => x \notin m_cb /\ x \notin ran /\ x \notin cancelled
           /\ x \in m_cb => x \notin ran /\ x \notin cancelled
           /\ x \in ran => x \notin cancelled
    BY <2>2 DEF TimerInv, Lives
  <2> QED
    BY <2>1, <2>2, <2>3, <2>4
<1> QED
  BY <1>1, TimerInvCorrect, PTL

\* The search finds the timers that are due, as the set is ordered by the present
\* m_next: the bound is among those due at n, or after them, and the loop ends there.
LEMMA ExpiredIsDue ==
    ASSUME TypeOK, Stored, NEW n \in Nat, NEW addr \in Timers \cup {0}
    PROVE  Expired(n, addr) = {a \in m_timers : a[1] <= n}
<1>1. /\ \A a \in m_timers : a[1] \in Nat /\ a[2] \in Nat /\ a[1] = m_next[a[2]]
      /\ addr \in Nat
  <2>1. \A a \in m_timers : a[1] = m_next[a[2]]
    BY DEF Stored, ArmedIffStored, Entry
  <2>2. Timers \subseteq Nat \ {0}
    BY TimerAssumption
  <2>3. addr \in Nat /\ \A x \in Timers : x \in Nat
    BY <2>2, SMT
  <2> QED
    BY <2>1, <2>3, TypeNumbers
<1>2. \A a \in m_timers \ FromBound(n, addr) : a[1] <= n
  BY <1>1 DEF FromBound, Less
<1>3. \A a \in m_timers : a[1] <= n /\ a \in FromBound(n, addr) => a[1] = n
  BY <1>1 DEF FromBound, Less
<1>4. ASSUME NEW a \in FromBound(n, addr), a[1] = n,
             NEW b \in FromBound(n, addr), b = a \/ Less(b, a)
      PROVE  m_next[b[2]] = n
  <2>1. b \in m_timers /\ b[1] <= n
    BY <1>1, <1>4 DEF FromBound, Less
  <2> QED
    BY <1>1, <1>3, <2>1
<1>5. \A a \in FromBound(n, addr) : a \in m_timers
  BY DEF FromBound
<1>6. ASSUME NEW a \in Expired(n, addr)
      PROVE  a \in m_timers /\ a[1] <= n
  <2>1. CASE a \in m_timers \ FromBound(n, addr)
    BY <1>2, <2>1
  <2>2. CASE a \in FromBound(n, addr) /\ m_next[a[2]] = n
    BY <1>1, <1>5, <2>2
  <2> QED
    BY <1>6, <2>1, <2>2 DEF Expired
<1>7. ASSUME NEW a \in m_timers, a[1] <= n
      PROVE  a \in Expired(n, addr)
  <2>1. CASE a \in FromBound(n, addr)
    BY <1>3, <1>4, <1>7, <2>1 DEF Expired
  <2>2. CASE a \notin FromBound(n, addr)
    BY <2>2 DEF Expired
  <2> QED
    BY <2>1, <2>2
<1> QED
  BY <1>6, <1>7

\* Also when it returns early because the first timer is not due.
LEMMA ListTakesDue ==
    ASSUME TypeOK, Stored, NEW d \in Dispatchers, ListExpired(d),
           ~detectClockRollover(now[d])
    PROVE  Collect(d, {a \in m_timers : a[1] <= now[d]})
<1>1. /\ now[d] \in Nat
      /\ \A a \in m_timers : a[1] \in Nat /\ a[2] \in Nat /\ a[1] = m_next[a[2]]
  <2>1. \A a \in m_timers : a[1] = m_next[a[2]]
    BY DEF Stored, ArmedIffStored, Entry
  <2> QED
    BY <2>1, TypeNumbers, TimerAssumption
<1>2. CASE m_next[First(m_timers)[2]] > now[d]
  <2>1. First(m_timers) \in m_timers /\ \A a \in m_timers : First(m_timers)[1] <= a[1]
    BY FirstTimer DEF ListExpired
  <2>2. {a \in m_timers : a[1] <= now[d]} = {}
    BY <1>1, <1>2, <2>1
  <2>3. Collect(d, {})
    BY <1>2 DEF ListExpired
  <2> QED
    BY <2>2, <2>3
<1>3. CASE ~(m_next[First(m_timers)[2]] > now[d])
  <2>1. PICK addr \in Timers \cup {0} : Collect(d, Expired(now[d], addr))
    BY <1>3 DEF ListExpired
  <2>2. Expired(now[d], addr) = {a \in m_timers : a[1] <= now[d]}
    BY <1>1, ExpiredIsDue
  <2> QED
    BY <2>1, <2>2
<1> QED
  BY <1>2, <1>3

\* listExpiredCb() takes exactly the armed timers that are due, in every reachable
\* state and for every address of now_timer.
THEOREM ExpiredExactCorrect == Spec => ExpiredExact
<1> DEFINE Exact == \A d \in Dispatchers :
                       ListExpired(d) /\ ~detectClockRollover(now[d]) =>
                           cbs'[d] = {x \in m_cb \ fresh : m_next[x] <= now[d]}
<1>1. TimerInv /\ [Next]_vars => [Exact]_vars
  <2> SUFFICES ASSUME TimerInv, NEW d \in Dispatchers, ListExpired(d),
                      ~detectClockRollover(now[d])
               PROVE  cbs'[d] = {x \in m_cb \ fresh : m_next[x] <= now[d]}
    OBVIOUS
  <2>1. Collect(d, {a \in m_timers : a[1] <= now[d]})
    BY ListTakesDue DEF TimerInv
  <2>2. cbs'[d] = {a[2] : a \in {b \in m_timers : b[1] <= now[d]}}
    BY <2>1 DEF Collect, TimerInv, TypeOK
  <2>3. m_timers = {<<m_next[x], x>> : x \in m_cb \ fresh}
    BY DEF TimerInv, Stored, ArmedIffStored, Entry
  <2>4. ASSUME NEW x \in m_cb \ fresh, m_next[x] <= now[d]
        PROVE  x \in cbs'[d]
    <3>1. <<m_next[x], x>> \in {b \in m_timers : b[1] <= now[d]}
      BY <2>3, <2>4
    <3> QED
      BY <2>2, <3>1
  <2>5. ASSUME NEW x \in cbs'[d]
        PROVE  x \in m_cb \ fresh /\ m_next[x] <= now[d]
    <3>1. PICK b \in m_timers : b[1] <= now[d] /\ x = b[2]
      BY <2>2
    <3> QED
      BY <2>3, <3>1
  <2> QED
    BY <2>4, <2>5
<1> QED
  BY <1>1, TimerInvCorrect, PTL DEF Spec, ExpiredExact

\* m_tickled never suppresses a notification that is needed: with the clock never
\* set back and no timer brought forward by refresh(), some thread wakes in time.
THEOREM NoOversleepCorrect == Spec => []NoOversleep
<1>1. TimerInv => NoOversleep
  <2> SUFFICES ASSUME TimerInv, ~hastened, setbacks = 0, m_timers # {}
               PROVE  WokenInTime
    BY DEF NoOversleep, WokenInTime
  <2>1. First(m_timers) \in m_timers
    BY FirstTimer DEF TimerInv
  <2>2. Aware \/ OnTime
    BY DEF TimerInv, Punctual
  <2> QED
    BY <2>1, <2>2 DEF Aware, OnTime, WokenInTime
<1> QED
  BY <1>1, TimerInvCorrect, PTL

\* Until the clock is set back no timer is collected early: two threads that take
\* the lock in the other order never look like a set-back of the clock.
THEOREM NeverEarlyCorrect == Spec => NeverEarly
<1> DEFINE InTime == \A d \in Dispatchers :
                        ListExpired(d) /\ setbacks = 0 =>
                            \A x \in cbs'[d] : m_next[x] <= clock
<1>1. TimerInv /\ [Next]_vars => [InTime]_vars
  <2> SUFFICES ASSUME TimerInv, NEW d \in Dispatchers, ListExpired(d), setbacks = 0,
                      NEW x \in cbs'[d]
               PROVE  m_next[x] <= clock
    OBVIOUS
  <2>1. /\ m_previouseTime <= clock /\ now[d] <= clock /\ clock <= now[d] + Hour
        /\ m_previouseTime \in Nat /\ clock \in Nat /\ now[d] \in Nat /\ Hour \in Nat
    BY TimerAssumption, TypeNumbers DEF TimerInv, Monotone, ListExpired, TypeOK
  <2>2. ~detectClockRollover(now[d])
    BY <2>1 DEF detectClockRollover
  <2>3. Collect(d, {a \in m_timers : a[1] <= now[d]})
    BY <2>2, ListTakesDue DEF TimerInv
  <2>4. PICK a \in m_timers : a[1] <= now[d] /\ x = a[2]
    BY <2>3 DEF Collect, TimerInv, TypeOK
  <2>5. a[1] = m_next[x] /\ a[1] \in Nat
    BY <2>4, TypeNumbers DEF TimerInv, Stored, ArmedIffStored, Entry
  <2> QED
    BY <2>1, <2>4, <2>5
<1> QED
  BY <1>1, TimerInvCorrect, PTL DEF Spec, NeverEarly
=============================================================================
