\* One dispatcher; the clock may be set back once.  Every due timer is collected.
SPECIFICATION FairSpec
CONSTANTS
    d1 = d1
    Timers = {1, 2}
    Dispatchers = {d1}
    Ms = {1}
    Hour = 1
    MaxClock = 2
    MaxSetBacks = 1
    MaxNotify = 1
INVARIANTS ArmedIffStored TimerConserved
PROPERTY DueTimerFires
\* With no timer left every dispatcher may sleep for good.
CHECK_DEADLOCK FALSE
