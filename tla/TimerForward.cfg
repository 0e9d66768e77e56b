\* Two dispatchers, two timers and two delays; the clock only advances.
SPECIFICATION Spec
CONSTANTS
    d1 = d1
    d2 = d2
    Timers = {1, 2}
    Dispatchers = {d1, d2}
    Ms = {0, 1}
    Hour = 1
    MaxClock = 1
    MaxSetBacks = 0
    MaxNotify = 1
INVARIANTS TypeOK ArmedIffStored TimerConserved NoOversleep
PROPERTIES ExpiredExact NeverEarly
SYMMETRY DispatcherSymmetry
\* With no timer left every dispatcher may sleep for good.
CHECK_DEADLOCK FALSE
