\* Two timers with intervals of one and two.
SPECIFICATION Spec
CONSTANTS
  Timer = {t1, t2}
  Intervals = {1, 2}
  Moments = {2}
  Limits = {2}
  MaxTime = 3
  MaxCalls = 4
INVARIANTS TimersSound SleepsInTime
PROPERTIES DueIsServed
