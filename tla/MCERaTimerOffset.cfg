CONSTANTS
  Ids = {t1}
  MAX_TIMERS = 1
  M = 16
  Intervals = {4}
  Limits = {0}
  Lag = 3
SPECIFICATION Spec
PROPERTIES IntervalNotEarly
CHECK_DEADLOCK FALSE
