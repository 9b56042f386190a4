CONSTANTS
  Ids = {t1}
  MAX_TIMERS = 1
  M = 8
  Intervals = {0, 4}
  Limits = {0, 2}
  Lag = 3
SPECIFICATION CalmSpec
PROPERTIES DeletedIsFreed KeepsFiring
CHECK_DEADLOCK FALSE
