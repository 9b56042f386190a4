CONSTANTS
  Ids = {t1, t2}
  MAX_TIMERS = 2
  M = 4
  Intervals = {0, 2}
  Limits = {0, 2}
  Lag = 2
SPECIFICATION Spec
INVARIANTS TypeOK NoStaleMark LimitRespected
PROPERTIES DeletedStaysSilent LimitedNotEarly
SYMMETRY Symmetry
CHECK_DEADLOCK FALSE
