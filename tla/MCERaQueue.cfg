CONSTANTS
  N = 2
  Values = {v1, v2}
  Blank = Blank
  MaxBulk = 3
SPECIFICATION FairSpec
INVARIANTS TypeOK NoSlotConflict NoBlankVisible
PROPERTIES FifoSpec PutReturns Drains 
CHECK_DEADLOCK FALSE
