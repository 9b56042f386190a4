SPECIFICATION FairSpec
CONSTANTS
  M = 10
  MAX_DELETED = 1
  Configurations <- MCConfigurations
  ConfigIDs = {1, 2}
  Values = {0, 1}
  MaxLen = 2
  Lag = 2
  MaxOps = 2
  MaxUpdates = 2
INVARIANTS TypeOK TimersOwned
PROPERTIES OnTime Retriggers
