SPECIFICATION FairSpec
CONSTANTS
  Configs <- SafeConfigs
  Limit = 2
  MaxFail = 4
  QMax = 3
INVARIANTS TypeOK NoSelfDeadlock AnnouncedWhenConnected AtMostOneStale 
PROPERTY Heals
