SPECIFICATION Spec
CONSTANTS
  Configs <- UnsafeConfigs
  Limit = 2
  MaxFail = 1
  QMax = 2
INVARIANT NoSelfDeadlock
