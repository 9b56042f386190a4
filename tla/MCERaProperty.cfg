SPECIFICATION FairSpec
CONSTANTS
  M = 8
  Lag = 2
  Settings <- MCSettings
  NaN = NaN
  Pins = {1}
  Addrs = {a1}
  Reports = {r1, r2}
  Values = {0, 1}
  MAX_PROPERTIES = 2
  MAX_REPORTS = 2
  Timeout = 2
  MaxOps = 3
  MaxLost = 1
INVARIANTS TypeOK ReportsOwned
PROPERTIES Spaced Converges
