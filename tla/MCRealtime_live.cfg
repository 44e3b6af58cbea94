SPECIFICATION FairLiveSpec
CONSTANTS
  None = none
  Gateways = {g1, g2}
  Browsers = {b1}
  Amounts = {0, 1}
  Widest = 1
  MaxWindow = 2
  StaleAfter = 2
  MaxClock = 4
  MaxReports = 2
  MaxActs = 2
  MaxFaults = 1
INVARIANTS ShownIsReported
PROPERTIES Reconnects
CHECK_DEADLOCK FALSE
