SPECIFICATION PolicySpec
CONSTANTS
  Evaluators = {e1, e2}
  Processes = {h1}
  Home <- MCHome
  Policies = {1}
  Devices = {d1}
  Nodes = {n1}
  System = system
  Drafts <- MCDrafts
  Delta = 1
  Minute = 2
  None = none
  MaxClock = 2
  MaxRuns = 2
  MaxEdits = 1
  MaxFailures = 1
PROPERTIES CooldownHolds GuardIsReleased SimulationAgrees
CHECK_DEADLOCK FALSE
