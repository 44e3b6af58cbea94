SPECIFICATION MCSpec
CONSTANTS
  NoDevice = NoDevice
  NoNode = NoNode
  Shared = Shared
  Devices = {d1}
  Nodes = {n1}
  Quotas = {d1, Shared}
  Limits = {1}
  Ingests = {h1, h2}
  Operators = {o1}
  Agents = {n1}
  Operations = {"approve", "reject", "block", "unblock", "disconnect", "assign", "setQuota", "resetQuota", "periodReset", "updateSetting", "policyDisconnect", "policyBlock", "session", "config", "traffic"}
  PrivateMode = TRUE
  MaxApproved = 2
  MaxUsed = 4
  MaxActs = 2
  MaxFaults = 1
  d1 = d1
  h1 = h1
  h2 = h2
  n1 = n1
  o1 = o1
CHECK_DEADLOCK FALSE
INVARIANTS TypeOK NoForgottenRow RevisionNamesDecision QuietTopIsCurrent BoundedOvershoot
PROPERTIES HardLimitIsReached
