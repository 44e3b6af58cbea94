SPECIFICATION AlertsSpec
CONSTANTS
  q1 = q1
  n1 = n1
  Facts <- MCFacts
  Devices = {d1}
  Nodes = {n1}
  DeviceReadings <- MCDeviceReadings
  NodeReadings <- MCNodeReadings
  LoginReadings <- MCLoginReadings
  Endpoints = {h1}
  Switches = {"policy.triggered"}
  Runs = {r1, r2}
  None = none
  MaxFacts = 2
  MaxActs = 2
SYMMETRY RunSymmetry
INVARIANTS RepetitionIsCounted AnomalyAnnouncedOnce
CHECK_DEADLOCK FALSE
