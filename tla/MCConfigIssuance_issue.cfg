SPECIFICATION Spec
CONSTANTS
  Calls = {r1, r2}
  Devices = {d1, d2}
  Nodes = {n1}
  Configs = {1, 2, 3}
  Hosts = {2, 3}
  None = none
  MaxEdits = 3
  MaxFaults = 1
SYMMETRY DeviceSymmetry
INVARIANTS IssuedIsUsable RevocationCuts
CHECK_DEADLOCK FALSE
