SPECIFICATION MCSpec
CONSTANTS
  s1 = s1
  s2 = s2
  s3 = s3
  system = system
  device = device
  systemRecord = systemRecord
  deviceRecord = deviceRecord
  Processes = {p1, p2}
  Samples = {s1, s2, s3}
  Rows = {system, device}
  RowsOf <- SampleRows
  Records = {systemRecord, deviceRecord}
  RecordOf <- SharedRecords
  Optimized = {s1, s3}
  MaxPending = 2
  ChunkSize = 1
  MaxFaults = 1
CHECK_DEADLOCK FALSE
INVARIANTS TypeOK NoSampleVanishes DerivedNeverAhead CountedOnce
PROPERTY SampleSettles
