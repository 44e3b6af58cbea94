SPECIFICATION FairSpec
CONSTANTS
  NoJob = NoJob
  Jobs = {j1}
  Runners = {r1, r2}
  Lease = 2
  MaxInterval = 2
  MaxFaults = 2
  MaxUpdates = 2
INVARIANTS TypeOK LeaseIsShown LeaseExcludes
PROPERTY JobKeepsRunning
