SPECIFICATION FairSpec
CONSTANTS
  Nodes = {n1}
  Requests = {r1}
  Operations <- LifeOperations
  Stale = 1
  MaxTokens = 2
  MaxRows = 1
  Unmeasured = Unmeasured
INVARIANTS TypeOK OnlineIsEarned
PROPERTIES RevocationIsFinal RejectionSilences MaintenanceSilences SilentNodeGoesOffline LiveNodeRecovers
