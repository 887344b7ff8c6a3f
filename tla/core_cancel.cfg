SPECIFICATION FairSpec
CONSTANTS
  j1 = j1  j2 = j2  c1 = c1  alice = alice  bob = bob
  NoToken = NoToken  NoUser = NoUser  System = System
  Users <- Everyone
  Jobs <- OneJob
  Clusters <- OneCluster
  ClusterOf <- SameCluster
  Requester <- AliceAsks
  Admins <- OnlyBob
  Cancellers <- Everyone
  MaxWorkers = 1
  MaxCollections = 0
  Faults = {}
  TtlOutlivesHolder = TRUE
  DelayCovers = "commit"
PROPERTIES
  QueuedCancelSticks
  AcceptedJobsEnd
CHECK_DEADLOCK FALSE
