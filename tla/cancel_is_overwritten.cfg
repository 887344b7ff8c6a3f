SPECIFICATION Spec
CONSTANTS
  j1 = j1  j2 = j2  c1 = c1  alice = alice  bob = bob
  NoToken = NoToken  NoUser = NoUser  System = System
  Users <- Everyone
  Jobs <- OneJob
  Clusters <- OneCluster
  ClusterOf <- SameCluster
  Requester <- AliceAsks
  Admins <- Nobody
  Cancellers <- OnlyAlice
  MaxWorkers = 1
  MaxCollections = 1
  Faults = {}
  TtlOutlivesHolder = TRUE
  DelayCovers = "commit"
PROPERTIES
  CancelledRunStaysCancelled
CHECK_DEADLOCK FALSE
