SPECIFICATION Spec
CONSTANTS
  j1 = j1  j2 = j2  c1 = c1  alice = alice  bob = bob
  NoToken = NoToken  NoUser = NoUser  System = System
  Users <- Everyone
  Jobs <- TwoJobs
  Clusters <- OneCluster
  ClusterOf <- SameCluster
  Requester <- AliceAsks
  Admins <- Nobody
  Cancellers <- Nobody
  MaxWorkers = 2
  MaxCollections = 0
  Faults = {"horse_kill", "timeout", "bot_crash", "redis"}
  TtlOutlivesHolder = FALSE
  DelayCovers = "nothing"
PROPERTIES
  LocksRemovedByOwner
CHECK_DEADLOCK FALSE
