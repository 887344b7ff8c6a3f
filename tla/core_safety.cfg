SPECIFICATION Spec
CONSTANTS
  j1 = j1  j2 = j2  c1 = c1  alice = alice  bob = bob
  NoToken = NoToken  NoUser = NoUser  System = System
  Users <- Everyone
  Jobs <- TwoJobs
  Clusters <- OneCluster
  ClusterOf <- SameCluster
  Requester <- EachAsks
  Admins <- Nobody
  Cancellers <- OnlyAlice
  MaxWorkers = 2
  MaxCollections = 0
  Faults = {"raise", "horse_kill"}
  TtlOutlivesHolder = TRUE
  DelayCovers = "nothing"
INVARIANTS
  TypeOK
  RequestsExclusive
  BackupsExclusive
  OnlyTheDeadLeaveLocks
CHECK_DEADLOCK FALSE
