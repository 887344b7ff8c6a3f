SPECIFICATION FairSpec
CONSTANTS
  j1 = j1  j2 = j2  c1 = c1  alice = alice  bob = bob
  NoToken = NoToken  NoUser = NoUser  System = System
  Users <- Everyone
  Jobs <- TwoJobs
  Clusters <- OneCluster
  ClusterOf <- SameCluster
  Requester <- EachAsks
  Admins <- Nobody
  Cancellers <- Nobody
  MaxWorkers = 1
  MaxCollections = 3
  Faults = {"sigterm"}
  TtlOutlivesHolder = TRUE
  DelayCovers = "commit"
PROPERTIES
  AcceptedJobsEnd
  ShutdownCancels
CHECK_DEADLOCK FALSE
