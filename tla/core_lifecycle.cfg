SPECIFICATION ExecutionSpec
CONSTANTS
  j1 = j1  c1 = c1  alice = alice
  NoToken = NoToken  NoUser = NoUser  System = System
  Users <- OneUser
  Jobs <- OneJob
  Clusters <- OneCluster
  ClusterOf <- TheCluster
  Requester <- AliceAsks
  Admins <- Nobody
  Cancellers <- Nobody
  MaxWorkers = 1
  MaxCollections = 3
  Faults = {"raise", "timeout", "horse_kill", "bot_crash", "sigterm", "telegram", "redis"}
  TtlOutlivesHolder = TRUE
  DelayCovers = "nothing"
INVARIANTS
  FinishedRowAddsUp
  AuditAgreesWithTable
  CompletedAreOnDisk
  ConfigFilesRemoved
  MongodumpEndsWithItsDump
  WorkerFindsRow
  StartedWasRequested
PROPERTIES
  FollowsLifecycle
CHECK_DEADLOCK FALSE
