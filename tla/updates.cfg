SPECIFICATION Spec
CONSTANTS
  alice = alice  bob = bob
  NoToken = NoToken  Orphan = Orphan
  Users = {alice, bob}
  Sends <- Meetings
  Administrators <- OneAdministrator
  Whitelist <- BobIsListed
  Shown <- BobIsShown
  MaxRequests = 1
  Window = 1
  Ttl = 1
  MaxUpdates = 2
  Horizon = 1
  Faults = {"raise", "telegram", "redis", "crash", "audit"}
INVARIANTS
  TypeOK
  OneQuotaRow
  LocksHaveOwners
  SizeQueriesExclusive
  ChangesAreAudited
PROPERTIES
  KeepsSlidingWindow
  RequestsAreCounted
  OnlyRecentAdminsChangeUsers
  ChangesTouchOneColumn
  AddKeepsRegistered
CHECK_DEADLOCK FALSE
