SPECIFICATION FairSpec
CONSTANTS
  alice = alice  full = full  empty = empty  c1 = c1  c2 = c2
  NoUser = NoUser
  Users <- OneUser
  Databases <- TwoDatabases
  Collections <- TwoCollections
  CollectionsOf <- OneEmpty
  MaxWizards = 2
  Faults = {"raise"}
PROPERTIES
  OneRequestPerConfirmation
  RequestMatchesSummary
  AbandonedWizardsExpire
CHECK_DEADLOCK FALSE
