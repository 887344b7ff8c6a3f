SPECIFICATION Spec
CONSTANTS
  alice = alice  full = full  empty = empty  c1 = c1  c2 = c2
  NoUser = NoUser
  Users <- OneUser
  Databases <- TwoDatabases
  Collections <- TwoCollections
  CollectionsOf <- OneEmpty
  MaxWizards = 2
  Faults = {}
PROPERTIES
  RestingWizardsStartOver
CHECK_DEADLOCK FALSE
