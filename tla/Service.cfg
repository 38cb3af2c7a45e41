\* one process and its restarts, one index, every query and every setting
SPECIFICATION Spec
CONSTANTS
  Replicas = {p1}
  None = None
  Absent = Absent
  Required = {"zip"}
  Relations = {"legacy", "new"}
  RelationOf <- MCRelationOf
  Definitions <- MCDefinitions
  Names <- MCNames
  Listed = {"sleep"}
  Writing = {"grow"}
  Escaping = {"sleep"}
  Bodies <- MCBodies
  Plans <- MCPlans
  Sizes = {0, 1, 2, 3}
  Settings <- MCSettings
  Defaults <- MCDefaults
  Records = {"legacy", "new"}
  Addresses = {"oak", "elm"}
  People <- MCPeople
  Rows <- MCRows
  Physical <- MCPhysical
  Pages <- MCPages
  Positions <- MCPositions
  MaxLives = 2
INVARIANTS TypeOK ServesOnlyChecked ReadsOnly RunsBounded CapExact HandlesHonest
