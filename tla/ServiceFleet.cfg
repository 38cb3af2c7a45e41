\* two processes that do not restart, behind a load balancer
SPECIFICATION Spec
CONSTANTS
  Replicas = {p1, p2}
  None = None
  Absent = Absent
  Required = {"zip"}
  Relations = {"legacy", "new"}
  RelationOf <- MCRelationOf
  Definitions <- MCDefinitions
  Names <- MCNames
  Listed = {"sleep"}
  Writing = {"grow"}
  Escaping = {"sleep"}
  Bodies = {}
  Plans = {}
  Sizes = {}
  Settings <- MCUntouched
  Defaults <- MCDefaults
  Records = {"legacy", "new"}
  Addresses = {"oak", "elm"}
  People <- MCPeople
  Rows <- MCRows
  Physical <- MCPhysical
  Pages <- MCPages
  Positions <- MCPositions
  MaxLives = 1
INVARIANTS HandleNamesItsAddress
