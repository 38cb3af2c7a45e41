\* a limit below and above the rows of a file, and a hash that drops one ssn
SPECIFICATION Spec
CONSTANTS
  Corpora <- MCCorpora
  Later <- MCLater
  Limits = {1, None}
  Modulus = 2
  Areas = 2
  Groups = 2
  Serials = 8
  Drawn = {71, 72, 74, 75}
  None = None
INVARIANTS TypeOK PersonsAreClusters LoadExact OracleBehindOnePlan EntitiesArePeople RowsAccounted
CHECK_DEADLOCK FALSE
