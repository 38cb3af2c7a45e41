\* expected to fail: payday rows without a licence, a budget of one
SPECIFICATION Spec
CONSTANTS
  Addresses <- MCAddresses
  MaxPicked = 3
  Overlapping = FALSE
  MaxRows = 1
  Numbered <- MCNumbered
  Begins <- MCBegins
  None = None
INVARIANTS NoShapeStarved
