\* expected to fail: a later bundle whose tax scan timed out
SPECIFICATION Spec
CONSTANTS
  Addresses <- MCAddresses
  MaxPicked = 3
  Overlapping = FALSE
  MaxRows = 2
  Numbered <- MCNumbered
  Begins <- MCBegins
  None = None
INVARIANTS PersonIdsStable
