\* every choice of four rows, a budget of two per shape
SPECIFICATION Spec
CONSTANTS
  Addresses <- MCAddresses
  MaxPicked = 4
  Overlapping = TRUE
  MaxRows = 2
  Numbered <- MCNumbered
  Begins <- MCBegins
  None = None
INVARIANTS TypeOK AsPerShapeScans AbsenceMeansAbsence RecordHandleSound PersonHandleSound
