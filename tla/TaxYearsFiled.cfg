SPECIFICATION Spec
CONSTANTS
  Workers = {w1, w2}
  Jurisdictions = {MT}
  LastDay = 2
  NoRow = NoRow
  MaxYears = 1
  MaxItems = 1
PROPERTY
  FiledYearLocked
CHECK_DEADLOCK FALSE
