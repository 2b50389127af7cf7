SPECIFICATION Spec
CONSTANTS
  Workers = {w1}
  Jurisdictions = {MT, GB}
  LastDay = 2
  NoRow = NoRow
  MaxYears = 2
  MaxItems = 2
SYMMETRY Symmetry
INVARIANTS
  TypeOK
  YearsDisjoint
PROPERTIES
  FiledYearLocked
  FiledItemsLocked
CHECK_DEADLOCK FALSE
