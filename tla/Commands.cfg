SPECIFICATION Spec
CONSTANTS
  MaxId = 10
  MaxDeleted = 1
  SeededCurrencies <- MCSeeded
  NoRows = NoRows
  MaxWrites = 1
INVARIANTS
  SeedNeverRepeats
  RestoreWhole
CHECK_DEADLOCK FALSE
