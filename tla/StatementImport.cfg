SPECIFICATION Spec
CONSTANTS
  Workers = {w1, w2}
  Currencies = {"eur", "usd"}
  Files <- MCFiles
  MaxRows = 2
  AmountLimit <- MCAmountLimit
  Ulp = 1
  RateUnit = 1
SYMMETRY WorkerSymmetry
INVARIANTS
  ImportWhole
  ImportReconciles
  RecordsComplete
  ExportReadable
CHECK_DEADLOCK FALSE
