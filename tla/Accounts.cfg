SPECIFICATION Spec
CONSTANTS
  Workers = {w1, w2}
  Ids = {1, 2}
  Currencies = {"eur", "usd"}
  Treatments = {1}
  TreatmentRows <- MCTreatmentRows
  Forms <- MCForms
  FirstAccount <- MCFirst
  FirstTreatment <- MCFirstTreatment
  MaxRate = 5
  None = None
  AsOfDates <- MCAsOf
  Ulp = 10
  RateUnit = 10
SYMMETRY WorkerSymmetry
INVARIANTS
  ContractsWhole
  EditPageAccepted
  AccrualConverges
PROPERTIES
  ArchiveSticks
CHECK_DEADLOCK FALSE
