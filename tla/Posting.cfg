SPECIFICATION FairSpec
CONSTANTS
  a1 = a1
  a2 = a2
  s1 = s1
  eur = eur
  usd = usd
  Accounts = {a1, a2}
  Securities = {s1}
  Currencies = {eur, usd}
  Workers = {w1, w2}
  NoWorker = NoWorker
  NoForm = NoForm
  Forms <- SafetyForms
  Ids <- MCIds
  MaxId = 4
  Ulp = 1
  RateUnit = 2
INVARIANTS
  TypeOK
  LockHeldWhilePosting
  CheckNeverStale
  IdsInCommitOrder
  OneEntryPerDetail
PROPERTIES
  PostingIsAtomic
  RequestsEnd
CHECK_DEADLOCK FALSE
