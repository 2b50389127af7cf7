SPECIFICATION Spec
CONSTANTS
  a1 = a1
  a2 = a2
  s1 = s1
  eur = eur
  usd = usd
  Accounts = {a1, a2}
  Securities = {s1}
  Currencies = {eur, usd}
  Workers = {w1, w2}
  NoWorker = NoWorker
  NoForm = NoForm
  Forms <- FewForms
  Ids <- MCIds
  MaxId = 2
  Ulp = 1
  RateUnit = 2

INVARIANT
  HistoriesReplay
CHECK_DEADLOCK FALSE
