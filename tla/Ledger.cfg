SPECIFICATION FairSpec
CONSTANTS
  a1 = a1
  a2 = a2
  eur = eur
  usd = usd
  Accounts = {a1, a2}
  Currencies = {eur, usd}
  Amounts <- MCAmounts
  Days = {1}
  FirstCurrency <- MCFirstCurrency
  Edits <- MCEdits
  Workers = {w1, w2}
  NoTarget = NoTarget
  MaxId = 2
INVARIANTS
  TypeOK
  TransactionsWhole
  MoneyOnlyFromOutside
PROPERTIES
  LedgerIsBook
  DeletionsEnd
CHECK_DEADLOCK FALSE
