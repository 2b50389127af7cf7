SPECIFICATION Spec
CONSTANTS
  Ulp = 1
  RateUnit = 2
  Accounts = {"broker"}
  Home <- MCHome
  Reporting = "EUR"
  Year <- MCYear
  Days <- MCDays
  LedgerEntries = {}
  DividendRows = {}
  TradeRows = {}
  Observations = {}
  ItemRows <- FewItems
  RuleRows <- OverallRules
INVARIANT
  OverallRulesSpentOnce
CHECK_DEADLOCK FALSE
