SPECIFICATION Spec
CONSTANTS
  Ulp = 1
  RateUnit = 2
  Accounts = {"broker"}
  Home <- MCHome
  Reporting = "EUR"
  Year <- MCYear
  Days <- MCDays
  LedgerEntries <- MCEntries
  DividendRows <- MCDividends
  TradeRows <- MCTrades
  Observations <- MCObservations
  ItemRows <- MCItems
  RuleRows <- MCRules
INVARIANTS
  ReductionsAccountedFor
  OverallReliefInOrder
  YearsSplitFacts
  CompleteCountsAll
  EstimateMonotone
  LaterFactsDontMatter
CHECK_DEADLOCK FALSE
