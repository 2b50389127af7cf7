SPECIFICATION Spec
CONSTANTS
  Accounts = {"broker", "abroad"}
  Securities = {"ACME", "GLOB"}
  Currencies = {"EUR", "USD"}
  Forms <- MCForms
  Home <- MCHome
  Permits <- MCPermits
  Ids <- MCIds
  MaxPosts = 4
  Owned <- MCOwned
  OtherEntries <- MCEntries
  Prices <- MCPrices
  Rates <- MCRates
  Reporting = "EUR"
  MonthStarts <- MCMonthStarts
  Horizon = 3
  Ulp = 100
  RateUnit = 2
INVARIANTS
  ReplaysAgree
  CostConserved
  ValueExplained
  IncompleteWhenUnknown
  PastStaysPut
  PagesAgree
  CashflowExplainsWorth
PROPERTIES
  OnlyBackdatedSaleBreaksHistory
CHECK_DEADLOCK FALSE
