---------------------------- MODULE MCTaxEstimate ---------------------------
(***************************************************************************)
(* Five days of which 2..4 are the tax year: a purchase before it, a sale  *)
(* at a gain and one at a loss in it, interest on its first day and after  *)
(* it, interest taken back, a tax paid, a foreign dividend with            *)
(* and one without its own rate, exchange rates in both directions and too *)
(* late, reliefs of one category and overall, and a deduction dated on a   *)
(* day that an edit of the year has left outside.                          *)
(***************************************************************************)
EXTENDS TaxEstimate

MCYear == [start |-> 2, end |-> 4]
MCDays == 1..5
MCHome == [a \in Accounts |-> "EUR"]

Entry(n, type, d, x, cur) ==
  [id |-> n, type |-> type, day |-> d, amount |-> x, currency |-> cur]

Dividend(n, d, x, exchange) ==
  [id |-> n, account |-> "broker", day |-> d, gross |-> x, taxes |-> 1,
   currency |-> "USD", exchange |-> exchange]

Trade(n, k, d, q, g) ==
  [id |-> n, account |-> "broker", security |-> "ACME", kind |-> k, day |-> d,
   quantity |-> q, gross |-> g, costs |-> 1, currency |-> "EUR", exchange |-> 0]

Observation(b, q, d, x) == [base |-> b, quote |-> q, day |-> d, source |-> 1, rate |-> x]

Item(table, c, t, x, cur, d) ==
  [table |-> table, category |-> c, appliesTo |-> t, amount |-> x, currency |-> cur, day |-> d]

Rule(n, type, c, x, rate) ==
  [id |-> n, priority |-> 1, type |-> type, category |-> c, amount |-> x, rate |-> rate]

MCEntries ==
  {Entry(1, "INTEREST", 2, 5, "EUR"), Entry(2, "INTEREST", 5, 3, "USD"),
   Entry(8, "TAX", 4, -2, "EUR"), Entry(9, "INTEREST", 3, -1, "USD")}

MCDividends == {Dividend(3, 4, 6, 0), Dividend(4, 3, 4, 2)}

MCTrades == {Trade(5, "BUY", 1, 3, 8), Trade(6, "SELL", 2, 1, 9), Trade(7, "SELL", 4, 2, 3)}

MCObservations == {Observation("USD", "EUR", 4, 1), Observation("EUR", "USD", 5, 1)}

MCItems ==
  {Item("ALLOWANCE", "OVERALL", "", 6, "EUR", 0),
   Item("ADJUSTMENT", "DEDUCTION", "INTEREST", -2, "USD", 5)}

MCRules ==
  {Rule(1, "FLAT_RATE", "OVERALL", 0, 10), Rule(2, "THRESHOLD", "DIVIDEND", 5, 0)}

\* More tables for the rules that are overall.
OverallRules ==
  {Rule(1, "ALLOWANCE", "OVERALL", 2, 0), Rule(2, "DEDUCTION", "OVERALL", 1, 0)}

FewItems ==
  {Item("ADJUSTMENT", "INTEREST", "", 4, "EUR", 3), Item("ADJUSTMENT", "OTHER_INCOME", "", 4, "EUR", 3)}
=============================================================================
