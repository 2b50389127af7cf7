----------------------------- MODULE MCBrokerage ----------------------------
(***************************************************************************)
(* Two brokerage accounts of two currencies, one of them archived, a card  *)
(* and an archived savings account; two securities of two currencies;      *)
(* three days.  The forms are chosen so that averages do not divide        *)
(* evenly, a sale closes a position, and sales can be backdated.  One      *)
(* security has no price on the first day, the exchange rate is known from *)
(* the second day on, then in the other direction.                         *)
(***************************************************************************)
EXTENDS Valuation

CONSTANTS MaxPosts

MCForm(a, s, k, d, q, g, c, cur, x) ==
  [account |-> a, security |-> s, kind |-> k, day |-> d, settlement |-> 0,
   quantity |-> q, gross |-> g, costs |-> c, currency |-> cur, exchange |-> x]

MCForms ==
  LET home(k, d, q, g, c) == MCForm("broker", "ACME", k, d, q, g, c, "EUR", NoRate)
      away(k, d, q, g, c, x) == MCForm("broker", "GLOB", k, d, q, g, c, "USD", x)
      abroad(k, d, q, g, c) == MCForm("abroad", "GLOB", k, d, q, g, c, "USD", NoRate)
  IN  {home("BUY", d, 3, 10, 1) : d \in 1..2} \cup
      {home("BUY", 1, 2, 5, 0)} \cup
      {home("SELL", d, q, 9, 2) : d \in 1..3, q \in {2, 3}} \cup
      {home("DIVIDEND", 2, 0, 4, 1)} \cup
      {away("BUY", 1, 3, 7, 0, 3), away("SELL", 2, 2, 6, 1, 5), away("SELL", 1, 1, 4, 0, 1)} \cup
      {abroad("BUY", 1, 2, 5, 1)}

MCHome == [a \in {"broker", "abroad"} |-> IF a = "broker" THEN "EUR" ELSE "USD"]

Account(type, currency, active) == [type |-> type, currency |-> currency, active |-> active]

MCOwned ==
  [a \in {"broker", "abroad", "card", "saved"} |->
     CASE a = "broker" -> Account("BROKERAGE", "EUR", TRUE)
       [] a = "abroad" -> Account("BROKERAGE", "USD", FALSE)
       [] a = "card" -> Account("CREDIT_CARD", "EUR", TRUE)
       [] a = "saved" -> Account("SAVINGS", "EUR", FALSE)]

Entry(a, d, x) == [account |-> a, day |-> d, amount |-> x]

MCEntries ==
  {Entry("broker", 1, 50), Entry("broker", 3, -4), Entry("abroad", 1, 20), Entry("card", 2, -7),
   Entry("card", -9, -1), Entry("card", -3, -2), Entry("saved", -1, 5), Entry("saved", -4, 1)}

MCPrices ==
  {[security |-> "ACME", currency |-> "EUR", day |-> 2, source |-> 1, price |-> 4],
   [security |-> "ACME", currency |-> "EUR", day |-> 3, source |-> 1, price |-> 2],
   [security |-> "GLOB", currency |-> "USD", day |-> 1, source |-> 1, price |-> 3]}

MCRates ==
  {[base |-> "USD", quote |-> "EUR", day |-> 2, source |-> 1, rate |-> 3],
   [base |-> "EUR", quote |-> "USD", day |-> 3, source |-> 1, rate |-> 1]}

MCMonthStarts == {-24, -18, -12, -8, -6, -5, -3, -1, 1, 3}

\* The check of create_investment_transaction.
MCPermits(rows, f) == PermitsPosting(rows, f)

MCIds == 1..MaxPosts
=============================================================================
