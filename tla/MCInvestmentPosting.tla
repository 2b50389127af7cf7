------------------------- MODULE MCInvestmentPosting ------------------------
(***************************************************************************)
(* Two workers on accounts of two currencies.  The forms include two sales *)
(* that together exceed the purchase, a backdated sale, a sale whose costs *)
(* eat its proceeds, a dividend that rounds to no cash at all in the       *)
(* account currency, and a settlement date before the trade date.          *)
(***************************************************************************)
EXTENDS InvestmentPosting

CONSTANTS a1, a2, s1, eur, usd

MCForm(a, k, d, settle, q, g, c, cur, x) ==
  [account |-> a, security |-> s1, kind |-> k, day |-> d, settlement |-> settle,
   quantity |-> q, gross |-> g, costs |-> c, currency |-> cur, exchange |-> x]

Buy == MCForm(a1, "BUY", 1, NoDay, 2, 6, 1, eur, NoRate)
Sell(d, g) == MCForm(a1, "SELL", d, NoDay, 2, g, 1, eur, NoRate)
Dividend == MCForm(a1, "DIVIDEND", 2, NoDay, 0, 1, 0, eur, 1)
EarlySettlement == MCForm(a1, "BUY", 2, 1, 1, 3, 0, eur, NoRate)
OtherBuy == MCForm(a2, "BUY", 1, 1, 1, 3, 0, eur, NoRate)

SafetyForms == {Buy, Sell(1, 8), Sell(2, 8), Sell(2, 1), Dividend, EarlySettlement, OtherBuy}

FewForms == {Buy, Sell(2, 8), EarlySettlement, OtherBuy}

MCIds == 1..MaxId
=============================================================================
