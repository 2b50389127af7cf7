------------------------------- MODULE Replay -------------------------------
(***************************************************************************)
(* The weighted-average replays of a brokerage account's trade history:    *)
(* investments/services/holdings.py and cost_basis.py.  Both walk the same *)
(* rows in (trade date, transaction id) order and are written separately.  *)
(*                                                                         *)
(* A trade is the joined row InvestmentTransaction + Transaction:          *)
(*   [id, account, security, kind, day, quantity, gross, costs, currency,  *)
(*    exchange]                                                            *)
(* costs is fees + taxes, which the code only ever uses as a sum.          *)
(***************************************************************************)
EXTENDS Decimals, FiniteSets, SequencesExt

(***************************************************************************)
(* Which rows a replay reads, and in which order.                          *)
(***************************************************************************)
Trades(rows, account, security, day) ==
  {t \in rows : t.account = account /\ t.security = security /\ t.day <= day}

AllTrades(rows, account, security) ==
  {t \in rows : t.account = account /\ t.security = security}

Before(t, u) == t.day < u.day \/ (t.day = u.day /\ t.id < u.id)

Latest(rows) == CHOOSE t \in rows : \A u \in rows \ {t} : Before(u, t)

\* step applied to the rows one after the other, earliest first.
InOrder(step(_, _), start, rows) ==
  MapThenFoldSet(step, start, LAMBDA t : t, Latest, rows)

(***************************************************************************)
(* What one trade is worth, in its own and in the account's currency.      *)
(***************************************************************************)
NoRate == 0     \* exchange_rate is NULL or at least 10^-12

\* The rate a replay multiplies by; without one the product raises TypeError.
Rated(t, home) == t.currency = home \/ t.exchange # NoRate

\* Read only where Rated.
RateToAccount(t, home) == IF t.currency = home THEN RateUnit ELSE t.exchange

\* A replay over these rows ends in TypeError, unless it refuses them before it
\* gets to the row: every purchase and sale is multiplied by its rate.
Raises(trades, home) == \E t \in trades : t.kind \in {"BUY", "SELL"} /\ ~Rated(t, home)

Acquisition(t) == t.gross + t.costs
NetProceeds(t) == t.gross - t.costs

NetCashImpact(t) ==
  CASE t.kind = "BUY" -> -(t.gross + t.costs)
    [] t.kind \in {"SELL", "DIVIDEND"} -> t.gross - t.costs
    [] OTHER -> -t.gross

\* The amount of the one cash entry, in quanta of the account currency.
CashAmount(t, home) == RoundDiv(NetCashImpact(t) * RateToAccount(t, home), RateUnit)

(***************************************************************************)
(* holdings.py.  ok is FALSE once the replay has raised ValidationError.   *)
(* Costs and gains are in 1/Ulp quanta, the base ones in 1/(Ulp * RateUnit)*)
(***************************************************************************)
Flat == [quantity |-> 0, cost |-> 0, base |-> 0,
         realized |-> 0, realizedBase |-> 0, ok |-> TRUE]

Bought(p, t, home) ==
  [p EXCEPT !.quantity = @ + t.quantity,
            !.cost = @ + Acquisition(t) * Ulp,
            !.base = @ + Acquisition(t) * Ulp * RateToAccount(t, home)]

\* Mutant: a sale takes its proceeds, not its share of the cost, out.
SoldAtProceeds(p, t, home) ==
  LET left == p.quantity - t.quantity
  IN  [p EXCEPT !.quantity = left,
                !.cost = IF left = 0 THEN 0 ELSE @ - NetProceeds(t) * Ulp,
                !.base = IF left = 0 THEN 0 ELSE @ - NetProceeds(t) * Ulp]

Sold(p, t, home) ==
  LET allocated == RoundDiv(p.cost, p.quantity) * t.quantity
      allocatedBase == RoundDiv(p.base, p.quantity) * t.quantity
      left == p.quantity - t.quantity
  IN  [p EXCEPT
        !.realized = @ + NetProceeds(t) * Ulp - allocated,
        !.realizedBase = @ + NetProceeds(t) * Ulp * RateToAccount(t, home) - allocatedBase,
        !.quantity = left,
        !.cost = IF left = 0 THEN 0 ELSE @ - allocated,
        !.base = IF left = 0 THEN 0 ELSE @ - allocatedBase]

\* Mutant: the last share cannot be sold.
HoldingStepStrict(t, p, home) ==
  CASE ~p.ok -> p
    [] p.ok /\ t.kind = "BUY" -> Bought(p, t, home)
    [] p.ok /\ t.kind = "SELL" /\ t.quantity >= p.quantity -> [p EXCEPT !.ok = FALSE]
    [] p.ok /\ t.kind = "SELL" /\ t.quantity < p.quantity -> Sold(p, t, home)
    [] OTHER -> p

\* Dividends, fees and taxes leave the position alone.
HoldingStep(t, p, home) ==
  CASE ~p.ok -> p
    [] p.ok /\ t.kind = "BUY" -> Bought(p, t, home)
    [] p.ok /\ t.kind = "SELL" /\ t.quantity > p.quantity -> [p EXCEPT !.ok = FALSE]
    [] p.ok /\ t.kind = "SELL" /\ t.quantity <= p.quantity -> Sold(p, t, home)
    [] OTHER -> p

Holding(trades, home) == InOrder(LAMBDA t, p : HoldingStep(t, p, home), Flat, trades)

HoldingAsOf(rows, account, security, day, home) ==
  Holding(Trades(rows, account, security, day), home)

\* Mutant: the trade date is not passed on.
CoveredAtAnyDate(rows, t) ==
  LET p == Holding(AllTrades(rows, t.account, t.security), t.currency)
  IN  p.ok /\ t.quantity <= p.quantity

\* A sale of t.quantity dated t.day passes the check against rows.  The rates
\* do not enter a quantity, so any home currency gives the same answer.
Covered(rows, t) ==
  LET p == HoldingAsOf(rows, t.account, t.security, t.day, t.currency)
  IN  p.ok /\ t.quantity <= p.quantity

\* Only sales are checked.
PermitsPosting(rows, f) == f.kind = "SELL" => Covered(rows, f)

(***************************************************************************)
(* cost_basis.py: one pass over every security of the account, one event   *)
(* per sale.  ok is FALSE once it has raised "cost basis is unavailable".  *)
(***************************************************************************)
NoPosition == [quantity |-> 0, cost |-> 0, base |-> 0]

PositionIn(r, security) ==
  IF security \in DOMAIN r.positions THEN r.positions[security] ELSE NoPosition

EventOf(t, pos, home) ==
  LET allocated == RoundDiv(pos.cost, pos.quantity) * t.quantity
      allocatedBase == RoundDiv(pos.base, pos.quantity) * t.quantity
      net == NetProceeds(t) * Ulp
      netBase == net * RateToAccount(t, home)
  IN  [id |-> t.id, security |-> t.security, day |-> t.day,
       allocated |-> allocated, gain |-> net - allocated,
       allocatedBase |-> allocatedBase, gainBase |-> netBase - allocatedBase]

\* Mutant: the rounding residue survives a closing sale.
AfterSaleKeepingResidue(pos, t, event) ==
  [quantity |-> pos.quantity - t.quantity,
   cost |-> pos.cost - event.allocated,
   base |-> pos.base - event.allocatedBase]

AfterSale(pos, t, event) ==
  LET left == pos.quantity - t.quantity
  IN  [quantity |-> left,
       cost |-> IF left = 0 THEN 0 ELSE pos.cost - event.allocated,
       base |-> IF left = 0 THEN 0 ELSE pos.base - event.allocatedBase]

AfterPurchase(pos, t, home) ==
  [quantity |-> pos.quantity + t.quantity,
   cost |-> pos.cost + Acquisition(t) * Ulp,
   base |-> pos.base + Acquisition(t) * Ulp * RateToAccount(t, home)]

GainStep(t, r, home) ==
  LET pos == PositionIn(r, t.security)
      event == EventOf(t, pos, home)
      Holds(newPos) == [s \in DOMAIN r.positions \cup {t.security} |->
                          IF s = t.security THEN newPos ELSE r.positions[s]]
  IN  CASE ~r.ok -> r
        [] r.ok /\ t.kind = "BUY" -> [r EXCEPT !.positions = Holds(AfterPurchase(pos, t, home))]
        [] r.ok /\ t.kind = "SELL" /\ (t.quantity > pos.quantity \/ pos.quantity = 0) ->
             [r EXCEPT !.ok = FALSE]
        [] r.ok /\ t.kind = "SELL" /\ t.quantity <= pos.quantity /\ pos.quantity # 0 ->
             [r EXCEPT !.positions = Holds(AfterSale(pos, t, event)),
                       !.events = Append(@, event)]

RealizedGainEvents(rows, account, day, home) ==
  InOrder(LAMBDA t, r : GainStep(t, r, home),
          [positions |-> <<>>, events |-> <<>>, ok |-> TRUE],
          {t \in rows : t.account = account /\ t.kind \in {"BUY", "SELL"} /\ t.day <= day})
=============================================================================
