------------------------------ MODULE Valuation ------------------------------
(***************************************************************************)
(* What brokerage accounts are worth: pricing.py and valuation.py of       *)
(* investments/services, and the pages that add it up.  Nothing is stored: *)
(* every figure is a function of the tables in a book b                    *)
(*   [trades, entries, prices, rates]                                      *)
(* and of a moment w: rows count through the date w.through, prices and    *)
(* rates through w.cutoff.  Reporting amounts are in 1/(Ulp * RateUnit^2)  *)
(* quanta.  Percentages and chart widths are left out.                     *)
(***************************************************************************)
EXTENDS BrokerageReplays, Fx

CONSTANTS
  Owned,         \* the user's accounts: [type, currency, active] of each
  OtherEntries,  \* ledger entries that are not postings of a trade
  Prices,        \* SecurityPrice rows, one per security, day and source
  Rates,         \* ExchangeRate rows
  Reporting,     \* settings.DEFAULT_CURRENCY
  MonthStarts,   \* the first days of the months
  Horizon        \* bound: the last day anything is dated

ASSUME OwnedAssumption ==
  /\ IsFiniteSet(DOMAIN Owned) /\ IsFiniteSet(Securities)
  /\ \A a \in Accounts : /\ a \in DOMAIN Owned /\ Owned[a].type = "BROKERAGE"
                         /\ Owned[a].currency = Home[a]

ASSUME EntriesAssumption ==
  IsFiniteSet(OtherEntries) /\ \A e \in OtherEntries : e.amount \in Int

\* Dates are days, counted from any day.
ASSUME DatesAssumption ==
  /\ Horizon \in Nat /\ \A f \in Forms : f.day <= Horizon
  /\ \A e \in OtherEntries : e.day \in Int

\* Every day on which something is dated is in a month, and a page has at
\* least six months to show.
ASSUME MonthsAssumption ==
  LET until(d) == {m \in MonthStarts : m <= d}
  IN  /\ IsFiniteSet(MonthStarts) /\ MonthStarts \subseteq Int
      /\ \A x \in Forms \cup OtherEntries : until(x.day) # {}
      /\ \A d \in 1..Horizon : Cardinality(until(d)) >= 6

\* unique_security_price; a price is in the currency of its security.
ASSUME PricesAssumption ==
  /\ IsFiniteSet(Prices)
  /\ \A p \in Prices : p.day \in Int /\ p.source \in Int /\ p.price \in Nat
  /\ \A p, q \in Prices : p.security = q.security =>
       p.currency = q.currency /\ (p.day = q.day /\ p.source = q.source => p = q)

\* unique_fx_rate, fx_currencies_differ, fx_rate_positive; a rate has no more
\* digits before the point than after it.
ASSUME RatesAssumption ==
  /\ IsFiniteSet(Rates)
  /\ \A r \in Rates : /\ r.day \in Int /\ r.source \in Int /\ r.base # r.quote
                      /\ r.rate \in 1..(RateUnit * RateUnit)
  /\ \A r, s \in Rates : r.base = s.base /\ r.quote = s.quote /\ r.day = s.day
                           /\ r.source = s.source => r = s

Book == [trades |-> posted, entries |-> OtherEntries, prices |-> Prices, rates |-> Rates]

\* calculate_portfolio_value for a date, and as the pages of a day call it:
\* without a date, so that rows dated later count.
AsOf(day) == [through |-> day, cutoff |-> day]
PageOf(day) == [through |-> Horizon, cutoff |-> day]

-----------------------------------------------------------------------------
\* Mutant: a price from after the date is taken.
PricesKnownEver(b, security, w) == {p \in b.prices : p.security = security}

PricesKnown(b, security, w) == {p \in b.prices : p.security = security /\ p.day <= w.cutoff}

LatestPrice(b, security, w) == Newest(PricesKnown(b, security, w))

CashBalance(b, account, w) ==
  Sum(LAMBDA e : e.amount, {e \in b.entries : e.account = account /\ e.day <= w.through})
  + Sum(LAMBDA t : CashAmount(t, Home[account]),
        {t \in b.trades : t.account = account /\ t.day <= w.through})

Position(b, account, security, w) ==
  HoldingAsOf(b.trades, account, security, w.through, Home[account])

\* Mutant: a missing rate does not make the row an error.
ConvertibleIfPriced(b, account, security, w, currency) == PricesKnown(b, security, w) # {}

\* There is a price, and a rate for it and for the cost.
Convertible(b, account, security, w, currency) ==
  /\ PricesKnown(b, security, w) # {}
  /\ FxRate(b.rates, LatestPrice(b, security, w).currency, currency, w.cutoff) # MissingRate
  /\ FxRate(b.rates, Home[account], currency, w.cutoff) # MissingRate

\* A holding's row.  Without a price or a rate it is an error row, whose cost
\* stays in the currency of the account.
HoldingRow(security, p, known, unitValue, toCost) ==
  [security |-> security, quantity |-> p.quantity, known |-> known,
   market |-> IF known THEN p.quantity * unitValue ELSE 0,
   cost |-> p.base * (IF known THEN toCost ELSE RateUnit),
   gain |-> IF known THEN p.quantity * unitValue - p.base * toCost ELSE 0]

UnitValue(b, price, w, currency) ==
  price.price * Ulp * RateUnit * FxRate(b.rates, price.currency, currency, w.cutoff)

HoldingValuation(b, account, security, w, currency) ==
  HoldingRow(security, Position(b, account, security, w),
             Convertible(b, account, security, w, currency),
             UnitValue(b, LatestPrice(b, security, w), w, currency),
             FxRate(b.rates, Home[account], currency, w.cutoff))

Positions(b, account, w) == [s \in Securities |-> Position(b, account, s, w)]

Open(positions) == {s \in Securities : positions[s].quantity # 0}

\* Mutant: gains of positions since closed are forgotten.
TotalsOfOpen(rows, positions, rate, cash) ==
  [complete |-> rate # MissingRate /\ \A r \in rows : r.known,
   rows |-> rows, market |-> Sum(LAMBDA r : r.market, rows),
   cost |-> rate * Sum(LAMBDA s : positions[s].base, Open(positions)), cash |-> rate * cash,
   realized |-> rate * Sum(LAMBDA s : positions[s].realizedBase, Open(positions)),
   unrealized |-> Sum(LAMBDA r : r.market, rows)
                  - rate * Sum(LAMBDA s : positions[s].base, Open(positions)),
   total |-> rate * cash + Sum(LAMBDA r : r.market, rows)]

Totals(rows, positions, rate, cash) ==
  [complete |-> rate # MissingRate /\ \A r \in rows : r.known,
   rows |-> rows, market |-> Sum(LAMBDA r : r.market, rows),
   cost |-> rate * Sum(LAMBDA s : positions[s].base, Open(positions)), cash |-> rate * cash,
   realized |-> rate * Sum(LAMBDA s : positions[s].realizedBase, Securities),
   unrealized |-> Sum(LAMBDA r : r.market, rows)
                  - rate * Sum(LAMBDA s : positions[s].base, Open(positions)),
   total |-> rate * cash + Sum(LAMBDA r : r.market, rows)]

\* calculate_portfolio_value.  The totals are stated if complete.
Valuation(b, account, w, currency) ==
  Totals({HoldingValuation(b, account, s, w, currency) : s \in Open(Positions(b, account, w))},
         Positions(b, account, w), FxRate(b.rates, Home[account], currency, w.cutoff),
         CashBalance(b, account, w) * Ulp * RateUnit)

\* The replays raise, and so does every page, on an oversold history.
Replayable(b, account, w) == \A s \in Securities : Position(b, account, s, w).ok

-----------------------------------------------------------------------------
\* PortfolioView: the active brokerage accounts, totals only if all are complete.
PortfolioTotals(values) ==
  LET shown == DOMAIN values
  IN  [complete |-> \A a \in shown : values[a].complete,
       total |-> Sum(LAMBDA a : values[a].total, shown),
       cash |-> Sum(LAMBDA a : values[a].cash, shown),
       cost |-> Sum(LAMBDA a : values[a].cost, shown),
       unrealized |-> Sum(LAMBDA a : values[a].unrealized, shown),
       realized |-> Sum(LAMBDA a : values[a].realized, shown)]

PortfolioPage(b, w) ==
  PortfolioTotals([a \in {x \in Accounts : Owned[x].active} |-> Valuation(b, a, w, Reporting)])

\* SecurityDetailView: the positions in every account, archived ones too.
SecurityTotals(rows) ==
  LET holders == DOMAIN rows
  IN  [complete |-> \A a \in holders : rows[a].known,
       quantity |-> Sum(LAMBDA a : rows[a].quantity, holders),
       market |-> Sum(LAMBDA a : rows[a].market, holders),
       cost |-> Sum(LAMBDA a : rows[a].cost, holders),
       unrealized |-> Sum(LAMBDA a : rows[a].gain, holders)]

\* Mutant: the positions of archived accounts are not on the page.
SecurityPageActive(b, security, w) ==
  SecurityTotals([a \in {x \in Accounts : Owned[x].active
                                          /\ Position(b, x, security, w).quantity # 0}
                    |-> HoldingValuation(b, a, security, w, Reporting)])

SecurityPage(b, security, w) ==
  SecurityTotals([a \in {x \in Accounts : Position(b, x, security, w).quantity # 0}
                    |-> HoldingValuation(b, a, security, w, Reporting)])

-----------------------------------------------------------------------------
\* DashboardView: ledger balances only, in the default currency only.
Liabilities == {"CREDIT_CARD", "LOAN", "MORTGAGE"}

InDefault(account) == Owned[account].currency = Reporting

\* The entries of an account, those of its trades included.
EntriesOf(b, account) ==
  {[day |-> e.day, amount |-> e.amount, of |-> e] : e \in {x \in b.entries : x.account = account}}
  \cup {[day |-> t.day, amount |-> CashAmount(t, Home[account]), of |-> t] :
          t \in {x \in b.trades : x.account = account}}

EntrySum(S) == Sum(LAMBDA e : e.amount, S)

Reported == {a \in DOMAIN Owned : Owned[a].active /\ InDefault(a)}

TotalAssets(b) ==
  Sum(LAMBDA a : EntrySum(EntriesOf(b, a)), {a \in Reported : Owned[a].type \notin Liabilities})

TotalLiabilities(b) ==
  Sum(LAMBDA a : -EntrySum(EntriesOf(b, a)), {a \in Reported : Owned[a].type \in Liabilities})

NetWorth(b) == TotalAssets(b) - TotalLiabilities(b)

MonthOf(day) == Max({m \in MonthStarts : m <= day})

\* Mutant: the next month starts a month-length before, not the day before.
MonthsShownByLength(today) ==
  LET back[n \in 0..5] == IF n = 0 THEN MonthOf(today) ELSE MonthOf(back[n - 1] - 3)
  IN  [i \in 1..6 |-> back[6 - i]]

\* The six months of the chart, the current one last.
MonthsShown(today) ==
  LET back[n \in 0..5] == IF n = 0 THEN MonthOf(today) ELSE MonthOf(back[n - 1] - 1)
  IN  [i \in 1..6 |-> back[6 - i]]

\* _cashflow_chart: what each of the months adds, archived accounts included.
CashflowChart(b, today) ==
  LET months == MonthsShown(today)
      counted == UNION {EntriesOf(b, a) : a \in {x \in DOMAIN Owned : InDefault(x)}}
      since == {e \in counted : e.day >= months[1]}
  IN  [i \in 1..6 |-> EntrySum({e \in since : MonthOf(e.day) = months[i]})]

-----------------------------------------------------------------------------
Days == 1..Horizon

Moments == {AsOf(d) : d \in Days} \cup {PageOf(d) : d \in Days}

PaidIn(a, w) ==
  Sum(LAMBDA e : e.amount, {e \in OtherEntries : e.account = a /\ e.day <= w.through})

Income(trades, home) ==
  Sum(LAMBDA t : NetCashImpact(t) * RateToAccount(t, home),
      {t \in trades : t.kind \notin {"BUY", "SELL"}})

\* Half a quantum per posting and per share that a sale may have rounded away.
Rounding(trades) ==
  Ulp * RateUnit * RateUnit * Cardinality(trades)
  + RateUnit * Sum(LAMBDA t : t.quantity, {t \in trades : t.kind = "SELL"})

Explained(v, a, w, trades) ==
  2 * Abs(v.total - v.realized - v.unrealized
          - Ulp * RateUnit * (Income(trades, Home[a]) + RateUnit * PaidIn(a, w)))
    <= Rounding(trades)

\* valuation.py:127-131: where the money is.  In the currency of the account,
\* what it is worth beyond what was paid in is the realised and the unrealised
\* gain and the dividends less fees and taxes, up to half a quantum per
\* posting and what a closing sale rounds away.
ValueExplained ==
  \A a \in Accounts, w \in Moments :
    Replayable(Book, a, w) /\ Valuation(Book, a, w, Home[a]).complete
      => Explained(Valuation(Book, a, w, Home[a]), a, w,
                   {t \in posted : t.account = a /\ t.day <= w.through})

KnownRate(from, to, day) ==
  from = to \/ \E r \in Rates : r.day <= day /\ {r.base, r.quote} = {from, to}

KnownValue(a, currency, d) ==
  /\ KnownRate(Home[a], currency, d)
  /\ \A s \in {x \in Securities : Sum(SignedQuantity, History(a, x)) > 0} :
       \E p \in Prices : p.security = s /\ p.day <= d /\ KnownRate(p.currency, currency, d)

\* README.md:146-147, "Missing prices or foreign rates make affected valuation
\* and portfolio totals visibly incomplete rather than substituting zero or
\* one", and nothing else does.
IncompleteWhenUnknown ==
  \A d \in Days :
    (\A a \in Accounts : Replayable(Book, a, PageOf(d))) =>
      /\ \A a \in Accounts : \A c \in {Home[a], Reporting} :
           Valuation(Book, a, PageOf(d), c).complete <=> KnownValue(a, c, d)
      /\ PortfolioPage(Book, PageOf(d)).complete <=>
           \A a \in Accounts : Owned[a].active => KnownValue(a, Reporting, d)

\* README.md:143-144, "never future data": a valuation as of a day is the one
\* that was shown on that day, whatever is entered for later days.
PastStaysPut ==
  \A d \in Days, a \in Accounts :
    LET then == [table \in DOMAIN Book |-> {x \in Book[table] : x.day <= d}]
    IN  Replayable(Book, a, AsOf(d)) =>
          Valuation(Book, a, AsOf(d), Reporting) = Valuation(then, a, PageOf(d), Reporting)

Agree(page, sheet, value, archived) ==
  (\A a \in Accounts : value[a].complete) =>
    /\ \A s \in Securities : sheet[s].complete
    /\ Sum(LAMBDA s : sheet[s].market, Securities)
         = page.total - page.cash + Sum(LAMBDA a : value[a].market, archived)
    /\ Sum(LAMBDA s : sheet[s].unrealized, Securities)
         = page.unrealized + Sum(LAMBDA a : value[a].unrealized, archived)
    /\ Sum(LAMBDA s : sheet[s].cost, Securities)
         = page.cost + Sum(LAMBDA a : value[a].cost, archived)

\* The pages agree where they show the same thing: the portfolio page with the
\* pages of the securities, which add archived accounts
\* (investments/views.py:174), and its rows with its totals.
PagesAgree ==
  \A d \in Days :
    (\A a \in Accounts : Replayable(Book, a, PageOf(d))) =>
      Agree(PortfolioPage(Book, PageOf(d)),
            [s \in Securities |-> SecurityPage(Book, s, PageOf(d))],
            [a \in Accounts |-> Valuation(Book, a, PageOf(d), Reporting)],
            {a \in Accounts : ~Owned[a].active})

\* dashboard/views.py:54 and :92-114: net worth and the chart tell one story.
\* What the accounts had before the six months and the six bars make up the
\* net worth, but for archived accounts and entries dated after this month.
CashflowExplainsWorth ==
  \A today \in Days :
    LET chart == CashflowChart(Book, today)
        all == UNION {EntriesOf(Book, a) : a \in {x \in DOMAIN Owned : InDefault(x)}}
        before == EntrySum({e \in all : e.day < MonthsShown(today)[1]})
        later == EntrySum({e \in all : MonthOf(e.day) > MonthOf(today)})
        archived == Sum(LAMBDA a : EntrySum(EntriesOf(Book, a)),
                        {a \in DOMAIN Owned : InDefault(a) /\ ~Owned[a].active})
    IN  before + Sum(LAMBDA i : chart[i], 1..6) + later = NetWorth(Book) + archived
=============================================================================
