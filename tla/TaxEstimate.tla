----------------------------- MODULE TaxEstimate ----------------------------
(***************************************************************************)
(* build_tax_year_summary (tax/services/aggregation.py): the live estimate *)
(* of one tax year from the ledger, the trades, the exchange rates and     *)
(* what the user entered for the year.  Reporting amounts are whole        *)
(* numbers of 1/(Ulp * RateUnit^2) quanta; a tax rate is a whole percent,  *)
(* so tax amounts are in hundredths of that.  Lines, labels, traces and    *)
(* the review reasons of unclassified transactions are left out.           *)
(***************************************************************************)
EXTENDS Fx, Replay

CONSTANTS
  Accounts, Home,     \* brokerage accounts and their currencies
  Reporting,          \* reporting_currency of the year
  Year,               \* the tax year [start, end]
  Days,
  LedgerEntries,      \* INTEREST and TAX entries users may post
  DividendRows,       \* dividends they may post
  TradeRows,          \* purchases and sales they may post
  Observations,       \* exchange rates they may record
  ItemRows,           \* allowances, deductions and adjustments of the year
  RuleRows            \* tax rules of the year

VARIABLE book   \* the tables the summary reads, each a set of rows

Tables == {"entries", "dividends", "trades", "rates", "items", "rules"}

CategoryOrder == <<"INTEREST", "DIVIDEND", "CAPITAL_GAIN", "EMPLOYMENT_INCOME", "OTHER_INCOME">>
Categories == {CategoryOrder[i] : i \in DOMAIN CategoryOrder}

InYear(y, day) == y.start <= day /\ day <= y.end

ASSUME YearAssumption ==
  /\ Days \subseteq Int /\ IsFiniteSet(Days) /\ {Year.start, Year.end} \subseteq Int /\ Year.start <= Year.end
  /\ IsFiniteSet(Accounts)

\* What the columns hold; ids are primary keys, no entry is zero
\* (entry_amount_nonzero), and the form demands the rate of a foreign trade.
\* An item need not lie in Year: it lay in the period the year had when it was
\* entered, and the period can be edited.
ASSUME RowsAssumption ==
  /\ \A x \in LedgerEntries \cup DividendRows \cup TradeRows \cup Observations : x.day \in Days
  /\ \A x \in LedgerEntries \cup ItemRows : x.amount \in Int
  /\ \A e \in LedgerEntries : e.amount # 0
  /\ \A d \in DividendRows : {d.gross, d.taxes, d.exchange} \subseteq Nat
  /\ \A t \in TradeRows : {t.id, t.quantity, t.gross, t.costs, t.exchange} \subseteq Nat
  /\ \A t \in TradeRows : Rated(t, Home[t.account])
  /\ \A r \in Observations : r.rate \in Nat \ {MissingRate} /\ r.source \in Int
  /\ \A i \in ItemRows : i.table = "ALLOWANCE" \/ i.day \in Days
  /\ \A r \in RuleRows : {r.amount, r.rate} \subseteq Nat /\ {r.id, r.priority} \subseteq Int
  /\ \A r, s \in RuleRows : r.id = s.id => r = s

Least(a, b) == IF a < b THEN a ELSE b
NonNegative(n) == IF n < 0 THEN 0 ELSE n
Magnitude(n) == IF n < 0 THEN -n ELSE n

(***************************************************************************)
(* Conversions.  A missing rate is 0 and so adds nothing.                  *)
(***************************************************************************)
RateOn(b, currency, day) == FxRate(b.rates, currency, Reporting, day)

Convert(b, amount, currency, day) == amount * Ulp * RateUnit * RateOn(b, currency, day)

\* _convert_investment: a trade-time rate first, if the row has one.
HasOwnRate(d) == d.currency # Reporting /\ d.exchange # MissingRate
RateOfDividend(b, d) ==
  IF HasOwnRate(d)
  THEN d.exchange * RateOn(b, Home[d.account], d.day)
  ELSE RateUnit * RateOn(b, d.currency, d.day)

ConvertDividend(b, amount, d) == amount * Ulp * RateOfDividend(b, d)

\* Allowances have no date: they convert at the start of the year.
ItemDay(i) == IF i.table = "ALLOWANCE" THEN Year.start ELSE i.day
ItemValue(b, i) == Convert(b, i.amount, i.currency, ItemDay(i))

(***************************************************************************)
(* The facts of a year y.                                                  *)
(***************************************************************************)
\* amount__gt=0 for interest and amount__lt=0 for tax: interest charged or taken
\* back and tax paid back are left out, and nothing says so.
Counts(e) == (e.type = "INTEREST" /\ e.amount > 0) \/ (e.type = "TAX" /\ e.amount < 0)

EntriesIn(b, type, y) == {e \in b.entries : e.type = type /\ Counts(e) /\ InYear(y, e.day)}
EntryTotal(b, type, y) ==
  SumFunction([e \in EntriesIn(b, type, y) |-> Convert(b, Magnitude(e.amount), e.currency, e.day)])

DividendsIn(b, y) == {d \in b.dividends : InYear(y, d.day)}

\* Mutant: the replay starts with the year.
SalesInWithoutHistory(b, a, y) ==
  LET replay == RealizedGainEvents({t \in b.trades : t.day >= y.start}, a, y.end, Home[a])
  IN  IF replay.ok
      THEN {replay.events[i] : i \in {j \in DOMAIN replay.events : replay.events[j].day >= y.start}}
      ELSE {}

\* The replay runs over all trades up to the end of the year.
SalesIn(b, a, y) ==
  LET replay == RealizedGainEvents(b.trades, a, y.end, Home[a])
  IN  IF replay.ok
      THEN {replay.events[i] : i \in {j \in DOMAIN replay.events : replay.events[j].day >= y.start}}
      ELSE {}

GainOf(b, sale, a) == sale.gainBase * RateOn(b, Home[a], sale.day)

GainsOf(b, a, y) == SumFunction([s \in SalesIn(b, a, y) |-> NonNegative(GainOf(b, s, a))])
LossesOf(b, a, y) == SumFunction([s \in SalesIn(b, a, y) |-> Least(GainOf(b, s, a), 0)])

Gains(b, y) == SumFunction([a \in Accounts |-> GainsOf(b, a, y)])
Losses(b, y) == SumFunction([a \in Accounts |-> LossesOf(b, a, y)])

GrossDividends(b, y) == SumFunction([d \in DividendsIn(b, y) |-> ConvertDividend(b, d.gross, d)])

Income(b, c, y) ==
  CASE c = "INTEREST" -> EntryTotal(b, "INTEREST", y)
    [] c = "DIVIDEND" -> GrossDividends(b, y)
    [] c = "CAPITAL_GAIN" -> Gains(b, y)
    [] OTHER -> 0

(***************************************************************************)
(* What the user entered.  An adjustment's category decides what it is.    *)
(***************************************************************************)
Adjustments(b, category) == {i \in b.items : i.table = "ADJUSTMENT" /\ i.category = category}

Target(i) == IF i.appliesTo = "" THEN "OVERALL" ELSE i.appliesTo

SizeOf(b, S) == SumFunction([i \in S |-> Magnitude(ItemValue(b, i))])

\* manual_allowances, manual_deductions
Manual(b, kind, c) ==
  SizeOf(b, {i \in b.items : i.table = kind /\ i.category = c}
           \cup {i \in Adjustments(b, kind) : Target(i) = c})

ValueOf(b, S) == SumFunction([i \in S |-> ItemValue(b, i)])

Gross(b, c) == Income(b, c, Year) + ValueOf(b, Adjustments(b, c))

Netted(b, c) ==
  IF c = "CAPITAL_GAIN" THEN Losses(b, Year) - SizeOf(b, Adjustments(b, "CAPITAL_LOSS")) ELSE 0

TaxedAtSource(b, y) == SumFunction([d \in DividendsIn(b, y) |-> ConvertDividend(b, d.taxes, d)])

Withheld(b) == TaxedAtSource(b, Year) + SizeOf(b, Adjustments(b, "WITHHOLDING_TAX"))

Paid(b) == EntryTotal(b, "TAX", Year) + SizeOf(b, Adjustments(b, "TAX_PAYMENT"))

(***************************************************************************)
(* The calculation.  A row is [taxable, allowances, deductions, tax].      *)
(***************************************************************************)
\* Mutant: the relief is not limited to what there is to relieve.
ReliefUnlimited(row, kind, amount) ==
  IF kind = "ALLOWANCE"
  THEN [row EXCEPT !.taxable = @ - amount, !.allowances = @ + amount]
  ELSE [row EXCEPT !.taxable = @ - amount, !.deductions = @ + amount]

Relief(row, kind, amount) ==
  LET used == Least(row.taxable, amount)
  IN  IF kind = "ALLOWANCE"
      THEN [row EXCEPT !.taxable = @ - used, !.allowances = @ + used]
      ELSE [row EXCEPT !.taxable = @ - used, !.deductions = @ + used]

\* Mutant: what one category used is still there for the next.
OverallReliefRepeated(rows, kind, amount) ==
  [c \in Categories |-> Relief(rows[c], kind, amount)]

\* _apply_overall_reduction: one amount, spent in CategoryOrder.
OverallRelief(rows, kind, amount) ==
  LET Spend(acc, c) ==
        [rows |-> [acc.rows EXCEPT ![c] = Relief(@, kind, acc.left)],
         left |-> acc.left - Least(acc.rows[c].taxable, acc.left)]
  IN  FoldLeft(Spend, [rows |-> rows, left |-> amount], CategoryOrder).rows

ManualRows(b) ==
  LET start == [c \in Categories |->
                  [taxable |-> NonNegative(Gross(b, c) + Netted(b, c)),
                   allowances |-> 0, deductions |-> 0, tax |-> 0]]
      own == [c \in Categories |->
                Relief(Relief(start[c], "ALLOWANCE", Manual(b, "ALLOWANCE", c)),
                       "DEDUCTION", Manual(b, "DEDUCTION", c))]
  IN  OverallRelief(OverallRelief(own, "ALLOWANCE", Manual(b, "ALLOWANCE", "OVERALL")),
                    "DEDUCTION", Manual(b, "DEDUCTION", "OVERALL"))

Targets(rule) == IF rule.category = "OVERALL" THEN Categories ELSE {rule.category}

\* threshold or fixed_amount, already in the reporting currency.
Granted(rule) == rule.amount * Ulp * RateUnit * RateUnit

\* Mutant: a threshold frees what is above it instead of what is below.
ReliefRuleInverted(rule, rows) ==
  LET kind == IF rule.type = "ALLOWANCE" THEN "ALLOWANCE" ELSE "DEDUCTION"
      size(row) == IF rule.type = "THRESHOLD" /\ row.taxable <= Granted(rule)
                   THEN 0 ELSE Granted(rule)
  IN  [c \in Categories |->
         IF c \in Targets(rule) THEN Relief(rows[c], kind, size(rows[c])) ELSE rows[c]]

\* A THRESHOLD reduces the taxable amount and counts as a deduction.
ReliefRule(rule, rows) ==
  LET kind == IF rule.type = "ALLOWANCE" THEN "ALLOWANCE" ELSE "DEDUCTION"
  IN  [c \in Categories |->
         IF c \in Targets(rule) THEN Relief(rows[c], kind, Granted(rule)) ELSE rows[c]]

FlatRule(rule, rows) ==
  [c \in Categories |->
     IF c \in Targets(rule)
     THEN [rows[c] EXCEPT !.tax = @ + rows[c].taxable * rule.rate]
     ELSE rows[c]]

FirstLast(S) ==
  CHOOSE r \in S : \A s \in S \ {r} :
    s.priority < r.priority \/ (s.priority = r.priority /\ s.id < r.id)

ByPriority(step(_, _), rows, S) == MapThenFoldSet(step, rows, LAMBDA r : r, FirstLast, S)

RelievedRows(b) == ByPriority(ReliefRule, ManualRows(b), {r \in b.rules : r.type # "FLAT_RATE"})

Rows(b) == ByPriority(FlatRule, RelievedRows(b), {r \in b.rules : r.type = "FLAT_RATE"})

EstimatedTax(b) == LET rows == Rows(b) IN SumFunction([c \in Categories |-> rows[c].tax])

Balance(b) == EstimatedTax(b) - 100 * (Withheld(b) + Paid(b))
Due(b) == NonNegative(Balance(b))
Refund(b) == NonNegative(-Balance(b))

\* Mutant: dividends without a rate do not show.
IncompleteExceptDividends(b) ==
  \/ \E e \in EntriesIn(b, "INTEREST", Year) \cup EntriesIn(b, "TAX", Year) :
       RateOn(b, e.currency, e.day) = MissingRate
  \/ \E a \in Accounts :
       \/ ~RealizedGainEvents(b.trades, a, Year.end, Home[a]).ok
       \/ \E s \in SalesIn(b, a, Year) : RateOn(b, Home[a], s.day) = MissingRate
  \/ \E i \in b.items : RateOn(b, i.currency, ItemDay(i)) = MissingRate

\* completeness = "INCOMPLETE"
Incomplete(b) ==
  \/ \E e \in EntriesIn(b, "INTEREST", Year) \cup EntriesIn(b, "TAX", Year) :
       RateOn(b, e.currency, e.day) = MissingRate
  \/ \E d \in DividendsIn(b, Year) : RateOfDividend(b, d) = MissingRate
  \/ \E a \in Accounts :
       \/ ~RealizedGainEvents(b.trades, a, Year.end, Home[a]).ok
       \/ \E s \in SalesIn(b, a, Year) : RateOn(b, Home[a], s.day) = MissingRate
  \/ \E i \in b.items : RateOn(b, i.currency, ItemDay(i)) = MissingRate

Summary(b) == [rows |-> Rows(b), due |-> Due(b), refund |-> Refund(b), incomplete |-> Incomplete(b)]

-----------------------------------------------------------------------------
\* A book with one row more, or one less.
With(b, table, row) == [b EXCEPT ![table] = @ \cup {row}]
Without(b, table, row) == [b EXCEPT ![table] = @ \ {row}]

Init == book = [table \in Tables |-> {}]

PostEntry(e) == book' = With(book, "entries", e)

DeleteEntry(e) == book' = Without(book, "entries", e)

PostDividend(d) == book' = With(book, "dividends", d)

\* Brokerage: permitted by the history, ids in posting order.
Postable(b, t) == (\A u \in b.trades : u.id < t.id) /\ PermitsPosting(b.trades, t)

PostTrade(t) == Postable(book, t) /\ book' = With(book, "trades", t)

\* unique_fx_rate
ObserveRate(r) ==
  /\ \A q \in book.rates :
       <<q.day, q.base, q.quote, q.source>> # <<r.day, r.base, r.quote, r.source>>
  /\ book' = With(book, "rates", r)

EnterItem(i) == book' = With(book, "items", i)

EnterRule(r) == book' = With(book, "rules", r)

\* archive_tax_item: inactive items and rules do not count.
Archive(table, row) == book' = Without(book, table, row)

Next ==
  \/ \E e \in LedgerEntries : PostEntry(e)
  \/ \E e \in book.entries : DeleteEntry(e)
  \/ \E d \in DividendRows : PostDividend(d)
  \/ \E t \in TradeRows : PostTrade(t)
  \/ \E r \in Observations : ObserveRate(r)
  \/ \E i \in ItemRows : EnterItem(i)
  \/ \E r \in RuleRows : EnterRule(r)
  \/ \E table \in {"items", "rules"} : \E row \in book[table] : Archive(table, row)

Spec == Init /\ [][Next]_book

-----------------------------------------------------------------------------
\* Nothing is taxed below zero and nothing is lost: in every category the
\* taxable amount, the allowances used and the deductions used add up to the
\* netted income, whatever was entered (the trace shown to the user adds up).
ReductionsAccountedFor ==
  LET rows == Rows(book)
  IN  \A c \in Categories :
        /\ rows[c].taxable >= 0 /\ rows[c].tax >= 0
        /\ rows[c].taxable + rows[c].allowances + rows[c].deductions
             = NonNegative(Gross(book, c) + Netted(book, c))

\* README.md:174-176, an overall allowance is spent once, in category order: a
\* category gets some of it only when nothing is left to tax before it.
OverallReliefInOrder ==
  LET rows == ManualRows(book)
      own(c) == Least(NonNegative(Gross(book, c) + Netted(book, c)), Manual(book, "ALLOWANCE", c))
      spent(c) == rows[c].allowances - own(c)
  IN  /\ SumFunction([c \in Categories |-> spent(c)]) <= Manual(book, "ALLOWANCE", "OVERALL")
      /\ \A i, j \in DOMAIN CategoryOrder :
           i < j /\ spent(CategoryOrder[j]) > 0 => rows[CategoryOrder[i]].taxable = 0

\* Two years that share a boundary count every fact once: interest, dividends,
\* gains, losses and payments of the parts add up to those of the whole, with
\* the cost of a sale carried over from earlier years.
YearsSplitFacts ==
  \A d \in Days :
    LET last == Max(Days)
        whole == [start |-> Min(Days), end |-> last]
        before == [start |-> Min(Days), end |-> d]
        after == [start |-> d + 1, end |-> last]
        Adds(total(_)) == total(whole) = total(before) + total(after)
    IN  (\A a \in Accounts : RealizedGainEvents(book.trades, a, last, Home[a]).ok) =>
          /\ \A c \in Categories : Adds(LAMBDA y : Income(book, c, y))
          /\ Adds(LAMBDA y : Losses(book, y))
          /\ Adds(LAMBDA y : EntryTotal(book, "TAX", y))

\* README.md:165-166, missing FX or cost basis marks the summary incomplete: a
\* complete one counts all interest received, all tax paid, every dividend and
\* every sale of the year, and every item.  It does not count what went the
\* other way: interest taken back and tax paid back change nothing, complete or
\* not.
CompleteCountsAll ==
  /\ ~Incomplete(book) =>
    /\ \A e \in {x \in book.entries : InYear(Year, x.day)} :
         (e.type = "INTEREST" /\ e.amount > 0) \/ (e.type = "TAX" /\ e.amount < 0)
           => /\ e \in EntriesIn(book, e.type, Year)
              /\ Convert(book, Magnitude(e.amount), e.currency, e.day) > 0
    /\ \A d \in DividendsIn(book, Year) : d.gross > 0 => ConvertDividend(book, d.gross, d) > 0
    /\ \A i \in book.items : i.amount # 0 => ItemValue(book, i) # 0
    /\ \A a \in Accounts :
         {s.id : s \in SalesIn(book, a, Year)} = {t.id : t \in {u \in book.trades :
            u.account = a /\ u.kind = "SELL" /\ InYear(Year, u.day)}}
  /\ \A e \in book.entries :
       (e.type = "INTEREST" /\ e.amount < 0) \/ (e.type = "TAX" /\ e.amount > 0)
         => Summary(Without(book, "entries", e)) = Summary(book)

\* Everything else equal, more income never lowers the estimated tax, nor does
\* interest taken back, which is not counted, and an
\* allowance, a deduction or a relief rule more never raises it, although each
\* moves the overall reliefs from one category to another.
EstimateMonotone ==
  LET relieving(i) == {i.table, i.category} \cap {"ALLOWANCE", "DEDUCTION"} # {}
      interest == {x \in LedgerEntries : x.type = "INTEREST"}
      earned == {With(book, "entries", e) : e \in interest}
                \cup {With(book, "dividends", d) : d \in DividendRows}
      relieved == {With(book, "items", i) : i \in {x \in ItemRows : relieving(x)}}
                  \cup {With(book, "rules", r) : r \in {x \in RuleRows : x.type # "FLAT_RATE"}}
  IN  /\ \A b \in earned : EstimatedTax(b) >= EstimatedTax(book)
      /\ \A b \in relieved : EstimatedTax(b) <= EstimatedTax(book)

\* The summary of a year is history: no entry, dividend, trade or exchange rate
\* dated after its end changes it ("never future data", README.md:143-144).  The
\* one exception is an item that lies after the end, of a year shortened since:
\* it still counts, at the exchange rate of its own day.
LaterFactsDontMatter ==
  LET later(S) == {x \in S : x.day > Year.end}
      itemsEnd == \A i \in book.items : ItemDay(i) <= Year.end
      more == {With(book, "entries", e) : e \in later(LedgerEntries)}
              \cup {With(book, "dividends", d) : d \in later(DividendRows)}
              \cup {With(book, "trades", t) : t \in {x \in later(TradeRows) : Postable(book, x)}}
              \cup {With(book, "rates", r) : r \in {x \in later(Observations) : itemsEnd}}
  IN  \A b \in more : Summary(b) = Summary(book)

\* README.md:174-176 again, for rules: the relief rules together reduce the
\* taxable amounts by no more than what they grant.
OverallRulesSpentOnce ==
  LET before == ManualRows(book)
      after == RelievedRows(book)
      granting == {r \in book.rules : r.type # "FLAT_RATE"}
  IN  SumFunction([c \in Categories |-> before[c].taxable - after[c].taxable])
        <= SumFunction([r \in granting |-> Granted(r)])
=============================================================================
