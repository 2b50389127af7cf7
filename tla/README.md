# Vault67 verification development

TLA+ models of Vault67, a self-hosted personal finance application (Django 5,
PostgreSQL, three gunicorn workers): its accounts and fixed-term deposits, its
investment postings and what they are worth, its cash ledger and statement imports,
its tax years and its annual tax estimate, its backup and its demo seed. Every
definition is a translation of the Python under `src/`; documents are quoted only
where a property states what they promise. TLC checks the models on small instances,
TLAPS proves for every instance all they check but liveness.

    tlasany M.tla                          parse
    tlc -workers 2 -config X.cfg M.tla     check
    tlapm M.tla                            prove (M one of the *Proofs modules)

`PROJECT.json` lists runs, mutants, hazards and theorems, and maps every
definition to the lines it models.

## 1. The system

There is no background process, no queue and no cache: all state is in
PostgreSQL, and concurrency is that of HTTP requests served by several workers.
`ATOMIC_REQUESTS` is off and the isolation level is READ COMMITTED, so outside
an explicit `atomic()` every query is a transaction of its own and a check holds
for the moment it is made.

| Component | State | Operations | Interacts with |
|---|---|---|---|
| Investment posting (`investments/services/transactions.py`, forms, views, admin) | `InvestmentTransaction`, with a `Transaction` and a `TransactionEntry` each | record buy, sell, dividend, fee, tax | locks the account row; reads holdings; writes the ledger |
| Holdings, cost basis (`holdings.py`, `cost_basis.py`) | none | replay a history | called by posting, valuation, tax |
| Cash ledger (`ledger/services.py`, views) | `Transaction`, `TransactionEntry` | deposit, withdraw, transfer, import, delete one, delete all of an account | PROTECT foreign keys to investments |
| Exchange rates (`core/services/fx.py`) | `ExchangeRate`, append-only | observe, look up | called by valuation, tax |
| Tax years (`tax/models.py`, views, forms) | `TaxYear`, deductions, allowances, adjustments, rules | create, edit, file, archive items | read by the estimate |
| Tax estimate (`tax/services/aggregation.py`) | none | build the summary of a year | reads ledger, trades, rates, items |
| Accounts (`accounts/`, treatments of `tax/`) | `FinancialAccount`, `FixedTermDetails`, `Institution`, `ReturnTaxTreatment` | create with contract and opening posting, edit, archive | currency and lock row used by posting; opening posts to the ledger |
| Imports, exports (`ledger/imports.py`, `exports.py`) | none | parse and post a statement; write CSV | ledger |
| Prices, valuation, dashboard | `SecurityPrice`, append-only | value a portfolio | holdings, rates |
| Fixed terms, interest, return tax | none | project interest and tax | accounts |
| Backup (`core/backup.py`, `export_data`, `import_data`) | all tables | dump, restore into a new instance | all |
| Demo seed (`seed_demo_data`) | rows of all tables | get or create objects, post three groups of transactions | ledger, posting |

What makes each of them correct:

- *Posting*: one indivisible step per request, whatever runs beside it; a sale
  never exceeds what is held; one non-zero cash entry per trade.
- *Replays*: the two independent implementations of weighted-average cost agree
  and lose no cost; a history that was accepted can be replayed.
- *Ledger*: a transaction exists with all its entries or not at all; transfers
  cancel; investment postings survive every deletion.
- *Accounts*: a fixed-term account comes with its contract and one opening posting
  or not at all, and never mixes two submissions; its page converges on the
  projection it shows.
- *Imports*: a statement is refused or posted whole, in its currency, and its entries
  lead from its opening to its closing balance; an export is read again, or refused for
  a known reason.
- *Valuation*: worth is what was paid in plus what was gained; a missing price or
  rate is reported everywhere above it; the future never changes the past.
- *Backup and seed*: a restored instance is consistent and the one that was saved; a
  seed run again repeats nothing.
- *Tax years*: periods of one jurisdiction are disjoint; a filed year and what
  was entered for it are frozen; dated items lie in their year.
- *Estimate*: reductions add up, every fact it reads is counted in exactly one year,
  what has no rate is reported, nothing recorded after the end of the year matters.

Hard here: the check of a sale and its commit, with others committing between;
the row lock and what is *not* reread under it; the id order replays rely on; bulk
deletions over shared transfers; checks in tax forms, none of which lock; chained
caps and roundings of the tax calculation; creations and imports of many
statements that may fail at each; a dump that is not a snapshot and a seed without a
transaction. `PROJECT.json` "hazards" lists each at
its line, with the properties that cover it.

## 2. Modules

| Module | Models | Composed of |
|---|---|---|
| `Decimals` | Python decimals as scaled integers, half-even division | |
| `TradeForms` | cleaned forms and stored rows of a trade | |
| `Replay` | `holdings.py`, `cost_basis.py`, the check of a sale, the cash of a trade | `Decimals` |
| `Brokerage` | *abstract*: one atomic, permitted posting with increasing ids | `TradeForms` |
| `BrokerageReplays` | the replays over all histories of `Brokerage` | `Brokerage`, `Replay` |
| `Valuation` | prices, valuation, portfolio, security and dashboard pages over the same histories | `BrokerageReplays`, `Fx` |
| `ValuationProofs` | its theorems and those of the replays | `Valuation` |
| `InvestmentPosting` | posting, statement by statement; implements `Brokerage` | `TradeForms`, `Replay` |
| `InvestmentPostingProofs` | its theorems | `InvestmentPosting` |
| `LedgerBook` | *abstract*: a book of whole transactions | |
| `Ledger` | the ledger under concurrent deletions; implements `LedgerBook` | |
| `LedgerProofs` | its theorems | `Ledger` |
| `TaxYears` | tax years and items, check by check | |
| `TaxYearsProofs` | its theorems | `TaxYears` |
| `Fx` | the exchange rate lookup | `Decimals` |
| `TaxEstimate` | the annual estimate over every set of facts | `Fx`, `Replay` |
| `TaxEstimateProofs` | its theorems | `TaxEstimate` |
| `FixedTerm` | interest, progress, status, projected tax of a contract | `Decimals` |
| `Accounts` | accounts, contracts, treatments, statement by statement | `FixedTerm` |
| `AccountsProofs` | its theorems | `Accounts` |
| `Statements` | the two parsers and the CSV export | `Decimals` |
| `StatementImport` | uploads, the posting loop, account edits | `Statements` |
| `StatementImportProofs` | its theorems | `StatementImport` |
| `DemoSeed` | the demo seed, commit by commit | |
| `Backup` | dump and restore of the database it writes | `DemoSeed` |
| `BackupProofs` | theorems of both | `Backup` |
| `MCBrokerage`, `MCInvestmentPosting`, `MCLedger`, `MCTaxYears`, `MCTaxEstimate`, `MCAccounts`, `MCStatementImport`, `MCCommands` | instances for TLC | |

Definitions marked `Mutant:` are deliberate bugs used to show that a property can
fail; no specification uses them.

### InvestmentPosting

`pc[w]` is the line a worker is at, one action per database statement of
`InvestmentCreateView.form_valid` and what it calls: `Submit` (form loads the
account), `CleanForm` (the form's holdings check), `LockAccount` (`SELECT ... FOR
UPDATE`), `CheckHolding`, `InsertTransaction`, `InsertDetail` (`full_clean` and
insert), `InsertEntry`, `Commit`. The tables hold committed rows; a worker's own
uncommitted rows are `txid` and `form` and appear at `Commit`. `End` releases the
lock, `Rollback` and `Crash` lose the open transaction. `home[w]` is the currency
of the account object *the form* loaded: the code builds detail and entry from
that object, not from the row it locked. `EditAccount` is the account page,
`OtherPosting` draws an id elsewhere.
A posting that reaches a rule of the form before any shared state matters is
refused in the form and absent. Ownership checks, names and notes are left out.

The holdings a sale is checked against are `Replay!HoldingAsOf`: rows of the
account and security up to the *trade date of the sale*, replayed in (date, id)
order.

### Replay

Money is an integer of 0.0001 quanta and costs keep `Ulp` units per quantum, where
Python keeps 28 digits: rounding is half-even in both, so the effects of rounding
(average cost that does not divide, residue at a closing sale) exist in the model,
with coarser steps. Exchange rates are integers of `1/RateUnit`. A replay is a left
fold of one step operator over the ordered rows. `NoRate` is a NULL `exchange_rate`: a
purchase or sale without one, in a currency that is not the account's, makes the replay
raise `TypeError` (`Raises`), and what the fold returns then is not read: the posting
refuses (`ReplayRaises`). The forms demand the rate, so this takes an edit of the
account's currency; `InvestmentPosting` has it, while in `BrokerageReplays`, `Valuation`
and `TaxEstimate` an account keeps the currency it was traded in (`Home`).

### Valuation

Every figure is a function of a book (trades, other entries, prices, rates) and of a
moment: rows count through one date, prices and rates through another, since the pages
call `calculate_portfolio_value` without a date and then count rows dated later. Trades
come from `Brokerage`; prices, rates and other entries are fixed in `MCBrokerage`: a
security without a price, one priced in a currency that gets its rate late, a card, an
archived savings account. A figure the code leaves `None` is present and meaningless
unless `complete`; properties read it only then. An error row keeps the cost in the
account's currency, as the code does (`valuation.py:92-103`).

### Accounts and FixedTerm

`Create` and `Edit`/`Clean` are form and view up to `atomic()`, then `WriteAccount`,
`WriteDetails`, `PostOpening`, `Commit`; `Fail` is an exception or a killed worker at
any of them. Uncommitted rows are `req[w]`; an UPDATE keeps the row locked until the
end (`Locked`). An edit writes back `active` as it loaded it, so an edit under way
revives an account archived meanwhile: `ArchiveSticks` says this is the only way.
`FixedTerm` is evaluated on every contract reached. Compound interest is exact for whole
periods, which is what `DaysFor` selects; powers are a recursive function, `Powers`, since
the provers know nothing of `^`.

### Statements and StatementImport

Text is abstracted to what the parsers decide on: a number to its digits and separators, a
PDF line to its kind, amount, balance, reference and text. A description is what the code
does with it: empty, a word that decides the type, a formula that fills the column, too
long; `Description` joins that of a PDF record and its continuations and cuts it.
`AmountLimit` is the size from which both parsers refuse an amount. `RawRecords` is the loop
of `_raw_pdf_transactions` as a fold over lines and pages; `RecordsComplete` compares it
with the text, in which a transaction line has a number and the references that continue it
(`References`) end at the next transaction or ender. An export puts an entry at the place
that counts the later ones (`Place`). `Upload` parses and compares currencies with the
account it loaded, `PostRow` is one turn of the loop in `atomic()`, `EditCurrency` edits the
account in between. Each INSERT draws the next id and nothing is locked, so the ids of two
uploads interleave and a failed one leaves gaps; entries are a set and their ids the only
order they have. Two uploads of one file are two batches: the code does not recognise a
statement it has posted.

### DemoSeed and Backup

The command is a list of steps. `Ensure` is a `get_or_create` that creates; those that
find their object are passed over, since nobody deletes objects. `PostStep` posts one
transaction in its own commit, `SkipGroup` is the question asked before each group,
`Interrupt` kills the command. Observed, and excepted in `SeedNeverRepeats`: the brokerage
funding is posted again if the command dies before the first trade. A group that was
interrupted is never completed, but for its first posting missing. One tax rule stands
for three and two currencies for five; the password of the demo user, set and saved
in a second commit, is left out, since no other row depends on it. `Backup` dumps a table
per step, in the order of `dumpdata`, which groups models by application, while `Use` goes
on; `Load` fails as a whole if a reference dangles. A dump with writes in between may
therefore be useless, or restore transactions without entries; `RestoreWhole` promises
equality only for a database at rest.

### Ledger

A posting only inserts within one `atomic()`, so it is one action; its entries carry the
currency the account has (`acctCurrency`), which `EditCurrency`, the account page, changes
for the entries to come only. `account_balance` sums entries of whatever currency. The deletions
decide and delete in separate statements: `RefuseInvestment` or `RefuseBrokerage`
(`exists()`, outside the transaction), `ListTransactions`, `DeleteEntryRow` per row,
`CollectTransactions` (Django's look for PROTECT references before it deletes),
`DeleteTransactionRow`, `CommitDeletion`. A row deleted by an open transaction is
locked: another deletion of it waits, and skips it once the first commits.
`AbortDeadlock` is PostgreSQL's detector.

### TaxYears

`TaxYear.clean` runs twice, from the form and again from `save()`; each of its two
queries is an action (`CheckOverlap`, `CheckFiled`). An item is validated against the
`TaxYear` object its view loaded, so `CreateItem` fixes the verdict at the start and
`SaveItem` writes later. `ArchiveItem` loads the item and validates against the year
as it is then. Edits write every column, as Django does. Only dates, jurisdiction,
filed or not, and active or not are kept of a row.

### TaxEstimate

`book` holds the tables `build_tax_year_summary` reads; the actions enter and remove
rows as the forms allow, and an edit of an item is an archive and an entry of a new
one. The summary is a pure function of the book, written in the order of the source.
`MissingRate` is 0, so a failed conversion adds nothing, as in the code. `Counts` is what
the queries select: interest received and tax paid; the opposite signs, which an import can
post (`imports.py:91-99`), are in the tables and never read. An item need not lie in `Year`,
whose period may have been edited since; the code counts it all the same. Amounts are
exact integers of `1/(Ulp * RateUnit^2)` quanta. Rates are small enough that the
inverse of one never rounds to 0.

## 3. Runs

| Run | Instance | Shows |
|---|---|---|
| `replays` | 2 brokerage accounts in two currencies, 2 securities, 4 postings; 7k histories | the replays refuse exactly what is oversold, agree and conserve cost; only a backdated sale can break a history; worth is explained by cash and gains, incompleteness is reported, the past stays put, pages agree |
| `short_selling` | the same | **violated**: a backdated sale is accepted |
| `posting` | 2 workers, 2 accounts, fairness; 121k states | lock discipline, fresh checks, id order, one cash entry per trade, refinement of `Brokerage`, every request ends |
| `posting_edit` | 2 workers, account edits | **violated**: after an edit of the account's currency every replay of its rows raises |
| `ledger` | 2 workers, 2 accounts, 2 currencies, 1 edit of a currency, 2 ids, fairness; 127k states | transactions stay whole, entries and balances per currency are what came from outside, refinement of `LedgerBook`, every deletion ends |
| `tax_years_alone` | 1 worker, 2 years, 2 items, 2 days, 2 jurisdictions; 358k states | the checks are right when requests do not overlap |
| `tax_years_filed` | 2 workers | **violated**: an edit that validated before the year was filed overwrites it |
| `tax_estimate` | 5 days, 15 facts, entries and items, some outside the year or of the sign not counted; 20k books | reductions, allocation, year boundaries, what complete means, monotonicity, no future data |
| `tax_estimate_rules` | 2 items, 2 overall rules | **violated**: overall rules are granted once per category |
| `accounts` | 2 workers, 2 accounts, 1 treatment, 4 forms; 341k states | accounts come whole and from one submission, archiving sticks, edit pages can be sent back, accrual converges |
| `imports` | 2 uploads, every PDF of 4 + 2 lines over 8 and CSV of 2 rows over 14, 125 descriptions of three parts, amounts at the limit; 820k states | whole imports in the right currency whatever ids they draw, balances reconcile per import, no record lost, exports readable or refused for a named reason |
| `commands` | the whole seed, 10 ids, 1 deletion, 1 write during a dump; 427k states | nothing seeded twice, a restore is whole or absent |

Every property of a passing run has a mutant in `PROJECT.json`, a bug in one mapped
definition with which the same run fails.

Bounds, and why they suffice. Races here are between two requests on one account or
year: each reads, is overtaken and writes, so two workers show all of them; a third
only queues. Two accounts show that locks do not leak; in the ledger they share a currency
until one is edited, so a transfer between them is made, refused or left with accounts of
two currencies. Two ledger transactions are two transfers whose
legs two bulk deletions reach in opposite order, or an investment posted during a
deletion; all entries of a transaction carry its date, so one date shows what any
would. `MaxId`, `MaxYears`, `MaxItems` and `Ids` bound
rows, never the length of a behaviour; four ids hold a purchase, two competing sales
and a foreign draw from the sequence. Four postings hold a purchase, a closing
sale, a backdated sale and a new position. Two days suffice for periods that
are equal, nested, touching or disjoint. The forms of `MCInvestmentPosting` contain
a sale whose costs exceed its proceeds, a dividend that rounds to no cash and an
early settlement date; those of `MCBrokerage` have averages that do not divide.

Two forms for fixed terms, one for a plain account and one whose rate has no room reach
every line of a creation and an edit; two workers overlap two edits or an edit with an
archive. Entries keep the currency they were written in, so one edit of an account shows what
more would. A record of a statement is disturbed only by the lines next to it, so pages of
three lines and two show each neighbourhood, a page end included. Ten transaction ids
are the nine postings of the seed and one repeated. A dump misses what one commit
writes before and after the table it is at; a second commit adds no new kind of gap.

Deadlock checking is off because the systems do stop: the bounds run out, and users
need not send requests. That nobody waits for ever is checked as liveness.

Fairness. `FairSpec` of `InvestmentPosting` is weak fairness of a worker's next step
(gunicorn keeps running it) and strong fairness of `LockAccount`, since PostgreSQL
queues the waiters of a row lock. `FairSpec` of `Ledger` adds strong fairness of taking
a row. Submitting, editing, deleting and crashing are never forced.

## 4. Proofs

Each `*Proofs` module extends the module it is about. Every theorem is `Spec => []P`, a step
property or a refinement, for all values of the constants that satisfy the named
assumptions, which TLC evaluates on the instances. They type the constants and say what the
code makes sure of before the modelled part begins: `FormAssumption`, `NoFormAssumption`,
`IdAssumption`, `WorkerAssumption`, `PrecisionAssumption` (posting); `LedgerAssumption`
(integers, finitely many accounts, each created in a currency); `WorkersAssumption`,
`BoundAssumption` (finitely many workers, bounds are numbers); `IdsAssumption`,
`FirstAssumption`, `FormsAssumption` (the account there is at the start is a row a form
could have written, `None` is no row); `FilesAssumption` (the parsers return rows of their
type, what the fold over a file computes not being provable here); `LimitAssumption` (the
size of a column is a number); `OwnedAssumption` (finitely many accounts and securities, a
traded account is a brokerage in its own currency), `HomeAssumption` (what is posted has the
rate its replay needs: the account has not been given another currency), `DatesAssumption`
(days are integers, the pages read to a last one), `EntriesAssumption` (finitely many,
integer amounts), `PricesAssumption` and `RatesAssumption` (the unique constraints and
checks of the two tables; `forms.py:142` keeps the prices of a security in its currency; a
rate fits `max_digits=24, decimal_places=12`), `MonthsAssumption` (every dated day is in a
month, six months have begun by today); `SeededAssumption` (migrations seed currencies
only); `YearAssumption` (a date field holds finitely many days), `RowsAssumption` (the rows
that can be entered are typed, no entry is zero (`entry_amount_nonzero`,
`ledger/models.py:58`), ids of rules are unique, there are finitely many accounts, a foreign
trade has a rate; an item may lie outside the year); `TermsAssumption` (what
`FixedTermDetails.clean` and the field types leave of a contract's terms, tax rates between
nothing and all, and no term so long that all of it but a day rounds to 100 percent);
`PagesAssumption` (the pages of a PDF are sequences of typed lines, and a line is a
reference only with a reference in it, as `PDF_REFERENCE_ROW` demands).

**`InvestmentPostingProofs`.** `TypeCorrect`. `PostingIsSerialized`,
`IdsFollowCommitOrder` and `CashMatchesDetails` come from one inductive invariant,
`IInv == TypeOK /\ LockHeldWhilePosting /\ IdsDrawn /\ IdsInCommitOrder /\
CashBeforeCommit /\ OneEntryPerDetail`: an id is above the committed ones only because
those have been drawn (`IdsDrawn`) and nobody else can commit in a locked account; an
entry is non-zero only because the line before the commit checked it
(`CashBeforeCommit`). `ChecksStayValid`, a sale permitted under the lock still is at its
commit, since the check reads only rows of its own account (`PermitsIsLocal`) and nobody
else commits there. `PostingImplementsBrokerage`, by steps.

**`LedgerProofs`.** `TypeCorrect`, `TransactionsStayWhole`, `LedgerImplementsBook` and
`MoneyComesFromOutside`. The invariant adds to whole transactions that ids are drawn once,
that an investment keeps the detail row that protects it, and what an open deletion has
done: it takes entries before transactions, of ids that existed when it began, and one that
has reached the transaction rows holds every entry of them (`Collected`), so a commit
strikes out whole pages (`CommitDeletesWhole`), which is the refinement too.
`MoneyComesFromOutside` needs two facts more, `MoneyOK`: tables are finite, the legs of a
transfer are written in one currency. It says nothing of what accounts are edited to, which
is why an entry keeps its currency; the balances follow only where account and entries still
agree. The library adds in the order of CHOOSE. `SumsExist` says that a sum in every order
exists, `SumsUnique` that the library's is one; the rest is arithmetic, over the entries of
a currency (`EntriesSummed`), of which the transfers cancel (`TransfersCancel`), then by
account (`SumByAccount`). The induction behind both, `SubsetInduction`, is over a set of
good subsets, not over an operator.

**`TaxYearsProofs`.** `TypeCorrect` for any finite set of workers: rows are never deleted, so
keys stay good, and new rows are counted before they are written (`RoomLeft`, over a
cardinality). `PeriodsNeverOverlap`, `FiledYearsStay` and `FiledItemsStay` assume
`OneAtATime`, that there is at most one worker. The assumption is what the code needs, not
what the proof does: with two workers the three properties are false
(`tax_years_filed`, section 5). The invariant says what a request has checked and that it
still holds when it writes (`Checked`).

**`AccountsProofs`.** `ContractsStayWhole`, `EditPageStaysAccepted`, `ArchivedStays`. A
creation's account does not exist yet and nobody else creates one (`CreationOK`,
`OneCreation`); an edit's account exists and has the type it was loaded with (`EditOK`); a
form past validation keeps the part of its terms that no other request can undo
(`Accepted`, `TermsKept`).
`AccrualsConverge`: that a power of every number exists is shown by finite lists of its first
ones. Growth over more periods is compared in products, not quotients (`PowersGrow`), and is
at least linear (Bernoulli, `PowersExceed`); rounding keeps the order of what is rounded
(`RoundDivMonotone`), so interest never falls and compounding never earns less than simple
interest. A percentage is full only on the last day (`PercentFull`), and a rate from nothing to
all splits the interest into tax and rest (`TaxSplits`). The invariant adds to `TablesOK` that
treatments have such rates, whatever they are edited to (`RatesOK`).

**`StatementImportProofs`.** `StatementsPostWhole`: entries of an open transaction are the
first rows of the statement in order (`PrefixPosted`), with growing ids that nobody else has
drawn (`Increasing`, `IdsApart`), so the n-th entry of an import by its ids is its n-th row,
although other imports draw ids in between and failed ones leave gaps; the currency was
compared with the account that was loaded, and the entries carry that one, whatever the
account is edited to. `StatementsReadWhole` is an induction over the lines of a page and
then over the pages: after so many lines the records, the open one included, are those kept
from the pages before and one for each transaction line, in order, with the first reference
since then (`Listed`), and one is open as long as a line may continue it (`OpenOne`); pages
add up because a transaction line's number is that of the lines before it (`Gathered`).
`StatementsReconcile`: what is posted was not refused (`Accepted`), so each amount is the
step from a balance to the next (`AcceptedReconciles`), and the steps up to a line add up to
its balance less the opening one (`StepsAddUp`). `ExportsReadable`: a strict order on a
finite set gives each element a place of its own (`RanksFill`), so an export has every
entry; a line is refused exactly if its entry is not `Rereadable`; what is written of an
amount is read as the rounded cents (`WrittenIsRead`, `CentsRound`), and has the type the
entry has because every entry comes from a row whose type follows from description and sign
(`EntriesDated`).

**`ValuationProofs`.** `FutureNeverRead`: every lookup and every replay of an earlier day
reads the same rows with and without what is dated later, so all figures are equal, field by
field, without knowing what the folds compute. `ReplaysAlwaysAgree` needs what they compute.
The invariant `Historical` (rows typed, finitely many, ids unique, purchases and sales alone
have quantities) makes "latest row" well defined, and each replay is one step after the
replay of the rows before it (`HoldingUnfolds`, `ReportUnfolds`), from a uniqueness lemma
for the library's folds (`FoldsAgree`). By induction over subsets of the history, the
holdings replay refuses iff the rows through some sale take more than they bring, and else
holds purchases less sales (`HoldingExact`); the tax replay, which runs through an account,
keeps for each security what the holdings replay of that security keeps (`Matches`), and the
gains booked sum to what is realised (`Booked`). Sums over rows in any order come from
`SumStep`. `HistoryBreaksByBackdating` assumes `SalesAreChecked`: whatever else `Permits`
demands, it makes the check of `create_investment_transaction`, which is what the runs and
the refinement of `InvestmentPosting` give it. The rows up to a sale's day are those before
it (its id is above all others), so it cannot break itself, and a posting after which no
sale follows only adds purchases on top of a balance (`PrefixCovered`, `NoSaleTakes`).
`IncompleteExactlyIfUnknown`: a holding is listed iff `HoldingExact` counts shares of it; a
latest price or rate is found iff some row is known, and that it is the one the code takes
needs the unique keys; a converted figure is a number, never the mark of an unknown one.
What the figures of a complete summary add up to is said by `ValueExplained` and
`PagesAgree`. `PagesAlwaysAgree`: both pages sum one table of positions, by rows and by
columns (`SumSwap`), and a position that is not listed is worth zero in it (`SumSupport`).
`CashflowAlwaysExplainsWorth`: the same entries are summed by account and by month
(`SumClasses`); each month shown starts where the one before it ends (`MonthsConsecutive`),
so an entry is before the chart, in one bar or after it (`MonthsCover`).
`ValueAlwaysExplained`: a row of the replay moves cost into gain exactly, but for a closing
sale, which drops what is left of a cost rounded by at most half a unit per share
(`HoldingKeeps`, by induction over the rows, for one security); a posting rounds its cash
once, by at most half a quantum (`RoundDivNear`, `CashKeeps`); the securities of an account
sum to the account (`AccountKeeps`), and the stated figures are those sums
(`StatedFigures`), so the distance is what the tolerance of the property allows.
`CostAlwaysBalanced`: the cost of a position plus what its sales took is what its purchases
cost, up to what closing sales round away, by induction over the rows (`CostHeld`); it needs
no hypothesis. `CostAlwaysConserved` adds that the cost is never negative, and assumes
`AveragesFine`: half a unit in the last place (`Ulp`) for every unit ever bought is no more
than what one unit cost. The hypothesis is what the code has and the model leaves open: nine
shares for five units, eight sold at an average rounded up to one, leave a cost of minus
three, but the code keeps 28 significant digits, so a position would have to hold some 10^19
shares before its averages were too coarse. Stated as an invariant of the `replays` instance
it holds in every state. With it the cost stays above what the rounding of all sales so far
can have taken (`CostFloor`).

**`BackupProofs`.** `RestoredIsWhole`: `DatabaseOK` (keys unique, ids drawn, references
closed; only entries and investments refer to transactions, and nothing refers to them),
`FileOK` (each table of a dump comes from one moment, and with no writes all do),
`InstanceOK`. `SeedPostsOnce`:
`SeededOnce` says that no name is posted twice, and why the question before a group finds
what the group has posted: its transaction keeps its entry or investment, the rest of a
group under way has not been posted (`RestToCome`), accounts stay once created.

**`TaxEstimateProofs`.** `FutureNeverTaxed` and `IncomeIsAccountedFor`: the summary consists of
sums and folds the prover knows nothing of, so it is first shown that they have values: a
finite set of rows has a last one (`LastExists`), a fold exists because its step stays
within a set (`FoldExists`), sums of numbers are numbers. The inductive invariant `BookOK`
types the tables, keeps them finite and ids of rules unique. A sale is then an event on the
day of one of its rows (`SalesTyped`), so the events of a year come from rows up to its end
and the summary cannot tell two books that agree until then (`SameSummary`). Each relief
moves an amount out of a category and into what it applied (`ReliefKeeps`); one-category
rules, overall rules over five categories and the chain of all of them preserve the account
in turn (`RulesKeep`, `OverallReliefKeeps`, `ApplyAllKeeps`).
`OverallReliefStaysInOrder` unfolds the overall allowance one category at a time
(`OverallUnfolds`): what is left of it and what it took add up to its amount, and something
is left only if every category before is at zero (`ShareTaken`); the deductions that follow
only lower what is taxable (`DeductionEases`), so a category at zero stays there.
`CompleteAlwaysCountsAll`: each sale gives one event, whatever else is replayed
(`SalesListed`, from `ReportUnfolds`), and an amount and a rate that are not zero have a
product that is not.
`YearsAlwaysSplitFacts`: the replay up to a day lists exactly the events up to it of the
replay up to a later day (`PrefixListed`), so the sales of the first part cost the same in
both, and every sum of the whole period is that of its parts (`RowsSplit`).
`TaxGrowsWithIncome` compares two books, one with no less income and no more relief
(`LessTaxable`). Every step keeps the order of their rows (`Below`): a relief
(`ReliefLowers`), the overall reliefs, of which more is left where less was needed
(`OverallLowers`), and the rules, of which the book that is taxed less may have more as long
as they are reliefs, whatever their place in the order (`RulesLower`). Income here is
interest received; interest taken back, a negative entry, is not read by the summary and
leaves the tax as it is, which is what the code does and no document asks for.

Only model-checked: liveness (`RequestsEnd`, `DeletionsEnd`), since fairness and ENABLED are
beyond the prover, and the four runs that find a violation. Every invariant, action property
and refinement of a passing run is a theorem for all constants, those of `TaxYears` for one
worker. What is not stated by any theorem is what a fold, a power or a sort computes in
closed form; the properties say what its result means, and that is proved.

No module has a RECURSIVE operator: the replays are folds.

## 5. Findings

Disagreements between code and documents met while modelling, each with a run that exhibits
it: backdated sales sell short; the currency of an account with trades can be edited, after
which its history can no longer be replayed; a concurrent edit overwrites a filed year;
overall tax rules are granted once per category. `PROJECT.json` quotes the lines.

The two workers of `tax_years_filed` violate `YearsDisjoint` and `FiledItemsLocked` of
the same module too, for the same reason: the checks read, the save comes later, and
nothing is locked in between (set the cfg's INVARIANT or PROPERTY to see them). One
worker alone can move the period of a year away from its items, which then can no longer
be saved (`FitsPeriod` is checked for items only). A superuser can delete in the admin
the investment rows README.md of the repository calls immutable; the models have no such
action. After an edit of its currency `account_balance` adds an account's entries of two
currencies; no document says what it should show (`MoneyOnlyFromOutside` states what holds).

## 6. Not modelled, and the plan

Built in this order: posting and replays, the only place with locks and the source of
every figure; the ledger; tax years; rates and the estimate; valuation and pages;
accounts and fixed terms; imports and exports; seed and backup; then the proofs above.

The plan is carried out; the four hazards without a property, listed with their reasons in
`PROJECT.json`, are what a next step would be about.

Left out for good: extraction of text from CSV and PDF files, which texts are spreadsheet
formulas, compound interest over parts of a period (fractional powers), institutions and the
creation of treatments (single inserts), percentages, allocation and chart widths of pages,
templates, configuration, migrations, logins and the ownership filters of views (one user's
data is one instance), and a superuser's raw edits in the admin, who may break any
invariant.
