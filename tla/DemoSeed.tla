------------------------------ MODULE DemoSeed ------------------------------
(***************************************************************************)
(* manage.py seed_demo_data, row by row: it runs without a transaction, so *)
(* every get_or_create and every posting commits by itself, an operator    *)
(* may interrupt it anywhere and run it again, and a user of the demo      *)
(* account may delete what it posted.  Rows are [table, id, name, refs];   *)
(* refs are the rows [table, id] its foreign keys point to.                *)
(***************************************************************************)
EXTENDS Integers, SequencesExt

CONSTANTS
  MaxId,       \* bound: transaction ids given out
  MaxDeleted   \* bound: transactions deleted

VARIABLES
  db,      \* the rows of the database
  drawn,   \* the last id each table has given out
  line     \* the step the running command is at, 0 when none runs

seedVars == <<db, drawn, line>>

Blank == "blank"    \* the group of an object, the name of an entry

\* A step of the command: get an object or create it with what it refers to,
\* or post one transaction with its entries, as part of a group.
Object(table, name, parents) ==
  [group |-> Blank, table |-> table, name |-> name, parents |-> parents, security |-> {}]

Posting(group, name, accounts, security) ==
  [group |-> group, table |-> "transaction", name |-> name, parents |-> accounts,
   security |-> security]

Objects ==
  <<Object("currency", "EUR", {}), Object("currency", "USD", {}), Object("user", "demo", {}),
    Object("institution", "ExampleBank", {"demo"}),
    Object("institution", "ExampleBroker", {"demo"}),
    Object("account", "MainCurrentAccount", {"ExampleBank", "EUR"}),
    Object("account", "SavingsAccount", {"ExampleBank", "EUR"}),
    Object("account", "BrokerageAccount", {"ExampleBroker", "EUR"}),
    Object("account", "FixedDeposit", {"ExampleBank", "EUR"}),
    Object("treatment", "DemoBankInterestTax", {"demo"}),
    Object("link", "FixedDeposit", {"DemoBankInterestTax"}),
    Object("terms", "terms", {"FixedDeposit"})>>

CashGroup ==
  <<Posting("cash", "Salary", {"MainCurrentAccount"}, {}),
    Posting("cash", "Groceries", {"MainCurrentAccount"}, {}),
    Posting("cash", "TransferToSavings", {"MainCurrentAccount", "SavingsAccount"}, {}),
    Posting("cash", "InterestPayment", {"SavingsAccount"}, {})>>

TermGroup == <<Posting("term", "OpeningPrincipal", {"FixedDeposit"}, {})>>

SecurityObjects ==
  <<Object("security", "ExampleETF", {"EUR"}), Object("security", "ExampleStock", {"USD"}),
    Object("rate", "EURUSD", {"EUR", "USD"}),
    Object("price", "ETFPrice", {"ExampleETF", "EUR"}),
    Object("price", "StockPrice", {"ExampleStock", "USD"})>>

TradeGroup ==
  <<Posting("trades", "BrokerageFunding", {"BrokerageAccount"}, {}),
    Posting("trades", "BuyETF", {"BrokerageAccount"}, {"ExampleETF"}),
    Posting("trades", "BuyStock", {"BrokerageAccount"}, {"ExampleStock"}),
    Posting("trades", "DividendETF", {"BrokerageAccount"}, {"ExampleETF"})>>

TaxObjects ==
  <<Object("taxyear", "TaxYear", {"demo", "EUR"}), Object("rule", "DemoInterestRule", {"demo", "TaxYear"})>>

Plan == Objects \o CashGroup \o TermGroup \o SecurityObjects \o TradeGroup \o TaxObjects

Postings == {Plan[i] : i \in {j \in DOMAIN Plan : Plan[j].group # Blank}}

Tables == ({Plan[i].table : i \in DOMAIN Plan} \ {"link"}) \cup {"entry", "investment"}

Row(table, id, name, refs) == [table |-> table, id |-> id, name |-> name, refs |-> refs]

Key(r) == <<r.table, r.id>>

\* Keys of the rows with one of these names.
Named(rows, names) == {Key(r) : r \in {x \in rows : x.name \in names}}

InTable(rows, table) == {r \in rows : r.table = table}

-----------------------------------------------------------------------------
\* Mutant: the opening principal is posted whatever is there.
GroupSeededBlindly(group) ==
  CASE group = "cash" -> InTable(db, "transaction") # {}
    [] group = "term" -> FALSE
    [] group = "trades" -> InTable(db, "investment") # {}

\* The question the command asks before it posts a group: has the user any
\* transaction, the deposit any entry, the brokerage account any investment?
GroupSeeded(group) ==
  CASE group = "cash" -> InTable(db, "transaction") # {}
    [] group = "term" ->
         \E e \in InTable(db, "entry") : Named(db, {"FixedDeposit"}) \cap e.refs # {}
    [] group = "trades" -> InTable(db, "investment") # {}

FirstOf(i) == i = 1 \/ Plan[i - 1].group # Plan[i].group

After(group) == Max({i \in DOMAIN Plan : Plan[i].group = group}) + 1

There(step) ==
  IF step.table = "link"
  THEN \E r \in db : r.name = step.name /\ Named(db, step.parents) \subseteq r.refs
  ELSE \E r \in InTable(db, step.table) : r.name = step.name

\* The next step from i on, 0 after the last.  get_or_create changes nothing
\* where the object is there, and nobody deletes an object: what is there is
\* passed over at once.
Following(i) ==
  LET due == {j \in i..Len(Plan) : Plan[j].group # Blank \/ ~There(Plan[j])}
  IN  IF due = {} THEN 0 ELSE Min(due)

SeedInit == db = {} /\ drawn = [t \in Tables |-> 0] /\ line = 0

Run == line = 0 /\ line' = Following(1) /\ UNCHANGED <<db, drawn>>

\* get_or_create, of an object that is not there.  The password of a new user
\* is left out: a commit of its own, which no later run makes up for.
Ensure ==
  LET step == Plan[line]
      id == drawn[step.table] + 1
  IN  /\ line # 0 /\ step.group = Blank /\ step.table # "link"
      /\ db' = db \cup {Row(step.table, id, step.name, Named(db, step.parents))}
      /\ drawn' = [drawn EXCEPT ![step.table] = id]
      /\ line' = Following(line + 1)

\* The deposit refers to its tax treatment from now on.
Link ==
  /\ line # 0 /\ Plan[line].table = "link"
  /\ \E r \in InTable(db, "account") :
       /\ r.name = Plan[line].name
       /\ db' = (db \ {r}) \cup {[r EXCEPT !.refs = @ \cup Named(db, Plan[line].parents)]}
  /\ line' = Following(line + 1)
  /\ UNCHANGED drawn

SkipGroup ==
  /\ line # 0 /\ Plan[line].group # Blank
  /\ FirstOf(line) /\ GroupSeeded(Plan[line].group)
  /\ line' = Following(After(Plan[line].group))
  /\ UNCHANGED <<db, drawn>>

\* create_deposit and the like: the transaction, an entry for each account and
\* the investment row of a trade, in one commit.
PostedRows(step) ==
  LET id == drawn["transaction"] + 1
      txn == <<"transaction", id>>
      accounts == SetToSeq(step.parents)
  IN  {Row("transaction", id, step.name, Named(db, {"demo"}))}
      \cup {Row("entry", drawn["entry"] + i, Blank, {txn} \cup Named(db, {accounts[i]})) :
              i \in DOMAIN accounts}
      \cup {Row("investment", drawn["investment"] + 1, Blank, {txn} \cup Named(db, step.parents \cup {s})) :
              s \in step.security}

PostStep ==
  /\ line # 0 /\ Plan[line].group # Blank
  /\ FirstOf(line) => ~GroupSeeded(Plan[line].group)
  /\ drawn["transaction"] < MaxId
  /\ LET rows == PostedRows(Plan[line])
     IN  /\ db' = db \cup rows
         /\ drawn' = [t \in Tables |-> drawn[t] + Cardinality(InTable(rows, t))]
  /\ line' = Following(line + 1)

\* The command is interrupted; what it has committed stays.
Interrupt == line # 0 /\ line' = 0 /\ UNCHANGED <<db, drawn>>

\* delete_transaction: the entries and the transaction, unless it is a trade.
DeletePosting(r) ==
  LET mine == {x \in db : Key(r) \in x.refs}
  IN  /\ r.table = "transaction" /\ InTable(mine, "investment") = {}
      /\ drawn["transaction"] - Cardinality(InTable(db, "transaction")) < MaxDeleted
      /\ db' = db \ ({r} \cup mine)
      /\ UNCHANGED <<drawn, line>>

Seeding == Run \/ Ensure \/ Link \/ SkipGroup \/ PostStep \/ Interrupt

-----------------------------------------------------------------------------
Times(name) == Cardinality({r \in InTable(db, "transaction") : r.name = name})

\* seed_demo_data.py:95, :110 and :149: however often the command is
\* interrupted and run again and whatever is deleted in between, it posts
\* nothing that is there already.  The one exception is the funding of the
\* brokerage account, which is repeated until the first trade is there.
SeedNeverRepeats ==
  \A p \in Postings : p.name # "BrokerageFunding" => Times(p.name) <= 1
=============================================================================
