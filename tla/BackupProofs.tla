---------------------------- MODULE BackupProofs ----------------------------
(***************************************************************************)
(* Proofs about Backup, for any number of postings, deletions, runs and    *)
(* interruptions of the seed and commits during the dump: what a restored  *)
(* or a failed instance holds.                                             *)
(***************************************************************************)
EXTENDS Backup, FiniteSetTheorems, WellFoundedInduction, TLAPS

-----------------------------------------------------------------------------
\* Facts about the operators of the libraries.

LEMMA LeastNatural ==
  ASSUME NEW S \in SUBSET Nat, S # {}
  PROVE  \E x \in S : \A y \in S : x <= y
<1>1. \E x \in S : \A y \in S : ~(<<y, x>> \in OpToRel(<, Nat))
  BY WFMin, NatLessThanWellFounded
<1>2. PICK x \in S : \A y \in S : ~(y < x)
  BY <1>1 DEF OpToRel
<1> QED BY <1>2

LEMMA MinIsMember ==
  ASSUME NEW S \in SUBSET Nat, S # {}
  PROVE  Min(S) \in S /\ \A y \in S : Min(S) <= y
BY LeastNatural DEF Min

\* The greatest element is the least of the upper bounds.
LEMMA MaxIsBound ==
  ASSUME NEW S \in SUBSET Nat, S # {}, NEW b \in Nat, \A x \in S : x <= b
  PROVE  Max(S) \in S /\ \A x \in S : x <= Max(S)
<1> DEFINE Bounds == {n \in Nat : \A x \in S : x <= n}
<1>1. PICK m \in Bounds : \A n \in Bounds : m <= n
  BY LeastNatural
<1>2. m \in S
  <2> SUFFICES ASSUME m \notin S PROVE FALSE
    OBVIOUS
  <2>1. \A x \in S : x \in Nat /\ x < m
    BY <1>1
  <2>2. m - 1 \in Nat /\ \A x \in S : x <= m - 1
    <3>1. PICK x \in S : TRUE
      OBVIOUS
    <3>2. m \in Nat /\ 0 < m
      BY <2>1, <3>1
    <3> QED BY <2>1, <3>2
  <2> QED BY <1>1, <2>2
<1>3. \E x \in S : \A y \in S : x >= y
  BY <1>1, <1>2
<1> QED BY <1>3 DEF Max

\* A list of a finite set names each element once.
LEMMA ListOfSet ==
  ASSUME NEW S, IsFiniteSet(S)
  PROVE  /\ Cardinality(S) \in Nat
         /\ SetToSeq(S) \in [1..Cardinality(S) -> S]
<1>1. Cardinality(S) \in Nat /\ ExistsBijection(1..Cardinality(S), S)
  BY FS_CardinalityType
<1>2. \E f \in [1..Cardinality(S) -> S] : IsInjective(f)
  BY <1>1 DEF ExistsBijection, Bijection, Injection, IsInjective
<1> QED BY <1>1, <1>2 DEF SetToSeq

-----------------------------------------------------------------------------
\* The steps of the command.
ObjectTables ==
  {"currency", "user", "institution", "account", "treatment", "terms", "security", "rate",
   "price", "taxyear", "rule"}

\* What foreign keys of objects and postings point to, by name.
ParentNames ==
  {"EUR", "USD", "demo", "ExampleBank", "ExampleBroker", "MainCurrentAccount",
   "SavingsAccount", "BrokerageAccount", "FixedDeposit", "DemoBankInterestTax",
   "ExampleETF", "ExampleStock", "TaxYear"}

OtherNames == {"terms", "EURUSD", "ETFPrice", "StockPrice", "DemoInterestRule"}

PostingNames ==
  {"Salary", "Groceries", "TransferToSavings", "InterestPayment", "OpeningPrincipal",
   "BrokerageFunding", "BuyETF", "BuyStock", "DividendETF"}

ObjectStep ==
  [group : {Blank}, table : ObjectTables \cup {"link"}, name : ParentNames \cup OtherNames,
   parents : SUBSET ParentNames, security : {{}}]

PostedAccounts ==
  {{"MainCurrentAccount"}, {"SavingsAccount"}, {"BrokerageAccount"},
   {"FixedDeposit"}, {"MainCurrentAccount", "SavingsAccount"}}

PostedSecurities == {{}, {"ExampleETF"}, {"ExampleStock"}}

PostingStep ==
  [group : {"cash", "term", "trades"}, table : {"transaction"}, name : PostingNames,
   parents : PostedAccounts, security : PostedSecurities]

Steps == ObjectStep \cup PostingStep

LEMMA FinitePair == ASSUME NEW a, NEW b PROVE IsFiniteSet({a, b})
<1>1. IsFiniteSet({a} \cup {b})
  BY FS_Singleton, FS_AddElement
<1>2. {a} \cup {b} = {a, b}
  OBVIOUS
<1> QED BY <1>1, <1>2

LEMMA PostedAccountsFinite == \A S \in PostedAccounts : IsFiniteSet(S) /\ S \subseteq ParentNames
<1>1. IsFiniteSet({"MainCurrentAccount", "SavingsAccount"})
  BY FinitePair
<1>2. \A a \in ParentNames : IsFiniteSet({a})
  BY FS_Singleton
<1>3. \A S \in PostedAccounts : IsFiniteSet(S)
  BY <1>1, <1>2 DEF PostedAccounts, ParentNames
<1>4. \A S \in PostedAccounts : S \subseteq ParentNames
  BY DEF PostedAccounts, ParentNames
<1> QED BY <1>3, <1>4

LEMMA PlanOfSteps == Plan \in Seq(Steps)
<1>1. Objects \in Seq(Steps)
  BY DEF Objects, Object, Steps, ObjectStep, ObjectTables, ParentNames, OtherNames
<1>2. CashGroup \in Seq(Steps)
  BY DEF CashGroup, Posting, Steps, PostingStep, PostedAccounts, PostedSecurities, PostingNames
<1>3. TermGroup \in Seq(Steps)
  BY DEF TermGroup, Posting, Steps, PostingStep, PostedAccounts, PostedSecurities, PostingNames
<1>4. SecurityObjects \in Seq(Steps)
  BY DEF SecurityObjects, Object, Steps, ObjectStep, ObjectTables, ParentNames, OtherNames
<1>5. TradeGroup \in Seq(Steps)
  BY DEF TradeGroup, Posting, Steps, PostingStep, PostedAccounts, PostedSecurities, PostingNames
<1>6. TaxObjects \in Seq(Steps)
  BY DEF TaxObjects, Object, Steps, ObjectStep, ObjectTables, ParentNames, OtherNames
<1> QED BY <1>1, <1>2, <1>3, <1>4, <1>5, <1>6 DEF Plan

\* A step of the plan, by its position.
LEMMA StepAt == \A i \in 1..Len(Plan) : Plan[i] \in Steps
BY PlanOfSteps

LEMMA TableOfStep ==
  ASSUME NEW i \in 1..Len(Plan)
  PROVE  /\ Plan[i] \in ObjectStep \/ Plan[i] \in PostingStep
         /\ Plan[i].table # "link" => Plan[i].table \in Tables
<1>1. i \in DOMAIN Plan
  BY PlanOfSteps
<1> QED BY <1>1, StepAt DEF Steps, Tables

\* The tables of the model are those of the backup, each at one place.
LEMMA TablesListed ==
  /\ Tables \subseteq {BackupModels[i] : i \in 1..14}
  /\ DOMAIN BackupModels = 1..14
  /\ \A i, j \in 1..14 : BackupModels[i] = BackupModels[j] => i = j
<1>1. DOMAIN BackupModels = 1..14
  BY DEF BackupModels
<1>2. \A t \in Tables : t \in ObjectTables \cup {"transaction", "entry", "investment"}
  <2>1. \A i \in DOMAIN Plan : Plan[i] \in Steps
    BY PlanOfSteps
  <2> QED BY <2>1 DEF Tables, Steps, ObjectStep, PostingStep
<1>3. ObjectTables \cup {"transaction", "entry", "investment"} \subseteq {BackupModels[i] : i \in 1..14}
  BY DEF ObjectTables, BackupModels
<1>4. \A i, j \in 1..14 : BackupModels[i] = BackupModels[j] => i = j
  BY DEF BackupModels
<1> QED BY <1>1, <1>2, <1>3, <1>4

-----------------------------------------------------------------------------
\* The database in use.
RowType ==
  [table : Tables, id : Nat \ {0}, name : ParentNames \cup OtherNames \cup PostingNames \cup {Blank},
   refs : SUBSET (Tables \X Nat)]

KeysUnique(rows) == \A r, x \in rows : Key(r) = Key(x) => r = x

\* Every id has been given out.
IdsDrawn(rows, last) == \A r \in rows : r.id <= last[r.table]

\* Only entries and trades point to transactions, nothing points to entries or
\* trades, and nothing that is posted has the name of an object.
RefsByTable(rows) ==
  \A r \in rows :
    /\ \A k \in r.refs : k[1] \notin {"entry", "investment"}
    /\ (\E k \in r.refs : k[1] = "transaction") => r.table \in {"entry", "investment"}
    /\ r.table \in {"transaction", "entry", "investment"} => r.name \notin ParentNames

DatabaseOK ==
  /\ db \subseteq RowType
  /\ drawn \in [Tables -> Nat]
  /\ line \in 0..Len(Plan)
  /\ KeysUnique(db) /\ IdsDrawn(db, drawn) /\ RefsByTable(db) /\ Closed(db)

\* What an empty database satisfies.
LEMMA SeedInitOK == SeedInit => DatabaseOK
BY PlanOfSteps DEF SeedInit, DatabaseOK, KeysUnique, IdsDrawn, RefsByTable, Closed

LEMMA LineAt == ASSUME DatabaseOK, line # 0 PROVE line \in 1..Len(Plan)
BY PlanOfSteps DEF DatabaseOK

\* The next step is a step of the plan.
LEMMA FollowingOK == ASSUME NEW i \in Nat PROVE Following(i) \in 0..Len(Plan)
<1> DEFINE due == {j \in i..Len(Plan) : Plan[j].group # Blank \/ ~There(Plan[j])}
<1>1. Following(i) = IF due = {} THEN 0 ELSE Min(due)
  BY DEF Following
<1>2. due \subseteq i..Len(Plan)
  OBVIOUS
<1> HIDE DEF due
<1>3. Len(Plan) \in Nat /\ due \in SUBSET Nat
  <2>1. Len(Plan) \in Nat
    BY PlanOfSteps
  <2>2. i..Len(Plan) \subseteq Nat
    BY <2>1
  <2> QED BY <1>2, <2>1, <2>2
<1>4. CASE due = {}
  BY <1>1, <1>3, <1>4
<1>5. CASE due # {}
  <2>1. Min(due) \in due
    BY <1>3, <1>5, MinIsMember
  <2>2. Min(due) \in i..Len(Plan) /\ Following(i) = Min(due)
    BY <1>1, <1>2, <1>5, <2>1
  <2>3. i..Len(Plan) \subseteq 0..Len(Plan)
    BY <1>3
  <2> QED BY <2>2, <2>3
<1> QED BY <1>4, <1>5

\* Names of objects are not names of transactions, entries or trades.
LEMMA NamedOK ==
  ASSUME DatabaseOK, NEW names \in SUBSET ParentNames
  PROVE  /\ Named(db, names) \in SUBSET (Tables \X Nat)
         /\ Named(db, names) \subseteq {Key(x) : x \in db}
         /\ \A k \in Named(db, names) : k[1] \notin {"transaction", "entry", "investment"}
<1>1. ASSUME NEW k \in Named(db, names)
      PROVE  /\ k \in Tables \X Nat /\ k \in {Key(x) : x \in db}
             /\ k[1] \notin {"transaction", "entry", "investment"}
  <2>1. PICK r \in db : r.name \in names /\ k = Key(r)
    BY DEF Named
  <2>2. r \in RowType /\ r.table \notin {"transaction", "entry", "investment"}
    BY <2>1 DEF DatabaseOK, RefsByTable
  <2> QED BY <2>1, <2>2 DEF Key, RowType
<1> QED BY <1>1

\* A row under a new id, of a table other than those of postings.
LEMMA NewObjectKeeps ==
  ASSUME DatabaseOK, NEW table \in Tables, table \notin {"transaction", "entry", "investment"},
         NEW name \in ParentNames \cup OtherNames, NEW parents \in SUBSET ParentNames,
         db' = db \cup {Row(table, drawn[table] + 1, name, Named(db, parents))},
         drawn' = [drawn EXCEPT ![table] = drawn[table] + 1],
         line' \in 0..Len(Plan)
  PROVE  DatabaseOK'
<1> DEFINE refs == Named(db, parents)
           new == Row(table, drawn[table] + 1, name, refs)
<1>1. /\ refs \in SUBSET (Tables \X Nat)
      /\ refs \subseteq {Key(x) : x \in db}
      /\ \A k \in refs : k[1] \notin {"transaction", "entry", "investment"}
  BY NamedOK
<1>2. drawn \in [Tables -> Nat] /\ drawn[table] \in Nat
  BY DEF DatabaseOK
<1> HIDE DEF refs
<1>3. /\ new.table = table /\ new.id = drawn[table] + 1
      /\ new.name = name /\ new.refs = refs
      /\ new \in RowType
  <2>1. drawn[table] + 1 \in Nat \ {0} /\ name \in ParentNames \cup OtherNames \cup PostingNames \cup {Blank}
    BY <1>2
  <2>2. new = [table |-> table, id |-> drawn[table] + 1, name |-> name, refs |-> refs]
    BY DEF Row
  <2> QED BY <1>1, <2>1, <2>2 DEF RowType
<1>4. db' = db \cup {new}
  BY DEF refs
<1> HIDE DEF new
<1>5. db' \subseteq RowType /\ drawn' \in [Tables -> Nat]
  BY <1>2, <1>3, <1>4 DEF DatabaseOK
<1>6. \A r \in db : r.table \in Tables /\ r.id \in Nat /\ r.id <= drawn[r.table] /\ drawn[r.table] \in Nat
  BY <1>2 DEF DatabaseOK, RowType, IdsDrawn
<1>7. KeysUnique(db)'
  <2>1. \A r \in db : Key(r) # Key(new)
    BY <1>2, <1>3, <1>6 DEF Key
  <2> QED BY <1>4, <2>1 DEF DatabaseOK, KeysUnique
<1>8. IdsDrawn(db, drawn)'
  BY <1>2, <1>3, <1>4, <1>6 DEF IdsDrawn
<1>9. RefsByTable(db)'
  BY <1>1, <1>3, <1>4 DEF DatabaseOK, RefsByTable
<1>10. Closed(db)'
  BY <1>1, <1>3, <1>4 DEF DatabaseOK, Closed
<1> QED BY <1>5, <1>7, <1>8, <1>9, <1>10 DEF DatabaseOK

LEMMA EnsureKeeps == ASSUME DatabaseOK, Ensure PROVE DatabaseOK'
<1> DEFINE step == Plan[line]
<1>0. /\ line # 0 /\ step.group = Blank /\ step.table # "link"
      /\ db' = db \cup {Row(step.table, drawn[step.table] + 1, step.name, Named(db, step.parents))}
      /\ drawn' = [drawn EXCEPT ![step.table] = drawn[step.table] + 1]
      /\ line' = Following(line + 1)
  BY DEF Ensure
<1>1. line \in 1..Len(Plan)
  BY <1>0, LineAt
<1>2. Plan[line] \in ObjectStep /\ Plan[line].table \in Tables /\ Plan[line].table # "link"
  BY <1>0, <1>1, TableOfStep DEF PostingStep, Blank
<1>3. line' \in 0..Len(Plan)
  <2>1. line + 1 \in Nat
    BY <1>1
  <2> QED BY <1>0, <2>1, FollowingOK
<1>4. /\ Plan[line].table \notin {"transaction", "entry", "investment"}
      /\ Plan[line].name \in ParentNames \cup OtherNames
      /\ Plan[line].parents \in SUBSET ParentNames
  BY <1>2 DEF ObjectStep, ObjectTables
<1> QED BY <1>0, <1>2, <1>3, <1>4, NewObjectKeeps

LEMMA LinkKeeps == ASSUME DatabaseOK, Link PROVE DatabaseOK'
<1>1. line \in 1..Len(Plan)
  BY LineAt DEF Link
<1>2. Plan[line].parents \in SUBSET ParentNames
  BY <1>1, TableOfStep DEF Link, PostingStep, ObjectStep
<1> DEFINE more == Named(db, Plan[line].parents)
<1>3. PICK r \in db : r.table = "account" /\ db' = (db \ {r}) \cup {[r EXCEPT !.refs = @ \cup more]}
  BY DEF Link, InTable
<1>4. /\ more \in SUBSET (Tables \X Nat)
      /\ more \subseteq {Key(x) : x \in db}
      /\ \A k \in more : k[1] \notin {"transaction", "entry", "investment"}
  BY <1>2, NamedOK
<1> DEFINE new == [r EXCEPT !.refs = @ \cup more]
<1> HIDE DEF more
<1>5. r \in RowType
  BY DEF DatabaseOK
<1>6. /\ new \in RowType /\ new.table = r.table /\ new.id = r.id /\ new.name = r.name
      /\ new.refs = r.refs \cup more
  BY <1>4, <1>5 DEF RowType
<1>7. db' = (db \ {r}) \cup {new} /\ Key(new) = Key(r)
  BY <1>3, <1>6 DEF Key
<1> HIDE DEF new
<1>8. line' \in 0..Len(Plan) /\ UNCHANGED drawn
  BY <1>1, FollowingOK DEF Link
<1>9. db' \subseteq RowType /\ drawn' \in [Tables -> Nat] /\ IdsDrawn(db, drawn)'
  BY <1>6, <1>7, <1>8 DEF DatabaseOK, IdsDrawn
<1>10. KeysUnique(db)'
  BY <1>7 DEF DatabaseOK, KeysUnique
<1>11. RefsByTable(db)'
  BY <1>3, <1>4, <1>6, <1>7 DEF DatabaseOK, RefsByTable
<1>12. {Key(x) : x \in db'} = {Key(x) : x \in db}
  BY <1>7
<1>13. Closed(db)'
  BY <1>4, <1>6, <1>7, <1>12 DEF DatabaseOK, Closed
<1> QED BY <1>8, <1>9, <1>10, <1>11, <1>13 DEF DatabaseOK

\* A transaction goes with its entries; what is left points to neither.
LEMMA DeleteKeeps == ASSUME DatabaseOK, NEW r \in db, DeletePosting(r) PROVE DatabaseOK'
<1> DEFINE mine == {x \in db : Key(r) \in x.refs}
<1>1. db' = db \ ({r} \cup mine) /\ UNCHANGED <<drawn, line>> /\ r.table = "transaction"
  BY DEF DeletePosting
<1>2. \A x \in mine : x.table = "entry"
  <2>1. \A x \in mine : x.table \in {"entry", "investment"}
    BY <1>1 DEF DatabaseOK, RefsByTable, Key
  <2>2. \A x \in mine : x.table # "investment"
    BY DEF DeletePosting, InTable
  <2> QED BY <2>1, <2>2
<1>3. Closed(db)'
  <2> SUFFICES ASSUME NEW x \in db', NEW k \in x.refs
               PROVE  k \in {Key(y) : y \in db'}
    BY DEF Closed
  <2>1. x \in db /\ x \notin mine
    BY <1>1
  <2>2. PICK y \in db : k = Key(y)
    BY <2>1 DEF DatabaseOK, Closed
  <2>3. y # r
    BY <2>1, <2>2
  <2>4. y \notin mine
    BY <1>2, <2>1, <2>2 DEF DatabaseOK, RefsByTable, Key
  <2> QED BY <1>1, <2>2, <2>3, <2>4
<1>4. db' \subseteq db
  BY <1>1
<1> QED BY <1>1, <1>3, <1>4 DEF DatabaseOK, KeysUnique, IdsDrawn, RefsByTable

\* The question before a group changes nothing but the line.
LEMMA SkipKeeps == ASSUME DatabaseOK, SkipGroup PROVE DatabaseOK'
<1> DEFINE group == Plan[line].group
           mine == {i \in DOMAIN Plan : Plan[i].group = group}
<1>1. line \in 1..Len(Plan)
  BY LineAt DEF SkipGroup
<1>2. DOMAIN Plan = 1..Len(Plan) /\ Len(Plan) \in Nat
  BY PlanOfSteps
<1>3. mine \in SUBSET Nat /\ mine # {} /\ \A i \in mine : i <= Len(Plan)
  <2>1. line \in mine
    BY <1>1, <1>2
  <2>2. mine \subseteq 1..Len(Plan)
    BY <1>2
  <2> QED BY <1>2, <2>1, <2>2
<1>4. After(group) = Max(mine) + 1
  BY DEF After
<1> HIDE DEF mine
<1>5. After(group) \in Nat
  <2>1. Max(mine) \in mine
    BY <1>2, <1>3, MaxIsBound
  <2>2. Max(mine) \in Nat
    BY <1>3, <2>1
  <2> QED BY <1>4, <2>2
<1>6. line' \in 0..Len(Plan)
  BY <1>5, FollowingOK DEF SkipGroup
<1> QED BY <1>6 DEF SkipGroup, DatabaseOK, KeysUnique, IdsDrawn, RefsByTable, Closed

-----------------------------------------------------------------------------
\* What a posting inserts, by the last ids given out.
TransactionRow(step) ==
  Row("transaction", drawn["transaction"] + 1, step.name, Named(db, {"demo"}))

EntryRow(step, i) ==
  Row("entry", drawn["entry"] + i, Blank,
      {<<"transaction", drawn["transaction"] + 1>>} \cup Named(db, {SetToSeq(step.parents)[i]}))

TradeRow(step, s) ==
  Row("investment", drawn["investment"] + 1, Blank,
      {<<"transaction", drawn["transaction"] + 1>>} \cup Named(db, step.parents \cup {s}))

\* A new row has an id above those given out, and refers to rows that are
\* there or to the new transaction.
NewRowOK(step, r) ==
  /\ r \in RowType
  /\ r.id > drawn[r.table]
  /\ \A k \in r.refs : k \in {Key(x) : x \in db} \/ (k = Key(TransactionRow(step)) /\ r.table # "transaction")
  /\ \A k \in r.refs : k[1] \notin {"entry", "investment"}
  /\ r.table \in {"transaction", "entry", "investment"}
  /\ r.name \notin ParentNames
  /\ (\E k \in r.refs : k[1] = "transaction") => r.table # "transaction"

LEMMA PostedRowsAre ==
  ASSUME DatabaseOK, NEW step \in PostingStep
  PROVE  /\ Cardinality(step.parents) \in Nat
         /\ PostedRows(step)
              = {TransactionRow(step)}
                \cup {EntryRow(step, i) : i \in 1..Cardinality(step.parents)}
                \cup {TradeRow(step, s) : s \in step.security}
<1>1. step.parents \in PostedAccounts
  BY DEF PostingStep
<1>2. /\ Cardinality(step.parents) \in Nat
      /\ SetToSeq(step.parents) \in [1..Cardinality(step.parents) -> step.parents]
  BY <1>1, PostedAccountsFinite, ListOfSet
<1>3. DOMAIN SetToSeq(step.parents) = 1..Cardinality(step.parents)
  BY <1>2
<1> QED BY <1>2, <1>3 DEF PostedRows, TransactionRow, EntryRow, TradeRow

LEMMA NewRowsOK ==
  ASSUME DatabaseOK, NEW step \in PostingStep, "transaction" \in Tables,
         NEW r \in PostedRows(step)
  PROVE  NewRowOK(step, r)
<1> DEFINE id == drawn["transaction"] + 1
           key == <<"transaction", id>>
<1>1. /\ step.parents \in SUBSET ParentNames /\ step.name \in PostingNames
      /\ step.security \in SUBSET ParentNames
  BY PostedAccountsFinite DEF PostingStep, PostedSecurities, ParentNames
<1>2. PostingNames \cap ParentNames = {} /\ Blank \notin ParentNames
  BY DEF PostingNames, ParentNames, Blank
<1>3. "entry" \in Tables /\ "investment" \in Tables
  BY DEF Tables
<1>4. \A t \in Tables : drawn[t] \in Nat
  BY DEF DatabaseOK
<1>5. \A names \in SUBSET ParentNames :
        /\ Named(db, names) \in SUBSET (Tables \X Nat)
        /\ Named(db, names) \subseteq {Key(x) : x \in db}
        /\ \A k \in Named(db, names) : k[1] \notin {"transaction", "entry", "investment"}
  BY NamedOK
<1>6. key \in Tables \X Nat /\ Key(TransactionRow(step)) = key
  BY <1>4 DEF Key, TransactionRow, Row
<1>7. CASE r = TransactionRow(step)
  <2> DEFINE refs == Named(db, {"demo"})
  <2>1. {"demo"} \in SUBSET ParentNames
    BY DEF ParentNames
  <2>2. /\ refs \in SUBSET (Tables \X Nat)
        /\ refs \subseteq {Key(x) : x \in db}
        /\ \A k \in refs : k[1] \notin {"transaction", "entry", "investment"}
    BY <1>5, <2>1
  <2>3. r = [table |-> "transaction", id |-> id, name |-> step.name, refs |-> refs]
    BY <1>7 DEF TransactionRow, Row
  <2> HIDE DEF refs
  <2>4. r \in RowType
    BY <1>1, <1>4, <2>2, <2>3 DEF RowType
  <2> QED BY <1>1, <1>2, <1>4, <2>2, <2>3, <2>4 DEF NewRowOK
<1>8. CASE \E i \in 1..Cardinality(step.parents) : r = EntryRow(step, i)
  <2>1. PICK i \in 1..Cardinality(step.parents) : r = EntryRow(step, i)
    BY <1>8
  <2> DEFINE refs == Named(db, {SetToSeq(step.parents)[i]})
  <2>2. SetToSeq(step.parents)[i] \in step.parents /\ i \in Nat \ {0}
    BY PostedAccountsFinite, ListOfSet DEF PostingStep
  <2>3. /\ refs \in SUBSET (Tables \X Nat)
        /\ refs \subseteq {Key(x) : x \in db}
        /\ \A k \in refs : k[1] \notin {"transaction", "entry", "investment"}
    BY <1>1, <1>5, <2>2
  <2>4. r = [table |-> "entry", id |-> drawn["entry"] + i, name |-> Blank, refs |-> {key} \cup refs]
    BY <2>1 DEF EntryRow, Row
  <2> HIDE DEF refs
  <2>5. r \in RowType
    BY <1>3, <1>4, <1>6, <2>2, <2>3, <2>4 DEF RowType
  <2>6. key[1] = "transaction"
    OBVIOUS
  <2> QED BY <1>2, <1>3, <1>4, <1>6, <2>2, <2>3, <2>4, <2>5, <2>6 DEF NewRowOK
<1>9. CASE \E s \in step.security : r = TradeRow(step, s)
  <2>1. PICK s \in step.security : r = TradeRow(step, s)
    BY <1>9
  <2> DEFINE refs == Named(db, step.parents \cup {s})
  <2>2. step.parents \cup {s} \in SUBSET ParentNames
    BY <1>1
  <2>3. /\ refs \in SUBSET (Tables \X Nat)
        /\ refs \subseteq {Key(x) : x \in db}
        /\ \A k \in refs : k[1] \notin {"transaction", "entry", "investment"}
    BY <1>5, <2>2
  <2>4. r = [table |-> "investment", id |-> drawn["investment"] + 1, name |-> Blank,
             refs |-> {key} \cup refs]
    BY <2>1 DEF TradeRow, Row
  <2> HIDE DEF refs
  <2>5. r \in RowType
    BY <1>3, <1>4, <1>6, <2>3, <2>4 DEF RowType
  <2>6. key[1] = "transaction"
    OBVIOUS
  <2> QED BY <1>2, <1>3, <1>4, <1>6, <2>3, <2>4, <2>5, <2>6 DEF NewRowOK
<1> QED BY <1>7, <1>8, <1>9, PostedRowsAre

\* The tables of the new rows.
LEMMA NewRowTables ==
  ASSUME NEW step
  PROVE  /\ TransactionRow(step).table = "transaction" /\ TransactionRow(step).id = drawn["transaction"] + 1
         /\ \A i : EntryRow(step, i).table = "entry" /\ EntryRow(step, i).id = drawn["entry"] + i
         /\ \A s : TradeRow(step, s).table = "investment" /\ TradeRow(step, s).id = drawn["investment"] + 1
BY DEF TransactionRow, EntryRow, TradeRow, Row

\* A posting has at most one row per table but for its entries.
LEMMA NewRowsByTable ==
  ASSUME DatabaseOK, NEW step \in PostingStep
  PROVE  /\ InTable(PostedRows(step), "transaction") = {TransactionRow(step)}
         /\ InTable(PostedRows(step), "entry") = {EntryRow(step, i) : i \in 1..Cardinality(step.parents)}
         /\ InTable(PostedRows(step), "investment") = {TradeRow(step, s) : s \in step.security}
         /\ \A t \in Tables \ {"transaction", "entry", "investment"} : InTable(PostedRows(step), t) = {}
<1> DEFINE E == {EntryRow(step, i) : i \in 1..Cardinality(step.parents)}
           T == {TradeRow(step, s) : s \in step.security}
<1>1. PostedRows(step) = {TransactionRow(step)} \cup E \cup T
  BY PostedRowsAre
<1>2. /\ TransactionRow(step).table = "transaction"
      /\ \A r \in E : r.table = "entry"
      /\ \A r \in T : r.table = "investment"
  BY NewRowTables
<1> HIDE DEF E, T
<1>3. /\ InTable(PostedRows(step), "transaction") = {TransactionRow(step)}
      /\ InTable(PostedRows(step), "entry") = E
      /\ InTable(PostedRows(step), "investment") = T
      /\ \A t \in Tables \ {"transaction", "entry", "investment"} : InTable(PostedRows(step), t) = {}
  BY <1>1, <1>2 DEF InTable
<1> QED BY <1>3 DEF E, T

\* As many entry rows as accounts, so ids are counted as they are given out.
LEMMA EntriesCounted ==
  ASSUME DatabaseOK, NEW n \in Nat, NEW step
  PROVE  Cardinality({EntryRow(step, i) : i \in 1..n}) = n
<1> DEFINE E == {EntryRow(step, i) : i \in 1..n}
           f == [i \in 1..n |-> EntryRow(step, i)]
<1>1. drawn["entry"] \in Nat
  BY DEF DatabaseOK, Tables
<1>2. \A i, j \in 1..n : EntryRow(step, i) = EntryRow(step, j) => i = j
  <2>1. \A i \in 1..n : EntryRow(step, i).id = drawn["entry"] + i
    BY NewRowTables
  <2> QED BY <1>1, <2>1
<1>3. f \in Bijection(1..n, E)
  BY <1>2 DEF Bijection, Injection, Surjection, IsInjective
<1>4. ExistsBijection(1..n, E)
  BY <1>3 DEF ExistsBijection
<1>5. IsFiniteSet(1..n) /\ Cardinality(1..n) = n
  BY FS_Interval
<1> QED BY <1>4, <1>5, FS_Bijection

LEMMA IdsCounted ==
  ASSUME DatabaseOK, NEW step \in PostingStep, "transaction" \in Tables
  PROVE  /\ \A t \in Tables : Cardinality(InTable(PostedRows(step), t)) \in Nat
         /\ \A r \in PostedRows(step) :
              r.id <= drawn[r.table] + Cardinality(InTable(PostedRows(step), r.table))
<1> DEFINE Count(t) == Cardinality(InTable(PostedRows(step), t))
           n == Cardinality(step.parents)
<1>1. n \in Nat
  BY PostedRowsAre
<1>2. Count("transaction") = 1
  BY NewRowsByTable, FS_Singleton
<1>3. Count("entry") = n
  BY <1>1, NewRowsByTable, EntriesCounted
<1>4. Count("investment") = IF step.security = {} THEN 0 ELSE 1
  <2>1. step.security \in {{}, {"ExampleETF"}, {"ExampleStock"}}
    BY DEF PostingStep, PostedSecurities
  <2>2. CASE step.security = {}
    BY <2>2, NewRowsByTable, FS_EmptySet
  <2>3. ASSUME NEW s, step.security = {s} PROVE Count("investment") = 1
    <3>1. InTable(PostedRows(step), "investment") = {TradeRow(step, s)}
      BY <2>3, NewRowsByTable
    <3> QED BY <3>1, FS_Singleton
  <2> QED BY <2>1, <2>2, <2>3
<1>5. \A t \in Tables \ {"transaction", "entry", "investment"} : Count(t) = 0
  BY NewRowsByTable, FS_EmptySet
<1>6. \A t \in Tables : drawn[t] \in Nat
  BY DEF DatabaseOK
<1>7. "entry" \in Tables /\ "investment" \in Tables
  BY DEF Tables
<1>8. ASSUME NEW r \in PostedRows(step) PROVE r.id <= drawn[r.table] + Count(r.table)
  <2>1. CASE r = TransactionRow(step)
    <3>1. r.table = "transaction" /\ r.id = drawn["transaction"] + 1
      BY <2>1, NewRowTables
    <3> HIDE DEF Count
    <3> QED BY <1>2, <1>6, <3>1
  <2>2. CASE \E i \in 1..n : r = EntryRow(step, i)
    <3>1. PICK i \in 1..n : r.table = "entry" /\ r.id = drawn["entry"] + i
      BY <2>2, NewRowTables
    <3> HIDE DEF Count, n
    <3> QED BY <1>1, <1>3, <1>6, <1>7, <3>1
  <2>3. CASE \E s \in step.security : r = TradeRow(step, s)
    <3>1. r.table = "investment" /\ r.id = drawn["investment"] + 1 /\ step.security # {}
      BY <2>3, NewRowTables
    <3> HIDE DEF Count
    <3> QED BY <1>4, <1>6, <1>7, <3>1
  <2> QED BY <2>1, <2>2, <2>3, PostedRowsAre
<1>9. ASSUME NEW t \in Tables PROVE Count(t) \in Nat
  <2> HIDE DEF Count
  <2> QED BY <1>1, <1>2, <1>3, <1>4, <1>5
<1> QED BY <1>8, <1>9

LEMMA NewKeysDiffer ==
  ASSUME DatabaseOK, NEW step \in PostingStep, "transaction" \in Tables
  PROVE  /\ KeysUnique(PostedRows(step))
         /\ \A r \in db, x \in PostedRows(step) : Key(r) # Key(x)
<1>1. ASSUME NEW r \in db, NEW x \in PostedRows(step), Key(r) = Key(x) PROVE FALSE
  <2>1. x \in RowType /\ x.id > drawn[x.table]
    BY NewRowsOK DEF NewRowOK
  <2>2. r \in RowType /\ r.id <= drawn[r.table] /\ drawn[r.table] \in Nat
    BY DEF DatabaseOK, IdsDrawn, RowType
  <2>3. r.table = x.table /\ r.id = x.id
    BY <1>1 DEF Key
  <2> QED BY <2>1, <2>2, <2>3 DEF RowType
<1>2. KeysUnique(PostedRows(step))
  <2> SUFFICES ASSUME NEW r \in PostedRows(step), NEW x \in PostedRows(step),
                      r.table = x.table, r.id = x.id
               PROVE  r = x
    BY DEF KeysUnique, Key
  <2> DEFINE n == Cardinality(step.parents)
  <2>1. r.table \in {"transaction", "entry", "investment"} /\ r.table \in Tables
    BY NewRowsOK DEF NewRowOK, RowType
  <2>2. CASE r.table = "transaction"
    <3>1. r \in InTable(PostedRows(step), "transaction") /\ x \in InTable(PostedRows(step), "transaction")
      BY <2>2 DEF InTable
    <3> QED BY <3>1, NewRowsByTable
  <2>3. CASE r.table = "entry"
    <3>1. r \in InTable(PostedRows(step), "entry") /\ x \in InTable(PostedRows(step), "entry")
      BY <2>3 DEF InTable
    <3>2. PICK i \in 1..n : r = EntryRow(step, i)
      BY <3>1, NewRowsByTable
    <3>3. PICK j \in 1..n : x = EntryRow(step, j)
      BY <3>1, NewRowsByTable
    <3>4. drawn["entry"] + i = drawn["entry"] + j
      BY <3>2, <3>3, NewRowTables
    <3>5. drawn["entry"] \in Nat
      BY DEF DatabaseOK, Tables
    <3> QED BY <3>2, <3>3, <3>4, <3>5
  <2>4. CASE r.table = "investment"
    <3>1. r \in InTable(PostedRows(step), "investment") /\ x \in InTable(PostedRows(step), "investment")
      BY <2>4 DEF InTable
    <3>2. \A s, u \in step.security : s = u
      BY DEF PostingStep, PostedSecurities
    <3> QED BY <3>1, <3>2, NewRowsByTable
  <2> QED BY <2>1, <2>2, <2>3, <2>4
<1> QED BY <1>1, <1>2

\* A posting, its entries and its trade come in one commit.
LEMMA PostStepKeeps ==
  ASSUME DatabaseOK, PostStep
  PROVE  DatabaseOK' /\ \A t \in Tables : drawn'[t] >= drawn[t]
<1> DEFINE step == Plan[line]
           rows == PostedRows(step)
<1>1. line \in 1..Len(Plan)
  BY LineAt DEF PostStep
<1>2. step \in PostingStep /\ "transaction" \in Tables
  BY <1>1, TableOfStep DEF PostStep, ObjectStep, PostingStep
<1>3. /\ db' = db \cup rows
      /\ drawn' = [t \in Tables |-> drawn[t] + Cardinality(InTable(rows, t))]
      /\ line' = Following(line + 1)
  BY DEF PostStep
<1>4. /\ \A t \in Tables : Cardinality(InTable(rows, t)) \in Nat
      /\ \A r \in rows : r.id <= drawn[r.table] + Cardinality(InTable(rows, r.table))
  BY <1>2, IdsCounted
<1>5. \A r \in rows : NewRowOK(step, r)
  BY <1>2, NewRowsOK
<1>6. KeysUnique(rows) /\ \A r \in db, x \in rows : Key(r) # Key(x)
  BY <1>2, NewKeysDiffer
<1>7. TransactionRow(step) \in rows
  BY <1>2, PostedRowsAre
<1> DEFINE Count(t) == Cardinality(InTable(rows, t))
<1>8. /\ \A t \in Tables : Count(t) \in Nat /\ drawn'[t] = drawn[t] + Count(t)
      /\ \A r \in rows : r.id <= drawn[r.table] + Count(r.table)
      /\ drawn' = [t \in Tables |-> drawn[t] + Count(t)]
  BY <1>3, <1>4
<1> HIDE DEF rows, step, Count
<1>9. \A t \in Tables : drawn[t] \in Nat
  BY DEF DatabaseOK
<1>10. line' \in 0..Len(Plan)
  BY <1>1, <1>3, FollowingOK
<1>11. db' \subseteq RowType
  BY <1>3, <1>5 DEF DatabaseOK, NewRowOK
<1>12. drawn' \in [Tables -> Nat]
  BY <1>8, <1>9
<1>13. \A r \in db \cup rows : r.table \in Tables /\ r.id \in Nat
  BY <1>3, <1>11 DEF RowType
<1>14. IdsDrawn(db, drawn)'
  BY <1>3, <1>8, <1>9, <1>13 DEF DatabaseOK, IdsDrawn
<1>15. KeysUnique(db)'
  BY <1>3, <1>6 DEF DatabaseOK, KeysUnique
<1>16. RefsByTable(db)'
  BY <1>3, <1>5 DEF DatabaseOK, RefsByTable, NewRowOK
<1>17. Closed(db)'
  BY <1>3, <1>5, <1>7 DEF DatabaseOK, Closed, NewRowOK
<1>18. \A t \in Tables : drawn'[t] >= drawn[t]
  BY <1>8, <1>9
<1> QED BY <1>10, <1>11, <1>12, <1>14, <1>15, <1>16, <1>17, <1>18 DEF DatabaseOK

\* Whatever the command or a user does, the database stays sound and no id is
\* taken back.
LEMMA DatabaseStep ==
  ASSUME DatabaseOK, Seeding \/ \E r \in db : DeletePosting(r)
  PROVE  DatabaseOK' /\ \A t \in Tables : drawn'[t] >= drawn[t]
<1>1. \A t \in Tables : drawn[t] \in Nat
  BY DEF DatabaseOK
<1>2. CASE Run
  <2>1. line' \in 0..Len(Plan) /\ UNCHANGED <<db, drawn>>
    BY <1>2, FollowingOK DEF Run
  <2> QED BY <1>1, <2>1 DEF DatabaseOK, KeysUnique, IdsDrawn, RefsByTable, Closed
<1>3. CASE Ensure
  <2>1. \A t \in Tables : drawn'[t] >= drawn[t]
    BY <1>1, <1>3 DEF Ensure, DatabaseOK
  <2> QED BY <1>3, <2>1, EnsureKeeps
<1>4. CASE Link
  BY <1>1, <1>4, LinkKeeps DEF Link
<1>5. CASE SkipGroup
  BY <1>1, <1>5, SkipKeeps DEF SkipGroup
<1>6. CASE PostStep
  BY <1>6, PostStepKeeps
<1>7. CASE Interrupt
  <2>1. line' \in 0..Len(Plan) /\ UNCHANGED <<db, drawn>>
    BY <1>7, PlanOfSteps DEF Interrupt
  <2> QED BY <1>1, <2>1 DEF DatabaseOK, KeysUnique, IdsDrawn, RefsByTable, Closed
<1>8. ASSUME NEW r \in db, DeletePosting(r) PROVE DatabaseOK' /\ \A t \in Tables : drawn'[t] >= drawn[t]
  BY <1>1, <1>8, DeleteKeeps DEF DeletePosting
<1> QED BY <1>2, <1>3, <1>4, <1>5, <1>6, <1>7, <1>8 DEF Seeding

-----------------------------------------------------------------------------
\* The dump and the new instance.
Dumped(r) == \E i \in 1..14 : i < file.at /\ r.table = BackupModels[i]

\* Each table comes from one moment: no key twice, no id that was not given
\* out; and if nothing was written, the rows that are there now.
FileOK ==
  file # NoRows =>
    /\ file \in [rows : SUBSET RowType, at : 1..15, writes : Nat]
    /\ KeysUnique(file.rows) /\ IdsDrawn(file.rows, drawn)
    /\ \A r \in file.rows : Dumped(r)
    /\ file.writes = 0 => file.rows = {r \in db : Dumped(r)}

InstanceOK ==
  /\ restore \in {"idle", "checked", "restored", "failed"}
  /\ restore # "idle" => file # NoRows /\ ~Exporting
  /\ restore # "restored" => copy.rows = SeededCurrencies
  /\ restore = "restored" => copy = Restored /\ Closed(copy.rows)
  /\ restore = "failed" => file.writes > 0

IInv == DatabaseOK /\ FileOK /\ InstanceOK

LEMMA InitInvariant == Init => IInv
BY SeedInitOK DEF Init, IInv, FileOK, InstanceOK

\* While the database is in use the dump keeps what it has.
LEMMA UseKeeps == ASSUME IInv, Use PROVE IInv'
<1>1. DatabaseOK' /\ \A t \in Tables : drawn'[t] >= drawn[t]
  BY DatabaseStep DEF IInv, Use
<1>2. UNCHANGED <<copy, restore>> /\ restore = "idle"
  BY DEF IInv, InstanceOK, Use
<1>3. InstanceOK'
  BY <1>2 DEF IInv, InstanceOK
<1>4. CASE Exporting
  <2>1. /\ file # NoRows /\ file.at \in 1..14
        /\ file' = [file EXCEPT !.writes = @ + 1]
    BY <1>4, TablesListed DEF Exporting, Use
  <2>2. /\ file \in [rows : SUBSET RowType, at : 1..15, writes : Nat]
        /\ KeysUnique(file.rows) /\ IdsDrawn(file.rows, drawn)
        /\ \A r \in file.rows : Dumped(r)
    BY <2>1 DEF IInv, FileOK
  <2>3. /\ file' \in [rows : SUBSET RowType, at : 1..15, writes : Nat]
        /\ file'.rows = file.rows /\ file'.at = file.at /\ file'.writes # 0
    BY <2>1, <2>2
  <2>4. \A r \in file.rows : r.table \in Tables /\ r.id \in Nat
    BY <2>2 DEF RowType
  <2>5. \A t \in Tables : drawn[t] \in Nat /\ drawn'[t] \in Nat
    BY <1>1 DEF IInv, DatabaseOK
  <2>6. IdsDrawn(file.rows, drawn)'
    BY <1>1, <2>2, <2>3, <2>4, <2>5 DEF IdsDrawn
  <2>7. (\A r \in file.rows : Dumped(r))'
    BY <2>2, <2>3 DEF Dumped
  <2>8. FileOK'
    BY <2>2, <2>3, <2>6, <2>7 DEF FileOK, KeysUnique
  <2> QED BY <1>1, <1>3, <2>8 DEF IInv
<1>5. CASE ~Exporting
  <2>1. file = NoRows /\ UNCHANGED file
    BY <1>5 DEF Use
  <2> QED BY <1>1, <1>3, <2>1 DEF IInv, FileOK
<1> QED BY <1>4, <1>5

LEMMA StartKeeps == ASSUME IInv, StartExport PROVE IInv'
<1>1. /\ file = NoRows /\ restore = "idle" /\ copy.rows = SeededCurrencies
      /\ file' = [rows |-> {}, at |-> 1, writes |-> 0]
      /\ UNCHANGED <<db, drawn, line, copy, restore>>
  BY DEF IInv, InstanceOK, StartExport, seedVars
<1>2. DatabaseOK'
  BY <1>1 DEF IInv, DatabaseOK, KeysUnique, IdsDrawn, RefsByTable, Closed
<1>3. FileOK'
  <2>1. file' \in [rows : SUBSET RowType, at : 1..15, writes : Nat]
    BY <1>1
  <2> QED BY <1>1, <2>1 DEF FileOK, KeysUnique, IdsDrawn, Dumped
<1>4. InstanceOK'
  BY <1>1 DEF InstanceOK
<1> QED BY <1>2, <1>3, <1>4 DEF IInv

\* The table that is dumped is none of those dumped before.
LEMMA DumpKeeps == ASSUME IInv, DumpTable PROVE IInv'
<1> DEFINE more == InTable(db, BackupModels[file.at])
<1>1. /\ file # NoRows /\ file.at \in 1..14
      /\ file' = [file EXCEPT !.rows = @ \cup more, !.at = @ + 1]
      /\ UNCHANGED <<db, drawn, line, copy, restore>>
  BY TablesListed DEF Exporting, DumpTable, seedVars
<1>2. DatabaseOK'
  BY <1>1 DEF IInv, DatabaseOK, KeysUnique, IdsDrawn, RefsByTable, Closed
<1>3. restore = "idle" /\ copy.rows = SeededCurrencies
  BY DEF IInv, InstanceOK, DumpTable
<1>4. InstanceOK'
  BY <1>1, <1>3 DEF InstanceOK
<1>5. /\ file \in [rows : SUBSET RowType, at : 1..15, writes : Nat]
      /\ KeysUnique(file.rows) /\ IdsDrawn(file.rows, drawn)
      /\ \A r \in file.rows : Dumped(r)
      /\ file.writes = 0 => file.rows = {r \in db : Dumped(r)}
  BY <1>1 DEF IInv, FileOK
<1>6. more = {r \in db : r.table = BackupModels[file.at]}
  BY DEF InTable
<1> HIDE DEF more
<1>7. more \subseteq RowType /\ KeysUnique(more) /\ IdsDrawn(more, drawn)
  BY <1>6 DEF IInv, DatabaseOK, KeysUnique, IdsDrawn
<1>8. /\ file' \in [rows : SUBSET RowType, at : 1..15, writes : Nat]
      /\ file'.rows = file.rows \cup more /\ file'.at = file.at + 1 /\ file'.writes = file.writes
  <2>1. file.rows \cup more \in SUBSET RowType /\ file.at + 1 \in 1..15 /\ file.writes \in Nat
    BY <1>1, <1>5, <1>7
  <2>2. file' = [rows |-> file.rows \cup more, at |-> file.at + 1, writes |-> file.writes]
    BY <1>1, <1>5
  <2> QED BY <2>1, <2>2
<1>9. \A r \in file.rows, x \in more : r.table # x.table
  BY <1>1, <1>5, <1>6, TablesListed DEF Dumped
<1>10. KeysUnique(file.rows)'
  BY <1>5, <1>7, <1>8, <1>9 DEF KeysUnique, Key
<1>11. IdsDrawn(file.rows, drawn)'
  BY <1>1, <1>5, <1>7, <1>8 DEF IdsDrawn
<1>12. \A r : Dumped(r)' <=> Dumped(r) \/ r.table = BackupModels[file.at]
  BY <1>1, <1>8 DEF Dumped
<1>13. (\A r \in file.rows : Dumped(r))'
  BY <1>5, <1>6, <1>8, <1>12
<1>14. (file.writes = 0 => file.rows = {r \in db : Dumped(r)})'
  BY <1>1, <1>5, <1>6, <1>8, <1>12
<1>15. FileOK'
  BY <1>8, <1>10, <1>11, <1>13, <1>14 DEF FileOK
<1> QED BY <1>2, <1>4, <1>15 DEF IInv

\* At the end of the dump every row is of a table that was dumped.
LEMMA WholeDump ==
  ASSUME IInv, file # NoRows, ~Exporting
  PROVE  /\ file.writes \in Nat
         /\ file.writes = 0 => file.rows = db
<1>1. file \in [rows : SUBSET RowType, at : 1..15, writes : Nat] /\ file.at \notin 1..14
  BY TablesListed DEF IInv, FileOK, Exporting
<1>2. file.at = 15
  BY <1>1
<1>3. \A r \in db : Dumped(r)
  <2>1. \A r \in db : r.table \in Tables
    BY DEF IInv, DatabaseOK, RowType
  <2> QED BY <1>2, <2>1, TablesListed DEF Dumped
<1>4. file.writes = 0 => file.rows = {r \in db : Dumped(r)}
  BY DEF IInv, FileOK
<1> QED BY <1>1, <1>3, <1>4

\* What fails was written to meanwhile.
LEMMA RestoreKeeps == ASSUME IInv, CheckFresh \/ Load PROVE IInv'
<1>1. UNCHANGED <<db, drawn, line, file>>
  BY DEF CheckFresh, Load, seedVars
<1>2. DatabaseOK' /\ FileOK'
  BY <1>1 DEF IInv, DatabaseOK, FileOK, KeysUnique, IdsDrawn, RefsByTable, Closed, Dumped
<1>3. Exporting' <=> Exporting
  BY <1>1 DEF Exporting
<1>4. Restored' = Restored
  BY <1>1 DEF Restored, InTable
<1>5. CASE CheckFresh
  <2>1. file # NoRows /\ ~Exporting /\ copy.rows = SeededCurrencies /\ UNCHANGED copy
    BY <1>5 DEF CheckFresh, IInv, InstanceOK
  <2>2. \A r \in copy.rows : r.table \notin FreshInstanceModels
    BY <2>1, SeededAssumption DEF FreshInstanceModels
  <2>3. restore' = "checked"
    BY <1>5, <2>2 DEF CheckFresh
  <2> QED BY <1>1, <1>2, <1>3, <2>1, <2>3 DEF IInv, InstanceOK
<1>6. CASE Load
  <2>1. restore = "checked" /\ file # NoRows /\ ~Exporting /\ copy.rows = SeededCurrencies
    BY <1>6 DEF Load, IInv, InstanceOK
  <2>2. file.writes \in Nat /\ (file.writes = 0 => file.rows = db)
    BY <2>1, WholeDump
  <2>3. CASE Closed(Restored.rows)
    <3>1. restore' = "restored" /\ copy' = Restored
      BY <1>6, <2>3 DEF Load
    <3>2. Closed(copy.rows)'
      BY <2>3, <3>1 DEF Closed
    <3> QED BY <1>1, <1>2, <1>3, <1>4, <2>1, <3>1, <3>2 DEF IInv, InstanceOK
  <2>4. CASE ~Closed(Restored.rows)
    <3>1. restore' = "failed" /\ UNCHANGED copy
      BY <1>6, <2>4 DEF Load
    <3>2. file.writes # 0
      BY <2>2, <2>4 DEF Restored, IInv, DatabaseOK
    <3> QED BY <1>1, <1>2, <1>3, <2>1, <2>2, <3>1, <3>2 DEF IInv, InstanceOK
  <2> QED BY <2>3, <2>4
<1> QED BY <1>5, <1>6

LEMMA NextKeeps == ASSUME IInv, [Next]_vars PROVE IInv'
<1>1. CASE UNCHANGED vars
  BY <1>1 DEF vars, IInv, DatabaseOK, FileOK, InstanceOK, KeysUnique, IdsDrawn, RefsByTable, Closed,
              Dumped, Exporting, Restored, InTable
<1> QED BY <1>1, UseKeeps, StartKeeps, DumpKeeps, RestoreKeeps DEF Next

\* No id of a restored table is above its sequence.
LEMMA RestoredIds ==
  ASSUME IInv, file # NoRows, NEW r \in file.rows
  PROVE  r.id <= Restored.drawn[r.table]
<1> DEFINE ids == {0} \cup {x.id : x \in InTable(file.rows, r.table)}
<1>1. file.rows \subseteq RowType /\ IdsDrawn(file.rows, drawn) /\ r.table \in Tables
  BY DEF IInv, FileOK, RowType
<1>2. drawn[r.table] \in Nat
  BY <1>1 DEF IInv, DatabaseOK
<1>3. ids \in SUBSET Nat /\ ids # {} /\ r.id \in ids /\ \A n \in ids : n <= drawn[r.table]
  BY <1>1, <1>2 DEF InTable, RowType, IdsDrawn
<1>4. Restored.drawn[r.table] = Max(ids)
  BY <1>1 DEF Restored
<1> HIDE DEF ids
<1> QED BY <1>2, <1>3, <1>4, MaxIsBound

LEMMA InvariantImplies == IInv => RestoreWhole
<1> SUFFICES ASSUME IInv PROVE RestoreWhole
  OBVIOUS
<1>1. CASE restore = "restored"
  <2>1. file # NoRows /\ ~Exporting /\ copy = Restored /\ Closed(copy.rows)
    BY <1>1 DEF IInv, InstanceOK
  <2>2. copy.rows = file.rows /\ copy.drawn = Restored.drawn
    BY <2>1 DEF Restored
  <2>3. KeysUnique(file.rows)
    BY <2>1 DEF IInv, FileOK
  <2>4. \A r \in copy.rows : r.id <= copy.drawn[r.table]
    BY <2>1, <2>2, RestoredIds
  <2> QED BY <1>1, <2>1, <2>2, <2>3, <2>4, WholeDump DEF RestoreWhole, KeysUnique
<1>2. CASE restore # "restored"
  BY <1>2 DEF IInv, InstanceOK, RestoreWhole
<1> QED BY <1>1, <1>2

-----------------------------------------------------------------------------
\* core/backup.py, export_data and import_data.  However the seed runs, is
\* interrupted and is deleted from, and however many commits fall between the
\* tables of the dump: an instance restored from it has no dangling reference
\* and no key twice, gives out no id again, and is the database itself if
\* nothing was written; a restore that fails leaves the seeded currencies, and
\* only fails where something was written meanwhile.
THEOREM RestoredIsWhole == Spec => []RestoreWhole
<1>1. Init => IInv
  BY InitInvariant
<1>2. IInv /\ [Next]_vars => IInv'
  BY NextKeeps
<1>3. IInv => RestoreWhole
  BY InvariantImplies
<1> QED BY <1>1, <1>2, <1>3, PTL DEF Spec

-----------------------------------------------------------------------------
\* The seed posts nothing twice: its steps by position.
Joined(s, t, both) ==
  /\ Len(both) = Len(s) + Len(t)
  /\ \A i \in 1..Len(s) : both[i] = s[i]
  /\ \A i \in 1..Len(t) : both[Len(s) + i] = t[i]

LEMMA Concatenated ==
  ASSUME NEW S, NEW s \in Seq(S), NEW t \in Seq(S)
  PROVE  s \o t \in Seq(S) /\ Joined(s, t, s \o t)
<1>1. s \o t \in Seq(S) /\ Len(s \o t) = Len(s) + Len(t)
  OBVIOUS
<1>2. \A i \in 1..Len(s) : (s \o t)[i] = s[i]
  OBVIOUS
<1>3. \A i \in 1..Len(t) : (s \o t)[Len(s) + i] = t[i]
  OBVIOUS
<1> QED BY <1>1, <1>2, <1>3 DEF Joined

LEMMA PlanIs ==
  /\ Len(Plan) = 28
  /\ \A i \in 1..12 : Plan[i] = Objects[i]
  /\ \A i \in 1..4 : Plan[12 + i] = CashGroup[i]
  /\ Plan[17] = TermGroup[1]
  /\ \A i \in 1..5 : Plan[17 + i] = SecurityObjects[i]
  /\ \A i \in 1..4 : Plan[22 + i] = TradeGroup[i]
  /\ \A i \in 1..2 : Plan[26 + i] = TaxObjects[i]
<1>1. Objects \in Seq(Steps) /\ Len(Objects) = 12
  BY DEF Objects, Object, Steps, ObjectStep, ObjectTables, ParentNames, OtherNames
<1>2. CashGroup \in Seq(Steps) /\ Len(CashGroup) = 4
  BY DEF CashGroup, Posting, Steps, PostingStep, PostedAccounts, PostedSecurities, PostingNames
<1>3. TermGroup \in Seq(Steps) /\ Len(TermGroup) = 1
  BY DEF TermGroup, Posting, Steps, PostingStep, PostedAccounts, PostedSecurities, PostingNames
<1>4. SecurityObjects \in Seq(Steps) /\ Len(SecurityObjects) = 5
  BY DEF SecurityObjects, Object, Steps, ObjectStep, ObjectTables, ParentNames, OtherNames
<1>5. TradeGroup \in Seq(Steps) /\ Len(TradeGroup) = 4
  BY DEF TradeGroup, Posting, Steps, PostingStep, PostedAccounts, PostedSecurities, PostingNames
<1>6. TaxObjects \in Seq(Steps) /\ Len(TaxObjects) = 2
  BY DEF TaxObjects, Object, Steps, ObjectStep, ObjectTables, ParentNames, OtherNames
<1> DEFINE P2 == Objects \o CashGroup
           P3 == P2 \o TermGroup
           P4 == P3 \o SecurityObjects
           P5 == P4 \o TradeGroup
<1>7. P2 \in Seq(Steps) /\ Joined(Objects, CashGroup, P2)
  BY <1>1, <1>2, Concatenated
<1> HIDE DEF P2
<1>8. P3 \in Seq(Steps) /\ Joined(P2, TermGroup, P3)
  BY <1>3, <1>7, Concatenated
<1> HIDE DEF P3
<1>9. P4 \in Seq(Steps) /\ Joined(P3, SecurityObjects, P4)
  BY <1>4, <1>8, Concatenated
<1> HIDE DEF P4
<1>10. P5 \in Seq(Steps) /\ Joined(P4, TradeGroup, P5)
  BY <1>5, <1>9, Concatenated
<1>11. Plan = P5 \o TaxObjects
  BY DEF Plan, P2, P3, P4
<1> HIDE DEF P5
<1>12. Joined(P5, TaxObjects, Plan)
  BY <1>6, <1>10, <1>11, Concatenated
<1>13. /\ Len(P2) = 16
       /\ \A i \in 1..12 : P2[i] = Objects[i]
       /\ \A i \in 1..4 : P2[12 + i] = CashGroup[i]
  BY <1>1, <1>2, <1>7 DEF Joined
<1>14. /\ Len(P3) = 17
       /\ \A i \in 1..16 : P3[i] = P2[i]
       /\ P3[17] = TermGroup[1]
  BY <1>3, <1>8, <1>13 DEF Joined
<1>15. /\ Len(P4) = 22
       /\ \A i \in 1..17 : P4[i] = P3[i]
       /\ \A i \in 1..5 : P4[17 + i] = SecurityObjects[i]
  BY <1>4, <1>9, <1>14 DEF Joined
<1>16. /\ Len(P5) = 26
       /\ \A i \in 1..22 : P5[i] = P4[i]
       /\ \A i \in 1..4 : P5[22 + i] = TradeGroup[i]
  BY <1>5, <1>10, <1>15 DEF Joined
<1>17. /\ Len(Plan) = 28
       /\ \A i \in 1..26 : Plan[i] = P5[i]
       /\ \A i \in 1..2 : Plan[26 + i] = TaxObjects[i]
  BY <1>6, <1>12, <1>16 DEF Joined
<1>18. \A i \in 1..16 : Plan[i] = P2[i]
  BY <1>14, <1>15, <1>16, <1>17
<1>19. \A i \in 1..4 : 12 + i \in 1..16
  OBVIOUS
<1>20. \A i \in 1..4 : Plan[12 + i] = CashGroup[i]
  BY <1>13, <1>18, <1>19
<1>21. Plan[17] = TermGroup[1] /\ \A i \in 1..5 : Plan[17 + i] = SecurityObjects[i]
  BY <1>14, <1>15, <1>16, <1>17
<1>22. \A i \in 1..4 : Plan[22 + i] = TradeGroup[i]
  BY <1>16, <1>17
<1> QED BY <1>13, <1>17, <1>18, <1>20, <1>21, <1>22

TradeNames == {"BuyETF", "BuyStock", "DividendETF"}

LEMMA StepFields ==
  /\ \A table, name, parents :
       /\ Object(table, name, parents).group = Blank
       /\ Object(table, name, parents).table = table
       /\ Object(table, name, parents).name = name
  /\ \A group, name, accounts, security :
       /\ Posting(group, name, accounts, security).group = group
       /\ Posting(group, name, accounts, security).name = name
       /\ Posting(group, name, accounts, security).parents = accounts
       /\ Posting(group, name, accounts, security).security = security
BY DEF Object, Posting

LEMMA PlanFacts ==
  /\ \A i \in 1..28 :
       /\ Plan[i].group = Blank <=> i \notin 13..17 \cup 23..26
       /\ Plan[i].group = "cash" <=> i \in 13..16
       /\ Plan[i].group = "term" <=> i = 17
       /\ Plan[i].group = "trades" <=> i \in 23..26
  /\ Plan[9].table = "account" /\ Plan[9].name = "FixedDeposit"
  /\ Plan[17].name = "OpeningPrincipal" /\ Plan[17].parents = {"FixedDeposit"}
  /\ Plan[23].name = "BrokerageFunding"
  /\ \A i \in 24..26 : Plan[i].name \in TradeNames /\ Plan[i].security # {}
  /\ \A i \in 13..23 : Plan[i].group # Blank => Plan[i].name \notin TradeNames
  /\ \A i, j \in 13..17 \cup 23..26 : Plan[i].name = Plan[j].name => i = j
<1>1. \A i \in 1..12 : Plan[i].group = Blank
  <2>1. \A i \in 1..12 : Objects[i].group = Blank
    BY StepFields DEF Objects
  <2> QED BY <2>1, PlanIs
<1>2. \A i \in 13..16 : Plan[i].group = "cash"
  <2>1. \A i \in 1..4 : CashGroup[i].group = "cash"
    BY StepFields DEF CashGroup
  <2>2. \A i \in 1..4 : Plan[12 + i].group = "cash"
    BY <2>1, PlanIs
  <2> QED BY <2>2
<1>3. Plan[17] = Posting("term", "OpeningPrincipal", {"FixedDeposit"}, {})
  BY PlanIs DEF TermGroup
<1>4. \A i \in 18..22 : Plan[i].group = Blank
  <2>1. \A i \in 1..5 : SecurityObjects[i].group = Blank
    BY StepFields DEF SecurityObjects
  <2>2. \A i \in 1..5 : Plan[17 + i].group = Blank
    BY <2>1, PlanIs
  <2> QED BY <2>2
<1>5. \A i \in 23..26 : Plan[i].group = "trades"
  <2>1. \A i \in 1..4 : TradeGroup[i].group = "trades"
    BY StepFields DEF TradeGroup
  <2>2. \A i \in 1..4 : Plan[22 + i].group = "trades"
    BY <2>1, PlanIs
  <2> QED BY <2>2
<1>6. \A i \in 27..28 : Plan[i].group = Blank
  <2>1. \A i \in 1..2 : TaxObjects[i].group = Blank
    BY StepFields DEF TaxObjects
  <2>2. \A i \in 1..2 : Plan[26 + i].group = Blank
    BY <2>1, PlanIs
  <2> QED BY <2>2
<1>7. Plan[9] = Object("account", "FixedDeposit", {"ExampleBank", "EUR"})
  <2>1. Plan[9] = Objects[9]
    BY PlanIs
  <2> QED BY <2>1 DEF Objects
<1>8. /\ Plan[13].name = "Salary" /\ Plan[14].name = "Groceries"
      /\ Plan[15].name = "TransferToSavings" /\ Plan[16].name = "InterestPayment"
  <2>1. /\ Plan[12 + 1] = CashGroup[1] /\ Plan[12 + 2] = CashGroup[2]
        /\ Plan[12 + 3] = CashGroup[3] /\ Plan[12 + 4] = CashGroup[4]
    BY PlanIs
  <2> QED BY <2>1, StepFields DEF CashGroup
<1>9. /\ Plan[23].name = "BrokerageFunding" /\ Plan[24].name = "BuyETF"
      /\ Plan[25].name = "BuyStock" /\ Plan[26].name = "DividendETF"
      /\ Plan[24].security # {} /\ Plan[25].security # {} /\ Plan[26].security # {}
  <2>1. /\ Plan[22 + 1] = TradeGroup[1] /\ Plan[22 + 2] = TradeGroup[2]
        /\ Plan[22 + 3] = TradeGroup[3] /\ Plan[22 + 4] = TradeGroup[4]
    BY PlanIs
  <2> QED BY <2>1, StepFields DEF TradeGroup
<1>10. Plan[17].group = "term" /\ Plan[17].name = "OpeningPrincipal" /\ Plan[17].parents = {"FixedDeposit"}
  BY <1>3, StepFields
<1>11. Plan[9].table = "account" /\ Plan[9].name = "FixedDeposit"
  BY <1>7, StepFields
<1>12. \A i \in 1..28 :
         /\ Plan[i].group = Blank <=> i \notin 13..17 \cup 23..26
         /\ Plan[i].group = "cash" <=> i \in 13..16
         /\ Plan[i].group = "term" <=> i = 17
         /\ Plan[i].group = "trades" <=> i \in 23..26
  BY <1>1, <1>2, <1>4, <1>5, <1>6, <1>10 DEF Blank
<1>13. \A i \in 24..26 : Plan[i].name \in TradeNames /\ Plan[i].security # {}
  BY <1>9 DEF TradeNames
<1>14. \A i \in 13..23 : Plan[i].group # Blank => Plan[i].name \notin TradeNames
  BY <1>8, <1>9, <1>10, <1>12 DEF TradeNames
<1>15. \A i, j \in 13..17 \cup 23..26 : Plan[i].name = Plan[j].name => i = j
  BY <1>8, <1>9, <1>10
<1> QED BY <1>9, <1>10, <1>11, <1>12, <1>13, <1>14, <1>15

\* What is passed over is an object that is there.
LEMMA FollowingIs ==
  ASSUME NEW i \in Nat \ {0}, Following(i) # 0
  PROVE  /\ Following(i) \in i..28
         /\ \A j \in i..28 : j < Following(i) => Plan[j].group = Blank /\ There(Plan[j])
<1> DEFINE due == {j \in i..Len(Plan) : Plan[j].group # Blank \/ ~There(Plan[j])}
<1>1. Following(i) = IF due = {} THEN 0 ELSE Min(due)
  BY DEF Following
<1>2. due \in SUBSET Nat /\ due \subseteq i..28 /\ due # {}
  BY <1>1, PlanIs
<1>3. Min(due) \in due /\ \A y \in due : Min(due) <= y
  BY <1>2, MinIsMember
<1>4. \A j \in i..28 : j \notin due => Plan[j].group = Blank /\ There(Plan[j])
  BY PlanIs
<1> HIDE DEF due
<1>5. Following(i) = Min(due) /\ Following(i) \in Nat
  BY <1>1, <1>2, <1>3
<1>6. \A j \in i..28 : j < Following(i) => j \notin due
  BY <1>3, <1>5
<1> QED BY <1>2, <1>3, <1>4, <1>5, <1>6

-----------------------------------------------------------------------------
Transactions == InTable(db, "transaction")

Absent(name) == \A r \in Transactions : r.name # name

PostedOnce ==
  \A i \in 13..17 \cup 23..26 :
    i # 23 => \A r, x \in Transactions : r.name = Plan[i].name /\ x.name = Plan[i].name => r = x

\* An entry belongs to one transaction.
OneTransaction ==
  \A e \in InTable(db, "entry") :
    \A k, l \in e.refs : k[1] = "transaction" /\ l[1] = "transaction" => k = l

\* What the question before a group looks for is there as long as the posting.
OpeningHasEntry ==
  \A r \in Transactions : r.name = "OpeningPrincipal" =>
    \E e \in InTable(db, "entry") :
      Key(r) \in e.refs /\ Named(db, {"FixedDeposit"}) \cap e.refs # {}

TradeHasInvestment ==
  \A r \in Transactions : r.name \in TradeNames =>
    \E x \in InTable(db, "investment") : Key(r) \in x.refs

DepositThere == \E r \in InTable(db, "account") : r.name = "FixedDeposit"

\* In the middle of a group, the rest of it has not been posted.
RestToCome ==
  line \in 14..16 \cup 24..26 =>
    \A j \in 13..17 \cup 23..26 : j >= line /\ Plan[j].group = Plan[line].group => Absent(Plan[j].name)

SeededOnce ==
  /\ PostedOnce /\ OneTransaction /\ OpeningHasEntry /\ TradeHasInvestment /\ RestToCome
  /\ line > 9 => DepositThere

SeedInv == DatabaseOK /\ SeededOnce

\* Where a step leads: into the middle of a group only from the step before.
LEMMA LedTo ==
  ASSUME NEW i \in 1..29, line' = Following(i)
  PROVE  /\ line' \in 14..16 \cup 24..26 => line' = i
         /\ line' > 9 /\ i <= 9 => DepositThere
<1>1. CASE Following(i) = 0
  BY <1>1
<1>2. CASE Following(i) # 0
  <2>1. /\ line' \in i..28
        /\ \A j \in i..28 : j < line' => Plan[j].group = Blank /\ There(Plan[j])
    BY <1>2, FollowingIs
  <2>2. ASSUME line' \in 14..16 \cup 24..26, line' # i PROVE FALSE
    <3>1. line' - 1 \in i..28 /\ line' - 1 < line' /\ line' - 1 \in 13..17 \cup 23..26
      BY <2>1, <2>2
    <3> QED BY <2>1, <3>1, PlanFacts
  <2>3. ASSUME line' > 9, i <= 9 PROVE DepositThere
    <3>1. There(Plan[9])
      BY <2>1, <2>3
    <3> QED BY <3>1, PlanFacts DEF There, DepositThere
  <2> QED BY <2>2, <2>3
<1> QED BY <1>1, <1>2

\* A change to other tables than those of postings, which takes no row away,
\* leaves what is known of the postings as it is.
LEMMA OtherTables ==
  ASSUME SeedInv, DatabaseOK',
         \A t \in {"transaction", "entry", "investment"} : InTable(db', t) = InTable(db, t),
         Named(db, {"FixedDeposit"}) \subseteq Named(db', {"FixedDeposit"}),
         line' \notin 14..16 \cup 24..26,
         line' > 9 => DepositThere'
  PROVE  SeedInv'
<1>1. Transactions' = Transactions /\ InTable(db, "entry")' = InTable(db, "entry")
      /\ InTable(db, "investment")' = InTable(db, "investment")
  BY DEF Transactions, InTable
<1> QED BY <1>1 DEF SeedInv, SeededOnce, PostedOnce, OneTransaction, OpeningHasEntry,
                    TradeHasInvestment, RestToCome

LEMMA RunOnce == ASSUME SeedInv, Run \/ Interrupt PROVE SeedInv'
<1>1. DatabaseOK' /\ UNCHANGED db
  BY DatabaseStep DEF SeedInv, Seeding, Run, Interrupt
<1>2. /\ line' \notin 14..16 \cup 24..26
      /\ line' > 9 => DepositThere
  BY LedTo DEF Run, Interrupt
<1>3. DepositThere' <=> DepositThere
  BY <1>1 DEF DepositThere, InTable
<1> QED BY <1>1, <1>2, <1>3, OtherTables

LEMMA EnsureOnce == ASSUME SeedInv, Ensure PROVE SeedInv'
<1> DEFINE step == Plan[line]
           new == Row(step.table, drawn[step.table] + 1, step.name, Named(db, step.parents))
<1>1. /\ line # 0 /\ step.group = Blank /\ step.table # "link"
      /\ db' = db \cup {new}
      /\ line' = Following(line + 1)
  BY DEF Ensure
<1>2. line \in 1..28 /\ line \notin 13..17 \cup 23..26
  BY <1>1, PlanIs, PlanFacts, LineAt DEF SeedInv
<1>3. step.table \notin {"transaction", "entry", "investment"}
  BY <1>1, <1>2, PlanIs, TableOfStep DEF PostingStep, ObjectStep, ObjectTables, Blank
<1>4. new.table = step.table /\ new.name = step.name
  BY DEF Row
<1>5. DatabaseOK'
  BY EnsureKeeps DEF SeedInv
<1>6. line' \notin 14..16 \cup 24..26 /\ (line' > 9 /\ line + 1 <= 9 => DepositThere)
  BY <1>1, <1>2, LedTo
<1> HIDE DEF step, new
<1>7. \A t \in {"transaction", "entry", "investment"} : InTable(db', t) = InTable(db, t)
  BY <1>1, <1>3, <1>4 DEF InTable
<1>8. Named(db, {"FixedDeposit"}) \subseteq Named(db', {"FixedDeposit"})
  BY <1>1 DEF Named
<1>9. DepositThere => DepositThere'
  BY <1>1 DEF DepositThere, InTable
<1>10. line = 9 => DepositThere'
  <2>1. line = 9 => new.table = "account" /\ new.name = "FixedDeposit"
    BY <1>4, PlanFacts DEF step
  <2> QED BY <1>1, <2>1 DEF DepositThere, InTable
<1>11. line' > 9 => DepositThere'
  BY <1>2, <1>6, <1>9, <1>10 DEF SeedInv, SeededOnce
<1> QED BY <1>5, <1>6, <1>7, <1>8, <1>11, OtherTables

LEMMA LinkOnce == ASSUME SeedInv, Link PROVE SeedInv'
<1> DEFINE more == Named(db, Plan[line].parents)
<1>1. PICK r \in db : r.table = "account" /\ db' = (db \ {r}) \cup {[r EXCEPT !.refs = @ \cup more]}
  BY DEF Link, InTable
<1>2. DatabaseOK' /\ line' = Following(line + 1) /\ line \in 1..28 /\ Plan[line].table = "link"
  BY LinkKeeps, LineAt, PlanIs DEF SeedInv, Link
<1>3. line \notin 13..17 \cup 23..26 /\ line # 9
  <2>1. Plan[line] \in ObjectStep \/ Plan[line] \in PostingStep
    BY <1>2, PlanIs, TableOfStep
  <2>2. Plan[line].group = Blank
    BY <1>2, <2>1 DEF ObjectStep, PostingStep
  <2> QED BY <1>2, <2>2, PlanFacts
<1> DEFINE new == [r EXCEPT !.refs = @ \cup more]
<1> HIDE DEF more
<1>4. new.table = "account" /\ new.name = r.name /\ Key(new) = Key(r)
  BY <1>1 DEF Key, SeedInv, DatabaseOK, RowType
<1>5. db' = (db \ {r}) \cup {new}
  BY <1>1
<1> HIDE DEF new
<1>6. \A t \in {"transaction", "entry", "investment"} : InTable(db', t) = InTable(db, t)
  BY <1>1, <1>4, <1>5 DEF InTable
<1>7. Named(db, {"FixedDeposit"}) \subseteq Named(db', {"FixedDeposit"})
  BY <1>4, <1>5 DEF Named
<1>8. DepositThere => DepositThere'
  BY <1>1, <1>4, <1>5 DEF DepositThere, InTable
<1>9. line' \notin 14..16 \cup 24..26 /\ (line' > 9 /\ line + 1 <= 9 => DepositThere)
  BY <1>2, <1>3, LedTo
<1>10. line' > 9 => DepositThere'
  BY <1>2, <1>3, <1>8, <1>9 DEF SeedInv, SeededOnce
<1> QED BY <1>2, <1>6, <1>7, <1>9, <1>10, OtherTables

\* A group that is skipped is skipped to its end.
LEMMA SkipOnce == ASSUME SeedInv, SkipGroup PROVE SeedInv'
<1> DEFINE group == Plan[line].group
           mine == {i \in DOMAIN Plan : Plan[i].group = group}
<1>1. line \in 13..17 \cup 23..26
  BY LineAt, PlanIs, PlanFacts DEF SeedInv, SkipGroup
<1>2. DOMAIN Plan = 1..28
  BY PlanIs, PlanOfSteps
<1>3. mine \in SUBSET Nat /\ mine # {} /\ (\A i \in mine : i <= 28) /\ mine \subseteq 1..28
  BY <1>1, <1>2
<1>4. After(group) = Max(mine) + 1
  BY DEF After
<1>5. \A i \in 1..28 : i \in mine <=> Plan[i].group = group
  BY <1>2
<1> HIDE DEF mine
<1>6. Max(mine) \in mine /\ \A i \in mine : i <= Max(mine)
  BY <1>3, MaxIsBound
<1> DEFINE k == After(group)
<1>7. line' = Following(k) /\ UNCHANGED db
  BY DEF SkipGroup
<1>8. k = Max(mine) + 1 /\ Max(mine) \in 1..28
  BY <1>3, <1>4, <1>6
<1> HIDE DEF k
<1>9. k \in 1..29 /\ k - 1 = Max(mine)
  BY <1>8
<1>10. ASSUME line' \in 14..16 \cup 24..26 PROVE FALSE
  <2>1. line' = k
    BY <1>7, <1>9, <1>10, LedTo
  <2>2. Plan[k - 1].group = group
    BY <1>5, <1>6, <1>8, <1>9
  <2>3. k \in 1..28 /\ k \notin mine
    BY <1>6, <1>8, <1>10, <2>1
  <2>4. k \in 14..16 \cup 24..26 /\ Plan[k - 1].group = group /\ Plan[k].group # group
    BY <1>5, <1>10, <2>1, <2>2, <2>3
  <2>5. k \in 1..28 /\ k - 1 \in 1..28
    BY <2>4
  <2>6. CASE k \in 14..16
    <3>1. k - 1 \in 13..16 /\ k \in 13..16
      BY <2>6
    <3> QED BY <2>4, <2>5, <3>1, PlanFacts
  <2>7. CASE k \in 24..26
    <3>1. k - 1 \in 23..26 /\ k \in 23..26
      BY <2>7
    <3> QED BY <2>4, <2>5, <3>1, PlanFacts
  <2> QED BY <2>4, <2>6, <2>7
<1>11. DepositThere' <=> DepositThere
  BY <1>7 DEF DepositThere, InTable
<1>12. DepositThere
  BY <1>1 DEF SeedInv, SeededOnce
<1>13. DatabaseOK'
  BY SkipKeeps DEF SeedInv
<1> QED BY <1>7, <1>10, <1>11, <1>12, <1>13, OtherTables

\* What a group posts next is not there yet.
LEMMA NotThereYet ==
  ASSUME SeedInv, PostStep
  PROVE  /\ line \in 13..17 \cup 23..26
         /\ line # 23 => Absent(Plan[line].name)
         /\ \A j \in 13..17 \cup 23..26 :
              j > line /\ Plan[j].group = Plan[line].group => Absent(Plan[j].name)
<1>1. line \in 13..17 \cup 23..26
  BY LineAt, PlanIs, PlanFacts DEF SeedInv, PostStep
<1>2. CASE line \in 14..16 \cup 24..26
  BY <1>1, <1>2 DEF SeedInv, SeededOnce, RestToCome
<1>3. CASE line = 13
  <2>1. Plan[13].group = "cash" /\ Plan[13 - 1].group # "cash"
    <3>1. 13 - 1 \in 1..28 /\ 13 - 1 \notin 13..16
      OBVIOUS
    <3> QED BY <3>1, PlanFacts
  <2>2. ~GroupSeeded("cash")
    BY <1>3, <2>1 DEF PostStep, FirstOf
  <2>3. Transactions = {}
    BY <2>2 DEF GroupSeeded, Transactions
  <2> QED BY <1>1, <2>3 DEF Absent
<1>4. CASE line = 17
  <2>1. Plan[17].group = "term" /\ Plan[17 - 1].group # "term"
    <3>1. 17 - 1 \in 1..28 /\ 17 - 1 # 17
      OBVIOUS
    <3> QED BY <3>1, PlanFacts
  <2>2. ~GroupSeeded("term")
    BY <1>4, <2>1 DEF PostStep, FirstOf
  <2>3. ~\E e \in InTable(db, "entry") : Named(db, {"FixedDeposit"}) \cap e.refs # {}
    BY <2>2 DEF GroupSeeded
  <2>4. Absent("OpeningPrincipal")
    BY <2>3 DEF SeedInv, SeededOnce, OpeningHasEntry, Absent
  <2>5. \A j \in 13..17 \cup 23..26 : j > line => Plan[j].group # Plan[line].group
    BY <1>4, PlanFacts
  <2> QED BY <1>1, <1>4, <2>4, <2>5, PlanFacts
<1>5. CASE line = 23
  <2>1. Plan[23].group = "trades" /\ Plan[23 - 1].group # "trades"
    <3>1. 23 - 1 \in 1..28 /\ 23 - 1 \notin 23..26
      OBVIOUS
    <3> QED BY <3>1, PlanFacts
  <2>2. ~GroupSeeded("trades")
    BY <1>5, <2>1 DEF PostStep, FirstOf
  <2>3. InTable(db, "investment") = {}
    BY <2>2 DEF GroupSeeded
  <2>4. \A name \in TradeNames : Absent(name)
    BY <2>3 DEF SeedInv, SeededOnce, TradeHasInvestment, Absent
  <2>5. \A j \in 13..17 \cup 23..26 : j > line => j \in 24..26
    BY <1>5
  <2> QED BY <1>1, <1>5, <2>4, <2>5, PlanFacts
<1> QED BY <1>1, <1>2, <1>3, <1>4, <1>5

LEMMA PostOnce == ASSUME SeedInv, PostStep PROVE SeedInv'
<1> DEFINE P == 13..17 \cup 23..26
           step == Plan[line]
           rows == PostedRows(step)
           T == TransactionRow(step)
           E == {EntryRow(step, i) : i \in 1..Cardinality(step.parents)}
           V == {TradeRow(step, s) : s \in step.security}
<1>1. /\ line \in P
      /\ line # 23 => Absent(step.name)
      /\ \A j \in P : j > line /\ Plan[j].group = step.group => Absent(Plan[j].name)
  BY NotThereYet
<1>2. DatabaseOK /\ DatabaseOK' /\ step \in PostingStep /\ line \in 1..28
  <2>1. line \in 1..Len(Plan) /\ line \in 1..28
    BY <1>1, PlanIs
  <2>2. step \in PostingStep
    BY <2>1, TableOfStep DEF PostStep, ObjectStep
  <2> QED BY <2>1, <2>2, PostStepKeeps DEF SeedInv
<1>3. /\ db' = db \cup rows /\ line' = Following(line + 1)
      /\ step.group # Blank
  BY DEF PostStep
<1>4. /\ InTable(rows, "transaction") = {T}
      /\ InTable(rows, "entry") = E
      /\ InTable(rows, "investment") = V
  BY <1>2, NewRowsByTable
<1>5. \A t : InTable(db', t) = InTable(db, t) \cup InTable(rows, t)
  BY <1>3 DEF InTable
<1>6. /\ Transactions' = Transactions \cup {T}
      /\ InTable(db', "entry") = InTable(db, "entry") \cup E
      /\ InTable(db', "investment") = InTable(db, "investment") \cup V
  BY <1>4, <1>5 DEF Transactions
<1>7. T.name = step.name /\ Key(T) = <<"transaction", drawn["transaction"] + 1>>
  BY DEF TransactionRow, Row, Key
<1>8. \A i, j \in P : Plan[i].name = Plan[j].name => i = j
  BY PlanFacts
<1>9. \A i \in P : i # line => T.name # Plan[i].name
  BY <1>1, <1>7, <1>8
<1>10. \A names : Named(db, names) \subseteq Named(db', names)
  BY <1>3 DEF Named
<1>11. step.parents \in SUBSET ParentNames
  BY <1>2, PostedAccountsFinite DEF PostingStep
<1>12. \A e \in E : \E names \in SUBSET ParentNames :
         /\ e.refs = {Key(T)} \cup Named(db, names)
         /\ step.parents = {"FixedDeposit"} => names = {"FixedDeposit"}
  <2> SUFFICES ASSUME NEW i \in 1..Cardinality(step.parents)
               PROVE  \E names \in SUBSET ParentNames :
                        /\ EntryRow(step, i).refs = {Key(T)} \cup Named(db, names)
                        /\ step.parents = {"FixedDeposit"} => names = {"FixedDeposit"}
    OBVIOUS
  <2>1. SetToSeq(step.parents)[i] \in step.parents
    BY <1>2, PostedAccountsFinite, ListOfSet DEF PostingStep
  <2>2. EntryRow(step, i).refs = {Key(T)} \cup Named(db, {SetToSeq(step.parents)[i]})
    BY <1>7 DEF EntryRow, Row
  <2>3. {SetToSeq(step.parents)[i]} \in SUBSET ParentNames
    BY <1>11, <2>1
  <2>4. step.parents = {"FixedDeposit"} => {SetToSeq(step.parents)[i]} = {"FixedDeposit"}
    BY <2>1
  <2> HIDE DEF step
  <2> QED BY <2>2, <2>3, <2>4
<1>13. step.parents = {"FixedDeposit"} => E # {}
  <2>1. step.parents = {"FixedDeposit"} => Cardinality(step.parents) = 1
    BY FS_Singleton
  <2>2. Cardinality(step.parents) = 1 => EntryRow(step, 1) \in E
    OBVIOUS
  <2> QED BY <2>1, <2>2
<1>14. (\A v \in V : Key(T) \in v.refs) /\ (step.security # {} => V # {})
  <2>1. \A s : TradeRow(step, s).refs
                = {<<"transaction", drawn["transaction"] + 1>>} \cup Named(db, step.parents \cup {s})
    BY DEF TradeRow, Row
  <2>2. \A s : Key(T) \in TradeRow(step, s).refs
    BY <1>7, <2>1
  <2> QED BY <2>2
<1> HIDE DEF rows, T, E, V
<1>15. PostedOnce'
  <2> SUFFICES ASSUME NEW i \in P, i # 23,
                      NEW r \in Transactions \cup {T}, NEW x \in Transactions \cup {T},
                      r.name = Plan[i].name, x.name = Plan[i].name
               PROVE  r = x
    BY <1>6 DEF PostedOnce
  <2>1. CASE i = line
    BY <1>1, <2>1 DEF Absent
  <2>2. CASE i # line
    BY <1>9, <2>2 DEF SeedInv, SeededOnce, PostedOnce
  <2> QED BY <2>1, <2>2
<1>16. OneTransaction'
  <2> SUFFICES ASSUME NEW e \in E, NEW k \in e.refs, NEW l \in e.refs,
                      k[1] = "transaction", l[1] = "transaction"
               PROVE  k = l
    BY <1>6 DEF SeedInv, SeededOnce, OneTransaction
  <2>1. PICK names \in SUBSET ParentNames : e.refs = {Key(T)} \cup Named(db, names)
    BY <1>12
  <2>2. \A m \in Named(db, names) : m[1] # "transaction"
    BY <1>2, NamedOK
  <2> QED BY <2>1, <2>2
<1>17. OpeningHasEntry'
  <2> SUFFICES ASSUME NEW r \in Transactions \cup {T}, r.name = "OpeningPrincipal"
               PROVE  \E e \in InTable(db', "entry") :
                        Key(r) \in e.refs /\ Named(db', {"FixedDeposit"}) \cap e.refs # {}
    BY <1>6 DEF OpeningHasEntry, Key
  <2>1. CASE r \in Transactions
    <3>1. PICK e \in InTable(db, "entry") :
            Key(r) \in e.refs /\ Named(db, {"FixedDeposit"}) \cap e.refs # {}
      BY <2>1 DEF SeedInv, SeededOnce, OpeningHasEntry
    <3> QED BY <1>6, <1>10, <3>1
  <2>2. CASE r = T
    <3>1. line = 17
      BY <1>1, <1>7, <1>8, <2>2, PlanFacts
    <3>2. step.parents = {"FixedDeposit"}
      BY <3>1, PlanFacts
    <3>3. PICK e \in E : e.refs = {Key(T)} \cup Named(db, {"FixedDeposit"})
      BY <1>12, <1>13, <3>2
    <3>4. Named(db, {"FixedDeposit"}) # {}
      BY <3>1 DEF SeedInv, SeededOnce, DepositThere, Named, InTable
    <3> QED BY <1>6, <1>10, <2>2, <3>3, <3>4
  <2> QED BY <2>1, <2>2
<1>18. TradeHasInvestment'
  <2> SUFFICES ASSUME NEW r \in Transactions \cup {T}, r.name \in TradeNames
               PROVE  \E x \in InTable(db', "investment") : Key(r) \in x.refs
    BY <1>6 DEF TradeHasInvestment, Key
  <2>1. CASE r \in Transactions
    BY <1>6, <2>1 DEF SeedInv, SeededOnce, TradeHasInvestment
  <2>2. CASE r = T
    <3>1. line \in 24..26
      <4>1. line \notin 13..23
        BY <1>2, <1>3, <1>7, <2>2, PlanFacts
      <4> QED BY <1>1, <4>1
    <3>2. step.security # {}
      BY <3>1, PlanFacts
    <3> QED BY <1>6, <1>14, <2>2, <3>2
  <2> QED BY <2>1, <2>2
<1>19. RestToCome'
  <2> SUFFICES ASSUME line' \in 14..16 \cup 24..26,
                      NEW j \in P, j >= line', Plan[j].group = Plan[line'].group
               PROVE  Absent(Plan[j].name)'
    BY DEF RestToCome
  <2>1. line' = line + 1
    BY <1>2, <1>3, LedTo
  <2>2. j > line
    BY <1>1, <2>1
  <2>3. Plan[line + 1].group = step.group
    <3>1. line + 1 \in 14..16 \cup 24..26 /\ line + 1 \in 1..28
      BY <2>1
    <3>2. CASE line + 1 \in 14..16
      <4>1. line \in 13..16 /\ line + 1 \in 13..16
        BY <1>2, <3>2
      <4> QED BY <1>2, <3>1, <4>1, PlanFacts
    <3>3. CASE line + 1 \in 24..26
      <4>1. line \in 23..26 /\ line + 1 \in 23..26
        BY <1>2, <3>3
      <4> QED BY <1>2, <3>1, <4>1, PlanFacts
    <3> QED BY <3>1, <3>2, <3>3
  <2>4. Absent(Plan[j].name)
    BY <1>1, <2>1, <2>2, <2>3
  <2>5. T.name # Plan[j].name
    BY <1>1, <1>9, <2>2
  <2> QED BY <1>6, <2>4, <2>5 DEF Absent
<1>20. DepositThere'
  <2>1. DepositThere
    BY <1>1 DEF SeedInv, SeededOnce
  <2> QED BY <1>5, <2>1 DEF DepositThere
<1> QED BY <1>2, <1>15, <1>16, <1>17, <1>18, <1>19, <1>20 DEF SeedInv, SeededOnce

\* A deleted posting takes its own entries, no object and no trade.
LEMMA DeleteOnce == ASSUME SeedInv, NEW r \in db, DeletePosting(r) PROVE SeedInv'
<1> DEFINE mine == {x \in db : Key(r) \in x.refs}
<1>1. db' = db \ ({r} \cup mine) /\ UNCHANGED line /\ r.table = "transaction"
  BY DEF DeletePosting
<1>2. DatabaseOK /\ DatabaseOK'
  BY DeleteKeeps DEF SeedInv
<1>3. \A x \in mine : x.table = "entry"
  <2>1. \A x \in mine : x.table \in {"entry", "investment"}
    BY <1>1, <1>2 DEF DatabaseOK, RefsByTable, Key
  <2>2. \A x \in mine : x.table # "investment"
    BY DEF DeletePosting, InTable
  <2> QED BY <2>1, <2>2
<1>4. \A x \in db : x \in mine <=> Key(r) \in x.refs
  OBVIOUS
<1> HIDE DEF mine
<1>5. /\ Transactions' \subseteq Transactions /\ \A x \in Transactions' : x # r
      /\ InTable(db', "entry") \subseteq InTable(db, "entry")
      /\ InTable(db', "investment") = InTable(db, "investment")
      /\ InTable(db', "account") = InTable(db, "account")
  BY <1>1, <1>3 DEF Transactions, InTable
<1>6. Named(db', {"FixedDeposit"}) = Named(db, {"FixedDeposit"})
  <2>1. \A x \in db : x.name = "FixedDeposit" => x.table \notin {"transaction", "entry"}
    BY <1>2 DEF DatabaseOK, RefsByTable, ParentNames
  <2>2. \A x \in db : x.name = "FixedDeposit" => x \in db'
    BY <1>1, <1>3, <2>1
  <2>3. db' \subseteq db
    BY <1>1
  <2> QED BY <2>2, <2>3 DEF Named
<1>7. PostedOnce' /\ OneTransaction'
  BY <1>5 DEF SeedInv, SeededOnce, PostedOnce, OneTransaction
<1>8. OpeningHasEntry'
  <2> SUFFICES ASSUME NEW x \in Transactions', x.name = "OpeningPrincipal"
               PROVE  \E e \in InTable(db', "entry") :
                        Key(x) \in e.refs /\ Named(db', {"FixedDeposit"}) \cap e.refs # {}
    BY DEF OpeningHasEntry, Key
  <2>1. PICK e \in InTable(db, "entry") :
          Key(x) \in e.refs /\ Named(db, {"FixedDeposit"}) \cap e.refs # {}
    BY <1>5 DEF SeedInv, SeededOnce, OpeningHasEntry
  <2>2. x \in db /\ x # r /\ x.table = "transaction"
    BY <1>5 DEF Transactions, InTable
  <2>3. e \notin mine
    <3> SUFFICES ASSUME Key(r) \in e.refs PROVE FALSE
      BY <1>4, <2>1 DEF InTable
    <3>1. Key(x)[1] = "transaction" /\ Key(r)[1] = "transaction"
      BY <1>1, <2>2 DEF Key
    <3>2. Key(x) = Key(r)
      BY <2>1, <3>1 DEF SeedInv, SeededOnce, OneTransaction
    <3> QED BY <1>2, <2>2, <3>2 DEF DatabaseOK, KeysUnique
  <2>4. e \in InTable(db', "entry")
    BY <1>1, <2>1, <2>3 DEF InTable
  <2> QED BY <1>6, <2>1, <2>4
<1>9. TradeHasInvestment'
  BY <1>5 DEF SeedInv, SeededOnce, TradeHasInvestment, Key
<1>10. RestToCome'
  BY <1>1, <1>5 DEF SeedInv, SeededOnce, RestToCome, Absent
<1>11. line' > 9 => DepositThere'
  BY <1>1, <1>5 DEF SeedInv, SeededOnce, DepositThere
<1> QED BY <1>2, <1>7, <1>8, <1>9, <1>10, <1>11 DEF SeedInv, SeededOnce

LEMMA SeedNext == ASSUME SeedInv, [Next]_vars PROVE SeedInv'
<1>1. CASE UNCHANGED <<db, drawn, line>>
  BY <1>1 DEF SeedInv, SeededOnce, DatabaseOK, KeysUnique, IdsDrawn, RefsByTable, Closed, PostedOnce,
              OneTransaction, OpeningHasEntry, TradeHasInvestment, RestToCome, DepositThere, Absent,
              Transactions, InTable, Named
<1>2. CASE Use
  BY <1>2, RunOnce, EnsureOnce, LinkOnce, SkipOnce, PostOnce, DeleteOnce DEF Use, Seeding
<1> QED BY <1>1, <1>2 DEF Next, StartExport, DumpTable, CheckFresh, Load, vars, seedVars

LEMMA SeedInvInit == Init => SeedInv
BY SeedInitOK DEF Init, SeedInit, SeedInv, SeededOnce, PostedOnce, OneTransaction, OpeningHasEntry,
   TradeHasInvestment, RestToCome, Transactions, InTable

LEMMA SeedInvImplies == SeedInv => SeedNeverRepeats
<1> SUFFICES ASSUME SeedInv, NEW p \in Postings, p.name # "BrokerageFunding"
             PROVE  Times(p.name) <= 1
  BY DEF SeedNeverRepeats
<1>1. PICK i \in 1..28 : p = Plan[i] /\ Plan[i].group # Blank
  <2>1. DOMAIN Plan = 1..28
    BY PlanIs, PlanOfSteps
  <2>2. PICK i \in {j \in DOMAIN Plan : Plan[j].group # Blank} : p = Plan[i]
    BY DEF Postings
  <2> QED BY <2>1, <2>2
<1>2. i \in 13..17 \cup 23..26 /\ i # 23
  BY <1>1, PlanFacts
<1> DEFINE named == {r \in Transactions : r.name = p.name}
<1>3. \A r, x \in named : r = x
  BY <1>1, <1>2 DEF SeedInv, SeededOnce, PostedOnce
<1>4. Times(p.name) = Cardinality(named)
  BY DEF Times, Transactions
<1> HIDE DEF named
<1>5. CASE named = {}
  BY <1>4, <1>5, FS_EmptySet
<1>6. CASE named # {}
  <2>1. PICK r \in named : TRUE
    BY <1>6
  <2>2. named = {r}
    BY <1>3, <2>1
  <2>3. Cardinality({r}) = 1
    BY FS_Singleton
  <2> QED BY <1>4, <2>2, <2>3
<1> QED BY <1>5, <1>6

-----------------------------------------------------------------------------
\* seed_demo_data.py:95, :110 and :149.  However often the command is run and
\* interrupted, between any two of its commits, and whatever postings are
\* deleted meanwhile, no posting but the funding of the brokerage account is
\* in the database twice.
THEOREM SeedPostsOnce == Spec => []SeedNeverRepeats
<1>1. Init => SeedInv
  BY SeedInvInit
<1>2. SeedInv /\ [Next]_vars => SeedInv'
  BY SeedNext
<1>3. SeedInv => SeedNeverRepeats
  BY SeedInvImplies
<1> QED BY <1>1, <1>2, <1>3, PTL DEF Spec
=============================================================================
