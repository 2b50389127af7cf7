----------------------- MODULE InvestmentPostingProofs ----------------------
(***************************************************************************)
(* Proofs about InvestmentPosting, for any number of workers, accounts,    *)
(* forms and ids.                                                          *)
(***************************************************************************)
EXTENDS InvestmentPosting, TLAPS

(***************************************************************************)
(* Arithmetic of one cash entry.                                           *)
(***************************************************************************)
\* Rounding (quantize) takes integers to integers.
LEMMA RoundDivType ==
  ASSUME NEW a \in Int, NEW b \in Nat \ {0}
  PROVE  RoundDiv(a, b) \in Int
<1>1. a \div b \in Int
  OBVIOUS
<1> QED
  BY <1>1 DEF RoundDiv

\* The cash of a form is an integer amount.
LEMMA CashAmountType ==
  ASSUME NEW f \in Forms, NEW h \in Currencies
  PROVE  CashAmount(f, h) \in Int
<1>1. f.gross \in Int /\ f.costs \in Int /\ f.exchange \in Int
  BY FormAssumption DEF FormType
<1>2. RateToAccount(f, h) \in Int
  BY <1>1, PrecisionAssumption DEF RateToAccount
<1>3. NetCashImpact(f) \in Int
  BY <1>1 DEF NetCashImpact
<1>4. NetCashImpact(f) * RateToAccount(f, h) \in Int
  BY <1>2, <1>3
<1> QED
  BY <1>4, RoundDivType, PrecisionAssumption DEF CashAmount

\* A stored row is worth what the form it came from was worth.
LEMMA CashAmountOfRow ==
  ASSUME NEW id, NEW f, NEW h
  PROVE  CashAmount(Row(id, f), h) = CashAmount(f, h)
BY DEF CashAmount, Row, NetCashImpact, RateToAccount

\* A form becomes a row of the history.
LEMMA RowHasType ==
  ASSUME NEW f \in Forms, NEW id \in Ids
  PROVE  Row(id, f) \in RowType
BY FormAssumption DEF FormType, Row, RowType

\* The check of a sale looks at nothing but the rows of its account and
\* security up to its trade date.
LEMMA PermitsIsLocal ==
  ASSUME NEW rows, NEW more, NEW f,
         Trades(rows, f.account, f.security, f.day) = Trades(more, f.account, f.security, f.day)
  PROVE  PermitsPosting(rows, f) <=> PermitsPosting(more, f)
BY DEF PermitsPosting, Covered, HoldingAsOf

-----------------------------------------------------------------------------
(***************************************************************************)
(* The type invariant.                                                     *)
(***************************************************************************)
\* Ending a request keeps the types of the worker-local state and the locks.
LEMMA EndKeepsTypes ==
  ASSUME RequestsOK, NEW w \in Workers, End(w)
  PROVE  RequestsOK'
BY DEF RequestsOK, End, Goto, Inserted, Locked

\* A rolled-back request changes no table.
LEMMA RollbackKeepsTypes ==
  ASSUME TypeOK, NEW w \in Workers, Rollback(w)
  PROVE  TypeOK'
<1>1. End(w) /\ UNCHANGED <<acctCurrency, nextId, transactions, details, entries>>
  BY DEF Rollback, tables
<1>2. RequestsOK'
  BY <1>1, EndKeepsTypes DEF TypeOK
<1>3. TablesOK'
  BY <1>1 DEF TypeOK, TablesOK
<1> QED
  BY <1>2, <1>3 DEF TypeOK

\* TypeOK is inductive: the step of every action.
LEMMA TypeStep ==
  ASSUME TypeOK, [Next]_vars
  PROVE  TypeOK'
<1> USE DEF Locked, Inserted, TablesOK, RequestsOK
<1>1. ASSUME NEW w \in Workers, NEW f \in Forms, Submit(w, f)
      PROVE  TypeOK'
  <2>1. f.account \in Accounts
    BY FormAssumption DEF FormType
  <2> QED
    BY <1>1, <2>1, NoFormAssumption DEF TypeOK, Submit, Goto, tables
<1>2. ASSUME NEW w \in Workers, CleanForm(w)
      PROVE  TypeOK'
  <2>1. CASE Rollback(w)
    BY <2>1, RollbackKeepsTypes
  <2>2. CASE ~Rollback(w)
    BY <1>2, <2>2 DEF TypeOK, CleanForm, Goto, tables
  <2> QED
    BY <2>1, <2>2
<1>3. ASSUME NEW w \in Workers, LockAccount(w)
      PROVE  TypeOK'
  BY <1>3 DEF TypeOK, LockAccount, Goto, tables
<1>4. ASSUME NEW w \in Workers, CheckHolding(w)
      PROVE  TypeOK'
  <2>1. CASE Rollback(w)
    BY <2>1, RollbackKeepsTypes
  <2>2. CASE ~Rollback(w)
    BY <1>4, <2>2 DEF TypeOK, CheckHolding, Goto, tables
  <2> QED
    BY <2>1, <2>2
<1>5. ASSUME NEW w \in Workers, InsertTransaction(w)
      PROVE  TypeOK'
  BY <1>5, IdAssumption DEF TypeOK, InsertTransaction, Goto, tables
<1>6. ASSUME NEW w \in Workers, InsertDetail(w)
      PROVE  TypeOK'
  <2>1. CASE Rollback(w)
    BY <2>1, RollbackKeepsTypes
  <2>2. CASE ~Rollback(w)
    BY <1>6, <2>2 DEF TypeOK, InsertDetail, Goto, tables
  <2> QED
    BY <2>1, <2>2
<1>7. ASSUME NEW w \in Workers, InsertEntry(w)
      PROVE  TypeOK'
  <2>1. CASE Rollback(w)
    BY <2>1, RollbackKeepsTypes
  <2>2. CASE ~Rollback(w)
    BY <1>7, <2>2 DEF TypeOK, InsertEntry, Goto, tables
  <2> QED
    BY <2>1, <2>2
<1>8. ASSUME NEW w \in Workers, Commit(w)
      PROVE  TypeOK'
  <2>1. End(w) /\ UNCHANGED <<acctCurrency, nextId>>
    BY <1>8 DEF Commit
  <2>2. txid[w] \in Ids /\ form[w] \in Forms /\ home[w] \in Currencies
    BY <1>8 DEF Commit, TypeOK
  <2>3. form[w].account \in Accounts
    BY <2>2, FormAssumption DEF FormType
  <2>4. CashAmount(form[w], home[w]) \in Int
    BY <2>2, CashAmountType
  <2>5. transactions' \subseteq Ids /\ details' \subseteq RowType
    BY <1>8, <2>2, RowHasType DEF Commit, TypeOK
  <2>6. entries' \subseteq EntryType
    BY <1>8, <2>2, <2>3, <2>4 DEF Commit, TypeOK, EntryType
  <2>7. RequestsOK'
    BY <2>1, EndKeepsTypes DEF TypeOK
  <2> QED
    BY <2>1, <2>5, <2>6, <2>7 DEF TypeOK, TablesOK
<1>9. ASSUME NEW w \in Workers, Crash(w)
      PROVE  TypeOK'
  BY <1>9, RollbackKeepsTypes DEF Crash
<1>10. ASSUME NEW a \in Accounts, NEW c \in Currencies, EditAccount(a, c)
       PROVE  TypeOK'
  BY <1>10 DEF TypeOK, EditAccount, tables, local
<1>11. CASE OtherPosting
  BY <1>11 DEF TypeOK, OtherPosting, tables, local
<1>12. CASE UNCHANGED vars
  BY <1>12 DEF TypeOK, vars
<1>13. ASSUME NEW w \in Workers, Step(w)
       PROVE  TypeOK'
  BY <1>13, <1>2, <1>3, <1>4, <1>5, <1>6, <1>7, <1>8 DEF Step
<1> QED
  BY <1>1, <1>9, <1>10, <1>11, <1>12, <1>13 DEF Next

LEMMA TypeInit == Init => TypeOK
BY NoFormAssumption DEF Init, TypeOK, TablesOK, RequestsOK, Inserted, Locked

\* The state keeps its types, and a worker has a form exactly while it serves
\* one and an id exactly while its Transaction row is inserted.
THEOREM TypeCorrect == Spec => []TypeOK
<1>1. TypeOK /\ [Next]_vars => TypeOK'
  BY TypeStep
<1> QED
  BY TypeInit, <1>1, PTL DEF Spec

-----------------------------------------------------------------------------
(***************************************************************************)
(* The row lock.                                                           *)
(***************************************************************************)
\* Every way a request can end releases its lock and nobody else's.
LEMMA EndKeepsLocks ==
  ASSUME TypeOK, LockHeldWhilePosting, NEW w \in Workers, End(w)
  PROVE  LockHeldWhilePosting'
BY WorkerAssumption DEF LockHeldWhilePosting, TypeOK, RequestsOK, End, Goto, Locked

\* A statement that moves the worker on inside its transaction, and leaves the
\* lock, keeps it held.
LEMMA MoveKeepsLocks ==
  ASSUME TypeOK, LockHeldWhilePosting, NEW w \in Workers, NEW line,
         pc[w] \in Locked <=> line \in Locked,
         Goto(w, line), UNCHANGED <<lock, form>>
  PROVE  LockHeldWhilePosting'
BY DEF LockHeldWhilePosting, TypeOK, RequestsOK, Goto

LEMMA LockStep ==
  ASSUME TypeOK, LockHeldWhilePosting, [Next]_vars
  PROVE  LockHeldWhilePosting'
<1>1. ASSUME NEW w \in Workers, NEW f \in Forms, Submit(w, f)
      PROVE  LockHeldWhilePosting'
  BY <1>1 DEF Submit, Goto, LockHeldWhilePosting, TypeOK, RequestsOK, Locked
<1>2. ASSUME NEW w \in Workers, Rollback(w)
      PROVE  LockHeldWhilePosting'
  BY <1>2, EndKeepsLocks DEF Rollback
<1>3. ASSUME NEW w \in Workers, CleanForm(w)
      PROVE  LockHeldWhilePosting'
  <2>1. CASE Goto(w, "lock") /\ UNCHANGED <<lock, form>>
    BY <1>3, <2>1, MoveKeepsLocks DEF CleanForm, Locked
  <2> QED
    BY <1>2, <1>3, <2>1 DEF CleanForm
<1>4. ASSUME NEW w \in Workers, LockAccount(w)
      PROVE  LockHeldWhilePosting'
  BY <1>4, WorkerAssumption
     DEF LockAccount, Goto, LockHeldWhilePosting, TypeOK, RequestsOK, Locked
<1>5. ASSUME NEW w \in Workers, CheckHolding(w)
      PROVE  LockHeldWhilePosting'
  <2>1. CASE Goto(w, "transaction") /\ UNCHANGED <<lock, form>>
    BY <1>5, <2>1, MoveKeepsLocks DEF CheckHolding, Locked
  <2> QED
    BY <1>2, <1>5, <2>1 DEF CheckHolding
<1>6. ASSUME NEW w \in Workers, InsertTransaction(w)
      PROVE  LockHeldWhilePosting'
  BY <1>6, MoveKeepsLocks DEF InsertTransaction, Locked
<1>7. ASSUME NEW w \in Workers, InsertDetail(w)
      PROVE  LockHeldWhilePosting'
  <2>1. CASE Goto(w, "entry") /\ UNCHANGED <<lock, form>>
    BY <1>7, <2>1, MoveKeepsLocks DEF InsertDetail, Locked
  <2> QED
    BY <1>2, <1>7, <2>1 DEF InsertDetail
<1>8. ASSUME NEW w \in Workers, InsertEntry(w)
      PROVE  LockHeldWhilePosting'
  <2>1. CASE Goto(w, "commit") /\ UNCHANGED <<lock, form>>
    BY <1>8, <2>1, MoveKeepsLocks DEF InsertEntry, Locked
  <2> QED
    BY <1>2, <1>8, <2>1 DEF InsertEntry
<1>9. ASSUME NEW w \in Workers, Commit(w)
      PROVE  LockHeldWhilePosting'
  BY <1>9, EndKeepsLocks DEF Commit
<1>10. ASSUME UNCHANGED <<lock, pc, form>>
       PROVE  LockHeldWhilePosting'
  BY <1>10 DEF LockHeldWhilePosting
<1>11. ASSUME NEW w \in Workers, Step(w)
       PROVE  LockHeldWhilePosting'
  BY <1>11, <1>3, <1>4, <1>5, <1>6, <1>7, <1>8, <1>9 DEF Step
<1>12. ASSUME NEW a \in Accounts, NEW c \in Currencies, EditAccount(a, c)
       PROVE  LockHeldWhilePosting'
  BY <1>12, <1>10 DEF EditAccount, local
<1>13. CASE OtherPosting
  BY <1>13, <1>10 DEF OtherPosting, local
<1>14. CASE UNCHANGED vars
  BY <1>14, <1>10 DEF vars
<1> QED
  BY <1>1, <1>2, <1>11, <1>12, <1>13, <1>14 DEF Next, Crash

LEMMA LockInit == Init => LockHeldWhilePosting
BY WorkerAssumption DEF Init, LockHeldWhilePosting, Locked

\* The row lock is held exactly by the worker whose transaction is posting to
\* the account, so two postings to one account never overlap.
THEOREM PostingIsSerialized == Spec => []LockHeldWhilePosting
<1>1. TypeOK /\ LockHeldWhilePosting /\ [Next]_vars => (TypeOK /\ LockHeldWhilePosting)'
  BY TypeStep, LockStep
<1> QED
  BY TypeInit, LockInit, <1>1, PTL DEF Spec

-----------------------------------------------------------------------------
(***************************************************************************)
(* Ids.                                                                    *)
(***************************************************************************)
\* No row appears, no id is drawn, and a worker past the insert of its
\* Transaction row either goes on with the same id or ends.
Quiet ==
  /\ transactions' = transactions /\ details' \subseteq details
  /\ nextId' \in Nat /\ nextId <= nextId'
  /\ \A v \in Workers :
       /\ txid'[v] \in {txid[v], 0}
       /\ pc'[v] \in Inserted =>
            pc[v] \in Inserted /\ txid'[v] = txid[v] /\ form'[v] = form[v]

LEMMA RollbackIsQuiet ==
  ASSUME TypeOK, NEW w \in Workers, Rollback(w)
  PROVE  Quiet
BY DEF Quiet, Rollback, End, Goto, tables, TypeOK, TablesOK, RequestsOK, Inserted

\* Every step is quiet except drawing an id and committing.
LEMMA QuietSteps ==
  ASSUME TypeOK, [Next]_vars,
         \A w \in Workers : ~InsertTransaction(w) /\ ~Commit(w)
  PROVE  Quiet
<1> USE DEF TypeOK, TablesOK, RequestsOK, Inserted
<1>1. ASSUME NEW w \in Workers, NEW f \in Forms, Submit(w, f)
      PROVE  Quiet
  BY <1>1 DEF Submit, Goto, Quiet, tables
<1>2. ASSUME NEW w \in Workers, NEW line, Goto(w, line),
             line \in Inserted => pc[w] \in Inserted,
             UNCHANGED <<transactions, details, nextId, form, txid>>
      PROVE  Quiet
  BY <1>2 DEF Goto, Quiet
<1>3. ASSUME NEW w \in Workers, CleanForm(w)
      PROVE  Quiet
  <2>1. CASE ~Rollback(w)
    BY <1>2, <1>3, <2>1 DEF CleanForm, tables
  <2> QED
    BY <2>1, RollbackIsQuiet
<1>4. ASSUME NEW w \in Workers, LockAccount(w)
      PROVE  Quiet
  BY <1>2, <1>4 DEF LockAccount, tables
<1>5. ASSUME NEW w \in Workers, CheckHolding(w)
      PROVE  Quiet
  <2>1. CASE ~Rollback(w)
    BY <1>2, <1>5, <2>1 DEF CheckHolding, tables
  <2> QED
    BY <2>1, RollbackIsQuiet
<1>6. ASSUME NEW w \in Workers, InsertDetail(w)
      PROVE  Quiet
  <2>1. CASE ~Rollback(w)
    BY <1>2, <1>6, <2>1 DEF InsertDetail, tables
  <2> QED
    BY <2>1, RollbackIsQuiet
<1>7. ASSUME NEW w \in Workers, InsertEntry(w)
      PROVE  Quiet
  <2>1. CASE ~Rollback(w)
    BY <1>2, <1>7, <2>1 DEF InsertEntry, tables
  <2> QED
    BY <2>1, RollbackIsQuiet
<1>8. ASSUME NEW a \in Accounts, NEW c \in Currencies, EditAccount(a, c)
      PROVE  Quiet
  BY <1>8 DEF EditAccount, Quiet, tables, local
<1>9. CASE OtherPosting
  BY <1>9 DEF OtherPosting, Quiet, tables, local
<1>10. CASE UNCHANGED vars
  BY <1>10 DEF vars, Quiet
<1>11. ASSUME NEW w \in Workers, Step(w)
       PROVE  Quiet
  BY <1>11, <1>3, <1>4, <1>5, <1>6, <1>7 DEF Step
<1> QED
  BY <1>1, <1>8, <1>9, <1>10, <1>11, RollbackIsQuiet DEF Next, Crash

LEMMA DrawnIdsAreNumbers ==
  ASSUME TypeOK
  PROVE  \A v \in Workers : txid[v] \in Nat
<1>1. Ids \cup {0} \subseteq Nat
  BY IdAssumption
<1>2. txid \in [Workers -> Ids \cup {0}]
  BY DEF TypeOK, RequestsOK
<1>3. txid \in [Workers -> Nat]
  BY <1>1, <1>2, Zenon
<1> QED
  BY <1>3

LEMMA IdsStep ==
  ASSUME TypeOK, LockHeldWhilePosting, IdsDrawn, IdsInCommitOrder, [Next]_vars
  PROVE  IdsDrawn' /\ IdsInCommitOrder'
<1>1. ASSUME Quiet
      PROVE  IdsDrawn' /\ IdsInCommitOrder'
  <2>1. ASSUME NEW v \in Workers, pc'[v] \in Inserted
        PROVE  txid'[v] < nextId'
    <3>1. txid'[v] = txid[v] /\ pc[v] \in Inserted
      BY <1>1, <2>1 DEF Quiet
    <3>2. txid[v] \in Nat /\ txid[v] < nextId
      BY <3>1, IdAssumption DEF IdsDrawn, TypeOK, RequestsOK
    <3> QED
      BY <1>1, <3>1, <3>2 DEF Quiet, TypeOK, TablesOK
  <2>2. \A i \in transactions' : i < nextId'
    BY <1>1, IdAssumption DEF Quiet, IdsDrawn, TypeOK, TablesOK
  <2>3. \A t \in details' : t.id \in transactions'
    BY <1>1 DEF Quiet, IdsDrawn
  <2>4. ASSUME NEW v \in Workers, pc'[v] \in Inserted
        PROVE  /\ \A t \in details' : t.account = form'[v].account => t.id < txid'[v]
               /\ \A u \in Workers \ {v} : txid'[u] # txid'[v]
               /\ txid'[v] \notin transactions'
    <3>1. txid'[v] = txid[v] /\ form'[v] = form[v] /\ pc[v] \in Inserted
      BY <1>1, <2>4 DEF Quiet
    <3>2. txid[v] # 0
      BY <3>1 DEF TypeOK, RequestsOK
    <3> QED
      BY <1>1, <3>1, <3>2 DEF Quiet, IdsInCommitOrder
  <2> QED
    BY <2>1, <2>2, <2>3, <2>4 DEF IdsDrawn, IdsInCommitOrder
<1>2. ASSUME NEW w \in Workers, InsertTransaction(w)
      PROVE  IdsDrawn' /\ IdsInCommitOrder'
  <2>1. /\ txid' = [txid EXCEPT ![w] = nextId] /\ nextId' = nextId + 1
        /\ pc' = [pc EXCEPT ![w] = "detail"]
        /\ UNCHANGED <<transactions, details, form>>
    BY <1>2 DEF InsertTransaction, Goto, tables
  <2>2. \A v \in Workers \ {w} : pc'[v] = pc[v] /\ txid'[v] = txid[v]
    BY <2>1 DEF TypeOK, RequestsOK
  <2>3. txid'[w] = nextId
    BY <2>1 DEF TypeOK, RequestsOK
  <2>4. ASSUME NEW v \in Workers \ {w}
        PROVE  txid[v] < nextId
    <3>1. pc[v] \in Inserted \/ txid[v] = 0
      BY DEF TypeOK, RequestsOK
    <3> QED
      BY <3>1 DEF IdsDrawn, TypeOK, TablesOK
  <2>5. IdsDrawn'
    <3>1. nextId \in Nat
      BY DEF TypeOK, TablesOK
    <3>2. \A v \in Workers \ {w} : txid'[v] \in Nat
      BY <2>2, DrawnIdsAreNumbers
    <3>3. ASSUME NEW v \in Workers, pc'[v] \in Inserted
          PROVE  txid'[v] < nextId'
      <4>1. CASE v = w
        BY <2>1, <2>3, <3>1, <4>1
      <4>2. CASE v # w
        <5>1. txid'[v] < nextId
          BY <2>2, <2>4, <4>2
        <5> QED
          BY <2>1, <3>1, <3>2, <4>2, <5>1
      <4> QED
        BY <4>1, <4>2
    <3>4. \A i \in transactions' : i < nextId'
      BY <2>1, <3>1, IdAssumption DEF IdsDrawn, TypeOK, TablesOK
    <3>5. \A t \in details' : t.id \in transactions'
      BY <2>1 DEF IdsDrawn
    <3> QED
      BY <3>3, <3>4, <3>5 DEF IdsDrawn
  <2>6. \A t \in details : t.id < nextId
    BY DEF IdsDrawn
  <2>7. nextId \notin transactions
    BY DEF IdsDrawn, TypeOK, TablesOK
  <2>8. \A v \in Workers \ {w} : txid[v] # nextId
    BY <2>4, IdAssumption DEF TypeOK, TablesOK, RequestsOK
  <2> QED
    BY <2>1, <2>2, <2>3, <2>5, <2>6, <2>7, <2>8 DEF IdsInCommitOrder
<1>3. ASSUME NEW w \in Workers, Commit(w)
      PROVE  IdsDrawn' /\ IdsInCommitOrder'
  <2>1. /\ pc[w] = "commit" /\ nextId' = nextId
        /\ transactions' = transactions \cup {txid[w]}
        /\ details' = details \cup {Row(txid[w], form[w])}
    BY <1>3 DEF Commit
  <2>2. /\ pc'[w] = "idle" /\ txid'[w] = 0
        /\ \A v \in Workers \ {w} : pc'[v] = pc[v] /\ txid'[v] = txid[v] /\ form'[v] = form[v]
    BY <1>3 DEF Commit, End, Goto, TypeOK, RequestsOK
  <2>3. Row(txid[w], form[w]).id = txid[w] /\ Row(txid[w], form[w]).account = form[w].account
    BY DEF Row
  <2>4. IdsDrawn'
    BY <2>1, <2>2, <2>3 DEF IdsDrawn, Inserted
  <2>5. ASSUME NEW v \in Workers, pc'[v] \in Inserted
        PROVE  /\ \A t \in details' : t.account = form'[v].account => t.id < txid'[v]
               /\ \A u \in Workers \ {v} : txid'[u] # txid'[v]
               /\ txid'[v] \notin transactions'
    <3>1. v # w /\ pc[v] \in Inserted /\ txid'[v] = txid[v] /\ form'[v] = form[v]
      BY <2>2, <2>5 DEF Inserted
    <3>2. form[v].account # form[w].account
      \* both are past their lock, and one account's row has one holder
      <4>1. form[w].account \in Accounts
        BY <2>1, FormAssumption DEF TypeOK, RequestsOK, FormType
      <4>2. lock[form[w].account] = w
        BY <2>1, <4>1 DEF LockHeldWhilePosting, Locked
      <4>3. form[v].account = form[w].account => lock[form[w].account] = v
        BY <3>1, <4>1 DEF LockHeldWhilePosting, Locked, Inserted
      <4> QED
        BY <3>1, <4>2, <4>3
    <3>3. txid[v] # 0
      BY <3>1 DEF TypeOK, RequestsOK
    <3>4. txid[w] # txid[v]
      BY <3>1 DEF IdsInCommitOrder
    <3>5. \A u \in Workers \ {v} : txid'[u] # txid'[v]
      BY <2>2, <3>1, <3>3 DEF IdsInCommitOrder
    <3> QED
      BY <2>1, <2>3, <3>1, <3>2, <3>4, <3>5 DEF IdsInCommitOrder
  <2> QED
    BY <2>4, <2>5 DEF IdsInCommitOrder
<1> QED
  BY <1>1, <1>2, <1>3, QuietSteps

\* The (trade date, id) order of the replays agrees, within an account and a
\* day, with the order in which rows were checked and committed.
THEOREM IdsFollowCommitOrder == Spec => []IdsInCommitOrder
<1> DEFINE J == TypeOK /\ LockHeldWhilePosting /\ IdsDrawn /\ IdsInCommitOrder
<1>1. Init => J
  BY TypeInit, LockInit DEF Init, IdsDrawn, IdsInCommitOrder, Inserted
<1>2. J /\ [Next]_vars => J'
  BY TypeStep, LockStep, IdsStep
<1> QED
  BY <1>1, <1>2, PTL DEF Spec

-----------------------------------------------------------------------------
(***************************************************************************)
(* Details and their cash entries.                                         *)
(***************************************************************************)
\* Only a commit changes a table.
LEMMA TablesOnlyCommit ==
  ASSUME [Next]_vars, \A w \in Workers : ~Commit(w)
  PROVE  transactions' = transactions /\ entries' = entries /\ details' = details
<1>1. ASSUME NEW w \in Workers, Rollback(w)
      PROVE  UNCHANGED tables
  BY <1>1 DEF Rollback
<1>2. ASSUME NEW w \in Workers, Step(w)
      PROVE  UNCHANGED tables
  BY <1>1, <1>2
     DEF Step, CleanForm, LockAccount, CheckHolding, InsertTransaction, InsertDetail, InsertEntry
<1>3. ASSUME NEW w \in Workers, NEW f \in Forms, Submit(w, f)
      PROVE  UNCHANGED tables
  BY <1>3 DEF Submit
<1>4. ASSUME NEW a \in Accounts, NEW c \in Currencies, EditAccount(a, c)
      PROVE  UNCHANGED tables
  BY <1>4 DEF EditAccount
<1>5. CASE OtherPosting
  BY <1>5 DEF OtherPosting, tables
<1>6. CASE UNCHANGED vars
  BY <1>6 DEF vars
<1> QED
  BY <1>1, <1>2, <1>3, <1>4, <1>5, <1>6 DEF Next, Crash, tables

\* A worker is at its commit because it was, or because its cash is not zero.
LEMMA CashStep ==
  ASSUME TypeOK, CashBeforeCommit, [Next]_vars
  PROVE  CashBeforeCommit'
<1> USE DEF TypeOK, RequestsOK
<1>1. ASSUME \A v \in Workers : pc'[v] = "commit" =>
               pc[v] = "commit" /\ form'[v] = form[v] /\ home'[v] = home[v]
      PROVE  CashBeforeCommit'
  BY <1>1 DEF CashBeforeCommit
<1>2. ASSUME NEW w \in Workers, End(w)
      PROVE  CashBeforeCommit'
  BY <1>1, <1>2 DEF End, Goto
<1>3. ASSUME NEW w \in Workers, NEW line, line # "commit", Goto(w, line),
             UNCHANGED <<form, home>>
      PROVE  CashBeforeCommit'
  BY <1>1, <1>3 DEF Goto
<1>4. ASSUME NEW w \in Workers, NEW f \in Forms, Submit(w, f)
      PROVE  CashBeforeCommit'
  BY <1>1, <1>4 DEF Submit, Goto
<1>5. ASSUME NEW w \in Workers, InsertEntry(w)
      PROVE  CashBeforeCommit'
  BY <1>2, <1>5 DEF InsertEntry, Rollback, Goto, CashBeforeCommit
<1>6. ASSUME NEW w \in Workers, Step(w)
      PROVE  CashBeforeCommit'
  <2>1. CASE CleanForm(w)
    BY <1>2, <1>3, <2>1 DEF CleanForm, Rollback
  <2>2. CASE LockAccount(w)
    BY <1>3, <2>2 DEF LockAccount
  <2>3. CASE CheckHolding(w)
    BY <1>2, <1>3, <2>3 DEF CheckHolding, Rollback
  <2>4. CASE InsertTransaction(w)
    BY <1>3, <2>4 DEF InsertTransaction
  <2>5. CASE InsertDetail(w)
    BY <1>2, <1>3, <2>5 DEF InsertDetail, Rollback
  <2>6. CASE Commit(w)
    BY <1>2, <2>6 DEF Commit
  <2> QED
    BY <1>5, <1>6, <2>1, <2>2, <2>3, <2>4, <2>5, <2>6 DEF Step
<1>7. ASSUME UNCHANGED local
      PROVE  CashBeforeCommit'
  BY <1>1, <1>7 DEF local
<1> QED
  BY <1>2, <1>4, <1>6, <1>7
     DEF Next, Crash, Rollback, EditAccount, OtherPosting, vars, local

LEMMA EntryStep ==
  ASSUME IInv, [Next]_vars
  PROVE  OneEntryPerDetail'
<1>1. CASE \A w \in Workers : ~Commit(w)
  BY <1>1, TablesOnlyCommit DEF IInv, OneEntryPerDetail
<1>2. ASSUME NEW w \in Workers, Commit(w)
      PROVE  OneEntryPerDetail'
  <2> DEFINE d == Row(txid[w], form[w])
             e == [id |-> txid[w], account |-> form[w].account,
                   amount |-> CashAmount(form[w], home[w]), currency |-> home[w]]
  <2>1. /\ pc[w] = "commit" /\ transactions' = transactions \cup {txid[w]}
        /\ details' = details \cup {d} /\ entries' = entries \cup {e}
    BY <1>2 DEF Commit
  <2>2. txid[w] \notin transactions
    BY <2>1 DEF IInv, IdsInCommitOrder, Inserted
  <2>3. e.amount # 0
    BY <2>1 DEF IInv, CashBeforeCommit
  <2>4. e.id = d.id /\ e.account = d.account /\ e.amount = CashAmount(d, e.currency)
    BY CashAmountOfRow DEF Row
  <2>5. transactions' = {x.id : x \in entries'}
    <3>1. e.id = txid[w] /\ transactions = {x.id : x \in entries}
      BY DEF IInv, OneEntryPerDetail
    <3> HIDE DEF e
    <3> QED
      BY <2>1, <3>1
  <2>6. \A x, y \in entries' : x.id = y.id => x = y
    <3>1. \A x \in entries : x.id # e.id
      BY <2>2 DEF IInv, OneEntryPerDetail
    <3>2. \A x, y \in entries : x.id = y.id => x = y
      BY DEF IInv, OneEntryPerDetail
    <3> HIDE DEF e
    <3> QED
      BY <2>1, <3>1, <3>2
  <2>7. \A t \in details' : \E x \in entries' :
           /\ x.id = t.id /\ x.account = t.account
           /\ x.amount = CashAmount(t, x.currency) /\ x.amount # 0
    <3>1. \A t \in details : \E x \in entries :
             /\ x.id = t.id /\ x.account = t.account
             /\ x.amount = CashAmount(t, x.currency) /\ x.amount # 0
      BY DEF IInv, OneEntryPerDetail
    <3> HIDE DEF d, e
    <3> QED
      BY <2>1, <2>3, <2>4, <3>1, Zenon
  <2>8. \A x \in entries' : \E t \in details' : t.id = x.id
    <3>1. \A x \in entries : \E t \in details : t.id = x.id
      BY DEF IInv, OneEntryPerDetail
    <3> HIDE DEF d, e
    <3> QED
      BY <2>1, <2>4, <3>1
  <2> QED
    BY <2>5, <2>6, <2>7, <2>8 DEF OneEntryPerDetail
<1> QED
  BY <1>1, <1>2

LEMMA Inductive == Spec => []IInv
<1>1. Init => IInv
  BY TypeInit, LockInit
     DEF Init, IInv, IdsDrawn, IdsInCommitOrder, CashBeforeCommit, OneEntryPerDetail, Inserted
<1>2. IInv /\ [Next]_vars => IInv'
  <2> SUFFICES ASSUME IInv, [Next]_vars PROVE IInv'
    OBVIOUS
  <2>1. TypeOK' /\ LockHeldWhilePosting'
    BY TypeStep, LockStep DEF IInv
  <2>2. IdsDrawn' /\ IdsInCommitOrder'
    BY IdsStep DEF IInv
  <2>3. CashBeforeCommit' /\ OneEntryPerDetail'
    BY CashStep, EntryStep DEF IInv
  <2> QED
    BY <2>1, <2>2, <2>3 DEF IInv
<1> QED
  BY <1>1, <1>2, PTL DEF Spec

\* Every investment row has exactly one cash entry, on its own account, of its
\* net cash at its rate and never zero, however the posting was interrupted.
THEOREM CashMatchesDetails == Spec => []OneEntryPerDetail
<1>1. IInv => OneEntryPerDetail
  BY DEF IInv
<1> QED
  BY Inductive, <1>1, PTL

-----------------------------------------------------------------------------
(***************************************************************************)
(* The check of a sale, and atomicity.                                     *)
(***************************************************************************)
\* Who reaches the lines after the check either was there or has just passed it.
LEMMA CheckedBefore ==
  ASSUME TypeOK, [Next]_vars, NEW v \in Workers, pc'[v] \in Checked
  PROVE  /\ form'[v] = form[v]
         /\ pc[v] \in Checked \/ (pc[v] = "check" /\ PermitsPosting(details, form[v]))
<1> USE DEF Checked, Locked
<1> DEFINE Claim ==
      /\ form'[v] = form[v]
      /\ pc[v] \in Checked \/ (pc[v] = "check" /\ PermitsPosting(details, form[v]))
<1>1. ASSUME NEW w \in Workers, End(w)
      PROVE  Claim
  BY <1>1 DEF End, Goto, TypeOK, RequestsOK
<1>2. ASSUME NEW w \in Workers, NEW line, Goto(w, line), form' = form,
             line \in Checked => pc[w] \in Checked
      PROVE  Claim
  BY <1>2 DEF Goto, TypeOK, RequestsOK
<1>3. ASSUME NEW w \in Workers, NEW f \in Forms, Submit(w, f)
      PROVE  Claim
  BY <1>3 DEF Submit, Goto, TypeOK, RequestsOK
<1>4. ASSUME NEW w \in Workers, CheckHolding(w)
      PROVE  Claim
  BY <1>1, <1>4 DEF CheckHolding, Rollback, Goto, TypeOK, RequestsOK
<1>5. ASSUME NEW w \in Workers, Step(w)
      PROVE  Claim
  <2>1. CASE CleanForm(w)
    BY <1>1, <1>2, <2>1 DEF CleanForm, Rollback
  <2>2. CASE LockAccount(w)
    BY <1>2, <2>2 DEF LockAccount
  <2>3. CASE InsertTransaction(w)
    BY <1>2, <2>3 DEF InsertTransaction
  <2>4. CASE InsertDetail(w)
    BY <1>1, <1>2, <2>4 DEF InsertDetail, Rollback
  <2>5. CASE InsertEntry(w)
    BY <1>1, <1>2, <2>5 DEF InsertEntry, Rollback
  <2>6. CASE Commit(w)
    BY <1>1, <2>6 DEF Commit
  <2> QED
    BY <1>4, <1>5, <2>1, <2>2, <2>3, <2>4, <2>5, <2>6 DEF Step
<1>6. ASSUME UNCHANGED local
      PROVE  Claim
  BY <1>6 DEF local
<1> QED
  BY <1>1, <1>3, <1>5, <1>6
     DEF Next, Crash, Rollback, EditAccount, OtherPosting, vars, local

\* A commit adds nothing to what another worker's check looked at.
LEMMA CommitElsewhere ==
  ASSUME TypeOK, LockHeldWhilePosting, NEW w \in Workers, Commit(w),
         NEW v \in Workers \ {w}, pc[v] \in Locked
  PROVE  PermitsPosting(details', form[v]) <=> PermitsPosting(details, form[v])
<1>1. form[w].account \in Accounts
  BY FormAssumption DEF Commit, TypeOK, RequestsOK, FormType
<1>2. form[v].account # form[w].account
  BY <1>1 DEF LockHeldWhilePosting, Commit, Locked
<1>3. details' = details \cup {Row(txid[w], form[w])}
  BY DEF Commit
<1>4. Row(txid[w], form[w]).account = form[w].account
  BY DEF Row
<1>5. Trades(details', form[v].account, form[v].security, form[v].day)
        = Trades(details, form[v].account, form[v].security, form[v].day)
  BY <1>2, <1>3, <1>4 DEF Trades
<1> QED
  BY <1>5, PermitsIsLocal

LEMMA CheckStep ==
  ASSUME TypeOK, LockHeldWhilePosting, CheckNeverStale, [Next]_vars
  PROVE  CheckNeverStale'
<1> SUFFICES ASSUME NEW v \in Workers, pc'[v] \in Checked
             PROVE  PermitsPosting(details', form'[v])
  BY DEF CheckNeverStale
<1>1. form'[v] = form[v] /\ pc[v] \in Locked /\ PermitsPosting(details, form[v])
  BY CheckedBefore DEF CheckNeverStale, Checked, Locked
<1>2. CASE \A w \in Workers : ~Commit(w)
  BY <1>1, <1>2, TablesOnlyCommit
<1>3. ASSUME NEW w \in Workers, Commit(w)
      PROVE  PermitsPosting(details', form'[v])
  <2>1. v # w
    BY <1>3 DEF Commit, End, Goto, TypeOK, RequestsOK, Checked, Locked
  <2> QED
    BY <1>1, <1>3, <2>1, CommitElsewhere
<1> QED
  BY <1>2, <1>3

\* The comment at services/transactions.py:54 holds: two concurrent sales are
\* never both validated against the same pre-sale quantity.
THEOREM ChecksStayValid == Spec => []CheckNeverStale
<1>1. Init => CheckNeverStale
  BY DEF Init, CheckNeverStale, Checked, Locked
<1>2. IInv /\ CheckNeverStale /\ [Next]_vars => CheckNeverStale'
  BY CheckStep DEF IInv
<1> QED
  BY <1>1, <1>2, Inductive, PTL DEF Spec

\* Every step of the statement-level program is one posting of the abstract
\* brokerage, or changes no row.
LEMMA StepRefines ==
  ASSUME IInv, CheckNeverStale, [Next]_vars
  PROVE  [B!Next]_details
<1>1. CASE \A w \in Workers : ~Commit(w)
  BY <1>1, TablesOnlyCommit
<1>2. ASSUME NEW w \in Workers, Commit(w)
      PROVE  B!Next
  <2>1. pc[w] = "commit" /\ details' = details \cup {Row(txid[w], form[w])}
    BY <1>2 DEF Commit
  <2>2. form[w] \in Forms /\ txid[w] \in Ids
    BY <2>1 DEF IInv, TypeOK, RequestsOK, Inserted
  <2>3. PermitsPosting(details, form[w])
    BY <2>1 DEF CheckNeverStale, Checked, Locked
  <2>4. \A t \in details : t.id # txid[w] /\ (t.account = form[w].account => t.id < txid[w])
    BY <2>1 DEF IInv, IdsInCommitOrder, IdsDrawn, Inserted
  <2>5. B!Row(txid[w], form[w]) = Row(txid[w], form[w])
    BY DEF B!Row, Row
  <2>6. B!Post(form[w], txid[w])
    BY <2>1, <2>3, <2>4, <2>5 DEF B!Post
  <2> QED
    BY <2>2, <2>6 DEF B!Next
<1> QED
  BY <1>1, <1>2

\* Posting an investment transaction is atomic: the requests, statement by
\* statement and with crashes and rollbacks, implement Brokerage.
THEOREM PostingImplementsBrokerage == Spec => PostingIsAtomic
<1>1. Init => B!Init
  BY DEF Init, B!Init
<1>2. IInv /\ CheckNeverStale /\ [Next]_vars => [B!Next]_details
  BY StepRefines
<1> QED
  BY <1>1, <1>2, Inductive, ChecksStayValid, PTL DEF Spec, PostingIsAtomic, B!Spec
=============================================================================
