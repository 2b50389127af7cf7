-------------------------- MODULE InvestmentPosting -------------------------
(***************************************************************************)
(* Requests that record investment transactions, statement by statement:   *)
(* InvestmentCreateView -> InvestmentTransactionForm.clean ->              *)
(* create_investment_transaction, run by several web workers against one   *)
(* PostgreSQL database at READ COMMITTED.  A statement sees what is        *)
(* committed when it starts; the rows of an open transaction are seen by   *)
(* nobody else and vanish if it rolls back.  Alongside: the account edit   *)
(* page, ledger postings that draw from the same id sequence, and workers  *)
(* that die.                                                               *)
(*                                                                         *)
(* The views and forms only offer the user's own active accounts and       *)
(* active securities and the form computes gross from quantity and price,  *)
(* so Accounts, Securities and Forms hold nothing else.                    *)
(***************************************************************************)
EXTENDS TradeForms, Replay

CONSTANTS
  Workers,        \* gunicorn workers, each serving one request at a time
  NoWorker,       \* nobody holds the lock
  NoForm,         \* the worker serves no request
  MaxId           \* bound: ids the sequence may hand out

ASSUME WorkerAssumption == NoWorker \notin Workers
ASSUME NoFormAssumption == NoForm \notin Forms

VARIABLES
  acctCurrency,   \* FinancialAccount.currency, committed
  nextId,         \* the ledger_transaction id sequence, never rolled back
  transactions,   \* committed Transaction rows of investments, by id
  details,        \* committed InvestmentTransaction rows
  entries,        \* committed TransactionEntry rows of investments
  lock,           \* who holds SELECT ... FOR UPDATE on the account row
  pc, form,       \* the request each worker serves, and the line it is at
  home,           \* currency of the account object the form loaded
  txid            \* id of the Transaction row inserted, 0 before

tables == <<transactions, details, entries>>
local == <<pc, form, home, txid>>
vars == <<acctCurrency, nextId, transactions, details, entries, lock, pc, form, home, txid>>

Waiting == {"clean", "lock", "check", "transaction"}    \* no id drawn yet
Locked == {"check", "transaction", "detail", "entry", "commit"}
Checked == Locked \ {"check"}
Inserted == {"detail", "entry", "commit"}

EntryType == [id : Ids, account : Accounts, amount : Int, currency : Currencies]

RateValid(f, currency) ==
  IF f.currency = currency THEN f.exchange \in {NoRate, RateUnit} ELSE f.exchange # NoRate

SettlementValid(f) == f.settlement = NoDay \/ f.settlement >= f.day

-----------------------------------------------------------------------------
Init ==
  /\ acctCurrency \in [Accounts -> Currencies]
  /\ nextId = 1
  /\ transactions = {} /\ details = {} /\ entries = {}
  /\ lock = [a \in Accounts |-> NoWorker]
  /\ pc = [w \in Workers |-> "idle"]
  /\ form = [w \in Workers |-> NoForm]
  /\ home \in [Workers -> Currencies]
  /\ txid = [w \in Workers |-> 0]

Goto(w, line) == pc' = [pc EXCEPT ![w] = line]

\* Mutant: the worker keeps the id of the request it has finished.
EndKeepingId(w) ==
  /\ Goto(w, "idle")
  /\ form' = [form EXCEPT ![w] = NoForm]
  /\ lock' = [a \in Accounts |-> IF lock[a] = w THEN NoWorker ELSE lock[a]]
  /\ UNCHANGED <<home, txid>>

\* Mutant: a lock that outlives its transaction.
EndKeepingLock(w) ==
  /\ Goto(w, "idle")
  /\ form' = [form EXCEPT ![w] = NoForm]
  /\ txid' = [txid EXCEPT ![w] = 0]
  /\ UNCHANGED <<home, lock>>

\* The request is over; whatever lock its transaction held is released.
End(w) ==
  /\ Goto(w, "idle")
  /\ form' = [form EXCEPT ![w] = NoForm]
  /\ txid' = [txid EXCEPT ![w] = 0]
  /\ lock' = [a \in Accounts |-> IF lock[a] = w THEN NoWorker ELSE lock[a]]
  /\ UNCHANGED home

\* Mutant: no atomic block, the inserted Transaction and entry stay.
RollbackKeepingCash(w) ==
  /\ IF pc[w] = "commit"
     THEN /\ transactions' = transactions \cup {txid[w]}
          /\ entries' = entries \cup
               {[id |-> txid[w], account |-> form[w].account,
                 amount |-> CashAmount(form[w], home[w]), currency |-> home[w]]}
     ELSE UNCHANGED <<transactions, entries>>
  /\ End(w)
  /\ UNCHANGED <<acctCurrency, nextId, details>>

\* The transaction is rolled back; the form is shown again with the error, or
\* an exception becomes a 500 response.
Rollback(w) == End(w) /\ UNCHANGED <<acctCurrency, nextId, tables>>

\* Bound: a request starts only while an id is left for it.
RoomForId == nextId + Cardinality({w \in Workers : pc[w] \in Waiting}) <= MaxId

\* The form loads the account (with its currency) and validates the rate.
Submit(w, f) ==
  /\ pc[w] = "idle" /\ RoomForId
  /\ RateValid(f, acctCurrency[f.account])
  /\ Goto(w, "clean")
  /\ form' = [form EXCEPT ![w] = f]
  /\ home' = [home EXCEPT ![w] = acctCurrency[f.account]]
  /\ UNCHANGED <<acctCurrency, nextId, tables, lock, txid>>

\* The replay of the history a sale is checked against raises TypeError: since
\* its rows were stored the account has got another currency.
ReplayRaises(f) ==
  f.kind = "SELL" /\ Raises(Trades(details, f.account, f.security, f.day), acctCurrency[f.account])

\* The form's own look at the holdings, outside any transaction.
CleanForm(w) ==
  /\ pc[w] = "clean"
  /\ IF PermitsPosting(details, form[w]) /\ ~ReplayRaises(form[w])
     THEN /\ Goto(w, "lock")
          /\ UNCHANGED <<acctCurrency, nextId, tables, lock, form, home, txid>>
     ELSE Rollback(w)

\* Mutant: the account is read without select_for_update.
LockAccountUnlocked(w) ==
  /\ pc[w] = "lock"
  /\ lock' = [lock EXCEPT ![form[w].account] = w]
  /\ Goto(w, "check")
  /\ UNCHANGED <<acctCurrency, nextId, tables, form, home, txid>>

LockAccount(w) ==
  /\ pc[w] = "lock"
  /\ lock[form[w].account] = NoWorker
  /\ lock' = [lock EXCEPT ![form[w].account] = w]
  /\ Goto(w, "check")
  /\ UNCHANGED <<acctCurrency, nextId, tables, form, home, txid>>

\* Mutant: the form's check is trusted.
CheckHoldingSkipped(w) ==
  /\ pc[w] = "check"
  /\ Goto(w, "transaction")
  /\ UNCHANGED <<acctCurrency, nextId, tables, lock, form, home, txid>>

\* calculate_holding_quantity again, now holding the lock; sales only.
CheckHolding(w) ==
  /\ pc[w] = "check"
  /\ IF PermitsPosting(details, form[w]) /\ ~ReplayRaises(form[w])
     THEN /\ Goto(w, "transaction")
          /\ UNCHANGED <<acctCurrency, nextId, tables, lock, form, home, txid>>
     ELSE Rollback(w)

\* Mutant: the id is one more than the highest committed one.
InsertTransactionNextVisible(w) ==
  /\ pc[w] = "transaction"
  /\ txid' = [txid EXCEPT ![w] = 1 + Max({0} \cup transactions)]
  /\ nextId' = nextId + 1
  /\ Goto(w, "detail")
  /\ UNCHANGED <<acctCurrency, tables, lock, form, home>>

InsertTransaction(w) ==
  /\ pc[w] = "transaction"
  /\ nextId \in Ids
  /\ txid' = [txid EXCEPT ![w] = nextId]
  /\ nextId' = nextId + 1
  /\ Goto(w, "detail")
  /\ UNCHANGED <<acctCurrency, tables, lock, form, home>>

\* full_clean, with the account as the form loaded it, then the insert.
InsertDetail(w) ==
  /\ pc[w] = "detail"
  /\ IF SettlementValid(form[w]) /\ RateValid(form[w], home[w])
     THEN /\ Goto(w, "entry")
          /\ UNCHANGED <<acctCurrency, nextId, tables, lock, form, home, txid>>
     ELSE Rollback(w)

InsertEntry(w) ==
  /\ pc[w] = "entry"
  /\ IF CashAmount(form[w], home[w]) # 0
     THEN /\ Goto(w, "commit")
          /\ UNCHANGED <<acctCurrency, nextId, tables, lock, form, home, txid>>
     ELSE Rollback(w)

\* The three inserted rows become visible and the lock is released, at once.
Commit(w) ==
  /\ pc[w] = "commit"
  /\ transactions' = transactions \cup {txid[w]}
  /\ details' = details \cup {Row(txid[w], form[w])}
  /\ entries' = entries \cup
       {[id |-> txid[w], account |-> form[w].account,
         amount |-> CashAmount(form[w], home[w]), currency |-> home[w]]}
  /\ End(w)
  /\ UNCHANGED <<acctCurrency, nextId>>

\* The worker is killed or loses its connection: PostgreSQL rolls back.
Crash(w) == pc[w] # "idle" /\ Rollback(w)

\* AccountUpdateView saves every column; its UPDATE waits for the row lock.
EditAccount(a, currency) ==
  /\ lock[a] = NoWorker /\ acctCurrency[a] # currency
  /\ acctCurrency' = [acctCurrency EXCEPT ![a] = currency]
  /\ UNCHANGED <<nextId, tables, lock, local>>

\* A deposit, transfer or import elsewhere draws the next id.
OtherPosting ==
  /\ RoomForId
  /\ nextId' = nextId + 1
  /\ UNCHANGED <<acctCurrency, tables, lock, local>>

Step(w) ==
  \/ CleanForm(w) \/ LockAccount(w) \/ CheckHolding(w) \/ InsertTransaction(w)
  \/ InsertDetail(w) \/ InsertEntry(w) \/ Commit(w)

Next ==
  \/ \E w \in Workers : Step(w) \/ Crash(w) \/ \E f \in Forms : Submit(w, f)
  \/ \E a \in Accounts, c \in Currencies : EditAccount(a, c)
  \/ OtherPosting

Spec == Init /\ [][Next]_vars

\* A worker goes on with its request, and PostgreSQL grants a row lock to its
\* waiters in turn.  Nobody has to submit, edit or crash.
Fairness == \A w \in Workers : WF_vars(Step(w)) /\ SF_vars(LockAccount(w))

FairSpec == Spec /\ Fairness

-----------------------------------------------------------------------------
\* Types, and which worker-local state goes with which line.
TablesOK ==
  /\ acctCurrency \in [Accounts -> Currencies]
  /\ nextId \in Nat \ {0}
  /\ transactions \subseteq Ids
  /\ details \subseteq RowType
  /\ entries \subseteq EntryType

RequestsOK ==
  /\ lock \in [Accounts -> Workers \cup {NoWorker}]
  /\ pc \in [Workers -> Locked \cup {"idle", "clean", "lock"}]
  /\ form \in [Workers -> Forms \cup {NoForm}]
  /\ home \in [Workers -> Currencies]
  /\ txid \in [Workers -> Ids \cup {0}]
  /\ \A w \in Workers :
       /\ form[w] = NoForm <=> pc[w] = "idle"
       /\ txid[w] # 0 <=> pc[w] \in Inserted

TypeOK == TablesOK /\ RequestsOK

\* "Serialize investment posting per account" (services/transactions.py:54):
\* a worker is between the lock and the end of its transaction exactly while
\* it holds the row lock of its form's account, and of no other account.
LockHeldWhilePosting ==
  \A w \in Workers, a \in Accounts :
    lock[a] = w <=> pc[w] \in Locked /\ form[w].account = a

\* The holdings a sale was checked against are the holdings at every later
\* line up to its commit, whatever commits in between (transactions.py:58).
CheckNeverStale ==
  \A w \in Workers : pc[w] \in Checked => PermitsPosting(details, form[w])

\* An id drawn for an account is above every id committed in that account and
\* nobody else's, so the replays' (date, id) order never reorders two
\* same-day rows against the order they were checked and committed in.
IdsInCommitOrder ==
  \A w \in Workers : pc[w] \in Inserted =>
    /\ \A t \in details : t.account = form[w].account => t.id < txid[w]
    /\ \A v \in Workers \ {w} : txid[v] # txid[w]
    /\ txid[w] \notin transactions

\* One detail, one Transaction and one cash entry per posting, whatever crash,
\* refusal or rollback came between the inserts: the entry is on the same
\* account, not zero, and is the trade's net cash at its rate.
OneEntryPerDetail ==
  /\ transactions = {e.id : e \in entries}
  /\ \A e, x \in entries : e.id = x.id => e = x
  /\ \A d \in details : \E e \in entries :
       /\ e.id = d.id /\ e.account = d.account
       /\ e.amount = CashAmount(d, e.currency) /\ e.amount # 0
  /\ \A e \in entries : \E d \in details : d.id = e.id

\* What the proofs add to the invariants above: ids in use are ids the sequence
\* has passed, and only a posting with cash reaches its commit.
IdsDrawn ==
  /\ \A w \in Workers : pc[w] \in Inserted => txid[w] < nextId
  /\ \A i \in transactions : i < nextId
  /\ \A t \in details : t.id \in transactions

CashBeforeCommit ==
  \A w \in Workers : pc[w] = "commit" => CashAmount(form[w], home[w]) # 0

IInv ==
  /\ TypeOK /\ LockHeldWhilePosting
  /\ IdsDrawn /\ IdsInCommitOrder
  /\ CashBeforeCommit /\ OneEntryPerDetail

\* The promise of Brokerage: postings are atomic, permitted by the history at
\* their commit, and in id order per account.
B == INSTANCE Brokerage WITH posted <- details, Permits <- PermitsPosting

PostingIsAtomic == B!Spec

\* Every request is answered: no posting waits for a lock for ever.
RequestsEnd == \A w \in Workers : pc[w] # "idle" ~> pc[w] = "idle"

\* investments/models.py:173-175, "An exchange rate is required when transaction
\* and account currencies differ.": every purchase and sale stored has the rate
\* its replays multiply by, so no page and no check that reads it raises.
HistoriesReplay ==
  \A a \in Accounts, s \in Securities :
    ~Raises(AllTrades(details, a, s), acctCurrency[a])
=============================================================================
