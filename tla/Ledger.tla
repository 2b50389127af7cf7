------------------------------- MODULE Ledger -------------------------------
(***************************************************************************)
(* The cash ledger (ledger/services.py) under concurrent requests on       *)
(* PostgreSQL at READ COMMITTED.  A posting only inserts, inside one       *)
(* atomic block, so it is one step here; the two deletions read, decide    *)
(* and delete in separate statements and are modelled statement by         *)
(* statement, down to the row locks a DELETE takes in whatever order it    *)
(* scans.  A row deleted by an open transaction stays visible to the       *)
(* others, and locked, until that transaction ends.  Alongside, the        *)
(* account page changes the currency of an account; entries keep the one   *)
(* they were written in.                                                   *)
(***************************************************************************)
EXTENDS Integers, FiniteSets, FiniteSetsExt

CONSTANTS
  Accounts, Currencies, Amounts, Days,
  FirstCurrency, \* currency each account was created in
  Edits,        \* currencies accounts may be given later, as <<account, currency>>
  Workers,
  NoTarget,     \* the worker deletes for no account
  MaxId         \* bound: ids the sequence may hand out

ASSUME LedgerAssumption ==
  /\ Amounts \subseteq Int /\ Days \subseteq Int /\ MaxId \in Nat
  /\ IsFiniteSet(Accounts) /\ FirstCurrency \in [Accounts -> Currencies]
  /\ Edits \subseteq Accounts \X Currencies
  /\ NoTarget \notin Accounts

VARIABLES
  acctCurrency, \* FinancialAccount.currency
  nextId,       \* the ledger_transaction id sequence
  txns,         \* committed Transaction rows [id, kind, day]
  entries,      \* committed TransactionEntry rows [txn, account, amount, currency]
  details,      \* committed investment details [txn, account]
  pc,           \* the deletion each worker runs, and the line it is at
  target,       \* the account of a bulk deletion
  ids,          \* transaction ids the deletion goes for
  goneEntries, goneTxns   \* rows its open transaction has deleted

tables == <<acctCurrency, nextId, txns, entries, details>>
vars == <<acctCurrency, nextId, txns, entries, details, pc, target, ids, goneEntries, goneTxns>>

\* The legs of the abstract book are the rows written here.
Legs(i, account, amount) ==
  {[txn |-> i, account |-> account, amount |-> amount, currency |-> acctCurrency[account]]}

TxnIds == {t.id : t \in txns}
EntriesOf(i) == {e \in entries : e.txn = i}
IsInvestment(i) == \E d \in details : d.txn = i

\* account_balance, over the committed rows dated up to day; it does not look
\* at the currency of an entry.
Balance(a, day) ==
  MapThenSumSet(LAMBDA e : e.amount,
    {e \in entries : e.account = a /\ \E t \in txns : t.id = e.txn /\ t.day <= day})

-----------------------------------------------------------------------------
Init ==
  /\ acctCurrency = FirstCurrency
  /\ nextId = 1
  /\ txns = {} /\ entries = {} /\ details = {}
  /\ pc = [w \in Workers |-> "idle"]
  /\ target = [w \in Workers |-> NoTarget]
  /\ ids = [w \in Workers |-> {}]
  /\ goneEntries = [w \in Workers |-> {}]
  /\ goneTxns = [w \in Workers |-> {}]

\* Postings.  A refused one (zero amount, same account, two currencies)
\* changes nothing.  An account edited after a posting has loaded it and before
\* the insert leaves the rows an edit after the insert leaves.
Insert(kind, day, legs) ==
  /\ nextId <= MaxId
  /\ nextId' = nextId + 1
  /\ txns' = txns \cup {[id |-> nextId, kind |-> kind, day |-> day]}
  /\ entries' = entries \cup legs
  /\ UNCHANGED <<acctCurrency, pc, target, ids, goneEntries, goneTxns>>

CreateDeposit(a, x, day) ==
  /\ x # 0
  /\ Insert("ENTRY", day, Legs(nextId, a, x))
  /\ UNCHANGED details

CreateWithdrawal(a, x, day) ==
  /\ x > 0
  /\ Insert("ENTRY", day, Legs(nextId, a, -x))
  /\ UNCHANGED details

\* Mutant: the currencies are not compared.
CreateTransferAnyCurrency(source, destination, x, day) ==
  /\ x > 0 /\ source # destination
  /\ Insert("TRANSFER", day, Legs(nextId, source, -x) \cup Legs(nextId, destination, x))
  /\ UNCHANGED details

CreateTransfer(source, destination, x, day) ==
  /\ x > 0 /\ source # destination
  /\ acctCurrency[source] = acctCurrency[destination]
  /\ Insert("TRANSFER", day, Legs(nextId, source, -x) \cup Legs(nextId, destination, x))
  /\ UNCHANGED details

\* create_investment_transaction, as InvestmentPosting shows it to be: atomic.
CreateInvestment(a, x, day) ==
  /\ x # 0
  /\ Insert("INVESTMENT", day, Legs(nextId, a, x))
  /\ details' = details \cup {[txn |-> nextId, account |-> a]}

\* AccountUpdateView, by which the user may pick any currency at any time.
EditCurrency(a, c) ==
  /\ acctCurrency' = [acctCurrency EXCEPT ![a] = c]
  /\ UNCHANGED <<nextId, txns, entries, details, pc, target, ids, goneEntries, goneTxns>>

-----------------------------------------------------------------------------
Goto(w, line) == pc' = [pc EXCEPT ![w] = line]

\* Mutant: the ids and deleted rows of the last request leak into the next.
ForgetNothing(w) ==
  /\ Goto(w, "idle")
  /\ UNCHANGED <<target, ids, goneEntries, goneTxns>>

Forget(w) ==
  /\ Goto(w, "idle")
  /\ target' = [target EXCEPT ![w] = NoTarget]
  /\ ids' = [ids EXCEPT ![w] = {}]
  /\ goneEntries' = [goneEntries EXCEPT ![w] = {}]
  /\ goneTxns' = [goneTxns EXCEPT ![w] = {}]

\* Mutant: no atomic block, what was deleted stays deleted.
GiveUpHalfway(w) ==
  /\ Forget(w)
  /\ entries' = entries \ goneEntries[w]
  /\ txns' = {t \in txns : t.id \notin goneTxns[w]}
  /\ UNCHANGED <<acctCurrency, nextId, details>>

\* A refusal, or a rollback: nothing the transaction deleted is deleted.
GiveUp(w) == Forget(w) /\ UNCHANGED tables

\* TransactionDeleteView.get_transaction
DeleteTransaction(w, i) ==
  /\ pc[w] = "idle" /\ i \in TxnIds
  /\ Goto(w, "refuse")
  /\ ids' = [ids EXCEPT ![w] = {i}]
  /\ UNCHANGED <<tables, target, goneEntries, goneTxns>>

RefuseInvestment(w) ==
  /\ pc[w] = "refuse"
  /\ IF \E i \in ids[w] : IsInvestment(i)
     THEN GiveUp(w)
     ELSE /\ Goto(w, "entries")
          /\ UNCHANGED <<tables, target, ids, goneEntries, goneTxns>>

DeleteAccountTransactions(w, a) ==
  /\ pc[w] = "idle"
  /\ Goto(w, "exists")
  /\ target' = [target EXCEPT ![w] = a]
  /\ UNCHANGED <<tables, ids, goneEntries, goneTxns>>

\* account.investment_transactions.exists(), before the transaction opens.
RefuseBrokerage(w) ==
  /\ pc[w] = "exists"
  /\ IF \E d \in details : d.account = target[w]
     THEN GiveUp(w)
     ELSE /\ Goto(w, "list")
          /\ UNCHANGED <<tables, target, ids, goneEntries, goneTxns>>

ListTransactions(w) ==
  /\ pc[w] = "list"
  /\ LET found == {e.txn : e \in {x \in entries : x.account = target[w]}}
     IN  IF found = {}
         THEN GiveUp(w)
         ELSE /\ ids' = [ids EXCEPT ![w] = found]
              /\ Goto(w, "entries")
              /\ UNCHANGED <<tables, target, goneEntries, goneTxns>>

\* Rows a DELETE statement still has to take, and those it can take now.
EntriesToDelete(w) == {e \in entries \ goneEntries[w] : e.txn \in ids[w]}
TxnsToDelete(w) == {i \in ids[w] \ goneTxns[w] : i \in TxnIds}

\* A row somebody else's open transaction has deleted is locked.
EntryFree(w, e) == \A v \in Workers \ {w} : e \notin goneEntries[v]
TxnFree(w, i) == \A v \in Workers \ {w} : i \notin goneTxns[v]

\* Mutant: the entries are deleted outside the atomic block.
DeleteEntryRowAutocommit(w) ==
  /\ pc[w] = "entries"
  /\ \E e \in EntriesToDelete(w) :
       EntryFree(w, e) /\ entries' = entries \ {e}
  /\ UNCHANGED <<acctCurrency, nextId, txns, details, pc, target, ids, goneEntries, goneTxns>>

DeleteEntryRow(w) ==
  /\ pc[w] = "entries"
  /\ \E e \in EntriesToDelete(w) :
       /\ EntryFree(w, e)
       /\ goneEntries' = [goneEntries EXCEPT ![w] = @ \cup {e}]
  /\ UNCHANGED <<tables, pc, target, ids, goneTxns>>

\* The statement is done.  Django's Collector looks for rows that PROTECT the
\* transactions before it deletes them; ProtectedError is not caught.
CollectTransactions(w) ==
  /\ pc[w] = "entries" /\ EntriesToDelete(w) = {}
  /\ IF \E i \in TxnsToDelete(w) : IsInvestment(i) \/ EntriesOf(i) \ goneEntries[w] # {}
     THEN GiveUp(w)
     ELSE /\ Goto(w, "transactions")
          /\ UNCHANGED <<tables, target, ids, goneEntries, goneTxns>>

DeleteTransactionRow(w) ==
  /\ pc[w] = "transactions"
  /\ \E i \in TxnsToDelete(w) :
       /\ TxnFree(w, i)
       /\ goneTxns' = [goneTxns EXCEPT ![w] = @ \cup {i}]
  /\ UNCHANGED <<tables, pc, target, ids, goneEntries>>

CommitDeletion(w) ==
  /\ pc[w] = "transactions" /\ TxnsToDelete(w) = {}
  /\ entries' = entries \ goneEntries[w]
  /\ txns' = {t \in txns : t.id \notin goneTxns[w]}
  /\ Forget(w)
  /\ UNCHANGED <<acctCurrency, nextId, details>>

Crash(w) == pc[w] # "idle" /\ GiveUp(w)

WaitsFor(w, v) ==
  \/ pc[w] = "entries" /\ EntriesToDelete(w) \cap goneEntries[v] # {}
  \/ pc[w] = "transactions" /\ TxnsToDelete(w) \cap goneTxns[v] # {}

\* Mutant: circular waiters wait for ever.
AbortNobody(w) == FALSE

\* PostgreSQL's deadlock detector rolls one of two circular waiters back.
AbortDeadlock(w) ==
  /\ \E v \in Workers \ {w} : WaitsFor(w, v) /\ WaitsFor(v, w)
  /\ GiveUp(w)

Step(w) ==
  \/ RefuseInvestment(w) \/ RefuseBrokerage(w) \/ ListTransactions(w)
  \/ DeleteEntryRow(w) \/ CollectTransactions(w) \/ DeleteTransactionRow(w)
  \/ CommitDeletion(w) \/ AbortDeadlock(w)

Record ==
  \E a \in Accounts, x \in Amounts, day \in Days :
    \/ CreateDeposit(a, x, day)
    \/ CreateWithdrawal(a, x, day)
    \/ CreateInvestment(a, x, day)
    \/ \E b \in Accounts : CreateTransfer(a, b, x, day)

Next ==
  \/ Record
  \/ \E edit \in Edits : EditCurrency(edit[1], edit[2])
  \/ \E w \in Workers :
       \/ Step(w)
       \/ Crash(w)
       \/ \E i \in TxnIds : DeleteTransaction(w, i)
       \/ \E a \in Accounts : DeleteAccountTransactions(w, a)

Spec == Init /\ [][Next]_vars

\* A deletion under way goes on, the database breaks deadlocks, and it grants
\* a row to its waiters in turn.  Nobody has to post, delete or crash.
FairSpec ==
  /\ Spec
  /\ \A w \in Workers :
       WF_vars(Step(w)) /\ SF_vars(DeleteEntryRow(w)) /\ SF_vars(DeleteTransactionRow(w))

-----------------------------------------------------------------------------
\* Types, and which rows an open deletion may have taken.
TypeOK ==
  /\ acctCurrency \in [Accounts -> Currencies]
  /\ nextId \in 1..MaxId + 1
  /\ txns \subseteq [id : 1..MaxId, kind : {"ENTRY", "TRANSFER", "INVESTMENT"}, day : Days]
  /\ entries \subseteq [txn : 1..MaxId, account : Accounts, amount : Int, currency : Currencies]
  /\ details \subseteq [txn : 1..MaxId, account : Accounts]
  /\ pc \in [Workers -> {"idle", "refuse", "exists", "list", "entries", "transactions"}]
  /\ target \in [Workers -> Accounts \cup {NoTarget}]
  /\ ids \in [Workers -> SUBSET (1..MaxId)]
  /\ \A w \in Workers :
       /\ \A e \in goneEntries[w] : e.txn \in ids[w]
       /\ goneTxns[w] \subseteq ids[w]
       /\ pc[w] = "idle" => ids[w] = {} /\ goneEntries[w] = {} /\ goneTxns[w] = {}

\* README.md:14, a transfer is one transaction with two linked entries: two
\* accounts, opposite amounts, whatever was deleted, crashed or deadlocked
\* around it; and every other transaction has its one entry.
TransactionsWhole ==
  /\ \A e \in entries : e.txn \in TxnIds
  /\ \A t \in txns :
       IF t.kind = "TRANSFER"
       THEN \E e, x \in entries :
              /\ EntriesOf(t.id) = {e, x}
              /\ e.account # x.account /\ e.amount = -x.amount /\ e.amount # 0
       ELSE \E e \in entries : EntriesOf(t.id) = {e}

\* At any date, what the entries written in a currency sum to came from
\* outside: a transfer has two legs in one currency that cancel, whatever its
\* accounts are edited to, and deleting from one account never leaves the other
\* account's leg behind.  So do the balances of the accounts in that currency,
\* as long as no edit has parted an account from the currency of its entries.
MoneyOnlyFromOutside ==
  \A c \in Currencies, day \in Days :
    LET written == {e \in entries : e.currency = c /\ \E t \in txns : t.id = e.txn /\ t.day <= day}
        outside == {e \in entries : e.currency = c /\ \E t \in txns :
                      t.id = e.txn /\ t.kind # "TRANSFER" /\ t.day <= day}
        holders == {a \in Accounts : acctCurrency[a] = c}
        supply == MapThenSumSet(LAMBDA e : e.amount, outside)
    IN  /\ MapThenSumSet(LAMBDA e : e.amount, written) = supply
        /\ (\A e \in entries : e.account \in holders <=> e.currency = c)
             => MapThenSumSet(LAMBDA a : Balance(a, day), holders) = supply

Book == INSTANCE LedgerBook WITH
  Ids <- 1..MaxId,
  book <- {[id |-> t.id, kind |-> t.kind, day |-> t.day, legs |-> EntriesOf(t.id)] : t \in txns}

\* ledger/services.py: the committed tables are a book of whole transactions
\* at every moment, and no deletion takes an investment posting out of it.
LedgerIsBook == Book!Spec

\* Every deletion ends: committed, refused or rolled back.
DeletionsEnd == \A w \in Workers : pc[w] # "idle" ~> pc[w] = "idle"
=============================================================================
