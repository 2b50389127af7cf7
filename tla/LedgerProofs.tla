---------------------------- MODULE LedgerProofs ----------------------------
(***************************************************************************)
(* Proofs about Ledger, for any accounts, currencies, amounts, workers and *)
(* number of transactions: the committed tables stay a book of whole       *)
(* transactions, whatever deletions overlap, crash or deadlock, and the    *)
(* entries in a currency sum to what came from outside, whatever currency  *)
(* accounts are edited to.                                                 *)
(***************************************************************************)
EXTENDS Ledger, FiniteSetTheorems, WellFoundedInduction, TLAPS

TxnRow == [id : 1..MaxId, kind : {"ENTRY", "TRANSFER", "INVESTMENT"}, day : Days]
EntryRow == [txn : 1..MaxId, account : Accounts, amount : Int, currency : Currencies]
DetailRow == [txn : 1..MaxId, account : Accounts]

\* No two transactions have one id, and every id has been drawn.
IdsDistinct ==
  /\ \A t, u \in txns : t.id = u.id => t = u
  /\ \A t \in txns : t.id < nextId
  /\ \A e \in entries : e.txn < nextId

\* An investment posting keeps the detail row that protects it.
InvestmentsDetailed == \A t \in txns : t.kind = "INVESTMENT" => IsInvestment(t.id)

TablesOK ==
  /\ acctCurrency \in [Accounts -> Currencies]
  /\ nextId \in 1..MaxId + 1
  /\ txns \subseteq TxnRow
  /\ entries \subseteq EntryRow
  /\ details \subseteq DetailRow
  /\ IdsDistinct /\ InvestmentsDetailed /\ TransactionsWhole

RequestsTyped ==
  /\ pc \in [Workers -> {"idle", "refuse", "exists", "list", "entries", "transactions"}]
  /\ target \in [Workers -> Accounts \cup {NoTarget}]
  /\ ids \in [Workers -> SUBSET (1..MaxId)]
  /\ goneEntries \in [Workers -> SUBSET EntryRow]
  /\ goneTxns \in [Workers -> SUBSET (1..MaxId)]

\* A deletion that has reached the transaction rows has taken every entry of
\* them, and none of them is an investment's.
Collected(w) ==
  /\ \A e \in entries : e.txn \in ids[w] => e \in goneEntries[w]
  /\ \A d \in details : d.txn \in ids[w] => d.txn \notin TxnIds

\* A deletion takes rows of its own ids only, which have been drawn before it
\* began, the entries before the transactions.
RequestOK(w) ==
  /\ \A e \in goneEntries[w] : e.txn \in ids[w]
  /\ goneTxns[w] \subseteq ids[w]
  /\ \A i \in ids[w] : i < nextId
  /\ pc[w] = "idle" => ids[w] = {}
  /\ pc[w] \notin {"entries", "transactions"} => goneEntries[w] = {}
  /\ pc[w] # "transactions" => goneTxns[w] = {}
  /\ pc[w] = "transactions" => Collected(w)

\* The inductive invariant.
IInv == TablesOK /\ RequestsTyped /\ \A w \in Workers : RequestOK(w)

LEMMA InvariantTypes == IInv => TypeOK
BY DEF IInv, TablesOK, RequestsTyped, RequestOK, TypeOK, TxnRow, EntryRow, DetailRow

LEMMA InvariantInit == Init => IInv
BY LedgerAssumption DEF Init, IInv, TablesOK, RequestsTyped, RequestOK, IdsDistinct, InvestmentsDetailed,
       TransactionsWhole

-----------------------------------------------------------------------------
(***************************************************************************)
(* The requests of the other workers.                                      *)
(***************************************************************************)
\* What any step does to the tables, seen from a deletion under way: rows go,
\* or come with an id it cannot have listed.
TablesMove ==
  /\ nextId' \in {nextId, nextId + 1}
  /\ \A e \in entries' \ entries : e.txn = nextId
  /\ \A d \in details' \ details : d.txn = nextId
  /\ \A i \in TxnIds' \ TxnIds : i = nextId

\* A worker that does not move itself keeps its part of the invariant.
LEMMA OthersKeepTheirs ==
  ASSUME TablesOK, RequestsTyped, NEW v \in Workers, RequestOK(v), TablesMove,
         pc'[v] = pc[v], ids'[v] = ids[v],
         goneEntries'[v] = goneEntries[v], goneTxns'[v] = goneTxns[v]
  PROVE  RequestOK(v)'
<1>1. nextId \in Int /\ nextId' \in Int /\ nextId <= nextId'
  BY DEF TablesOK, TablesMove
<1>2. pc[v] = "transactions" => Collected(v)'
  <2> SUFFICES ASSUME pc[v] = "transactions"
               PROVE  Collected(v)'
    OBVIOUS
  <2>1. \A i \in ids[v] : i # nextId
    BY <1>1 DEF RequestOK
  <2>2. \A e \in entries' : e.txn \in ids'[v] => e \in goneEntries'[v]
    BY <2>1 DEF RequestOK, Collected, TablesMove
  <2>3. \A d \in details' : d.txn \in ids'[v] => d.txn \notin TxnIds'
    BY <2>1 DEF RequestOK, Collected, TablesMove
  <2> QED
    BY <2>2, <2>3 DEF Collected
<1>3. \A i \in ids'[v] : i < nextId'
  BY <1>1 DEF RequestOK, RequestsTyped
<1> QED
  BY <1>2, <1>3 DEF RequestOK

\* No step of a request, whatever it does to the tables.
RequestsRest == UNCHANGED <<pc, target, ids, goneEntries, goneTxns>>

LEMMA RestingRequests ==
  ASSUME IInv, TablesMove, RequestsRest
  PROVE  RequestsTyped' /\ \A v \in Workers : RequestOK(v)'
<1>1. RequestsTyped'
  BY DEF IInv, RequestsTyped, RequestsRest
<1>2. ASSUME NEW v \in Workers
      PROVE  RequestOK(v)'
  BY OthersKeepTheirs DEF IInv, RequestsRest
<1> QED
  BY <1>1, <1>2

-----------------------------------------------------------------------------
(***************************************************************************)
(* Postings.                                                               *)
(***************************************************************************)
\* What transactions must have, by kind.
WholeLegs(kind, legs) ==
  IF kind = "TRANSFER"
  THEN \E e, x \in legs :
         /\ legs = {e, x}
         /\ e.account # x.account /\ e.amount = -x.amount /\ e.amount # 0
  ELSE \E e \in legs : legs = {e}

LEMMA WholeByKind ==
  TransactionsWhole <=>
    /\ \A e \in entries : e.txn \in TxnIds
    /\ \A t \in txns : WholeLegs(t.kind, EntriesOf(t.id))
BY DEF TransactionsWhole, WholeLegs, EntriesOf

\* What the four postings have in common: one transaction with its own entries
\* and, for an investment, its detail row.
Posted(kind, day, legs) ==
  /\ legs \in SUBSET EntryRow /\ \A e \in legs : e.txn = nextId
  /\ WholeLegs(kind, legs)
  /\ Insert(kind, day, legs)
  /\ details \subseteq details' /\ details' \subseteq DetailRow
  /\ \A d \in details' \ details : d.txn = nextId
  /\ kind = "INVESTMENT" => \E d \in details' : d.txn = nextId

\* A new transaction comes with its own entries and disturbs no other.
LEMMA InsertKeepsTables ==
  ASSUME TablesOK, NEW kind \in {"ENTRY", "TRANSFER", "INVESTMENT"}, NEW day \in Days, NEW legs,
         Posted(kind, day, legs)
  PROVE  TablesOK' /\ TablesMove
<1> DEFINE new == [id |-> nextId, kind |-> kind, day |-> day]
<1> USE DEF Posted
<1>1. nextId \in 1..MaxId /\ nextId' = nextId + 1 /\ nextId' \in 1..MaxId + 1
  BY LedgerAssumption DEF TablesOK, Insert
<1>2. new \in TxnRow /\ txns' = txns \cup {new} /\ entries' = entries \cup legs
  BY <1>1 DEF Insert, TxnRow
<1>3. TxnIds' = TxnIds \cup {nextId}
  BY <1>2 DEF TxnIds
<1>4. txns' \subseteq TxnRow /\ entries' \subseteq EntryRow
  BY <1>2 DEF TablesOK
<1>5. IdsDistinct'
  <2>1. \A t \in txns : t.id < nextId /\ t.id \in Int
    BY DEF TablesOK, IdsDistinct, TxnRow
  <2>2. \A e \in entries : e.txn < nextId /\ e.txn \in Int
    BY DEF TablesOK, IdsDistinct, EntryRow
  <2>3. \A t, u \in txns' : t.id = u.id => t = u
    BY <1>1, <1>2, <2>1 DEF TablesOK, IdsDistinct
  <2>4. (\A t \in txns' : t.id < nextId') /\ \A e \in entries' : e.txn < nextId'
    BY <1>1, <1>2, <2>1, <2>2
  <2> QED
    BY <2>3, <2>4 DEF IdsDistinct
<1>6. InvestmentsDetailed'
  BY <1>2 DEF TablesOK, InvestmentsDetailed, IsInvestment
<1>7. {e \in entries' : e.txn = nextId} = legs
  BY <1>1, <1>2 DEF TablesOK, IdsDistinct, EntryRow
<1>8. \A t \in txns : EntriesOf(t.id)' = EntriesOf(t.id)
  <2>1. \A t \in txns : t.id # nextId
    BY <1>1 DEF TablesOK, IdsDistinct, TxnRow
  <2> QED
    BY <1>2, <2>1 DEF EntriesOf
<1>9. TransactionsWhole'
  <2>1. \A e \in entries' : e.txn \in TxnIds'
    BY <1>2, <1>3 DEF TablesOK, TransactionsWhole
  <2>2. ASSUME NEW t \in txns'
        PROVE  WholeLegs(t.kind, EntriesOf(t.id)')
    <3>1. CASE t \in txns
      BY <1>8, <3>1, WholeByKind DEF TablesOK
    <3>2. CASE t = new
      <4>1. EntriesOf(t.id)' = legs
        BY <1>7, <3>2 DEF EntriesOf
      <4> QED
        BY <3>2, <4>1
    <3> QED
      BY <1>2, <3>1, <3>2
  <2> QED
    BY <2>1, <2>2 DEF TransactionsWhole, WholeLegs, EntriesOf
<1>10. TablesMove
  BY <1>1, <1>2, <1>3 DEF TablesMove
<1>11. acctCurrency' = acctCurrency
  BY DEF Insert
<1> QED
  BY <1>1, <1>4, <1>5, <1>6, <1>9, <1>10, <1>11 DEF TablesOK

\* What LedgerBook lets somebody write under the id i.
Writable(i, kind, legs) ==
  \/ /\ kind = "ENTRY"
     /\ \E a \in Accounts, x \in Book!EntryAmounts, c \in Currencies : legs = {Book!Leg(i, a, x, c)}
  \/ /\ kind = "TRANSFER"
     /\ \E a, b \in Accounts, x \in Amounts, c \in Currencies :
          Book!TransferAllowed(a, b, x) /\ legs = Book!TransferLegs(i, a, b, x, c)
  \/ /\ kind = "INVESTMENT"
     /\ \E a \in Accounts, x \in Amounts \ {0}, c \in Currencies : legs = {Book!Leg(i, a, x, c)}

\* Each of the four postings writes such a transaction.
LEMMA RecordPosts ==
  ASSUME IInv, Record
  PROVE  \E kind \in {"ENTRY", "TRANSFER", "INVESTMENT"}, day \in Days :
           \E legs : Posted(kind, day, legs) /\ Writable(nextId, kind, legs)
<1>1. PICK a \in Accounts, x \in Amounts, day \in Days :
        \/ CreateDeposit(a, x, day)
        \/ CreateWithdrawal(a, x, day)
        \/ CreateInvestment(a, x, day)
        \/ \E b \in Accounts : CreateTransfer(a, b, x, day)
  BY DEF Record
<1>2. /\ x \in Int /\ (nextId <= MaxId => nextId \in 1..MaxId) /\ details \subseteq DetailRow
      /\ \A b \in Accounts : acctCurrency[b] \in Currencies
  BY LedgerAssumption DEF IInv, TablesOK
<1>3. CASE CreateDeposit(a, x, day)
  <2>1. Posted("ENTRY", day, Legs(nextId, a, x))
    BY <1>2, <1>3 DEF CreateDeposit, Insert, Posted, WholeLegs, Legs, EntryRow
  <2>2. Writable(nextId, "ENTRY", Legs(nextId, a, x))
    BY <1>2, <1>3 DEF CreateDeposit, Writable, Legs, Book!EntryAmounts, Book!Leg
  <2> QED
    BY <2>1, <2>2
<1>4. CASE CreateWithdrawal(a, x, day)
  <2>1. Posted("ENTRY", day, Legs(nextId, a, -x))
    BY <1>2, <1>4 DEF CreateWithdrawal, Insert, Posted, WholeLegs, Legs, EntryRow
  <2>2. Writable(nextId, "ENTRY", Legs(nextId, a, -x))
    BY <1>2, <1>4 DEF CreateWithdrawal, Writable, Legs, Book!EntryAmounts, Book!Leg
  <2> QED
    BY <2>1, <2>2
<1>5. CASE CreateInvestment(a, x, day)
  <2>1. Posted("INVESTMENT", day, Legs(nextId, a, x))
    <3>1. WholeLegs("INVESTMENT", Legs(nextId, a, x)) /\ Legs(nextId, a, x) \in SUBSET EntryRow
      BY <1>2, <1>5 DEF CreateInvestment, Insert, WholeLegs, Legs, EntryRow
    <3>2. details' = details \cup {[txn |-> nextId, account |-> a]}
      BY <1>5 DEF CreateInvestment
    <3>3. [txn |-> nextId, account |-> a] \in DetailRow
      BY <1>2, <1>5 DEF CreateInvestment, Insert, DetailRow
    <3> QED
      BY <1>2, <1>5, <3>1, <3>2, <3>3 DEF CreateInvestment, Posted, Legs
  <2>2. Writable(nextId, "INVESTMENT", Legs(nextId, a, x))
    BY <1>2, <1>5 DEF CreateInvestment, Writable, Legs, Book!Leg
  <2> QED
    BY <2>1, <2>2
<1>6. ASSUME NEW b \in Accounts, CreateTransfer(a, b, x, day)
      PROVE  \E legs : Posted("TRANSFER", day, legs) /\ Writable(nextId, "TRANSFER", legs)
  <2> DEFINE out == [txn |-> nextId, account |-> a, amount |-> -x, currency |-> acctCurrency[a]]
             in == [txn |-> nextId, account |-> b, amount |-> x, currency |-> acctCurrency[b]]
  <2>1. nextId \in 1..MaxId /\ out \in EntryRow /\ in \in EntryRow
    BY <1>2, <1>6 DEF CreateTransfer, Insert, EntryRow
  <2>2. WholeLegs("TRANSFER", {out, in})
    <3>1. out.account # in.account /\ out.amount = -in.amount /\ out.amount # 0
      BY <1>2, <1>6 DEF CreateTransfer
    <3> QED
      BY <3>1 DEF WholeLegs
  <2>3. Insert("TRANSFER", day, {out, in})
    <3>1. Legs(nextId, a, -x) \cup Legs(nextId, b, x) = {out, in}
      BY DEF Legs
    <3> QED
      BY <1>6, <3>1 DEF CreateTransfer
  <2>4. Posted("TRANSFER", day, {out, in})
    BY <1>2, <1>6, <2>1, <2>2, <2>3 DEF CreateTransfer, Posted
  <2>5. Writable(nextId, "TRANSFER", {out, in})
    BY <1>2, <1>6 DEF CreateTransfer, Writable, Book!TransferAllowed, Book!TransferLegs, Book!Leg
  <2> QED
    BY <2>4, <2>5
<1> QED
  BY <1>1, <1>3, <1>4, <1>5, <1>6

LEMMA RecordStep ==
  ASSUME IInv, Record
  PROVE  IInv'
<1>1. PICK kind \in {"ENTRY", "TRANSFER", "INVESTMENT"}, day \in Days :
        \E legs : Posted(kind, day, legs)
  BY RecordPosts
<1>2. PICK legs : Posted(kind, day, legs)
  BY <1>1
<1>3. TablesOK' /\ TablesMove
  BY <1>2, InsertKeepsTables DEF IInv
<1>4. RequestsRest
  BY <1>2 DEF Posted, Insert, RequestsRest
<1> QED
  BY <1>3, <1>4, RestingRequests DEF IInv

-----------------------------------------------------------------------------
(***************************************************************************)
(* Deletions.                                                              *)
(***************************************************************************)
\* Everything but worker w's request stays.
OthersRest(w) ==
  /\ pc' = [pc EXCEPT ![w] = pc'[w]] /\ target' = [target EXCEPT ![w] = target'[w]]
  /\ ids' = [ids EXCEPT ![w] = ids'[w]]
  /\ goneEntries' = [goneEntries EXCEPT ![w] = goneEntries'[w]]
  /\ goneTxns' = [goneTxns EXCEPT ![w] = goneTxns'[w]]

\* The step of one worker: it suffices to look at the tables and at it.
LEMMA OneWorkerMoves ==
  ASSUME IInv, NEW w \in Workers, OthersRest(w), TablesOK', TablesMove,
         RequestsTyped', RequestOK(w)'
  PROVE  IInv'
<1>1. ASSUME NEW v \in Workers
      PROVE  RequestOK(v)'
  <2>1. CASE v = w
    BY <2>1
  <2>2. CASE v # w
    <3>1. pc'[v] = pc[v] /\ ids'[v] = ids[v] /\ goneEntries'[v] = goneEntries[v]
          /\ goneTxns'[v] = goneTxns[v]
      BY <2>2 DEF OthersRest, IInv, RequestsTyped
    <3> QED
      BY <3>1, OthersKeepTheirs DEF IInv
  <2> QED
    BY <2>1, <2>2
<1> QED
  BY <1>1 DEF IInv

LEMMA QuietTables ==
  ASSUME TablesOK, UNCHANGED tables
  PROVE  TablesOK' /\ TablesMove
BY DEF TablesOK, TablesMove, tables, IdsDistinct, InvestmentsDetailed, TransactionsWhole,
       TxnIds, EntriesOf, IsInvestment

\* A request that has ended holds nothing.
LEMMA ForgetStep ==
  ASSUME IInv, NEW w \in Workers, Forget(w)
  PROVE  RequestsTyped' /\ RequestOK(w)' /\ OthersRest(w)
BY DEF IInv, RequestsTyped, RequestOK, Forget, Goto, OthersRest

LEMMA GiveUpStep ==
  ASSUME IInv, NEW w \in Workers, GiveUp(w)
  PROVE  IInv'
BY ForgetStep, QuietTables, OneWorkerMoves DEF GiveUp, IInv

\* The steps of a request that change no table.
LEMMA RequestStep ==
  ASSUME IInv, NEW w \in Workers, UNCHANGED tables, OthersRest(w),
         RequestsTyped', RequestOK(w)'
  PROVE  IInv'
BY QuietTables, OneWorkerMoves DEF IInv

\* The steps up to the delete statements: what to delete is chosen from ids
\* that have been drawn.
LEMMA ChoiceStep ==
  ASSUME IInv, NEW w \in Workers,
         \/ RefuseInvestment(w) \/ RefuseBrokerage(w) \/ ListTransactions(w)
         \/ \E i \in TxnIds : DeleteTransaction(w, i)
         \/ \E a \in Accounts : DeleteAccountTransactions(w, a)
  PROVE  IInv'
<1> USE DEF IInv
<1>1. CASE GiveUp(w)
  BY <1>1, GiveUpStep
<1>2. ASSUME NEW i \in TxnIds, DeleteTransaction(w, i)
      PROVE  IInv'
  <2>1. i \in 1..MaxId /\ i < nextId
    BY DEF TablesOK, IdsDistinct, TxnIds, TxnRow
  <2>2. RequestsTyped' /\ OthersRest(w)
    BY <1>2, <2>1 DEF DeleteTransaction, Goto, RequestsTyped, OthersRest
  <2>3. RequestOK(w)'
    BY <1>2, <2>1 DEF DeleteTransaction, Goto, RequestsTyped, RequestOK, tables
  <2> QED
    BY <1>2, <2>2, <2>3, RequestStep DEF DeleteTransaction
<1>3. ASSUME NEW a \in Accounts, DeleteAccountTransactions(w, a)
      PROVE  IInv'
  <2>1. RequestsTyped' /\ OthersRest(w) /\ RequestOK(w)'
    BY <1>3 DEF DeleteAccountTransactions, Goto, RequestsTyped, OthersRest, RequestOK, tables
  <2> QED
    BY <1>3, <2>1, RequestStep DEF DeleteAccountTransactions
<1>4. CASE RefuseInvestment(w) /\ ~GiveUp(w)
  <2>1. RequestsTyped' /\ OthersRest(w) /\ RequestOK(w)'
    BY <1>4 DEF RefuseInvestment, Goto, RequestsTyped, OthersRest, RequestOK, tables
  <2> QED
    BY <1>4, <2>1, RequestStep DEF RefuseInvestment
<1>5. CASE RefuseBrokerage(w) /\ ~GiveUp(w)
  <2>1. RequestsTyped' /\ OthersRest(w) /\ RequestOK(w)'
    BY <1>5 DEF RefuseBrokerage, Goto, RequestsTyped, OthersRest, RequestOK, tables
  <2> QED
    BY <1>5, <2>1, RequestStep DEF RefuseBrokerage
<1>6. CASE ListTransactions(w) /\ ~GiveUp(w)
  <2> DEFINE found == {e.txn : e \in {x \in entries : x.account = target[w]}}
  <2>1. found \in SUBSET (1..MaxId) /\ \A i \in found : i < nextId
    BY DEF TablesOK, IdsDistinct, EntryRow
  <2>2. /\ pc[w] = "list" /\ ids' = [ids EXCEPT ![w] = found] /\ Goto(w, "entries")
        /\ UNCHANGED <<tables, target, goneEntries, goneTxns>>
    BY <1>6 DEF ListTransactions
  <2>3. RequestsTyped' /\ OthersRest(w)
    BY <2>1, <2>2 DEF Goto, RequestsTyped, OthersRest
  <2>4. RequestOK(w)'
    BY <2>1, <2>2 DEF Goto, RequestsTyped, RequestOK, tables
  <2> QED
    BY <2>2, <2>3, <2>4, RequestStep
<1> QED
  BY <1>1, <1>2, <1>3, <1>4, <1>5, <1>6

LEMMA DeleteEntryRowStep ==
  ASSUME IInv, NEW w \in Workers, DeleteEntryRow(w)
  PROVE  IInv'
<1>1. PICK e \in EntriesToDelete(w) : goneEntries' = [goneEntries EXCEPT ![w] = @ \cup {e}]
  BY DEF DeleteEntryRow
<1>2. e \in EntryRow /\ e.txn \in ids[w]
  BY DEF IInv, TablesOK, EntriesToDelete
<1>3. RequestsTyped' /\ OthersRest(w)
  BY <1>1, <1>2 DEF DeleteEntryRow, IInv, RequestsTyped, OthersRest
<1>4. RequestOK(w)'
  BY <1>1, <1>2 DEF DeleteEntryRow, IInv, RequestsTyped, RequestOK, tables
<1> QED
  BY <1>3, <1>4, RequestStep DEF DeleteEntryRow

\* Collecting is where a deletion becomes whole: no entry is left to delete
\* and no investment is among the transactions.
LEMMA CollectTransactionsStep ==
  ASSUME IInv, NEW w \in Workers, CollectTransactions(w)
  PROVE  IInv'
<1>1. CASE GiveUp(w)
  BY <1>1, GiveUpStep
<1>2. CASE ~GiveUp(w)
  <2>1. /\ pc[w] = "entries" /\ Goto(w, "transactions")
        /\ UNCHANGED <<tables, target, ids, goneEntries, goneTxns>>
    BY <1>2 DEF CollectTransactions
  <2>2. EntriesToDelete(w) = {} /\ \A i \in TxnsToDelete(w) : ~IsInvestment(i)
    BY <1>2 DEF CollectTransactions
  <2>3. goneTxns[w] = {}
    BY <2>1 DEF IInv, RequestOK
  <2>4. Collected(w)
    BY <2>2, <2>3 DEF Collected, EntriesToDelete, TxnsToDelete, IsInvestment
  <2>5. Collected(w)'
    BY <2>1, <2>4 DEF Collected, TxnIds, tables
  <2>6. RequestsTyped' /\ OthersRest(w)
    BY <2>1 DEF IInv, Goto, RequestsTyped, OthersRest
  <2>7. RequestOK(w)'
    BY <2>1, <2>5 DEF IInv, Goto, RequestsTyped, RequestOK, tables
  <2> QED
    BY <2>1, <2>6, <2>7, RequestStep
<1> QED
  BY <1>1, <1>2

LEMMA DeleteTransactionRowStep ==
  ASSUME IInv, NEW w \in Workers, DeleteTransactionRow(w)
  PROVE  IInv'
<1>1. PICK i \in TxnsToDelete(w) : goneTxns' = [goneTxns EXCEPT ![w] = @ \cup {i}]
  BY DEF DeleteTransactionRow
<1>2. i \in ids[w]
  BY DEF TxnsToDelete
<1>3. RequestsTyped' /\ OthersRest(w)
  BY <1>1, <1>2 DEF DeleteTransactionRow, IInv, RequestsTyped, OthersRest
<1>4. Collected(w)'
  BY DEF DeleteTransactionRow, IInv, RequestOK, Collected, TxnIds, tables
<1>5. RequestOK(w)'
  BY <1>1, <1>2, <1>4 DEF DeleteTransactionRow, IInv, RequestsTyped, RequestOK, tables
<1> QED
  BY <1>3, <1>5, RequestStep DEF DeleteTransactionRow

\* What a deletion commits: its transactions with all their entries, no others.
LEMMA CommitDeletesWhole ==
  ASSUME IInv, NEW w \in Workers, CommitDeletion(w)
  PROVE  /\ txns' = {t \in txns : t.id \notin ids[w]}
         /\ entries' = {e \in entries : e.txn \notin ids[w]}
         /\ UNCHANGED <<acctCurrency, nextId, details>>
<1>1. Collected(w) /\ TxnsToDelete(w) = {}
  BY DEF CommitDeletion, IInv, RequestOK
<1>2. goneTxns[w] \subseteq ids[w] /\ \A e \in goneEntries[w] : e.txn \in ids[w]
  BY DEF IInv, RequestOK
<1>3. \A t \in txns : t.id \in ids[w] <=> t.id \in goneTxns[w]
  BY <1>1, <1>2 DEF TxnsToDelete, TxnIds
<1>4. \A e \in entries : e.txn \in ids[w] <=> e \in goneEntries[w]
  BY <1>1, <1>2 DEF Collected
<1> QED
  BY <1>3, <1>4 DEF CommitDeletion

LEMMA CommitDeletionStep ==
  ASSUME IInv, NEW w \in Workers, CommitDeletion(w)
  PROVE  IInv'
<1>1. /\ txns' = {t \in txns : t.id \notin ids[w]}
      /\ entries' = {e \in entries : e.txn \notin ids[w]}
      /\ UNCHANGED <<acctCurrency, nextId, details>>
  BY CommitDeletesWhole
<1>2. \A t \in txns' : EntriesOf(t.id)' = EntriesOf(t.id)
  BY <1>1 DEF EntriesOf
<1>3. TransactionsWhole'
  <2>1. \A e \in entries' : e.txn \in TxnIds'
    BY <1>1 DEF IInv, TablesOK, TransactionsWhole, TxnIds
  <2>2. \A t \in txns' : WholeLegs(t.kind, EntriesOf(t.id)')
    BY <1>1, <1>2, WholeByKind DEF IInv, TablesOK
  <2> QED
    BY <2>1, <2>2 DEF TransactionsWhole, WholeLegs, EntriesOf
<1>4. TablesOK' /\ TablesMove
  BY <1>1, <1>3 DEF IInv, TablesOK, IdsDistinct, InvestmentsDetailed, IsInvestment, TablesMove,
                    TxnIds
<1> QED
  BY <1>4, ForgetStep, OneWorkerMoves DEF CommitDeletion

\* The account page writes no entry.
LEMMA EditCurrencyStep ==
  ASSUME IInv, NEW edit \in Edits, EditCurrency(edit[1], edit[2])
  PROVE  IInv'
<1>1. edit[1] \in Accounts /\ edit[2] \in Currencies
  BY LedgerAssumption
<1>2. acctCurrency' \in [Accounts -> Currencies]
  BY <1>1 DEF EditCurrency, IInv, TablesOK
<1>3. TablesOK' /\ TablesMove
  BY <1>2 DEF EditCurrency, IInv, TablesOK, TablesMove, IdsDistinct, InvestmentsDetailed, TransactionsWhole,
              TxnIds, EntriesOf, IsInvestment
<1> QED
  BY <1>3, RestingRequests DEF EditCurrency, RequestsRest, IInv

LEMMA InvariantStep ==
  ASSUME IInv, [Next]_vars
  PROVE  IInv'
<1>1. CASE UNCHANGED vars
  BY <1>1, QuietTables, RestingRequests DEF vars, IInv, tables, RequestsRest
<1>2. CASE Record
  BY <1>2, RecordStep
<1>3. ASSUME NEW w \in Workers, Step(w)
      PROVE  IInv'
  BY <1>3, ChoiceStep, DeleteEntryRowStep, CollectTransactionsStep, DeleteTransactionRowStep,
     CommitDeletionStep, GiveUpStep DEF Step, AbortDeadlock
<1>4. ASSUME NEW w \in Workers, Crash(w)
      PROVE  IInv'
  BY <1>4, GiveUpStep DEF Crash
<1>5. ASSUME NEW w \in Workers,
             \/ \E i \in TxnIds : DeleteTransaction(w, i)
             \/ \E a \in Accounts : DeleteAccountTransactions(w, a)
      PROVE  IInv'
  BY <1>5, ChoiceStep
<1>6. ASSUME NEW edit \in Edits, EditCurrency(edit[1], edit[2])
      PROVE  IInv'
  BY <1>6, EditCurrencyStep
<1> QED
  BY <1>1, <1>2, <1>3, <1>4, <1>5, <1>6 DEF Next

LEMMA Inductive == Spec => []IInv
BY InvariantInit, InvariantStep, PTL DEF Spec

-----------------------------------------------------------------------------
\* Every row is well-formed, and deletions under way take rows of their own
\* transactions only.
THEOREM TypeCorrect == Spec => []TypeOK
BY Inductive, InvariantTypes, PTL

\* services.py, the two atomic blocks and the PROTECT keys: a transaction has
\* all its entries as long as it exists, and none is left when it is gone,
\* whatever deletions overlap it, crash or are rolled back.
THEOREM TransactionsStayWhole == Spec => []TransactionsWhole
<1>1. IInv => TransactionsWhole
  BY DEF IInv, TablesOK
<1> QED
  BY <1>1, Inductive, PTL

-----------------------------------------------------------------------------
(***************************************************************************)
(* Ledger implements LedgerBook.                                           *)
(***************************************************************************)
PageOf(t) == [id |-> t.id, kind |-> t.kind, day |-> t.day, legs |-> EntriesOf(t.id)]

Pages == {PageOf(t) : t \in txns}

LEMMA RecordRefines ==
  ASSUME IInv, Record
  PROVE  Book!WriteSomething
<1>1. PICK kind \in {"ENTRY", "TRANSFER", "INVESTMENT"}, day \in Days :
        \E legs : Posted(kind, day, legs) /\ Writable(nextId, kind, legs)
  BY RecordPosts
<1>2. PICK legs : Posted(kind, day, legs) /\ Writable(nextId, kind, legs)
  BY <1>1
<1> DEFINE new == [id |-> nextId, kind |-> kind, day |-> day]
<1> DEFINE page == Book!Page(nextId, kind, day, legs)
<1>3. nextId \in 1..MaxId /\ txns' = txns \cup {new} /\ entries' = entries \cup legs
  BY <1>2, LedgerAssumption DEF Posted, Insert, IInv, TablesOK
<1>4. \A t \in txns : t.id # nextId
  BY <1>3 DEF IInv, TablesOK, IdsDistinct, TxnRow
<1>5. \A e \in entries : e.txn # nextId
  BY <1>3 DEF IInv, TablesOK, IdsDistinct, EntryRow
<1>6. \A e \in legs : e.txn = nextId
  BY <1>2 DEF Posted
<1>7. \A t \in txns : PageOf(t)' = PageOf(t)
  BY <1>3, <1>4, <1>6 DEF PageOf, EntriesOf
<1>8. \A t \in txns' : t = new => PageOf(t)' = page
  <2>1. {e \in entries' : e.txn = nextId} = legs
    BY <1>3, <1>5, <1>6
  <2> QED
    BY <2>1 DEF PageOf, EntriesOf, Book!Page
<1>9. Pages' = Pages \cup {page} /\ \A p \in Pages : p.id # page.id
  <2>1. Pages' = {PageOf(t)' : t \in txns'}
    BY DEF Pages
  <2>2. \A p \in Pages' : p \in Pages \cup {page}
    BY <1>3, <1>7, <1>8, <2>1 DEF Pages
  <2>3. \A p \in Pages \cup {page} : p \in Pages'
    BY <1>3, <1>7, <1>8, <2>1 DEF Pages
  <2>4. \A t \in txns : PageOf(t).id = t.id
    BY DEF PageOf
  <2>5. \A p \in Pages : p.id # page.id
    BY <1>4, <2>4 DEF Pages, Book!Page
  <2> QED
    BY <2>2, <2>3, <2>5
<1> HIDE DEF page
<1>10. PICK i \in 1..MaxId : i = nextId
  BY <1>3
<1>11. CASE kind = "ENTRY"
  <2>1. PICK a \in Accounts, x \in Book!EntryAmounts, c \in Currencies : legs = {Book!Leg(i, a, x, c)}
    BY <1>2, <1>10, <1>11 DEF Writable
  <2>2. page = Book!Page(i, "ENTRY", day, {Book!Leg(i, a, x, c)})
    BY <1>10, <1>11, <2>1 DEF page
  <2>3. Book!Write(Book!Page(i, "ENTRY", day, {Book!Leg(i, a, x, c)}))
    BY <1>9, <2>2 DEF Book!Write, Pages, PageOf
  <2> QED
    BY <2>3 DEF Book!WriteSomething
<1>12. CASE kind = "TRANSFER"
  <2>1. PICK a \in Accounts, b \in Accounts, x \in Amounts, c \in Currencies :
          Book!TransferAllowed(a, b, x) /\ legs = Book!TransferLegs(i, a, b, x, c)
    BY <1>2, <1>10, <1>12 DEF Writable
  <2>2. page = Book!Page(i, "TRANSFER", day, Book!TransferLegs(i, a, b, x, c))
    BY <1>10, <1>12, <2>1 DEF page
  <2>3. Book!Write(Book!Page(i, "TRANSFER", day, Book!TransferLegs(i, a, b, x, c)))
    BY <1>9, <2>2 DEF Book!Write, Pages, PageOf
  <2> QED
    BY <2>1, <2>3 DEF Book!WriteSomething
<1>13. CASE kind = "INVESTMENT"
  <2>1. PICK a \in Accounts, x \in Amounts \ {0}, c \in Currencies : legs = {Book!Leg(i, a, x, c)}
    BY <1>2, <1>10, <1>13 DEF Writable
  <2>2. page = Book!Page(i, "INVESTMENT", day, {Book!Leg(i, a, x, c)})
    BY <1>10, <1>13, <2>1 DEF page
  <2>3. Book!Write(Book!Page(i, "INVESTMENT", day, {Book!Leg(i, a, x, c)}))
    BY <1>9, <2>2 DEF Book!Write, Pages, PageOf
  <2> QED
    BY <2>3 DEF Book!WriteSomething
<1> QED
  BY <1>11, <1>12, <1>13

LEMMA CommitRefines ==
  ASSUME IInv, NEW w \in Workers, CommitDeletion(w)
  PROVE  Book!StrikeOut
<1> DEFINE struck == {PageOf(t) : t \in {u \in txns : u.id \in ids[w]}}
<1>1. txns' = {t \in txns : t.id \notin ids[w]} /\ entries' = {e \in entries : e.txn \notin ids[w]}
  BY CommitDeletesWhole
<1>2. \A t \in txns' : PageOf(t)' = PageOf(t)
  BY <1>1 DEF PageOf, EntriesOf
<1>3. Pages' = Pages \ struck
  <2>1. Pages' = {PageOf(t)' : t \in txns'}
    BY DEF Pages
  <2>2. \A t, u \in txns : PageOf(t) = PageOf(u) => t.id = u.id
    BY DEF PageOf
  <2>3. \A p \in Pages' : p \in Pages /\ p \notin struck
    BY <1>1, <1>2, <2>1, <2>2 DEF Pages
  <2>4. \A p \in Pages \ struck : p \in Pages'
    BY <1>1, <1>2, <2>1 DEF Pages
  <2> QED
    BY <2>3, <2>4
<1>4. \A t \in txns : t.id \in ids[w] => t.kind # "INVESTMENT"
  <2>1. Collected(w)
    BY DEF CommitDeletion, IInv, RequestOK
  <2> QED
    BY <2>1 DEF Collected, TxnIds, IInv, TablesOK, InvestmentsDetailed, IsInvestment
<1>5. struck \in SUBSET {p \in Pages : p.kind # "INVESTMENT"}
  BY <1>4 DEF Pages, PageOf
<1> QED
  BY <1>3, <1>5 DEF Book!StrikeOut, Pages, PageOf

\* Every other step leaves the tables alone.
LEMMA StepRefines ==
  ASSUME IInv, [Next]_vars
  PROVE  [Book!Next]_Pages
<1>1. CASE UNCHANGED tables
  BY <1>1 DEF tables, Pages, PageOf, EntriesOf
<1>2. CASE Record
  BY <1>2, RecordRefines DEF Book!Next
<1>3. ASSUME NEW w \in Workers, CommitDeletion(w)
      PROVE  Book!Next
  BY <1>3, CommitRefines DEF Book!Next
<1>4. ASSUME NEW edit \in Edits, EditCurrency(edit[1], edit[2])
      PROVE  UNCHANGED Pages
  BY <1>4 DEF EditCurrency, Pages, PageOf, EntriesOf
<1> QED
  BY <1>1, <1>2, <1>3, <1>4
     DEF Next, Step, Crash, AbortDeadlock, GiveUp, RefuseInvestment, RefuseBrokerage,
         ListTransactions, DeleteEntryRow, CollectTransactions, DeleteTransactionRow,
         DeleteTransaction, DeleteAccountTransactions, vars, tables

\* The statements of the ledger, with crashes, rollbacks and deadlocks,
\* implement a book in which transactions are written and struck out whole and
\* investment postings are never struck out.
THEOREM LedgerImplementsBook == Spec => LedgerIsBook
<1>1. Init => Book!Init
  BY DEF Init, Book!Init
<1>2. IInv /\ [Next]_vars => [Book!Next]_Pages
  BY StepRefines
<1> QED
  BY <1>1, <1>2, Inductive, PTL DEF Spec, LedgerIsBook, Book!Spec, Pages, PageOf

-----------------------------------------------------------------------------
(***************************************************************************)
(* Sums over finite sets.  The library adds in the order of CHOOSE, which  *)
(* no fact of the ledger speaks of: here is a sum in every order, that one *)
(* exists, and that the library's is one.                                  *)
(***************************************************************************)
LEMMA LeastNatural ==
  ASSUME NEW S \in SUBSET Nat, S # {}
  PROVE  \E x \in S : \A y \in S : x <= y
<1>1. \E x \in S : \A y \in S : ~(<<y, x>> \in OpToRel(<, Nat))
  BY WFMin, NatLessThanWellFounded
<1>2. PICK x \in S : \A y \in S : ~(y < x)
  BY <1>1 DEF OpToRel
<1> QED BY <1>2

\* Induction over the subsets of a finite set.
LEMMA SubsetInduction ==
  ASSUME NEW S, IsFiniteSet(S), NEW Good,
         \A T \in SUBSET S : (\A x \in T : T \ {x} \in Good) => T \in Good
  PROVE  SUBSET S \subseteq Good
<1> SUFFICES ASSUME NEW R \in SUBSET S, R \notin Good
             PROVE  FALSE
  OBVIOUS
<1> DEFINE Bad == {T \in SUBSET S : T \notin Good}
           sizes == {Cardinality(T) : T \in Bad}
<1>1. \A T \in SUBSET S : IsFiniteSet(T) /\ Cardinality(T) \in Nat
  BY FS_Subset, FS_CardinalityType
<1>2. PICK n \in sizes : \A m \in sizes : n <= m
  <2>1. sizes \in SUBSET Nat /\ sizes # {}
    BY <1>1
  <2> HIDE DEF sizes
  <2> QED BY <2>1, LeastNatural
<1>3. PICK T \in Bad : n = Cardinality(T)
  BY <1>2
<1>4. ASSUME NEW x \in T
      PROVE  T \ {x} \in Good
  <2>1. Cardinality(T \ {x}) < Cardinality(T)
    <3>1. IsFiniteSet(T) /\ Cardinality(T) \in Nat
      BY <1>1
    <3>2. Cardinality(T \ {x}) = Cardinality(T) - 1
      BY <3>1, FS_RemoveElement
    <3> QED BY <3>1, <3>2
  <2>2. T \ {x} \in SUBSET S
    OBVIOUS
  <2>3. T \ {x} \in Bad => n <= Cardinality(T \ {x})
    BY <1>2
  <2>4. n \in Nat /\ Cardinality(T \ {x}) \in Nat
    BY <1>1, <1>3, <2>2
  <2> QED BY <1>3, <2>1, <2>2, <2>3, <2>4
<1> QED BY <1>4

\* sum[T] is the sum of val[x] for the x in T, for every subset T of S.
Sums(sum, val, S) ==
  /\ sum \in [SUBSET S -> Int]
  /\ sum[{}] = 0
  /\ \A T \in SUBSET S : \A x \in T : sum[T] = val[x] + sum[T \ {x}]

\* One element more.
LEMMA SumsExtend ==
  ASSUME NEW U, NEW y \in U, NEW val, \A x \in U : val[x] \in Int, NEW g, Sums(g, val, U \ {y})
  PROVE  \E sum : Sums(sum, val, U)
<1> DEFINE T == U \ {y}
           sum == [R \in SUBSET U |-> IF y \in R THEN val[y] + g[R \ {y}] ELSE g[R]]
<1>1. /\ g \in [SUBSET T -> Int] /\ g[{}] = 0
      /\ \A R \in SUBSET T : \A x \in R : g[R] = val[x] + g[R \ {x}]
  BY DEF Sums
<1>2. \A R \in SUBSET U : R \ {y} \in SUBSET T /\ (y \notin R => R \in SUBSET T)
  OBVIOUS
<1>3. sum \in [SUBSET U -> Int]
  <2> HIDE DEF T
  <2> QED BY <1>1, <1>2
<1>4. sum[{}] = 0
  BY <1>1
<1>5. ASSUME NEW R \in SUBSET U, NEW x \in R
      PROVE  sum[R] = val[x] + sum[R \ {x}]
  <2>1. CASE x = y
    BY <2>1
  <2>2. CASE x # y /\ y \in R
    <3>1. sum[R] = val[y] + g[R \ {y}]
      BY <2>2
    <3>2. sum[R \ {x}] = val[y] + g[(R \ {x}) \ {y}]
      BY <2>2
    <3>3. (R \ {x}) \ {y} = (R \ {y}) \ {x}
      OBVIOUS
    <3>4. g[R \ {y}] = val[x] + g[(R \ {y}) \ {x}]
      BY <1>1, <1>2, <2>2
    <3>5. PICK a, b, c : a = val[x] /\ b = val[y] /\ c = g[(R \ {y}) \ {x}]
      OBVIOUS
    <3>6. a \in Int /\ b \in Int /\ c \in Int
      <4>1. (R \ {y}) \ {x} \in SUBSET T
        OBVIOUS
      <4> HIDE DEF T
      <4> QED BY <1>1, <3>5, <4>1
    <3>7. sum[R] = b + (a + c) /\ sum[R \ {x}] = b + c
      <4> HIDE DEF sum
      <4> QED BY <3>1, <3>2, <3>3, <3>4, <3>5
    <3> HIDE DEF sum
    <3> QED BY <3>5, <3>6, <3>7
  <2>3. CASE x # y /\ y \notin R
    <3>1. R \in SUBSET T /\ R \ {x} \in SUBSET U
      BY <2>3
    <3>2. sum[R] = g[R] /\ sum[R \ {x}] = g[R \ {x}]
      BY <2>3, <3>1
    <3>3. g[R] = val[x] + g[R \ {x}]
      BY <1>1, <3>1
    <3> HIDE DEF sum
    <3> QED BY <3>2, <3>3
  <2> QED BY <2>1, <2>2, <2>3
<1>6. Sums(sum, val, U)
  <2> HIDE DEF sum
  <2> QED BY <1>3, <1>4, <1>5 DEF Sums
<1> HIDE DEF sum
<1> QED BY <1>6

LEMMA SumsExist ==
  ASSUME NEW S, IsFiniteSet(S), NEW val, \A x \in S : val[x] \in Int
  PROVE  \E sum : Sums(sum, val, S)
<1> DEFINE Good == {T \in SUBSET S : \E sum : Sums(sum, val, T)}
<1>1. ASSUME NEW T \in SUBSET S, \A x \in T : T \ {x} \in Good
      PROVE  T \in Good
  <2>1. CASE T = {}
    <3> DEFINE sum == [R \in SUBSET {} |-> 0]
    <3>1. Sums(sum, val, {})
      BY DEF Sums
    <3> QED BY <2>1, <3>1
  <2>2. CASE T # {}
    <3>1. PICK y \in T : TRUE
      BY <2>2
    <3>2. PICK g : Sums(g, val, T \ {y})
      BY <1>1
    <3>3. \E sum : Sums(sum, val, T)
      BY <3>1, <3>2, SumsExtend
    <3> QED BY <3>3
  <2> QED BY <2>1, <2>2
<1>2. SUBSET S \subseteq Good
  <2> HIDE DEF Good
  <2> QED BY <1>1, SubsetInduction
<1>3. S \in SUBSET S
  OBVIOUS
<1> QED BY <1>2, <1>3

Pick(T) == CHOOSE x \in T : TRUE

\* iter takes the elements in the order of Pick.
Iterates(iter, val, S) ==
  \A T \in SUBSET S : iter[T] = IF T = {} THEN 0 ELSE val[Pick(T)] + iter[T \ {Pick(T)}]

\* What recurses like the library's sum is that one, in whatever order.
LEMMA SumsUnique ==
  ASSUME NEW S, IsFiniteSet(S), NEW val, NEW sum, Sums(sum, val, S), NEW iter,
         Iterates(iter, val, S)
  PROVE  iter[S] = sum[S]
<1> DEFINE Good == {T \in SUBSET S : iter[T] = sum[T]}
<1>1. ASSUME NEW T \in SUBSET S, \A x \in T : T \ {x} \in Good
      PROVE  T \in Good
  <2>1. CASE T = {}
    BY <2>1 DEF Sums, Iterates
  <2>2. CASE T # {}
    <3>1. Pick(T) \in T
      BY <2>2 DEF Pick
    <3>2. T \ {Pick(T)} \in Good
      BY <1>1, <3>1
    <3>3. sum[T] = val[Pick(T)] + sum[T \ {Pick(T)}]
      BY <3>1 DEF Sums
    <3> QED BY <2>2, <3>2, <3>3 DEF Iterates
  <2> QED BY <2>1, <2>2
<1>2. SUBSET S \subseteq Good
  <2> HIDE DEF Good
  <2> QED BY <1>1, SubsetInduction
<1>3. S \in SUBSET S
  OBVIOUS
<1> QED BY <1>2, <1>3

\* Disjoint sets.
LEMMA SumsAdd ==
  ASSUME NEW S, IsFiniteSet(S), NEW val, \A x \in S : val[x] \in Int, NEW sum, Sums(sum, val, S),
         NEW A \in SUBSET S, NEW B \in SUBSET S, A \cap B = {}
  PROVE  sum[A \cup B] = sum[A] + sum[B]
<1> DEFINE Good == {T \in SUBSET S : T \cap A = {} => sum[A \cup T] = sum[A] + sum[T]}
<1>1. ASSUME NEW T \in SUBSET S, \A x \in T : T \ {x} \in Good
      PROVE  T \in Good
  <2> SUFFICES ASSUME T \cap A = {}
               PROVE  sum[A \cup T] = sum[A] + sum[T]
    OBVIOUS
  <2>1. CASE T = {}
    <3>1. A \cup T = A
      BY <2>1
    <3> QED BY <2>1, <3>1 DEF Sums
  <2>2. CASE T # {}
    <3>1. PICK y \in T : TRUE
      BY <2>2
    <3>2. A \cup T \in SUBSET S /\ y \in A \cup T /\ (A \cup T) \ {y} = A \cup (T \ {y})
      OBVIOUS
    <3>3. sum[A \cup T] = val[y] + sum[A \cup (T \ {y})]
      BY <3>2 DEF Sums
    <3>4. sum[T] = val[y] + sum[T \ {y}]
      BY DEF Sums
    <3>5. sum[A \cup (T \ {y})] = sum[A] + sum[T \ {y}]
      BY <1>1
    <3>6. val[y] \in Int /\ sum[A] \in Int /\ sum[T \ {y}] \in Int
      <4>1. y \in S /\ T \ {y} \in SUBSET S
        OBVIOUS
      <4> QED BY <4>1 DEF Sums
    <3> QED BY <3>3, <3>4, <3>5, <3>6
  <2> QED BY <2>1, <2>2
<1>2. SUBSET S \subseteq Good
  <2> HIDE DEF Good
  <2> QED BY <1>1, SubsetInduction
<1>3. B \in Good
  BY <1>2
<1> QED BY <1>3

LEMMA SumsRestrict ==
  ASSUME NEW S, NEW val, NEW sum, Sums(sum, val, S), NEW T \in SUBSET S
  PROVE  \E part : Sums(part, val, T) /\ part[T] = sum[T]
<1> DEFINE part == [R \in SUBSET T |-> sum[R]]
<1>1. \A R \in SUBSET T : R \in SUBSET S /\ part[R] = sum[R] /\ \A x \in R : R \ {x} \in SUBSET T
  OBVIOUS
<1>2. part \in [SUBSET T -> Int]
  BY <1>1 DEF Sums
<1>3. \A R \in SUBSET T : \A x \in R : part[R] = val[x] + part[R \ {x}]
  <2> HIDE DEF part
  <2> QED BY <1>1 DEF Sums
<1>4. part[{}] = 0 /\ part[T] = sum[T]
  BY <1>1 DEF Sums
<1>5. Sums(part, val, T)
  <2> HIDE DEF part
  <2> QED BY <1>2, <1>3, <1>4 DEF Sums
<1> QED BY <1>4, <1>5

-----------------------------------------------------------------------------
(***************************************************************************)
(* The money.                                                              *)
(***************************************************************************)
\* The two sums of MoneyOnlyFromOutside are such sums.
LEMMA AmountsSummed ==
  ASSUME NEW S, IsFiniteSet(S), NEW val, \A e \in S : val[e] = e.amount, NEW sum, Sums(sum, val, S)
  PROVE  MapThenSumSet(LAMBDA e : e.amount, S) = sum[S]
<1> DEFINE Recurses(iter) ==
      iter = [T \in SUBSET S |->
                IF T = {} THEN 0
                ELSE (CHOOSE x \in T : TRUE).amount + iter[T \ {CHOOSE x \in T : TRUE}]]
<1>1. \A T \in SUBSET S : T # {} => Pick(T) \in T /\ val[Pick(T)] = Pick(T).amount
  BY DEF Pick
<1>2. Recurses(sum)
  <2>1. \A T \in SUBSET S : sum[T] = IF T = {} THEN 0 ELSE Pick(T).amount + sum[T \ {Pick(T)}]
    BY <1>1 DEF Sums
  <2>2. sum = [T \in SUBSET S |-> sum[T]]
    BY DEF Sums
  <2> QED BY <2>1, <2>2 DEF Pick
<1>3. Recurses(CHOOSE iter : Recurses(iter))
  <2> HIDE DEF Recurses
  <2> QED BY <1>2
<1>4. ASSUME NEW iter, Recurses(iter)
      PROVE  iter[S] = sum[S]
  <2>1. \A T \in SUBSET S : iter[T] = IF T = {} THEN 0 ELSE Pick(T).amount + iter[T \ {Pick(T)}]
    BY <1>4 DEF Pick
  <2>2. Iterates(iter, val, S)
    BY <1>1, <2>1 DEF Iterates
  <2> QED BY <2>2, SumsUnique
<1>5. (CHOOSE iter : Recurses(iter))[S] = sum[S]
  <2> HIDE DEF Recurses
  <2> QED BY <1>3, <1>4
<1> QED BY <1>5 DEF MapThenSumSet, MapThenFoldSet

LEMMA BalancesSummed ==
  ASSUME NEW S, IsFiniteSet(S), NEW day, NEW val, \A a \in S : val[a] = Balance(a, day),
         NEW sum, Sums(sum, val, S)
  PROVE  MapThenSumSet(LAMBDA a : Balance(a, day), S) = sum[S]
<1> DEFINE Recurses(iter) ==
      iter = [T \in SUBSET S |->
                IF T = {} THEN 0
                ELSE Balance(CHOOSE x \in T : TRUE, day) + iter[T \ {CHOOSE x \in T : TRUE}]]
<1>1. \A T \in SUBSET S : T # {} => Pick(T) \in T /\ val[Pick(T)] = Balance(Pick(T), day)
  BY DEF Pick
<1>2. Recurses(sum)
  <2>1. \A T \in SUBSET S : sum[T] = IF T = {} THEN 0 ELSE Balance(Pick(T), day) + sum[T \ {Pick(T)}]
    BY <1>1 DEF Sums
  <2>2. sum = [T \in SUBSET S |-> sum[T]]
    BY DEF Sums
  <2> QED BY <2>1, <2>2 DEF Pick
<1>3. Recurses(CHOOSE iter : Recurses(iter))
  <2> HIDE DEF Recurses
  <2> QED BY <1>2
<1>4. ASSUME NEW iter, Recurses(iter)
      PROVE  iter[S] = sum[S]
  <2>1. \A T \in SUBSET S : iter[T] = IF T = {} THEN 0 ELSE Balance(Pick(T), day) + iter[T \ {Pick(T)}]
    BY <1>4 DEF Pick
  <2>2. Iterates(iter, val, S)
    BY <1>1, <2>1 DEF Iterates
  <2> QED BY <2>2, SumsUnique
<1>5. (CHOOSE iter : Recurses(iter))[S] = sum[S]
  <2> HIDE DEF Recurses
  <2> QED BY <1>3, <1>4
<1> QED BY <1>5 DEF MapThenSumSet, MapThenFoldSet

\* Summing the parts an account each, or summing what they have together.
LEMMA SumByAccount ==
  ASSUME NEW S, IsFiniteSet(S), NEW val, \A e \in S : val[e] \in Int, NEW sum, Sums(sum, val, S),
         NEW E \in SUBSET S, NEW A, IsFiniteSet(A), NEW part, NEW total, Sums(total, part, A),
         \A a \in A : part[a] = sum[{e \in E : e.account = a}]
  PROVE  total[A] = sum[{e \in E : e.account \in A}]
<1> DEFINE Good == {B \in SUBSET A : total[B] = sum[{e \in E : e.account \in B}]}
<1>1. ASSUME NEW B \in SUBSET A, \A a \in B : B \ {a} \in Good
      PROVE  B \in Good
  <2>1. CASE B = {}
    <3>1. {e \in E : e.account \in B} = {}
      BY <2>1
    <3>2. total[B] = sum[{e \in E : e.account \in B}]
      BY <2>1, <3>1 DEF Sums
    <3> QED BY <3>2
  <2>2. CASE B # {}
    <3>1. PICK a \in B : TRUE
      BY <2>2
    <3> DEFINE one == {e \in E : e.account = a}
               rest == {e \in E : e.account \in B \ {a}}
               both == {e \in E : e.account \in B}
    <3>2. one \in SUBSET S /\ rest \in SUBSET S /\ one \cap rest = {} /\ one \cup rest = both
      OBVIOUS
    <3>3. total[B] = part[a] + total[B \ {a}]
      BY DEF Sums
    <3>4. part[a] = sum[one] /\ total[B \ {a}] = sum[rest]
      BY <1>1
    <3> HIDE DEF one, rest
    <3>5. sum[one \cup rest] = sum[one] + sum[rest]
      BY <3>2, SumsAdd
    <3>6. total[B] = sum[both]
      <4> HIDE DEF both
      <4> QED BY <3>2, <3>3, <3>4, <3>5
    <3> QED BY <3>6
  <2> QED BY <2>1, <2>2
<1>2. SUBSET A \subseteq Good
  <2> HIDE DEF Good
  <2> QED BY <1>1, SubsetInduction
<1>3. A \in SUBSET A
  OBVIOUS
<1> QED BY <1>2, <1>3

\* What the invariant about whole transactions leaves out: the legs of a
\* transfer are in one currency, and there are finitely many rows.
OneCurrency ==
  \A t \in txns : t.kind = "TRANSFER" =>
    \A e, x \in EntriesOf(t.id) : e.currency = x.currency

MoneyOK == IsFiniteSet(txns) /\ IsFiniteSet(entries) /\ OneCurrency

\* Entries in a currency of some transactions.
EntriesAmong(T, c) == {e \in entries : e.currency = c /\ \E t \in T : t.id = e.txn}

\* The legs of a transfer cancel, those of any set of transfers too.
LEMMA TransfersCancel ==
  ASSUME TablesOK, MoneyOK, NEW val, \A e \in entries : val[e] = e.amount,
         NEW sum, Sums(sum, val, entries), NEW c,
         NEW T \in SUBSET {t \in txns : t.kind = "TRANSFER"}
  PROVE  sum[EntriesAmong(T, c)] = 0
<1> DEFINE Good == {U \in SUBSET T : sum[EntriesAmong(U, c)] = 0}
<1>1. \A e \in entries : val[e] \in Int
  BY DEF TablesOK, EntryRow
<1>2. ASSUME NEW t \in T
      PROVE  sum[{e \in entries : e.currency = c /\ t.id = e.txn}] = 0
  <2>1. PICK e, x \in entries :
          EntriesOf(t.id) = {e, x} /\ e.account # x.account /\ e.amount = -x.amount
    BY DEF TablesOK, TransactionsWhole
  <2>2. e.currency = x.currency
    BY <2>1 DEF MoneyOK, OneCurrency
  <2> DEFINE legs == {l \in entries : l.currency = c /\ t.id = l.txn}
  <2>3. CASE e.currency = c
    <3>1. legs = {e, x}
      BY <2>1, <2>2, <2>3 DEF EntriesOf
    <3>2. legs \in SUBSET entries /\ {x} \in SUBSET entries /\ e \in legs /\ legs \ {e} = {x} /\ {x} \ {x} = {}
      BY <2>1, <3>1
    <3>3. sum[legs] = val[e] + sum[{x}] /\ sum[{x}] = val[x] + sum[{}] /\ sum[{}] = 0
      <4> HIDE DEF legs
      <4> QED BY <3>2 DEF Sums
    <3>4. val[e] = -x.amount /\ val[x] = x.amount /\ x.amount \in Int
      BY <2>1 DEF TablesOK, EntryRow
    <3>5. sum[legs] = 0
      <4> HIDE DEF legs
      <4> QED BY <3>3, <3>4
    <3> QED BY <3>5
  <2>4. CASE e.currency # c
    <3>1. legs = {}
      BY <2>1, <2>2, <2>4 DEF EntriesOf
    <3> QED BY <3>1 DEF Sums
  <2> QED BY <2>3, <2>4
<1>3. ASSUME NEW U \in SUBSET T, \A t \in U : U \ {t} \in Good
      PROVE  U \in Good
  <2>1. CASE U = {}
    <3>1. EntriesAmong(U, c) = {}
      BY <2>1 DEF EntriesAmong
    <3>2. sum[EntriesAmong(U, c)] = 0
      BY <3>1 DEF Sums
    <3> QED BY <3>2
  <2>2. CASE U # {}
    <3>1. PICK t \in U : TRUE
      BY <2>2
    <3> DEFINE one == {e \in entries : e.currency = c /\ t.id = e.txn}
               rest == EntriesAmong(U \ {t}, c)
    <3>2. one \cap rest = {}
      BY DEF TablesOK, IdsDistinct, EntriesAmong
    <3>3. one \in SUBSET entries /\ rest \in SUBSET entries /\ one \cup rest = EntriesAmong(U, c)
      BY DEF EntriesAmong
    <3>4. sum[one] = 0 /\ sum[rest] = 0
      BY <1>2, <1>3
    <3>5. sum[one \cup rest] = 0
      <4> HIDE DEF one, rest
      <4>1. sum[one \cup rest] = sum[one] + sum[rest]
        BY <1>1, <3>2, <3>3, SumsAdd DEF MoneyOK
      <4> QED BY <3>4, <4>1
    <3>6. sum[EntriesAmong(U, c)] = 0
      <4> HIDE DEF one, rest
      <4> QED BY <3>3, <3>5
    <3> QED BY <3>6
  <2> QED BY <2>1, <2>2
<1>4. SUBSET T \subseteq Good
  <2>1. IsFiniteSet(T)
    BY FS_Subset DEF MoneyOK
  <2> HIDE DEF Good
  <2> QED BY <1>3, <2>1, SubsetInduction
<1>5. T \in SUBSET T
  OBVIOUS
<1> QED BY <1>4, <1>5

LEMMA MoneyInit == Init => MoneyOK
BY FS_EmptySet DEF Init, MoneyOK, OneCurrency, EntriesOf

LEMMA RecordKeepsMoney ==
  ASSUME IInv, MoneyOK, Record
  PROVE  MoneyOK'
<1>1. PICK kind \in {"ENTRY", "TRANSFER", "INVESTMENT"}, day \in Days :
        \E legs : Posted(kind, day, legs) /\ Writable(nextId, kind, legs)
  BY RecordPosts
<1>2. PICK legs : Posted(kind, day, legs) /\ Writable(nextId, kind, legs)
  BY <1>1
<1> DEFINE new == [id |-> nextId, kind |-> kind, day |-> day]
<1>3. txns' = txns \cup {new} /\ entries' = entries \cup legs /\ \A e \in legs : e.txn = nextId
  BY <1>2 DEF Posted, Insert
<1>4. IsFiniteSet(legs)
  <2>1. PICK e, x \in legs : legs = {e} \cup {x}
    BY <1>2 DEF Posted, WholeLegs
  <2>2. IsFiniteSet({e})
    BY FS_Singleton
  <2>3. IsFiniteSet({e} \cup {x})
    BY <2>2, FS_AddElement
  <2> QED BY <2>1, <2>3
<1>5. IsFiniteSet(entries') /\ IsFiniteSet(txns')
  BY <1>3, <1>4, FS_Union, FS_AddElement DEF MoneyOK
<1>6. \A t \in txns : t.id # nextId
  BY DEF IInv, TablesOK, IdsDistinct, TxnRow
<1>7. \A e \in entries : e.txn # nextId
  BY DEF IInv, TablesOK, IdsDistinct, EntryRow
<1>8. ASSUME NEW t \in txns', t.kind = "TRANSFER", NEW e \in EntriesOf(t.id)', NEW x \in EntriesOf(t.id)'
      PROVE  e.currency = x.currency
  <2>1. CASE t \in txns
    <3>1. e \in EntriesOf(t.id) /\ x \in EntriesOf(t.id)
      BY <1>3, <1>6, <2>1 DEF EntriesOf
    <3> QED BY <1>8, <2>1, <3>1 DEF MoneyOK, OneCurrency
  <2>2. CASE t = new
    <3>1. e \in legs /\ x \in legs
      BY <1>3, <1>7, <2>2 DEF EntriesOf
    <3>2. PICK a, b \in Accounts, amount \in Amounts, c \in Currencies :
            legs = Book!TransferLegs(nextId, a, b, amount, c)
      BY <1>2, <1>8, <2>2 DEF Writable
    <3>3. e.currency = c /\ x.currency = c
      BY <3>1, <3>2 DEF Book!TransferLegs, Book!Leg
    <3> QED BY <3>3
  <2> QED BY <1>3, <2>1, <2>2
<1> QED BY <1>5, <1>8 DEF MoneyOK, OneCurrency

\* Nothing else writes the two tables but a deletion, which only takes rows.
LEMMA MoneyKept ==
  ASSUME IInv, MoneyOK, [Next]_vars
  PROVE  MoneyOK'
<1>1. CASE Record
  BY <1>1, RecordKeepsMoney
<1>2. CASE ~Record
  <2>1. txns' \subseteq txns /\ entries' \subseteq entries
    BY <1>2 DEF Next, vars, Step, tables, RefuseInvestment, RefuseBrokerage, ListTransactions, DeleteEntryRow,
                CollectTransactions, DeleteTransactionRow, CommitDeletion, AbortDeadlock, Crash, GiveUp,
                DeleteTransaction, DeleteAccountTransactions, EditCurrency
  <2> QED BY <2>1, FS_Subset DEF MoneyOK, OneCurrency, EntriesOf
<1> QED BY <1>1, <1>2

\* The two equations of MoneyOnlyFromOutside, for one currency and date.
WrittenIn(c, day) == {e \in entries : e.currency = c /\ \E t \in txns : t.id = e.txn /\ t.day <= day}
OutsideIn(c, day) ==
  {e \in entries : e.currency = c /\ \E t \in txns :
     t.id = e.txn /\ t.kind # "TRANSFER" /\ t.day <= day}
Holders(c) == {a \in Accounts : acctCurrency[a] = c}
HeldInKind(c) == \A e \in entries : e.account \in Holders(c) <=> e.currency = c

\* The library's sums are those of one summing function.
LEMMA EntriesSummed ==
  ASSUME TablesOK, MoneyOK, NEW val, \A e \in entries : val[e] = e.amount,
         NEW sum, Sums(sum, val, entries), NEW S \in SUBSET entries
  PROVE  MapThenSumSet(LAMBDA e : e.amount, S) = sum[S] /\ sum[S] \in Int
<1>1. PICK part : Sums(part, val, S) /\ part[S] = sum[S]
  BY SumsRestrict
<1>2. IsFiniteSet(S) /\ \A e \in S : val[e] = e.amount
  BY FS_Subset DEF MoneyOK
<1>3. MapThenSumSet(LAMBDA e : e.amount, S) = part[S]
  BY <1>1, <1>2, AmountsSummed
<1> QED BY <1>1, <1>3 DEF Sums

\* Transfers cancel in what is written.
LEMMA WrittenFromOutside ==
  ASSUME TablesOK, MoneyOK, NEW val, \A e \in entries : val[e] = e.amount,
         NEW sum, Sums(sum, val, entries), NEW c \in Currencies, NEW day \in Days
  PROVE  sum[WrittenIn(c, day)] = sum[OutsideIn(c, day)]
<1> DEFINE moved == {t \in txns : t.kind = "TRANSFER" /\ t.day <= day}
           between == EntriesAmong(moved, c)
           outside == OutsideIn(c, day)
<1>1. (\A e \in entries : val[e] = e.amount) /\ \A e \in entries : val[e] \in Int
  BY DEF TablesOK, EntryRow
<1>2. sum[between] = 0
  <2>1. moved \in SUBSET {t \in txns : t.kind = "TRANSFER"}
    OBVIOUS
  <2> HIDE DEF moved
  <2> QED BY <1>1, <2>1, TransfersCancel
<1>3. /\ WrittenIn(c, day) = outside \cup between
      /\ outside \in SUBSET entries /\ between \in SUBSET entries /\ outside \cap between = {}
  BY DEF TablesOK, EntryRow, IdsDistinct, EntriesAmong, WrittenIn, OutsideIn
<1>4. sum[outside \cup between] = sum[outside] + sum[between]
  <2> HIDE DEF outside, between
  <2> QED BY <1>1, <1>3, SumsAdd DEF MoneyOK
<1>5. sum[outside] \in Int
  <2> HIDE DEF outside
  <2> QED BY <1>3 DEF Sums
<1> QED
  <2> HIDE DEF outside, between
  <2>1. sum[WrittenIn(c, day)] = sum[outside]
    BY <1>2, <1>3, <1>4, <1>5
  <2> QED BY <2>1 DEF outside

\* What is written in a currency is what its holders have, account by account.
LEMMA HoldersHaveWritten ==
  ASSUME TablesOK, MoneyOK, NEW val, \A e \in entries : val[e] = e.amount,
         NEW sum, Sums(sum, val, entries), NEW c \in Currencies, NEW day \in Days, HeldInKind(c)
  PROVE  MapThenSumSet(LAMBDA a : Balance(a, day), Holders(c)) = sum[WrittenIn(c, day)]
<1> DEFINE owned == Holders(c)
           dated == {e \in entries : \E t \in txns : t.id = e.txn /\ t.day <= day}
           bal == [a \in owned |-> sum[{e \in dated : e.account = a}]]
<1>1. IsFiniteSet(owned) /\ IsFiniteSet(entries) /\ \A e \in entries : val[e] \in Int
  BY LedgerAssumption, FS_Subset DEF MoneyOK, Holders, TablesOK, EntryRow
<1>2. ASSUME NEW a \in owned
      PROVE  bal[a] = Balance(a, day) /\ bal[a] \in Int /\ bal[a] = sum[{e \in dated : e.account = a}]
  <2>1. {e \in entries : e.account = a /\ \E t \in txns : t.id = e.txn /\ t.day <= day}
          = {e \in dated : e.account = a}
    OBVIOUS
  <2> DEFINE own == {e \in dated : e.account = a}
  <2>2. own \in SUBSET entries
    OBVIOUS
  <2>3. MapThenSumSet(LAMBDA e : e.amount, own) = sum[own] /\ sum[own] \in Int
    <3> HIDE DEF own
    <3> QED BY <2>2, EntriesSummed
  <2>4. Balance(a, day) = MapThenSumSet(LAMBDA e : e.amount, own)
    BY <2>1 DEF Balance
  <2>5. bal[a] = sum[own]
    OBVIOUS
  <2> HIDE DEF bal, own
  <2>6. bal[a] = Balance(a, day) /\ bal[a] \in Int /\ bal[a] = sum[own]
    BY <2>3, <2>4, <2>5
  <2> QED BY <2>6 DEF own
<1>3. PICK total : Sums(total, bal, owned)
  <2> HIDE DEF bal, owned
  <2> QED BY <1>1, <1>2, SumsExist
<1>4. MapThenSumSet(LAMBDA a : Balance(a, day), owned) = total[owned]
  <2>1. \A a \in owned : bal[a] = Balance(a, day)
    BY <1>2
  <2> HIDE DEF bal, owned
  <2> QED BY <1>1, <1>3, <2>1, BalancesSummed
<1>5. total[owned] = sum[{e \in dated : e.account \in owned}]
  <2>1. dated \in SUBSET entries
    OBVIOUS
  <2>2. \A a \in owned : bal[a] = sum[{e \in dated : e.account = a}]
    BY <1>2
  <2>3. Sums(total, bal, owned) /\ Sums(sum, val, entries) /\ IsFiniteSet(owned)
    BY <1>1, <1>3
  <2>4. IsFiniteSet(entries) /\ \A e \in entries : val[e] \in Int
    BY <1>1
  <2> HIDE DEF bal, owned, dated
  <2> QED BY ONLY <2>1, <2>2, <2>3, <2>4, SumByAccount
<1>6. {e \in dated : e.account \in owned} = WrittenIn(c, day)
  BY DEF HeldInKind, WrittenIn
<1> QED BY <1>4, <1>5, <1>6

LEMMA MoneyBalances == IInv /\ MoneyOK => MoneyOnlyFromOutside
<1> SUFFICES ASSUME IInv, MoneyOK, NEW c \in Currencies, NEW day \in Days
             PROVE  /\ MapThenSumSet(LAMBDA e : e.amount, WrittenIn(c, day))
                         = MapThenSumSet(LAMBDA e : e.amount, OutsideIn(c, day))
                    /\ HeldInKind(c) => MapThenSumSet(LAMBDA a : Balance(a, day), Holders(c))
                                          = MapThenSumSet(LAMBDA e : e.amount, OutsideIn(c, day))
  BY DEF MoneyOnlyFromOutside, WrittenIn, OutsideIn, Holders, HeldInKind
<1> DEFINE val == [e \in entries |-> e.amount]
<1>1. TablesOK /\ IsFiniteSet(entries) /\ \A e \in entries : val[e] \in Int
  BY DEF IInv, MoneyOK, TablesOK, EntryRow
<1>2. PICK sum : Sums(sum, val, entries)
  <2> HIDE DEF val
  <2> QED BY <1>1, SumsExist
<1>3. WrittenIn(c, day) \in SUBSET entries /\ OutsideIn(c, day) \in SUBSET entries
  BY DEF WrittenIn, OutsideIn
<1>4. \A e \in entries : val[e] = e.amount
  OBVIOUS
<1> HIDE DEF val
<1>5. /\ MapThenSumSet(LAMBDA e : e.amount, WrittenIn(c, day)) = sum[WrittenIn(c, day)]
      /\ MapThenSumSet(LAMBDA e : e.amount, OutsideIn(c, day)) = sum[OutsideIn(c, day)]
  BY <1>1, <1>2, <1>3, <1>4, EntriesSummed
<1>6. sum[WrittenIn(c, day)] = sum[OutsideIn(c, day)]
  BY <1>1, <1>2, <1>4, WrittenFromOutside
<1>7. ASSUME HeldInKind(c)
      PROVE  MapThenSumSet(LAMBDA a : Balance(a, day), Holders(c)) = sum[WrittenIn(c, day)]
  BY <1>1, <1>2, <1>4, <1>7, HoldersHaveWritten
<1> QED BY <1>5, <1>6, <1>7

\* README.md:14 and services.py: at any date, the entries in a currency sum to
\* what came from outside, so transfers create no money and no deletion leaves
\* one leg of one behind; and so do the balances of its accounts, unless an edit
\* has parted an account from the currency of its entries.
THEOREM MoneyComesFromOutside == Spec => []MoneyOnlyFromOutside
<1>1. IInv /\ MoneyOK /\ [Next]_vars => (IInv /\ MoneyOK)'
  BY InvariantStep, MoneyKept
<1> QED
  BY <1>1, InvariantInit, MoneyInit, MoneyBalances, PTL DEF Spec
=============================================================================
