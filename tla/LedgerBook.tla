----------------------------- MODULE LedgerBook -----------------------------
(***************************************************************************)
(* What the cash ledger promises: a book of whole transactions.  One is    *)
(* written or struck out as a unit, with every entry it has; a transfer    *)
(* has two entries in one currency that cancel; an investment posting is   *)
(* never struck out.  Ledger implements this specification.                *)
(***************************************************************************)
EXTENDS Integers, FiniteSets

CONSTANTS
  Accounts, Currencies,
  Amounts,              \* amounts users type in, in quanta
  Days,
  Ids                   \* values of the ledger_transaction id sequence

TxnKinds == {"ENTRY", "TRANSFER", "INVESTMENT"}

\* The entries a posting writes under transaction id i.
Leg(i, account, amount, currency) ==
  [txn |-> i, account |-> account, amount |-> amount, currency |-> currency]

TransferLegs(i, source, destination, amount, currency) ==
  {Leg(i, source, -amount, currency), Leg(i, destination, amount, currency)}

\* create_deposit takes the amount as it is, create_withdrawal only a positive
\* one; _create refuses zero.
EntryAmounts == {x \in Amounts : x # 0} \cup {-x : x \in {y \in Amounts : y > 0}}

TransferAllowed(source, destination, amount) ==
  amount > 0 /\ source # destination

-----------------------------------------------------------------------------
VARIABLE book     \* the whole transactions written and not struck out

Page(i, kind, day, legs) == [id |-> i, kind |-> kind, day |-> day, legs |-> legs]

Init == book = {}

Write(page) ==
  /\ \A p \in book : p.id # page.id
  /\ book' = book \cup {page}

WriteSomething ==
  \E i \in Ids, d \in Days, c \in Currencies :
    \/ \E a \in Accounts, x \in EntryAmounts : Write(Page(i, "ENTRY", d, {Leg(i, a, x, c)}))
    \/ \E a, b \in Accounts, x \in Amounts :
         TransferAllowed(a, b, x) /\ Write(Page(i, "TRANSFER", d, TransferLegs(i, a, b, x, c)))
    \/ \E a \in Accounts, x \in Amounts \ {0} :
         Write(Page(i, "INVESTMENT", d, {Leg(i, a, x, c)}))

StrikeOut ==
  \E pages \in SUBSET {p \in book : p.kind # "INVESTMENT"} : book' = book \ pages

Next == WriteSomething \/ StrikeOut

Spec == Init /\ [][Next]_book
=============================================================================
