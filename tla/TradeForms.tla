----------------------------- MODULE TradeForms -----------------------------
(***************************************************************************)
(* What a user may submit to InvestmentCreateView, and the history row a   *)
(* submission becomes.                                                     *)
(***************************************************************************)
EXTENDS Integers

CONSTANTS
  Accounts,     \* the user's active brokerage accounts
  Securities,   \* active securities
  Currencies,
  Forms,        \* the investment forms users may submit
  Ids           \* values of the ledger_transaction id sequence

Kinds == {"BUY", "SELL", "DIVIDEND", "FEE", "TAX"}

\* settlement_date is NULL or a day, so zero can stand for NULL.
NoDay == 0

FormType ==
  [account : Accounts, security : Securities, kind : Kinds, day : Nat,
   settlement : Nat, quantity : Nat, gross : Nat, costs : Nat,
   currency : Currencies, exchange : Nat]

\* The form has a quantity exactly for purchases and sales.
ASSUME FormAssumption ==
  /\ Forms \subseteq FormType
  /\ \A f \in Forms : f.quantity > 0 <=> f.kind \in {"BUY", "SELL"}

ASSUME IdAssumption == Ids \subseteq Nat

\* The InvestmentTransaction row joined to its Transaction row.
Row(id, f) ==
  [id |-> id, account |-> f.account, security |-> f.security, kind |-> f.kind,
   day |-> f.day, quantity |-> f.quantity, gross |-> f.gross, costs |-> f.costs,
   currency |-> f.currency, exchange |-> f.exchange]

RowType ==
  [id : Ids, account : Accounts, security : Securities, kind : Kinds, day : Nat,
   quantity : Nat, gross : Nat, costs : Nat, currency : Currencies, exchange : Nat]
=============================================================================
