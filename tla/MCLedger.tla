------------------------------ MODULE MCLedger ------------------------------
(***************************************************************************)
(* Two workers deleting while deposits, transfers and an investment are    *)
(* posted on two accounts that share a currency, until one of them is      *)
(* edited to another one.                                                  *)
(***************************************************************************)
EXTENDS Ledger, TLC

CONSTANTS a1, a2, eur, usd

MCFirstCurrency == [a \in Accounts |-> eur]

MCEdits == {<<a2, usd>>}

MCAmounts == {0, 1}

Symmetry == Permutations(Workers)
=============================================================================
