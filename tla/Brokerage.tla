------------------------------ MODULE Brokerage -----------------------------
(***************************************************************************)
(* What posting an investment transaction promises, whatever the requests  *)
(* that post at the same time do: one indivisible step that appends one    *)
(* row to the account's history, under an id above every id of the         *)
(* account, if the history as it is at that moment permits the row.        *)
(* InvestmentPosting implements this specification.                        *)
(***************************************************************************)
EXTENDS TradeForms

CONSTANT Permits(_, _)    \* Permits(rows, f): the history rows permit form f

VARIABLE posted           \* the rows of the investment history

Init == posted = {}

Post(f, id) ==
  /\ \A t \in posted : t.id # id /\ (t.account = f.account => t.id < id)
  /\ Permits(posted, f)
  /\ posted' = posted \cup {Row(id, f)}

Next == \E f \in Forms, id \in Ids : Post(f, id)

Spec == Init /\ [][Next]_posted
=============================================================================
