----------------------------- MODULE MCAccounts -----------------------------
(***************************************************************************)
(* An instance of Accounts: a checking account, one treatment, and forms   *)
(* for both account types, some of which the form or the model refuses.    *)
(* Rates are tenths, dates multiples of a year.                            *)
(***************************************************************************)
EXTENDS Accounts, TLC

MCFirst == [type |-> "CHECKING", currency |-> "eur", treatment |-> None,
            savings |-> None, active |-> TRUE]

MCTreatmentRows ==
  {[type |-> "CUSTOM", rate |-> 10, atSource |-> TRUE],
   [type |-> "EXEMPT", rate |-> NoTaxRate, atSource |-> FALSE],
   [type |-> "YEAR_END", rate |-> NoTaxRate, atSource |-> FALSE]}

MCFirstTreatment == [type |-> "YEAR_END", rate |-> 3, atSource |-> FALSE, active |-> TRUE]

MCAsOf == {0, 100, 365, 500, 730, 1095}

SimpleTerm == [principal |-> 105, start |-> 365, maturity |-> 1095, rate |-> 1,
               method |-> "SIMPLE", frequency |-> None, payout |-> "PAID_OUT",
               destination |-> 1, maturityDestination |-> None]

QuarterlyTerm == [principal |-> 35, start |-> 365, maturity |-> 730, rate |-> 2,
                  method |-> "COMPOUND", frequency |-> 4, payout |-> "CAPITALIZED",
                  destination |-> None, maturityDestination |-> 1]

RateTooLarge == [QuarterlyTerm EXCEPT !.rate = 9]

Form(type, currency, treatment, contract, funding) ==
  [type |-> type, currency |-> currency, treatment |-> treatment, savings |-> None,
   contract |-> contract, funding |-> funding]

MCForms ==
  {Form("CHECKING", "usd", None, None, None),
   Form("FIXED_TERM", "eur", 1, SimpleTerm, 1),
   Form("FIXED_TERM", "usd", None, QuarterlyTerm, None),
   Form("FIXED_TERM", "eur", 1, RateTooLarge, None)}

WorkerSymmetry == Permutations(Workers)
=============================================================================
