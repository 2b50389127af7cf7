------------------------------ MODULE FixedTerm ------------------------------
(***************************************************************************)
(* What a fixed-term deposit earns, how far it has come and what tax is    *)
(* projected for it: accounts/services/fixed_term.py,                      *)
(* ledger/calculations/interest.py and tax/services/returns.py.  Nothing   *)
(* here is stored; the pages compute it from a contract and a date.        *)
(*                                                                         *)
(* A date is a number of days, a rate a number of 1/RateUnit, interest a   *)
(* number of 1/Ulp quanta.  Compound interest is modelled for whole        *)
(* compounding periods only: Python raises to a fractional power.          *)
(***************************************************************************)
EXTENDS Decimals

YearDays == 365      \* ACT/365, leap years included

Simple(principal, rate, from, to) ==
  RoundDiv(principal * rate * (to - from) * Ulp, YearDays * RateUnit)

\* The powers of a number, as a function that can be reasoned about.
Powers(base) ==
  LET power[n \in Nat] == IF n = 0 THEN 1 ELSE base * power[n - 1]
  IN  power

Compound(principal, rate, from, to, frequency) ==
  LET periods == (frequency * (to - from)) \div YearDays
      unit == frequency * RateUnit
      unpaid == Powers(unit)[periods]
  IN  RoundDiv(principal * Ulp * (Powers(unit + rate)[periods] - unpaid), unpaid)

\* calculate_fixed_term_projection up to a date, its gross_interest.
GrossInterest(c, to) ==
  IF c.method = "SIMPLE"
  THEN Simple(c.principal, c.rate, c.start, to)
  ELSE Compound(c.principal, c.rate, c.start, to, c.frequency)

\* Is d a day on which interest has been added for whole periods only?
WholePeriods(c, d) ==
  c.method = "SIMPLE" \/ (c.frequency * (d - c.start)) % YearDays = 0

Duration(c) == c.maturity - c.start

Earlier(d, e) == IF d < e THEN d ELSE e

\* Mutant: the first day counts as elapsed.
ProgressInclusive(c, asOf) ==
  IF asOf < c.start
  THEN [accrued |-> 0, elapsed |-> 0, remaining |-> Duration(c), percent |-> 0]
  ELSE LET effective == Earlier(asOf, c.maturity)
           elapsed == effective - c.start + 1
       IN  [accrued |-> GrossInterest(c, effective),
            elapsed |-> elapsed,
            remaining |-> IF asOf < c.maturity THEN c.maturity - asOf ELSE 0,
            percent |-> Earlier(RoundDiv(elapsed * 100 * Ulp, Duration(c)), 100 * Ulp)]

\* calculate_fixed_term_progress.
Progress(c, asOf) ==
  IF asOf < c.start
  THEN [accrued |-> 0, elapsed |-> 0, remaining |-> Duration(c), percent |-> 0]
  ELSE LET effective == Earlier(asOf, c.maturity)
           elapsed == effective - c.start
       IN  [accrued |-> IF elapsed = 0 THEN 0 ELSE GrossInterest(c, effective),
            elapsed |-> elapsed,
            remaining |-> IF asOf < c.maturity THEN c.maturity - asOf ELSE 0,
            percent |-> Earlier(RoundDiv(elapsed * 100 * Ulp, Duration(c)), 100 * Ulp)]

\* get_fixed_term_status; closing_date is never set.
Status(active, c, asOf) ==
  CASE ~active -> "CLOSED"
    [] active /\ asOf < c.start -> "PLANNED"
    [] active /\ c.start <= asOf /\ asOf < c.maturity -> "ACTIVE"
    [] OTHER -> "MATURED"

\* Is the contract among get_upcoming_maturities?
Upcoming(active, c, asOf, days) ==
  active /\ asOf <= c.maturity /\ c.maturity <= asOf + days

-----------------------------------------------------------------------------
NoTaxRate == -1      \* tax_rate is NULL

\* A ReturnTaxTreatment; a missing one is like the type NONE.
TaxTypes == {"WITHHOLDING", "YEAR_END", "CUSTOM"}
ExemptTypes == {"NONE", "EXEMPT"}

\* ReturnTaxTreatment.clean.
TreatmentOk(t) ==
  /\ t.type \in TaxTypes => t.rate # NoTaxRate
  /\ t.type \in ExemptTypes => t.rate \in {NoTaxRate, 0}

Untreated == [type |-> "NONE", rate |-> NoTaxRate, atSource |-> FALSE]

\* calculate_return_tax.
ReturnTax(gross, t) ==
  LET rate == IF t.rate = NoTaxRate THEN 0 ELSE t.rate
      tax == IF t.type \in TaxTypes THEN RoundDiv(gross * rate, RateUnit) ELSE 0
      atSource == t.type = "WITHHOLDING" \/ (t.type = "CUSTOM" /\ t.atSource)
  IN  [tax |-> tax,
       withheld |-> IF atSource THEN tax ELSE 0,
       later |-> IF atSource THEN 0 ELSE tax,
       net |-> gross - tax]
=============================================================================
