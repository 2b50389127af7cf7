------------------------------ MODULE Accounts ------------------------------
(***************************************************************************)
(* The accounts of one user: creation with a fixed-term contract and its   *)
(* opening posting, editing, archiving, and the return tax treatments      *)
(* attached to them.  accounts/views.py, accounts/forms.py,                *)
(* accounts/models.py and the treatment views of tax/views.py.             *)
(*                                                                         *)
(* A creation or an edit is one atomic() block of three or four            *)
(* statements; its uncommitted rows belong to the worker and appear at     *)
(* Commit.  Form validation comes before it and reads committed rows.      *)
(* Names, notes, institutions and ownership are left out.                  *)
(***************************************************************************)
EXTENDS FixedTerm, FiniteSets

CONSTANTS
  Workers,
  Ids,             \* primary keys of accounts, from 1
  Currencies,
  Treatments,      \* primary keys of the return tax treatments
  TreatmentRows,   \* rows their form may be asked to write, without active
  Forms,           \* what may be submitted to the account form
  FirstAccount,    \* the row of account 1, a checking account
  FirstTreatment,  \* what every treatment is at first
  MaxRate,         \* annual_interest_rate has room for smaller rates only
  None             \* NULL, or no row

ASSUME IdsAssumption == Ids \subseteq Nat /\ 1 \in Ids /\ None \notin Ids \cup Treatments

VARIABLES
  accounts,     \* FinancialAccount rows by key; None where there is none
  contracts,    \* FixedTermDetails rows by account
  entries,      \* the legs of opening postings
  treatments,   \* ReturnTaxTreatment rows
  pc, req       \* the line a worker is at, and what its request has in memory

vars == <<accounts, contracts, entries, treatments, pc, req>>

Types == {"CHECKING", "SAVINGS", "FIXED_TERM"}
Exists(a) == accounts[a] # None
Active == {a \in Ids : Exists(a) /\ accounts[a].active}
AccountLines == {"clean", "account", "details", "opening", "commit"}
Busy(a) == {w \in Workers : pc[w] \in AccountLines /\ req[w].key = a}

-----------------------------------------------------------------------------
\* FinancialAccountForm; key and loaded row are None for a new account.

\* Destination and funding accounts on offer.
Choosable(key) == Active \ {key}

\* Mutant: an archived treatment is not offered, not even to its account.
SelectableActive(loaded) == {None} \cup {t \in Treatments : treatments[t].active}

Selectable(loaded) ==
  {None} \cup {t \in Treatments :
                 treatments[t].active \/ (loaded # None /\ loaded.treatment = t)}

TermsOk(c, key) ==
  /\ c # None
  /\ c.principal > 0 /\ c.rate >= 0
  /\ c.start < c.maturity
  /\ c.method = "COMPOUND" => c.frequency # None
  /\ c.payout = "PAID_OUT" => c.destination # None
  /\ {c.destination, c.maturityDestination} \subseteq Choosable(key) \cup {None}

\* clean; the funding field exists on creation only.
FormOk(f, key, loaded) ==
  /\ loaded # None => f.type = loaded.type
  /\ f.treatment \in Selectable(loaded)
  /\ f.type = "FIXED_TERM" => TermsOk(f.contract, key)
  /\ key = None /\ f.funding # None =>
       /\ f.funding \in Choosable(key)
       /\ f.type = "FIXED_TERM" => accounts[f.funding].currency = f.currency

\* The row save() writes: every column, active as it was loaded or TRUE.
AccountRow(f, active) ==
  [type |-> f.type, currency |-> f.currency, treatment |-> f.treatment,
   savings |-> IF f.type = "SAVINGS" THEN f.savings ELSE None, active |-> active]

\* What the edit page shows, and sends back if nothing is changed.
InitialForm(key) ==
  [type |-> accounts[key].type, currency |-> accounts[key].currency,
   treatment |-> accounts[key].treatment, savings |-> accounts[key].savings,
   contract |-> contracts[key], funding |-> None]

TreatmentRow(row) ==
  [type |-> row.type, rate |-> row.rate, atSource |-> row.atSource, active |-> TRUE]

ASSUME FirstAssumption ==
  /\ FirstAccount = AccountRow(FirstAccount, TRUE) /\ FirstAccount.type = "CHECKING"
  /\ FirstAccount.treatment \in Treatments \cup {None}
  /\ FirstTreatment = TreatmentRow(FirstTreatment)

ASSUME FormsAssumption ==
  /\ \A f \in Forms : f.contract # None => f.contract.principal \in Int
  /\ \A f \in Forms \cup {FirstAccount}, active \in BOOLEAN : AccountRow(f, active) # None

-----------------------------------------------------------------------------
Init ==
  /\ accounts = [a \in Ids |-> IF a = 1 THEN FirstAccount ELSE None]
  /\ contracts = [a \in Ids |-> None]
  /\ entries = {}
  /\ treatments = [t \in Treatments |-> FirstTreatment]
  /\ pc = [w \in Workers |-> "idle"]
  /\ req = [w \in Workers |-> None]

Goto(w, line) == pc' = [pc EXCEPT ![w] = line]

End(w) == Goto(w, "idle") /\ req' = [req EXCEPT ![w] = None]

Creating(w) == pc[w] \in AccountLines /\ req[w].loaded = None

\* An UPDATE keeps the row locked until the transaction ends.
Locked(a) == \E w \in Busy(a) : pc[w] \in {"details", "opening", "commit"}

\* AccountCreateView: the form is valid and atomic() begins.  The new key
\* comes from the sequence; one creation at a time is the bound.
Create(w, f) ==
  /\ pc[w] = "idle" /\ FormOk(f, None, None)
  /\ ~\E v \in Workers : Creating(v)
  /\ \E a \in Ids :
       /\ ~Exists(a) /\ \A b \in Ids : ~Exists(b) => a <= b
       /\ req' = [req EXCEPT ![w] =
                    [key |-> a, form |-> f, loaded |-> None,
                     funding |-> IF f.funding = None THEN None ELSE accounts[f.funding].currency]]
  /\ Goto(w, "account")
  /\ UNCHANGED <<accounts, contracts, entries, treatments>>

\* AccountUpdateView.get_object, then the form.
Edit(w, a, f) ==
  /\ pc[w] = "idle" /\ Exists(a)
  /\ req' = [req EXCEPT ![w] =
                [key |-> a, form |-> f, loaded |-> accounts[a], funding |-> None]]
  /\ Goto(w, "clean")
  /\ UNCHANGED <<accounts, contracts, entries, treatments>>

Clean(w) ==
  /\ pc[w] = "clean"
  /\ UNCHANGED <<accounts, contracts, entries, treatments>>
  /\ IF FormOk(req[w].form, req[w].key, req[w].loaded)
     THEN Goto(w, "account") /\ UNCHANGED req
     ELSE End(w)

\* Mutant: the view has no atomic(), the row is there at once.
WriteAccountAtOnce(w) ==
  /\ pc[w] = "account"
  /\ accounts' = [accounts EXCEPT ![req[w].key] = AccountRow(req[w].form, Creating(w) \/ req[w].loaded.active)]
  /\ Goto(w, "details")
  /\ UNCHANGED <<contracts, entries, treatments, req>>

\* INSERT or UPDATE of the account.
WriteAccount(w) ==
  /\ pc[w] = "account" /\ ~Locked(req[w].key)
  /\ Goto(w, "details")
  /\ UNCHANGED <<accounts, contracts, entries, treatments, req>>

\* save_fixed_term_details: its full_clean may find a rate without room,
\* which nobody catches.
WriteDetails(w) ==
  /\ pc[w] = "details"
  /\ req[w].form.type = "FIXED_TERM" => req[w].form.contract.rate < MaxRate
  /\ Goto(w, IF req[w].form.type = "FIXED_TERM" /\ Creating(w) THEN "opening" ELSE "commit")
  /\ UNCHANGED <<accounts, contracts, entries, treatments, req>>

\* create_transfer or create_deposit; the transfer compares currencies again.
PostOpening(w) ==
  /\ pc[w] = "opening"
  /\ req[w].form.funding # None => req[w].funding = req[w].form.currency
  /\ Goto(w, "commit")
  /\ UNCHANGED <<accounts, contracts, entries, treatments, req>>

Leg(a, account, amount, currency, f) ==
  [opens |-> a, account |-> account, amount |-> amount, currency |-> currency,
   day |-> f.contract.start]

\* Mutant: the funding account is credited too.
OpeningWithoutSign(a, f, fundingCurrency) ==
  {Leg(a, a, f.contract.principal, f.currency, f)}
    \cup IF f.funding = None THEN {}
         ELSE {Leg(a, f.funding, f.contract.principal, fundingCurrency, f)}

\* The entries of the opening transaction.
Opening(a, f, fundingCurrency) ==
  {Leg(a, a, f.contract.principal, f.currency, f)}
    \cup IF f.funding = None THEN {}
         ELSE {Leg(a, f.funding, -f.contract.principal, fundingCurrency, f)}

\* Mutant: the form submits active like any other field.
CommitActive(w) ==
  LET a == req[w].key
      f == req[w].form
      term == f.type = "FIXED_TERM"
  IN  /\ pc[w] = "commit"
      /\ accounts' = [accounts EXCEPT ![a] = AccountRow(f, TRUE)]
      /\ contracts' = [contracts EXCEPT ![a] = IF term THEN f.contract ELSE None]
      /\ entries' = entries \cup (IF term /\ Creating(w) THEN Opening(a, f, req[w].funding) ELSE {})
      /\ End(w)
      /\ UNCHANGED treatments

Commit(w) ==
  LET a == req[w].key
      f == req[w].form
      term == f.type = "FIXED_TERM"
  IN  /\ pc[w] = "commit"
      /\ accounts' = [accounts EXCEPT ![a] = AccountRow(f, Creating(w) \/ req[w].loaded.active)]
      /\ contracts' = [contracts EXCEPT ![a] = IF term THEN f.contract ELSE None]
      /\ entries' = entries \cup (IF term /\ Creating(w) THEN Opening(a, f, req[w].funding) ELSE {})
      /\ End(w)
      /\ UNCHANGED treatments

\* An exception or the end of the worker process: nothing is kept.
Fail(w) ==
  /\ pc[w] # "idle"
  /\ End(w)
  /\ UNCHANGED <<accounts, contracts, entries, treatments>>

\* archive_account updates one column, of an account of any type.
Archive(a) ==
  /\ Exists(a) /\ ~Locked(a)
  /\ accounts' = [accounts EXCEPT ![a].active = FALSE]
  /\ UNCHANGED <<contracts, entries, treatments, pc, req>>

-----------------------------------------------------------------------------
\* TaxTreatmentUpdateView loads an active treatment and writes all of it.
EditTreatment(w, t, row) ==
  /\ pc[w] = "idle" /\ treatments[t].active /\ TreatmentOk(row)
  /\ req' = [req EXCEPT ![w] = [key |-> t, row |-> row]]
  /\ Goto(w, "treatment")
  /\ UNCHANGED <<accounts, contracts, entries, treatments>>

SaveTreatment(w) ==
  /\ pc[w] = "treatment"
  /\ treatments' = [treatments EXCEPT ![req[w].key] = TreatmentRow(req[w].row)]
  /\ End(w)
  /\ UNCHANGED <<accounts, contracts, entries>>

ArchiveTreatment(t) ==
  /\ treatments' = [treatments EXCEPT ![t].active = FALSE]
  /\ UNCHANGED <<accounts, contracts, entries, pc, req>>

Next ==
  \/ \E w \in Workers :
       \/ Clean(w) \/ WriteAccount(w) \/ WriteDetails(w) \/ PostOpening(w)
       \/ Commit(w) \/ Fail(w) \/ SaveTreatment(w)
       \/ \E f \in Forms : Create(w, f) \/ \E a \in Ids : Edit(w, a, f)
       \/ \E t \in Treatments, row \in TreatmentRows : EditTreatment(w, t, row)
  \/ \E a \in Ids : Archive(a)
  \/ \E t \in Treatments : ArchiveTreatment(t)

Spec == Init /\ [][Next]_vars

-----------------------------------------------------------------------------
LegsOf(a) == {e \in entries : e.opens = a}

\* The opening of a: one leg on it and at most one that takes as much, in the
\* same currency, from another account.
OpenedOnce(a) ==
  LET own == {e \in LegsOf(a) : e.account = a}
      other == LegsOf(a) \ own
  IN  \E e \in own :
        /\ own = {e} /\ e.amount > 0
        /\ \/ other = {}
           \/ \E o \in other : other = {o} /\ o.amount = -e.amount /\ o.currency = e.currency

\* README.md:200-203 and the atomic() of accounts/views.py:104 and :137.
\* Whatever fails, overlaps or is edited later, a fixed-term account has its
\* contract and exactly the one posting its creation made, no other account
\* has either, and account and contract come from one submission.
ContractsWhole ==
  /\ \A a \in Ids :
       LET term == Exists(a) /\ accounts[a].type = "FIXED_TERM"
       IN  /\ term <=> contracts[a] # None
           /\ IF term THEN OpenedOnce(a) ELSE LegsOf(a) = {}
           /\ term => \E f \in Forms : /\ contracts[a] = f.contract
                                       /\ accounts[a] = AccountRow(f, accounts[a].active)
  /\ \A e \in entries : Exists(e.account)

\* accounts/views.py:149: what is archived stays archived, but for edits that
\* loaded the row before; they write the column back.
ArchiveSticks ==
  [][/\ \A a \in Ids :
          /\ Exists(a) /\ ~accounts[a].active
          /\ \A w \in Busy(a) : ~req[w].loaded.active
          => ~accounts'[a].active
     /\ \A t \in Treatments :
          /\ ~treatments[t].active
          /\ ~\E w \in Workers : pc[w] = "treatment" /\ req[w].key = t
          => ~treatments'[t].active]_vars

\* accounts/forms.py:107-110 and :122-142: the edit page sent back unchanged
\* is accepted, also when the treatment has been archived since, unless an
\* account its contract names has been.
EditPageAccepted ==
  \A a \in Ids :
    /\ Exists(a)
    /\ contracts[a] # None =>
         {contracts[a].destination, contracts[a].maturityDestination} \subseteq Active \cup {None}
    => FormOk(InitialForm(a), a, accounts[a])

-----------------------------------------------------------------------------
CONSTANT AsOfDates    \* the days on which somebody looks at the pages

Contracts == {a \in Ids : contracts[a] # None}

\* Compound interest is modelled after whole periods only.
DaysFor(c) == {d \in AsOfDates : WholePeriods(c, d)}

\* The validators of accounts/models.py:156-167 and tax/models.py:50-57.  No term
\* is so long that all of it but a day would round to 100 percent: with 28
\* digits no two dates are that far apart.
ASSUME TermsAssumption ==
  /\ AsOfDates \subseteq Int
  /\ \A f \in Forms :
       LET c == f.contract
       IN  c # None => /\ {c.rate, c.start, c.maturity} \subseteq Int
                       /\ c.method \in {"SIMPLE", "COMPOUND"}
                       /\ c.frequency \in (Nat \ {0}) \cup {None}
                       /\ Duration(c) < 200 * Ulp
  /\ \A row \in TreatmentRows \cup {FirstTreatment} : row.rate \in 0..RateUnit \cup {NoTaxRate}

\* accounts/services/fixed_term.py:26-109 and tax/services/returns.py:35-60.
\* What a deposit has earned never falls, is nothing while it is planned and
\* the projection exactly from the day it is matured, which the list of those
\* about to mature foretells; compounding whole periods never earns less than
\* simple interest; and whatever its treatment is edited to, the tax withheld
\* and due later leaves between nothing and all of it.
AccrualConverges ==
  \A a \in Contracts :
    LET c == contracts[a]
        active == accounts[a].active
        t == accounts[a].treatment
        projected == GrossInterest(c, c.maturity)
        taxed == ReturnTax(projected, IF t = None THEN Untreated ELSE treatments[t])
    IN  /\ \A d \in DaysFor(c) :
             LET now == Progress(c, d)
             IN  /\ \A e \in DaysFor(c) : e < d => Progress(c, e).accrued <= now.accrued
                 /\ now.accrued <= projected
                 /\ now.elapsed + now.remaining = Duration(c)
                 /\ active => /\ Status(active, c, d) = "PLANNED" => now.accrued = 0
                              /\ Status(active, c, d) = "MATURED" <=> now.percent = 100 * Ulp
        /\ \A d, e \in AsOfDates :
             d < e /\ Status(active, c, d) \in {"PLANNED", "ACTIVE"} =>
               (Upcoming(active, c, d, e - d) <=> Status(active, c, e) = "MATURED")
        /\ WholePeriods(c, c.maturity) =>
             projected >= Simple(c.principal, c.rate, c.start, c.maturity)
        /\ taxed.withheld + taxed.later + taxed.net = projected
        /\ taxed.net \in 0..projected
=============================================================================
