--------------------------- MODULE AccountsProofs ---------------------------
(***************************************************************************)
(* Proofs about Accounts, for any workers, accounts, treatments and forms: *)
(* a fixed-term account keeps its contract and its one opening, what is    *)
(* archived stays archived, an edit page can be sent back, and what a      *)
(* deposit has earned goes to its projection.                              *)
(***************************************************************************)
EXTENDS Accounts, WellFoundedInduction, TLAPS

IsRow(row) == \E f \in Forms \cup {FirstAccount}, active \in BOOLEAN : row = AccountRow(f, active)

\* The part of TermsOk that no later change of another account can undo.
TermsKept(c, a) ==
  /\ c # None
  /\ c.principal > 0 /\ c.rate >= 0
  /\ c.start < c.maturity
  /\ c.method = "COMPOUND" => c.frequency # None
  /\ c.payout = "PAID_OUT" => c.destination # None
  /\ a \notin {c.destination, c.maturityDestination}

TablesOK ==
  /\ DOMAIN accounts = Ids /\ DOMAIN contracts = Ids
  /\ DOMAIN treatments = Treatments
  /\ \A t \in Treatments : "active" \in DOMAIN treatments[t]
  /\ \A a \in Ids : Exists(a) => IsRow(accounts[a]) /\ accounts[a].treatment \in Treatments \cup {None}
  /\ \A a \in Ids : contracts[a] # None => TermsKept(contracts[a], a)
  /\ ContractsWhole

RequestsTyped == DOMAIN pc = Workers /\ DOMAIN req = Workers

\* A form that has passed validation.
Accepted(w) ==
  /\ req[w].form.treatment \in Treatments \cup {None}
  /\ req[w].form.type = "FIXED_TERM" => TermsKept(req[w].form.contract, req[w].key)
  /\ req[w].loaded # None => req[w].form.type = req[w].loaded.type

CreationOK(w) ==
  LET f == req[w].form
  IN  /\ ~Exists(req[w].key)
      /\ pc[w] # "clean"
      /\ f.funding # None => f.funding \in Ids /\ Exists(f.funding)
      /\ pc[w] = "commit" /\ f.type = "FIXED_TERM" /\ f.funding # None => req[w].funding = f.currency

EditOK(w) ==
  /\ Exists(req[w].key)
  /\ IsRow(req[w].loaded) /\ req[w].loaded.type = accounts[req[w].key].type

RequestOK(w) ==
  pc[w] \in AccountLines =>
    /\ req[w].key \in Ids /\ req[w].form \in Forms
    /\ req[w].loaded = None => CreationOK(w)
    /\ req[w].loaded # None => EditOK(w)
    /\ pc[w] # "clean" => Accepted(w)

OneCreation == \A v, w \in Workers : Creating(v) /\ Creating(w) => v = w

\* The inductive invariant.
IInv == TablesOK /\ RequestsTyped /\ OneCreation /\ \A w \in Workers : RequestOK(w)

-----------------------------------------------------------------------------
(***************************************************************************)
(* Rows and forms.                                                         *)
(***************************************************************************)
LEMMA RowFields ==
  ASSUME NEW f, NEW active \in BOOLEAN, NEW row, row = AccountRow(f, active)
  PROVE  row.type = f.type /\ row.treatment = f.treatment /\ row.active = active
BY DEF AccountRow

LEMMA ArchivedFields ==
  ASSUME NEW f, NEW active \in BOOLEAN, NEW no \in BOOLEAN, NEW row, row = AccountRow(f, active)
  PROVE  [row EXCEPT !.active = no] = AccountRow(f, no)
<1>1. PICK savings : savings = IF f.type = "SAVINGS" THEN f.savings ELSE None
  OBVIOUS
<1>2. ASSUME NEW b
      PROVE  AccountRow(f, b) = [type |-> f.type, currency |-> f.currency, treatment |-> f.treatment,
                                 savings |-> savings, active |-> b]
  BY <1>1 DEF AccountRow
<1>3. PICK type, currency, treatment :
        type = f.type /\ currency = f.currency /\ treatment = f.treatment
  OBVIOUS
<1>4. ASSUME NEW b
      PROVE  AccountRow(f, b) = [type |-> type, currency |-> currency, treatment |-> treatment,
                                 savings |-> savings, active |-> b]
  BY <1>2, <1>3, Zenon
<1>5. row = [type |-> type, currency |-> currency, treatment |-> treatment,
             savings |-> savings, active |-> active]
  BY <1>4
<1>6. [row EXCEPT !.active = no]
        = [type |-> type, currency |-> currency, treatment |-> treatment,
           savings |-> savings, active |-> no]
  BY <1>5
<1> QED
  BY <1>4, <1>6

LEMMA NoneIsNoRow == ~IsRow(None) /\ None \notin Ids
BY FormsAssumption, IdsAssumption DEF IsRow

\* An archived row is the row of the same form.
LEMMA ArchivedRow ==
  ASSUME NEW row, IsRow(row), NEW archived, archived = [row EXCEPT !.active = FALSE]
  PROVE  /\ IsRow(archived)
         /\ archived.type = row.type /\ archived.treatment = row.treatment
         /\ ~archived.active
         /\ \A f : row = AccountRow(f, row.active) => archived = AccountRow(f, archived.active)
<1>1. PICK g \in Forms \cup {FirstAccount}, b \in BOOLEAN : row = AccountRow(g, b)
  BY DEF IsRow
<1>2. PICK no \in BOOLEAN : no = FALSE
  OBVIOUS
<1>3. row.active = b
  BY <1>1, RowFields
<1>4. archived = AccountRow(g, no)
  BY <1>1, <1>2, ArchivedFields, Zenon
<1>5. archived.active = no
  BY <1>4, RowFields, Zenon
<1>6. IsRow(archived)
  BY <1>4 DEF IsRow
<1>7. archived.type = row.type /\ archived.treatment = row.treatment
  BY <1>1, <1>4, RowFields
<1>8. ASSUME NEW f, row = AccountRow(f, b)
      PROVE  archived = AccountRow(f, no)
  BY <1>2, <1>8, ArchivedFields, Zenon
<1>9. ~archived.active
  BY <1>2, <1>5
<1> QED
  BY <1>3, <1>5, <1>6, <1>7, <1>8, <1>9, Zenon

LEMMA FormAccepts ==
  ASSUME NEW f, NEW key, NEW loaded, NEW a, FormOk(f, key, loaded),
         key = a \/ (key = None /\ ~Exists(a))
  PROVE  /\ f.treatment \in Treatments \cup {None}
         /\ f.type = "FIXED_TERM" /\ a # None => TermsKept(f.contract, a)
         /\ loaded # None => f.type = loaded.type
<1>1. f.treatment \in Treatments \cup {None}
  BY DEF FormOk, Selectable
<1>2. ASSUME f.type = "FIXED_TERM", a # None
      PROVE  TermsKept(f.contract, a)
  <2>1. TermsOk(f.contract, key)
    BY <1>2 DEF FormOk
  <2>2. a \notin Choosable(key) \cup {None}
    BY <1>2 DEF Choosable, Active
  <2> QED
    BY <2>1, <2>2 DEF TermsOk, TermsKept
<1> QED
  BY <1>1, <1>2 DEF FormOk

-----------------------------------------------------------------------------
(***************************************************************************)
(* The requests.                                                           *)
(***************************************************************************)
LEMMA InvariantInit == Init => IInv
<1> SUFFICES ASSUME Init
             PROVE  IInv
  OBVIOUS
<1>1. FirstAccount # None /\ IsRow(FirstAccount)
  <2>1. PICK yes \in BOOLEAN : yes = TRUE
    OBVIOUS
  <2>2. FirstAccount = AccountRow(FirstAccount, yes)
    BY <2>1, FirstAssumption
  <2> QED
    BY <2>2, FormsAssumption DEF IsRow
<1>2. "active" \in DOMAIN FirstTreatment
  BY FirstAssumption DEF TreatmentRow
<1>3. TablesOK
  <2>1. ContractsWhole
    BY FirstAssumption DEF Init, ContractsWhole, Exists, LegsOf
  <2>2. \A a \in Ids : Exists(a) => IsRow(accounts[a]) /\ accounts[a].treatment \in Treatments \cup {None}
    BY <1>1, FirstAssumption DEF Init, Exists
  <2> QED
    BY <1>2, <2>1, <2>2 DEF Init, TablesOK
<1> QED
  BY <1>3 DEF Init, IInv, RequestsTyped, OneCreation, RequestOK, Creating, AccountLines

\* Only w has moved.
Alone(w) ==
  /\ DOMAIN pc' = Workers /\ DOMAIN req' = Workers
  /\ \A v \in Workers \ {w} : pc'[v] = pc[v] /\ req'[v] = req[v]

LEMMA GotoMoves ==
  ASSUME RequestsTyped, NEW w \in Workers, NEW line, Goto(w, line),
         NEW r, req' = [req EXCEPT ![w] = r]
  PROVE  Alone(w) /\ pc'[w] = line /\ req'[w] = r
BY DEF RequestsTyped, Goto, Alone

LEMMA GotoKeepsRequest ==
  ASSUME RequestsTyped, NEW w \in Workers, NEW line, Goto(w, line), UNCHANGED req
  PROVE  Alone(w) /\ pc'[w] = line /\ req'[w] = req[w]
BY DEF RequestsTyped, Goto, Alone

LEMMA EndMoves ==
  ASSUME RequestsTyped, NEW w \in Workers, End(w)
  PROVE  Alone(w) /\ pc'[w] = "idle" /\ RequestOK(w)' /\ ~Creating(w)'
BY DEF RequestsTyped, End, Goto, Alone, RequestOK, Creating, AccountLines

\* What the accounts may do under a request of v that rests.
RowsAllow(v) ==
  /\ \A a \in Ids : Exists(a) => accounts'[a] # None /\ accounts'[a].type = accounts[a].type
  /\ Creating(v) => accounts'[req[v].key] = None

LEMMA RestingRequest ==
  ASSUME NEW v, RequestOK(v), RowsAllow(v), pc'[v] = pc[v], req'[v] = req[v]
  PROVE  RequestOK(v)'
<1> SUFFICES ASSUME pc[v] \in AccountLines
             PROVE  RequestOK(v)'
  BY DEF RequestOK
<1>1. Accepted(v)' = Accepted(v)
  BY DEF Accepted
<1>2. CASE req[v].loaded = None
  <2>1. CreationOK(v) /\ Creating(v)
    BY <1>2 DEF RequestOK, Creating
  <2>2. CreationOK(v)'
    BY <2>1 DEF CreationOK, RowsAllow, Exists
  <2> QED
    BY <1>1, <1>2, <2>2 DEF RequestOK
<1>3. CASE req[v].loaded # None
  <2>1. EditOK(v)'
    BY <1>3 DEF RequestOK, EditOK, RowsAllow, Exists
  <2> QED
    BY <1>1, <1>3, <2>1 DEF RequestOK
<1> QED
  BY <1>2, <1>3

LEMMA CreationsStayOne ==
  ASSUME OneCreation, NEW w \in Workers, Alone(w),
         Creating(w)' => Creating(w) \/ ~\E v \in Workers : Creating(v)
  PROVE  OneCreation'
<1>1. \A v \in Workers \ {w} : Creating(v)' = Creating(v)
  BY DEF Alone, Creating
<1> SUFFICES ASSUME NEW u \in Workers, NEW v \in Workers, Creating(u)', Creating(v)'
             PROVE  u = v
  BY DEF OneCreation
<1> QED
  BY <1>1 DEF OneCreation

LEMMA TablesUnchanged ==
  ASSUME TablesOK, UNCHANGED <<accounts, contracts, entries, treatments>>
  PROVE  TablesOK'
BY DEF TablesOK, ContractsWhole, OpenedOnce, LegsOf, Exists

\* A step of one request that touches no table.
LEMMA TablesRest ==
  ASSUME IInv, NEW w \in Workers, Alone(w), UNCHANGED <<accounts, contracts, entries, treatments>>,
         RequestOK(w)', Creating(w)' => Creating(w) \/ ~\E v \in Workers : Creating(v)
  PROVE  IInv'
<1>1. TablesOK' /\ OneCreation' /\ RequestsTyped'
  BY TablesUnchanged, CreationsStayOne DEF IInv, Alone, RequestsTyped
<1>2. ASSUME NEW v \in Workers \ {w}
      PROVE  RequestOK(v)'
  <2>1. RequestOK(v) /\ RowsAllow(v)
    BY DEF IInv, RowsAllow, RequestOK, CreationOK, Creating, Exists
  <2> QED
    BY <2>1, RestingRequest DEF Alone
<1> QED
  BY <1>1, <1>2 DEF IInv

LEMMA CreateKeeps ==
  ASSUME IInv, NEW w \in Workers, NEW f \in Forms, Create(w, f)
  PROVE  IInv'
<1>1. PICK a \in Ids :
        /\ ~Exists(a)
        /\ req' = [req EXCEPT ![w] =
                     [key |-> a, form |-> f, loaded |-> None,
                      funding |-> IF f.funding = None THEN None ELSE accounts[f.funding].currency]]
  BY DEF Create
<1> DEFINE r == [key |-> a, form |-> f, loaded |-> None,
                 funding |-> IF f.funding = None THEN None ELSE accounts[f.funding].currency]
<1>2. Alone(w) /\ pc'[w] = "account" /\ req'[w] = r
  <2>1. Goto(w, "account") /\ req' = [req EXCEPT ![w] = r] /\ RequestsTyped
    BY <1>1 DEF IInv, Create
  <2> HIDE DEF r
  <2> QED
    BY <2>1, GotoMoves
<1>3. req'[w].key = a /\ req'[w].form = f /\ req'[w].loaded = None
  BY <1>2
<1>4. FormOk(f, None, None) /\ UNCHANGED <<accounts, contracts, entries, treatments>>
      /\ ~\E v \in Workers : Creating(v)
  BY DEF Create
<1>5. Accepted(w)'
  BY <1>1, <1>3, <1>4, FormAccepts, NoneIsNoRow DEF Accepted
<1>6. CreationOK(w)'
  <2>1. f.funding # None => f.funding \in Ids /\ Exists(f.funding)
    BY <1>4 DEF FormOk, Choosable, Active
  <2> QED
    BY <1>1, <1>2, <1>3, <1>4, <2>1 DEF CreationOK, Exists
<1>7. RequestOK(w)'
  BY <1>2, <1>3, <1>5, <1>6 DEF RequestOK
<1> QED
  BY <1>2, <1>4, <1>7, TablesRest

LEMMA EditKeeps ==
  ASSUME IInv, NEW w \in Workers, NEW a \in Ids, NEW f \in Forms, Edit(w, a, f)
  PROVE  IInv'
<1> DEFINE r == [key |-> a, form |-> f, loaded |-> accounts[a], funding |-> None]
<1>1. Alone(w) /\ pc'[w] = "clean" /\ req'[w] = r
  BY GotoMoves DEF IInv, Edit
<1>2. req'[w].key = a /\ req'[w].form = f /\ req'[w].loaded = accounts[a]
  BY <1>1
<1>3. Exists(a) /\ UNCHANGED <<accounts, contracts, entries, treatments>>
  BY DEF Edit
<1>4. RequestOK(w)' /\ ~Creating(w)'
  BY <1>1, <1>2, <1>3 DEF IInv, TablesOK, RequestOK, EditOK, Exists, Creating
<1> QED
  BY <1>1, <1>3, <1>4, TablesRest

LEMMA CleanKeeps ==
  ASSUME IInv, NEW w \in Workers, Clean(w)
  PROVE  IInv'
<1>1. UNCHANGED <<accounts, contracts, entries, treatments>> /\ pc[w] = "clean"
  BY DEF Clean
<1>2. CASE End(w)
  BY <1>1, <1>2, EndMoves, TablesRest DEF IInv
<1>3. CASE ~End(w)
  <2>1. /\ FormOk(req[w].form, req[w].key, req[w].loaded)
        /\ Alone(w) /\ pc'[w] = "account" /\ req'[w] = req[w]
    BY <1>3, GotoKeepsRequest DEF IInv, Clean
  <2>2. RequestOK(w) /\ req[w].key \in Ids /\ req[w].key # None /\ req[w].loaded # None
    BY <1>1, NoneIsNoRow DEF IInv, RequestOK, CreationOK, AccountLines
  <2>3. Accepted(w)
    <3>1. PICK f, key, loaded : f = req[w].form /\ key = req[w].key /\ loaded = req[w].loaded
      OBVIOUS
    <3>2. FormOk(f, key, loaded)
      BY <2>1, <3>1, Zenon
    <3>3. /\ f.treatment \in Treatments \cup {None}
          /\ f.type = "FIXED_TERM" /\ key # None => TermsKept(f.contract, key)
          /\ loaded # None => f.type = loaded.type
      BY <3>2, FormAccepts, Zenon
    <3> QED
      BY <2>2, <3>1, <3>3 DEF Accepted
  <2>4. RequestOK(w)' /\ ~Creating(w)'
    BY <1>1, <2>1, <2>2, <2>3 DEF RequestOK, EditOK, Accepted, Exists, Creating, AccountLines
  <2> QED
    BY <1>1, <2>1, <2>4, TablesRest
<1> QED
  BY <1>2, <1>3

\* The statements of the block, seen from outside it.
LEMMA NextLineKeeps ==
  ASSUME IInv, NEW w \in Workers, UNCHANGED <<accounts, contracts, entries, treatments>>,
         pc[w] \in {"account", "details", "opening"},
         NEW line \in {"details", "opening", "commit"}, Goto(w, line), UNCHANGED req,
         line = "commit" /\ Creating(w) /\ req[w].form.type = "FIXED_TERM" /\ req[w].form.funding # None =>
           req[w].funding = req[w].form.currency
  PROVE  IInv'
<1>1. Alone(w) /\ pc'[w] = line /\ req'[w] = req[w]
  BY GotoKeepsRequest DEF IInv
<1>2. /\ RequestOK(w) /\ pc[w] \in AccountLines /\ Accepted(w)
      /\ req[w].key \in Ids /\ req[w].form \in Forms
  BY DEF IInv, RequestOK, AccountLines
<1>3. Accepted(w)'
  BY <1>1, <1>2 DEF Accepted
<1>4. ASSUME req[w].loaded = None
      PROVE  CreationOK(w)'
  <2>1. CreationOK(w) /\ Creating(w)
    BY <1>2, <1>4 DEF RequestOK, Creating
  <2> QED
    BY <1>1, <2>1 DEF CreationOK, Exists
<1>5. ASSUME req[w].loaded # None
      PROVE  EditOK(w)'
  BY <1>1, <1>2, <1>5 DEF RequestOK, EditOK, Exists
<1>6. RequestOK(w)'
  BY <1>1, <1>2, <1>3, <1>4, <1>5 DEF RequestOK
<1>7. Creating(w)' => Creating(w)
  BY <1>1, <1>2 DEF Creating
<1> QED
  BY <1>1, <1>6, <1>7, TablesRest

LEMMA StatementsKeep ==
  ASSUME IInv, NEW w \in Workers, WriteAccount(w) \/ WriteDetails(w) \/ PostOpening(w)
  PROVE  IInv'
<1>1. CASE WriteAccount(w)
  BY <1>1, NextLineKeeps DEF WriteAccount
<1>2. CASE WriteDetails(w)
  <2>1. CASE req[w].form.type = "FIXED_TERM" /\ Creating(w)
    BY <1>2, <2>1, NextLineKeeps DEF WriteDetails
  <2>2. CASE ~(req[w].form.type = "FIXED_TERM" /\ Creating(w))
    BY <1>2, <2>2, NextLineKeeps DEF WriteDetails
  <2> QED
    BY <2>1, <2>2
<1>3. CASE PostOpening(w)
  BY <1>3, NextLineKeeps DEF PostOpening
<1> QED
  BY <1>1, <1>2, <1>3

LEMMA FailKeeps ==
  ASSUME IInv, NEW w \in Workers, Fail(w)
  PROVE  IInv'
BY EndMoves, TablesRest DEF IInv, Fail

LEMMA EditTreatmentKeeps ==
  ASSUME IInv, NEW w \in Workers, NEW t, NEW row, EditTreatment(w, t, row)
  PROVE  IInv'
<1> DEFINE r == [key |-> t, row |-> row]
<1>1. Alone(w) /\ pc'[w] = "treatment"
  <2>1. Goto(w, "treatment") /\ req' = [req EXCEPT ![w] = r]
    BY DEF EditTreatment
  <2> QED
    BY <2>1, GotoMoves DEF IInv
<1>2. RequestOK(w)' /\ ~Creating(w)'
  BY <1>1 DEF RequestOK, Creating, AccountLines
<1> QED
  BY <1>1, <1>2, TablesRest DEF EditTreatment

-----------------------------------------------------------------------------
(***************************************************************************)
(* The commit of a creation or an edit.                                    *)
(***************************************************************************)
\* OpenedOnce, of any set of legs; then without its sets.
OpenedWith(legs, a) ==
  LET own == {e \in legs : e.account = a}
      other == legs \ own
  IN  \E e \in own :
        /\ own = {e} /\ e.amount > 0
        /\ \/ other = {}
           \/ \E o \in other : other = {o} /\ o.amount = -e.amount /\ o.currency = e.currency

OpenedBy(legs, a) ==
  \E e \in legs :
    /\ e.account = a /\ e.amount > 0
    /\ \A o \in legs : o.account = a => o = e
    /\ \/ \A o \in legs : o = e
       \/ \E o \in legs : /\ o.account # a /\ o.amount = -e.amount /\ o.currency = e.currency
                          /\ \A x \in legs : x = e \/ x = o

LEMMA OpenedByLegs ==
  ASSUME NEW legs, NEW a
  PROVE  OpenedWith(legs, a) <=> OpenedBy(legs, a)
<1> DEFINE own == {e \in legs : e.account = a}
           other == legs \ own
<1>1. ASSUME NEW e \in own, own = {e}, e.amount > 0,
             \/ other = {}
             \/ \E o \in other : other = {o} /\ o.amount = -e.amount /\ o.currency = e.currency
      PROVE  OpenedBy(legs, a)
  <2>1. e \in legs /\ e.account = a /\ \A o \in legs : o.account = a => o = e
    BY <1>1
  <2>2. CASE other = {}
    <3>1. \A o \in legs : o = e
      BY <1>1, <2>2
    <3> QED
      BY <1>1, <2>1, <3>1 DEF OpenedBy
  <2>3. ASSUME NEW o \in other, other = {o}, o.amount = -e.amount, o.currency = e.currency
        PROVE  OpenedBy(legs, a)
    <3>1. o \in legs /\ o.account # a /\ \A x \in legs : x = e \/ x = o
      BY <1>1, <2>3
    <3> QED
      BY <1>1, <2>1, <2>3, <3>1 DEF OpenedBy
  <2> QED
    BY <1>1, <2>2, <2>3
<1>2. ASSUME OpenedBy(legs, a)
      PROVE  \E e \in own :
               /\ own = {e} /\ e.amount > 0
               /\ \/ other = {}
                  \/ \E o \in other : other = {o} /\ o.amount = -e.amount /\ o.currency = e.currency
  <2>1. PICK e \in legs :
          /\ e.account = a /\ e.amount > 0
          /\ \A o \in legs : o.account = a => o = e
          /\ \/ \A o \in legs : o = e
             \/ \E o \in legs : /\ o.account # a /\ o.amount = -e.amount /\ o.currency = e.currency
                                /\ \A x \in legs : x = e \/ x = o
    BY <1>2 DEF OpenedBy
  <2>2. e \in own /\ own = {e}
    BY <2>1
  <2>3. CASE \A o \in legs : o = e
    <3>1. other = {}
      BY <2>2, <2>3
    <3> QED
      BY <2>1, <2>2, <3>1
  <2>4. ASSUME NEW o \in legs, o.account # a, o.amount = -e.amount, o.currency = e.currency,
               \A x \in legs : x = e \/ x = o
        PROVE  o \in other /\ other = {o}
    BY <2>1, <2>4
  <2> QED
    BY <2>1, <2>2, <2>3, <2>4
<1> QED
  BY <1>1, <1>2 DEF OpenedWith

\* The legs a creation posts open the account once.
LEMMA OpeningOpens ==
  ASSUME NEW a, NEW f, NEW currency, f.contract.principal \in Int, f.contract.principal > 0,
         f.funding # None => f.funding # a /\ currency = f.currency
  PROVE  /\ OpenedBy(Opening(a, f, currency), a)
         /\ \A e \in Opening(a, f, currency) :
              e.opens = a /\ (e.account = a \/ (f.funding # None /\ e.account = f.funding))
<1> PICK principal : principal = f.contract.principal
  OBVIOUS
<1> DEFINE own == Leg(a, a, principal, f.currency, f)
           other == Leg(a, f.funding, -principal, currency, f)
<1>1. /\ own.opens = a /\ own.account = a /\ own.amount = principal /\ own.currency = f.currency
      /\ other.opens = a /\ other.account = f.funding /\ other.amount = -principal
      /\ other.currency = currency
  BY DEF Leg
<1>2. Opening(a, f, currency) = IF f.funding = None THEN {own} ELSE {own, other}
  BY DEF Opening
<1> HIDE DEF own, other
<1>3. CASE f.funding = None
  BY <1>1, <1>2, <1>3 DEF OpenedBy
<1>4. CASE f.funding # None
  BY <1>1, <1>2, <1>4 DEF OpenedBy
<1> QED
  BY <1>3, <1>4

\* The active column a commit writes.
LEMMA CommitMoves ==
  ASSUME IInv, NEW w \in Workers, Commit(w)
  PROVE  /\ pc[w] = "commit" /\ RequestOK(w) /\ Accepted(w)
         /\ req[w].key \in Ids /\ req[w].form \in Forms
         /\ \E on \in BOOLEAN :
              /\ accounts' = [accounts EXCEPT ![req[w].key] = AccountRow(req[w].form, on)]
              /\ req[w].loaded # None => on = req[w].loaded.active
<1>1. /\ pc[w] = "commit" /\ RequestOK(w) /\ Accepted(w)
      /\ req[w].key \in Ids /\ req[w].form \in Forms
  BY DEF IInv, Commit, RequestOK, AccountLines
<1>2. PICK on \in BOOLEAN : on = (Creating(w) \/ req[w].loaded.active)
  OBVIOUS
<1>3. accounts' = [accounts EXCEPT ![req[w].key] = AccountRow(req[w].form, on)]
  BY <1>2, Zenon DEF Commit
<1>4. ASSUME req[w].loaded # None
      PROVE  on = req[w].loaded.active
  <2>1. IsRow(req[w].loaded) /\ ~Creating(w)
    BY <1>1, <1>4 DEF RequestOK, EditOK, Creating, AccountLines
  <2>2. PICK b \in BOOLEAN : req[w].loaded.active = b
    <3>1. PICK loaded : loaded = req[w].loaded
      OBVIOUS
    <3>2. PICK f \in Forms \cup {FirstAccount}, b \in BOOLEAN : loaded = AccountRow(f, b)
      BY <2>1, <3>1 DEF IsRow
    <3>3. loaded.active = b
      BY <3>2, RowFields
    <3> QED
      BY <3>1, <3>3
  <2> QED
    BY <1>2, <2>1, <2>2
<1> QED
  BY <1>1, <1>3, <1>4, Zenon

\* A commit leaves every account where it was, but its own, which keeps its
\* type, and adds legs to the account it creates only.
Committed(w, a, f, on) ==
  /\ DOMAIN accounts' = Ids /\ DOMAIN contracts' = Ids
  /\ \A b \in Ids \ {a} :
       accounts'[b] = accounts[b] /\ contracts'[b] = contracts[b] /\ LegsOf(b)' = LegsOf(b)
  /\ accounts'[a] = AccountRow(f, on) /\ IsRow(accounts'[a]) /\ accounts'[a] # None
  /\ accounts'[a].type = f.type /\ accounts'[a].treatment = f.treatment
  /\ contracts'[a] = IF f.type = "FIXED_TERM" THEN f.contract ELSE None
  /\ Exists(a) => ~Creating(w) /\ accounts[a].type = f.type /\ entries' = entries
  /\ ~Exists(a) => /\ Creating(w)
                   /\ LegsOf(a)' = IF f.type = "FIXED_TERM" THEN Opening(a, f, req[w].funding) ELSE {}

LEMMA CommitEffect ==
  ASSUME IInv, NEW w \in Workers, Commit(w),
         NEW a \in Ids, a = req[w].key, NEW f \in Forms, f = req[w].form,
         NEW on \in BOOLEAN, accounts' = [accounts EXCEPT ![a] = AccountRow(f, on)]
  PROVE  Committed(w, a, f, on)
<1>1. pc[w] = "commit" /\ RequestOK(w) /\ Accepted(w) /\ pc[w] \in AccountLines
  BY CommitMoves DEF AccountLines
<1>2. /\ contracts' = [contracts EXCEPT ![a] = IF f.type = "FIXED_TERM" THEN f.contract ELSE None]
      /\ entries' = entries \cup (IF f.type = "FIXED_TERM" /\ Creating(w)
                                  THEN Opening(a, f, req[w].funding) ELSE {})
  BY DEF Commit
<1>3. DOMAIN accounts' = Ids /\ DOMAIN contracts' = Ids
  BY <1>2 DEF IInv, TablesOK
<1>4. \A e \in Opening(a, f, req[w].funding) : e.opens = a
  BY DEF Opening, Leg
<1>5. ASSUME NEW b \in Ids \ {a}
      PROVE  accounts'[b] = accounts[b] /\ contracts'[b] = contracts[b] /\ LegsOf(b)' = LegsOf(b)
  BY <1>2, <1>4 DEF IInv, TablesOK, LegsOf
<1>6. accounts'[a] = AccountRow(f, on)
  BY DEF IInv, TablesOK
<1>7. IsRow(accounts'[a]) /\ accounts'[a] # None
  BY <1>6, NoneIsNoRow DEF IsRow
<1>8. accounts'[a].type = f.type /\ accounts'[a].treatment = f.treatment
  BY <1>6, RowFields
<1>9. contracts'[a] = IF f.type = "FIXED_TERM" THEN f.contract ELSE None
  BY <1>2 DEF IInv, TablesOK
<1>10. ASSUME Exists(a)
       PROVE  ~Creating(w) /\ accounts[a].type = f.type /\ entries' = entries
  <2>1. req[w].loaded # None /\ EditOK(w)
    BY <1>1, <1>10 DEF RequestOK, CreationOK
  <2> QED
    BY <1>1, <1>2, <2>1 DEF Creating, EditOK, Accepted
<1>11. ASSUME ~Exists(a)
       PROVE  /\ Creating(w)
              /\ LegsOf(a)' = IF f.type = "FIXED_TERM" THEN Opening(a, f, req[w].funding) ELSE {}
  <2>1. Creating(w)
    BY <1>1, <1>11 DEF RequestOK, EditOK, Creating
  <2>2. \A e \in entries : e.opens # a
    BY <1>11 DEF IInv, TablesOK, ContractsWhole, LegsOf
  <2> QED
    BY <1>2, <1>4, <2>1, <2>2 DEF LegsOf
<1> QED
  BY <1>3, <1>5, <1>6, <1>7, <1>8, <1>9, <1>10, <1>11 DEF Committed

LEMMA CommitKeepsWhole ==
  ASSUME IInv, NEW w \in Workers, Commit(w)
  PROVE  ContractsWhole'
<1>1. /\ pc[w] = "commit" /\ RequestOK(w) /\ Accepted(w) /\ pc[w] \in AccountLines
      /\ req[w].key \in Ids /\ req[w].form \in Forms
  BY CommitMoves DEF AccountLines
<1>2. PICK on \in BOOLEAN :
        accounts' = [accounts EXCEPT ![req[w].key] = AccountRow(req[w].form, on)]
  BY CommitMoves, Zenon
<1>3. PICK a \in Ids, f \in Forms : a = req[w].key /\ f = req[w].form
  BY <1>1
<1>4. accounts' = [accounts EXCEPT ![a] = AccountRow(f, on)]
  BY <1>2, <1>3
<1>0. Committed(w, a, f, on)
  BY <1>3, <1>4, CommitEffect
<1>5. \A b \in Ids \ {a} :
        accounts'[b] = accounts[b] /\ contracts'[b] = contracts[b] /\ LegsOf(b)' = LegsOf(b)
  BY <1>0 DEF Committed
<1>6. /\ accounts'[a] = AccountRow(f, on) /\ accounts'[a] # None
      /\ accounts'[a].type = f.type
      /\ contracts'[a] = IF f.type = "FIXED_TERM" THEN f.contract ELSE None
  BY <1>0 DEF Committed
<1>7. f.type = "FIXED_TERM" => f.contract # None /\ f.contract.principal > 0
  BY <1>1, <1>3 DEF Accepted, TermsKept
<1>8. IF f.type = "FIXED_TERM" THEN OpenedWith(LegsOf(a)', a) ELSE LegsOf(a)' = {}
  <2>1. CASE Exists(a)
    <3>1. accounts[a].type = f.type /\ LegsOf(a)' = LegsOf(a)
      BY <1>0, <2>1 DEF Committed, LegsOf
    <3> QED
      BY <2>1, <3>1 DEF IInv, TablesOK, ContractsWhole, OpenedOnce, OpenedWith
  <2>2. CASE ~Exists(a)
    <3>1. /\ Creating(w)
          /\ LegsOf(a)' = IF f.type = "FIXED_TERM" THEN Opening(a, f, req[w].funding) ELSE {}
      BY <1>0, <2>2 DEF Committed
    <3>2. CreationOK(w)
      BY <1>1, <3>1 DEF RequestOK, Creating
    <3>3. ASSUME f.type = "FIXED_TERM"
          PROVE  OpenedWith(Opening(a, f, req[w].funding), a)
      <4>1. f.funding # None => f.funding # a /\ req[w].funding = f.currency
        BY <1>1, <1>3, <2>2, <3>2, <3>3 DEF CreationOK
      <4>2. f.contract.principal \in Int /\ f.contract.principal > 0
        BY <1>7, <3>3, FormsAssumption
      <4> QED
        BY <4>1, <4>2, OpeningOpens, OpenedByLegs
    <3> QED
      BY <3>1, <3>3
  <2> QED
    BY <2>1, <2>2
<1>9. ASSUME NEW b \in Ids
      PROVE  /\ (accounts'[b] # None /\ accounts'[b].type = "FIXED_TERM") <=> contracts'[b] # None
             /\ IF accounts'[b] # None /\ accounts'[b].type = "FIXED_TERM"
                THEN OpenedWith(LegsOf(b)', b) ELSE LegsOf(b)' = {}
             /\ accounts'[b] # None /\ accounts'[b].type = "FIXED_TERM" =>
                  \E g \in Forms : /\ contracts'[b] = g.contract
                                   /\ accounts'[b] = AccountRow(g, accounts'[b].active)
  <2>1. CASE b = a
    <3>1. accounts'[a].active = on
      BY <1>6, RowFields
    <3> QED
      BY <1>6, <1>7, <1>8, <2>1, <3>1
  <2>2. CASE b # a
    BY <1>5, <2>2 DEF IInv, TablesOK, ContractsWhole, OpenedOnce, OpenedWith, Exists
  <2> QED
    BY <2>1, <2>2
<1>10. \A e \in entries' : accounts'[e.account] # None
  <2>1. ASSUME NEW e \in entries
        PROVE  accounts'[e.account] # None
    <3>1. Exists(e.account)
      BY DEF IInv, TablesOK, ContractsWhole
    <3>2. CASE e.account \in Ids
      BY <1>5, <1>6, <3>1, <3>2 DEF Exists
    <3>3. CASE e.account \notin Ids
      BY <1>4, <3>1, <3>3 DEF Exists, IInv, TablesOK
    <3> QED
      BY <3>2, <3>3
  <2>2. ASSUME NEW e \in Opening(a, f, req[w].funding), f.type = "FIXED_TERM", Creating(w)
        PROVE  accounts'[e.account] # None
    <3>1. CreationOK(w)
      BY <1>1, <2>2 DEF RequestOK, Creating
    <3>2. f.funding # None => f.funding \in Ids \ {a} /\ Exists(f.funding)
      BY <1>3, <3>1 DEF CreationOK
    <3>3. e.account = a \/ (f.funding # None /\ e.account = f.funding)
      BY DEF Opening, Leg
    <3> QED
      BY <1>5, <1>6, <3>2, <3>3 DEF Exists
  <2>3. entries' = entries \cup (IF f.type = "FIXED_TERM" /\ Creating(w)
                                 THEN Opening(a, f, req[w].funding) ELSE {})
    BY <1>3 DEF Commit
  <2> QED
    BY <2>1, <2>2, <2>3
<1> QED
  BY <1>9, <1>10 DEF ContractsWhole, OpenedOnce, OpenedWith, Exists

LEMMA CommitKeeps ==
  ASSUME IInv, NEW w \in Workers, Commit(w)
  PROVE  IInv'
<1>1. /\ pc[w] = "commit" /\ RequestOK(w) /\ Accepted(w)
      /\ req[w].key \in Ids /\ req[w].form \in Forms
  BY CommitMoves
<1>2. PICK on \in BOOLEAN :
        accounts' = [accounts EXCEPT ![req[w].key] = AccountRow(req[w].form, on)]
  BY CommitMoves, Zenon
<1>3. PICK a \in Ids, f \in Forms : a = req[w].key /\ f = req[w].form
  BY <1>1
<1>4. Committed(w, a, f, on)
  BY <1>2, <1>3, CommitEffect
<1>5. Alone(w) /\ pc'[w] = "idle" /\ RequestOK(w)' /\ ~Creating(w)'
  BY EndMoves DEF IInv, Commit
<1>6. TablesOK'
  <2>1. DOMAIN accounts' = Ids /\ DOMAIN contracts' = Ids /\ treatments' = treatments
    BY <1>4 DEF Committed, Commit
  <2>2. ASSUME NEW b \in Ids, accounts'[b] # None
        PROVE  IsRow(accounts'[b]) /\ accounts'[b].treatment \in Treatments \cup {None}
    BY <1>1, <1>3, <1>4, <2>2 DEF Committed, Accepted, IInv, TablesOK, Exists
  <2>3. ASSUME NEW b \in Ids, contracts'[b] # None
        PROVE  TermsKept(contracts'[b], b)
    BY <1>1, <1>3, <1>4, <2>3 DEF Committed, Accepted, IInv, TablesOK
  <2> QED
    BY <2>1, <2>2, <2>3, CommitKeepsWhole DEF IInv, TablesOK, Exists
<1>7. RequestsTyped' /\ OneCreation'
  BY <1>5, CreationsStayOne DEF IInv, Alone, RequestsTyped
<1>8. ASSUME NEW v \in Workers \ {w}
      PROVE  RequestOK(v)'
  <2>1. ASSUME NEW b \in Ids, Exists(b)
        PROVE  accounts'[b] # None /\ accounts'[b].type = accounts[b].type
    BY <1>4, <2>1 DEF Committed, Exists
  <2>2. ASSUME Creating(v)
        PROVE  accounts'[req[v].key] = None
    <3>1. req[v].key \in Ids /\ ~Exists(req[v].key)
      BY <2>2 DEF IInv, RequestOK, CreationOK, Creating
    <3>2. ~Creating(w)
      BY <2>2 DEF IInv, OneCreation
    <3>3. req[v].key # a
      BY <1>4, <3>1, <3>2 DEF Committed
    <3> QED
      BY <1>4, <3>1, <3>3 DEF Committed, Exists
  <2>3. RequestOK(v) /\ RowsAllow(v)
    BY <2>1, <2>2 DEF IInv, RowsAllow
  <2> QED
    BY <1>5, <2>3, RestingRequest DEF Alone
<1> QED
  BY <1>5, <1>6, <1>7, <1>8 DEF IInv

-----------------------------------------------------------------------------
(***************************************************************************)
(* Archiving, and the treatments.                                          *)
(***************************************************************************)
LEMMA ArchiveMoves ==
  ASSUME IInv, NEW a \in Ids, Archive(a)
  PROVE  /\ DOMAIN accounts' = Ids /\ UNCHANGED <<contracts, entries, treatments, pc, req>>
         /\ \A b \in Ids \ {a} : accounts'[b] = accounts[b]
         /\ Exists(a) /\ IsRow(accounts[a])
         /\ accounts'[a] = [accounts[a] EXCEPT !.active = FALSE]
BY DEF Archive, IInv, TablesOK

LEMMA ArchiveKeeps ==
  ASSUME IInv, NEW a \in Ids, Archive(a)
  PROVE  IInv'
<1>1. /\ DOMAIN accounts' = Ids /\ UNCHANGED <<contracts, entries, treatments, pc, req>>
      /\ \A b \in Ids \ {a} : accounts'[b] = accounts[b]
      /\ Exists(a) /\ IsRow(accounts[a])
      /\ accounts'[a] = [accounts[a] EXCEPT !.active = FALSE]
  BY ArchiveMoves
<1>2. /\ IsRow(accounts'[a]) /\ accounts'[a] # None
      /\ accounts'[a].type = accounts[a].type /\ accounts'[a].treatment = accounts[a].treatment
      /\ \A f : accounts[a] = AccountRow(f, accounts[a].active) =>
           accounts'[a] = AccountRow(f, accounts'[a].active)
  BY <1>1, ArchivedRow, NoneIsNoRow
<1>3. \A b : LegsOf(b)' = LegsOf(b)
  BY <1>1 DEF LegsOf
<1>4. ContractsWhole'
  <2>1. ASSUME NEW b \in Ids
        PROVE  /\ (accounts'[b] # None /\ accounts'[b].type = "FIXED_TERM") <=> contracts'[b] # None
               /\ IF accounts'[b] # None /\ accounts'[b].type = "FIXED_TERM"
                  THEN OpenedWith(LegsOf(b)', b) ELSE LegsOf(b)' = {}
               /\ accounts'[b] # None /\ accounts'[b].type = "FIXED_TERM" =>
                    \E g \in Forms : /\ contracts'[b] = g.contract
                                     /\ accounts'[b] = AccountRow(g, accounts'[b].active)
    <3>1. /\ (Exists(b) /\ accounts[b].type = "FIXED_TERM") <=> contracts[b] # None
          /\ IF Exists(b) /\ accounts[b].type = "FIXED_TERM"
             THEN OpenedWith(LegsOf(b), b) ELSE LegsOf(b) = {}
          /\ Exists(b) /\ accounts[b].type = "FIXED_TERM" =>
               \E g \in Forms : /\ contracts[b] = g.contract
                                /\ accounts[b] = AccountRow(g, accounts[b].active)
      BY DEF IInv, TablesOK, ContractsWhole, OpenedOnce, OpenedWith
    <3>2. CASE b = a
      BY <1>1, <1>2, <1>3, <3>1, <3>2
    <3>3. CASE b # a
      BY <1>1, <1>3, <3>1, <3>3 DEF Exists
    <3> QED
      BY <3>2, <3>3
  <2>2. \A e \in entries' : accounts'[e.account] # None
    <3>1. \A b \in Ids : Exists(b) => accounts'[b] # None
      BY <1>1, <1>2 DEF Exists
    <3>2. accounts' = [accounts EXCEPT ![a].active = FALSE]
      BY DEF Archive
    <3>3. ASSUME NEW e \in entries
          PROVE  accounts'[e.account] # None
      <4>1. Exists(e.account)
        BY DEF IInv, TablesOK, ContractsWhole
      <4>2. CASE e.account \in Ids
        BY <3>1, <4>1, <4>2
      <4>3. CASE e.account \notin Ids
        BY <3>2, <4>1, <4>3 DEF Exists, IInv, TablesOK
      <4> QED
        BY <4>2, <4>3
    <3> QED
      BY <1>1, <3>3
  <2> QED
    BY <2>1, <2>2 DEF ContractsWhole, OpenedOnce, OpenedWith, Exists
<1>5. TablesOK'
  BY <1>1, <1>2, <1>4 DEF IInv, TablesOK, Exists
<1>6. ASSUME NEW v \in Workers
      PROVE  RequestOK(v)'
  <2>1. Creating(v) => req[v].key \in Ids \ {a}
    BY <1>1 DEF IInv, RequestOK, CreationOK, Creating
  <2>2. RowsAllow(v)
    BY <1>1, <1>2, <2>1 DEF IInv, RowsAllow, RequestOK, CreationOK, Creating, Exists
  <2> QED
    BY <1>1, <2>2, RestingRequest DEF IInv
<1>7. RequestsTyped' /\ OneCreation'
  BY <1>1 DEF IInv, RequestsTyped, OneCreation, Creating
<1> QED
  BY <1>5, <1>6, <1>7 DEF IInv

LEMMA TreatmentMoves ==
  ASSUME IInv, NEW t, NEW row, "active" \in DOMAIN row,
         treatments' = [treatments EXCEPT ![t] = row], UNCHANGED <<accounts, contracts, entries>>
  PROVE  TablesOK'
BY DEF IInv, TablesOK, ContractsWhole, OpenedOnce, LegsOf, Exists

LEMMA SaveTreatmentKeeps ==
  ASSUME IInv, NEW w \in Workers, SaveTreatment(w)
  PROVE  IInv'
<1>1. PICK t, row : t = req[w].key /\ row = TreatmentRow(req[w].row)
  OBVIOUS
<1>2. "active" \in DOMAIN row
  BY <1>1 DEF TreatmentRow
<1>3. TablesOK'
  BY <1>1, <1>2, TreatmentMoves DEF SaveTreatment
<1>4. Alone(w) /\ RequestOK(w)' /\ ~Creating(w)'
  BY EndMoves DEF IInv, SaveTreatment
<1>5. ASSUME NEW v \in Workers \ {w}
      PROVE  RequestOK(v)'
  <2>1. RequestOK(v) /\ RowsAllow(v)
    BY DEF IInv, RowsAllow, RequestOK, CreationOK, Creating, Exists, SaveTreatment
  <2> QED
    BY <1>4, <2>1, RestingRequest DEF Alone
<1>6. RequestsTyped' /\ OneCreation'
  BY <1>4, CreationsStayOne DEF IInv, Alone, RequestsTyped
<1> QED
  BY <1>3, <1>4, <1>5, <1>6 DEF IInv

LEMMA ArchiveTreatmentKeeps ==
  ASSUME IInv, NEW t \in Treatments, ArchiveTreatment(t)
  PROVE  IInv'
<1>1. PICK row : row = [treatments[t] EXCEPT !.active = FALSE]
  OBVIOUS
<1>2. "active" \in DOMAIN row
  BY <1>1 DEF IInv, TablesOK
<1>3. treatments' = [treatments EXCEPT ![t] = row]
  BY <1>1 DEF ArchiveTreatment
<1>4. TablesOK'
  BY <1>2, <1>3, TreatmentMoves DEF ArchiveTreatment
<1>5. ASSUME NEW v \in Workers
      PROVE  RequestOK(v)'
  <2>1. RequestOK(v) /\ RowsAllow(v)
    BY DEF IInv, RowsAllow, RequestOK, CreationOK, Creating, Exists, ArchiveTreatment
  <2> QED
    BY <2>1, RestingRequest DEF ArchiveTreatment
<1> QED
  BY <1>4, <1>5 DEF IInv, RequestsTyped, OneCreation, Creating, ArchiveTreatment

-----------------------------------------------------------------------------
LEMMA InvariantNext ==
  ASSUME IInv, [Next]_vars
  PROVE  IInv'
<1>1. CASE UNCHANGED vars
  <2>1. UNCHANGED <<accounts, contracts, entries, treatments, pc, req>>
    BY <1>1 DEF vars
  <2>2. TablesOK' /\ RequestsTyped' /\ OneCreation'
    BY <2>1, TablesUnchanged DEF IInv, RequestsTyped, OneCreation, Creating
  <2>3. ASSUME NEW v \in Workers
        PROVE  RequestOK(v)'
    <3>1. RequestOK(v) /\ RowsAllow(v)
      BY <2>1 DEF IInv, RowsAllow, RequestOK, CreationOK, Creating, Exists
    <3> QED
      BY <2>1, <3>1, RestingRequest
  <2> QED
    BY <2>2, <2>3 DEF IInv
<1>2. ASSUME NEW w \in Workers,
             \/ Clean(w) \/ WriteAccount(w) \/ WriteDetails(w) \/ PostOpening(w)
             \/ Commit(w) \/ Fail(w) \/ SaveTreatment(w)
      PROVE  IInv'
  BY <1>2, CleanKeeps, StatementsKeep, CommitKeeps, FailKeeps, SaveTreatmentKeeps
<1>3. ASSUME NEW w \in Workers,
             \/ \E f \in Forms : Create(w, f) \/ \E a \in Ids : Edit(w, a, f)
             \/ \E t \in Treatments, row \in TreatmentRows : EditTreatment(w, t, row)
      PROVE  IInv'
  BY <1>3, CreateKeeps, EditKeeps, EditTreatmentKeeps
<1> QED
  BY <1>1, <1>2, <1>3, ArchiveKeeps, ArchiveTreatmentKeeps DEF Next

LEMMA Invariant == Spec => []IInv
<1>1. IInv /\ [Next]_vars => IInv'
  BY InvariantNext
<1> QED
  BY <1>1, InvariantInit, PTL DEF Spec

\* README.md:200-203 and the atomic() of accounts/views.py:104 and :137: an
\* account is a fixed-term deposit with its contract and its one opening, or
\* neither, whatever fails, overlaps or is edited.
THEOREM ContractsStayWhole == Spec => []ContractsWhole
<1>1. IInv => ContractsWhole
  BY DEF IInv, TablesOK
<1> QED
  BY <1>1, Invariant, PTL

LEMMA InitialFormAccepted ==
  ASSUME IInv, NEW a \in Ids, Exists(a),
         contracts[a] # None =>
           {contracts[a].destination, contracts[a].maturityDestination} \subseteq Active \cup {None}
  PROVE  FormOk(InitialForm(a), a, accounts[a])
<1>1. /\ InitialForm(a).type = accounts[a].type
      /\ InitialForm(a).treatment = accounts[a].treatment
      /\ InitialForm(a).contract = contracts[a]
  BY DEF InitialForm
<1>2. InitialForm(a).treatment \in Selectable(accounts[a])
  BY <1>1 DEF IInv, TablesOK, Exists, Selectable
<1>3. ASSUME accounts[a].type = "FIXED_TERM"
      PROVE  TermsOk(contracts[a], a)
  <2>1. contracts[a] # None
    BY <1>3 DEF IInv, TablesOK, ContractsWhole
  <2>2. TermsKept(contracts[a], a)
    BY <2>1 DEF IInv, TablesOK
  <2>3. {contracts[a].destination, contracts[a].maturityDestination} \subseteq Choosable(a) \cup {None}
    BY <2>1, <2>2 DEF TermsKept, Choosable
  <2> QED
    BY <2>2, <2>3 DEF TermsKept, TermsOk
<1> QED
  BY <1>1, <1>2, <1>3, NoneIsNoRow DEF FormOk

\* accounts/forms.py:107-110 and :122-142: the edit page sent back unchanged is
\* accepted, unless an account its contract names is archived.
THEOREM EditPageStaysAccepted == Spec => []EditPageAccepted
<1>1. IInv => EditPageAccepted
  BY InitialFormAccepted DEF EditPageAccepted
<1> QED
  BY <1>1, Invariant, PTL

LEMMA AccountStaysArchived ==
  ASSUME IInv, [Next]_vars, NEW a \in Ids, Exists(a), ~accounts[a].active,
         \A w \in Busy(a) : ~req[w].loaded.active
  PROVE  ~accounts'[a].active
<1>1. ASSUME NEW w \in Workers, Commit(w)
      PROVE  ~accounts'[a].active
  <2>1. pc[w] = "commit" /\ RequestOK(w) /\ req[w].key \in Ids /\ req[w].form \in Forms
    BY <1>1, CommitMoves
  <2>2. PICK on \in BOOLEAN :
          /\ accounts' = [accounts EXCEPT ![req[w].key] = AccountRow(req[w].form, on)]
          /\ req[w].loaded # None => on = req[w].loaded.active
    BY <1>1, CommitMoves, Zenon
  <2>3. CASE req[w].key = a
    <3>1. req[w].loaded # None /\ w \in Busy(a)
      BY <2>1, <2>3 DEF RequestOK, CreationOK, Busy, AccountLines
    <3>2. ~on
      BY <2>2, <3>1
    <3>3. accounts'[a] = AccountRow(req[w].form, on)
      BY <2>2, <2>3 DEF IInv, TablesOK
    <3>4. accounts'[a].active = on
      BY <3>3, RowFields
    <3> QED
      BY <3>2, <3>4
  <2>4. CASE req[w].key # a
    BY <2>2, <2>4
  <2> QED
    BY <2>3, <2>4
<1>2. ASSUME NEW b \in Ids, Archive(b)
      PROVE  ~accounts'[a].active
  <2>1. CASE a = b
    BY <1>2, <2>1, ArchiveMoves, ArchivedRow
  <2>2. CASE a # b
    BY <1>2, <2>2, ArchiveMoves
  <2> QED
    BY <2>1, <2>2
<1>3. CASE accounts' = accounts
  BY <1>3
<1>4. \/ accounts' = accounts
      \/ \E w \in Workers : Commit(w)
      \/ \E b \in Ids : Archive(b)
  BY DEF Next, vars, Clean, WriteAccount, WriteDetails, PostOpening, Fail, SaveTreatment, Create,
         Edit, EditTreatment, ArchiveTreatment
<1> QED
  BY <1>1, <1>2, <1>3, <1>4

LEMMA TreatmentStaysArchived ==
  ASSUME IInv, [Next]_vars, NEW t \in Treatments, ~treatments[t].active,
         ~\E w \in Workers : pc[w] = "treatment" /\ req[w].key = t
  PROVE  ~treatments'[t].active
<1>1. ASSUME NEW w \in Workers, SaveTreatment(w)
      PROVE  treatments'[t] = treatments[t]
  BY <1>1 DEF SaveTreatment
<1>2. ASSUME NEW u \in Treatments, ArchiveTreatment(u)
      PROVE  ~treatments'[t].active
  <2>1. CASE u = t
    <3>1. treatments'[t] = [treatments[t] EXCEPT !.active = FALSE]
      BY <1>2, <2>1 DEF ArchiveTreatment, IInv, TablesOK
    <3> QED
      BY <3>1 DEF IInv, TablesOK
  <2>2. CASE u # t
    BY <1>2, <2>2 DEF ArchiveTreatment
  <2> QED
    BY <2>1, <2>2
<1>3. \/ treatments' = treatments
      \/ \E w \in Workers : SaveTreatment(w)
      \/ \E u \in Treatments : ArchiveTreatment(u)
  BY DEF Next, vars, Clean, WriteAccount, WriteDetails, PostOpening, Fail, Commit, Create,
         Edit, EditTreatment, Archive
<1> QED
  BY <1>1, <1>2, <1>3

\* accounts/views.py:149: what is archived stays archived, but for a request
\* that loaded the row before and writes every column back.
THEOREM ArchivedStays == Spec => ArchiveSticks
<1>1. IInv /\ [Next]_vars =>
        [/\ \A a \in Ids :
              /\ Exists(a) /\ ~accounts[a].active
              /\ \A w \in Busy(a) : ~req[w].loaded.active
              => ~accounts'[a].active
         /\ \A t \in Treatments :
              /\ ~treatments[t].active
              /\ ~\E w \in Workers : pc[w] = "treatment" /\ req[w].key = t
              => ~treatments'[t].active]_vars
  BY AccountStaysArchived, TreatmentStaysArchived
<1> QED
  BY <1>1, Invariant, PTL DEF Spec, ArchiveSticks

-----------------------------------------------------------------------------
(***************************************************************************)
(* Powers, and quotients that are rounded.                                 *)
(***************************************************************************)
LEMMA LeastNatural ==
  ASSUME NEW S \in SUBSET Nat, S # {}
  PROVE  \E n \in S : \A m \in S : n <= m
<1>1. \E x \in S : \A y \in S : ~(<<y, x>> \in OpToRel(<, Nat))
  BY WFMin, NatLessThanWellFounded
<1>2. PICK x \in S : \A y \in S : ~(y < x)
  BY <1>1 DEF OpToRel
<1> QED BY <1>2

LEMMA SetInduction ==
  ASSUME NEW S \in SUBSET Nat, 0 \in S, \A n \in S : n + 1 \in S
  PROVE  S = Nat
<1> SUFFICES ASSUME Nat \ S # {} PROVE FALSE
  OBVIOUS
<1>1. PICK n \in Nat \ S : \A m \in Nat \ S : n <= m
  BY LeastNatural
<1>2. n - 1 \in Nat /\ n - 1 \notin Nat \ S
  BY <1>1
<1> QED BY <1>2

\* f lists the powers of base up to n.
Lists(f, base, n) ==
  /\ f \in [0..n -> Int]
  /\ f[0] = 1
  /\ \A k \in 0..n : k > 0 => f[k] = base * f[k - 1]

LEMMA ListsAgree ==
  ASSUME NEW base \in Int, NEW m \in Nat, NEW n \in Nat, m <= n, NEW f, NEW g,
         Lists(f, base, m), Lists(g, base, n), NEW k \in 0..m
  PROVE  f[k] = g[k]
<1> DEFINE S == {j \in Nat : j <= m => f[j] = g[j]}
<1>1. 0 \in S
  BY DEF Lists
<1>2. ASSUME NEW j \in S PROVE j + 1 \in S
  <2> SUFFICES ASSUME j + 1 <= m PROVE f[j + 1] = g[j + 1]
    OBVIOUS
  <2>1. f[j] = g[j]
    OBVIOUS
  <2>2. f[j + 1] = base * f[j] /\ g[j + 1] = base * g[j]
    <3>1. j + 1 \in 0..m /\ j + 1 \in 0..n /\ j + 1 > 0 /\ (j + 1) - 1 = j
      OBVIOUS
    <3> QED BY <3>1 DEF Lists
  <2> QED BY <2>1, <2>2
<1>3. S = Nat
  <2> HIDE DEF S
  <2>1. S \in SUBSET Nat
    BY DEF S
  <2> QED BY <1>1, <1>2, <2>1, SetInduction
<1> QED BY <1>3

LEMMA ListsExist ==
  ASSUME NEW base \in Int, NEW n \in Nat
  PROVE  \E f \in [0..n -> Int] : Lists(f, base, n)
<1> DEFINE S == {m \in Nat : \E f \in [0..m -> Int] : Lists(f, base, m)}
<1>1. 0 \in S
  <2>1. Lists([k \in 0..0 |-> 1], base, 0)
    BY DEF Lists
  <2> QED BY <2>1
<1>2. ASSUME NEW m \in S PROVE m + 1 \in S
  <2>1. PICK f \in [0..m -> Int] : Lists(f, base, m)
    OBVIOUS
  <2> DEFINE g == [k \in 0..(m + 1) |-> IF k = m + 1 THEN base * f[m] ELSE f[k]]
  <2>2. g \in [0..(m + 1) -> Int]
    <3> SUFFICES ASSUME NEW k \in 0..(m + 1), k # m + 1 PROVE f[k] \in Int
      OBVIOUS
    <3> QED OBVIOUS
  <2>3. g[0] = 1
    BY <2>1 DEF Lists
  <2>4. ASSUME NEW k \in 0..(m + 1), k > 0 PROVE g[k] = base * g[k - 1]
    <3>1. CASE k = m + 1
      BY <3>1
    <3>2. CASE k # m + 1
      <4>1. k \in 0..m /\ k - 1 \in 0..m /\ k - 1 # m + 1
        BY <2>4, <3>2
      <4>2. f[k] = base * f[k - 1]
        BY <2>1, <2>4, <4>1 DEF Lists
      <4> QED BY <4>1, <4>2
    <3> QED BY <3>1, <3>2
  <2>5. Lists(g, base, m + 1)
    <3> HIDE DEF g
    <3> QED BY <2>2, <2>3, <2>4 DEF Lists
  <2> HIDE DEF g
  <2> QED BY <2>2, <2>5
<1>3. S = Nat
  <2> HIDE DEF S
  <2>1. S \in SUBSET Nat
    BY DEF S
  <2> QED BY <1>1, <1>2, <2>1, SetInduction
<1> QED BY <1>3

LEMMA PowersUnfold ==
  ASSUME NEW base \in Int
  PROVE  /\ Powers(base) \in [Nat -> Int]
         /\ Powers(base)[0] = 1
         /\ \A n \in Nat : Powers(base)[n + 1] = base * Powers(base)[n]
<1> DEFINE list(n) == CHOOSE f \in [0..n -> Int] : Lists(f, base, n)
           all == [n \in Nat |-> list(n)[n]]
           Recurses(p) == p = [n \in Nat |-> IF n = 0 THEN 1 ELSE base * p[n - 1]]
<1>1. ASSUME NEW n \in Nat PROVE list(n) \in [0..n -> Int] /\ Lists(list(n), base, n)
  BY ListsExist
<1>2. ASSUME NEW n \in Nat PROVE all[n] = IF n = 0 THEN 1 ELSE base * all[n - 1]
  <2>1. CASE n = 0
    BY <1>1, <2>1 DEF Lists
  <2>2. CASE n # 0
    <3>1. n - 1 \in Nat /\ n \in 0..n /\ n > 0 /\ n - 1 \in 0..(n - 1) /\ n - 1 <= n
      BY <2>2
    <3>2. list(n)[n] = base * list(n)[n - 1]
      <4>1. Lists(list(n), base, n)
        BY <1>1
      <4> HIDE DEF list
      <4> QED BY <4>1, <3>1 DEF Lists
    <3>3. list(n)[n - 1] = list(n - 1)[n - 1]
      <4>1. Lists(list(n), base, n) /\ Lists(list(n - 1), base, n - 1)
        BY <1>1, <3>1
      <4> HIDE DEF list
      <4> QED BY <4>1, <3>1, ListsAgree
    <3> HIDE DEF list
    <3> QED BY <3>1, <3>2, <3>3, <2>2
  <2> QED BY <2>1, <2>2
<1>3. Recurses(all)
  <2> SUFFICES ASSUME NEW n \in Nat PROVE all[n] = IF n = 0 THEN 1 ELSE base * all[n - 1]
    BY DEF all
  <2> QED BY <1>2
<1>4. PICK p : p = Powers(base)
  OBVIOUS
<1>5. Recurses(p)
  <2>1. p = CHOOSE q : Recurses(q)
    BY <1>4 DEF Powers
  <2> HIDE DEF Recurses, all
  <2> QED BY <1>3, <2>1
<1>6. p[0] = 1
  BY <1>5
<1>7. ASSUME NEW n \in Nat PROVE p[n + 1] = base * p[n]
  <2>1. n + 1 \in Nat /\ n + 1 # 0 /\ (n + 1) - 1 = n
    OBVIOUS
  <2> QED BY <1>5, <2>1
<1>8. p \in [Nat -> Int]
  <2> DEFINE S == {n \in Nat : p[n] \in Int}
  <2>1. 0 \in S
    BY <1>6
  <2>2. ASSUME NEW n \in S PROVE n + 1 \in S
    BY <1>7
  <2>3. S = Nat
    <3> HIDE DEF S
    <3>1. S \in SUBSET Nat
      BY DEF S
    <3> QED BY <2>1, <2>2, <3>1, SetInduction
  <2>4. DOMAIN p = Nat /\ p = [n \in Nat |-> p[n]]
    BY <1>5
  <2> QED BY <2>3, <2>4
<1> QED BY <1>4, <1>6, <1>7, <1>8

LEMMA PowersPositive ==
  ASSUME NEW base \in Nat \ {0}, NEW n \in Nat
  PROVE  Powers(base)[n] \in Nat \ {0}
<1> DEFINE S == {m \in Nat : Powers(base)[m] \in Nat \ {0}}
<1>1. 0 \in S
  <2>1. base \in Int
    OBVIOUS
  <2>2. Powers(base)[0] = 1
    BY <2>1, PowersUnfold
  <2> QED BY <2>2
<1>2. ASSUME NEW m \in S PROVE m + 1 \in S
  <2>1. \A x \in Nat \ {0} : base * x \in Nat \ {0}
    OBVIOUS
  <2>2. Powers(base)[m + 1] = base * Powers(base)[m]
    BY PowersUnfold
  <2> QED BY <2>1, <2>2
<1>3. S = Nat
  <2> HIDE DEF S
  <2>1. S \in SUBSET Nat
    BY DEF S
  <2> QED BY <1>1, <1>2, <2>1, SetInduction
<1> QED BY <1>3

\* Every period multiplies by at least one: growth over n periods is at most
\* growth over any later number.
LEMMA PowersGrow ==
  ASSUME NEW unit \in Nat \ {0}, NEW rate \in Nat, NEW m \in Nat, NEW n \in Nat, m <= n
  PROVE  Powers(unit + rate)[m] * Powers(unit)[n] <= Powers(unit + rate)[n] * Powers(unit)[m]
<1>1. PICK p \in [Nat -> Int] : p = Powers(unit)
  BY PowersUnfold
<1>2. PICK q \in [Nat -> Int] : q = Powers(unit + rate)
  BY PowersUnfold
<1>3. \A k \in Nat : p[k] \in Nat \ {0} /\ q[k] \in Nat \ {0}
  BY <1>1, <1>2, PowersPositive
<1>4. \A k \in Nat : p[k + 1] = unit * p[k]
  <2>1. unit \in Int
    OBVIOUS
  <2> QED BY <1>1, <2>1, PowersUnfold
<1>5. \A k \in Nat : q[k + 1] = (unit + rate) * q[k]
  <2>1. unit + rate \in Int
    OBVIOUS
  <2> QED BY <1>2, <2>1, PowersUnfold
<1> DEFINE S == {k \in Nat : m <= k => q[m] * p[k] <= q[k] * p[m]}
<1>6. 0 \in S
  <2>1. m <= 0 => m = 0
    OBVIOUS
  <2> QED BY <1>3, <2>1
<1>7. ASSUME NEW k \in S PROVE k + 1 \in S
  <2> SUFFICES ASSUME m <= k + 1 PROVE q[m] * p[k + 1] <= q[k + 1] * p[m]
    OBVIOUS
  <2>1. CASE m = k + 1
    BY <1>3, <2>1
  <2>2. CASE m # k + 1
    <3>1. q[m] * p[k] <= q[k] * p[m]
      BY <2>2
    <3>2. \A a, b, c, d \in Nat : a * b <= c * d => a * (unit * b) <= ((unit + rate) * c) * d
      <4> SUFFICES ASSUME NEW a \in Nat, NEW b \in Nat, NEW c \in Nat, NEW d \in Nat, a * b <= c * d
                   PROVE  a * (unit * b) <= ((unit + rate) * c) * d
        OBVIOUS
      <4>1. PICK x \in Nat, y \in Nat : x = a * b /\ y = c * d
        OBVIOUS
      <4>2. unit * x <= unit * y
        BY <4>1
      <4>3. a * (unit * b) = unit * x
        BY <4>1
      <4>4. ((unit + rate) * c) * d = unit * y + rate * y
        BY <4>1
      <4>5. rate * y >= 0
        OBVIOUS
      <4> QED BY <4>2, <4>3, <4>4, <4>5
    <3>3. p[k + 1] = unit * p[k] /\ q[k + 1] = (unit + rate) * q[k]
      BY <1>4, <1>5
    <3>4. q[m] \in Nat /\ p[k] \in Nat /\ q[k] \in Nat /\ p[m] \in Nat
      BY <1>3
    <3>5. q[m] * (unit * p[k]) <= ((unit + rate) * q[k]) * p[m]
      BY <3>1, <3>2, <3>4
    <3> QED BY <3>3, <3>5
  <2> QED BY <2>1, <2>2
<1>8. S = Nat
  <2> HIDE DEF S
  <2>1. S \in SUBSET Nat
    BY DEF S
  <2> QED BY <1>6, <1>7, <2>1, SetInduction
<1> QED BY <1>1, <1>2, <1>8

\* Bernoulli's inequality.
LEMMA PowersExceed ==
  ASSUME NEW unit \in Nat \ {0}, NEW rate \in Nat, NEW n \in Nat
  PROVE  unit * (Powers(unit + rate)[n] - Powers(unit)[n]) >= rate * n * Powers(unit)[n]
<1>1. PICK p \in [Nat -> Int] : p = Powers(unit)
  BY PowersUnfold
<1>2. PICK q \in [Nat -> Int] : q = Powers(unit + rate)
  BY PowersUnfold
<1>3. \A k \in Nat : p[k] \in Nat \ {0} /\ q[k] \in Nat \ {0}
  BY <1>1, <1>2, PowersPositive
<1>4. p[0] = 1 /\ \A k \in Nat : p[k + 1] = unit * p[k]
  <2>1. unit \in Int
    OBVIOUS
  <2> QED BY <1>1, <2>1, PowersUnfold
<1>5. q[0] = 1 /\ \A k \in Nat : q[k + 1] = (unit + rate) * q[k]
  <2>1. unit + rate \in Int
    OBVIOUS
  <2> QED BY <1>2, <2>1, PowersUnfold
<1> DEFINE S == {k \in Nat : unit * (q[k] - p[k]) >= rate * k * p[k]}
<1>6. 0 \in S
  BY <1>4, <1>5
<1>7. ASSUME NEW k \in S PROVE k + 1 \in S
  <2>1. PICK x \in Nat, y \in Nat : x = q[k] /\ y = p[k]
    BY <1>3
  <2>2. unit * (x - y) >= rate * k * y
    BY <2>1
  <2>3. unit * ((unit + rate) * x - unit * y) >= rate * (k + 1) * (unit * y)
    <3>1. PICK d \in Int : d = unit * (x - y)
      OBVIOUS
    <3>2. PICK e \in Nat : e = rate * k * y
      OBVIOUS
    <3>3. unit * ((unit + rate) * x - unit * y) = unit * d + rate * d + rate * unit * y
      BY <3>1
    <3>4. rate * (k + 1) * (unit * y) = unit * e + rate * unit * y
      BY <3>2
    <3>5. d >= e /\ d \in Nat
      BY <2>2, <3>1, <3>2
    <3>6. unit * d >= unit * e /\ rate * d >= 0
      BY <3>5
    <3>7. unit * d \in Int /\ unit * e \in Int /\ rate * d \in Int /\ rate * unit * y \in Int
      OBVIOUS
    <3> QED BY <3>3, <3>4, <3>6, <3>7
  <2>4. q[k + 1] = (unit + rate) * x /\ p[k + 1] = unit * y
    BY <1>4, <1>5, <2>1
  <2> QED BY <2>3, <2>4
<1>8. S = Nat
  <2> HIDE DEF S
  <2>1. S \in SUBSET Nat
    BY DEF S
  <2> QED BY <1>6, <1>7, <2>1, SetInduction
<1> QED BY <1>1, <1>2, <1>8

-----------------------------------------------------------------------------
LEMMA Divided ==
  ASSUME NEW a \in Int, NEW b \in Nat \ {0}
  PROVE  /\ a \div b \in Int /\ a % b \in 0..(b - 1)
         /\ a = b * (a \div b) + (a % b)
OBVIOUS

\* A larger quotient is not rounded to less.
LEMMA RoundDivMonotone ==
  ASSUME NEW a \in Int, NEW b \in Nat \ {0}, NEW c \in Int, NEW d \in Nat \ {0}, a * d <= c * b
  PROVE  RoundDiv(a, b) <= RoundDiv(c, d) /\ RoundDiv(a, b) \in Int /\ RoundDiv(c, d) \in Int
<1>1. PICK q \in Int, r \in 0..(b - 1) : q = a \div b /\ r = a % b /\ a = b * q + r
  BY Divided
<1>2. PICK s \in Int, t \in 0..(d - 1) : s = c \div d /\ t = c % d /\ c = d * s + t
  BY Divided
<1>3. RoundDiv(a, b) = IF 2 * r > b \/ (2 * r = b /\ q % 2 = 1) THEN q + 1 ELSE q
  BY <1>1 DEF RoundDiv
<1>4. RoundDiv(c, d) = IF 2 * t > d \/ (2 * t = d /\ s % 2 = 1) THEN s + 1 ELSE s
  BY <1>2 DEF RoundDiv
<1>5. b * d * q + r * d <= b * d * s + t * b
  BY <1>1, <1>2
<1>6. r * d \in Nat /\ t * b < b * d /\ t * b \in Nat /\ b * d \in Nat \ {0}
  <2>1. t <= d - 1
    OBVIOUS
  <2>2. t * b <= (d - 1) * b
    BY <2>1
  <2> QED BY <2>2
<1>7. q <= s
  <2>1. PICK m \in Nat \ {0} : m = b * d
    BY <1>6
  <2>2. SUFFICES ASSUME q >= s + 1 PROVE FALSE
    OBVIOUS
  <2>3. m * q >= m * (s + 1)
    BY <2>2
  <2>4. m * q + r * d <= m * s + t * b
    BY <1>5, <2>1
  <2>5. m * (s + 1) = m * s + m
    OBVIOUS
  <2>6. t * b < m
    BY <1>6, <2>1
  <2>7. m * q \in Int /\ m * s \in Int
    OBVIOUS
  <2> QED BY <2>3, <2>4, <2>5, <2>6, <2>7, <1>6
<1>8. CASE q < s
  BY <1>3, <1>4, <1>8
<1>9. CASE q = s
  <2>1. r * d <= t * b
    <3>1. b * d * q \in Int
      OBVIOUS
    <3> QED BY <1>5, <1>6, <1>9, <3>1
  <2>2. 2 * r > b => 2 * t > d
    <3>1. SUFFICES ASSUME 2 * r > b, 2 * t <= d PROVE FALSE
      OBVIOUS
    <3>2. (2 * r) * d > b * d /\ (2 * t) * b <= d * b
      BY <3>1
    <3> QED BY <2>1, <3>2
  <2>3. 2 * r = b => 2 * t >= d
    <3>1. SUFFICES ASSUME 2 * r = b, 2 * t < d PROVE FALSE
      OBVIOUS
    <3>2. (2 * r) * d = b * d /\ (2 * t) * b < d * b
      BY <3>1
    <3> QED BY <2>1, <3>2
  <2> QED BY <1>3, <1>4, <1>9, <2>2, <2>3
<1> QED BY <1>3, <1>4, <1>7, <1>8, <1>9

\* A whole quotient is not rounded.
LEMMA RoundDivExact ==
  ASSUME NEW k \in Int, NEW b \in Nat \ {0}
  PROVE  RoundDiv(k * b, b) = k
<1>1. PICK q \in Int, r \in 0..(b - 1) : q = (k * b) \div b /\ r = (k * b) % b /\ k * b = b * q + r
  <2>1. k * b \in Int
    OBVIOUS
  <2> QED BY <2>1, Divided
<1>2. q = k
  <2>1. b * (k - q) = r
    BY <1>1
  <2>2. k - q >= 1 => b * (k - q) >= b
    OBVIOUS
  <2>3. k - q <= -1 => b * (k - q) <= -b
    OBVIOUS
  <2> QED BY <2>1, <2>2, <2>3
<1>3. r = 0
  BY <1>1, <1>2
<1> QED BY <1>1, <1>2, <1>3 DEF RoundDiv

-----------------------------------------------------------------------------
(***************************************************************************)
(* What a term earns, and how far it has come.                             *)
(***************************************************************************)
LEMMA SimpleGrows ==
  ASSUME NEW principal \in Nat, NEW rate \in Nat, NEW from \in Int, NEW d \in Int, NEW e \in Int,
         from <= d, d <= e
  PROVE  /\ Simple(principal, rate, from, d) \in Int /\ Simple(principal, rate, from, e) \in Int
         /\ Simple(principal, rate, from, d) <= Simple(principal, rate, from, e)
<1>1. PICK n \in Nat \ {0} : n = YearDays * RateUnit
  BY PrecisionAssumption DEF YearDays
<1>2. PICK w \in Nat : w = principal * rate
  OBVIOUS
<1>3. PICK a \in Int : a = w * (d - from) * Ulp
  BY PrecisionAssumption
<1>4. PICK b \in Int : b = w * (e - from) * Ulp
  BY PrecisionAssumption
<1>5. a <= b
  <2>1. w * (d - from) <= w * (e - from)
    OBVIOUS
  <2>2. \A x, y \in Int : x <= y => x * Ulp <= y * Ulp
    BY PrecisionAssumption
  <2>3. w * (d - from) \in Int /\ w * (e - from) \in Int
    OBVIOUS
  <2> QED BY <1>3, <1>4, <2>1, <2>2, <2>3
<1>6. a * n <= b * n
  BY <1>5
<1>7. RoundDiv(a, n) <= RoundDiv(b, n) /\ RoundDiv(a, n) \in Int /\ RoundDiv(b, n) \in Int
  BY <1>6, RoundDivMonotone
<1> QED BY <1>1, <1>2, <1>3, <1>4, <1>7 DEF Simple

LEMMA SimpleStarts ==
  ASSUME NEW principal \in Nat, NEW rate \in Nat, NEW from \in Int
  PROVE  Simple(principal, rate, from, from) = 0
<1>1. PICK n \in Nat \ {0} : n = YearDays * RateUnit
  BY PrecisionAssumption DEF YearDays
<1>2. principal * rate * (from - from) * Ulp = 0 * n
  <2>1. PICK w \in Nat : w = principal * rate
    OBVIOUS
  <2> QED BY <2>1, PrecisionAssumption
<1>3. RoundDiv(0 * n, n) = 0
  BY RoundDivExact
<1> QED BY <1>1, <1>2, <1>3 DEF Simple

Periods(frequency, from, to) == (frequency * (to - from)) \div YearDays

LEMMA PeriodsGrow ==
  ASSUME NEW frequency \in Nat \ {0}, NEW from \in Int, NEW d \in Int, NEW e \in Int,
         from <= d, d <= e
  PROVE  /\ Periods(frequency, from, d) \in Nat /\ Periods(frequency, from, e) \in Nat
         /\ Periods(frequency, from, d) <= Periods(frequency, from, e)
         /\ Periods(frequency, from, from) = 0
<1>1. frequency * (d - from) \in Nat /\ frequency * (e - from) \in Nat
  OBVIOUS
<1>2. frequency * (d - from) <= frequency * (e - from)
  OBVIOUS
<1>3. \A x, y \in Nat : x <= y => x \div 365 <= y \div 365 /\ x \div 365 \in Nat /\ y \div 365 \in Nat
  OBVIOUS
<1>4. frequency * (from - from) = 0
  OBVIOUS
<1>5. 0 \div 365 = 0
  OBVIOUS
<1> QED BY <1>1, <1>2, <1>3, <1>4, <1>5 DEF Periods, YearDays

\* What n periods earn.
Earned(principal, rate, unit, n) ==
  RoundDiv(principal * Ulp * (Powers(unit + rate)[n] - Powers(unit)[n]), Powers(unit)[n])

LEMMA CompoundIsEarned ==
  ASSUME NEW principal, NEW rate, NEW from, NEW to, NEW frequency
  PROVE  Compound(principal, rate, from, to, frequency)
           = Earned(principal, rate, frequency * RateUnit, Periods(frequency, from, to))
BY DEF Compound, Earned, Periods

LEMMA EarnedGrows ==
  ASSUME NEW principal \in Nat, NEW rate \in Nat, NEW unit \in Nat \ {0}, NEW m \in Nat, NEW n \in Nat,
         m <= n
  PROVE  /\ Earned(principal, rate, unit, m) \in Int /\ Earned(principal, rate, unit, n) \in Int
         /\ Earned(principal, rate, unit, m) <= Earned(principal, rate, unit, n)
<1>1. PICK pm \in Nat \ {0}, pn \in Nat \ {0} : pm = Powers(unit)[m] /\ pn = Powers(unit)[n]
  BY PowersPositive
<1>2. PICK qm \in Nat \ {0}, qn \in Nat \ {0} : qm = Powers(unit + rate)[m] /\ qn = Powers(unit + rate)[n]
  <2>1. unit + rate \in Nat \ {0}
    OBVIOUS
  <2> QED BY <2>1, PowersPositive
<1>3. qm * pn <= qn * pm
  BY <1>1, <1>2, PowersGrow
<1>4. PICK w \in Nat : w = principal * Ulp
  BY PrecisionAssumption
<1>5. (w * (qm - pm)) * pn <= (w * (qn - pn)) * pm
  <2>1. PICK x \in Nat, y \in Nat, z \in Nat : x = qm * pn /\ y = qn * pm /\ z = pm * pn
    OBVIOUS
  <2>2. (w * (qm - pm)) * pn = w * x - w * z
    BY <2>1
  <2>3. (w * (qn - pn)) * pm = w * y - w * z
    BY <2>1
  <2>4. w * x <= w * y /\ w * x \in Int /\ w * y \in Int /\ w * z \in Int
    BY <1>3, <2>1
  <2> QED BY <2>2, <2>3, <2>4
<1>6. PICK a \in Int, b \in Int : a = w * (qm - pm) /\ b = w * (qn - pn)
  OBVIOUS
<1>7. RoundDiv(a, pm) <= RoundDiv(b, pn) /\ RoundDiv(a, pm) \in Int /\ RoundDiv(b, pn) \in Int
  BY <1>5, <1>6, RoundDivMonotone
<1> QED BY <1>1, <1>2, <1>4, <1>6, <1>7 DEF Earned

LEMMA EarnedStarts ==
  ASSUME NEW principal \in Nat, NEW rate \in Nat, NEW unit \in Nat \ {0}
  PROVE  Earned(principal, rate, unit, 0) = 0
<1>1. Powers(unit)[0] = 1
  <2>1. unit \in Int
    OBVIOUS
  <2> QED BY <2>1, PowersUnfold
<1>2. Powers(unit + rate)[0] = 1
  <2>1. unit + rate \in Int
    OBVIOUS
  <2> QED BY <2>1, PowersUnfold
<1>3. RoundDiv(0 * 1, 1) = 0
  BY RoundDivExact
<1>4. principal * Ulp * (1 - 1) = 0 * 1
  BY PrecisionAssumption
<1> QED BY <1>1, <1>2, <1>3, <1>4 DEF Earned

LEMMA EarnedExceedsSimple ==
  ASSUME NEW principal \in Nat, NEW rate \in Nat, NEW frequency \in Nat \ {0}, NEW from \in Int,
         NEW to \in Int, from <= to, (frequency * (to - from)) % YearDays = 0
  PROVE  Simple(principal, rate, from, to) <= Compound(principal, rate, from, to, frequency)
<1>1. PICK days \in Nat : days = to - from
  OBVIOUS
<1>2. PICK n \in Nat : n = Periods(frequency, from, to) /\ frequency * days = YearDays * n
  <2>1. PICK m \in Nat : m = frequency * days
    OBVIOUS
  <2>2. m = 365 * (m \div 365) + (m % 365) /\ m \div 365 \in Nat
    OBVIOUS
  <2>3. m % 365 = 0
    BY <1>1, <2>1 DEF YearDays
  <2> QED BY <1>1, <2>1, <2>2, <2>3 DEF Periods, YearDays
<1>3. PICK unit \in Nat \ {0} : unit = frequency * RateUnit
  BY PrecisionAssumption
<1>4. PICK p \in Nat \ {0}, q \in Nat \ {0} : p = Powers(unit)[n] /\ q = Powers(unit + rate)[n]
  <2>1. unit + rate \in Nat \ {0}
    OBVIOUS
  <2> QED BY <2>1, PowersPositive
<1>5. unit * (q - p) >= rate * n * p
  BY <1>4, PowersExceed
<1>6. PICK year \in Nat \ {0} : year = YearDays * RateUnit
  BY PrecisionAssumption DEF YearDays
<1>7. PICK w \in Nat : w = principal * Ulp
  BY PrecisionAssumption
<1>8. PICK a \in Nat : a = rate * days
  OBVIOUS
<1>9. (w * a) * p <= (w * (q - p)) * year
  <2>1. PICK g \in Int : g = q - p
    OBVIOUS
  <2>2. a * p <= g * year
    <3>1. frequency * (a * p) = YearDays * (rate * n * p)
      <4>1. frequency * (a * p) = (rate * p) * (frequency * days)
        BY <1>8
      <4>2. YearDays * (rate * n * p) = (rate * p) * (YearDays * n)
        BY DEF YearDays
      <4> QED BY <4>1, <4>2, <1>2
    <3>2. frequency * (g * year) = YearDays * (unit * g)
      BY <1>3, <1>6, PrecisionAssumption DEF YearDays
    <3>3. PICK x \in Int, y \in Int : x = unit * g /\ y = rate * n * p
      OBVIOUS
    <3>4. YearDays * y <= YearDays * x
      BY <1>5, <2>1, <3>3 DEF YearDays
    <3>5. PICK u \in Int, v \in Int : u = a * p /\ v = g * year
      OBVIOUS
    <3>6. frequency * u <= frequency * v
      BY <3>1, <3>2, <3>3, <3>4, <3>5
    <3>7. u <= v
      <4>1. SUFFICES ASSUME u >= v + 1 PROVE FALSE
        OBVIOUS
      <4>2. frequency * u >= frequency * (v + 1)
        BY <4>1
      <4>3. frequency * (v + 1) = frequency * v + frequency
        OBVIOUS
      <4>4. frequency * v \in Int /\ frequency * u \in Int
        OBVIOUS
      <4> QED BY <3>6, <4>2, <4>3, <4>4
    <3> QED BY <3>5, <3>7
  <2>3. PICK x \in Int, y \in Int : x = a * p /\ y = g * year
    OBVIOUS
  <2>4. w * x <= w * y
    BY <2>2, <2>3
  <2>5. (w * a) * p = w * x /\ (w * g) * year = w * y
    BY <2>3
  <2> QED BY <2>1, <2>4, <2>5
<1>10. PICK c \in Int, d \in Int : c = w * a /\ d = w * (q - p)
  OBVIOUS
<1>11. RoundDiv(c, year) <= RoundDiv(d, p)
  BY <1>9, <1>10, RoundDivMonotone
<1>12. Simple(principal, rate, from, to) = RoundDiv(c, year)
  <2>1. principal * rate * (to - from) * Ulp = c
    BY <1>1, <1>7, <1>8, <1>10, PrecisionAssumption
  <2> QED BY <1>6, <2>1 DEF Simple
<1>13. Compound(principal, rate, from, to, frequency) = RoundDiv(d, p)
  BY <1>2, <1>3, <1>4, <1>7, <1>10, CompoundIsEarned DEF Earned
<1> QED BY <1>11, <1>12, <1>13

\* All days of a term but the last are less than all of it, when rounded.
LEMMA PercentFull ==
  ASSUME NEW elapsed \in Nat, NEW duration \in Nat \ {0}, elapsed <= duration,
         duration < 200 * Ulp
  PROVE  Earlier(RoundDiv(elapsed * 100 * Ulp, duration), 100 * Ulp) = 100 * Ulp
           <=> elapsed = duration
<1>1. PICK n \in Nat \ {0} : n = 100 * Ulp
  BY PrecisionAssumption
<1>2. PICK a \in Nat : a = elapsed * n
  OBVIOUS
<1>3. elapsed * 100 * Ulp = a
  BY <1>1, <1>2, PrecisionAssumption
<1>4. CASE elapsed = duration
  <2>1. RoundDiv(n * duration, duration) = n
    BY RoundDivExact
  <2>2. a = n * duration
    BY <1>2, <1>4
  <2> QED BY <1>1, <1>3, <1>4, <2>1, <2>2 DEF Earlier
<1>5. CASE elapsed # duration
  <2>1. a <= n * duration - n
    <3>1. elapsed <= duration - 1
      BY <1>5
    <3>2. elapsed * n <= (duration - 1) * n
      BY <3>1
    <3> QED BY <1>2, <3>2
  <2>2. PICK q \in Int, r \in 0..(duration - 1) :
              q = a \div duration /\ r = a % duration /\ a = duration * q + r
    <3>1. a \in Int
      OBVIOUS
    <3> QED BY <3>1, Divided
  <2>3. RoundDiv(a, duration)
          = IF 2 * r > duration \/ (2 * r = duration /\ q % 2 = 1) THEN q + 1 ELSE q
    BY <2>2 DEF RoundDiv
  <2>4. q <= n - 1
    <3>1. SUFFICES ASSUME q >= n PROVE FALSE
      OBVIOUS
    <3>2. duration * q >= duration * n
      BY <3>1
    <3>3. duration * q \in Int /\ duration * n \in Int
      OBVIOUS
    <3> QED BY <2>1, <2>2, <3>2, <3>3
  <2>5. duration < 2 * n
    BY <1>1, PrecisionAssumption
  <2>6. q = n - 1 => 2 * r < duration
    <3>1. SUFFICES ASSUME q = n - 1 PROVE 2 * r < duration
      OBVIOUS
    <3>2. duration * q = duration * n - duration
      BY <3>1
    <3>3. duration * n \in Int
      OBVIOUS
    <3> QED BY <2>1, <2>2, <2>5, <3>2, <3>3
  <2>7. RoundDiv(a, duration) < n /\ RoundDiv(a, duration) \in Int
    BY <2>3, <2>4, <2>6
  <2> QED BY <1>1, <1>3, <1>5, <2>7 DEF Earlier
<1> QED BY <1>4, <1>5

\* The tax on a return splits it into three parts, none of them negative.
LEMMA TaxSplits ==
  ASSUME NEW gross \in Nat, NEW t, t.rate \in 0..RateUnit \cup {NoTaxRate}, NEW r,
         r = ReturnTax(gross, t)
  PROVE  /\ r.withheld + r.later + r.net = gross
         /\ r.net \in 0..gross
<1>1. PICK rate \in 0..RateUnit : rate = IF t.rate = NoTaxRate THEN 0 ELSE t.rate
  BY PrecisionAssumption
<1>2. PICK n \in Nat \ {0} : n = RateUnit
  BY PrecisionAssumption
<1>3. RoundDiv(gross * rate, n) \in 0..gross
  <2>1. PICK a \in Int : a = gross * rate
    BY <1>2
  <2>2. 0 <= a /\ a <= gross * n
    <3>1. rate \in Int /\ 0 <= rate /\ rate <= n
      BY <1>2
    <3> QED BY <2>1, <3>1
  <2>3. RoundDiv(0 * n, n) = 0 /\ RoundDiv(gross * n, n) = gross
    BY RoundDivExact
  <2>4. PICK z \in Int, b \in Int : z = 0 * n /\ b = gross * n
    OBVIOUS
  <2>5. z * n <= a * n /\ a * n <= b * n
    <3>1. z <= a /\ a <= b
      BY <2>2, <2>4
    <3> QED BY <3>1
  <2>6. RoundDiv(z, n) <= RoundDiv(a, n) /\ RoundDiv(a, n) \in Int
    BY <2>5, RoundDivMonotone
  <2>7. RoundDiv(a, n) <= RoundDiv(b, n)
    BY <2>5, RoundDivMonotone
  <2> QED BY <2>1, <2>3, <2>4, <2>6, <2>7
<1>4. PICK tax \in 0..gross : tax = IF t.type \in TaxTypes THEN RoundDiv(gross * rate, n) ELSE 0
  BY <1>3
<1> DEFINE atSource == t.type = "WITHHOLDING" \/ (t.type = "CUSTOM" /\ t.atSource)
<1>5. r = [tax |-> tax, withheld |-> IF atSource THEN tax ELSE 0,
           later |-> IF atSource THEN 0 ELSE tax, net |-> gross - tax]
  BY <1>1, <1>2, <1>4 DEF ReturnTax
<1>6. PICK withheld, later : /\ withheld = (IF atSource THEN tax ELSE 0)
                             /\ later = (IF atSource THEN 0 ELSE tax)
  OBVIOUS
<1>7. r = [tax |-> tax, withheld |-> withheld, later |-> later, net |-> gross - tax]
  BY <1>5, <1>6, Zenon
<1>8. (withheld = tax /\ later = 0) \/ (withheld = 0 /\ later = tax)
  <2> HIDE DEF atSource
  <2> QED BY <1>6
<1> HIDE DEF atSource
<1>9. r.withheld = withheld /\ r.later = later /\ r.net = gross - tax
  BY <1>7
<1> QED BY <1>8, <1>9

\* A contract the form has accepted.
Termed(c) ==
  /\ c.principal \in Nat /\ c.rate \in Nat
  /\ c.start \in Int /\ c.maturity \in Int /\ c.start < c.maturity
  /\ c.method \in {"SIMPLE", "COMPOUND"}
  /\ c.method = "COMPOUND" => c.frequency \in Nat \ {0}
  /\ Duration(c) < 200 * Ulp

LEMMA InterestGrows ==
  ASSUME NEW c, Termed(c), NEW d \in Int, NEW e \in Int, c.start <= d, d <= e
  PROVE  /\ GrossInterest(c, d) \in Nat /\ GrossInterest(c, e) \in Nat
         /\ GrossInterest(c, d) <= GrossInterest(c, e)
         /\ GrossInterest(c, c.start) = 0
<1>1. PICK principal \in Nat, rate \in Nat, from \in Int :
             principal = c.principal /\ rate = c.rate /\ from = c.start
  BY DEF Termed
<1>2. from <= d /\ from <= from
  BY <1>1
<1>3. CASE c.method = "SIMPLE"
  <2>1. \A to \in Int : GrossInterest(c, to) = Simple(principal, rate, from, to)
    BY <1>1, <1>3 DEF GrossInterest
  <2>2. Simple(principal, rate, from, from) = 0
    BY SimpleStarts
  <2>3. /\ Simple(principal, rate, from, d) \in Int
        /\ Simple(principal, rate, from, from) <= Simple(principal, rate, from, d)
    BY <1>2, SimpleGrows
  <2>4. /\ Simple(principal, rate, from, e) \in Int
        /\ Simple(principal, rate, from, d) <= Simple(principal, rate, from, e)
    BY <1>2, SimpleGrows
  <2> QED BY <1>1, <2>1, <2>2, <2>3, <2>4
<1>4. CASE c.method = "COMPOUND"
  <2>1. PICK frequency \in Nat \ {0} : frequency = c.frequency
    BY <1>4 DEF Termed
  <2>2. PICK unit \in Nat \ {0} : unit = frequency * RateUnit
    BY PrecisionAssumption
  <2>3. PICK m \in Nat, n \in Nat :
               /\ m = Periods(frequency, from, d) /\ n = Periods(frequency, from, e)
               /\ m <= n /\ Periods(frequency, from, from) = 0
    <3>1. /\ Periods(frequency, from, d) \in Nat /\ Periods(frequency, from, e) \in Nat
          /\ Periods(frequency, from, d) <= Periods(frequency, from, e)
          /\ Periods(frequency, from, from) = 0
      BY <1>2, PeriodsGrow
    <3> QED BY <3>1
  <2>4. \A to \in Int : GrossInterest(c, to)
                          = Earned(principal, rate, unit, Periods(frequency, from, to))
    BY <1>1, <1>4, <2>1, <2>2, CompoundIsEarned DEF GrossInterest
  <2>5. Earned(principal, rate, unit, 0) = 0
    BY EarnedStarts
  <2>6. 0 \in Nat /\ 0 <= m
    OBVIOUS
  <2>7. /\ Earned(principal, rate, unit, m) \in Int
        /\ Earned(principal, rate, unit, 0) <= Earned(principal, rate, unit, m)
    BY <2>6, EarnedGrows
  <2>8. /\ Earned(principal, rate, unit, n) \in Int
        /\ Earned(principal, rate, unit, m) <= Earned(principal, rate, unit, n)
    BY <2>3, EarnedGrows
  <2> QED BY <1>1, <2>3, <2>4, <2>5, <2>7, <2>8
<1> QED BY <1>3, <1>4 DEF Termed

LEMMA ProjectionExceedsSimple ==
  ASSUME NEW c, Termed(c), WholePeriods(c, c.maturity)
  PROVE  GrossInterest(c, c.maturity) >= Simple(c.principal, c.rate, c.start, c.maturity)
<1>1. PICK principal \in Nat, rate \in Nat, from \in Int, to \in Int :
             principal = c.principal /\ rate = c.rate /\ from = c.start /\ to = c.maturity /\ from <= to
  BY DEF Termed
<1>2. CASE c.method = "SIMPLE"
  <2>1. Simple(principal, rate, from, to) \in Int
    BY <1>1, SimpleGrows
  <2>2. GrossInterest(c, to) = Simple(principal, rate, from, to)
    BY <1>1, <1>2 DEF GrossInterest
  <2> QED BY <1>1, <2>1, <2>2
<1>3. CASE c.method = "COMPOUND"
  <2>1. PICK frequency \in Nat \ {0} : frequency = c.frequency
    BY <1>3 DEF Termed
  <2>2. (frequency * (to - from)) % YearDays = 0
    BY <1>1, <1>3, <2>1 DEF WholePeriods
  <2>3. Simple(principal, rate, from, to) <= Compound(principal, rate, from, to, frequency)
    BY <1>1, <2>2, EarnedExceedsSimple
  <2>4. GrossInterest(c, to) = Compound(principal, rate, from, to, frequency)
    BY <1>1, <1>3, <2>1 DEF GrossInterest
  <2> QED BY <1>1, <2>3, <2>4
<1> QED BY <1>2, <1>3 DEF Termed

\* The days of a term that have passed by d.
Passed(c, d) == Earlier(d, c.maturity) - c.start

LEMMA ProgressOf ==
  ASSUME NEW c, Termed(c), NEW d \in Int, NEW now, now = Progress(c, d)
  PROVE  /\ d < c.start => /\ now.accrued = 0 /\ now.elapsed = 0
                           /\ now.remaining = Duration(c) /\ now.percent = 0
         /\ c.start <= d => /\ now.accrued = GrossInterest(c, Earlier(d, c.maturity))
                            /\ now.elapsed = Passed(c, d)
                            /\ now.remaining = (IF d < c.maturity THEN c.maturity - d ELSE 0)
                            /\ now.percent = Earlier(RoundDiv(Passed(c, d) * 100 * Ulp, Duration(c)),
                                                     100 * Ulp)
<1>1. CASE d < c.start
  <2>1. now = [accrued |-> 0, elapsed |-> 0, remaining |-> Duration(c), percent |-> 0]
    BY <1>1 DEF Progress
  <2>2. ~(c.start <= d)
    BY <1>1 DEF Termed
  <2> QED BY <2>1, <2>2
<1>2. CASE c.start <= d
  <2>1. ~(d < c.start)
    BY <1>2 DEF Termed
  <2>2. PICK accrued : accrued = IF Passed(c, d) = 0 THEN 0 ELSE GrossInterest(c, Earlier(d, c.maturity))
    OBVIOUS
  <2>3. PICK remaining : remaining = IF d < c.maturity THEN c.maturity - d ELSE 0
    OBVIOUS
  <2>4. now = [accrued |-> accrued, elapsed |-> Passed(c, d), remaining |-> remaining,
               percent |-> Earlier(RoundDiv(Passed(c, d) * 100 * Ulp, Duration(c)), 100 * Ulp)]
    BY <2>1, <2>2, <2>3 DEF Progress, Passed
  <2>5. accrued = GrossInterest(c, Earlier(d, c.maturity))
    <3>1. SUFFICES ASSUME Passed(c, d) = 0 PROVE GrossInterest(c, Earlier(d, c.maturity)) = 0
      BY <2>2
    <3>2. Earlier(d, c.maturity) \in Int
      BY DEF Earlier, Termed
    <3>3. Earlier(d, c.maturity) = c.start
      BY <3>1, <3>2 DEF Passed, Termed
    <3>4. c.start \in Int /\ c.start <= c.start
      BY DEF Termed
    <3> QED BY <3>3, <3>4, InterestGrows
  <2> QED BY <2>1, <2>3, <2>4, <2>5
<1> QED BY <1>1, <1>2 DEF Termed

LEMMA PassedDays ==
  ASSUME NEW c, Termed(c), NEW d \in Int, c.start <= d
  PROVE  /\ Passed(c, d) \in 0..Duration(c)
         /\ Passed(c, d) = Duration(c) <=> c.maturity <= d
         /\ Passed(c, d) + (IF d < c.maturity THEN c.maturity - d ELSE 0) = Duration(c)
BY DEF Passed, Earlier, Duration, Termed

LEMMA ProgressConverges ==
  ASSUME NEW c, Termed(c), NEW d \in Int, NEW now, now = Progress(c, d)
  PROVE  /\ now.accrued \in Nat
         /\ now.accrued <= GrossInterest(c, c.maturity)
         /\ now.elapsed + now.remaining = Duration(c)
         /\ d < c.start => now.accrued = 0
         /\ c.maturity <= d <=> now.percent = 100 * Ulp
<1>1. PICK start \in Int, maturity \in Int : start = c.start /\ maturity = c.maturity /\ start < maturity
  BY DEF Termed
<1>2. CASE d < start
  <2>1. /\ now.accrued = 0 /\ now.elapsed = 0
        /\ now.remaining = Duration(c) /\ now.percent = 0
    BY <1>1, <1>2, ProgressOf
  <2>2. GrossInterest(c, c.maturity) \in Nat
    BY <1>1, InterestGrows
  <2>3. 100 * Ulp # 0 /\ Duration(c) \in Int
    BY <1>1, PrecisionAssumption DEF Duration
  <2> QED BY <1>1, <1>2, <2>1, <2>2, <2>3
<1>3. CASE start <= d
  <2>1. /\ now.accrued = GrossInterest(c, Earlier(d, c.maturity))
        /\ now.elapsed = Passed(c, d)
        /\ now.remaining = (IF d < c.maturity THEN c.maturity - d ELSE 0)
        /\ now.percent = Earlier(RoundDiv(Passed(c, d) * 100 * Ulp, Duration(c)), 100 * Ulp)
    BY <1>1, <1>3, ProgressOf
  <2>2. PICK e \in Int : e = Earlier(d, c.maturity) /\ start <= e /\ e <= maturity
    BY <1>1, <1>3 DEF Earlier
  <2>3. /\ GrossInterest(c, e) \in Nat
        /\ GrossInterest(c, e) <= GrossInterest(c, maturity)
    BY <1>1, <2>2, InterestGrows
  <2>4. PICK elapsed \in Nat, duration \in Nat \ {0} :
               /\ elapsed = Passed(c, d) /\ duration = Duration(c) /\ elapsed <= duration
               /\ duration < 200 * Ulp
               /\ elapsed = duration <=> c.maturity <= d
               /\ elapsed + (IF d < c.maturity THEN c.maturity - d ELSE 0) = duration
    <3>1. Duration(c) \in Nat \ {0} /\ Duration(c) < 200 * Ulp
      BY <1>1 DEF Duration, Termed
    <3>2. /\ Passed(c, d) \in 0..Duration(c)
          /\ Passed(c, d) = Duration(c) <=> c.maturity <= d
          /\ Passed(c, d) + (IF d < c.maturity THEN c.maturity - d ELSE 0) = Duration(c)
      BY <1>1, <1>3, PassedDays
    <3>3. Passed(c, d) \in Nat /\ Passed(c, d) <= Duration(c)
      BY <3>1, <3>2
    <3> QED BY <3>1, <3>2, <3>3
  <2>5. now.percent = 100 * Ulp <=> elapsed = duration
    BY <2>1, <2>4, PercentFull
  <2>6. ~(d < c.start)
    BY <1>1, <1>3
  <2> QED BY <1>1, <2>1, <2>2, <2>3, <2>4, <2>5, <2>6
<1> QED BY <1>1, <1>2, <1>3

\* Nothing earned is ever lost.
LEMMA AccruedGrows ==
  ASSUME NEW c, Termed(c), NEW d \in Int, NEW e \in Int, e < d
  PROVE  Progress(c, e).accrued <= Progress(c, d).accrued
<1>1. PICK start \in Int, maturity \in Int : start = c.start /\ maturity = c.maturity /\ start < maturity
  BY DEF Termed
<1>2. CASE e < start
  <2>1. Progress(c, e).accrued = 0
    BY <1>1, <1>2, ProgressOf
  <2>2. Progress(c, d).accrued \in Nat
    BY ProgressConverges
  <2> QED BY <2>1, <2>2
<1>3. CASE start <= e
  <2>1. start <= d
    BY <1>3
  <2>2. Progress(c, e).accrued = GrossInterest(c, Earlier(e, maturity))
    BY <1>1, <1>3, ProgressOf
  <2>3. Progress(c, d).accrued = GrossInterest(c, Earlier(d, maturity))
    BY <1>1, <2>1, ProgressOf
  <2>4. PICK x \in Int, y \in Int :
               x = Earlier(e, maturity) /\ y = Earlier(d, maturity) /\ start <= x /\ x <= y
    BY <1>1, <1>3 DEF Earlier
  <2> QED BY <1>1, <2>2, <2>3, <2>4, InterestGrows
<1> QED BY <1>2, <1>3

LEMMA StatusMatured ==
  ASSUME NEW c, Termed(c), NEW d \in Int, NEW active \in BOOLEAN, NEW status,
         status = Status(active, c, d)
  PROVE  /\ active => (status = "MATURED" <=> c.maturity <= d)
         /\ status \in {"PLANNED", "ACTIVE"} => active /\ d < c.maturity
         /\ status = "PLANNED" => d < c.start
<1>1. PICK start \in Int, maturity \in Int : start = c.start /\ maturity = c.maturity /\ start < maturity
  BY DEF Termed
<1>2. CASE ~active
  <2>1. status = "CLOSED"
    BY <1>2 DEF Status
  <2> QED BY <1>2, <2>1
<1>3. CASE active /\ d < start
  <2>1. status = "PLANNED"
    BY <1>1, <1>3 DEF Status
  <2>2. d < maturity /\ ~(maturity <= d)
    BY <1>1, <1>3
  <2> QED BY <1>1, <1>3, <2>1, <2>2
<1>4. CASE active /\ start <= d /\ d < maturity
  <2>1. status = "ACTIVE"
    BY <1>1, <1>4 DEF Status
  <2>2. ~(maturity <= d)
    BY <1>4
  <2> QED BY <1>1, <1>4, <2>1, <2>2
<1>5. CASE active /\ maturity <= d
  <2>1. status = "MATURED"
    BY <1>1, <1>5 DEF Status
  <2> QED BY <1>1, <1>5, <2>1
<1>6. active => d < start \/ (start <= d /\ d < maturity) \/ maturity <= d
  BY <1>1
<1> QED BY <1>2, <1>3, <1>4, <1>5, <1>6

LEMMA UpcomingMatures ==
  ASSUME NEW c, Termed(c), NEW active \in BOOLEAN, NEW d \in Int, NEW e \in Int, d < e,
         Status(active, c, d) \in {"PLANNED", "ACTIVE"}
  PROVE  Upcoming(active, c, d, e - d) <=> Status(active, c, e) = "MATURED"
<1>1. active /\ d < c.maturity
  BY StatusMatured
<1>2. Status(active, c, e) = "MATURED" <=> c.maturity <= e
  BY <1>1, StatusMatured
<1>3. PICK maturity \in Int : maturity = c.maturity
  BY DEF Termed
<1>4. Upcoming(active, c, d, e - d) <=> active /\ d <= maturity /\ maturity <= d + (e - d)
  BY <1>3 DEF Upcoming
<1>5. d <= maturity /\ d + (e - d) = e
  BY <1>1, <1>3
<1> QED BY <1>1, <1>2, <1>3, <1>4, <1>5

-----------------------------------------------------------------------------
(***************************************************************************)
(* The tax rates in the table stay fractions of the return.                *)
(***************************************************************************)
TaxRates == 0..RateUnit \cup {NoTaxRate}

Rated(t) == "rate" \in DOMAIN t /\ t.rate \in TaxRates

RatesOK ==
  /\ \A t \in Treatments : Rated(treatments[t])
  /\ \A w \in Workers : pc[w] = "treatment" => req[w].row \in TreatmentRows

LEMMA RatesInit == Init => RatesOK
<1> SUFFICES ASSUME Init PROVE RatesOK
  OBVIOUS
<1>1. FirstTreatment.rate \in TaxRates
  BY TermsAssumption DEF TaxRates
<1>2. "rate" \in DOMAIN TreatmentRow(FirstTreatment)
  BY DEF TreatmentRow
<1>3. Rated(FirstTreatment)
  BY <1>1, <1>2, FirstAssumption DEF Rated
<1> QED BY <1>3 DEF Init, RatesOK

LEMMA WrittenRate ==
  ASSUME NEW row \in TreatmentRows
  PROVE  Rated(TreatmentRow(row))
<1>1. row.rate \in TaxRates
  BY TermsAssumption DEF TaxRates
<1> QED BY <1>1 DEF TreatmentRow, Rated

LEMMA ArchivedRate ==
  ASSUME NEW t, Rated(t), NEW archived, archived = [t EXCEPT !.active = FALSE]
  PROVE  Rated(archived)
BY DEF Rated

LEMMA RatesNext ==
  ASSUME IInv, RatesOK, [Next]_vars
  PROVE  RatesOK'
<1> USE DEF IInv, RequestsTyped, TablesOK
<1>1. ASSUME NEW t \in Treatments PROVE (Rated(treatments[t]))'
  <2>1. Rated(treatments[t])
    BY DEF RatesOK
  <2>2. ASSUME NEW w \in Workers, SaveTreatment(w)
        PROVE  Rated(treatments'[t])
    <3>1. req[w].row \in TreatmentRows
      BY <2>2 DEF SaveTreatment, RatesOK
    <3>2. treatments'[t] = treatments[t] \/ treatments'[t] = TreatmentRow(req[w].row)
      BY <2>2 DEF SaveTreatment
    <3> QED BY <2>1, <3>1, <3>2, WrittenRate
  <2>3. ASSUME NEW u \in Treatments, ArchiveTreatment(u)
        PROVE  Rated(treatments'[t])
    <3>1. treatments'[t] = treatments[t] \/ treatments'[t] = [treatments[t] EXCEPT !.active = FALSE]
      BY <2>3 DEF ArchiveTreatment
    <3> QED BY <2>1, <3>1, ArchivedRate
  <2>4. \/ treatments' = treatments
        \/ \E w \in Workers : SaveTreatment(w)
        \/ \E u \in Treatments : ArchiveTreatment(u)
    BY DEF Next, vars, Clean, WriteAccount, WriteDetails, PostOpening, Fail, Commit, Create,
           Edit, EditTreatment, Archive
  <2> QED BY <2>1, <2>2, <2>3, <2>4
<1>2. ASSUME NEW w \in Workers, pc'[w] = "treatment"
      PROVE  req'[w].row \in TreatmentRows
  <2>1. CASE pc'[w] = pc[w] /\ req'[w] = req[w]
    BY <1>2, <2>1 DEF RatesOK
  <2>2. ASSUME NEW t \in Treatments, NEW row \in TreatmentRows, EditTreatment(w, t, row)
        PROVE  req'[w].row \in TreatmentRows
    BY <2>2 DEF EditTreatment
  <2>3. \/ pc'[w] = pc[w] /\ req'[w] = req[w]
        \/ pc'[w] # "treatment"
        \/ \E t \in Treatments, row \in TreatmentRows : EditTreatment(w, t, row)
    BY DEF Next, vars, Clean, WriteAccount, WriteDetails, PostOpening, Fail, Commit, Create,
           Edit, EditTreatment, SaveTreatment, Archive, ArchiveTreatment, Goto, End
  <2> QED BY <1>2, <2>1, <2>2, <2>3
<1> QED BY <1>1, <1>2 DEF RatesOK

LEMMA RatesStay == Spec => []RatesOK
<1>1. Init => RatesOK
  BY RatesInit
<1>2. IInv /\ RatesOK /\ [Next]_vars => RatesOK'
  BY RatesNext
<1> QED BY <1>1, <1>2, Invariant, PTL DEF Spec

LEMMA ContractTermed ==
  ASSUME IInv, NEW a \in Contracts
  PROVE  Termed(contracts[a]) /\ accounts[a].active \in BOOLEAN
         /\ accounts[a].treatment \in Treatments \cup {None}
<1>1. PICK c : c = contracts[a] /\ c # None /\ a \in Ids /\ TermsKept(c, a)
  BY DEF Contracts, IInv, TablesOK
<1>2. Exists(a)
  BY <1>1 DEF IInv, TablesOK, ContractsWhole
<1>3. PICK f \in Forms : c = f.contract
  BY <1>1, <1>2 DEF IInv, TablesOK, ContractsWhole
<1>4. c.principal \in Int
  BY <1>1, <1>3, FormsAssumption
<1>5. /\ {c.rate, c.start, c.maturity} \subseteq Int
      /\ c.method \in {"SIMPLE", "COMPOUND"}
      /\ c.frequency \in (Nat \ {0}) \cup {None}
      /\ Duration(c) < 200 * Ulp
  BY <1>1, <1>3, TermsAssumption
<1>6. Termed(c)
  BY <1>1, <1>4, <1>5 DEF Termed, TermsKept
<1>7. IsRow(accounts[a]) /\ accounts[a].treatment \in Treatments \cup {None}
  BY <1>1, <1>2 DEF IInv, TablesOK
<1>8. accounts[a].active \in BOOLEAN
  BY <1>7, RowFields DEF IsRow
<1> QED BY <1>1, <1>6, <1>7, <1>8

\* What the pages say of c on day d agrees with what they say on earlier days
\* and at the end.
Converging(c, active, projected, d) ==
  LET now == Progress(c, d)
  IN  /\ \A e \in DaysFor(c) : e < d => Progress(c, e).accrued <= now.accrued
      /\ now.accrued <= projected
      /\ now.elapsed + now.remaining = Duration(c)
      /\ active => /\ Status(active, c, d) = "PLANNED" => now.accrued = 0
                   /\ Status(active, c, d) = "MATURED" <=> now.percent = 100 * Ulp

\* accounts/services/fixed_term.py:26-109 and tax/services/returns.py:35-60.
\* What a deposit has earned never falls and is the projection from the day
\* it is matured, whatever its terms; compounding whole periods never earns
\* less than simple interest; and its tax leaves between nothing and all.
THEOREM AccrualsConverge == Spec => []AccrualConverges
<1>1. ASSUME IInv, RatesOK
      PROVE  AccrualConverges
  <2> SUFFICES ASSUME NEW a \in Contracts
               PROVE  LET c == contracts[a]
                          active == accounts[a].active
                          t == accounts[a].treatment
                          projected == GrossInterest(c, c.maturity)
                          taxed == ReturnTax(projected, IF t = None THEN Untreated ELSE treatments[t])
                      IN  /\ \A d \in DaysFor(c) : Converging(c, active, projected, d)
                          /\ \A d, e \in AsOfDates :
                               d < e /\ Status(active, c, d) \in {"PLANNED", "ACTIVE"} =>
                                 (Upcoming(active, c, d, e - d) <=> Status(active, c, e) = "MATURED")
                          /\ WholePeriods(c, c.maturity) =>
                               projected >= Simple(c.principal, c.rate, c.start, c.maturity)
                          /\ taxed.withheld + taxed.later + taxed.net = projected
                          /\ taxed.net \in 0..projected
    BY Zenon DEF AccrualConverges, Converging
  <2> DEFINE c == contracts[a]
             active == accounts[a].active
             t == accounts[a].treatment
             projected == GrossInterest(c, c.maturity)
             taxed == ReturnTax(projected, IF t = None THEN Untreated ELSE treatments[t])
  <2>1. Termed(c) /\ active \in BOOLEAN /\ t \in Treatments \cup {None}
    BY <1>1, ContractTermed
  <2> HIDE DEF c, active, t
  <2>2. AsOfDates \subseteq Int /\ DaysFor(c) \subseteq Int
    BY TermsAssumption DEF DaysFor
  <2>3. ASSUME NEW d \in DaysFor(c)
        PROVE  Converging(c, active, projected, d)
    <3>1. d \in Int
      BY <2>2
    <3>2. ASSUME NEW e \in DaysFor(c), e < d
          PROVE  Progress(c, e).accrued <= Progress(c, d).accrued
      BY <2>1, <2>2, <3>2, AccruedGrows
    <3> DEFINE now == Progress(c, d)
    <3>3. /\ now.accrued <= projected
          /\ now.elapsed + now.remaining = Duration(c)
          /\ d < c.start => now.accrued = 0
          /\ c.maturity <= d <=> now.percent = 100 * Ulp
      BY <2>1, <3>1, ProgressConverges
    <3>4. /\ Status(active, c, d) = "PLANNED" => d < c.start
          /\ active => (Status(active, c, d) = "MATURED" <=> c.maturity <= d)
      BY <2>1, <3>1, StatusMatured
    <3> QED BY <3>2, <3>3, <3>4, Zenon DEF Converging
  <2>4. ASSUME NEW d \in AsOfDates, NEW e \in AsOfDates, d < e,
               Status(active, c, d) \in {"PLANNED", "ACTIVE"}
        PROVE  Upcoming(active, c, d, e - d) <=> Status(active, c, e) = "MATURED"
    BY <2>1, <2>2, <2>4, UpcomingMatures
  <2>5. WholePeriods(c, c.maturity) =>
          projected >= Simple(c.principal, c.rate, c.start, c.maturity)
    BY <2>1, ProjectionExceedsSimple
  <2>6. projected \in Nat
    <3>1. c.maturity \in Int /\ c.start <= c.maturity /\ c.maturity <= c.maturity
      BY <2>1 DEF Termed
    <3> QED BY <2>1, <3>1, InterestGrows
  <2> HIDE DEF projected
  <2>7. PICK row : row = IF t = None THEN Untreated ELSE treatments[t]
    OBVIOUS
  <2>8. row.rate \in 0..RateUnit \cup {NoTaxRate}
    BY <1>1, <2>1, <2>7 DEF RatesOK, Rated, TaxRates, Untreated
  <2>9. taxed = ReturnTax(projected, row)
    BY <2>7
  <2> HIDE DEF taxed
  <2>10. taxed.withheld + taxed.later + taxed.net = projected /\ taxed.net \in 0..projected
    BY <2>6, <2>8, <2>9, TaxSplits
  <2> QED BY <2>3, <2>4, <2>5, <2>10, Zenon DEF c, active, t, projected, taxed
<1> QED BY <1>1, Invariant, RatesStay, PTL DEF Spec
=============================================================================
