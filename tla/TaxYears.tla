------------------------------ MODULE TaxYears ------------------------------
(***************************************************************************)
(* The tax years of one user and the deductions, allowances, adjustments   *)
(* and rules entered for them: tax/views.py, tax/forms.py, tax/models.py.  *)
(* No view opens a transaction, so every query commits on its own and a    *)
(* validation holds only for the moment it is made.                        *)
(*                                                                         *)
(* A year or an item is validated twice, by its form and again by save();  *)
(* a TaxYear looks at the table each time, an item at the TaxYear object   *)
(* its view has loaded.  CLOSED and ARCHIVED years are treated as OPEN     *)
(* ones everywhere.  A submission refused before any other request can     *)
(* matter to it changes nothing and is left out.                           *)
(***************************************************************************)
EXTENDS Integers, Sequences, FiniteSets

CONSTANTS
  Workers,
  Jurisdictions,
  LastDay,      \* days are 1..LastDay
  NoRow,        \* the worker has nothing to write
  MaxYears, MaxItems   \* bounds on the rows

ASSUME WorkersAssumption == IsFiniteSet(Workers)

ASSUME BoundAssumption == LastDay \in Nat /\ MaxYears \in Nat /\ MaxItems \in Nat

VARIABLES
  years,        \* the TaxYear rows; the index is the primary key
  items,        \* the rows entered for them, all four kinds
  pc, target,   \* what each worker does, and the key it does it to, 0 if new
  draft         \* the row it is going to write, all columns

vars == <<years, items, pc, target, draft>>

Days == 1..LastDay
NoDate == 0     \* allowances and rules have none

YearRow ==
  {r \in [jurisdiction : Jurisdictions, start : Days, end : Days, status : {"OPEN", "FILED"}] :
     r.start <= r.end}

ItemRow == [year : 1..MaxYears, date : Days \cup {NoDate}, active : BOOLEAN]

YearLines == {"form overlap", "form filed", "save overlap", "save filed", "save year"}
ItemLines == {"load item", "load archived", "check archived", "save item"}

\* Mutant: periods that share one day do not overlap.
OverlapStrictly(r, s) ==
  r.jurisdiction = s.jurisdiction /\ r.start < s.end /\ s.start < r.end

Overlap(r, s) ==
  r.jurisdiction = s.jurisdiction /\ r.start <= s.end /\ s.start <= r.end

\* Mutant: the lock goes by another status.
FiledOnceArchived(y) == y.status = "ARCHIVED"

Filed(y) == y.status = "FILED"

FitsPeriod(date, y) == date = NoDate \/ (y.start <= date /\ date <= y.end)

-----------------------------------------------------------------------------
Init ==
  /\ years = <<>> /\ items = <<>>
  /\ pc = [w \in Workers |-> "idle"]
  /\ target = [w \in Workers |-> 0]
  /\ draft = [w \in Workers |-> NoRow]

Goto(w, line) == pc' = [pc EXCEPT ![w] = line]

Begin(w, line, key, row) ==
  /\ pc[w] = "idle"
  /\ Goto(w, line)
  /\ target' = [target EXCEPT ![w] = key]
  /\ draft' = [draft EXCEPT ![w] = row]
  /\ UNCHANGED <<years, items>>

End(w) ==
  /\ Goto(w, "idle")
  /\ target' = [target EXCEPT ![w] = 0]
  /\ draft' = [draft EXCEPT ![w] = NoRow]

\* A check that refuses, or goes on at the next line.
Unless(refused, w, line) ==
  /\ UNCHANGED <<years, items>>
  /\ IF refused THEN End(w) ELSE Goto(w, line) /\ UNCHANGED <<target, draft>>

\* Bound: new rows under way count as well.
Adding(lines) == Cardinality({w \in Workers : pc[w] \in lines /\ target[w] = 0})

CreateYear(w, row) ==
  /\ Len(years) + Adding(YearLines) < MaxYears
  /\ Begin(w, "form overlap", 0, row)

\* dispatch() refuses a filed year; the form then overwrites every column.
EditYear(w, y, row) ==
  /\ ~Filed(years[y])
  /\ Begin(w, "form overlap", y, row)

\* TaxYear.clean, run by the form and by save(): first the overlap query,
Overlapping(w) ==
  \E y \in DOMAIN years \ {target[w]} : Overlap(years[y], draft[w])

CheckOverlap(w) ==
  \/ pc[w] = "form overlap" /\ Unless(Overlapping(w), w, "form filed")
  \/ pc[w] = "save overlap" /\ Unless(Overlapping(w), w, "save filed")

\* then the row as it is stored.
ChangesFiled(w) ==
  target[w] # 0 /\ Filed(years[target[w]]) /\ years[target[w]] # draft[w]

CheckFiled(w) ==
  \/ pc[w] = "form filed" /\ Unless(ChangesFiled(w), w, "save overlap")
  \/ pc[w] = "save filed" /\ Unless(ChangesFiled(w), w, "save year")

\* Mutant: the form has lost its instance, so an edit adds a row.
StoredAsNew(rows, w) == Append(rows, draft[w])

Stored(rows, w) ==
  IF target[w] = 0 THEN Append(rows, draft[w]) ELSE [rows EXCEPT ![target[w]] = draft[w]]

SaveYear(w) ==
  /\ pc[w] = "save year"
  /\ years' = Stored(years, w)
  /\ End(w)
  /\ UNCHANGED items

-----------------------------------------------------------------------------
\* The year is read once, by dispatch(); clean() looks at that object only.
CreateItem(w, y, date, active) ==
  /\ ~Filed(years[y]) /\ FitsPeriod(date, years[y])
  /\ Len(items) + Adding(ItemLines) < MaxItems
  /\ Begin(w, "save item", 0, [year |-> y, date |-> date, active |-> active])

EditItem(w, i, date, active) ==
  LET y == items[i].year
  IN  /\ ~Filed(years[y]) /\ FitsPeriod(date, years[y])
      /\ date = NoDate <=> items[i].date = NoDate
      /\ Begin(w, "load item", i, [year |-> y, date |-> date, active |-> active])

\* get_queryset: an item archived meanwhile is not found.
LoadItem(w) ==
  pc[w] = "load item" /\ Unless(~items[target[w]].active, w, "save item")

ArchiveItem(w, i) ==
  ~Filed(years[items[i].year]) /\ Begin(w, "load archived", i, NoRow)

LoadArchived(w) ==
  /\ pc[w] = "load archived"
  /\ Goto(w, "check archived")
  /\ draft' = [draft EXCEPT ![w] = [items[target[w]] EXCEPT !.active = FALSE]]
  /\ UNCHANGED <<years, items, target>>

\* save() validates against the year as it is now; nobody catches the error.
CheckArchived(w) ==
  LET y == years[draft[w].year]
  IN  /\ pc[w] = "check archived"
      /\ Unless(Filed(y) \/ ~FitsPeriod(draft[w].date, y), w, "save item")

SaveItem(w) ==
  /\ pc[w] = "save item"
  /\ items' = Stored(items, w)
  /\ End(w)
  /\ UNCHANGED years

Next ==
  \E w \in Workers :
    \/ CheckOverlap(w) \/ CheckFiled(w) \/ SaveYear(w)
    \/ LoadItem(w) \/ LoadArchived(w) \/ CheckArchived(w) \/ SaveItem(w)
    \/ \E row \in YearRow :
         CreateYear(w, row) \/ \E y \in DOMAIN years : EditYear(w, y, row)
    \/ \E date \in Days \cup {NoDate}, active \in BOOLEAN :
         \/ \E y \in DOMAIN years : CreateItem(w, y, date, active)
         \/ \E i \in DOMAIN items : EditItem(w, i, date, active)
    \/ \E i \in DOMAIN items : ArchiveItem(w, i)

Spec == Init /\ [][Next]_vars

-----------------------------------------------------------------------------
\* Types: what a worker is about to write is a row of the table it is at.
TypeOK ==
  /\ years \in Seq(YearRow) /\ Len(years) <= MaxYears
  /\ items \in Seq(ItemRow) /\ Len(items) <= MaxItems
  /\ \A i \in DOMAIN items : items[i].year \in DOMAIN years
  /\ pc \in [Workers -> YearLines \cup ItemLines \cup {"idle"}]
  /\ \A w \in Workers :
       /\ pc[w] \in YearLines => draft[w] \in YearRow /\ target[w] \in {0} \cup DOMAIN years
       /\ pc[w] \in ItemLines => target[w] \in {0} \cup DOMAIN items
       /\ pc[w] \in {"load item", "check archived", "save item"} => draft[w] \in ItemRow
       /\ pc[w] = "idle" => draft[w] = NoRow /\ target[w] = 0

\* tax/models.py:138, "This period overlaps another tax year for the same
\* jurisdiction.": no event of the ledger is taxed in two years of one
\* jurisdiction.
YearsDisjoint ==
  \A y, z \in DOMAIN years :
    /\ y # z
    /\ years[y].jurisdiction = years[z].jurisdiction
    => {d \in Days : years[y].start <= d /\ d <= years[y].end}
         \cap {d \in Days : years[z].start <= d /\ d <= years[z].end} = {}

\* README.md:178-179, normal edits to a filed year are locked: its row never
\* changes again.
FiledYearLocked ==
  [][\A y \in DOMAIN years : years[y].status = "FILED" => years'[y] = years[y]]_vars

ItemsOf(y) == {i \in DOMAIN items : items[i].year = y}

\* The same for its deductions, allowances, adjustments and rules: none is
\* added to a filed year, changed or archived.
FiledItemsLocked ==
  [][\A y \in DOMAIN years : years[y].status = "FILED" =>
       /\ ItemsOf(y)' = ItemsOf(y)
       /\ \A i \in ItemsOf(y) : items'[i] = items[i]]_vars
=============================================================================
