-------------------------- MODULE StatementImport --------------------------
(***************************************************************************)
(* Importing a statement into an account: TransactionImportView and        *)
(* import_transactions of ledger/imports.py, with the export that writes   *)
(* the entries out again.  The same file may be uploaded by two requests,  *)
(* as after a reload of the page, and the account be edited meanwhile.     *)
(***************************************************************************)
EXTENDS Statements

CONSTANTS
  Workers,      \* each uploads the file once
  Currencies,
  Files,        \* the statements that exist
  MaxRows       \* bound: a longer statement is parsed, not posted

ParsedRow ==
  [day : Nat, description : STRING, amount : Int, currency : Currencies \cup {NoCurrency},
   type : STRING, reference : Nat]

\* A parser returns a list of rows, empty if it refuses the file.
ASSUME FilesAssumption == \A f \in Files : Parse(f) \in Seq(ParsedRow)

LineType ==
  [kind : LineKinds, day : Nat, text : STRING, raw : Int, balance : Int,
   currency : Currencies, reference : Nat]

\* The text of a PDF is pages of lines; PDF_REFERENCE_ROW matches no empty reference.
ASSUME PagesAssumption ==
  \A f \in Files :
    f.kind = "pdf" =>
      /\ f.pages \in Seq(Seq(LineType))
      /\ \A p \in DOMAIN f.pages : \A i \in DOMAIN f.pages[p] :
           f.pages[p][i].kind = "reference" => f.pages[p][i].reference # NoReference

VARIABLES
  file,         \* the statement at hand
  currency,     \* the account's currency
  entries,      \* its committed entries with their transactions
  nextId,       \* the sequence entries draw their ids from
  pc,           \* what each request does
  job           \* its parsed rows, those inserted, and the currency it loaded

vars == <<file, currency, entries, nextId, pc, job>>

NoJob == [rows |-> Refused, posted |-> <<>>, currency |-> NoCurrency]

Init ==
  /\ file \in Files
  /\ currency \in Currencies
  /\ entries = {}
  /\ nextId = 1
  /\ pc = [w \in Workers |-> "idle"]
  /\ job = [w \in Workers |-> NoJob]

Goto(w, line) == pc' = [pc EXCEPT ![w] = line]

\* Mutant: the currency of the statement is not compared.
ForeignIgnored(rows) == FALSE

Foreign(rows) ==
  \E i \in DOMAIN rows : rows[i].currency \notin {NoCurrency, currency}

\* get_account, the parser and the comparison of currencies.
Upload(w) ==
  LET rows == Parse(file)
  IN  /\ pc[w] = "idle"
      /\ Len(rows) <= MaxRows
      /\ IF rows = Refused \/ Foreign(rows)
         THEN Goto(w, "refused") /\ UNCHANGED job
         ELSE /\ Goto(w, "post")
              /\ job' = [job EXCEPT ![w] = [NoJob EXCEPT !.rows = rows, !.currency = currency]]
      /\ UNCHANGED <<file, currency, entries, nextId>>

\* The Transaction and its entry, both from the row and the loaded account.
Entry(w, row) ==
  [id |-> nextId, batch |-> w, day |-> row.day, description |-> row.description, amount |-> row.amount,
   type |-> row.type, reference |-> row.reference, stated |-> row.currency,
   currency |-> job[w].currency]

\* Mutant: every row is a transaction of its own.
PostRowAtOnce(w) ==
  LET n == Len(job[w].posted) + 1
      entry == Entry(w, job[w].rows[n])
  IN  /\ pc[w] = "post"
      /\ job' = [job EXCEPT ![w].posted = Append(@, entry)]
      /\ entries' = entries \cup {entry}
      /\ nextId' = nextId + 1
      /\ Goto(w, IF n = Len(job[w].rows) THEN "done" ELSE "post")
      /\ UNCHANGED <<file, currency>>

\* One turn of the loop inside atomic().  An id is drawn with the INSERT, and
\* not given back when the import fails.
PostRow(w) ==
  LET n == Len(job[w].posted) + 1
  IN  /\ pc[w] = "post"
      /\ job' = [job EXCEPT ![w].posted = Append(@, Entry(w, job[w].rows[n]))]
      /\ nextId' = nextId + 1
      /\ Goto(w, IF n = Len(job[w].rows) THEN "commit" ELSE "post")
      /\ UNCHANGED <<file, currency, entries>>

Commit(w) ==
  /\ pc[w] = "commit"
  /\ entries' = entries \cup Range(job[w].posted)
  /\ Goto(w, "done")
  /\ job' = [job EXCEPT ![w] = NoJob]
  /\ UNCHANGED <<file, currency, nextId>>

Crash(w) ==
  /\ pc[w] \in {"post", "commit"}
  /\ Goto(w, "failed")
  /\ job' = [job EXCEPT ![w] = NoJob]
  /\ UNCHANGED <<file, currency, entries, nextId>>

\* AccountUpdateView.
EditCurrency ==
  /\ \E c \in Currencies \ {currency} : currency' = c
  /\ UNCHANGED <<file, entries, nextId, pc, job>>

Next ==
  \/ \E w \in Workers : Upload(w) \/ PostRow(w) \/ Commit(w) \/ Crash(w)
  \/ EditCurrency

Spec == Init /\ [][Next]_vars

-----------------------------------------------------------------------------
BatchOf(w) == {e \in entries : e.batch = w}

\* What the request had posted up to this entry, and with it.
SoFar(w, e) == {f \in BatchOf(w) : f.id <= e.id}

\* The entry is the row, field for field.
Records(entry, row) ==
  /\ \A field \in {"day", "description", "amount", "type", "reference"} : entry[field] = row[field]
  /\ entry.stated = row.currency

\* README.md:93-95, "before writing the complete batch atomically", and
\* ledger/imports.py:310-313: whatever crashes or overlaps, a request has
\* posted its whole statement, each row once and in the order of their ids, or
\* nothing; the entries of another may lie between them.  All are in the
\* currency the statement names, also when the account is edited meanwhile.
ImportWhole ==
  /\ \A w \in Workers :
       LET rows == Parse(file)
           batch == BatchOf(w)
       IN  IF pc[w] = "done"
           THEN /\ Cardinality(batch) = Len(rows)
                /\ \A e \in batch : Records(e, rows[Cardinality(SoFar(w, e))])
           ELSE batch = {}
  /\ \A e \in entries : e.stated \in {NoCurrency, e.currency}

RowLines(pages) == LinesOf(pages, "row")

\* The how-many-th transaction line of the text this is.
Number(pages, at) == Cardinality({b \in RowLines(pages) : NotAfter(b, at)})

\* ledger/imports.py:263-271: an accepted statement with an opening balance has
\* one entry for each transaction line, and those of one import add up, in the
\* order of their ids, to the change from there to every balance that is
\* printed, whatever signs and continuation lines the statement has and
\* whatever is posted between them; every amount is the printed one.
ImportReconciles ==
  \A w \in Workers :
    /\ pc[w] = "done" /\ file.kind = "pdf" /\ Opening(file.pages) # NoLine
    => /\ Cardinality(BatchOf(w)) = Cardinality(RowLines(file.pages))
       /\ \A e \in BatchOf(w), at \in RowLines(file.pages) :
            LET line == file.pages[at[1]][at[2]]
            IN  Cardinality(SoFar(w, e)) = Number(file.pages, at) =>
                  /\ SumFunction([f \in SoFar(w, e) |-> f.amount])
                       = line.balance - Opening(file.pages).balance
                  /\ Magnitude(e.amount) = Magnitude(line.raw)

\* The references that continue the transaction in line i of a page, up to
\* line n: none follows the next transaction or ender.
References(page, i, n) ==
  {j \in i + 1..n : /\ page[j].kind = "reference"
                   /\ \A k \in i + 1..j - 1 : page[k].kind \notin Enders \cup {"row"}}

\* This is the first of them, if there is any.
FirstReference(page, i, n, reference) ==
  \/ References(page, i, n) = {} /\ reference = NoReference
  \/ \E j \in References(page, i, n) :
       reference = page[j].reference /\ \A k \in References(page, i, n) : j <= k

\* ledger/imports.py:196-237: no transaction of a statement is lost, split or
\* given the reference of another, across pages and footers: the records are
\* its transaction lines in the order of the text, each with the first
\* reference that continues it on its page.
RecordsComplete ==
  file.kind = "pdf" =>
    LET pages == file.pages
        records == RawRecords(pages)
    IN  /\ Len(records) = Cardinality(RowLines(pages))
        /\ \A at \in RowLines(pages) :
             LET page == pages[at[1]]
                 record == records[Number(pages, at)]
             IN  /\ record.line = page[at[2]]
                 /\ FirstReference(page, at[2], Len(page), record.reference)

\* The line of this entry can be imported again.
Rereadable(e) ==
  /\ e.description \notin {"", "formula"}
  /\ Rounds(e.amount) # 0
  /\ Magnitude(Rounds(e.amount)) * Cent < AmountLimit

\* ledger/exports.py:29-41 against ledger/imports.py:69-88 and 130-134: an
\* export of imported entries is refused by the import exactly if an entry has
\* no description, one that the apostrophe makes too long, or an amount that
\* rounds to nothing or out of the column.  Otherwise every entry is read from
\* the line it is on with its day and type, to the cent, and unchanged if it
\* is in whole cents.
ExportReadable ==
  entries # {} =>
    LET rows == ParseCsv(Export(entries))
    IN  IF \E e \in entries : ~Rereadable(e)
        THEN rows = Refused
        ELSE /\ Len(rows) = Cardinality(entries)
             /\ \A e \in entries :
                  LET row == rows[Place(entries, e)]
                  IN  /\ row.day = e.day /\ row.type = e.type
                      /\ 2 * Magnitude(row.amount - e.amount) <= Cent
                      /\ e.amount % Cent = 0 => row.amount = e.amount
=============================================================================
