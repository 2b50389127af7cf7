----------------------------- MODULE Statements -----------------------------
(***************************************************************************)
(* Reading and writing account statements: the parsers of                  *)
(* ledger/imports.py and the writer of ledger/exports.py, as functions.    *)
(*                                                                         *)
(* Amounts are whole quanta (0.0001).  A PDF is a sequence of pages of     *)
(* lines as the text extraction lays them out; a line is known by what the *)
(* parser takes it for, with its numbers and text; a number that cannot be *)
(* read or has too many places is 0 there.  A CSV is a sequence of rows of *)
(* cells.  Decoding, dialects and headers are left out.                    *)
(*                                                                         *)
(* A description is what the code makes of it: "" is empty, "interest",    *)
(* "tax" and "fee" decide the type, "formula" fills its 255 characters and *)
(* begins as a spreadsheet formula, "overlong" is longer; the two of them  *)
(* and "other" decide no type.                                             *)
(***************************************************************************)
EXTENDS Decimals, SequencesExt

CONSTANT AmountLimit    \* 10^16: the column of money holds what is less

ASSUME LimitAssumption == AmountLimit \in Nat

Cent == 100          \* quanta
Refused == <<>>      \* TransactionImportError; no statement reads as no rows

Rounds(amount) == RoundDiv(amount, Cent)

\* _transaction_type.
TransactionType(description, amount) ==
  CASE description = "interest" -> "INTEREST"
    [] description = "tax" -> "TAX"
    [] description = "fee" -> "FEE"
    [] OTHER -> IF amount > 0 THEN "DEPOSIT" ELSE "WITHDRAWAL"

ImportedRow(day, description, amount, currency, reference) ==
  [day |-> day, description |-> description, amount |-> amount, currency |-> currency,
   type |-> TransactionType(description, amount), reference |-> reference]

NoCurrency == "any"    \* a CSV row names none
NoReference == 0

Magnitude(n) == IF n < 0 THEN -n ELSE n

-----------------------------------------------------------------------------
\* A number as it is written: its digits, how many follow the last
\* separator, and the separators in order, each a "comma" or a "point".
Written(negative, digits, after, separators) ==
  [negative |-> negative, digits |-> digits, after |-> after, separators |-> separators]

Count(separator, text) ==
  Cardinality({i \in DOMAIN text.separators : text.separators[i] = separator})

\* The quanta in a one at the last place, when so many places follow the point.
Unit(decimals) == <<10000, 1000, 100, 10, 1>>[decimals + 1]

\* _parse_amount: of two kinds of separators the last is the decimal point;
\* a comma alone is one too.  What is left is read if one point is left and
\* at most four digits follow it.  0 stands for a refusal, as zero is refused,
\* and so is what the column of money cannot hold.
ParseAmount(text) ==
  LET mixed == Count("comma", text) > 0 /\ Count("point", text) > 0
      point == IF mixed THEN Last(text.separators) ELSE "point"
      points == IF mixed THEN Count(point, text) ELSE Len(text.separators)
      decimals == IF points = 0 THEN 0 ELSE text.after
      quanta == text.digits * Unit(decimals)
  IN  IF points > 1 \/ decimals > 4 \/ quanta >= AmountLimit
      THEN 0
      ELSE IF text.negative THEN -quanta ELSE quanta

\* A CSV row; day 0 cannot be read.
CsvRow(day, description, amount) ==
  [day |-> day, description |-> description, amount |-> amount]

CsvRowOk(row) ==
  row.description \notin {"", "overlong"} /\ row.day # 0 /\ ParseAmount(row.amount) # 0

\* parse_transaction_csv.
ParseCsv(rows) ==
  IF rows = <<>> \/ \E i \in DOMAIN rows : ~CsvRowOk(rows[i])
  THEN Refused
  ELSE [i \in DOMAIN rows |->
          ImportedRow(rows[i].day, rows[i].description, ParseAmount(rows[i].amount),
                      NoCurrency, NoReference)]

\* With a comma before every thousand; a column of money has at most five.
Grouped(amount, point) ==
  LET cents == Rounds(amount)
      digits == IF cents < 0 THEN -cents ELSE cents
      thousands[n \in Nat] == IF n = 0 THEN digits \div 100 ELSE thousands[n - 1] \div 1000
      commas == Cardinality({n \in 1..5 : thousands[n] > 0})
  IN  Written(amount < 0, digits, 2, Append([i \in 1..commas |-> "comma"], point))

\* Mutant: the decimal mark of the export is a comma.
WriteAmountGerman(amount) == Grouped(amount, "comma")

\* "{:,.2f}" of the amount rounded to cents: commas between thousands.
WriteAmount(amount) == Grouped(amount, "point")

\* _spreadsheet_safe puts an apostrophe before a formula.
SpreadsheetSafe(description) == IF description = "formula" THEN "overlong" ELSE description

\* An export lists the latest entry first, of one day the one of the last id.
Before(e, f) == e.day > f.day \/ (e.day = f.day /\ e.id > f.id)

\* The line of the export that an entry is on.
Place(entries, e) == Cardinality({f \in entries : Before(f, e)}) + 1

LatestFirst(entries) ==
  [n \in 1..Cardinality(entries) |-> CHOOSE e \in entries : Place(entries, e) = n]

\* export_account_transactions.
Export(entries) ==
  LET listed == LatestFirst(entries)
  IN  [i \in DOMAIN listed |->
         CsvRow(listed[i].day, SpreadsheetSafe(listed[i].description),
                WriteAmount(listed[i].amount))]

-----------------------------------------------------------------------------
\* A line of a PDF.  "row" is a transaction, "reference" a continuation with
\* a number, "detail" another continuation; "footer", "labels" and "opening"
\* end the record above them.  The text is the description of a row and what
\* a continuation adds to it: "" if that is not indented.
Line(kind, day, text, raw, balance, currency, reference) ==
  [kind |-> kind, day |-> day, text |-> text, raw |-> raw, balance |-> balance,
   currency |-> currency, reference |-> reference]

Enders == {"footer", "labels", "opening"}

LineKinds == {"row", "reference", "detail"} \cup Enders

NoRecord == <<>>

Record(line) == [line |-> line, reference |-> NoReference, details |-> <<>>]

Filed(scan) ==
  IF scan.current = NoRecord THEN scan.records ELSE Append(scan.records, scan.current)

\* One turn of the loop of _raw_pdf_transactions over the lines of a page.
ScanLine(scan, line) ==
  CASE line.kind = "row" -> [records |-> Filed(scan), current |-> Record(line)]
    [] line.kind # "row" /\ scan.current = NoRecord -> scan
    [] line.kind \in Enders /\ scan.current # NoRecord ->
         [records |-> Filed(scan), current |-> NoRecord]
    [] line.kind = "reference" /\ scan.current # NoRecord ->
         IF scan.current.reference = NoReference
         THEN [scan EXCEPT !.current.reference = line.reference]
         ELSE [scan EXCEPT !.current.details = Append(@, line)]
    [] OTHER -> [scan EXCEPT !.current.details = Append(@, line)]

\* Mutant: the record open at the end of a page is dropped.
ScanPageUnclosed(records, page) ==
  FoldLeft(ScanLine, [records |-> records, current |-> NoRecord], page).records

ScanPage(records, page) ==
  Filed(FoldLeft(ScanLine, [records |-> records, current |-> NoRecord], page))

Supported(pages) ==
  \E p \in DOMAIN pages : \E i \in DOMAIN pages[p] : pages[p][i].kind = "labels"

RawRecords(pages) == FoldLeft(ScanPage, <<>>, pages)

\* Where the lines of a kind are in the text, as pages and lines, and their order.
LinesOf(pages, kind) ==
  UNION {{<<p, i>> : i \in {j \in DOMAIN pages[p] : pages[p][j].kind = kind}} : p \in DOMAIN pages}

NotAfter(a, b) == a[1] < b[1] \/ (a[1] = b[1] /\ a[2] <= b[2])

NoLine == <<>>

\* PDF_OPENING_BALANCE.search: the first one in the text.
Opening(pages) ==
  LET all == LinesOf(pages, "opening")
      first == CHOOSE a \in all : \A b \in all : NotAfter(a, b)
  IN  IF all = {} THEN NoLine ELSE pages[first[1]][first[2]]

\* Mutant: the sign is the one printed.
SignedAsPrinted(records, opening, i) == records[i].line.raw

\* The amount of a record: the change of the running balance, if there is
\* one to start from; 0 if it does not reconcile.
SignedAmount(records, opening, i) ==
  LET line == records[i].line
      known == i > 1 \/ opening # NoLine
      previous == IF i > 1 THEN records[i - 1].line.balance ELSE opening.balance
  IN  CASE ~known -> line.raw
        [] known /\ Magnitude(line.balance - previous) = Magnitude(line.raw) ->
             line.balance - previous
        [] OTHER -> 0

\* The description of a record and its details, joined and cut to 255
\* characters: what follows a long part is lost.
Described(texts) ==
  LET kept == {i \in DOMAIN texts : \A j \in 1..i - 1 : texts[j] \notin {"formula", "overlong"}}
      words == {texts[i] : i \in kept} \ {""}
      formula == \E i \in DOMAIN texts :
                   texts[i] = "formula" /\ \A j \in 1..i - 1 : texts[j] = ""
  IN  IF words = {} THEN ""
      ELSE IF formula THEN "formula"
      ELSE IF "interest" \in words THEN "interest"
      ELSE IF "tax" \in words THEN "tax"
      ELSE IF "fee" \in words THEN "fee" ELSE "other"

Description(record) ==
  Described([i \in 1..Len(record.details) + 1 |->
               IF i = 1 THEN record.line.text ELSE record.details[i - 1].text])

\* parse_transaction_pdf.
ParsePdf(pages) ==
  LET records == RawRecords(pages)
      opening == Opening(pages)
      amounts == [i \in DOMAIN records |-> SignedAmount(records, opening, i)]
      currencies == {records[i].line.currency : i \in DOMAIN records}
                      \cup (IF opening = NoLine THEN {} ELSE {opening.currency})
  IN  IF \/ ~Supported(pages) \/ records = <<>>
         \/ \E i \in DOMAIN records :
              LET line == records[i].line
              IN  line.raw = 0 \/ Magnitude(line.raw) >= AmountLimit \/ amounts[i] = 0 \/ line.day = 0
         \/ Cardinality(currencies) # 1
      THEN Refused
      ELSE [i \in DOMAIN records |->
              ImportedRow(records[i].line.day, Description(records[i]), amounts[i],
                          records[i].line.currency, records[i].reference)]

Parse(file) == IF file.kind = "pdf" THEN ParsePdf(file.pages) ELSE ParseCsv(file.rows)
=============================================================================
