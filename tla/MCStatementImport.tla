------------------------- MODULE MCStatementImport -------------------------
(***************************************************************************)
(* An instance of StatementImport: every PDF of two short pages over a     *)
(* small alphabet of lines, PDFs with descriptions over several lines or   *)
(* amounts at the limit, and CSV files of up to two rows.                  *)
(***************************************************************************)
EXTENDS StatementImport, TLC

\* 1,234.57: what is half a cent below it can be imported, and rounds to it.
MCAmountLimit == 12345700

Row(day, text, raw, balance, code) == Line("row", day, text, raw, balance, code, NoReference)
Other(kind, text, n) == Line(kind, 0, text, 0, 0, "eur", n)

Lines ==
  {Row(1, "other", 150, 150, "eur"), Row(2, "", 150, 0, "eur"), Row(1, "fee", 50, 50, "eur"),
   Row(1, "other", 150, 150, "usd"), Other("opening", "", NoReference),
   Other("reference", "", 1), Other("reference", "interest", 2), Other("footer", "", NoReference)}

Labels == Other("labels", "", NoReference)

Pdfs ==
  {[kind |-> "pdf", pages |-> << <<Labels>> \o first, second >>] :
     first \in BoundedSeq(Lines, 3), second \in BoundedSeq(Lines, 2)}
  \cup {[kind |-> "pdf", pages |-> << <<Row(1, "other", 150, 150, "eur")>> >>]}
  \cup {[kind |-> "pdf", pages |-> << <<Labels, row>> >>] :
          row \in {Row(1, "other", raw, raw, "eur") : raw \in {-MCAmountLimit, 1 - MCAmountLimit}}
                    \cup {Row(0, "other", 150, 150, "eur")}}

\* A description of three parts.
Described3 ==
  {[kind |-> "pdf",
    pages |-> << <<Labels, Row(1, a, 150, 150, "eur"), Other("detail", b, NoReference),
                   Other("detail", c, NoReference)>> >>] :
     a, b, c \in {"", "other", "interest", "formula", "overlong"}}

Texts ==
  {Written(FALSE, 150, 2, <<"point">>),                 \* 1.50
   Written(TRUE, 123456, 2, <<"point", "comma">>),      \* -1.234,56
   Written(FALSE, 12345678, 4, <<"comma", "point">>),   \* 1,234.5678
   Written(FALSE, 123457, 2, <<"comma", "point">>),     \* 1,234.57
   Written(FALSE, 1234, 3, <<"comma">>),                \* 1,234 reads as 1.234
   Written(FALSE, 4, 3, <<"point">>),                   \* 0.004
   Written(FALSE, 0, 0, <<>>),                          \* 0
   Written(FALSE, 12345, 5, <<"point">>),               \* 0.12345
   Written(FALSE, 1234567, 3, <<"comma", "comma">>)}    \* 1,234,567

Cells ==
  {CsvRow(1, "other", t) : t \in Texts}
  \cup {CsvRow(2, "fee", Written(FALSE, 150, 2, <<"point">>)),
        CsvRow(0, "other", Written(FALSE, 150, 2, <<"point">>)),
        CsvRow(1, "formula", Written(FALSE, 150, 2, <<"point">>))}
  \cup {CsvRow(1, d, Written(FALSE, 150, 2, <<"point">>)) : d \in {"", "overlong"}}

Csvs == {[kind |-> "csv", rows |-> rows] : rows \in BoundedSeq(Cells, 2)}

MCFiles == Pdfs \cup Described3 \cup Csvs

WorkerSymmetry == Permutations(Workers)
=============================================================================
