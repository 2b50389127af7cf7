----------------------- MODULE StatementImportProofs -----------------------
(***************************************************************************)
(* Proofs about StatementImport, for any requests, currencies and files:   *)
(* whatever crashes, overlaps or is edited meanwhile, a statement is       *)
(* posted whole, in order and in its own currency, or not at all; the      *)
(* records read from it are its transactions, each with its reference; and *)
(* posting them goes from printed balance to printed balance; an export    *)
(* is read again with every entry, unless one cannot be.                   *)
(***************************************************************************)
EXTENDS StatementImport, FiniteSetTheorems, WellFoundedInduction, TLAPS

PostedRow ==
  [id : Nat, batch : Workers, day : Nat, description : STRING, amount : Int, type : STRING,
   reference : Nat, stated : Currencies \cup {NoCurrency},
   currency : Currencies \cup {NoCurrency}]

Typed ==
  /\ file \in Files
  /\ currency \in Currencies
  /\ entries \in SUBSET PostedRow /\ IsFiniteSet(entries)
  /\ nextId \in Nat
  /\ pc \in [Workers -> {"idle", "post", "commit", "done", "failed", "refused"}]
  /\ job \in [Workers -> [rows : Seq(ParsedRow), posted : Seq(PostedRow),
                          currency : Currencies \cup {NoCurrency}]]

\* The entry is of w, is the row, and is in the currency the row states.
Faithful(w, entry, row) ==
  /\ entry.batch = w
  /\ Records(entry, row)
  /\ entry.stated \in {NoCurrency, entry.currency}

\* Posted one after the other.
Increasing(s) == \A i, j \in DOMAIN s : i < j => s[i].id < s[j].id

\* What is inserted in the transaction is the first rows of the statement,
\* read from the file and compared with the account when it was uploaded.
PrefixPosted(w) ==
  /\ job[w].rows = Parse(file)
  /\ \A i \in DOMAIN job[w].rows : job[w].rows[i].currency \in {NoCurrency, job[w].currency}
  /\ Len(job[w].posted) <= Len(job[w].rows)
  /\ pc[w] = "post" <=> Len(job[w].posted) < Len(job[w].rows)
  /\ \A i \in DOMAIN job[w].posted : Faithful(w, job[w].posted[i], job[w].rows[i])
  /\ Increasing(job[w].posted)
  /\ \A i \in DOMAIN job[w].posted : job[w].posted[i].id < nextId

UnderWay(w) == pc[w] \in {"post", "commit"} => PrefixPosted(w)

\* The batch of a request is the rows of the statement, posted in this order.
PostedAs(w, s) ==
  /\ BatchOf(w) = Range(s)
  /\ Len(s) = Len(Parse(file))
  /\ Increasing(s)
  /\ \A i \in DOMAIN s : Records(s[i], Parse(file)[i])

PostedOnce(w) ==
  IF pc[w] = "done"
  THEN \E s \in Seq(PostedRow) : PostedAs(w, s)
  ELSE BatchOf(w) = {}

OwnCurrency == \A e \in entries : e.stated \in {NoCurrency, e.currency}

\* The inductive invariant.
IInv ==
  /\ Typed
  /\ OwnCurrency
  /\ \A w \in Workers : UnderWay(w) /\ PostedOnce(w)

\* The entries up to the i-th.
Firsts(s, i) == {s[j] : j \in 1..i}

LEMMA FirstsCount ==
  ASSUME NEW s \in Seq(PostedRow), Increasing(s), NEW i \in 0..Len(s)
  PROVE  IsFiniteSet(Firsts(s, i)) /\ Cardinality(Firsts(s, i)) = i
<1> DEFINE f == [j \in 1..i |-> s[j]]
<1>0. i \in Nat /\ \A j \in 1..i : j \in DOMAIN s /\ s[j] \in PostedRow
  OBVIOUS
<1>1. \A j \in 1..i : s[j].id \in Int
  BY <1>0 DEF PostedRow
<1>2. ASSUME NEW j \in 1..i, NEW k \in 1..i, s[j] = s[k] PROVE j = k
  BY <1>0, <1>1, <1>2 DEF Increasing
<1>3. f \in Surjection(1..i, Firsts(s, i))
  BY DEF Surjection, Firsts
<1>4. f \in Injection(1..i, Firsts(s, i))
  BY <1>2 DEF Injection, IsInjective, Firsts
<1>5. IsFiniteSet(1..i) /\ Cardinality(1..i) = i
  BY <1>0, FS_Interval
<1> HIDE DEF f
<1> QED BY <1>3, <1>4, <1>5, FS_Surjection

\* Among entries posted one after the other, the i-th is preceded by i - 1.
LEMMA FirstsById ==
  ASSUME NEW s \in Seq(PostedRow), Increasing(s), NEW i \in DOMAIN s
  PROVE  {e \in Range(s) : e.id <= s[i].id} = Firsts(s, i)
<1>0. \A j \in DOMAIN s : j \in Int /\ s[j] \in PostedRow
  OBVIOUS
<1>1. \A j \in DOMAIN s : s[j].id \in Int
  BY <1>0 DEF PostedRow
<1>2. ASSUME NEW j \in DOMAIN s PROVE s[j].id <= s[i].id <=> j <= i
  BY <1>0, <1>1 DEF Increasing
<1>3. \A j : j \in 1..i <=> j \in DOMAIN s /\ j <= i
  OBVIOUS
<1>4. \A e : e \in Range(s) <=> \E j \in DOMAIN s : e = s[j]
  BY DEF Range
<1>5. \A e : e \in Firsts(s, i) <=> \E j \in 1..i : e = s[j]
  BY DEF Firsts
<1> QED BY <1>2, <1>3, <1>4, <1>5

LEMMA RangeCount ==
  ASSUME NEW s \in Seq(PostedRow), Increasing(s)
  PROVE  IsFiniteSet(Range(s)) /\ Cardinality(Range(s)) = Len(s)
<1>1. Range(s) = Firsts(s, Len(s)) /\ Len(s) \in 0..Len(s)
  BY DEF Range, Firsts
<1> QED BY <1>1, FirstsCount

\* An entry of a batch is the row whose number is its place by id.
LEMMA BatchNumbered ==
  ASSUME NEW w \in Workers, NEW s \in Seq(PostedRow), PostedAs(w, s), NEW i \in DOMAIN s
  PROVE  SoFar(w, s[i]) = Firsts(s, i) /\ Cardinality(SoFar(w, s[i])) = i
<1>1. SoFar(w, s[i]) = Firsts(s, i)
  BY FirstsById DEF PostedAs, SoFar
<1>2. i \in 0..Len(s)
  OBVIOUS
<1> QED BY <1>1, <1>2, FirstsCount DEF PostedAs

LEMMA WholeOfParts == IInv => ImportWhole
<1> SUFFICES ASSUME IInv PROVE ImportWhole
  OBVIOUS
<1>1. ASSUME NEW w \in Workers, pc[w] = "done"
      PROVE  /\ Cardinality(BatchOf(w)) = Len(Parse(file))
             /\ \A e \in BatchOf(w) : Records(e, Parse(file)[Cardinality(SoFar(w, e))])
  <2>1. PICK s \in Seq(PostedRow) : PostedAs(w, s)
    BY <1>1 DEF IInv, PostedOnce
  <2>2. Cardinality(BatchOf(w)) = Len(Parse(file))
    BY <2>1, RangeCount DEF PostedAs
  <2>3. ASSUME NEW e \in BatchOf(w)
        PROVE  Records(e, Parse(file)[Cardinality(SoFar(w, e))])
    <3>1. PICK i \in DOMAIN s : e = s[i]
      BY <2>1 DEF PostedAs, Range
    <3>2. Cardinality(SoFar(w, e)) = i
      BY <2>1, <3>1, BatchNumbered
    <3> QED BY <2>1, <3>1, <3>2 DEF PostedAs
  <2> QED BY <2>2, <2>3
<1>2. \A w \in Workers : pc[w] # "done" => BatchOf(w) = {}
  BY DEF IInv, PostedOnce
<1> QED BY <1>1, <1>2 DEF ImportWhole, IInv, OwnCurrency

LEMMA InvariantInit == Init => IInv
BY FS_EmptySet DEF Init, NoJob, Refused, IInv, Typed, OwnCurrency, UnderWay, PostedOnce, BatchOf

\* A request that does not touch the table nor another request leaves the
\* others' parts of the invariant alone, whatever ids it draws.
LEMMA OthersKept ==
  ASSUME IInv, NEW w \in Workers, NEW v \in Workers, v # w,
         pc'[v] = pc[v], job'[v] = job[v], UNCHANGED <<file, entries>>,
         nextId' \in Nat, nextId <= nextId'
  PROVE  UnderWay(v)' /\ PostedOnce(v)'
<1>1. PostedOnce(v)'
  BY DEF IInv, PostedOnce, PostedAs, BatchOf
<1>2. ASSUME PrefixPosted(v) PROVE PrefixPosted(v)'
  <2>1. \A i \in DOMAIN job[v].posted : job[v].posted[i].id \in Nat
    <3>1. job[v].posted \in Seq(PostedRow)
      BY DEF IInv, Typed
    <3>2. \A i \in DOMAIN job[v].posted : job[v].posted[i] \in PostedRow
      BY <3>1
    <3> QED BY <3>2 DEF PostedRow
  <2>2. \A i \in DOMAIN job[v].posted : job[v].posted[i].id < nextId'
    BY <1>2, <2>1 DEF PrefixPosted, IInv, Typed
  <2> QED BY <1>2, <2>2 DEF PrefixPosted, Increasing
<1> QED BY <1>1, <1>2 DEF IInv, UnderWay

LEMMA UploadKeeps == ASSUME IInv, NEW w \in Workers, Upload(w) PROVE IInv'
<1> DEFINE rows == Parse(file)
<1>1. rows \in Seq(ParsedRow) /\ nextId \in Nat
  BY FilesAssumption DEF IInv, Typed
<1>2. CASE rows = Refused \/ Foreign(rows)
  <2>1. pc' = [pc EXCEPT ![w] = "refused"] /\ UNCHANGED <<job, file, currency, entries, nextId>>
    BY <1>2 DEF Upload, Goto
  <2>a. Typed' /\ OwnCurrency'
    BY <2>1 DEF IInv, Typed, OwnCurrency
  <2>2. UnderWay(w)' /\ PostedOnce(w)'
    BY <1>2, <2>1 DEF IInv, Typed, Upload, UnderWay, PostedOnce, BatchOf
  <2>3. ASSUME NEW v \in Workers, v # w PROVE UnderWay(v)' /\ PostedOnce(v)'
    BY <1>1, <2>1, <2>3, OthersKept DEF IInv, Typed
  <2> QED BY <2>a, <2>2, <2>3 DEF IInv
<1>3. CASE ~(rows = Refused \/ Foreign(rows))
  <2>1. Len(rows) > 0
    BY <1>1, <1>3 DEF Refused
  <2>2. job' = [job EXCEPT ![w] = [rows |-> rows, posted |-> <<>>, currency |-> currency]]
    BY <1>3 DEF Upload, NoJob
  <2>3. Typed' /\ OwnCurrency'
    <3> DEFINE mine == [rows |-> rows, posted |-> <<>>, currency |-> currency]
    <3>1. mine \in [rows : Seq(ParsedRow), posted : Seq(PostedRow),
                    currency : Currencies \cup {NoCurrency}]
      BY <1>1 DEF IInv, Typed
    <3>2. pc' = [pc EXCEPT ![w] = "post"] /\ UNCHANGED <<file, currency, entries, nextId>>
      BY <1>3 DEF Upload, Goto
    <3> HIDE DEF mine
    <3>3. job' = [job EXCEPT ![w] = mine]
      BY <2>2 DEF mine
    <3> QED BY <3>1, <3>2, <3>3 DEF IInv, Typed, OwnCurrency
  <2>4. job'[w] = [rows |-> rows, posted |-> <<>>, currency |-> currency] /\ pc'[w] = "post"
    BY <1>3, <2>2 DEF IInv, Typed, Upload, Goto
  <2>5. \A i \in DOMAIN rows : rows[i].currency \in {NoCurrency, currency}
    BY <1>3 DEF Foreign
  <2>6. PrefixPosted(w)'
    BY <2>1, <2>4, <2>5, <1>1 DEF PrefixPosted, Increasing, Upload
  <2>7. PostedOnce(w)'
    BY <1>3, <2>4 DEF IInv, Upload, PostedOnce, BatchOf
  <2>8. ASSUME NEW v \in Workers, v # w PROVE UnderWay(v)' /\ PostedOnce(v)'
    <3>1. pc'[v] = pc[v] /\ job'[v] = job[v] /\ UNCHANGED <<file, entries, nextId>>
      BY <1>3, <2>8 DEF IInv, Typed, Upload, Goto
    <3> QED BY <1>1, <2>8, <3>1, OthersKept
  <2> QED BY <2>3, <2>6, <2>7, <2>8 DEF IInv, UnderWay
<1> QED BY <1>2, <1>3

\* The entry a turn of the loop inserts.
LEMMA EntryOK ==
  ASSUME NEW w \in Workers, IInv, NEW row \in ParsedRow,
         row.currency \in {NoCurrency, job[w].currency}
  PROVE  /\ Entry(w, row) \in PostedRow /\ Faithful(w, Entry(w, row), row)
         /\ Entry(w, row).id = nextId
<1>1. job[w].currency \in Currencies \cup {NoCurrency} /\ nextId \in Nat
  BY DEF IInv, Typed
<1>2. Entry(w, row) \in PostedRow
  BY <1>1 DEF Entry, PostedRow, ParsedRow
<1>3. Records(Entry(w, row), row)
  BY DEF Records, Entry
<1> QED BY <1>2, <1>3 DEF Faithful, Entry

LEMMA PostRowKeeps == ASSUME IInv, NEW w \in Workers, PostRow(w) PROVE IInv'
<1> DEFINE rows == job[w].rows
           old == job[w].posted
           n == Len(old) + 1
           entry == Entry(w, rows[n])
<1>0. nextId \in Nat /\ nextId' = nextId + 1
  BY DEF IInv, Typed, PostRow
<1>1. PrefixPosted(w) /\ pc[w] = "post"
  BY DEF IInv, PostRow, UnderWay
<1>2. rows \in Seq(ParsedRow) /\ old \in Seq(PostedRow) /\ n \in 1..Len(rows)
  BY <1>1 DEF IInv, Typed, PrefixPosted
<1>3. entry \in PostedRow /\ Faithful(w, entry, rows[n]) /\ entry.id = nextId
  <2>1. rows[n] \in ParsedRow /\ rows[n].currency \in {NoCurrency, job[w].currency}
    BY <1>1, <1>2 DEF PrefixPosted
  <2> QED BY <2>1, EntryOK
<1>4. job'[w].posted = Append(old, entry) /\ job'[w].rows = rows /\ job'[w].currency = job[w].currency
  BY DEF IInv, Typed, PostRow
<1>5. pc'[w] = IF n = Len(rows) THEN "commit" ELSE "post"
  BY DEF IInv, Typed, PostRow, Goto
<1>6. Typed' /\ OwnCurrency'
  <2> HIDE DEF entry
  <2>1. Append(old, entry) \in Seq(PostedRow)
    BY <1>2, <1>3
  <2>2. job' = [job EXCEPT ![w].posted = Append(old, entry)]
    BY DEF PostRow, entry
  <2>3. UNCHANGED <<file, currency, entries>> /\ nextId' \in Nat
    BY <1>0 DEF PostRow
  <2>4. \/ pc' = [pc EXCEPT ![w] = "commit"]
        \/ pc' = [pc EXCEPT ![w] = "post"]
    BY DEF PostRow, Goto
  <2> HIDE DEF old
  <2> QED BY <2>1, <2>2, <2>3, <2>4 DEF IInv, Typed, OwnCurrency
<1>7. PrefixPosted(w)'
  <2> HIDE DEF entry
  <2>1. /\ Len(Append(old, entry)) = n /\ Append(old, entry)[n] = entry
        /\ \A i \in 1..n - 1 : Append(old, entry)[i] = old[i]
        /\ DOMAIN Append(old, entry) = 1..n
    BY <1>2, <1>3
  <2>2. \A i \in 1..n : Faithful(w, Append(old, entry)[i], rows[i])
    BY <1>1, <1>2, <1>3, <2>1 DEF PrefixPosted
  <2>3. Len(rows) \in Nat /\ n <= Len(rows)
    BY <1>2
  <2>4. \A i \in 1..n - 1 : old[i].id \in Nat /\ old[i].id < nextId
    <3>1. \A i \in 1..n - 1 : i \in DOMAIN old /\ old[i] \in PostedRow
      BY <1>2
    <3> QED BY <1>1, <3>1 DEF PrefixPosted, PostedRow
  <2>5. \A i \in 1..n : Append(old, entry)[i].id < nextId + 1
    BY <1>0, <1>2, <1>3, <2>1, <2>4
  <2>6. Increasing(Append(old, entry))
    <3> SUFFICES ASSUME NEW i \in 1..n, NEW j \in 1..n, i < j
                 PROVE  Append(old, entry)[i].id < Append(old, entry)[j].id
      BY <2>1 DEF Increasing
    <3>1. i \in 1..n - 1 /\ Append(old, entry)[i] = old[i]
      BY <1>2, <2>1
    <3>2. CASE j = n
      BY <1>3, <2>1, <2>4, <3>1, <3>2
    <3>3. CASE j # n
      <4>1. j \in 1..n - 1 /\ i \in DOMAIN old /\ j \in DOMAIN old
        BY <1>2, <3>1, <3>3
      <4> QED BY <1>1, <2>1, <3>1, <4>1 DEF PrefixPosted, Increasing
    <3> QED BY <3>2, <3>3
  <2> QED BY <1>0, <1>1, <1>4, <1>5, <2>1, <2>2, <2>3, <2>5, <2>6 DEF PrefixPosted, PostRow
<1>8. PostedOnce(w)'
  BY <1>1, <1>5 DEF IInv, PostedOnce, PostRow, BatchOf
<1>9. ASSUME NEW v \in Workers, v # w PROVE UnderWay(v)' /\ PostedOnce(v)'
  <2>1. pc'[v] = pc[v] /\ job'[v] = job[v]
    BY <1>9 DEF IInv, Typed, PostRow, Goto
  <2> QED BY <1>0, <1>9, <2>1, OthersKept DEF PostRow
<1> QED BY <1>6, <1>7, <1>8, <1>9 DEF IInv, UnderWay

LEMMA CrashKeeps == ASSUME IInv, NEW w \in Workers, Crash(w) PROVE IInv'
<1>1. Typed' /\ OwnCurrency'
  BY DEF IInv, Typed, OwnCurrency, Crash, Goto, NoJob, Refused
<1>2. UnderWay(w)' /\ PostedOnce(w)'
  BY DEF IInv, Typed, Crash, Goto, UnderWay, PostedOnce, BatchOf
<1>3. ASSUME NEW v \in Workers, v # w PROVE UnderWay(v)' /\ PostedOnce(v)'
  <2>1. pc'[v] = pc[v] /\ job'[v] = job[v] /\ nextId \in Nat
    BY <1>3 DEF IInv, Typed, Crash, Goto
  <2> QED BY <1>3, <2>1, OthersKept DEF Crash
<1> QED BY <1>1, <1>2, <1>3 DEF IInv

\* The account's currency enters an import at the upload only.
LEMMA EditKeeps ==
  ASSUME IInv, UNCHANGED <<file, entries, nextId, pc, job>>, currency' \in Currencies
  PROVE  IInv'
<1>1. UNCHANGED <<file, entries, nextId, pc, job>> /\ currency' \in Currencies
  OBVIOUS
<1>2. Typed' /\ OwnCurrency'
  BY <1>1 DEF IInv, Typed, OwnCurrency
<1>3. ASSUME NEW w \in Workers PROVE UnderWay(w)' /\ PostedOnce(w)'
  <2>1. UnderWay(w)'
    BY <1>1 DEF IInv, UnderWay, PrefixPosted
  <2>2. PostedOnce(w)'
    BY <1>1 DEF IInv, PostedOnce, PostedAs, BatchOf
  <2> QED BY <2>1, <2>2
<1> QED BY <1>2, <1>3 DEF IInv

\* The commit adds one batch; the others stay as they were.
LEMMA CommitKeeps == ASSUME IInv, NEW w \in Workers, Commit(w) PROVE IInv'
<1> DEFINE batch == job[w].posted
           rows == Parse(file)
<1>1. PrefixPosted(w) /\ pc[w] = "commit"
  BY DEF IInv, Commit, UnderWay
<1>2. batch \in Seq(PostedRow) /\ rows \in Seq(ParsedRow) /\ Len(batch) = Len(rows)
  BY <1>1, FilesAssumption DEF IInv, Typed, PrefixPosted
<1>3. \A e : e \in entries' <=> e \in entries \/ \E i \in DOMAIN batch : e = batch[i]
  BY DEF Commit, Range
<1>4. \A i \in DOMAIN batch : batch[i] \in PostedRow /\ Faithful(w, batch[i], rows[i])
  BY <1>1, <1>2 DEF PrefixPosted
<1>5. pc' = [pc EXCEPT ![w] = "done"] /\ job' = [job EXCEPT ![w] = NoJob]
      /\ UNCHANGED <<file, currency, nextId>> /\ pc'[w] = "done"
  BY DEF IInv, Typed, Commit, Goto
<1>6. Typed'
  <2>1. IsFiniteSet(entries')
    <3>1. IsFiniteSet(Range(batch))
      BY <1>1, <1>2, RangeCount DEF PrefixPosted
    <3>2. IsFiniteSet(entries) /\ entries' = entries \cup Range(batch)
      BY DEF IInv, Typed, Commit
    <3> HIDE DEF batch
    <3> QED BY <3>1, <3>2, FS_Union
  <2>2. entries' \in SUBSET PostedRow
    BY <1>3, <1>4 DEF IInv, Typed
  <2> QED BY <1>5, <2>1, <2>2 DEF IInv, Typed, NoJob, Refused
<1>7. OwnCurrency'
  BY <1>3, <1>4 DEF IInv, OwnCurrency, Faithful
<1>8. UnderWay(w)'
  BY <1>5 DEF UnderWay
<1>9. PostedOnce(w)'
  <2>1. \A e \in entries : e.batch # w
    BY <1>1 DEF IInv, PostedOnce, BatchOf
  <2>a. PICK s \in Seq(PostedRow) : s = batch
    BY <1>2
  <2>2. BatchOf(w)' = Range(s)
    <3>1. \A e : e \in BatchOf(w)' <=> e \in Range(s)
      BY <1>3, <1>4, <2>1, <2>a DEF BatchOf, Faithful, Range
    <3> QED BY <3>1 DEF BatchOf
  <2>3. \A i \in DOMAIN s : Records(s[i], rows[i])
    BY <1>4, <2>a DEF Faithful
  <2>4. Increasing(s) /\ Len(s) = Len(rows)
    BY <1>1, <1>2, <2>a DEF PrefixPosted
  <2>5. (\E t \in Seq(PostedRow) : PostedAs(w, t))'
    BY <1>5, <2>2, <2>3, <2>4 DEF PostedAs
  <2> QED BY <1>5, <2>5 DEF PostedOnce
<1>10. ASSUME NEW v \in Workers, v # w PROVE UnderWay(v)' /\ PostedOnce(v)'
  <2>1. pc'[v] = pc[v] /\ job'[v] = job[v]
    BY <1>5, <1>10 DEF IInv, Typed
  <2>2. UnderWay(v)'
    BY <1>5, <2>1 DEF IInv, UnderWay, PrefixPosted
  <2>3. BatchOf(v)' = BatchOf(v)
    <3>1. \A e : e \in BatchOf(v)' <=> e \in BatchOf(v)
      BY <1>3, <1>4, <1>10 DEF BatchOf, Faithful
    <3> QED BY <3>1 DEF BatchOf
  <2>4. PostedOnce(v)'
    BY <1>5, <2>1, <2>3 DEF IInv, PostedOnce, PostedAs
  <2> QED BY <2>2, <2>4
<1> QED BY <1>6, <1>7, <1>8, <1>9, <1>10 DEF IInv

LEMMA InvariantNext == IInv /\ [Next]_vars => IInv'
<1> SUFFICES ASSUME IInv, [Next]_vars PROVE IInv'
  OBVIOUS
<1>1. CASE Next
  BY <1>1, UploadKeeps, PostRowKeeps, CommitKeeps, CrashKeeps, EditKeeps DEF Next, EditCurrency
<1>2. CASE UNCHANGED vars
  BY <1>2, EditKeeps DEF vars, IInv, Typed
<1> QED BY <1>1, <1>2

\* ledger/imports.py:310-313 for any number of requests, edits and crashes and
\* any file: the whole statement, each row once and in the order of the ids the
\* requests draw side by side, or nothing; and in the currency it names.
THEOREM StatementsPostWhole == Spec => []ImportWhole
BY WholeOfParts, InvariantInit, InvariantNext, PTL DEF Spec

-----------------------------------------------------------------------------
\* Each entry has an id of its own: no two draw the same, and none is drawn twice.
Undrawn(id) ==
  /\ \A e \in entries : e.id # id
  /\ \A w \in Workers : \A i \in DOMAIN job[w].posted : job[w].posted[i].id # id

IdsApart ==
  /\ \A id \in Nat : nextId <= id => Undrawn(id)
  /\ \A e, f \in entries : e.id = f.id => e = f
  /\ \A w \in Workers : \A i \in DOMAIN job[w].posted :
       /\ \A e \in entries : e.id # job[w].posted[i].id
       /\ \A v \in Workers \ {w} : \A j \in DOMAIN job[v].posted :
            job[v].posted[j].id # job[w].posted[i].id

LEMMA IdsApartInit == Init => IdsApart
BY DEF Init, NoJob, IdsApart, Undrawn

LEMMA IdsApartPost == ASSUME IInv, IdsApart, NEW w \in Workers, PostRow(w) PROVE IdsApart'
<1> DEFINE old == job[w].posted
           entry == Entry(w, job[w].rows[Len(old) + 1])
<1>1. nextId \in Nat /\ nextId' = nextId + 1 /\ entries' = entries /\ entry.id = nextId
  BY DEF IInv, Typed, PostRow, Entry
<1>2. \A v \in Workers : v # w => job'[v] = job[v]
  BY DEF IInv, Typed, PostRow
<1>3. /\ DOMAIN job'[w].posted = 1..Len(old) + 1
      /\ \A i \in DOMAIN job'[w].posted :
           (job'[w].posted[i].id = nextId) \/ (i \in DOMAIN old /\ job'[w].posted[i] = old[i])
  <2>1. old \in Seq(PostedRow) /\ job'[w].posted = Append(old, entry)
    BY DEF IInv, Typed, PostRow
  <2> HIDE DEF old, entry
  <2> QED BY <1>1, <2>1
<1> HIDE DEF entry
<1>4. Undrawn(nextId)
  BY <1>1 DEF IdsApart
<1>5. ASSUME NEW id \in Nat, nextId' <= id PROVE Undrawn(id)'
  <2>1. nextId <= id /\ id # nextId
    BY <1>1, <1>5
  <2>2. Undrawn(id)
    BY <2>1 DEF IdsApart
  <2> QED BY <1>1, <1>2, <1>3, <2>1, <2>2 DEF Undrawn
<1>6. ASSUME NEW v \in Workers, NEW i \in DOMAIN job'[v].posted
      PROVE  /\ \A e \in entries' : e.id # job'[v].posted[i].id
             /\ \A u \in Workers \ {v} : \A j \in DOMAIN job'[u].posted :
                  job'[u].posted[j].id # job'[v].posted[i].id
  <2>1. CASE v = w
    BY <1>1, <1>2, <1>3, <1>4, <2>1 DEF IdsApart, Undrawn
  <2>2. CASE v # w
    BY <1>1, <1>2, <1>3, <1>4, <2>2 DEF IdsApart, Undrawn
  <2> QED BY <2>1, <2>2
<1> QED BY <1>1, <1>5, <1>6 DEF IdsApart

LEMMA IdsApartCommit == ASSUME IInv, IdsApart, NEW w \in Workers, Commit(w) PROVE IdsApart'
<1> DEFINE batch == job[w].posted
<1>1. \A e : e \in entries' <=> e \in entries \/ \E i \in DOMAIN batch : e = batch[i]
  BY DEF Commit, Range
<1>2. nextId' = nextId /\ \A v \in Workers : v # w => job'[v] = job[v]
  BY DEF IInv, Typed, Commit
<1>3. job'[w].posted = <<>> /\ DOMAIN job'[w].posted = {}
  BY DEF IInv, Typed, Commit, NoJob
<1>4. ASSUME NEW i \in DOMAIN batch, NEW j \in DOMAIN batch, batch[i].id = batch[j].id
      PROVE  i = j
  <2>1. Increasing(batch)
    BY DEF IInv, UnderWay, PrefixPosted, Commit
  <2>2. batch \in Seq(PostedRow)
    BY DEF IInv, Typed
  <2>3. i \in Int /\ j \in Int /\ batch[i] \in PostedRow
    BY <2>2
  <2>4. batch[i].id \in Int
    BY <2>3 DEF PostedRow
  <2> QED BY <1>4, <2>1, <2>3, <2>4 DEF Increasing
<1>5. \A id \in Nat : nextId' <= id => Undrawn(id)'
  BY <1>1, <1>2, <1>3 DEF IdsApart, Undrawn
<1>6. \A e, f \in entries' : e.id = f.id => e = f
  <2> SUFFICES ASSUME NEW e \in entries', NEW f \in entries', e.id = f.id
               PROVE  e = f
    OBVIOUS
  <2>1. \A i \in DOMAIN batch : \A x \in entries : x.id # batch[i].id
    BY DEF IdsApart
  <2>2. CASE e \in entries /\ f \in entries
    BY <2>2 DEF IdsApart
  <2>3. CASE e \notin entries \/ f \notin entries
    BY <1>1, <1>4, <2>1, <2>3
  <2> QED BY <2>2, <2>3
<1>7. ASSUME NEW v \in Workers, NEW i \in DOMAIN job'[v].posted
      PROVE  /\ \A e \in entries' : e.id # job'[v].posted[i].id
             /\ \A u \in Workers \ {v} : \A j \in DOMAIN job'[u].posted :
                  job'[u].posted[j].id # job'[v].posted[i].id
  <2>1. v # w /\ job'[v] = job[v]
    BY <1>2, <1>3, <1>7
  <2> QED BY <1>1, <1>2, <1>3, <2>1 DEF IdsApart
<1> QED BY <1>5, <1>6, <1>7 DEF IdsApart

\* Nothing else draws an id or adds an entry.
LEMMA IdsApartKept ==
  ASSUME IdsApart, UNCHANGED <<entries, nextId>>,
         \A w \in Workers : job'[w].posted = job[w].posted \/ job'[w].posted = <<>>
  PROVE  IdsApart'
<1>1. \A w \in Workers : \A i \in DOMAIN job'[w].posted :
        i \in DOMAIN job[w].posted /\ job'[w].posted[i] = job[w].posted[i]
  OBVIOUS
<1> QED BY <1>1 DEF IdsApart, Undrawn

LEMMA IdsApartNext == IInv /\ IdsApart /\ [Next]_vars => IdsApart'
<1> SUFFICES ASSUME IInv, IdsApart, [Next]_vars PROVE IdsApart'
  OBVIOUS
<1>1. ASSUME NEW w \in Workers, Upload(w) PROVE IdsApart'
  BY <1>1, IdsApartKept DEF IInv, Typed, Upload, NoJob
<1>2. ASSUME NEW w \in Workers, Crash(w) PROVE IdsApart'
  BY <1>2, IdsApartKept DEF IInv, Typed, Crash, NoJob
<1>3. CASE EditCurrency \/ UNCHANGED vars
  BY <1>3, IdsApartKept DEF EditCurrency, vars
<1> QED BY <1>1, <1>2, <1>3, IdsApartPost, IdsApartCommit DEF Next


\* A set of natural numbers that is not empty has a least one.
LEMMA LeastNatural ==
  ASSUME NEW S \in SUBSET Nat, S # {}
  PROVE  \E x \in S : \A y \in S : x <= y
<1>1. \E x \in S : \A y \in S : ~(<<y, x>> \in OpToRel(<, Nat))
  BY WFMin, NatLessThanWellFounded
<1>2. PICK x \in S : \A y \in S : ~(y < x)
  BY <1>1 DEF OpToRel
<1> QED BY <1>2

\* A subset of S is good when all sets of one element less are.
Hereditary(Good, S) == \A T \in SUBSET S : (\A x \in T : T \ {x} \in Good) => T \in Good

\* Induction over the subsets of a finite set.
LEMMA SubsetInduction ==
  ASSUME NEW S, IsFiniteSet(S), NEW Good, Hereditary(Good, S)
  PROVE  S \in Good
<1> SUFFICES ASSUME S \notin Good
             PROVE  FALSE
  OBVIOUS
<1> DEFINE Bad == {T \in SUBSET S : T \notin Good}
           sizes == {Cardinality(T) : T \in Bad}
<1>1. \A T \in SUBSET S : IsFiniteSet(T) /\ Cardinality(T) \in Nat
  BY FS_Subset, FS_CardinalityType
<1>2. PICK n \in sizes : \A m \in sizes : n <= m
  <2>1. sizes \in SUBSET Nat /\ sizes # {}
    BY <1>1
  <2> HIDE DEF sizes
  <2> QED BY <2>1, LeastNatural
<1>3. PICK T \in Bad : n = Cardinality(T)
  BY <1>2
<1>4. ASSUME NEW x \in T
      PROVE  T \ {x} \in Good
  <2>1. Cardinality(T \ {x}) < Cardinality(T)
    <3>1. IsFiniteSet(T) /\ Cardinality(T) \in Nat
      BY <1>1
    <3>2. Cardinality(T \ {x}) = Cardinality(T) - 1
      BY <3>1, FS_RemoveElement
    <3> QED BY <3>1, <3>2
  <2>2. T \ {x} \in SUBSET S
    OBVIOUS
  <2>3. T \ {x} \in Bad => n <= Cardinality(T \ {x})
    BY <1>2
  <2>4. n \in Nat /\ Cardinality(T \ {x}) \in Nat
    BY <1>1, <1>3, <2>2
  <2> QED BY <1>3, <2>1, <2>2, <2>3, <2>4
<1> QED BY <1>4 DEF Hereditary

\* A set of pairs that orders what it relates, strictly and totally.
Orders(less, S) ==
  /\ \A x \in S : <<x, x>> \notin less
  /\ \A x, y, z \in S : <<x, y>> \in less /\ <<y, z>> \in less => <<x, z>> \in less
  /\ \A x, y \in S : x # y => <<x, y>> \in less \/ <<y, x>> \in less

\* A finite set that is not empty has a last element.
LEMMA LastExists ==
  ASSUME NEW S, IsFiniteSet(S), S # {}, NEW less, Orders(less, S)
  PROVE  \E x \in S : \A y \in S \ {x} : <<y, x>> \in less
<1> DEFINE Good == {T \in SUBSET S : T # {} => \E x \in T : \A y \in T \ {x} : <<y, x>> \in less}
<1>1. ASSUME NEW T \in SUBSET S, \A x \in T : T \ {x} \in Good, T # {}
      PROVE  \E x \in T : \A y \in T \ {x} : <<y, x>> \in less
  <2>1. PICK z \in T : TRUE
    BY <1>1
  <2>2. CASE T \ {z} = {}
    BY <2>1, <2>2
  <2>3. CASE T \ {z} # {}
    <3>1. PICK x \in T \ {z} : \A y \in (T \ {z}) \ {x} : <<y, x>> \in less
      BY <1>1, <2>3
    <3>2. <<x, z>> \in less \/ <<z, x>> \in less
      BY <3>1 DEF Orders
    <3>3. CASE <<z, x>> \in less
      <4>1. \A y \in T \ {x} : <<y, x>> \in less
        BY <3>1, <3>3
      <4> QED BY <4>1
    <3>4. CASE <<x, z>> \in less
      <4>1. ASSUME NEW y \in T \ {z}
            PROVE  <<y, z>> \in less
        <5>1. CASE y = x
          BY <3>4, <5>1
        <5>2. CASE y # x
          <6>1. <<y, x>> \in less /\ y \in S /\ x \in S /\ z \in S
            BY <3>1, <5>2
          <6> QED BY <3>4, <6>1 DEF Orders
        <5> QED BY <5>1, <5>2
      <4> QED BY <2>1, <4>1
    <3> QED BY <3>2, <3>3, <3>4
  <2> QED BY <2>2, <2>3
<1>2. Hereditary(Good, S)
  BY <1>1 DEF Hereditary
<1>3. S \in Good
  <2> HIDE DEF Good
  <2> QED BY <1>2, SubsetInduction
<1> QED BY <1>3

\* pick takes an element of every set, step keeps within V.
Picks(pick, S) == \A T \in SUBSET S : T # {} => pick[T] \in T
Keeps(step, S, V) == \A x \in S, v \in V : step[<<x, v>>] \in V

\* iter[T] is step applied to all elements of T, the one pick[T] last, for the
\* sets T of at most n elements, and for all of them.
Unfolded(iter, step, base, pick, T) ==
  iter[T] = IF T = {} THEN base ELSE step[<<pick[T], iter[T \ {pick[T]}]>>]
FoldsUpTo(iter, step, base, pick, S, n) ==
  \A T \in SUBSET S : Cardinality(T) <= n => Unfolded(iter, step, base, pick, T)
Folds(iter, step, base, pick, S) == \A T \in SUBSET S : Unfolded(iter, step, base, pick, T)

LEMMA FoldOneMore ==
  ASSUME NEW S, IsFiniteSet(S), NEW pick, Picks(pick, S), NEW V, NEW base \in V,
         NEW step, Keeps(step, S, V),
         NEW n \in Int, NEW g \in [SUBSET S -> V], FoldsUpTo(g, step, base, pick, S, n)
  PROVE  \E h \in [SUBSET S -> V] : FoldsUpTo(h, step, base, pick, S, n + 1)
<1> DEFINE value(T) == IF T = {} THEN base ELSE step[<<pick[T], g[T \ {pick[T]}]>>]
           h == [T \in SUBSET S |-> IF Cardinality(T) <= n THEN g[T] ELSE value(T)]
<1>1. \A T \in SUBSET S : IsFiniteSet(T) /\ Cardinality(T) \in Nat
  BY FS_Subset, FS_CardinalityType
<1>2. \A T \in SUBSET S : value(T) \in V
  BY DEF Picks, Keeps
<1>3. h \in [SUBSET S -> V]
  <2> HIDE DEF value
  <2> QED BY <1>2
<1>4. ASSUME NEW T \in SUBSET S, Cardinality(T) <= n + 1
      PROVE  h[T] = IF T = {} THEN base ELSE step[<<pick[T], h[T \ {pick[T]}]>>]
  <2>1. h[T] = value(T)
    <3> HIDE DEF value
    <3>1. Cardinality(T) <= n => g[T] = value(T)
      BY DEF FoldsUpTo, Unfolded, value
    <3> QED BY <3>1
  <2>2. CASE T = {}
    BY <2>1, <2>2
  <2>3. CASE T # {}
    <3>1. pick[T] \in T /\ T \ {pick[T]} \in SUBSET S
      BY <2>3 DEF Picks
    <3>2. Cardinality(T \ {pick[T]}) = Cardinality(T) - 1
      BY <1>1, <3>1, FS_RemoveElement
    <3>3. Cardinality(T) \in Nat /\ Cardinality(T \ {pick[T]}) <= n
      BY <1>1, <1>4, <3>2
    <3>4. h[T \ {pick[T]}] = g[T \ {pick[T]}]
      <4> HIDE DEF value
      <4> QED BY <3>1, <3>3
    <3> HIDE DEF h
    <3> QED BY <2>1, <2>3, <3>4
  <2> QED BY <2>2, <2>3
<1>5. FoldsUpTo(h, step, base, pick, S, n + 1)
  <2> HIDE DEF h
  <2> QED BY <1>4 DEF FoldsUpTo, Unfolded
<1> QED
  <2> HIDE DEF h
  <2> QED BY <1>3, <1>5

\* A step that keeps within V can be applied to all elements of a finite set.
LEMMA FoldExists ==
  ASSUME NEW S, IsFiniteSet(S), NEW pick, Picks(pick, S), NEW V, NEW base \in V,
         NEW step, Keeps(step, S, V)
  PROVE  \E iter \in [SUBSET S -> V] : Folds(iter, step, base, pick, S)
<1> DEFINE Bad == {n \in Nat : ~\E g \in [SUBSET S -> V] : FoldsUpTo(g, step, base, pick, S, n)}
<1>1. \A T \in SUBSET S : IsFiniteSet(T) /\ Cardinality(T) \in Nat
  BY FS_Subset, FS_CardinalityType
<1>2. \E g \in [SUBSET S -> V] : FoldsUpTo(g, step, base, pick, S, 0)
  <2> DEFINE g == [T \in SUBSET S |-> base]
  <2>1. \A T \in SUBSET S : Cardinality(T) <= 0 => T = {}
    BY <1>1, FS_EmptySet
  <2>2. g \in [SUBSET S -> V] /\ \A T \in SUBSET S : g[T] = base
    OBVIOUS
  <2>3. FoldsUpTo(g, step, base, pick, S, 0)
    <3> HIDE DEF g
    <3> QED BY <2>1, <2>2 DEF FoldsUpTo, Unfolded
  <2> HIDE DEF g
  <2> QED BY <2>2, <2>3
<1>3. Bad = {}
  <2> SUFFICES ASSUME Bad # {}
               PROVE  FALSE
    OBVIOUS
  <2>1. PICK n \in Bad : \A m \in Bad : n <= m
    <3>1. Bad \in SUBSET Nat
      OBVIOUS
    <3> HIDE DEF Bad
    <3> QED BY <3>1, LeastNatural
  <2>2. n \in Nat /\ n # 0 /\ n - 1 \in Nat /\ n - 1 \notin Bad
    <3>1. n \in Nat /\ n # 0
      BY <1>2, <2>1
    <3>2. n - 1 \in Nat
      BY <3>1
    <3> HIDE DEF Bad
    <3> QED BY <2>1, <3>1, <3>2
  <2>3. PICK g \in [SUBSET S -> V] : FoldsUpTo(g, step, base, pick, S, n - 1)
    BY <2>2
  <2>4. n - 1 \in Int /\ (n - 1) + 1 = n
    BY <2>2
  <2>5. \E h \in [SUBSET S -> V] : FoldsUpTo(h, step, base, pick, S, (n - 1) + 1)
    BY <2>3, <2>4, FoldOneMore
  <2> QED BY <2>1, <2>4, <2>5
<1>4. PICK g \in [SUBSET S -> V] : FoldsUpTo(g, step, base, pick, S, Cardinality(S))
  BY <1>1, <1>3
<1>5. \A T \in SUBSET S : Cardinality(T) <= Cardinality(S)
  BY FS_Subset
<1> QED BY <1>4, <1>5 DEF FoldsUpTo, Folds

-----------------------------------------------------------------------------
Pick(T) == CHOOSE x \in T : TRUE

Sums(sum, f, S) ==
  /\ sum \in [SUBSET S -> Int] /\ sum[{}] = 0
  /\ \A T \in SUBSET S : \A x \in T : sum[T] = f[x] + sum[T \ {x}]

\* Taking the elements in the order of Pick is taking them in any order.
LEMMA PickedIsAny ==
  ASSUME NEW S, IsFiniteSet(S), NEW f \in [S -> Int], NEW g \in [SUBSET S -> Int],
         \A T \in SUBSET S : g[T] = IF T = {} THEN 0 ELSE f[Pick(T)] + g[T \ {Pick(T)}]
  PROVE  Sums(g, f, S)
<1> DEFINE Good == {T \in SUBSET S : \A x \in T : g[T] = f[x] + g[T \ {x}]}
<1>1. ASSUME NEW T \in SUBSET S, \A x \in T : T \ {x} \in Good, NEW x \in T
      PROVE  g[T] = f[x] + g[T \ {x}]
  <2>1. PICK p \in T : p = Pick(T)
    BY DEF Pick
  <2>2. g[T] = f[p] + g[T \ {p}]
    BY <2>1
  <2>3. CASE x = p
    BY <2>2, <2>3
  <2>4. CASE x # p
    <3>1. g[T \ {p}] = f[x] + g[(T \ {p}) \ {x}]
      BY <1>1, <2>4
    <3>2. g[T \ {x}] = f[p] + g[(T \ {x}) \ {p}]
      BY <1>1, <2>4
    <3>3. (T \ {p}) \ {x} = (T \ {x}) \ {p} /\ (T \ {x}) \ {p} \in SUBSET S
      OBVIOUS
    <3>4. PICK k, m, n \in Int : k = f[p] /\ m = f[x] /\ n = g[(T \ {x}) \ {p}]
      BY <3>3
    <3>5. g[T] = k + (m + n) /\ g[T \ {x}] = k + n
      BY <2>2, <3>1, <3>2, <3>3, <3>4
    <3> QED BY <3>4, <3>5
  <2> QED BY <2>3, <2>4
<1>2. S \in Good /\ \A T \in SUBSET S : T \in Good
  <2>1. ASSUME NEW T \in SUBSET S
        PROVE  T \in Good
    <3>1. Hereditary(Good, T)
      BY <1>1 DEF Hereditary
    <3>2. IsFiniteSet(T)
      BY FS_Subset
    <3> HIDE DEF Good
    <3> QED BY <3>1, <3>2, SubsetInduction
  <2> QED BY <2>1
<1> QED BY <1>2 DEF Sums

LEMMA SumsAgree ==
  ASSUME NEW S, NEW f, NEW g, Sums(g, f, S), NEW T \in SUBSET S, IsFiniteSet(T),
         NEW part, NEW h, Sums(h, part, T), \A x \in T : part[x] = f[x]
  PROVE  g[T] = h[T]
<1> DEFINE Good == {R \in SUBSET T : g[R] = h[R]}
<1>1. ASSUME NEW R \in SUBSET T, \A x \in R : R \ {x} \in Good
      PROVE  g[R] = h[R]
  <2>1. CASE R = {}
    BY <2>1 DEF Sums
  <2>2. CASE R # {}
    <3>1. PICK x \in R : TRUE
      BY <2>2
    <3>2. g[R] = f[x] + g[R \ {x}] /\ h[R] = part[x] + h[R \ {x}]
      BY DEF Sums
    <3>3. g[R \ {x}] = h[R \ {x}] /\ part[x] = f[x]
      BY <1>1
    <3> QED BY <3>2, <3>3
  <2> QED BY <2>1, <2>2
<1>2. Hereditary(Good, T)
  BY <1>1 DEF Hereditary
<1>3. T \in Good
  <2> HIDE DEF Good
  <2> QED BY <1>2, SubsetInduction
<1> QED BY <1>3

LEMMA SumUnfolds ==
  ASSUME NEW f
  PROVE  SumFunction(f)
           = (CHOOSE iter : iter = [T \in SUBSET DOMAIN f |->
                IF T = {} THEN 0 ELSE f[Pick(T)] + iter[T \ {Pick(T)}]])[DOMAIN f]
BY DEF SumFunction, SumFunctionOnSet, FoldFunctionOnSet, MapThenFoldSet, Pick

LEMMA SumsExist ==
  ASSUME NEW S, IsFiniteSet(S), NEW f \in [S -> Int]
  PROVE  \E sum : Sums(sum, f, S) /\ sum[S] = SumFunction(f)
<1> DEFINE Recurses(iter) ==
      iter = [T \in SUBSET S |-> IF T = {} THEN 0 ELSE f[Pick(T)] + iter[T \ {Pick(T)}]]
           pick == [T \in SUBSET S |-> Pick(T)]
           step == [p \in S \X Int |-> f[p[1]] + p[2]]
<1>1. \A T \in SUBSET S : T # {} => Pick(T) \in T
  BY DEF Pick
<1>2. \A x \in S, v \in Int : step[<<x, v>>] = f[x] + v /\ step[<<x, v>>] \in Int
  OBVIOUS
<1>3. \A T \in SUBSET S : pick[T] = Pick(T)
  OBVIOUS
<1>4. PICK g \in [SUBSET S -> Int] : Folds(g, step, 0, pick, S)
  <2> HIDE DEF pick, step
  <2>1. Picks(pick, S)
    BY <1>1, <1>3 DEF Picks
  <2>2. Keeps(step, S, Int)
    BY <1>2 DEF Keeps
  <2>3. 0 \in Int
    OBVIOUS
  <2> QED BY <2>1, <2>2, <2>3, FoldExists
<1>5. \A T \in SUBSET S : g[T] = IF T = {} THEN 0 ELSE f[Pick(T)] + g[T \ {Pick(T)}]
  <2> HIDE DEF pick, step
  <2> SUFFICES ASSUME NEW T \in SUBSET S, T # {}
               PROVE  g[T] = f[Pick(T)] + g[T \ {Pick(T)}]
    BY <1>4 DEF Folds, Unfolded
  <2>1. Pick(T) \in S /\ g[T \ {Pick(T)}] \in Int /\ pick[T] = Pick(T)
    BY <1>1, <1>3
  <2>2. g[T] = step[<<Pick(T), g[T \ {Pick(T)}]>>]
    BY <1>4, <2>1 DEF Folds, Unfolded
  <2> QED BY <1>2, <2>1, <2>2
<1>6. Recurses(g)
  <2> HIDE DEF pick, step
  <2> QED BY <1>5
<1>7. ASSUME NEW iter, Recurses(iter)
      PROVE  iter[S] = g[S]
  <2> DEFINE Good == {T \in SUBSET S : iter[T] = g[T]}
  <2>1. \A T \in SUBSET S : (\A x \in T : T \ {x} \in Good) => iter[T] = g[T]
    <3>1. \A T \in SUBSET S : iter[T] = IF T = {} THEN 0 ELSE f[Pick(T)] + iter[T \ {Pick(T)}]
      BY <1>7
    <3> HIDE DEF Recurses, pick, step
    <3> QED BY <1>1, <1>5, <3>1
  <2>2. Hereditary(Good, S)
    BY <2>1 DEF Hereditary
  <2>3. S \in Good
    <3> HIDE DEF Good, Recurses
    <3> QED BY <2>2, SubsetInduction
  <2> QED BY <2>3
<1>8. Recurses(CHOOSE iter : Recurses(iter))
  <2> HIDE DEF Recurses
  <2> QED BY <1>6
<1>9. (CHOOSE iter : Recurses(iter))[S] = g[S]
  <2> HIDE DEF Recurses
  <2> QED BY <1>7, <1>8
<1>10. DOMAIN f = S
  OBVIOUS
<1>11. g[S] = SumFunction(f)
  <2> HIDE DEF pick, step
  <2> QED BY <1>9, <1>10, SumUnfolds
<1>12. Sums(g, f, S)
  <2> HIDE DEF pick, step, Recurses
  <2> QED BY <1>5, PickedIsAny
<1> QED BY <1>11, <1>12

\* The sum over the part T of its domain, of a function on S.
Over(f, T) == SumFunction([x \in T |-> f[x]])

LEMMA SumsOver ==
  ASSUME NEW S, IsFiniteSet(S), NEW f, \A x \in S : f[x] \in Int
  PROVE  Sums([T \in SUBSET S |-> Over(f, T)], f, S)
<1> DEFINE part(T) == [x \in T |-> f[x]]
           sum == [T \in SUBSET S |-> Over(f, T)]
<1>1. \A T \in SUBSET S : IsFiniteSet(T) /\ part(T) \in [T -> Int]
  BY FS_Subset
<1>2. PICK g : Sums(g, part(S), S)
  <2> HIDE DEF part
  <2> QED BY <1>1, SumsExist
<1>3. ASSUME NEW T \in SUBSET S
      PROVE  Over(f, T) = g[T]
  <2>1. PICK h : Sums(h, part(T), T) /\ h[T] = SumFunction(part(T))
    <3> HIDE DEF part
    <3> QED BY <1>1, SumsExist
  <2>2. \A x \in T : part(T)[x] = part(S)[x]
    OBVIOUS
  <2>3. g[T] = h[T]
    <3> HIDE DEF part
    <3> QED BY <1>1, <1>2, <2>1, <2>2, SumsAgree
  <2> QED BY <2>1, <2>3 DEF Over
<1>4. \A x \in S : part(S)[x] = f[x]
  OBVIOUS
<1>5. g \in [SUBSET S -> Int] /\ sum = g
  <2>1. g \in [SUBSET S -> Int]
    BY <1>2 DEF Sums
  <2> QED BY <1>3, <2>1
<1>6. Sums(g, f, S)
  <2> HIDE DEF part, sum
  <2> QED BY <1>2, <1>4 DEF Sums
<1> HIDE DEF sum, part
<1>7. Sums(sum, f, S)
  BY <1>5, <1>6
<1> QED BY <1>7 DEF sum

\* A sum is a number, nothing for no element, and each element adds its value.
LEMMA SumStep ==
  ASSUME NEW S, IsFiniteSet(S), NEW f, \A x \in S : f[x] \in Int
  PROVE  /\ Over(f, S) \in Int
         /\ S = {} => Over(f, S) = 0
         /\ \A x \in S : Over(f, S) = f[x] + Over(f, S \ {x})
<1> DEFINE sum == [T \in SUBSET S |-> Over(f, T)]
<1>1. Sums(sum, f, S)
  BY SumsOver
<1>2. \A T \in SUBSET S : sum[T] = Over(f, T)
  OBVIOUS
<1>3. S \in SUBSET S /\ {} \in SUBSET S /\ \A x \in S : S \ {x} \in SUBSET S
  OBVIOUS
<1> HIDE DEF sum
<1> QED BY <1>1, <1>2, <1>3 DEF Sums

-----------------------------------------------------------------------------
\* The lines of a page, one after the other.

RecordType == [line : LineType, reference : Nat, details : Seq(LineType)]
ScanType == [records : Seq(RecordType), current : RecordType \cup {NoRecord}]
PageType == Seq(LineType)

\* An open record is not taken for none.
LEMMA RecordsAreRecords ==
  ASSUME NEW r \in RecordType
  PROVE  r # NoRecord
<1>1. "line" \in DOMAIN r
  BY DEF RecordType
<1>2. DOMAIN NoRecord = {}
  BY DEF NoRecord
<1> QED BY <1>1, <1>2

\* A finite set of numbers that is not empty has a largest.
LEMMA LargestExists ==
  ASSUME NEW T, T # {}, IsFiniteSet(T), \A x \in T : x \in Int
  PROVE  Max(T) \in T /\ \A y \in T : y <= Max(T)
<1> DEFINE less == {p \in T \X T : p[1] < p[2]}
<1>1. \A x, y \in T : <<x, y>> \in less <=> x < y
  OBVIOUS
<1>2. Orders(less, T)
  <2> HIDE DEF less
  <2> QED BY <1>1 DEF Orders
<1>3. \E x \in T : \A y \in T \ {x} : <<y, x>> \in less
  <2> HIDE DEF less
  <2> QED BY <1>2, LastExists
<1>4. \E x \in T : \A y \in T : x >= y
  <2>1. PICK x \in T : \A y \in T \ {x} : <<y, x>> \in less
    BY <1>3
  <2> HIDE DEF less
  <2>2. ASSUME NEW y \in T
        PROVE  x >= y
    <3>1. x \in Int /\ y \in Int
      OBVIOUS
    <3>2. y # x => y < x
      BY <1>1, <2>1
    <3> QED BY <3>1, <3>2
  <2> QED BY <2>2
<1>5. Max(T) \in T /\ \A y \in T : Max(T) >= y
  BY <1>4 DEF Max
<1> HIDE DEF less
<1> QED BY <1>5

\* The first i numbers are the first i - 1, and i.
LEMMA FirstOnes ==
  ASSUME NEW n \in Nat, NEW i \in 1..n
  PROVE  /\ 1..i \in SUBSET (1..n) /\ 1..i # {} /\ Max(1..i) = i /\ (1..i) \ {Max(1..i)} = 1..(i - 1)
<1>1. 1..i \in SUBSET (1..n) /\ 1..i # {} /\ i \in Nat
  OBVIOUS
<1>2. Max(1..i) \in 1..i /\ \A y \in 1..i : y <= Max(1..i)
  <2>1. IsFiniteSet(1..i) /\ \A x \in 1..i : x \in Int
    BY FS_Interval
  <2> QED BY <1>1, <2>1, LargestExists
<1>3. Max(1..i) = i
  BY <1>2
<1> QED BY <1>1, <1>3

LEMMA LineScans ==
  ASSUME NEW scan \in ScanType, NEW line \in LineType
  PROVE  ScanLine(scan, line) \in ScanType /\ Filed(scan) \in Seq(RecordType)
<1>1. Record(line) \in RecordType
  BY DEF Record, RecordType, NoReference
<1>2. Filed(scan) \in Seq(RecordType)
  BY DEF Filed, ScanType
<1>3. scan.current # NoRecord =>
        /\ [scan EXCEPT !.current.reference = line.reference] \in ScanType
        /\ [scan EXCEPT !.current.details = Append(@, line)] \in ScanType
  <2>1. SUFFICES ASSUME scan.current # NoRecord
                 PROVE  /\ [scan.current EXCEPT !.reference = line.reference] \in RecordType
                        /\ [scan.current EXCEPT !.details = Append(@, line)] \in RecordType
    BY DEF ScanType
  <2>2. scan.current \in RecordType /\ line.reference \in Nat
    BY <2>1 DEF ScanType, LineType
  <2>3. Append(scan.current.details, line) \in Seq(LineType)
    BY <2>2 DEF RecordType
  <2> QED BY <2>2, <2>3 DEF RecordType
<1>4. [records |-> Filed(scan), current |-> Record(line)] \in ScanType
      /\ [records |-> Filed(scan), current |-> NoRecord] \in ScanType
  BY <1>1, <1>2 DEF ScanType
<1>5. CASE line.kind = "row"
  BY <1>2, <1>4, <1>5 DEF ScanLine
<1>6. CASE line.kind # "row" /\ scan.current = NoRecord
  BY <1>2, <1>6 DEF ScanLine
<1>7. CASE line.kind # "row" /\ scan.current # NoRecord
  BY <1>2, <1>3, <1>4, <1>7 DEF ScanLine, Enders
<1> QED BY <1>5, <1>6, <1>7

\* at[i] is the state of the scan after i lines of the page.
Scans(at, kept, page) ==
  /\ at \in [0..Len(page) -> ScanType]
  /\ at[0] = [records |-> kept, current |-> NoRecord]
  /\ \A i \in 1..Len(page) : at[i] = ScanLine(at[i - 1], page[i])

LEMMA PageScanned ==
  ASSUME NEW page \in PageType, NEW kept \in Seq(RecordType)
  PROVE  \E at : Scans(at, kept, page) /\ ScanPage(kept, page) = Filed(at[Len(page)])
<1> DEFINE S == 1..Len(page)
           V == ScanType
           start == [records |-> kept, current |-> NoRecord]
           Value(T, iter) == ScanLine(iter[T \ {Max(T)}], page[Max(T)])
           Recurses(iter) == iter = [T \in SUBSET S |-> IF T = {} THEN start ELSE Value(T, iter)]
           pick == [T \in SUBSET S |-> Max(T)]
           step == [p \in S \X V |-> ScanLine(p[2], page[p[1]])]
<1>1. IsFiniteSet(S) /\ Len(page) \in Nat /\ DOMAIN page = S
  BY FS_Interval DEF PageType
<1>2. start \in V
  BY DEF ScanType
<1>3. \A T \in SUBSET S : T # {} => Max(T) \in T
  <2> SUFFICES ASSUME NEW T \in SUBSET S, T # {}
               PROVE  Max(T) \in T
    OBVIOUS
  <2>1. \A x \in T : x \in Int
    OBVIOUS
  <2> HIDE DEF S
  <2>2. IsFiniteSet(T)
    BY <1>1, FS_Subset
  <2> QED BY <2>1, <2>2, LargestExists
<1>4. \A i \in S, scan \in V : step[<<i, scan>>] = ScanLine(scan, page[i])
                               /\ ScanLine(scan, page[i]) \in V
  <2> SUFFICES ASSUME NEW i \in S, NEW scan \in V
               PROVE  ScanLine(scan, page[i]) \in V
    OBVIOUS
  <2>1. page[i] \in LineType
    BY DEF PageType
  <2> QED BY <2>1, LineScans
<1>5. \A T \in SUBSET S : pick[T] = Max(T)
  OBVIOUS
<1>6. PICK g \in [SUBSET S -> V] : Folds(g, step, start, pick, S)
  <2> HIDE DEF pick, step, start, S, V
  <2>1. Picks(pick, S)
    BY <1>3, <1>5 DEF Picks
  <2>2. Keeps(step, S, V)
    BY <1>4 DEF Keeps
  <2> QED BY <1>1, <1>2, <2>1, <2>2, FoldExists
<1>7. \A T \in SUBSET S : g[T] = IF T = {} THEN start ELSE Value(T, g)
  <2> SUFFICES ASSUME NEW T \in SUBSET S
               PROVE  g[T] = IF T = {} THEN start ELSE Value(T, g)
    OBVIOUS
  <2> HIDE DEF pick, step, start, V, S
  <2>1. T # {} => Max(T) \in S /\ g[T \ {Max(T)}] \in V
    BY <1>3, <1>6
  <2> QED BY <1>4, <1>5, <1>6, <2>1 DEF Folds, Unfolded
<1>8. Recurses(g)
  <2> HIDE DEF pick, step, start, V, S, Value
  <2> QED BY <1>7
<1>9. ASSUME NEW iter, Recurses(iter)
      PROVE  iter[S] = g[S]
  <2> DEFINE Good == {T \in SUBSET S : iter[T] = g[T]}
  <2>1. ASSUME NEW T \in SUBSET S, \A x \in T : T \ {x} \in Good
        PROVE  T \in Good
    <3>1. iter[T] = IF T = {} THEN start ELSE Value(T, iter)
      BY <1>9
    <3> HIDE DEF start, V, S, step, pick
    <3>2. T # {} => iter[T \ {Max(T)}] = g[T \ {Max(T)}]
      BY <1>3, <2>1
    <3> QED BY <1>7, <3>1, <3>2
  <2>2. Hereditary(Good, S)
    BY <2>1 DEF Hereditary
  <2> HIDE DEF Good, S, V, Recurses
  <2>3. S \in Good
    BY <1>1, <2>2, SubsetInduction
  <2> QED BY <2>3 DEF Good
<1>10. Recurses(CHOOSE iter : Recurses(iter))
  <2> HIDE DEF Recurses
  <2> QED BY <1>8
<1>11. (CHOOSE iter : Recurses(iter))[S] = g[S]
  <2> HIDE DEF Recurses
  <2> QED BY <1>9, <1>10
<1>12. ScanPage(kept, page) = Filed((CHOOSE iter : Recurses(iter))[S])
  BY <1>1 DEF ScanPage, FoldLeft, MapThenFoldSet
<1> DEFINE at == [i \in 0..Len(page) |-> g[1..i]]
<1>13. Scans(at, kept, page)
  <2>1. \A i \in 0..Len(page) : 1..i \in SUBSET S
    BY <1>1
  <2>2. at \in [0..Len(page) -> ScanType]
    BY <1>6, <2>1
  <2>3. at[0] = start
    <3>1. at[0] = g[{}]
      BY <1>1
    <3> QED BY <1>7, <3>1
  <2>4. ASSUME NEW i \in 1..Len(page)
        PROVE  at[i] = ScanLine(at[i - 1], page[i])
    <3>1. 1..i \in SUBSET S /\ 1..i # {} /\ Max(1..i) = i /\ (1..i) \ {Max(1..i)} = 1..(i - 1)
      BY <1>1, FirstOnes
    <3>2. at[i] = g[1..i] /\ at[i - 1] = g[1..(i - 1)]
      BY <1>1
    <3> HIDE DEF S, at, start
    <3>3. g[1..i] = Value(1..i, g)
      BY <1>7, <3>1
    <3> QED BY <3>1, <3>2, <3>3
  <2> QED BY <2>2, <2>3, <2>4 DEF Scans
<1>14. at[Len(page)] = g[S]
  BY <1>1
<1> HIDE DEF Recurses, at, S
<1> QED BY <1>11, <1>12, <1>13, <1>14

-----------------------------------------------------------------------------
\* What the scan knows after so many lines.

\* The transaction lines among the first i of a page.
Rows(page, i) == {j \in 1..i : page[j].kind = "row"}
RowCount(page, i) == Cardinality(Rows(page, i))

\* No transaction and no ender after line j, up to line i.
Continues(page, j, i) == \A k \in j + 1..i : page[k].kind \notin Enders \cup {"row"}

LEMMA RowsFinite ==
  ASSUME NEW page, NEW i \in Int
  PROVE  IsFiniteSet(Rows(page, i)) /\ RowCount(page, i) \in Nat
<1>1. IsFiniteSet(1..i)
  BY FS_Interval
<1>2. Rows(page, i) \in SUBSET (1..i)
  BY DEF Rows
<1>3. IsFiniteSet(Rows(page, i))
  BY <1>1, <1>2, FS_Subset
<1> QED BY <1>3, FS_CardinalityType DEF RowCount

LEMMA CountStep ==
  ASSUME NEW page, NEW i \in Nat, i >= 1
  PROVE  RowCount(page, i) = IF page[i].kind = "row" THEN RowCount(page, i - 1) + 1 ELSE RowCount(page, i - 1)
<1>1. IsFiniteSet(Rows(page, i - 1))
  BY RowsFinite
<1>2. i \notin Rows(page, i - 1)
  BY DEF Rows
<1>3. 1..i = (1..(i - 1)) \cup {i}
  OBVIOUS
<1>4. Rows(page, i) = IF page[i].kind = "row" THEN Rows(page, i - 1) \cup {i} ELSE Rows(page, i - 1)
  BY <1>3 DEF Rows
<1>5. Cardinality(Rows(page, i - 1) \cup {i}) = Cardinality(Rows(page, i - 1)) + 1
  BY <1>1, <1>2, FS_AddElement
<1> QED BY <1>4, <1>5 DEF RowCount

LEMMA CountGrows ==
  ASSUME NEW page, NEW i \in Nat, NEW j \in Nat, i <= j
  PROVE  /\ RowCount(page, i) <= RowCount(page, j)
         /\ Continues(page, i, j) => RowCount(page, i) = RowCount(page, j)
<1>1. Rows(page, i) \in SUBSET Rows(page, j)
  BY DEF Rows
<1>2. IsFiniteSet(Rows(page, j))
  BY RowsFinite
<1>3. RowCount(page, i) <= RowCount(page, j)
  BY <1>1, <1>2, FS_Subset DEF RowCount
<1>4. Continues(page, i, j) => Rows(page, i) = Rows(page, j)
  <2>1. SUFFICES ASSUME Continues(page, i, j), NEW k \in Rows(page, j)
                 PROVE  k \in Rows(page, i)
    BY <1>1
  <2>2. k \in 1..j /\ page[k].kind = "row"
    BY DEF Rows
  <2>3. k \notin i + 1..j
    BY <2>1, <2>2 DEF Continues
  <2>4. k \in 1..i
    BY <2>2, <2>3
  <2> QED BY <2>2, <2>4 DEF Rows
<1> QED BY <1>3, <1>4 DEF RowCount

LEMMA RowsCount ==
  ASSUME NEW page, NEW n \in Nat, NEW j \in Rows(page, n)
  PROVE  /\ RowCount(page, j) \in Nat /\ 1 <= RowCount(page, j) /\ RowCount(page, j) <= RowCount(page, n)
         /\ j \in Nat /\ j >= 1 /\ j <= n
         /\ \A k \in Nat : k < j => RowCount(page, k) < RowCount(page, j)
<1>1. j \in Nat /\ j >= 1 /\ j <= n /\ page[j].kind = "row"
  BY DEF Rows
<1>2. RowCount(page, j) = RowCount(page, j - 1) + 1
  BY <1>1, CountStep
<1>3. RowCount(page, j - 1) \in Nat /\ RowCount(page, j) <= RowCount(page, n)
  BY <1>1, RowsFinite, CountGrows
<1>4. ASSUME NEW k \in Nat, k < j
      PROVE  RowCount(page, k) < RowCount(page, j)
  <2>1. j - 1 \in Nat /\ k <= j - 1
    BY <1>1, <1>4
  <2>2. RowCount(page, k) <= RowCount(page, j - 1)
    BY <2>1, CountGrows
  <2>3. RowCount(page, k) \in Nat
    BY RowsFinite
  <2> QED BY <1>2, <1>3, <2>2, <2>3
<1> QED BY <1>1, <1>2, <1>3, <1>4

ReferencesGiven(page) ==
  \A i \in DOMAIN page : page[i].kind = "reference" => page[i].reference # NoReference

\* The next line gives a reference to what it continues, if that has none.
LEMMA ReferenceKept ==
  ASSUME NEW page, NEW i \in Nat, i >= 1, NEW j \in 1..(i - 1), NEW reference,
         FirstReference(page, j, i - 1, reference),
         ~(page[i].kind = "reference" /\ Continues(page, j, i - 1))
  PROVE  FirstReference(page, j, i, reference)
<1>1. References(page, j, i) = References(page, j, i - 1)
  BY DEF References, Continues
<1> QED BY <1>1 DEF FirstReference

LEMMA ReferenceTaken ==
  ASSUME NEW page \in PageType, ReferencesGiven(page), NEW i \in 1..Len(page), NEW j \in 1..(i - 1),
         NEW reference, FirstReference(page, j, i - 1, reference),
         page[i].kind = "reference", Continues(page, j, i - 1)
  PROVE  FirstReference(page, j, i, IF reference = NoReference THEN page[i].reference ELSE reference)
<1>1. References(page, j, i) = References(page, j, i - 1) \cup {i}
  <2>1. j + 1..i = (j + 1..i - 1) \cup {i}
    OBVIOUS
  <2> QED BY <2>1 DEF References, Continues
<1>2. \A k \in References(page, j, i - 1) :
        k \in Int /\ k <= i - 1 /\ k \in DOMAIN page /\ page[k].kind = "reference"
  BY DEF References, PageType
<1>3. i \in Int /\ i <= i /\ \A k \in References(page, j, i - 1) : k <= i
  BY <1>2
<1>4. CASE reference = NoReference
  <2>1. References(page, j, i - 1) = {}
    BY <1>2, <1>4 DEF FirstReference, ReferencesGiven
  <2> QED BY <1>1, <1>3, <1>4, <2>1 DEF FirstReference
<1>5. CASE reference # NoReference
  <2>1. PICK m \in References(page, j, i - 1) :
          reference = page[m].reference /\ \A k \in References(page, j, i - 1) : m <= k
    BY <1>5 DEF FirstReference
  <2>2. \A k \in References(page, j, i) : m <= k
    BY <1>1, <1>3, <2>1
  <2>3. m \in References(page, j, i)
    BY <1>1
  <2> QED BY <1>5, <2>1, <2>2, <2>3 DEF FirstReference
<1> QED BY <1>4, <1>5

LEMMA NoReferenceYet ==
  ASSUME NEW page, NEW i \in Nat
  PROVE  FirstReference(page, i, i, NoReference)
<1>1. References(page, i, i) = {}
  BY DEF References
<1> QED BY <1>1 DEF FirstReference

\* What the scan has after i lines of a page, the record that is open included:
\* the records it started with, and one for each transaction line.
Listed(records, kept, page, i) ==
  /\ records \in Seq(RecordType)
  /\ Len(records) = Len(kept) + RowCount(page, i)
  /\ \A k \in 1..Len(kept) : records[k] = kept[k]
  /\ \A j \in Rows(page, i) :
       /\ records[Len(kept) + RowCount(page, j)].line = page[j]
       /\ FirstReference(page, j, i, records[Len(kept) + RowCount(page, j)].reference)

\* One is open while lines may continue it.
OpenOne(scan, page, i) ==
  scan.current # NoRecord <=> \E j \in Rows(page, i) : Continues(page, j, i)

Scanned(scan, kept, page, i) ==
  Listed(Filed(scan), kept, page, i) /\ OpenOne(scan, page, i)

\* A line that is no transaction leaves the transactions before it.
LEMMA SameRows ==
  ASSUME NEW page, NEW i \in Nat, i >= 1, page[i].kind # "row"
  PROVE  /\ Rows(page, i) = Rows(page, i - 1) /\ RowCount(page, i) = RowCount(page, i - 1)
         /\ \A j \in Rows(page, i) : j \in 1..(i - 1)
         /\ \A j \in Rows(page, i) :
              Continues(page, j, i) <=> Continues(page, j, i - 1) /\ page[i].kind \notin Enders
<1>1. 1..i = (1..(i - 1)) \cup {i}
  OBVIOUS
<1>2. Rows(page, i) = Rows(page, i - 1) /\ \A j \in Rows(page, i) : j \in 1..(i - 1)
  BY <1>1 DEF Rows
<1>3. ASSUME NEW j \in Rows(page, i)
      PROVE  Continues(page, j, i) <=> Continues(page, j, i - 1) /\ page[i].kind \notin Enders
  <2>1. j + 1..i = (j + 1..i - 1) \cup {i}
    BY <1>2
  <2> QED BY <2>1 DEF Continues
<1> QED BY <1>2, <1>3 DEF RowCount

LEMMA RowScanned ==
  ASSUME NEW page \in PageType, NEW kept \in Seq(RecordType), NEW i \in 1..Len(page),
         page[i].kind = "row",
         NEW records, Listed(records, kept, page, i - 1)
  PROVE  Listed(Append(records, Record(page[i])), kept, page, i)
<1> DEFINE q == Append(records, Record(page[i]))
           n == Len(kept)
<1>1. page[i] \in LineType /\ i \in Nat /\ i >= 1 /\ i - 1 \in Nat
  BY DEF PageType
<1>2. Record(page[i]) \in RecordType /\ Record(page[i]).line = page[i]
      /\ Record(page[i]).reference = NoReference
  BY <1>1 DEF Record, RecordType, NoReference
<1>3. records \in Seq(RecordType) /\ Len(records) = n + RowCount(page, i - 1) /\ n \in Nat
      /\ RowCount(page, i - 1) \in Nat
  BY <1>1, RowsFinite DEF Listed
<1>4. /\ q \in Seq(RecordType) /\ Len(q) = Len(records) + 1
      /\ \A k \in 1..Len(records) : q[k] = records[k]
      /\ q[Len(records) + 1] = Record(page[i])
  BY <1>2, <1>3
<1>5. RowCount(page, i) = RowCount(page, i - 1) + 1
  BY <1>1, CountStep
<1>6. Len(q) = n + RowCount(page, i) /\ n + RowCount(page, i) = Len(records) + 1
  BY <1>3, <1>4, <1>5
<1>7. \A k \in 1..n : q[k] = kept[k]
  <2> HIDE DEF q, n
  <2> QED BY <1>3, <1>4 DEF Listed, n
<1>8. ASSUME NEW j \in Rows(page, i)
      PROVE  q[n + RowCount(page, j)].line = page[j] /\ FirstReference(page, j, i, q[n + RowCount(page, j)].reference)
  <2>1. CASE j = i
    <3>1. q[n + RowCount(page, j)] = Record(page[i])
      BY <1>4, <1>6, <2>1
    <3> QED BY <1>1, <1>2, <2>1, <3>1, NoReferenceYet
  <2>2. CASE j # i
    <3>1. j \in Rows(page, i - 1) /\ j \in 1..(i - 1)
      BY <1>1, <2>2 DEF Rows
    <3>2. RowCount(page, j) \in Nat /\ 1 <= RowCount(page, j) /\ RowCount(page, j) <= RowCount(page, i - 1)
      BY <1>1, <3>1, RowsCount
    <3>3. n + RowCount(page, j) \in 1..Len(records)
      BY <1>3, <3>2
    <3>4. q[n + RowCount(page, j)] = records[n + RowCount(page, j)]
      BY <1>4, <3>3
    <3>5. records[n + RowCount(page, j)].line = page[j]
          /\ FirstReference(page, j, i - 1, records[n + RowCount(page, j)].reference)
      BY <3>1 DEF Listed
    <3>6. FirstReference(page, j, i, records[n + RowCount(page, j)].reference)
      BY <1>1, <3>1, <3>5, ReferenceKept
    <3> QED BY <3>4, <3>5, <3>6
  <2> QED BY <2>1, <2>2
<1> HIDE DEF q
<1>9. Listed(q, kept, page, i)
  BY <1>4, <1>6, <1>7, <1>8 DEF Listed
<1> QED BY <1>9 DEF q

\* A line that is no transaction and does not change the records.
LEMMA OtherScanned ==
  ASSUME NEW page \in PageType, NEW kept \in Seq(RecordType), NEW i \in 1..Len(page),
         page[i].kind # "row",
         NEW records, Listed(records, kept, page, i - 1),
         \A j \in Rows(page, i) : ~(page[i].kind = "reference" /\ Continues(page, j, i - 1))
  PROVE  Listed(records, kept, page, i)
<1>1. i \in Nat /\ i >= 1
  OBVIOUS
<1>2. Rows(page, i) = Rows(page, i - 1) /\ RowCount(page, i) = RowCount(page, i - 1)
      /\ \A j \in Rows(page, i) : j \in 1..(i - 1)
  BY <1>1, SameRows
<1>3. ASSUME NEW j \in Rows(page, i)
      PROVE  FirstReference(page, j, i, records[Len(kept) + RowCount(page, j)].reference)
  <2>1. FirstReference(page, j, i - 1, records[Len(kept) + RowCount(page, j)].reference)
    BY <1>2 DEF Listed
  <2> QED BY <1>1, <1>2, <2>1, ReferenceKept
<1> QED BY <1>2, <1>3 DEF Listed

\* A line that continues the open record, the last one.
LEMMA ContinuationScanned ==
  ASSUME NEW page \in PageType, ReferencesGiven(page), NEW kept \in Seq(RecordType), NEW i \in 1..Len(page),
         page[i].kind # "row",
         NEW before \in Seq(RecordType), NEW current \in RecordType, NEW changed \in RecordType,
         Listed(Append(before, current), kept, page, i - 1),
         NEW open \in Rows(page, i - 1), Continues(page, open, i - 1),
         changed.line = current.line,
         changed.reference = IF page[i].kind = "reference" /\ current.reference = NoReference
                             THEN page[i].reference ELSE current.reference
  PROVE  Listed(Append(before, changed), kept, page, i)
<1> DEFINE p == Append(before, current)
           q == Append(before, changed)
           n == Len(kept)
           last == Len(before) + 1
<1>1. i \in Nat /\ i >= 1 /\ i - 1 \in Nat /\ n \in Nat /\ Len(before) \in Nat
  OBVIOUS
<1>2. /\ p \in Seq(RecordType) /\ Len(p) = last /\ p[last] = current
      /\ q \in Seq(RecordType) /\ Len(q) = last /\ q[last] = changed
      /\ \A k \in 1..Len(before) : p[k] = before[k] /\ q[k] = before[k]
  OBVIOUS
<1>3. Rows(page, i) = Rows(page, i - 1) /\ RowCount(page, i) = RowCount(page, i - 1)
      /\ \A j \in Rows(page, i) : j \in 1..(i - 1)
  BY <1>1, SameRows
<1>4. RowCount(page, open) = RowCount(page, i - 1) /\ RowCount(page, open) \in Nat /\ 1 <= RowCount(page, open)
      /\ open \in Nat /\ open >= 1 /\ open <= i - 1
  <2>1. RowCount(page, open) \in Nat /\ 1 <= RowCount(page, open) /\ open \in Nat /\ open >= 1 /\ open <= i - 1
    BY <1>1, RowsCount
  <2>2. RowCount(page, open) = RowCount(page, i - 1)
    BY <1>1, <2>1, CountGrows
  <2> QED BY <2>1, <2>2
<1>5. last = n + RowCount(page, i - 1)
  BY <1>2 DEF Listed
<1>6. \A k \in 1..n : q[k] = kept[k]
  <2>1. \A k \in 1..n : k \in 1..Len(before)
    BY <1>1, <1>4, <1>5
  <2>2. \A k \in 1..n : p[k] = kept[k]
    BY DEF Listed
  <2> HIDE DEF p, q, n
  <2> QED BY <1>2, <2>1, <2>2
<1>7. ASSUME NEW j \in Rows(page, i)
      PROVE  q[n + RowCount(page, j)].line = page[j] /\ FirstReference(page, j, i, q[n + RowCount(page, j)].reference)
  <2>1. p[n + RowCount(page, j)].line = page[j] /\ FirstReference(page, j, i - 1, p[n + RowCount(page, j)].reference)
    BY <1>3 DEF Listed
  <2>2. RowCount(page, j) \in Nat /\ 1 <= RowCount(page, j) /\ j \in Nat /\ j <= i - 1 /\ j \in 1..(i - 1)
        /\ page[j].kind = "row"
    BY <1>1, <1>3, RowsCount DEF Rows
  <2>3. CASE Continues(page, j, i - 1)
    <3>1. RowCount(page, j) = RowCount(page, i - 1)
      BY <1>1, <2>2, <2>3, CountGrows
    <3>2. p[n + RowCount(page, j)] = current /\ q[n + RowCount(page, j)] = changed
      BY <1>2, <1>5, <3>1
    <3>3. CASE page[i].kind = "reference"
      <4>1. FirstReference(page, j, i - 1, current.reference)
        BY <2>1, <3>2
      <4>2. FirstReference(page, j, i, IF current.reference = NoReference THEN page[i].reference ELSE current.reference)
        BY <2>2, <2>3, <3>3, <4>1, ReferenceTaken
      <4> QED BY <2>1, <3>2, <3>3, <4>2
    <3>4. CASE page[i].kind # "reference"
      <4>1. FirstReference(page, j, i, current.reference)
        BY <1>1, <2>1, <2>2, <3>2, <3>4, ReferenceKept
      <4> QED BY <2>1, <3>2, <3>4, <4>1
    <3> QED BY <3>3, <3>4
  <2>4. CASE ~Continues(page, j, i - 1)
    <3>1. j < open
      <4>1. j # open
        BY <2>4
      <4>2. j \notin open + 1..i - 1
        BY <2>2 DEF Continues
      <4> QED BY <1>1, <1>4, <2>2, <4>1, <4>2
    <3>2. RowCount(page, j) < RowCount(page, open)
      BY <1>1, <2>2, <3>1, RowsCount
    <3>3. n + RowCount(page, j) \in 1..Len(before)
      BY <1>1, <1>4, <1>5, <2>2, <3>2
    <3>4. q[n + RowCount(page, j)] = p[n + RowCount(page, j)]
      BY <1>2, <3>3
    <3>5. FirstReference(page, j, i, p[n + RowCount(page, j)].reference)
      BY <1>1, <2>1, <2>2, <2>4, ReferenceKept
    <3> QED BY <2>1, <3>4, <3>5
  <2> QED BY <2>3, <2>4
<1> HIDE DEF q
<1>8. Listed(q, kept, page, i)
  BY <1>2, <1>3, <1>5, <1>6, <1>7 DEF Listed
<1> QED BY <1>8 DEF q

\* One turn of the loop over the lines of a page.
LEMMA LineScanned ==
  ASSUME NEW page \in PageType, ReferencesGiven(page), NEW kept \in Seq(RecordType), NEW i \in 1..Len(page),
         NEW scan \in ScanType, Scanned(scan, kept, page, i - 1),
         NEW next, next = ScanLine(scan, page[i])
  PROVE  Scanned(next, kept, page, i)
<1> DEFINE line == page[i]
           records == Filed(scan)
<1>1. line \in LineType /\ i \in Nat /\ i >= 1 /\ i - 1 \in Nat
  BY DEF PageType
<1>2. Listed(records, kept, page, i - 1) /\ OpenOne(scan, page, i - 1)
  BY DEF Scanned
<1>3. scan.records \in Seq(RecordType) /\ scan.current \in RecordType \cup {NoRecord}
  BY DEF ScanType
<1>4. CASE line.kind = "row"
  <2>1. next.records = records /\ next.current = Record(line)
    BY <1>4 DEF ScanLine, Enders
  <2>2. Record(line) \in RecordType
    BY <1>1 DEF Record, RecordType, NoReference
  <2>3. next.current # NoRecord
    BY <2>1, <2>2, RecordsAreRecords
  <2>4. Filed(next) = Append(records, Record(line))
    BY <2>1, <2>3 DEF Filed
  <2>5. Listed(Filed(next), kept, page, i)
    <3> HIDE DEF records
    <3> QED BY <1>2, <1>4, <2>4, RowScanned
  <2>6. i \in Rows(page, i) /\ Continues(page, i, i)
    BY <1>1, <1>4 DEF Rows, Continues
  <2> QED BY <2>3, <2>5, <2>6 DEF Scanned, OpenOne
<1>5. CASE line.kind # "row" /\ scan.current = NoRecord
  <2>1. next = scan
    BY <1>5 DEF ScanLine
  <2>2. \A j \in Rows(page, i) : ~Continues(page, j, i - 1) /\ ~Continues(page, j, i)
    BY <1>1, <1>2, <1>5, SameRows DEF OpenOne
  <2>3. Listed(records, kept, page, i)
    <3> HIDE DEF records
    <3> QED BY <1>2, <1>5, <2>2, OtherScanned
  <2> QED BY <1>5, <2>1, <2>2, <2>3 DEF Scanned, OpenOne
<1>6. CASE line.kind \in Enders /\ scan.current # NoRecord
  <2>1. line.kind # "row" /\ line.kind # "reference"
    BY <1>6 DEF Enders
  <2>2. next.records = records /\ next.current = NoRecord
    BY <1>6, <2>1 DEF ScanLine
  <2>3. Filed(next) = records
    BY <2>2 DEF Filed
  <2>4. Listed(records, kept, page, i)
    <3> HIDE DEF records
    <3> QED BY <1>2, <2>1, OtherScanned
  <2>5. \A j \in Rows(page, i) : ~Continues(page, j, i)
    BY <1>1, <1>6, <2>1, SameRows
  <2> QED BY <2>2, <2>3, <2>4, <2>5 DEF Scanned, OpenOne
<1>7. CASE line.kind \notin Enders \cup {"row"} /\ scan.current # NoRecord
  <2>1. PICK changed \in RecordType :
          /\ next = [scan EXCEPT !.current = changed]
          /\ changed.line = scan.current.line
          /\ changed.reference = IF line.kind = "reference" /\ scan.current.reference = NoReference
                                 THEN line.reference ELSE scan.current.reference
    <3>1. scan.current \in RecordType /\ line.reference \in Nat
      BY <1>1, <1>3, <1>7 DEF LineType
    <3>2. Append(scan.current.details, line) \in Seq(LineType)
      BY <1>1, <3>1 DEF RecordType
    <3>3. CASE line.kind = "reference" /\ scan.current.reference = NoReference
      <4>1. next = [scan EXCEPT !.current.reference = line.reference]
        BY <1>7, <3>3 DEF ScanLine
      <4>2. [scan.current EXCEPT !.reference = line.reference] \in RecordType
        BY <3>1 DEF RecordType
      <4>3. next = [scan EXCEPT !.current = [scan.current EXCEPT !.reference = line.reference]]
        BY <4>1
      <4>4. [scan.current EXCEPT !.reference = line.reference].line = scan.current.line
            /\ [scan.current EXCEPT !.reference = line.reference].reference = line.reference
        BY <3>1 DEF RecordType
      <4> QED BY <3>3, <4>2, <4>3, <4>4
    <3>4. CASE ~(line.kind = "reference" /\ scan.current.reference = NoReference)
      <4>1. next = [scan EXCEPT !.current.details = Append(@, line)]
        BY <1>7, <3>4 DEF ScanLine
      <4>2. [scan.current EXCEPT !.details = Append(@, line)] \in RecordType
        BY <3>1, <3>2 DEF RecordType
      <4>3. next = [scan EXCEPT !.current = [scan.current EXCEPT !.details = Append(@, line)]]
        BY <4>1
      <4>4. [scan.current EXCEPT !.details = Append(@, line)].line = scan.current.line
            /\ [scan.current EXCEPT !.details = Append(@, line)].reference = scan.current.reference
        BY <3>1 DEF RecordType
      <4> QED BY <3>4, <4>2, <4>3, <4>4
    <3> QED BY <3>3, <3>4
  <2>2. changed # NoRecord
    BY RecordsAreRecords
  <2>3. next.records = scan.records /\ next.current = changed
    BY <2>1 DEF ScanType
  <2>4. Filed(next) = Append(scan.records, changed) /\ records = Append(scan.records, scan.current)
    BY <1>7, <2>2, <2>3 DEF Filed
  <2>5. PICK open \in Rows(page, i - 1) : Continues(page, open, i - 1)
    BY <1>2, <1>7 DEF OpenOne
  <2>6. Listed(Append(scan.records, changed), kept, page, i)
    <3>1. line.kind # "row" /\ scan.current \in RecordType
      BY <1>3, <1>7
    <3>2. Listed(Append(scan.records, scan.current), kept, page, i - 1)
      BY <1>2, <2>4
    <3> QED BY <1>3, <2>1, <2>5, <3>1, <3>2, ContinuationScanned
  <2>7. open \in Rows(page, i) /\ Continues(page, open, i)
    BY <1>1, <1>7, <2>5, SameRows
  <2> QED BY <2>2, <2>3, <2>4, <2>6, <2>7 DEF Scanned, OpenOne
<1> QED BY <1>4, <1>5, <1>6, <1>7

\* A whole page.
LEMMA PageListed ==
  ASSUME NEW page \in PageType, ReferencesGiven(page), NEW kept \in Seq(RecordType)
  PROVE  Listed(ScanPage(kept, page), kept, page, Len(page))
<1>1. PICK at : Scans(at, kept, page) /\ ScanPage(kept, page) = Filed(at[Len(page)])
  BY PageScanned
<1>2. Len(page) \in Nat
  BY DEF PageType
<1> DEFINE Bad == {i \in 0..Len(page) : ~Scanned(at[i], kept, page, i)}
<1>3. Scanned(at[0], kept, page, 0)
  <2>1. at[0] = [records |-> kept, current |-> NoRecord]
    BY <1>1 DEF Scans
  <2>2. Filed(at[0]) = kept /\ at[0].current = NoRecord
    BY <2>1 DEF Filed
  <2>3. Rows(page, 0) = {}
    BY DEF Rows
  <2>4. RowCount(page, 0) = 0
    BY <2>3, FS_EmptySet DEF RowCount
  <2> QED BY <2>2, <2>3, <2>4 DEF Scanned, Listed, OpenOne
<1>4. Bad = {}
  <2> SUFFICES ASSUME Bad # {}
               PROVE  FALSE
    OBVIOUS
  <2>1. PICK i \in Bad : \A j \in Bad : i <= j
    <3>1. Bad \in SUBSET Nat
      BY <1>2
    <3> HIDE DEF Bad
    <3> QED BY <3>1, LeastNatural
  <2>2. i \in 1..Len(page) /\ i - 1 \in 0..Len(page)
    BY <1>2, <1>3, <2>1
  <2>3. Scanned(at[i - 1], kept, page, i - 1)
    <3>1. i - 1 \notin Bad
      <4>1. i \in Int /\ ~(i <= i - 1)
        BY <2>2
      <4> HIDE DEF Bad
      <4> QED BY <2>1, <4>1
    <3> QED BY <2>2, <3>1
  <2>4. at[i - 1] \in ScanType /\ at[i] = ScanLine(at[i - 1], page[i])
    BY <1>1, <2>2 DEF Scans
  <2>5. Scanned(at[i], kept, page, i)
    BY <2>2, <2>3, <2>4, LineScanned
  <2> QED BY <2>1, <2>5
<1>5. Scanned(at[Len(page)], kept, page, Len(page))
  BY <1>2, <1>4
<1> QED BY <1>1, <1>5 DEF Scanned

-----------------------------------------------------------------------------
\* The transaction lines up to line i of page p.
UpTo(pages, p, i) == {b \in RowLines(pages) : NotAfter(b, <<p, i>>)}

PagesType == Seq(PageType)

LEMMA RowLine ==
  ASSUME NEW pages, NEW b
  PROVE  b \in RowLines(pages) <=>
           \E p \in DOMAIN pages : \E i \in DOMAIN pages[p] : pages[p][i].kind = "row" /\ b = <<p, i>>
BY DEF RowLines, LinesOf

LEMMA UpToParts ==
  ASSUME NEW pages \in PagesType, NEW p \in 1..Len(pages), NEW i \in 0..Len(pages[p])
  PROVE  UpTo(pages, p, i) = UpTo(pages, p, 0) \cup {<<p, j>> : j \in Rows(pages[p], i)}
<1>1. \A q \in 1..Len(pages) : pages[q] \in PageType /\ Len(pages[q]) \in Nat
                               /\ DOMAIN pages[q] = 1..Len(pages[q])
  BY DEF PagesType, PageType
<1>2. DOMAIN pages = 1..Len(pages) /\ Len(pages) \in Nat
  BY DEF PagesType
<1>3. ASSUME NEW b \in UpTo(pages, p, i)
      PROVE  b \in UpTo(pages, p, 0) \cup {<<p, j>> : j \in Rows(pages[p], i)}
  <2>1. b \in RowLines(pages) /\ NotAfter(b, <<p, i>>)
    BY DEF UpTo
  <2>2. PICK q \in 1..Len(pages) : \E k \in 1..Len(pages[q]) : pages[q][k].kind = "row" /\ b = <<q, k>>
    BY <1>1, <1>2, <2>1, RowLine
  <2>6. PICK k \in 1..Len(pages[q]) : pages[q][k].kind = "row" /\ b = <<q, k>>
    BY <2>2
  <2>3. q < p \/ (q = p /\ k <= i)
    BY <2>1, <2>6 DEF NotAfter
  <2>4. CASE q < p
    BY <2>1, <2>4, <2>6 DEF UpTo, NotAfter
  <2>5. CASE q = p /\ k <= i
    BY <1>1, <2>5, <2>6 DEF Rows
  <2> QED BY <2>3, <2>4, <2>5
<1>4. ASSUME NEW b \in UpTo(pages, p, 0)
      PROVE  b \in UpTo(pages, p, i)
  <2>1. b \in RowLines(pages) /\ NotAfter(b, <<p, 0>>)
    BY DEF UpTo
  <2>2. PICK q \in 1..Len(pages) : \E k \in 1..Len(pages[q]) : b = <<q, k>>
    BY <1>1, <1>2, <2>1, RowLine
  <2>6. PICK k \in 1..Len(pages[q]) : b = <<q, k>>
    BY <2>2
  <2>3. q < p
    BY <1>1, <2>1, <2>6 DEF NotAfter
  <2> QED BY <2>1, <2>3, <2>6 DEF UpTo, NotAfter
<1>5. ASSUME NEW j \in Rows(pages[p], i)
      PROVE  <<p, j>> \in UpTo(pages, p, i)
  <2>1. j \in 1..i /\ pages[p][j].kind = "row" /\ j \in DOMAIN pages[p] /\ p \in DOMAIN pages
    BY <1>1, <1>2 DEF Rows
  <2>2. <<p, j>> \in RowLines(pages)
    BY <2>1, RowLine
  <2>3. NotAfter(<<p, j>>, <<p, i>>)
    BY <2>1 DEF NotAfter
  <2> QED BY <2>2, <2>3 DEF UpTo
<1> QED BY <1>3, <1>4, <1>5

\* As many of a page as there are before it and on it.
LEMMA UpToCount ==
  ASSUME NEW pages \in PagesType, NEW p \in 1..Len(pages), NEW i \in 0..Len(pages[p]),
         IsFiniteSet(UpTo(pages, p, 0))
  PROVE  /\ IsFiniteSet(UpTo(pages, p, i))
         /\ Cardinality(UpTo(pages, p, i)) = Cardinality(UpTo(pages, p, 0)) + RowCount(pages[p], i)
<1> DEFINE R == Rows(pages[p], i)
           B == {<<p, j>> : j \in R}
           A == UpTo(pages, p, 0)
<1>1. IsFiniteSet(R)
  BY RowsFinite
<1>2. IsFiniteSet(B) /\ Cardinality(B) = Cardinality(R)
  <2> DEFINE f == [j \in R |-> <<p, j>>]
  <2>1. f \in Bijection(R, B)
    BY DEF Bijection, Injection, Surjection, IsInjective
  <2>2. ExistsBijection(R, B)
    BY <2>1 DEF ExistsBijection
  <2> HIDE DEF R, B, f
  <2> QED BY <1>1, <2>2, FS_Bijection
<1>3. A \cap B = {}
  BY DEF UpTo, NotAfter, Rows
<1>4. UpTo(pages, p, i) = A \cup B
  BY UpToParts
<1> HIDE DEF A, B, R
<1>5. IsFiniteSet(A \cup B) /\ Cardinality(A \cup B) = Cardinality(A) + Cardinality(B) - Cardinality(A \cap B)
  <2>1. IsFiniteSet(A)
    BY DEF A
  <2> QED BY <1>2, <2>1, FS_Union
<1>6. Cardinality(A \cap B) = 0 /\ Cardinality(A) \in Nat /\ Cardinality(B) \in Nat
  <2>1. IsFiniteSet(A)
    BY DEF A
  <2> QED BY <1>2, <1>3, <2>1, FS_EmptySet, FS_CardinalityType
<1> QED BY <1>2, <1>4, <1>5, <1>6 DEF A, R, RowCount

-----------------------------------------------------------------------------
\* All pages, and the records that are read.

\* The records of the first p pages are their transaction lines in order, each
\* with the first reference that continues it.
Complete(records, pages, p) ==
  /\ records \in Seq(RecordType)
  /\ \A b \in RowLines(pages) : b[1] <= p =>
       /\ Number(pages, b) \in 1..Len(records)
       /\ records[Number(pages, b)].line = pages[b[1]][b[2]]
       /\ FirstReference(pages[b[1]], b[2], Len(pages[b[1]]), records[Number(pages, b)].reference)

\* As many as there are lines.
Gathered(records, pages, p) ==
  /\ Complete(records, pages, p)
  /\ IsFiniteSet(UpTo(pages, p + 1, 0)) /\ Len(records) = Cardinality(UpTo(pages, p + 1, 0))

LEMMA PagesScanned ==
  ASSUME NEW pages \in PagesType, \A p \in DOMAIN pages : ReferencesGiven(pages[p])
  PROVE  \E at \in [0..Len(pages) -> Seq(RecordType)] :
           /\ at[0] = <<>> /\ at[Len(pages)] = RawRecords(pages)
           /\ \A p \in 1..Len(pages) : at[p] = ScanPage(at[p - 1], pages[p])
<1> DEFINE S == 1..Len(pages)
           V == Seq(RecordType)
           start == <<>>
           Value(T, iter) == ScanPage(iter[T \ {Max(T)}], pages[Max(T)])
           Recurses(iter) == iter = [T \in SUBSET S |-> IF T = {} THEN start ELSE Value(T, iter)]
           pick == [T \in SUBSET S |-> Max(T)]
           step == [p \in S \X V |-> ScanPage(p[2], pages[p[1]])]
<1>1. IsFiniteSet(S) /\ Len(pages) \in Nat /\ DOMAIN pages = S
  BY FS_Interval DEF PagesType
<1>2. start \in V
  OBVIOUS
<1>3. \A T \in SUBSET S : T # {} => Max(T) \in T
  <2> SUFFICES ASSUME NEW T \in SUBSET S, T # {}
               PROVE  Max(T) \in T
    OBVIOUS
  <2>1. \A x \in T : x \in Int
    OBVIOUS
  <2> HIDE DEF S
  <2>2. IsFiniteSet(T)
    BY <1>1, FS_Subset
  <2> QED BY <2>1, <2>2, LargestExists
<1>4. \A i \in S, kept \in V : step[<<i, kept>>] = ScanPage(kept, pages[i])
                               /\ ScanPage(kept, pages[i]) \in V
  <2> SUFFICES ASSUME NEW i \in S, NEW kept \in V
               PROVE  ScanPage(kept, pages[i]) \in V
    OBVIOUS
  <2>1. pages[i] \in PageType /\ ReferencesGiven(pages[i])
    BY <1>1 DEF PagesType
  <2>2. Listed(ScanPage(kept, pages[i]), kept, pages[i], Len(pages[i]))
    BY <2>1, PageListed
  <2> QED BY <2>2 DEF Listed
<1>5. \A T \in SUBSET S : pick[T] = Max(T)
  OBVIOUS
<1>6. PICK g \in [SUBSET S -> V] : Folds(g, step, start, pick, S)
  <2> HIDE DEF pick, step, start, S, V
  <2>1. Picks(pick, S)
    BY <1>3, <1>5 DEF Picks
  <2>2. Keeps(step, S, V)
    BY <1>4 DEF Keeps
  <2> QED BY <1>1, <1>2, <2>1, <2>2, FoldExists
<1>7. \A T \in SUBSET S : g[T] = IF T = {} THEN start ELSE Value(T, g)
  <2> SUFFICES ASSUME NEW T \in SUBSET S
               PROVE  g[T] = IF T = {} THEN start ELSE Value(T, g)
    OBVIOUS
  <2> HIDE DEF pick, step, start, V, S
  <2>1. T # {} => Max(T) \in S /\ g[T \ {Max(T)}] \in V
    BY <1>3, <1>6
  <2> QED BY <1>4, <1>5, <1>6, <2>1 DEF Folds, Unfolded
<1>8. Recurses(g)
  <2> HIDE DEF pick, step, start, V, S, Value
  <2> QED BY <1>7
<1>9. ASSUME NEW iter, Recurses(iter)
      PROVE  iter[S] = g[S]
  <2> DEFINE Good == {T \in SUBSET S : iter[T] = g[T]}
  <2>1. ASSUME NEW T \in SUBSET S, \A x \in T : T \ {x} \in Good
        PROVE  T \in Good
    <3>1. iter[T] = IF T = {} THEN start ELSE Value(T, iter)
      BY <1>9
    <3> HIDE DEF start, V, S, step, pick
    <3>2. T # {} => iter[T \ {Max(T)}] = g[T \ {Max(T)}]
      BY <1>3, <2>1
    <3> QED BY <1>7, <3>1, <3>2
  <2>2. Hereditary(Good, S)
    BY <2>1 DEF Hereditary
  <2> HIDE DEF Good, S, V, Recurses
  <2>3. S \in Good
    BY <1>1, <2>2, SubsetInduction
  <2> QED BY <2>3 DEF Good
<1>10. Recurses(CHOOSE iter : Recurses(iter))
  <2> HIDE DEF Recurses
  <2> QED BY <1>8
<1>11. (CHOOSE iter : Recurses(iter))[S] = g[S]
  <2> HIDE DEF Recurses
  <2> QED BY <1>9, <1>10
<1>12. RawRecords(pages) = (CHOOSE iter : Recurses(iter))[S]
  BY <1>1 DEF RawRecords, FoldLeft, MapThenFoldSet
<1> DEFINE at == [i \in 0..Len(pages) |-> g[1..i]]
<1>13. \A i \in 0..Len(pages) : 1..i \in SUBSET S
  BY <1>1
<1>14. at \in [0..Len(pages) -> V]
  BY <1>6, <1>13
<1>15. at[0] = start
  <2>1. at[0] = g[{}]
    BY <1>1
  <2> QED BY <1>7, <2>1
<1>16. ASSUME NEW i \in 1..Len(pages)
       PROVE  at[i] = ScanPage(at[i - 1], pages[i])
  <2>1. 1..i \in SUBSET S /\ 1..i # {} /\ Max(1..i) = i /\ (1..i) \ {Max(1..i)} = 1..(i - 1)
    BY <1>1, FirstOnes
  <2>2. at[i] = g[1..i] /\ at[i - 1] = g[1..(i - 1)]
    BY <1>1
  <2> HIDE DEF S, at, start
  <2>3. g[1..i] = Value(1..i, g)
    BY <1>7, <2>1
  <2> QED BY <2>1, <2>2, <2>3
<1>17. at[Len(pages)] = g[S]
  BY <1>1
<1> HIDE DEF Recurses, at, S
<1> QED BY <1>11, <1>12, <1>14, <1>15, <1>16, <1>17

LEMMA NumberIsUpTo ==
  ASSUME NEW pages \in PagesType, NEW b \in RowLines(pages)
  PROVE  /\ b[1] \in 1..Len(pages) /\ b[2] \in Rows(pages[b[1]], Len(pages[b[1]]))
         /\ b = <<b[1], b[2]>> /\ pages[b[1]] \in PageType
         /\ Number(pages, b) = Cardinality(UpTo(pages, b[1], b[2]))
<1>1. PICK p \in DOMAIN pages : \E i \in DOMAIN pages[p] : pages[p][i].kind = "row" /\ b = <<p, i>>
  BY RowLine
<1>2. PICK i \in DOMAIN pages[p] : pages[p][i].kind = "row" /\ b = <<p, i>>
  BY <1>1
<1>3. p \in 1..Len(pages) /\ pages[p] \in PageType
  BY DEF PagesType
<1>4. i \in 1..Len(pages[p])
  BY <1>3 DEF PageType
<1>5. i \in Rows(pages[p], Len(pages[p]))
  BY <1>2, <1>4 DEF Rows
<1>6. b[1] = p /\ b[2] = i
  BY <1>2
<1> QED BY <1>2, <1>3, <1>5, <1>6 DEF Number, UpTo

\* The next page adds its own.
LEMMA PageGathered ==
  ASSUME NEW pages \in PagesType, \A q \in DOMAIN pages : ReferencesGiven(pages[q]),
         NEW p \in 1..Len(pages), NEW kept, Gathered(kept, pages, p - 1)
  PROVE  Gathered(ScanPage(kept, pages[p]), pages, p)
<1> DEFINE page == pages[p]
           records == ScanPage(kept, page)
<1>1. page \in PageType /\ ReferencesGiven(page) /\ Len(page) \in Nat
  BY DEF PagesType, PageType
<1>2. kept \in Seq(RecordType) /\ Len(kept) \in Nat /\ (p - 1) + 1 = p
      /\ IsFiniteSet(UpTo(pages, p, 0)) /\ Len(kept) = Cardinality(UpTo(pages, p, 0))
  BY DEF Gathered, Complete
<1>3. Listed(records, kept, page, Len(page))
  BY <1>1, <1>2, PageListed
<1>4. \A i \in 0..Len(page) :
        /\ IsFiniteSet(UpTo(pages, p, i))
        /\ Cardinality(UpTo(pages, p, i)) = Len(kept) + RowCount(page, i)
  BY <1>2, UpToCount
<1>5. UpTo(pages, p, Len(page)) = UpTo(pages, p + 1, 0)
  <2>1. ASSUME NEW b \in RowLines(pages)
        PROVE  NotAfter(b, <<p, Len(page)>>) <=> NotAfter(b, <<p + 1, 0>>)
    <3>1. b[1] \in 1..Len(pages) /\ b[2] \in Rows(pages[b[1]], Len(pages[b[1]]))
      BY NumberIsUpTo
    <3>2. b[2] \in Nat /\ b[2] >= 1 /\ b[2] <= Len(pages[b[1]])
      BY <3>1 DEF Rows
    <3> QED BY <1>1, <3>1, <3>2 DEF NotAfter
  <2> QED BY <2>1 DEF UpTo
<1> HIDE DEF records
<1>6. Len(records) = Cardinality(UpTo(pages, p + 1, 0)) /\ IsFiniteSet(UpTo(pages, p + 1, 0))
  BY <1>1, <1>3, <1>4, <1>5 DEF Listed
<1>7. ASSUME NEW b \in RowLines(pages), b[1] <= p
      PROVE  /\ Number(pages, b) \in 1..Len(records)
             /\ records[Number(pages, b)].line = pages[b[1]][b[2]]
             /\ FirstReference(pages[b[1]], b[2], Len(pages[b[1]]), records[Number(pages, b)].reference)
  <2>1. b[1] \in 1..Len(pages) /\ b[2] \in Rows(pages[b[1]], Len(pages[b[1]]))
        /\ Number(pages, b) = Cardinality(UpTo(pages, b[1], b[2]))
    BY NumberIsUpTo
  <2>2. CASE b[1] = p
    <3>1. b[2] \in Rows(page, Len(page)) /\ b[2] \in 0..Len(page)
      BY <2>1, <2>2 DEF Rows
    <3>2. Number(pages, b) = Len(kept) + RowCount(page, b[2])
      BY <1>4, <2>1, <2>2, <3>1
    <3>3. RowCount(page, b[2]) \in Nat /\ 1 <= RowCount(page, b[2]) /\ RowCount(page, b[2]) <= RowCount(page, Len(page))
          /\ RowCount(page, Len(page)) \in Nat
      BY <1>1, <3>1, RowsCount, RowsFinite
    <3>4. Len(records) = Len(kept) + RowCount(page, Len(page))
      BY <1>3 DEF Listed
    <3>5. Number(pages, b) \in 1..Len(records)
      BY <1>2, <3>2, <3>3, <3>4
    <3>6. records[Len(kept) + RowCount(page, b[2])].line = page[b[2]]
          /\ FirstReference(page, b[2], Len(page), records[Len(kept) + RowCount(page, b[2])].reference)
      BY <1>3, <3>1 DEF Listed
    <3> QED BY <2>2, <3>2, <3>5, <3>6
  <2>3. CASE b[1] # p
    <3>1. b[1] <= p - 1
      BY <1>7, <2>1, <2>3
    <3>2. /\ Number(pages, b) \in 1..Len(kept)
          /\ kept[Number(pages, b)].line = pages[b[1]][b[2]]
          /\ FirstReference(pages[b[1]], b[2], Len(pages[b[1]]), kept[Number(pages, b)].reference)
      BY <3>1 DEF Gathered, Complete
    <3>3. records[Number(pages, b)] = kept[Number(pages, b)]
      BY <1>3, <3>2 DEF Listed
    <3>4. Len(kept) <= Len(records) /\ Len(records) \in Nat
      <4>1. RowCount(page, Len(page)) \in Nat
        BY <1>1, RowsFinite
      <4> QED BY <1>2, <1>3, <4>1 DEF Listed
    <3>5. Number(pages, b) \in 1..Len(records)
      BY <1>2, <3>2, <3>4
    <3> QED BY <3>2, <3>3, <3>5
  <2> QED BY <2>2, <2>3
<1>8. records \in Seq(RecordType)
  BY <1>3 DEF Listed
<1> QED BY <1>6, <1>7, <1>8 DEF Gathered, Complete, records

\* All pages.
LEMMA RecordsGathered ==
  ASSUME NEW pages \in PagesType, \A p \in DOMAIN pages : ReferencesGiven(pages[p])
  PROVE  Gathered(RawRecords(pages), pages, Len(pages))
<1>1. PICK at \in [0..Len(pages) -> Seq(RecordType)] :
        /\ at[0] = <<>> /\ at[Len(pages)] = RawRecords(pages)
        /\ \A p \in 1..Len(pages) : at[p] = ScanPage(at[p - 1], pages[p])
  BY PagesScanned
<1>2. Len(pages) \in Nat
  BY DEF PagesType
<1> DEFINE Bad == {p \in 0..Len(pages) : ~Gathered(at[p], pages, p)}
<1>3. Gathered(at[0], pages, 0)
  <2>1. \A b \in RowLines(pages) : b[1] \in Int /\ b[1] >= 1 /\ b[2] \in Int /\ b[2] >= 1
    <3> SUFFICES ASSUME NEW b \in RowLines(pages)
                 PROVE  b[1] \in Int /\ b[1] >= 1 /\ b[2] \in Int /\ b[2] >= 1
      OBVIOUS
    <3>1. b[1] \in 1..Len(pages) /\ b[2] \in Rows(pages[b[1]], Len(pages[b[1]]))
      BY NumberIsUpTo
    <3> QED BY <3>1 DEF Rows
  <2>2. UpTo(pages, 0 + 1, 0) = {}
    BY <2>1 DEF UpTo, NotAfter
  <2>3. at[0] \in Seq(RecordType) /\ Len(at[0]) = 0
    BY <1>1
  <2> QED BY <2>1, <2>2, <2>3, FS_EmptySet DEF Gathered, Complete
<1>4. Bad = {}
  <2> SUFFICES ASSUME Bad # {}
               PROVE  FALSE
    OBVIOUS
  <2>1. PICK p \in Bad : \A q \in Bad : p <= q
    <3>1. Bad \in SUBSET Nat
      BY <1>2
    <3> HIDE DEF Bad
    <3> QED BY <3>1, LeastNatural
  <2>2. p \in 1..Len(pages) /\ p - 1 \in 0..Len(pages)
    BY <1>2, <1>3, <2>1
  <2>3. Gathered(at[p - 1], pages, p - 1)
    <3>1. p - 1 \notin Bad
      <4>1. p \in Int /\ ~(p <= p - 1)
        BY <2>2
      <4> HIDE DEF Bad
      <4> QED BY <2>1, <4>1
    <3> QED BY <2>2, <3>1
  <2>4. at[p] = ScanPage(at[p - 1], pages[p])
    BY <1>1, <2>2
  <2>5. Gathered(at[p], pages, p)
    BY <2>2, <2>3, <2>4, PageGathered
  <2> QED BY <2>1, <2>5
<1> QED BY <1>1, <1>2, <1>4

LEMMA AllGathered ==
  ASSUME NEW pages \in PagesType, \A p \in DOMAIN pages : ReferencesGiven(pages[p])
  PROVE  /\ RawRecords(pages) \in Seq(RecordType)
         /\ IsFiniteSet(RowLines(pages)) /\ Len(RawRecords(pages)) = Cardinality(RowLines(pages))
         /\ \A b \in RowLines(pages) :
              /\ Number(pages, b) \in 1..Len(RawRecords(pages))
              /\ RawRecords(pages)[Number(pages, b)].line = pages[b[1]][b[2]]
              /\ FirstReference(pages[b[1]], b[2], Len(pages[b[1]]), RawRecords(pages)[Number(pages, b)].reference)
<1>1. Gathered(RawRecords(pages), pages, Len(pages))
  BY RecordsGathered
<1>2. Len(pages) \in Nat
  BY DEF PagesType
<1>3. \A b \in RowLines(pages) : b[1] \in Int /\ b[1] <= Len(pages)
  <2> SUFFICES ASSUME NEW b \in RowLines(pages)
               PROVE  b[1] \in Int /\ b[1] <= Len(pages)
    OBVIOUS
  <2>1. b[1] \in 1..Len(pages)
    BY NumberIsUpTo
  <2> QED BY <1>2, <2>1
<1>4. UpTo(pages, Len(pages) + 1, 0) = RowLines(pages)
  BY <1>2, <1>3 DEF UpTo, NotAfter
<1> QED BY <1>1, <1>3, <1>4 DEF Gathered, Complete

LEMMA PagesTyped ==
  ASSUME NEW f \in Files, f.kind = "pdf"
  PROVE  f.pages \in PagesType /\ \A p \in DOMAIN f.pages : ReferencesGiven(f.pages[p])
BY PagesAssumption DEF PagesType, PageType, ReferencesGiven

\* Whatever its pages and lines are, no transaction of a statement is lost, and
\* each has the first reference that continues it and no other.
THEOREM StatementsReadWhole == Spec => []RecordsComplete
<1>1. ASSUME file \in Files, file.kind = "pdf", NEW pages, pages = file.pages,
             NEW records, records = RawRecords(pages)
      PROVE  /\ Len(records) = Cardinality(RowLines(pages))
             /\ \A at \in RowLines(pages) :
                  /\ records[Number(pages, at)].line = pages[at[1]][at[2]]
                  /\ FirstReference(pages[at[1]], at[2], Len(pages[at[1]]), records[Number(pages, at)].reference)
  BY <1>1, PagesTyped, AllGathered
<1>2. file \in Files => RecordsComplete
  BY <1>1 DEF RecordsComplete
<1>3. IInv => file \in Files
  BY DEF IInv, Typed
<1> QED BY <1>2, <1>3, InvariantInit, InvariantNext, PTL DEF Spec

-----------------------------------------------------------------------------
\* The amounts that are read, and their sum.

\* What is being posted, or was, is not a refused file.
Accepted == \A w \in Workers : pc[w] \in {"post", "commit", "done"} => Parse(file) # Refused

LEMMA AcceptedInit == Init => Accepted
BY DEF Init, Accepted

LEMMA AcceptedNext == IInv /\ Accepted /\ [Next]_vars => Accepted'
<1> SUFFICES ASSUME IInv, Accepted, [Next]_vars, NEW w \in Workers,
                    pc'[w] \in {"post", "commit", "done"}
             PROVE  Parse(file)' # Refused
  BY DEF Accepted
<1>1. file' = file
  BY DEF Next, Upload, PostRow, Commit, Crash, EditCurrency, vars
<1>2. pc \in [Workers -> {"idle", "post", "commit", "done", "failed", "refused"}]
  BY DEF IInv, Typed
<1>3. CASE pc[w] \in {"post", "commit", "done"}
  BY <1>1, <1>3 DEF Accepted
<1>4. CASE pc[w] \notin {"post", "commit", "done"}
  <2>1. PICK v \in Workers : Upload(v) \/ PostRow(v) \/ Commit(v) \/ Crash(v)
    BY <1>4 DEF Next, EditCurrency, vars
  <2>2. v = w
    BY <1>2, <1>4, <2>1 DEF Upload, PostRow, Commit, Crash, Goto
  <2>3. Upload(w)
    BY <1>4, <2>1, <2>2 DEF PostRow, Commit, Crash
  <2> QED BY <1>1, <1>2, <2>3 DEF Upload, Goto
<1> QED BY <1>3, <1>4

\* The opening balance is that of a line of the statement.
LEMMA OpeningTyped ==
  ASSUME NEW pages \in PagesType, Opening(pages) # NoLine
  PROVE  Opening(pages) \in LineType
<1> DEFINE all == LinesOf(pages, "opening")
           on == {p \in DOMAIN pages : \E i \in DOMAIN pages[p] : pages[p][i].kind = "opening"}
           Is(a) == a \in all /\ \A b \in all : NotAfter(a, b)
           first == CHOOSE a \in all : \A b \in all : NotAfter(a, b)
<1>1. \A b : b \in all <=>
        \E p \in DOMAIN pages : \E i \in DOMAIN pages[p] : pages[p][i].kind = "opening" /\ b = <<p, i>>
  BY DEF LinesOf
<1>2. all # {} /\ Opening(pages) = pages[first[1]][first[2]]
  BY DEF Opening
<1>3. \A p \in DOMAIN pages : p \in Nat /\ pages[p] \in PageType /\ DOMAIN pages[p] \in SUBSET Nat
                              /\ \A i \in DOMAIN pages[p] : pages[p][i] \in LineType
  BY DEF PagesType, PageType
<1>4. PICK p \in on : \A q \in on : p <= q
  <2>1. on \in SUBSET Nat
    BY <1>3
  <2>2. on # {}
    BY <1>1, <1>2
  <2> HIDE DEF on
  <2> QED BY <2>1, <2>2, LeastNatural
<1> DEFINE at == {i \in DOMAIN pages[p] : pages[p][i].kind = "opening"}
<1>5. PICK i \in at : \A j \in at : i <= j
  <2>1. at \in SUBSET Nat /\ at # {}
    BY <1>3, <1>4
  <2> HIDE DEF at
  <2> QED BY <2>1, LeastNatural
<1>6. <<p, i>> \in all
  BY <1>1, <1>4, <1>5
<1>7. \A b \in all : NotAfter(<<p, i>>, b)
  <2> SUFFICES ASSUME NEW b \in all
               PROVE  NotAfter(<<p, i>>, b)
    OBVIOUS
  <2>1. PICK q \in DOMAIN pages : \E j \in DOMAIN pages[q] : pages[q][j].kind = "opening" /\ b = <<q, j>>
    BY <1>1
  <2>2. PICK j \in DOMAIN pages[q] : pages[q][j].kind = "opening" /\ b = <<q, j>>
    BY <2>1
  <2>3. q \in on /\ p <= q /\ p \in Nat /\ q \in Nat
    BY <1>3, <1>4, <2>2
  <2>4. q = p => j \in at /\ i <= j
    BY <1>5, <2>2
  <2> QED BY <2>2, <2>3, <2>4 DEF NotAfter
<1>8. first \in all
  <2> HIDE DEF all
  <2> QED BY <1>6, <1>7
<1>9. PICK q \in DOMAIN pages : \E j \in DOMAIN pages[q] : first = <<q, j>>
  <2> HIDE DEF first, all
  <2> QED BY <1>1, <1>8
<1> HIDE DEF first
<1> QED BY <1>2, <1>3, <1>9

-----------------------------------------------------------------------------
\* The balance after the first i transactions of a statement.
BalanceAt(pages, i) ==
  IF i = 0 THEN Opening(pages).balance ELSE RawRecords(pages)[i].line.balance

\* A statement that is accepted and has an opening balance goes from balance to
\* balance, by what it prints.
Reconciled(rows, pages) ==
  /\ DOMAIN rows = 1..Len(RawRecords(pages)) /\ Len(rows) = Len(RawRecords(pages))
  /\ \A i \in 1..Len(RawRecords(pages)) :
       /\ rows[i].amount = BalanceAt(pages, i) - BalanceAt(pages, i - 1)
       /\ Magnitude(rows[i].amount) = Magnitude(RawRecords(pages)[i].line.raw)

LEMMA BalancesTyped ==
  ASSUME NEW pages \in PagesType, \A p \in DOMAIN pages : ReferencesGiven(pages[p]),
         Opening(pages) # NoLine
  PROVE  \A i \in 0..Len(RawRecords(pages)) : BalanceAt(pages, i) \in Int
<1>1. RawRecords(pages) \in Seq(RecordType)
  BY AllGathered
<1>2. Opening(pages) \in LineType
  BY OpeningTyped
<1>3. \A i \in 1..Len(RawRecords(pages)) : RawRecords(pages)[i].line \in LineType
  <2> SUFFICES ASSUME NEW i \in 1..Len(RawRecords(pages))
               PROVE  RawRecords(pages)[i].line \in LineType
    OBVIOUS
  <2>1. RawRecords(pages)[i] \in RecordType
    BY <1>1
  <2> QED BY <2>1 DEF RecordType
<1> QED BY <1>1, <1>2, <1>3 DEF BalanceAt, LineType

LEMMA AcceptedReconciles ==
  ASSUME NEW pages \in PagesType, \A p \in DOMAIN pages : ReferencesGiven(pages[p]),
         ParsePdf(pages) # Refused, Opening(pages) # NoLine
  PROVE  Reconciled(ParsePdf(pages), pages)
<1> DEFINE records == RawRecords(pages)
           opening == Opening(pages)
           amounts == [i \in DOMAIN records |-> SignedAmount(records, opening, i)]
           rows == [i \in DOMAIN records |->
                      ImportedRow(records[i].line.day, Description(records[i]), amounts[i],
                                  records[i].line.currency, records[i].reference)]
<1>1. records \in Seq(RecordType) /\ DOMAIN records = 1..Len(records) /\ Len(records) \in Nat
  BY AllGathered
<1>2. ParsePdf(pages) = rows /\ \A i \in DOMAIN records : amounts[i] # 0
  BY DEF ParsePdf
<1>3. DOMAIN rows = 1..Len(records) /\ Len(rows) = Len(records)
  <2> HIDE DEF records
  <2> QED BY <1>1
<1>4. ASSUME NEW i \in 1..Len(records)
      PROVE  /\ rows[i].amount = BalanceAt(pages, i) - BalanceAt(pages, i - 1)
             /\ Magnitude(rows[i].amount) = Magnitude(records[i].line.raw)
  <2>1. rows[i].amount = amounts[i] /\ amounts[i] = SignedAmount(records, opening, i) /\ amounts[i] # 0
    BY <1>1, <1>2, <1>4 DEF ImportedRow
  <2>2. i \in Int /\ i >= 1
    BY <1>1
  <2> DEFINE previous == IF i > 1 THEN records[i - 1].line.balance ELSE opening.balance
             balance == records[i].line.balance
             raw == records[i].line.raw
  <2>3. previous = BalanceAt(pages, i - 1)
    BY <2>2 DEF BalanceAt
  <2>4. balance = BalanceAt(pages, i)
    BY <2>2 DEF BalanceAt
  <2>5. /\ SignedAmount(records, opening, i) = balance - previous
        /\ Magnitude(balance - previous) = Magnitude(raw)
    BY <2>1, <2>2 DEF SignedAmount
  <2> QED BY <2>1, <2>3, <2>4, <2>5
<1> HIDE DEF rows
<1> QED BY <1>2, <1>3, <1>4 DEF Reconciled

Steps(amount, balance, s) == \A i \in DOMAIN s : amount[s[i]] = balance[i] - balance[i - 1]

\* Amounts that lead from a balance to the next lead, added up, from the first
\* to the last.
LEMMA StepsAddUp ==
  ASSUME NEW s \in Seq(PostedRow), Increasing(s), NEW amount, NEW balance \in [0..Len(s) -> Int],
         Steps(amount, balance, s)
  PROVE  \A i \in 0..Len(s) : Over(amount, Firsts(s, i)) = balance[i] - balance[0]
<1>0. PICK n \in Nat : n = Len(s) /\ DOMAIN s = 1..n
  OBVIOUS
<1> DEFINE Bad == {i \in 0..n : Over(amount, Firsts(s, i)) # balance[i] - balance[0]}
<1>1. ASSUME NEW i \in 0..n
      PROVE  IsFiniteSet(Firsts(s, i)) /\ \A x \in Firsts(s, i) : amount[x] \in Int
  <2>1. IsFiniteSet(Firsts(s, i))
    BY <1>0, FirstsCount
  <2>2. ASSUME NEW j \in 1..i
        PROVE  amount[s[j]] \in Int
    <3>1. j \in DOMAIN s /\ j \in 0..n /\ j - 1 \in 0..n
      BY <1>0
    <3>2. amount[s[j]] = balance[j] - balance[j - 1]
      BY <3>1 DEF Steps
    <3> QED BY <1>0, <3>1, <3>2
  <2> QED BY <2>1, <2>2 DEF Firsts
<1>2. Over(amount, Firsts(s, 0)) = balance[0] - balance[0]
  <2>1. Firsts(s, 0) = {} /\ 0 \in 0..n
    BY DEF Firsts
  <2>2. Over(amount, Firsts(s, 0)) = 0
    BY <1>1, <2>1, SumStep
  <2>3. balance[0] \in Int
    BY <1>0
  <2> QED BY <2>2, <2>3
<1>3. SUFFICES ASSUME Bad # {}
               PROVE  FALSE
  BY <1>0
<1>4. PICK i \in Bad : \A j \in Bad : i <= j
  <2>1. Bad \in SUBSET Nat
    OBVIOUS
  <2> HIDE DEF Bad
  <2> QED BY <1>3, <2>1, LeastNatural
<1>5. i \in 1..n /\ i \in 0..n /\ i - 1 \in 0..n /\ ~(i <= i - 1)
  BY <1>2, <1>4
<1>6. Over(amount, Firsts(s, i - 1)) = balance[i - 1] - balance[0]
  <2>1. i - 1 \notin Bad
    <3> HIDE DEF Bad
    <3> QED BY <1>4, <1>5
  <2> QED BY <1>5, <2>1
<1>7. Over(amount, Firsts(s, i)) = amount[s[i]] + Over(amount, Firsts(s, i) \ {s[i]})
  <2>1. s[i] \in Firsts(s, i)
    BY <1>5 DEF Firsts
  <2>2. IsFiniteSet(Firsts(s, i)) /\ \A x \in Firsts(s, i) : amount[x] \in Int
    BY <1>1, <1>5
  <2> QED BY <2>1, <2>2, SumStep
<1>8. Firsts(s, i) \ {s[i]} = Firsts(s, i - 1)
  <2> HIDE DEF Bad
  <2>1. \A j \in 1..i : j \in DOMAIN s /\ s[j] \in PostedRow
    BY <1>0, <1>5
  <2>2. \A j \in 1..i : s[j].id \in Int
    BY <2>1 DEF PostedRow
  <2>3. i \in Int /\ i \in 1..i /\ \A j : j \in 1..i - 1 <=> j \in 1..i /\ j # i
    BY <1>5
  <2>4. \A j \in 1..i - 1 : s[j] # s[i]
    <3> SUFFICES ASSUME NEW j \in 1..i - 1 PROVE s[j].id < s[i].id
      BY <2>2, <2>3
    <3>1. j < i /\ j \in DOMAIN s /\ i \in DOMAIN s
      BY <2>1, <2>3
    <3> QED BY <3>1 DEF Increasing
  <2>5. \A x : x \in Firsts(s, i) <=> \E j \in 1..i : x = s[j]
    BY DEF Firsts
  <2>6. \A x : x \in Firsts(s, i - 1) <=> \E j \in 1..i - 1 : x = s[j]
    BY DEF Firsts
  <2>7. \A x : x \in Firsts(s, i) \ {s[i]} <=> x \in Firsts(s, i - 1)
    BY <2>3, <2>4, <2>5, <2>6
  <2> QED BY <2>7
<1>9. amount[s[i]] = balance[i] - balance[i - 1]
  BY <1>0, <1>5 DEF Steps
<1>10. balance[i] \in Int /\ balance[i - 1] \in Int /\ balance[0] \in Int
  BY <1>0, <1>5
<1>11. Over(amount, Firsts(s, i)) = balance[i] - balance[0]
  <2>1. PICK first \in Int, before \in Int, now \in Int :
          first = balance[0] /\ before = balance[i - 1] /\ now = balance[i]
    BY <1>10
  <2>2. Over(amount, Firsts(s, i)) = (now - before) + (before - first)
    BY <1>6, <1>7, <1>8, <1>9, <2>1
  <2> QED BY <2>1, <2>2
<1> QED BY <1>4, <1>11

\* What a request has posted of a statement that has an opening balance.
LEMMA BatchReconciles ==
  ASSUME NEW w \in Workers, IInv, Accepted, pc[w] = "done", file.kind = "pdf",
         Opening(file.pages) # NoLine
  PROVE  /\ Cardinality(BatchOf(w)) = Cardinality(RowLines(file.pages))
         /\ \A e \in BatchOf(w), at \in RowLines(file.pages) :
              Cardinality(SoFar(w, e)) = Number(file.pages, at) =>
                /\ SumFunction([f \in SoFar(w, e) |-> f.amount])
                     = file.pages[at[1]][at[2]].balance - Opening(file.pages).balance
                /\ Magnitude(e.amount) = Magnitude(file.pages[at[1]][at[2]].raw)
<1> DEFINE pages == file.pages
           rows == ParsePdf(pages)
           records == RawRecords(pages)
<1>1. pages \in PagesType /\ \A p \in DOMAIN pages : ReferencesGiven(pages[p])
  BY PagesTyped DEF IInv, Typed
<1>2. Parse(file) = rows /\ rows # Refused
  BY DEF Accepted, Parse
<1>3. Reconciled(rows, pages)
  BY <1>1, <1>2, AcceptedReconciles
<1>4. PICK total \in Nat : total = Len(records)
  BY <1>1, AllGathered
<1>5. /\ DOMAIN rows = 1..total /\ Len(rows) = total
      /\ \A i \in 1..total :
           /\ rows[i].amount = BalanceAt(pages, i) - BalanceAt(pages, i - 1)
           /\ Magnitude(rows[i].amount) = Magnitude(records[i].line.raw)
  BY <1>3, <1>4 DEF Reconciled
<1>6. PICK s \in Seq(PostedRow) : PostedAs(w, s)
  BY DEF IInv, PostedOnce
<1>7. /\ Len(s) = total /\ DOMAIN s = 1..total
      /\ \A i \in 1..total : s[i].amount = rows[i].amount
  <2>1. Len(s) = total /\ DOMAIN s = 1..total
    BY <1>2, <1>5, <1>6 DEF PostedAs
  <2>2. \A i \in 1..total : Records(s[i], rows[i])
    BY <1>2, <1>6, <2>1 DEF PostedAs
  <2>3. \A i \in 1..total : s[i].amount = rows[i].amount
    BY <2>2 DEF Records
  <2> QED BY <2>1, <2>3
<1> DEFINE amount == [f \in BatchOf(w) |-> f.amount]
           balance == [i \in 0..total |-> BalanceAt(pages, i)]
<1>8. Cardinality(BatchOf(w)) = total
  BY <1>6, <1>7, RangeCount DEF PostedAs
<1>9. Cardinality(RowLines(pages)) = total
  BY <1>1, <1>4, AllGathered
<1>10. \A i \in 1..total : s[i] \in BatchOf(w) /\ amount[s[i]] = s[i].amount
  BY <1>6, <1>7 DEF PostedAs, Range
<1>11. \A i \in 0..total : Over(amount, Firsts(s, i)) = BalanceAt(pages, i) - BalanceAt(pages, 0)
  <2>1. balance \in [0..total -> Int]
    BY <1>1, <1>4, BalancesTyped
  <2>2. ASSUME NEW i \in 1..total
        PROVE  amount[s[i]] = balance[i] - balance[i - 1]
    <3>1. i \in 0..total /\ i - 1 \in 0..total
      OBVIOUS
    <3>2. balance[i] = BalanceAt(pages, i) /\ balance[i - 1] = BalanceAt(pages, i - 1)
      BY <3>1
    <3> HIDE DEF amount, balance, rows, records, pages
    <3> QED BY <1>5, <1>7, <1>10, <3>2
  <2> HIDE DEF amount, rows, records, pages
  <2>3. balance[0] = BalanceAt(pages, 0) /\ \A i \in 0..total : balance[i] = BalanceAt(pages, i)
    OBVIOUS
  <2> HIDE DEF balance
  <2>4. Steps(amount, balance, s) /\ Increasing(s)
    BY <1>6, <1>7, <2>2 DEF Steps, PostedAs
  <2>5. \A i \in 0..total : Over(amount, Firsts(s, i)) = balance[i] - balance[0]
    BY <1>7, <2>1, <2>4, StepsAddUp
  <2> QED BY <2>3, <2>5
<1>12. ASSUME NEW e \in BatchOf(w), NEW at \in RowLines(pages),
              Cardinality(SoFar(w, e)) = Number(pages, at)
       PROVE  /\ SumFunction([f \in SoFar(w, e) |-> f.amount])
                   = pages[at[1]][at[2]].balance - Opening(pages).balance
              /\ Magnitude(e.amount) = Magnitude(pages[at[1]][at[2]].raw)
  <2>1. PICK i \in 1..total : e = s[i]
    BY <1>6, <1>7 DEF PostedAs, Range
  <2>2. SoFar(w, e) = Firsts(s, i) /\ Cardinality(SoFar(w, e)) = i
    BY <1>6, <1>7, <2>1, BatchNumbered
  <2>3. Number(pages, at) = i /\ records[i].line = pages[at[1]][at[2]]
    <3>1. records[Number(pages, at)].line = pages[at[1]][at[2]]
      BY <1>1, <1>12, AllGathered
    <3> QED BY <1>12, <2>2, <3>1
  <2>4. BalanceAt(pages, i) = pages[at[1]][at[2]].balance /\ BalanceAt(pages, 0) = Opening(pages).balance
    BY <2>3 DEF BalanceAt
  <2>5. SumFunction([f \in SoFar(w, e) |-> f.amount]) = Over(amount, Firsts(s, i))
    <3>1. \A f \in SoFar(w, e) : amount[f] = f.amount
      BY DEF SoFar
    <3>2. [f \in SoFar(w, e) |-> f.amount] = [f \in SoFar(w, e) |-> amount[f]]
      BY <3>1
    <3> QED BY <2>2, <3>2 DEF Over
  <2>6. Over(amount, Firsts(s, i)) = BalanceAt(pages, i) - BalanceAt(pages, 0)
    <3> HIDE DEF amount, pages
    <3>1. i \in 0..total
      OBVIOUS
    <3> QED BY <1>11, <3>1
  <2>7. e.amount = rows[i].amount /\ Magnitude(rows[i].amount) = Magnitude(records[i].line.raw)
    BY <1>5, <1>7, <2>1
  <2> HIDE DEF pages, records, rows, amount
  <2> QED BY <2>3, <2>4, <2>5, <2>6, <2>7
<1> QED BY <1>8, <1>9, <1>12

\* ledger/imports.py:263-271 for any statement and any number of requests: one
\* entry for each transaction line, and from the opening balance to every
\* printed one, whatever the signs.
THEOREM StatementsReconcile == Spec => []ImportReconciles
<1>1. IInv /\ Accepted => ImportReconciles
  BY BatchReconciles DEF ImportReconciles
<1> QED BY <1>1, AcceptedInit, AcceptedNext, InvariantInit, InvariantNext, PTL DEF Spec

-----------------------------------------------------------------------------
\* What is exported, read again.

\* The separators of an amount: some marks, and another after them.
Marked(s, n, mark, point) == s = Append([i \in 1..n |-> mark], point)

Separated(s, n, mark, point) ==
  /\ Len(s) = n + 1 /\ s[n + 1] = point
  /\ Cardinality({i \in DOMAIN s : s[i] = mark}) = n
  /\ Cardinality({i \in DOMAIN s : s[i] = point}) = 1

LEMMA MarksAndPoint ==
  ASSUME NEW n \in Nat, NEW mark, NEW point, mark # point, NEW s, Marked(s, n, mark, point)
  PROVE  Separated(s, n, mark, point)
<1> DEFINE marks == [i \in 1..n |-> mark]
<1>1. marks \in Seq({mark, point}) /\ Len(marks) = n /\ \A i \in 1..n : marks[i] = mark
  OBVIOUS
<1> HIDE DEF marks
<1>2. s = Append(marks, point)
  BY DEF marks, Marked
<1>3. Len(s) = n + 1 /\ DOMAIN s = 1..(n + 1) /\ s[n + 1] = point
  BY <1>1, <1>2
<1>4. \A i \in 1..n : s[i] = mark
  BY <1>1, <1>2
<1>5. {i \in DOMAIN s : s[i] = mark} = 1..n
  BY <1>3, <1>4
<1>6. {i \in DOMAIN s : s[i] = point} = {n + 1}
  BY <1>3, <1>4
<1>7. Cardinality(1..n) = n
  BY FS_Interval
<1>8. Cardinality({n + 1}) = 1
  BY FS_Singleton
<1> QED BY <1>3, <1>5, <1>6, <1>7, <1>8 DEF Separated

\* What an export writes of an amount is read as the whole cents of it, unless
\* that is more than the column holds.
LEMMA WrittenIsRead ==
  ASSUME NEW amount \in Int, NEW cents \in Int, cents = Rounds(amount),
         amount < 0 => cents <= 0, amount >= 0 => cents >= 0
  PROVE  ParseAmount(WriteAmount(amount))
           = IF Magnitude(cents) * Cent >= AmountLimit THEN 0 ELSE cents * Cent
<1>0. AmountLimit \in Int
  BY LimitAssumption
<1>1. PICK digits \in Int, commas \in Nat :
        /\ digits = IF cents < 0 THEN -cents ELSE cents
        /\ WriteAmount(amount) = Written(amount < 0, digits, 2, Append([i \in 1..commas |-> "comma"], "point"))
  <2> DEFINE digits == IF cents < 0 THEN -cents ELSE cents
             thousands == CHOOSE f : f = [n \in Nat |-> IF n = 0 THEN digits \div 100 ELSE f[n - 1] \div 1000]
             over == {n \in 1..5 : thousands[n] > 0}
             commas == Cardinality(over)
  <2>1. WriteAmount(amount) = Written(amount < 0, digits, 2, Append([i \in 1..commas |-> "comma"], "point"))
    BY DEF WriteAmount, Grouped
  <2>2. commas \in Nat
    <3>1. IsFiniteSet(1..5)
      <4>1. 1 \in Int /\ 5 \in Int
        OBVIOUS
      <4> QED BY <4>1, FS_Interval, Zenon
    <3>2. over \subseteq 1..5
      OBVIOUS
    <3> HIDE DEF over
    <3> QED BY <3>1, <3>2, FS_Subset, FS_CardinalityType
  <2>3. digits \in Int /\ digits = IF cents < 0 THEN -cents ELSE cents
    OBVIOUS
  <2> HIDE DEF commas, digits
  <2> QED BY <2>1, <2>2, <2>3
<1> DEFINE separators == Append([i \in 1..commas |-> "comma"], "point")
           text == Written(amount < 0, digits, 2, separators)
<1>2. text.separators = separators /\ text.digits = digits /\ text.after = 2
      /\ (text.negative <=> amount < 0)
  BY DEF Written
<1>3. Len(separators) = commas + 1 /\ separators[commas + 1] = "point"
      /\ Cardinality({i \in DOMAIN separators : separators[i] = "comma"}) = commas
      /\ Cardinality({i \in DOMAIN separators : separators[i] = "point"}) = 1
  <2>1. "comma" # "point"
    OBVIOUS
  <2> HIDE DEF separators
  <2>2. Marked(separators, commas, "comma", "point")
    BY DEF separators, Marked
  <2>3. Separated(separators, commas, "comma", "point")
    BY <2>1, <2>2, MarksAndPoint
  <2> QED BY <2>3 DEF Separated
<1> HIDE DEF text, separators
<1>4. Count("comma", text) = commas /\ Count("point", text) = 1
  BY <1>2, <1>3 DEF Count
<1>5. Last(text.separators) = "point" /\ Len(text.separators) = commas + 1
  BY <1>2, <1>3 DEF Last
<1>6. Unit(2) = 100
  BY DEF Unit
<1>7. ParseAmount(text) = IF digits * 100 >= AmountLimit THEN 0
                          ELSE IF amount < 0 THEN -(digits * 100) ELSE digits * 100
  <2> DEFINE mixed == Count("comma", text) > 0 /\ Count("point", text) > 0
             point == IF mixed THEN Last(text.separators) ELSE "point"
             points == IF mixed THEN Count(point, text) ELSE Len(text.separators)
             decimals == IF points = 0 THEN 0 ELSE text.after
  <2>1. points = 1
    <3>1. CASE commas > 0
      <4>1. mixed
        BY <1>4, <3>1
      <4>2. point = "point"
        BY <1>5, <4>1
      <4> HIDE DEF mixed, point
      <4> QED BY <1>4, <4>1, <4>2
    <3>2. CASE ~(commas > 0)
      <4>1. ~mixed /\ commas = 0
        BY <1>4, <3>2
      <4> HIDE DEF mixed
      <4> QED BY <1>5, <4>1
    <3> QED BY <3>1, <3>2
  <2>2. decimals = 2
    BY <1>2, <2>1
  <2>3. ParseAmount(text) = IF \/ points > 1 \/ decimals > 4
                               \/ text.digits * Unit(decimals) >= AmountLimit THEN 0
                            ELSE IF text.negative THEN -(text.digits * Unit(decimals))
                            ELSE text.digits * Unit(decimals)
    BY DEF ParseAmount
  <2> HIDE DEF points, decimals
  <2> QED BY <1>2, <1>6, <2>1, <2>2, <2>3
<1>8. WriteAmount(amount) = text
  BY <1>1 DEF text, separators
<1>9. digits = Magnitude(cents)
  BY <1>1 DEF Magnitude
<1>10. ParseAmount(WriteAmount(amount)) = IF digits * 100 >= AmountLimit THEN 0 ELSE cents * 100
  <2>1. CASE amount < 0
    <3>1. cents <= 0 /\ digits = -cents
      BY <1>1, <2>1
    <3> QED BY <1>7, <1>8, <2>1, <3>1
  <2>2. CASE ~(amount < 0)
    <3>1. digits = cents
      BY <1>1, <2>2
    <3> QED BY <1>7, <1>8, <2>2, <3>1
  <2> QED BY <2>1, <2>2
<1> QED BY <1>9, <1>10 DEF Cent

\* Rounding to cents: to the nearest, and to nothing on the other side of zero.
LEMMA CentsRound ==
  ASSUME NEW amount \in Int
  PROVE  /\ Rounds(amount) \in Int
         /\ amount < 0 => Rounds(amount) <= 0
         /\ amount >= 0 => Rounds(amount) >= 0
         /\ 2 * Magnitude(Rounds(amount) * Cent - amount) <= Cent
         /\ amount % Cent = 0 => Rounds(amount) * Cent = amount
<1>1. PICK q \in Int, r \in Int :
        q = amount \div 100 /\ r = amount % 100 /\ amount = 100 * q + r /\ r >= 0 /\ r < 100
  OBVIOUS
<1>2. Rounds(amount) = IF 2 * r > 100 \/ (2 * r = 100 /\ q % 2 = 1) THEN q + 1 ELSE q
  BY <1>1 DEF Rounds, RoundDiv, Cent
<1>3. PICK cents \in Int : cents = Rounds(amount) /\ ((cents = q /\ 2 * r <= 100) \/ (cents = q + 1 /\ 2 * r >= 100))
  BY <1>1, <1>2
<1>4. amount < 0 => cents <= 0
  BY <1>1, <1>3
<1>5. amount >= 0 => cents >= 0
  BY <1>1, <1>3
<1>6. 2 * Magnitude(cents * 100 - amount) <= 100
  BY <1>1, <1>3 DEF Magnitude
<1>7. r = 0 => cents * 100 = amount
  BY <1>1, <1>3
<1> QED BY <1>1, <1>3, <1>4, <1>5, <1>6, <1>7 DEF Cent

\* What was read has a day, a description of 255 characters at most, and the
\* type that description and amount tell.
Dated(row) ==
  /\ row.day # 0 /\ row.description # "overlong"
  /\ row.type = TransactionType(row.description, row.amount)

LEMMA DescribedFits == ASSUME NEW texts PROVE Described(texts) # "overlong"
<1> DEFINE kept == {i \in DOMAIN texts : \A j \in 1..i - 1 : texts[j] \notin {"formula", "overlong"}}
           words == {texts[i] : i \in kept} \ {""}
           formula == \E i \in DOMAIN texts :
                        texts[i] = "formula" /\ \A j \in 1..i - 1 : texts[j] = ""
<1>1. Described(texts) = IF words = {} THEN ""
                         ELSE IF formula THEN "formula"
                         ELSE IF "interest" \in words THEN "interest"
                         ELSE IF "tax" \in words THEN "tax"
                         ELSE IF "fee" \in words THEN "fee" ELSE "other"
  BY DEF Described
<1> HIDE DEF words, formula
<1> QED BY <1>1

LEMMA RowsDated ==
  ASSUME NEW f, NEW i \in DOMAIN Parse(f)
  PROVE  Dated(Parse(f)[i])
<1>1. CASE f.kind = "pdf"
  <2>1. Parse(f) = ParsePdf(f.pages)
    BY <1>1 DEF Parse
  <2>2. ParsePdf(f.pages) # <<>>
    BY <2>1
  <2> DEFINE records == RawRecords(f.pages)
             amounts == [j \in DOMAIN records |-> SignedAmount(records, Opening(f.pages), j)]
  <2>3. ParsePdf(f.pages) = [j \in DOMAIN records |->
              ImportedRow(records[j].line.day, Description(records[j]), amounts[j],
                          records[j].line.currency, records[j].reference)]
        /\ \A j \in DOMAIN records : records[j].line.day # 0
    BY <2>2 DEF ParsePdf, Refused
  <2>4. /\ Parse(f)[i] = ImportedRow(records[i].line.day, Description(records[i]), amounts[i],
                                     records[i].line.currency, records[i].reference)
        /\ records[i].line.day # 0
    <3> HIDE DEF records, amounts
    <3> QED BY <2>1, <2>3
  <2> HIDE DEF records, amounts
  <2>5. Description(records[i]) # "overlong"
    BY DescribedFits DEF Description
  <2> QED BY <2>4, <2>5 DEF ImportedRow, Dated
<1>2. CASE f.kind # "pdf"
  <2>1. Parse(f) = ParseCsv(f.rows)
    BY <1>2 DEF Parse
  <2>2. ParseCsv(f.rows) # <<>>
    BY <2>1
  <2>3. /\ \A j \in DOMAIN f.rows : CsvRowOk(f.rows[j])
        /\ ParseCsv(f.rows) = [j \in DOMAIN f.rows |->
              ImportedRow(f.rows[j].day, f.rows[j].description, ParseAmount(f.rows[j].amount),
                          NoCurrency, NoReference)]
    BY <2>2 DEF ParseCsv, Refused
  <2>4. i \in DOMAIN f.rows /\ CsvRowOk(f.rows[i])
        /\ Parse(f)[i] = ImportedRow(f.rows[i].day, f.rows[i].description,
                                     ParseAmount(f.rows[i].amount), NoCurrency, NoReference)
    BY <2>1, <2>3
  <2>5. f.rows[i].day # 0 /\ f.rows[i].description # "overlong"
    BY <2>4 DEF CsvRowOk
  <2>6. ASSUME NEW day, NEW description, NEW amount, day # 0, description # "overlong"
        PROVE  Dated(ImportedRow(day, description, amount, NoCurrency, NoReference))
    BY <2>6 DEF ImportedRow, Dated
  <2> QED BY <2>4, <2>5, <2>6
<1> QED BY <1>1, <1>2

LEMMA EntriesDated ==
  ASSUME IInv, NEW e \in entries
  PROVE  Dated(e) /\ e.amount \in Int /\ e.id \in Nat /\ e.day \in Nat
<1>1. e \in PostedRow
  BY DEF IInv, Typed
<1>2. PICK w \in Workers : w = e.batch
  BY <1>1 DEF PostedRow
<1>3. e \in BatchOf(w)
  BY <1>2 DEF BatchOf
<1>4. PICK s \in Seq(PostedRow) : PostedAs(w, s)
  BY <1>3 DEF IInv, PostedOnce
<1>5. PICK i \in DOMAIN s : e = s[i]
  BY <1>3, <1>4 DEF PostedAs, Range
<1>6. Parse(file) \in Seq(ParsedRow)
  BY FilesAssumption DEF IInv, Typed
<1>7. i \in DOMAIN Parse(file) /\ Records(e, Parse(file)[i])
  BY <1>4, <1>5, <1>6 DEF PostedAs
<1>8. Dated(Parse(file)[i])
  BY <1>7, RowsDated
<1> QED BY <1>1, <1>7, <1>8 DEF Records, Dated, PostedRow

-----------------------------------------------------------------------------
\* In a strict total order on a finite set every element has its own place, and
\* there is one at every place.
Rank(less, S, x) == Cardinality({y \in S : <<y, x>> \in less}) + 1

LEMMA RanksDiffer ==
  ASSUME NEW S, IsFiniteSet(S), NEW less, Orders(less, S), NEW x \in S, NEW y \in S, <<x, y>> \in less
  PROVE  Rank(less, S, x) < Rank(less, S, y)
<1> DEFINE below(z) == {u \in S : <<u, z>> \in less}
<1>1. below(x) \cup {x} \subseteq below(y) /\ x \notin below(x)
  BY DEF Orders
<1>2. IsFiniteSet(below(x)) /\ IsFiniteSet(below(y))
  <2>1. below(x) \subseteq S /\ below(y) \subseteq S
    OBVIOUS
  <2> HIDE DEF below
  <2> QED BY <2>1, FS_Subset
<1> HIDE DEF below
<1>3. Cardinality(below(x) \cup {x}) = Cardinality(below(x)) + 1
  BY <1>1, <1>2, FS_AddElement
<1>4. Cardinality(below(x) \cup {x}) <= Cardinality(below(y))
  BY <1>1, <1>2, FS_Subset
<1>5. Cardinality(below(x)) \in Nat /\ Cardinality(below(y)) \in Nat
  BY <1>2, FS_CardinalityType
<1> QED BY <1>3, <1>4, <1>5 DEF Rank, below

LEMMA RanksFill ==
  ASSUME NEW S, IsFiniteSet(S), NEW less, Orders(less, S)
  PROVE  /\ \A x \in S : Rank(less, S, x) \in 1..Cardinality(S)
         /\ \A x, y \in S : Rank(less, S, x) = Rank(less, S, y) => x = y
         /\ \A n \in 1..Cardinality(S) : \E x \in S : Rank(less, S, x) = n
<1>1. PICK total \in Nat : total = Cardinality(S)
  BY FS_CardinalityType
<1>2. ASSUME NEW x \in S
      PROVE  Rank(less, S, x) \in 1..total
  <2> DEFINE below == {u \in S : <<u, x>> \in less}
  <2>1. below \subseteq S \ {x}
    BY DEF Orders
  <2>2. IsFiniteSet(S \ {x}) /\ Cardinality(S \ {x}) = total - 1
    BY <1>1, FS_RemoveElement
  <2>3. Rank(less, S, x) = Cardinality(below) + 1
    BY DEF Rank
  <2> HIDE DEF below
  <2>4. Cardinality(below) \in Nat /\ Cardinality(below) <= total - 1
    BY <2>1, <2>2, FS_Subset, FS_CardinalityType
  <2> QED BY <2>3, <2>4
<1>3. ASSUME NEW x \in S, NEW y \in S, Rank(less, S, x) = Rank(less, S, y), x # y
      PROVE  FALSE
  <2>1. <<x, y>> \in less \/ <<y, x>> \in less
    BY <1>3 DEF Orders
  <2>2. Rank(less, S, x) \in Int /\ Rank(less, S, y) \in Int
    BY <1>2
  <2>3. Rank(less, S, x) < Rank(less, S, y) \/ Rank(less, S, y) < Rank(less, S, x)
    BY <2>1, RanksDiffer
  <2> QED BY <1>3, <2>2, <2>3
<1> DEFINE rank == [x \in S |-> Rank(less, S, x)]
<1>4. rank \in Injection(S, 1..total)
  BY <1>2, <1>3 DEF Injection, IsInjective
<1>5. IsFiniteSet(1..total) /\ Cardinality(1..total) = total
  BY FS_Interval
<1>6. rank \in Surjection(S, 1..total)
  <2> HIDE DEF rank
  <2> QED BY <1>1, <1>4, <1>5, FS_Injection
<1>7. \A n \in 1..total : \E x \in S : rank[x] = n
  <2> HIDE DEF rank
  <2> QED BY <1>6 DEF Surjection
<1> QED BY <1>1, <1>2, <1>3, <1>7

\* The export lists every entry at its place, and an entry at every place.
LEMMA PlacesFill ==
  ASSUME IInv, IdsApart
  PROVE  /\ \A e \in entries : /\ Place(entries, e) \in 1..Cardinality(entries)
                               /\ LatestFirst(entries)[Place(entries, e)] = e
         /\ \A n \in 1..Cardinality(entries) : \E e \in entries : Place(entries, e) = n
<1> DEFINE less == {p \in entries \X entries : Before(p[1], p[2])}
<1>1. PICK total \in Nat : total = Cardinality(entries)
  BY FS_CardinalityType DEF IInv, Typed
<1>2. IsFiniteSet(entries) /\ \A e \in entries : e.day \in Int /\ e.id \in Int
  BY EntriesDated DEF IInv, Typed
<1>3. \A e, f \in entries : e # f => e.id # f.id
  BY DEF IdsApart
<1>4. \A e, f \in entries : <<e, f>> \in less <=> Before(e, f)
  OBVIOUS
<1>5. Orders(less, entries)
  <2> HIDE DEF less
  <2>1. \A x \in entries : <<x, x>> \notin less
    BY <1>2, <1>4 DEF Before
  <2>2. \A x, y, z \in entries : <<x, y>> \in less /\ <<y, z>> \in less => <<x, z>> \in less
    BY <1>2, <1>4 DEF Before
  <2>3. \A x, y \in entries : x # y => <<x, y>> \in less \/ <<y, x>> \in less
    BY <1>2, <1>3, <1>4 DEF Before
  <2> QED BY <2>1, <2>2, <2>3 DEF Orders
<1>6. \A e \in entries : Place(entries, e) = Rank(less, entries, e)
  <2> SUFFICES ASSUME NEW e \in entries
               PROVE  {f \in entries : Before(f, e)} = {f \in entries : <<f, e>> \in less}
    BY DEF Place, Rank
  <2> QED BY <1>4
<1> HIDE DEF less
<1>7. /\ \A e \in entries : Place(entries, e) \in 1..total
      /\ \A e, f \in entries : Place(entries, e) = Place(entries, f) => e = f
      /\ \A n \in 1..total : \E e \in entries : Place(entries, e) = n
  <2>1. /\ \A e \in entries : Rank(less, entries, e) \in 1..total
        /\ \A e, f \in entries : Rank(less, entries, e) = Rank(less, entries, f) => e = f
        /\ \A n \in 1..total : \E e \in entries : Rank(less, entries, e) = n
    BY <1>1, <1>2, <1>5, RanksFill
  <2> QED BY <1>6, <2>1
<1>8. ASSUME NEW e \in entries
      PROVE  LatestFirst(entries)[Place(entries, e)] = e
  <2>1. (CHOOSE f \in entries : Place(entries, f) = Place(entries, e)) = e
    BY <1>7
  <2>2. Place(entries, e) \in 1..Cardinality(entries)
    BY <1>1, <1>7
  <2>3. LatestFirst(entries)[Place(entries, e)]
          = CHOOSE f \in entries : Place(entries, f) = Place(entries, e)
    BY <2>2 DEF LatestFirst
  <2> QED BY <2>1, <2>3
<1> QED BY <1>1, <1>7, <1>8

\* What an entry of whole cents, or rounded to them, is written and read as.
LEMMA RereadAmount ==
  ASSUME NEW amount \in Int, NEW cents \in Int, cents = Rounds(amount),
         NEW parsed, parsed = ParseAmount(WriteAmount(amount)),
         NEW holds, holds <=> Magnitude(cents) * Cent < AmountLimit
  PROVE  (parsed # 0 <=> cents # 0 /\ holds) /\ (holds => parsed = cents * Cent)
<1>1. parsed = IF Magnitude(cents) * Cent >= AmountLimit THEN 0 ELSE cents * Cent
  <2>1. amount < 0 => cents <= 0
    BY CentsRound
  <2>2. amount >= 0 => cents >= 0
    BY CentsRound
  <2> QED BY <2>1, <2>2, WrittenIsRead
<1>2. PICK size \in Int : size = Magnitude(cents) * Cent
  BY DEF Magnitude, Cent
<1>3. AmountLimit \in Int
  BY LimitAssumption
<1>4. parsed = IF holds THEN cents * Cent ELSE 0
  BY <1>1, <1>2, <1>3
<1>5. cents * Cent # 0 <=> cents # 0
  BY DEF Cent
<1> QED BY <1>4, <1>5

\* A line of an export: what is read from it.
LEMMA ExportedLine ==
  ASSUME IInv, IdsApart, NEW e \in entries, NEW line, line = Export(entries)[Place(entries, e)]
  PROVE  /\ CsvRowOk(line) <=> Rereadable(e)
         /\ Rereadable(e) => /\ line.day = e.day /\ line.description = e.description
                            /\ ParseAmount(line.amount) = Rounds(e.amount) * Cent
<1> DEFINE n == Place(entries, e)
<1>1. n \in 1..Cardinality(entries) /\ LatestFirst(entries)[n] = e
  BY PlacesFill
<1>2. DOMAIN LatestFirst(entries) = 1..Cardinality(entries)
  BY DEF LatestFirst
<1>3. line = CsvRow(e.day, SpreadsheetSafe(e.description), WriteAmount(e.amount))
  <2> HIDE DEF n
  <2>1. line = Export(entries)[n]
    BY DEF n
  <2> QED BY <1>1, <1>2, <2>1 DEF Export
<1>4. Dated(e) /\ e.amount \in Int
  BY EntriesDated
<1> HIDE DEF n
<1>5. PICK cents \in Int : cents = Rounds(e.amount)
  BY <1>4, CentsRound
<1> DEFINE parsed == ParseAmount(WriteAmount(e.amount))
           holds == Magnitude(cents) * Cent < AmountLimit
<1>6. (parsed # 0 <=> cents # 0 /\ holds) /\ (holds => parsed = cents * Cent)
  <2>1. holds <=> Magnitude(cents) * Cent < AmountLimit
    OBVIOUS
  <2> HIDE DEF parsed, holds
  <2>2. parsed = ParseAmount(WriteAmount(e.amount))
    BY DEF parsed
  <2> QED BY <1>4, <1>5, <2>1, <2>2, RereadAmount
<1>7. line.day = e.day /\ line.description = SpreadsheetSafe(e.description)
      /\ ParseAmount(line.amount) = parsed
  BY <1>3 DEF CsvRow
<1>8. Rereadable(e) <=> e.description \notin {"", "formula"} /\ cents # 0 /\ holds
  BY <1>5 DEF Rereadable
<1> HIDE DEF parsed, holds
<1>9. e.description # "formula" => SpreadsheetSafe(e.description) = e.description
  BY DEF SpreadsheetSafe
<1>10. SpreadsheetSafe(e.description) \notin {"", "overlong"} <=> e.description \notin {"", "formula"}
  BY <1>4 DEF SpreadsheetSafe, Dated
<1>11. CsvRowOk(line) <=> Rereadable(e)
  BY <1>4, <1>6, <1>7, <1>8, <1>10 DEF CsvRowOk, Dated
<1> QED BY <1>5, <1>6, <1>7, <1>8, <1>9, <1>11

LEMMA ExportReads ==
  ASSUME IInv, IdsApart, entries # {}, NEW rows, rows = ParseCsv(Export(entries))
  PROVE  IF \E e \in entries : ~Rereadable(e)
         THEN rows = Refused
         ELSE /\ Len(rows) = Cardinality(entries)
              /\ \A e \in entries :
                   LET row == rows[Place(entries, e)]
                   IN  /\ row.day = e.day /\ row.type = e.type
                       /\ 2 * Magnitude(row.amount - e.amount) <= Cent
                       /\ e.amount % Cent = 0 => row.amount = e.amount
<1> DEFINE lines == Export(entries)
<1>1. PICK total \in Nat : total = Cardinality(entries)
  BY FS_CardinalityType DEF IInv, Typed
<1>2. DOMAIN lines = 1..total
  BY <1>1 DEF Export, LatestFirst
<1>3. ASSUME NEW e \in entries
      PROVE  Place(entries, e) \in DOMAIN lines
  BY <1>1, <1>2, PlacesFill
<1>4. lines # <<>>
  <2>1. DOMAIN lines # {}
    BY <1>3
  <2>2. DOMAIN <<>> = {}
    OBVIOUS
  <2> HIDE DEF lines
  <2> QED BY <2>1, <2>2
<1>5. CASE \E e \in entries : ~Rereadable(e)
  <2>1. PICK e \in entries : ~Rereadable(e)
    BY <1>5
  <2>2. ~CsvRowOk(lines[Place(entries, e)])
    BY <2>1, ExportedLine
  <2>3. \E n \in DOMAIN lines : ~CsvRowOk(lines[n])
    BY <1>3, <2>2
  <2> HIDE DEF lines
  <2> QED BY <1>5, <2>3 DEF ParseCsv, lines
<1>6. CASE ~\E e \in entries : ~Rereadable(e)
  <2>1. ASSUME NEW n \in DOMAIN lines
        PROVE  CsvRowOk(lines[n])
    <3>1. PICK e \in entries : Place(entries, e) = n
      BY <1>1, <1>2, PlacesFill
    <3> QED BY <1>6, <3>1, ExportedLine
  <2>2. rows = [n \in DOMAIN lines |->
                  ImportedRow(lines[n].day, lines[n].description, ParseAmount(lines[n].amount),
                              NoCurrency, NoReference)]
    <3>1. rows = ParseCsv(lines)
      OBVIOUS
    <3> HIDE DEF lines
    <3> QED BY <1>4, <2>1, <3>1 DEF ParseCsv
  <2>3. Len(rows) = Cardinality(entries)
    <3> HIDE DEF lines
    <3>1. DOMAIN rows = 1..total
      BY <1>2, <2>2
    <3> QED BY <1>1, <2>2, <3>1
  <2>4. ASSUME NEW e \in entries, NEW row, row = rows[Place(entries, e)]
        PROVE  /\ row.day = e.day /\ row.type = e.type
               /\ 2 * Magnitude(row.amount - e.amount) <= Cent
               /\ e.amount % Cent = 0 => row.amount = e.amount
    <3>1. PICK cents \in Int : cents = Rounds(e.amount)
      BY EntriesDated, CentsRound
    <3>2. e.amount \in Int /\ Dated(e) /\ Rereadable(e)
      BY <1>6, EntriesDated
    <3>3. row = ImportedRow(e.day, e.description, cents * Cent, NoCurrency, NoReference)
      <4> DEFINE line == lines[Place(entries, e)]
      <4>1. line.day = e.day /\ line.description = e.description
            /\ ParseAmount(line.amount) = cents * Cent
        BY <3>1, <3>2, ExportedLine
      <4>2. row = ImportedRow(line.day, line.description, ParseAmount(line.amount), NoCurrency, NoReference)
        <5> HIDE DEF lines
        <5> QED BY <1>3, <2>2, <2>4
      <4> HIDE DEF line
      <4> QED BY <4>1, <4>2
    <3>4. row.day = e.day /\ row.amount = cents * Cent
          /\ row.type = TransactionType(e.description, cents * Cent)
      BY <3>3 DEF ImportedRow
    <3>5. 2 * Magnitude(row.amount - e.amount) <= Cent
      BY <3>1, <3>2, <3>4, CentsRound
    <3>6. e.amount % Cent = 0 => row.amount = e.amount
      BY <3>1, <3>2, <3>4, CentsRound
    <3>7. TransactionType(e.description, cents * Cent) = TransactionType(e.description, e.amount)
      <4>1. cents # 0
        BY <3>1, <3>2 DEF Rereadable
      <4>2. cents * Cent > 0 <=> e.amount > 0
        <5>1. e.amount < 0 => cents <= 0
          BY <3>1, <3>2, CentsRound
        <5>2. e.amount >= 0 => cents >= 0
          BY <3>1, <3>2, CentsRound
        <5>3. e.amount % 100 = 0 => cents * 100 = e.amount
          BY <3>1, <3>2, CentsRound DEF Cent
        <5>4. e.amount = 0 => cents * 100 = 0
          BY <3>2, <5>3
        <5> QED BY <3>1, <3>2, <4>1, <5>1, <5>2, <5>4 DEF Cent
      <4> QED BY <4>2 DEF TransactionType
    <3> QED BY <3>2, <3>4, <3>5, <3>6, <3>7 DEF Dated
  <2> HIDE DEF lines
  <2> QED BY <1>6, <2>3, <2>4
<1> QED BY <1>5, <1>6

\* ledger/exports.py:29-41 against ledger/imports.py:69-88 and 130-134, for any
\* imports: an export is refused exactly if one of its entries cannot be read
\* again; otherwise every entry is read at its place, to the cent.
THEOREM ExportsReadable == Spec => []ExportReadable
<1>1. IInv /\ IdsApart => ExportReadable
  BY ExportReads DEF ExportReadable
<1> QED BY <1>1, IdsApartInit, IdsApartNext, InvariantInit, InvariantNext, PTL DEF Spec
=============================================================================
