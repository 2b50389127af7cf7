--------------------------- MODULE TaxYearsProofs ---------------------------
(***************************************************************************)
(* Proofs about TaxYears.  For any finite set of workers: what a request   *)
(* writes is a row of its table, and the rows it names exist.  For one     *)
(* request at a time: the periods of a jurisdiction stay disjoint, and a   *)
(* filed year is locked, its items too.                                    *)
(***************************************************************************)
EXTENDS TaxYears, TLAPS, FiniteSetTheorems

Lines == YearLines \cup ItemLines \cup {"idle"}

TablesOK ==
  /\ years \in Seq(YearRow)
  /\ items \in Seq(ItemRow)
  /\ \A i \in DOMAIN items : items[i].year \in DOMAIN years

\* A new row is counted before it is written.
RoomLeft ==
  /\ Len(years) + Adding(YearLines) <= MaxYears
  /\ Len(items) + Adding(ItemLines) <= MaxItems

RequestsTyped ==
  /\ pc \in [Workers -> Lines]
  /\ target \in [Workers -> Nat]
  /\ DOMAIN draft = Workers

\* What a request holds; no row is ever deleted, so its keys stay good.
RequestOK(w) ==
  /\ pc[w] \in YearLines => draft[w] \in YearRow /\ target[w] \in {0} \cup DOMAIN years
  /\ pc[w] \in ItemLines => target[w] \in {0} \cup DOMAIN items
  /\ pc[w] \in {"load item", "load archived", "check archived"} => target[w] # 0
  /\ pc[w] \in {"load item", "check archived", "save item"} =>
       draft[w] \in ItemRow /\ draft[w].year \in DOMAIN years
  /\ pc[w] = "idle" => draft[w] = NoRow /\ target[w] = 0

\* The inductive invariant of the types.
Typed == TablesOK /\ RoomLeft /\ RequestsTyped /\ \A w \in Workers : RequestOK(w)

-----------------------------------------------------------------------------
(***************************************************************************)
(* The rows under way, and the requests of the others.                     *)
(***************************************************************************)
Adders(lines) == {w \in Workers : pc[w] \in lines /\ target[w] = 0}

LEMMA AddingIsNat ==
  ASSUME NEW lines
  PROVE  Adding(lines) \in Nat /\ IsFiniteSet(Adders(lines))
BY FS_Subset, FS_CardinalityType, WorkersAssumption DEF Adding, Adders

\* Only w has moved.
Alone(w) ==
  /\ pc' \in [Workers -> Lines] /\ target' \in [Workers -> Nat] /\ DOMAIN draft' = Workers
  /\ \A v \in Workers \ {w} :
       pc'[v] = pc[v] /\ target'[v] = target[v] /\ draft'[v] = draft[v]

\* One step of one request changes the number of new rows under way by what
\* it does itself.
LEMMA AddingMoves ==
  ASSUME NEW lines \in {YearLines, ItemLines}, NEW w \in Workers, Alone(w),
         NEW before, before = (pc[w] \in lines /\ target[w] = 0),
         NEW after, after = (pc'[w] \in lines /\ target'[w] = 0)
  PROVE  /\ Adding(lines)' \in Nat /\ Adding(lines) \in Nat
         /\ Adding(lines)' <= Adding(lines) + 1
         /\ (after => before) => Adding(lines)' <= Adding(lines)
         /\ before /\ ~after => Adding(lines)' = Adding(lines) - 1
<1> DEFINE next == {v \in Workers : pc'[v] \in lines /\ target'[v] = 0}
<1>1. IsFiniteSet(Adders(lines)) /\ IsFiniteSet(next)
  BY AddingIsNat, FS_Subset, WorkersAssumption
<1>2. Adding(lines) = Cardinality(Adders(lines)) /\ Adding(lines)' = Cardinality(next)
  BY DEF Adding, Adders
<1>3. Cardinality(Adders(lines)) \in Nat /\ Cardinality(next) \in Nat
  BY <1>1, FS_CardinalityType
<1>4. CASE after /\ ~before
  <2>1. next = Adders(lines) \cup {w} /\ w \notin Adders(lines)
    BY <1>4 DEF Adders, Alone
  <2>2. Cardinality(next) = Cardinality(Adders(lines)) + 1
    BY <1>1, <2>1, FS_AddElement
  <2> QED
    BY <1>2, <1>3, <1>4, <2>2
<1>5. CASE before /\ ~after
  <2>1. next = Adders(lines) \ {w} /\ w \in Adders(lines)
    BY <1>5 DEF Adders, Alone
  <2>2. Cardinality(next) = Cardinality(Adders(lines)) - 1
    BY <1>1, <2>1, FS_RemoveElement
  <2> QED
    BY <1>2, <1>3, <1>5, <2>2
<1>6. CASE after <=> before
  <2>1. next = Adders(lines)
    BY <1>6 DEF Adders, Alone
  <2> QED
    BY <1>2, <1>3, <1>6, <2>1
<1> QED
  BY <1>4, <1>5, <1>6

TablesGrow == DOMAIN years \subseteq DOMAIN years' /\ DOMAIN items \subseteq DOMAIN items'

LEMMA OthersKeepTheirs ==
  ASSUME NEW w \in Workers, Alone(w), TablesGrow, NEW v \in Workers \ {w}, RequestOK(v)
  PROVE  RequestOK(v)'
BY DEF Alone, TablesGrow, RequestOK

-----------------------------------------------------------------------------
(***************************************************************************)
(* Steps that leave the tables alone.                                      *)
(***************************************************************************)
\* w is about to write a new row, of the years or of the items.
AddsYear(w) == pc[w] \in YearLines /\ target[w] = 0
AddsItem(w) == pc[w] \in ItemLines /\ target[w] = 0

LEMMA TablesRest ==
  ASSUME Typed, NEW w \in Workers, Alone(w), UNCHANGED <<years, items>>, RequestOK(w)',
         AddsYear(w)' => AddsYear(w) \/ Len(years) + Adding(YearLines) < MaxYears,
         AddsItem(w)' => AddsItem(w) \/ Len(items) + Adding(ItemLines) < MaxItems
  PROVE  Typed'
<1>1. TablesOK' /\ TablesGrow
  BY DEF Typed, TablesOK, TablesGrow
<1>2. Len(years) \in Nat /\ Len(items) \in Nat /\ Len(years') = Len(years) /\ Len(items') = Len(items)
  BY DEF Typed, TablesOK
<1>3. Len(years) + Adding(YearLines)' <= MaxYears
  <2>1. /\ Adding(YearLines)' \in Nat /\ Adding(YearLines) \in Nat
        /\ Adding(YearLines)' <= Adding(YearLines) + 1
        /\ (AddsYear(w)' => AddsYear(w)) => Adding(YearLines)' <= Adding(YearLines)
    BY AddingMoves DEF AddsYear
  <2> QED
    BY <1>2, <2>1, BoundAssumption DEF Typed, RoomLeft
<1>4. Len(items) + Adding(ItemLines)' <= MaxItems
  <2>1. /\ Adding(ItemLines)' \in Nat /\ Adding(ItemLines) \in Nat
        /\ Adding(ItemLines)' <= Adding(ItemLines) + 1
        /\ (AddsItem(w)' => AddsItem(w)) => Adding(ItemLines)' <= Adding(ItemLines)
    BY AddingMoves DEF AddsItem
  <2> QED
    BY <1>2, <2>1, BoundAssumption DEF Typed, RoomLeft
<1>5. RoomLeft'
  BY <1>2, <1>3, <1>4 DEF RoomLeft
<1>6. RequestsTyped' /\ \A v \in Workers : RequestOK(v)'
  BY <1>1, OthersKeepTheirs DEF Typed, Alone, RequestsTyped
<1> QED
  BY <1>1, <1>5, <1>6 DEF Typed

\* A request begins at a line of its table with a row that exists or is new.
LEMMA BeginMoves ==
  ASSUME Typed, NEW w \in Workers, NEW line \in Lines, NEW key \in Nat, NEW row, Begin(w, line, key, row)
  PROVE  /\ Alone(w) /\ UNCHANGED <<years, items>>
         /\ pc[w] = "idle" /\ target[w] = 0
         /\ pc'[w] = line /\ target'[w] = key /\ draft'[w] = row
BY DEF Typed, RequestsTyped, RequestOK, Begin, Goto, Alone

LEMMA EndMoves ==
  ASSUME Typed, NEW w \in Workers, End(w)
  PROVE  Alone(w) /\ pc'[w] = "idle" /\ target'[w] = 0 /\ draft'[w] = NoRow
BY DEF Typed, RequestsTyped, End, Goto, Alone, Lines

\* A check sends the request home or on to the next line with what it holds.
LEMMA UnlessMoves ==
  ASSUME Typed, NEW w \in Workers, NEW line \in Lines, NEW refused \in BOOLEAN,
         Unless(refused, w, line)
  PROVE  /\ Alone(w) /\ UNCHANGED <<years, items>>
         /\ \/ refused /\ End(w)
            \/ ~refused /\ pc'[w] = line /\ target'[w] = target[w] /\ draft'[w] = draft[w]
<1>1. CASE refused
  BY <1>1, EndMoves DEF Unless
<1>2. CASE ~refused
  BY <1>2 DEF Typed, RequestsTyped, Unless, Goto, Alone
<1> QED
  BY <1>1, <1>2

\* The checks of a year keep its request a year's.
LEMMA UnlessKeepsTyped ==
  ASSUME Typed, NEW w \in Workers, NEW line \in Lines, NEW refused \in BOOLEAN,
         Unless(refused, w, line),
         \/ pc[w] \in YearLines /\ line \in YearLines
         \/ pc[w] \in {"load item", "check archived"} /\ line = "save item"
  PROVE  Typed'
<1>1. /\ Alone(w) /\ UNCHANGED <<years, items>>
      /\ \/ refused /\ End(w)
         \/ ~refused /\ pc'[w] = line /\ target'[w] = target[w] /\ draft'[w] = draft[w]
  BY UnlessMoves
<1>2. CASE End(w)
  <2>1. pc'[w] = "idle" /\ target'[w] = 0 /\ draft'[w] = NoRow
    BY <1>2, EndMoves
  <2> QED
    BY <1>1, <2>1, TablesRest DEF RequestOK, AddsYear, AddsItem, YearLines, ItemLines
<1>3. CASE pc'[w] = line /\ target'[w] = target[w] /\ draft'[w] = draft[w]
  <2>1. RequestOK(w) /\ RequestOK(w)'
    BY <1>1, <1>3 DEF Typed, RequestOK, YearLines, ItemLines
  <2>2. AddsYear(w)' => AddsYear(w)
    BY <1>3 DEF AddsYear, YearLines, ItemLines
  <2>3. AddsItem(w)' => AddsItem(w)
    BY <1>3 DEF AddsItem, YearLines, ItemLines
  <2> QED
    BY <1>1, <2>1, <2>2, <2>3, TablesRest
<1> QED
  BY <1>1, <1>2, <1>3

LEMMA CreateYearKeepsTyped ==
  ASSUME Typed, NEW w \in Workers, NEW row \in YearRow, CreateYear(w, row)
  PROVE  Typed'
<1>1. /\ Alone(w) /\ UNCHANGED <<years, items>>
      /\ pc'[w] = "form overlap" /\ target'[w] = 0 /\ draft'[w] = row
      /\ Len(years) + Adding(YearLines) < MaxYears
  BY BeginMoves DEF CreateYear, Lines, YearLines
<1> QED
  BY <1>1, TablesRest DEF RequestOK, AddsYear, AddsItem, YearLines, ItemLines

LEMMA EditYearKeepsTyped ==
  ASSUME Typed, NEW w \in Workers, NEW y \in DOMAIN years, NEW row \in YearRow, EditYear(w, y, row)
  PROVE  Typed'
<1>1. y \in Nat \ {0}
  BY DEF Typed, TablesOK
<1>2. /\ Alone(w) /\ UNCHANGED <<years, items>>
      /\ pc'[w] = "form overlap" /\ target'[w] = y /\ draft'[w] = row
  BY <1>1, BeginMoves DEF EditYear, Lines, YearLines
<1> QED
  BY <1>1, <1>2, TablesRest DEF RequestOK, AddsYear, AddsItem, YearLines, ItemLines

LEMMA CreateItemKeepsTyped ==
  ASSUME Typed, NEW w \in Workers, NEW y \in DOMAIN years,
         NEW date \in Days \cup {NoDate}, NEW active \in BOOLEAN, CreateItem(w, y, date, active)
  PROVE  Typed'
<1> DEFINE row == [year |-> y, date |-> date, active |-> active]
<1>1. row \in ItemRow /\ row.year \in DOMAIN years
  <2>1. Len(years) <= MaxYears
    BY AddingIsNat, BoundAssumption DEF Typed, TablesOK, RoomLeft
  <2> QED
    BY <2>1, BoundAssumption DEF Typed, TablesOK, ItemRow
<1>2. /\ Alone(w) /\ UNCHANGED <<years, items>>
      /\ pc'[w] = "save item" /\ target'[w] = 0 /\ draft'[w] = row
      /\ Len(items) + Adding(ItemLines) < MaxItems
  BY BeginMoves DEF CreateItem, Lines, ItemLines
<1> QED
  BY <1>1, <1>2, TablesRest DEF RequestOK, AddsYear, AddsItem, YearLines, ItemLines

LEMMA EditItemKeepsTyped ==
  ASSUME Typed, NEW w \in Workers, NEW i \in DOMAIN items,
         NEW date \in Days \cup {NoDate}, NEW active \in BOOLEAN, EditItem(w, i, date, active)
  PROVE  Typed'
<1> DEFINE row == [year |-> items[i].year, date |-> date, active |-> active]
<1>1. row \in ItemRow /\ row.year \in DOMAIN years /\ i \in Nat \ {0}
  <2>1. items[i] \in ItemRow /\ items[i].year \in DOMAIN years /\ i \in Nat \ {0}
    BY DEF Typed, TablesOK
  <2> QED
    BY <2>1 DEF ItemRow
<1>2. /\ Alone(w) /\ UNCHANGED <<years, items>>
      /\ pc'[w] = "load item" /\ target'[w] = i /\ draft'[w] = row
  BY <1>1, BeginMoves DEF EditItem, Lines, ItemLines
<1> QED
  BY <1>1, <1>2, TablesRest DEF RequestOK, AddsYear, AddsItem, YearLines, ItemLines

LEMMA ArchiveItemKeepsTyped ==
  ASSUME Typed, NEW w \in Workers, NEW i \in DOMAIN items, ArchiveItem(w, i)
  PROVE  Typed'
<1>1. i \in Nat \ {0}
  BY DEF Typed, TablesOK
<1>2. /\ Alone(w) /\ UNCHANGED <<years, items>>
      /\ pc'[w] = "load archived" /\ target'[w] = i /\ draft'[w] = NoRow
  BY <1>1, BeginMoves DEF ArchiveItem, Lines, ItemLines
<1> QED
  BY <1>1, <1>2, TablesRest DEF RequestOK, AddsYear, AddsItem, YearLines, ItemLines

LEMMA LoadArchivedKeepsTyped ==
  ASSUME Typed, NEW w \in Workers, LoadArchived(w)
  PROVE  Typed'
<1>1. target[w] \in DOMAIN items /\ pc[w] = "load archived"
  BY DEF Typed, RequestOK, LoadArchived, ItemLines
<1> DEFINE row == [items[target[w]] EXCEPT !.active = FALSE]
<1>2. row \in ItemRow /\ row.year \in DOMAIN years
  <2>1. items \in Seq(ItemRow) /\ \A i \in DOMAIN items : items[i].year \in DOMAIN years
    BY DEF Typed, TablesOK
  <2>2. PICK i \in DOMAIN items : i = target[w]
    BY <1>1
  <2>3. items[i] \in ItemRow /\ items[i].year \in DOMAIN years
    BY <2>1
  <2> QED
    BY <2>2, <2>3 DEF ItemRow
<1>3. /\ Alone(w) /\ UNCHANGED <<years, items>>
      /\ pc'[w] = "check archived" /\ target'[w] = target[w] /\ draft'[w] = row
  BY DEF Typed, RequestsTyped, LoadArchived, Goto, Alone, Lines, ItemLines
<1>4. RequestOK(w)'
  BY <1>1, <1>2, <1>3 DEF Typed, RequestOK, YearLines, ItemLines
<1> QED
  BY <1>1, <1>3, <1>4, TablesRest DEF AddsYear, AddsItem, YearLines, ItemLines

-----------------------------------------------------------------------------
(***************************************************************************)
(* The two steps that write a table.                                       *)
(***************************************************************************)
\* What storing the draft of w makes of a table.
DraftStored(S, rows, new, w) ==
  /\ new \in Seq(S) /\ DOMAIN rows \subseteq DOMAIN new
  /\ Len(new) = IF target[w] = 0 THEN Len(rows) + 1 ELSE Len(rows)
  /\ \A i \in DOMAIN new : new[i] = IF i \in DOMAIN rows \ {target[w]} THEN rows[i] ELSE draft[w]

LEMMA StoredRows ==
  ASSUME NEW S, NEW rows, rows \in Seq(S), NEW w, draft[w] \in S, target[w] \in {0} \cup DOMAIN rows,
         NEW new, new = Stored(rows, w)
  PROVE  DraftStored(S, rows, new, w)
<1> USE DEF DraftStored
<1>1. CASE target[w] = 0
  <2>1. new = Append(rows, draft[w])
    BY <1>1 DEF Stored
  <2>2. DOMAIN new = 1..Len(rows) + 1 /\ DOMAIN rows = 1..Len(rows)
    BY <2>1
  <2> QED
    BY <1>1, <2>1, <2>2
<1>2. CASE target[w] # 0
  <2>1. new = [rows EXCEPT ![target[w]] = draft[w]] /\ target[w] \in DOMAIN rows
    BY <1>2 DEF Stored
  <2> QED
    BY <1>2, <2>1
<1> QED
  BY <1>1, <1>2

LEMMA SaveYearKeepsTyped ==
  ASSUME Typed, NEW w \in Workers, SaveYear(w)
  PROVE  Typed' /\ TablesGrow
<1>1. /\ pc[w] = "save year" /\ draft[w] \in YearRow /\ target[w] \in {0} \cup DOMAIN years
      /\ years \in Seq(YearRow) /\ years' = Stored(years, w) /\ items' = items
  BY DEF Typed, TablesOK, RequestOK, SaveYear, YearLines
<1>2. /\ years' \in Seq(YearRow) /\ DOMAIN years \subseteq DOMAIN years'
      /\ Len(years') = IF target[w] = 0 THEN Len(years) + 1 ELSE Len(years)
      /\ \A i \in DOMAIN years' :
           years'[i] = IF i \in DOMAIN years \ {target[w]} THEN years[i] ELSE draft[w]
  <2>1. DraftStored(YearRow, years, years', w)
    BY <1>1, StoredRows
  <2> QED
    BY <2>1 DEF DraftStored
<1>3. Alone(w) /\ pc'[w] = "idle" /\ target'[w] = 0 /\ draft'[w] = NoRow
  BY EndMoves DEF SaveYear
<1>4. TablesOK' /\ TablesGrow
  BY <1>1, <1>2 DEF Typed, TablesOK, TablesGrow
<1>5. RequestOK(w)'
  BY <1>3 DEF RequestOK, YearLines, ItemLines
<1>6. RequestsTyped' /\ \A v \in Workers : RequestOK(v)'
  BY <1>3, <1>4, <1>5, OthersKeepTheirs DEF Typed, Alone, RequestsTyped
<1>7. /\ Len(years) \in Nat /\ Len(years) + Adding(YearLines) <= MaxYears
      /\ Len(items) \in Nat /\ Len(items) + Adding(ItemLines) <= MaxItems
  BY DEF Typed, TablesOK, RoomLeft
<1>8. Len(years') + Adding(YearLines)' <= MaxYears
  <2>1. /\ Adding(YearLines)' \in Nat /\ Adding(YearLines) \in Nat
        /\ Adding(YearLines)' <= Adding(YearLines)
        /\ target[w] = 0 => Adding(YearLines)' = Adding(YearLines) - 1
    BY <1>1, <1>3, AddingMoves DEF YearLines
  <2>2. target[w] = 0 \/ target[w] # 0
    OBVIOUS
  <2> QED
    BY <1>2, <1>7, <2>1, <2>2, BoundAssumption
<1>9. Len(items') + Adding(ItemLines)' <= MaxItems
  <2>1. /\ Adding(ItemLines)' \in Nat /\ Adding(ItemLines) \in Nat
        /\ Adding(ItemLines)' <= Adding(ItemLines)
    BY <1>1, <1>3, AddingMoves DEF ItemLines
  <2>2. Len(items') = Len(items)
    BY <1>1
  <2> QED
    BY <1>7, <2>1, <2>2, BoundAssumption
<1> QED
  BY <1>4, <1>6, <1>8, <1>9 DEF Typed, RoomLeft

LEMMA SaveItemKeepsTyped ==
  ASSUME Typed, NEW w \in Workers, SaveItem(w)
  PROVE  Typed' /\ TablesGrow
<1>1. /\ pc[w] = "save item" /\ draft[w] \in ItemRow /\ target[w] \in {0} \cup DOMAIN items
      /\ draft[w].year \in DOMAIN years
      /\ items \in Seq(ItemRow) /\ items' = Stored(items, w) /\ years' = years
  BY DEF Typed, TablesOK, RequestOK, SaveItem, ItemLines
<1>2. /\ items' \in Seq(ItemRow) /\ DOMAIN items \subseteq DOMAIN items'
      /\ Len(items') = IF target[w] = 0 THEN Len(items) + 1 ELSE Len(items)
      /\ \A i \in DOMAIN items' :
           items'[i] = IF i \in DOMAIN items \ {target[w]} THEN items[i] ELSE draft[w]
  <2>1. DraftStored(ItemRow, items, items', w)
    BY <1>1, StoredRows
  <2> QED
    BY <2>1 DEF DraftStored
<1>3. Alone(w) /\ pc'[w] = "idle" /\ target'[w] = 0 /\ draft'[w] = NoRow
  BY EndMoves DEF SaveItem
<1>4. TablesOK' /\ TablesGrow
  BY <1>1, <1>2 DEF Typed, TablesOK, TablesGrow
<1>5. RequestOK(w)'
  BY <1>3 DEF RequestOK, YearLines, ItemLines
<1>6. RequestsTyped' /\ \A v \in Workers : RequestOK(v)'
  BY <1>3, <1>4, <1>5, OthersKeepTheirs DEF Typed, Alone, RequestsTyped
<1>7. /\ Len(years) \in Nat /\ Len(years) + Adding(YearLines) <= MaxYears
      /\ Len(items) \in Nat /\ Len(items) + Adding(ItemLines) <= MaxItems
  BY DEF Typed, TablesOK, RoomLeft
<1>8. Len(years') + Adding(YearLines)' <= MaxYears
  <2>1. /\ Adding(YearLines)' \in Nat /\ Adding(YearLines) \in Nat
        /\ Adding(YearLines)' <= Adding(YearLines)
    BY <1>1, <1>3, AddingMoves DEF YearLines
  <2>2. Len(years') = Len(years)
    BY <1>1
  <2> QED
    BY <1>7, <2>1, <2>2, BoundAssumption
<1>9. Len(items') + Adding(ItemLines)' <= MaxItems
  <2>1. /\ Adding(ItemLines)' \in Nat /\ Adding(ItemLines) \in Nat
        /\ Adding(ItemLines)' <= Adding(ItemLines)
        /\ target[w] = 0 => Adding(ItemLines)' = Adding(ItemLines) - 1
    BY <1>1, <1>3, AddingMoves DEF ItemLines
  <2>2. target[w] = 0 \/ target[w] # 0
    OBVIOUS
  <2> QED
    BY <1>2, <1>7, <2>1, <2>2, BoundAssumption
<1> QED
  BY <1>4, <1>6, <1>8, <1>9 DEF Typed, RoomLeft

-----------------------------------------------------------------------------
LEMMA TypedGivesTypeOK == Typed => TypeOK
<1> SUFFICES ASSUME Typed
             PROVE  TypeOK
  OBVIOUS
<1>1. Len(years) <= MaxYears /\ Len(items) <= MaxItems
  BY AddingIsNat, BoundAssumption DEF Typed, TablesOK, RoomLeft
<1> QED
  BY <1>1 DEF Typed, TablesOK, RequestsTyped, RequestOK, TypeOK, Lines

LEMMA TypedInit == Init => Typed
<1> SUFFICES ASSUME Init
             PROVE  Typed
  OBVIOUS
<1>1. Adders(YearLines) = {} /\ Adders(ItemLines) = {}
  BY DEF Init, Adders, YearLines, ItemLines
<1>2. Adding(YearLines) = 0 /\ Adding(ItemLines) = 0
  BY <1>1, FS_EmptySet DEF Adding, Adders
<1>3. RoomLeft
  BY <1>2, BoundAssumption DEF Init, RoomLeft
<1> QED
  BY <1>3 DEF Init, Typed, TablesOK, RequestsTyped, RequestOK, Lines, YearLines, ItemLines

LEMMA TypedNext == Typed /\ [Next]_vars => Typed'
<1> SUFFICES ASSUME Typed, [Next]_vars
             PROVE  Typed'
  OBVIOUS
<1>1. CASE UNCHANGED vars
  BY <1>1 DEF vars, Typed, TablesOK, RoomLeft, Adding, RequestsTyped, RequestOK
<1>2. ASSUME NEW w \in Workers, CheckOverlap(w)
      PROVE  Typed'
  BY <1>2, UnlessKeepsTyped DEF CheckOverlap, Overlapping, Lines, YearLines
<1>3. ASSUME NEW w \in Workers, CheckFiled(w)
      PROVE  Typed'
  BY <1>3, UnlessKeepsTyped DEF CheckFiled, ChangesFiled, Lines, YearLines
<1>4. ASSUME NEW w \in Workers, LoadItem(w)
      PROVE  Typed'
  BY <1>4, UnlessKeepsTyped DEF LoadItem, Lines, ItemLines
<1>5. ASSUME NEW w \in Workers, CheckArchived(w)
      PROVE  Typed'
  BY <1>5, UnlessKeepsTyped DEF CheckArchived, Filed, Lines, ItemLines
<1>6. ASSUME NEW w \in Workers,
             \/ SaveYear(w) \/ SaveItem(w) \/ LoadArchived(w)
             \/ \E row \in YearRow :
                  CreateYear(w, row) \/ \E y \in DOMAIN years : EditYear(w, y, row)
             \/ \E date \in Days \cup {NoDate}, active \in BOOLEAN :
                  \/ \E y \in DOMAIN years : CreateItem(w, y, date, active)
                  \/ \E i \in DOMAIN items : EditItem(w, i, date, active)
             \/ \E i \in DOMAIN items : ArchiveItem(w, i)
      PROVE  Typed'
  BY <1>6, SaveYearKeepsTyped, SaveItemKeepsTyped, LoadArchivedKeepsTyped, CreateYearKeepsTyped,
     EditYearKeepsTyped, CreateItemKeepsTyped, EditItemKeepsTyped, ArchiveItemKeepsTyped
<1> QED
  BY <1>1, <1>2, <1>3, <1>4, <1>5, <1>6 DEF Next

\* Whatever requests interleave, a request is about to write a row of its
\* table under a key that is new or exists, and no item loses its year.
THEOREM TypeCorrect == Spec => []TypeOK
<1>1. Spec => []Typed
  BY TypedInit, TypedNext, PTL DEF Spec
<1> QED
  BY <1>1, TypedGivesTypeOK, PTL

-----------------------------------------------------------------------------
(***************************************************************************)
(* One request at a time: what a request has checked still holds when it   *)
(* writes.                                                                 *)
(***************************************************************************)
OneAtATime == \A v, w \in Workers : v = w

PeriodsDisjoint ==
  \A y, z \in DOMAIN years : y # z => ~Overlap(years[y], years[z])

Checked(w) ==
  /\ pc[w] \in {"save filed", "save year"} => ~Overlapping(w)
  /\ pc[w] = "save year" => ~ChangesFiled(w)
  /\ pc[w] \in {"load item", "save item"} => ~Filed(years[draft[w].year])
  /\ pc[w] \in {"load item", "check archived", "save item"} /\ target[w] # 0 =>
       items[target[w]].year = draft[w].year

\* The inductive invariant.
IInv == Typed /\ PeriodsDisjoint /\ \A w \in Workers : Checked(w)

\* Only the two saves write a table.
LEMMA WritesAreSaves ==
  ASSUME [Next]_vars
  PROVE  \/ UNCHANGED <<years, items>>
         \/ \E w \in Workers : SaveYear(w) \/ SaveItem(w)
BY DEF Next, vars, CheckOverlap, CheckFiled, LoadItem, LoadArchived, CheckArchived,
       CreateYear, EditYear, CreateItem, EditItem, ArchiveItem, Begin, Unless

LEMMA CheckedInit == Init => IInv
BY TypedInit DEF Init, IInv, PeriodsDisjoint, Checked

\* The same rows and the same draft: a check passed stays passed.
LEMMA CheckedGoesOn ==
  ASSUME Typed, NEW w \in Workers, Checked(w), UNCHANGED <<years, items>>,
         target'[w] = target[w], draft'[w] = draft[w],
         \/ pc'[w] = pc[w]
         \/ pc[w] = "form overlap" /\ pc'[w] = "form filed"
         \/ pc[w] = "form filed" /\ pc'[w] = "save overlap"
         \/ pc[w] = "save overlap" /\ pc'[w] = "save filed" /\ ~Overlapping(w)
         \/ pc[w] = "save filed" /\ pc'[w] = "save year" /\ ~ChangesFiled(w)
         \/ pc[w] = "load item" /\ pc'[w] = "save item"
         \/ pc[w] = "check archived" /\ pc'[w] = "save item" /\ ~Filed(years[draft[w].year])
  PROVE  Checked(w)'
<1>1. ~Overlapping(w) => ~Overlapping(w)'
  BY DEF Overlapping
<1>2. ~ChangesFiled(w) => ~ChangesFiled(w)'
  BY DEF ChangesFiled
<1> QED
  BY <1>1, <1>2 DEF Checked

LEMMA CheckKeepsChecked ==
  ASSUME IInv, NEW w \in Workers,
         CheckOverlap(w) \/ CheckFiled(w) \/ LoadItem(w) \/ CheckArchived(w)
  PROVE  Checked(w)'
<1>1. Typed /\ Checked(w)
  BY DEF IInv
<1>2. CASE pc'[w] = "idle"
  BY <1>2 DEF Checked
<1>3. CASE CheckOverlap(w) /\ pc'[w] # "idle"
  <2>1. \/ pc[w] = "form overlap" /\ Unless(Overlapping(w), w, "form filed")
        \/ pc[w] = "save overlap" /\ Unless(Overlapping(w), w, "save filed")
    BY <1>3 DEF CheckOverlap
  <2>2. ~End(w) /\ Overlapping(w) \in BOOLEAN
    BY <1>1, <1>3, EndMoves DEF Overlapping
  <2> QED
    BY <1>1, <2>1, <2>2, UnlessMoves, CheckedGoesOn DEF Lines, YearLines
<1>4. CASE CheckFiled(w) /\ pc'[w] # "idle"
  <2>1. \/ pc[w] = "form filed" /\ Unless(ChangesFiled(w), w, "save overlap")
        \/ pc[w] = "save filed" /\ Unless(ChangesFiled(w), w, "save year")
    BY <1>4 DEF CheckFiled
  <2>2. ~End(w) /\ ChangesFiled(w) \in BOOLEAN
    BY <1>1, <1>4, EndMoves DEF ChangesFiled
  <2> QED
    BY <1>1, <2>1, <2>2, UnlessMoves, CheckedGoesOn DEF Lines, YearLines
<1>5. CASE LoadItem(w) /\ pc'[w] # "idle"
  <2>1. pc[w] = "load item" /\ Unless(~items[target[w]].active, w, "save item")
    BY <1>5 DEF LoadItem
  <2>2. ~End(w)
    BY <1>1, <1>5, EndMoves
  <2> QED
    BY <1>1, <2>1, <2>2, UnlessMoves, CheckedGoesOn DEF Lines, ItemLines
<1>6. CASE CheckArchived(w) /\ pc'[w] # "idle"
  <2> DEFINE y == years[draft[w].year]
             refused == Filed(y) \/ ~FitsPeriod(draft[w].date, y)
  <2>1. pc[w] = "check archived" /\ Unless(refused, w, "save item")
    BY <1>6 DEF CheckArchived
  <2>2. ~End(w) /\ refused \in BOOLEAN
    BY <1>1, <1>6, EndMoves DEF Filed
  <2>3. /\ UNCHANGED <<years, items>> /\ ~refused
        /\ pc'[w] = "save item" /\ target'[w] = target[w] /\ draft'[w] = draft[w]
    BY <1>1, <2>1, <2>2, UnlessMoves DEF Lines, ItemLines
  <2> QED
    BY <1>1, <2>1, <2>3, CheckedGoesOn
<1> QED
  BY <1>2, <1>3, <1>4, <1>5, <1>6

LEMMA BeginKeepsChecked ==
  ASSUME IInv, NEW w \in Workers,
         \/ \E row \in YearRow :
              CreateYear(w, row) \/ \E y \in DOMAIN years : EditYear(w, y, row)
         \/ \E date \in Days \cup {NoDate}, active \in BOOLEAN :
              \/ \E y \in DOMAIN years : CreateItem(w, y, date, active)
              \/ \E i \in DOMAIN items : EditItem(w, i, date, active)
         \/ \E i \in DOMAIN items : ArchiveItem(w, i)
  PROVE  Checked(w)'
<1>1. Typed /\ DOMAIN items \subseteq Nat /\ DOMAIN years \subseteq Nat
  BY DEF IInv, Typed, TablesOK
<1>2. ASSUME NEW row \in YearRow, CreateYear(w, row)
      PROVE  Checked(w)'
  <2>1. pc'[w] = "form overlap"
    BY <1>1, <1>2, BeginMoves DEF CreateYear, Lines, YearLines
  <2> QED
    BY <2>1 DEF Checked
<1>3. ASSUME NEW row \in YearRow, NEW y \in DOMAIN years, EditYear(w, y, row)
      PROVE  Checked(w)'
  <2>1. pc'[w] = "form overlap"
    BY <1>1, <1>3, BeginMoves DEF EditYear, Lines, YearLines
  <2> QED
    BY <2>1 DEF Checked
<1>4. ASSUME NEW date \in Days \cup {NoDate}, NEW active \in BOOLEAN, NEW y \in DOMAIN years,
             CreateItem(w, y, date, active)
      PROVE  Checked(w)'
  <2>1. /\ UNCHANGED <<years, items>>
        /\ pc'[w] = "save item" /\ target'[w] = 0 /\ ~Filed(years[y])
        /\ draft'[w] = [year |-> y, date |-> date, active |-> active]
    BY <1>1, <1>4, BeginMoves DEF CreateItem, Lines, ItemLines
  <2>2. draft'[w].year = y
    <3>1. ASSUME NEW row, row = [year |-> y, date |-> date, active |-> active]
          PROVE  row.year = y
      BY <3>1
    <3> QED
      BY <2>1, <3>1, Zenon
  <2>3. ~Filed(years'[draft'[w].year])
    BY <2>1, <2>2
  <2> QED
    BY <2>1, <2>3 DEF Checked, Filed
<1>5. ASSUME NEW date \in Days \cup {NoDate}, NEW active \in BOOLEAN, NEW i \in DOMAIN items,
             EditItem(w, i, date, active)
      PROVE  Checked(w)'
  <2>1. /\ UNCHANGED <<years, items>>
        /\ pc'[w] = "load item" /\ target'[w] = i /\ ~Filed(years[items[i].year])
        /\ draft'[w] = [year |-> items[i].year, date |-> date, active |-> active]
    BY <1>1, <1>5, BeginMoves DEF EditItem, Lines, ItemLines
  <2>2. draft'[w].year = items[i].year
    <3>1. ASSUME NEW row, row = [year |-> items[i].year, date |-> date, active |-> active]
          PROVE  row.year = items[i].year
      BY <3>1
    <3> QED
      BY <2>1, <3>1, Zenon
  <2>3. ~Filed(years'[draft'[w].year]) /\ items'[target'[w]].year = draft'[w].year
    BY <2>1, <2>2
  <2> QED
    BY <2>1, <2>3 DEF Checked, Filed
<1>6. ASSUME NEW i \in DOMAIN items, ArchiveItem(w, i)
      PROVE  Checked(w)'
  <2>1. pc'[w] = "load archived"
    BY <1>1, <1>6, BeginMoves DEF ArchiveItem, Lines, ItemLines
  <2> QED
    BY <2>1 DEF Checked
<1> QED
  BY <1>2, <1>3, <1>4, <1>5, <1>6

LEMMA LoadArchivedKeepsChecked ==
  ASSUME IInv, NEW w \in Workers, LoadArchived(w)
  PROVE  Checked(w)'
<1>1. /\ pc'[w] = "check archived" /\ target'[w] = target[w] /\ items' = items
      /\ draft'[w] = [items[target[w]] EXCEPT !.active = FALSE]
  BY DEF IInv, Typed, RequestsTyped, LoadArchived, Goto
<1>2. target[w] \in DOMAIN items /\ pc[w] = "load archived"
  BY DEF IInv, Typed, RequestOK, LoadArchived, ItemLines
<1>3. PICK i \in DOMAIN items : i = target[w]
  BY <1>2
<1>4. items[i] \in ItemRow
  BY DEF IInv, Typed, TablesOK
<1>5. draft'[w].year = items[i].year
  BY <1>1, <1>3, <1>4 DEF ItemRow
<1> QED
  BY <1>1, <1>3, <1>5 DEF Checked

LEMMA SaveKeepsDisjoint ==
  ASSUME IInv, NEW w \in Workers, SaveYear(w)
  PROVE  PeriodsDisjoint'
<1>1. DraftStored(YearRow, years, years', w)
  <2>1. /\ draft[w] \in YearRow /\ target[w] \in {0} \cup DOMAIN years
        /\ years \in Seq(YearRow) /\ years' = Stored(years, w)
    BY DEF IInv, Typed, TablesOK, RequestOK, SaveYear, YearLines
  <2> QED
    BY <2>1, StoredRows
<1>2. \A y \in DOMAIN years \ {target[w]} :
        ~Overlap(years[y], draft[w]) /\ ~Overlap(draft[w], years[y])
  <2>1. ~Overlapping(w)
    BY DEF IInv, Checked, SaveYear
  <2> QED
    BY <2>1 DEF Overlapping, Overlap
<1>3. \A y \in DOMAIN years' \ (DOMAIN years \ {target[w]}) :
        y = IF target[w] = 0 THEN Len(years) + 1 ELSE target[w]
  BY <1>1 DEF DraftStored, IInv, Typed, TablesOK
<1> SUFFICES ASSUME NEW y \in DOMAIN years', NEW z \in DOMAIN years', y # z
             PROVE  ~Overlap(years'[y], years'[z])
  BY DEF PeriodsDisjoint, Overlap
<1>4. CASE y \in DOMAIN years \ {target[w]} /\ z \in DOMAIN years \ {target[w]}
  BY <1>1, <1>4 DEF DraftStored, IInv, PeriodsDisjoint
<1>5. CASE y \in DOMAIN years \ {target[w]} /\ z \notin DOMAIN years \ {target[w]}
  BY <1>1, <1>2, <1>5 DEF DraftStored
<1>6. CASE y \notin DOMAIN years \ {target[w]} /\ z \in DOMAIN years \ {target[w]}
  BY <1>1, <1>2, <1>6 DEF DraftStored
<1>7. CASE y \notin DOMAIN years \ {target[w]} /\ z \notin DOMAIN years \ {target[w]}
  BY <1>3, <1>7
<1> QED
  BY <1>4, <1>5, <1>6, <1>7

LEMMA AloneNext ==
  ASSUME OneAtATime, IInv, [Next]_vars
  PROVE  IInv'
<1>1. Typed'
  BY TypedNext DEF IInv
<1>2. PeriodsDisjoint'
  <2>1. CASE years' = years
    BY <2>1 DEF IInv, PeriodsDisjoint, Overlap
  <2>2. ASSUME NEW w \in Workers, SaveYear(w)
        PROVE  PeriodsDisjoint'
    BY <2>2, SaveKeepsDisjoint
  <2>3. ASSUME NEW w \in Workers, SaveItem(w)
        PROVE  years' = years
    BY <2>3 DEF SaveItem
  <2> QED
    BY <2>1, <2>2, <2>3, WritesAreSaves
<1>3. \A w \in Workers : Checked(w)'
  <2>1. CASE UNCHANGED vars
    BY <2>1, CheckedGoesOn DEF vars, IInv
  <2>2. ASSUME NEW w \in Workers, SaveYear(w) \/ SaveItem(w)
        PROVE  Checked(w)'
    <3>1. pc'[w] = "idle"
      BY <2>2, EndMoves DEF SaveYear, SaveItem, IInv
    <3> QED
      BY <3>1 DEF Checked
  <2>3. ASSUME Next
        PROVE  \E w \in Workers : Checked(w)'
    BY <2>2, <2>3, CheckKeepsChecked, BeginKeepsChecked, LoadArchivedKeepsChecked DEF Next
  <2> QED
    BY <2>1, <2>3 DEF OneAtATime
<1> QED
  BY <1>1, <1>2, <1>3 DEF IInv

LEMMA AloneInvariant ==
  ASSUME OneAtATime
  PROVE  Spec => []IInv
BY CheckedInit, AloneNext, PTL DEF Spec

-----------------------------------------------------------------------------
LEMMA DisjointDays ==
  ASSUME Typed, PeriodsDisjoint
  PROVE  YearsDisjoint
<1> SUFFICES ASSUME NEW y \in DOMAIN years, NEW z \in DOMAIN years, y # z,
                    years[y].jurisdiction = years[z].jurisdiction,
                    NEW d \in Days, years[y].start <= d, d <= years[y].end,
                    years[z].start <= d, d <= years[z].end
             PROVE  FALSE
  BY DEF YearsDisjoint
<1>1. years[y] \in YearRow /\ years[z] \in YearRow
  BY DEF Typed, TablesOK
<1>2. years[y].start \in Int /\ years[y].end \in Int /\ years[z].start \in Int /\ years[z].end \in Int
  BY <1>1, BoundAssumption DEF YearRow, Days
<1>3. d \in Int
  BY BoundAssumption DEF Days
<1>4. years[y].start <= years[z].end /\ years[z].start <= years[y].end
  BY <1>2, <1>3
<1> QED
  BY <1>4 DEF PeriodsDisjoint, Overlap

\* tax/models.py:138: with one request at a time, no two years of a
\* jurisdiction share a day.
THEOREM PeriodsNeverOverlap ==
  ASSUME OneAtATime
  PROVE  Spec => []YearsDisjoint
<1>1. IInv => YearsDisjoint
  BY DisjointDays DEF IInv
<1> QED
  BY <1>1, AloneInvariant, PTL

LEMMA FiledRowKept ==
  ASSUME IInv, [Next]_vars, NEW y \in DOMAIN years, years[y].status = "FILED"
  PROVE  years'[y] = years[y]
<1>1. ASSUME NEW w \in Workers, SaveYear(w)
      PROVE  years'[y] = years[y]
  <2>1. DraftStored(YearRow, years, years', w)
    <3>1. /\ draft[w] \in YearRow /\ target[w] \in {0} \cup DOMAIN years
          /\ years \in Seq(YearRow) /\ years' = Stored(years, w)
      BY <1>1 DEF IInv, Typed, TablesOK, RequestOK, SaveYear, YearLines
    <3> QED
      BY <3>1, StoredRows
  <2>2. ~ChangesFiled(w)
    BY <1>1 DEF IInv, Checked, SaveYear
  <2>3. y = target[w] => draft[w] = years[y]
    <3>1. y # 0
      BY DEF IInv, Typed, TablesOK
    <3> QED
      BY <2>2, <3>1 DEF ChangesFiled, Filed
  <2> QED
    BY <2>1, <2>3 DEF DraftStored
<1> QED
  BY <1>1, WritesAreSaves DEF SaveItem

\* README.md:178-179: with one request at a time the row of a filed year never
\* changes again.
THEOREM FiledYearsStay ==
  ASSUME OneAtATime
  PROVE  Spec => FiledYearLocked
<1>1. IInv /\ [Next]_vars =>
        [\A y \in DOMAIN years : years[y].status = "FILED" => years'[y] = years[y]]_vars
  BY FiledRowKept
<1> QED
  BY <1>1, AloneInvariant, PTL DEF Spec, FiledYearLocked

\* What an item request writes belongs to an unfiled year, before and after.
LEMMA FiledItemsKept ==
  ASSUME IInv, [Next]_vars, NEW y \in DOMAIN years, years[y].status = "FILED"
  PROVE  /\ ItemsOf(y)' = ItemsOf(y)
         /\ \A i \in ItemsOf(y) : items'[i] = items[i]
<1>1. CASE items' = items
  BY <1>1 DEF ItemsOf
<1>2. ASSUME NEW w \in Workers, SaveItem(w)
      PROVE  /\ ItemsOf(y)' = ItemsOf(y)
             /\ \A i \in ItemsOf(y) : items'[i] = items[i]
  <2>1. DraftStored(ItemRow, items, items', w)
    <3>1. /\ draft[w] \in ItemRow /\ target[w] \in {0} \cup DOMAIN items
          /\ items \in Seq(ItemRow) /\ items' = Stored(items, w)
      BY <1>2 DEF IInv, Typed, TablesOK, RequestOK, SaveItem, ItemLines
    <3> QED
      BY <3>1, StoredRows
  <2>2. draft[w].year # y
    BY <1>2 DEF IInv, Checked, SaveItem, Filed
  <2>3. \A i \in DOMAIN items : i = target[w] => items[i].year # y
    <3>1. \A i \in DOMAIN items : i # 0
      BY DEF IInv, Typed, TablesOK
    <3> QED
      BY <1>2, <2>2, <3>1 DEF IInv, Checked, SaveItem
  <2>4. \A i \in DOMAIN items' : items'[i].year = y <=> i \in DOMAIN items /\ items[i].year = y
    BY <2>1, <2>2, <2>3 DEF DraftStored
  <2>5. DOMAIN items \subseteq DOMAIN items'
    BY <2>1 DEF DraftStored
  <2>6. ItemsOf(y)' = ItemsOf(y)
    BY <2>4, <2>5 DEF ItemsOf
  <2>7. \A i \in ItemsOf(y) : items'[i] = items[i]
    BY <2>1, <2>3, <2>5 DEF DraftStored, ItemsOf
  <2> QED
    BY <2>6, <2>7
<1>3. ASSUME NEW w \in Workers, SaveYear(w)
      PROVE  items' = items
  BY <1>3 DEF SaveYear
<1> QED
  BY <1>1, <1>2, <1>3, WritesAreSaves

\* README.md:178-179, for the items: with one request at a time no deduction,
\* allowance, adjustment or rule of a filed year comes, goes or changes.
THEOREM FiledItemsStay ==
  ASSUME OneAtATime
  PROVE  Spec => FiledItemsLocked
<1>1. IInv /\ [Next]_vars =>
        [\A y \in DOMAIN years : years[y].status = "FILED" =>
           /\ ItemsOf(y)' = ItemsOf(y)
           /\ \A i \in ItemsOf(y) : items'[i] = items[i]]_vars
  BY FiledItemsKept
<1> QED
  BY <1>1, AloneInvariant, PTL DEF Spec, FiledItemsLocked
=============================================================================
