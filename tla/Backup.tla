------------------------------- MODULE Backup -------------------------------
(***************************************************************************)
(* manage.py export_data and import_data (core/backup.py).  dumpdata reads *)
(* one table after the other outside any transaction, while the database   *)
(* is in use; loaddata writes the file into another instance, where the    *)
(* start of the container has seeded the currencies.                       *)
(***************************************************************************)
EXTENDS DemoSeed

CONSTANTS
  SeededCurrencies,   \* what docker-entrypoint.sh has seeded in the new instance
  NoRows,             \* no dump has been taken
  MaxWrites           \* bound: commits while a dump is being taken

VARIABLES
  file,     \* the dump: its rows, the table it is at, the commits meanwhile
  copy,     \* the new instance: [rows, drawn]
  restore   \* "idle", "checked", "restored" or "failed"

vars == <<db, drawn, line, file, copy, restore>>

\* The container seeds currencies and nothing else.
ASSUME SeededAssumption == \A r \in SeededCurrencies : r.table = "currency"

\* BACKUP_MODELS, for the tables of this model, in the order dumpdata reads
\* them: grouped by application, the applications as they are first named.
BackupModels ==
  <<"currency", "rate", "user", "institution", "account", "terms", "treatment", "taxyear", "rule",
    "transaction", "entry", "security", "price", "investment">>

FreshInstanceModels == {BackupModels[i] : i \in DOMAIN BackupModels} \ {"currency"}

Closed(rows) == \A r \in rows : r.refs \subseteq {Key(x) : x \in rows}

Init ==
  /\ SeedInit
  /\ file = NoRows
  /\ copy = [rows |-> SeededCurrencies,
             drawn |-> [t \in Tables |-> Cardinality(InTable(SeededCurrencies, t))]]
  /\ restore = "idle"

Exporting == file # NoRows /\ file.at \in DOMAIN BackupModels

\* The database in use; a bound: not any more once the dump is taken.
Use ==
  /\ file = NoRows \/ Exporting
  /\ Seeding \/ \E r \in db : DeletePosting(r)
  /\ IF Exporting
     THEN /\ db' # db /\ file.writes < MaxWrites
          /\ file' = [file EXCEPT !.writes = @ + 1]
     ELSE UNCHANGED file
  /\ UNCHANGED <<copy, restore>>

StartExport ==
  /\ file = NoRows
  /\ file' = [rows |-> {}, at |-> 1, writes |-> 0]
  /\ UNCHANGED <<seedVars, copy, restore>>

\* One table, as committed at that moment.
DumpTable ==
  /\ Exporting
  /\ file' = [file EXCEPT !.rows = @ \cup InTable(db, BackupModels[file.at]), !.at = @ + 1]
  /\ UNCHANGED <<seedVars, copy, restore>>

\* The command refuses an instance with data, before its transaction opens.
CheckFresh ==
  /\ file # NoRows /\ ~Exporting /\ restore = "idle"
  /\ restore' = IF \E r \in copy.rows : r.table \in FreshInstanceModels THEN "failed" ELSE "checked"
  /\ UNCHANGED <<seedVars, file, copy>>

\* Mutant: the id sequences of the new instance are left where they were.
RestoredKeepingSequences == [rows |-> file.rows, drawn |-> copy.drawn]

\* The currencies replaced, the rows of the file in, the sequences reset.
Restored ==
  [rows |-> file.rows,
   drawn |-> [t \in Tables |-> Max({0} \cup {r.id : r \in InTable(file.rows, t)})]]

\* loaddata checks the foreign keys at its end; what fails is rolled back.
Load ==
  /\ restore = "checked"
  /\ IF Closed(Restored.rows)
     THEN restore' = "restored" /\ copy' = Restored
     ELSE restore' = "failed" /\ UNCHANGED copy
  /\ UNCHANGED <<seedVars, file>>

Next == Use \/ StartExport \/ DumpTable \/ CheckFresh \/ Load

Spec == Init /\ [][Next]_vars

-----------------------------------------------------------------------------
\* README.md:70-86 and import_data.py:29-42.  A backup taken while nothing
\* was written restores to the very rows of the database; whatever was
\* written meanwhile, a restored instance has no dangling reference and gives
\* out no id twice.  An instance where the restore failed is as the container
\* left it, and a backup of a database at rest does not fail.
RestoreWhole ==
  /\ restore = "restored" =>
       /\ Closed(copy.rows)
       /\ file.writes = 0 => copy.rows = db
       /\ \A r, x \in copy.rows : Key(r) = Key(x) => r = x
       /\ \A r \in copy.rows : r.id <= copy.drawn[r.table]
  /\ restore = "failed" => copy.rows = SeededCurrencies /\ file.writes > 0
=============================================================================
