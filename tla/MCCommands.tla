----------------------------- MODULE MCCommands -----------------------------
(***************************************************************************)
(* The new instance has the currencies under other ids than the old one.   *)
(***************************************************************************)
EXTENDS Backup

MCSeeded == {Row("currency", 1, "USD", {}), Row("currency", 2, "EUR", {}), Row("currency", 3, "JPY", {})}
=============================================================================
