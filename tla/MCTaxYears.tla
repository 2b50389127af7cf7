----------------------------- MODULE MCTaxYears -----------------------------
(***************************************************************************)
(* Two tax years that may touch or move, two items, one worker (requests   *)
(* one after the other) or two (requests that interleave).                 *)
(***************************************************************************)
EXTENDS TaxYears, TLC

Symmetry == Permutations(Workers) \cup Permutations(Jurisdictions)
=============================================================================
