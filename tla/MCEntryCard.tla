---- MODULE MCEntryCard ----
(***************************************************************************)
(* An instance of EntryCardHistory for TLC.                                *)
(***************************************************************************)
EXTENDS EntryCardHistory, TLC

Symmetry == Permutations(Days) \cup Permutations(Calls)
====
