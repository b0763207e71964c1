---- MODULE MCPaging ----
(***************************************************************************)
(* An instance of Paging for TLC.                                          *)
(***************************************************************************)
EXTENDS Paging, TLC

CONSTANTS OffsetPages, PagePages

\* maxTimeEntryPages and maxPages, scaled down.
MCMaxPages == [l \in Loops |-> IF l = "offset" THEN OffsetPages ELSE PagePages]

Symmetry == Permutations(Items)
====
