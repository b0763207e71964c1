---- MODULE MCTimer ----
(***************************************************************************)
(* Instances of TimerHistory for TLC.                                      *)
(***************************************************************************)
EXTENDS TimerHistory, TLC

Symmetry == Permutations(Tabs) \cup Permutations(Calls)
====
