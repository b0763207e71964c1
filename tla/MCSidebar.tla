---- MODULE MCSidebar ----
(***************************************************************************)
(* Instances of SidebarHistory for TLC.                                    *)
(***************************************************************************)
EXTENDS SidebarHistory, TLC

Symmetry == Permutations(Orgs) \cup Permutations(Weeks) \cup Permutations(Calls)
====
