---- MODULE MCConnection ----
(***************************************************************************)
(* Instances of ConnectionHistory for TLC.                                 *)
(***************************************************************************)
EXTENDS ConnectionInvariant, TLC

CONSTANTS o1, o2

\* An account may be in both organizations or in the second only.  With AllOrgLists
\* it may be in none, in one, or in both in either order.
SmallOrgLists == {<<o1, o2>>, <<o2>>}

AllOrgLists == {<<>>, <<o1>>, <<o2>>, <<o1, o2>>, <<o2, o1>>}

Symmetry == Permutations(Requests) \cup Permutations(Tokens)
====
