---- MODULE ListRead ----
(***************************************************************************)
(* What the handlers of the plugin rely on when they read a list that      *)
(* others change meanwhile: there are no pages, the reader waits and gets  *)
(* one answer at one moment.  Faithful says how much of the list an answer *)
(* must hold, depending on what happened to the list while it waited.      *)
(***************************************************************************)
EXTENDS Naturals, Sequences

CONSTANT Items

VARIABLES
    list,      \* the list, in its order
    limit,     \* the most items an answer holds
    before,    \* what the list held when the reader asked
    added,     \* the list grew, or changed its order, since
    removed,   \* the list shrank, or changed its order, since
    state,     \* "loading", "done" or "failed"
    answer     \* empty until it is given

vars == <<list, limit, before, added, removed, state, answer>>

Contents(s) == {s[i] : i \in 1..Len(s)}

Distinct(s) == \A i, j \in 1..Len(s) : s[i] = s[j] => i = j

Init ==
    /\ list \in Seq(Items) /\ Distinct(list)
    /\ limit \in Nat
    /\ before = Contents(list)
    /\ added = FALSE /\ removed = FALSE
    /\ state = "loading"
    /\ answer = <<>>

Change ==
    /\ state = "loading"
    /\ list' \in Seq(Items) /\ Distinct(list')
    /\ \/ Contents(list) \subseteq Contents(list') /\ added' = TRUE /\ removed' = removed
       \/ Contents(list') \subseteq Contents(list) /\ removed' = TRUE /\ added' = added
       \/ added' = TRUE /\ removed' = TRUE
    /\ UNCHANGED <<limit, before, state, answer>>

\* A quiet list is answered as it is; a growing one without a gap; a shrinking one
\* without repetition.
Faithful(s) ==
    /\ ~added /\ ~removed =>
          /\ Len(s) = IF Len(list) <= limit THEN Len(list) ELSE limit
          /\ \A i \in 1..Len(s) : s[i] = list[i]
    /\ ~removed /\ Len(list) <= limit => before \subseteq Contents(s)
    /\ ~added => Distinct(s)

Answer ==
    /\ state = "loading"
    /\ state' = "done"
    /\ answer' \in Seq(Items) /\ Faithful(answer')
    /\ UNCHANGED <<list, limit, before, added, removed>>

\* No part of an answer that failed is given.
Fail ==
    /\ state = "loading"
    /\ state' = "failed"
    /\ UNCHANGED <<list, limit, before, added, removed, answer>>

Next == Change \/ Answer \/ Fail

Spec == Init /\ [][Next]_vars
====
