---- MODULE MCEntryForm ----
(***************************************************************************)
(* An instance of EntryFormHistory for TLC.                                *)
(***************************************************************************)
EXTENDS EntryFormHistory

\* Enough for every form of a text with a time in it.
MCSymbols == {0, 1, 2, 5, 9, Colon, Point}

\* 23:50, an end that leaves no room for the next entry and a start after the end; and a
\* text that is no time yet.
MCTyped == {<<2, 3, Point, 8, 3>>, <<2, 3, Colon>>}

\* Forms made at 9:58 and at 23:07.
MCOpenings == {598, 1387}
====
