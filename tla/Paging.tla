---- MODULE Paging ----
(***************************************************************************)
(* How the plugin server reads a list of Solidtime page by page: the time  *)
(* entries of a period with limit and offset, the projects, clients and    *)
(* tasks of an organization with a page number.  Each page is a request of *)
(* its own, and the list changes between two of them.                      *)
(***************************************************************************)
EXTENDS Naturals, Sequences, FiniteSets

CONSTANTS
    Items,        \* what a list may hold
    Loops,        \* the loops: "offset" and "page", or one of them
    PageSize,     \* items a page
    MaxPages,     \* pages each loop reads at most
    MaxLength,    \* bound: the length of the list
    MaxChanges    \* bound: changes of the list during one load

PagingAssumption ==
    /\ Loops \subseteq {"offset", "page"}
    /\ PageSize \in Nat \ {0}
    /\ MaxPages \in [Loops -> Nat \ {0}]
    /\ MaxLength \in Nat
    /\ MaxChanges \in Nat

ASSUME PagingAssumption

VARIABLES
    list,      \* Solidtime: the list, in its order
    loop,      \* the loop of the load
    pc,        \* "loading", "done" or "failed"
    page,      \* pages read so far
    all,       \* what they held
    before,    \* history: the items of the list when the load began
    added,     \* history: an item was added to the list since
    removed,   \* history: an item was removed from the list since
    changes    \* how often the list changed

vars == <<list, loop, pc, page, all, before, added, removed, changes>>

Positions(s) == 1..Len(s)

Contents(s) == {s[i] : i \in Positions(s)}

\* An item never stands twice in a list of Solidtime.
Distinct(s) == \A i, j \in Positions(s) : s[i] = s[j] => i = j

Init ==
    /\ list \in UNION {[1..n -> Items] : n \in 0..MaxLength}
    /\ Distinct(list)
    /\ loop \in Loops
    /\ pc = "loading"
    /\ page = 0
    /\ all = <<>>
    /\ before = Contents(list)
    /\ added = FALSE /\ removed = FALSE
    /\ changes = 0

----------------------------------------------------------------------------
\* Mutant: the pages are counted from one.
OffsetNext == (page + 1) * PageSize

\* The items Solidtime skips before the page that is asked for.
Offset == page * PageSize

Batch == [i \in 1..(IF Offset + PageSize <= Len(list) THEN PageSize
                    ELSE IF Offset <= Len(list) THEN Len(list) - Offset ELSE 0)
            |-> list[Offset + i]]

\* Mutant: a full page is taken for the last one.
LastBatchFull(batch) ==
    IF loop = "offset" THEN Len(batch) <= PageSize ELSE Offset + PageSize >= Len(list)

\* Mutant: an entry on the next page goes unnoticed.
LastBatchEarly(batch) ==
    IF loop = "offset" THEN Len(batch) < PageSize ELSE Offset + PageSize + 1 >= Len(list)

\* A short page ends the loop over the time entries, a page without a link to the
\* next one the others.
LastBatch(batch) ==
    IF loop = "offset" THEN Len(batch) < PageSize ELSE Offset + PageSize >= Len(list)

\* Mutant: the loop asks for one page too many.
NextPageTooMany ==
    /\ pc = "loading"
    /\ all' = all \o Batch
    /\ page' = page + 1
    /\ pc' = IF LastBatch(Batch) \/ page' > MaxPages[loop] THEN "done" ELSE "loading"
    /\ UNCHANGED <<list, loop, before, added, removed, changes>>

\* Mutant: the first page is asked for twice.
NextPageAgain ==
    /\ pc = "loading"
    /\ all' = IF page = 1 THEN all \o SubSeq(list, 1, PageSize) ELSE all \o Batch
    /\ page' = page + 1
    /\ pc' = IF LastBatch(Batch) \/ page' = MaxPages[loop] THEN "done" ELSE "loading"
    /\ UNCHANGED <<list, loop, before, added, removed, changes>>

NextPage ==
    /\ pc = "loading"
    /\ all' = all \o Batch
    /\ page' = page + 1
    /\ pc' = IF LastBatch(Batch) \/ page' = MaxPages[loop] THEN "done" ELSE "loading"
    /\ UNCHANGED <<list, loop, before, added, removed, changes>>

\* Mutant: an error ends the loop and what was read so far is the list.
PageFailsSilently ==
    /\ pc = "loading"
    /\ pc' = "done"
    /\ UNCHANGED <<list, loop, page, all, before, added, removed, changes>>

\* An error of one page is the error of the load; what was read is dropped.
PageFails ==
    /\ pc = "loading"
    /\ pc' = "failed"
    /\ all' = <<>>
    /\ UNCHANGED <<list, loop, page, before, added, removed, changes>>

----------------------------------------------------------------------------
(* The list changes in Solidtime: other tabs, other users. *)

InsertAt(s, i, x) ==
    [k \in 1..(Len(s) + 1) |-> IF k < i THEN s[k] ELSE IF k = i THEN x ELSE s[k - 1]]

RemoveAt(s, i) == [k \in 1..(Len(s) - 1) |-> IF k < i THEN s[k] ELSE s[k + 1]]

Change == pc = "loading" /\ changes < MaxChanges /\ changes' = changes + 1

Add ==
    /\ Change
    /\ Len(list) < MaxLength
    /\ \E x \in Items \ Contents(list), i \in 1..(Len(list) + 1) : list' = InsertAt(list, i, x)
    /\ added' = TRUE
    /\ UNCHANGED <<loop, pc, page, all, before, removed>>

Remove ==
    /\ Change
    /\ \E i \in Positions(list) : list' = RemoveAt(list, i)
    /\ removed' = TRUE
    /\ UNCHANGED <<loop, pc, page, all, before, added>>

\* A changed start moves an entry within the list.
Move ==
    /\ Change
    /\ \E i, j \in Positions(list) : list' = InsertAt(RemoveAt(list, i), j, list[i])
    /\ added' = TRUE /\ removed' = TRUE
    /\ UNCHANGED <<loop, pc, page, all, before>>

----------------------------------------------------------------------------
Next == NextPage \/ PageFails \/ Add \/ Remove \/ Move

Spec == Init /\ [][Next]_vars

----------------------------------------------------------------------------
(* Every variable keeps its type, and a load asks for no more pages than it may. *)
TypeOK ==
    /\ list \in Seq(Items)
    /\ loop \in Loops
    /\ pc \in {"loading", "done", "failed"}
    /\ page \in 0..MaxPages[loop]
    /\ all \in Seq(Items)
    /\ before \subseteq Items
    /\ added \in BOOLEAN /\ removed \in BOOLEAN
    /\ changes \in Nat

\* The ceiling on a load, and the only way to miss what stands in the list.
Ceiling == MaxPages[loop] * PageSize

\* A list that stays as it is is read as it is, in its order, up to the ceiling: no
\* item is skipped or read twice at the borders of the pages, and a list that ends
\* on such a border is not cut short.
LoadComplete ==
    pc = "done" /\ ~added /\ ~removed =>
        /\ Len(all) = IF Len(list) <= Ceiling THEN Len(list) ELSE Ceiling
        /\ \A i \in Positions(all) : all[i] = list[i]

\* However items are added during the load, what the list held at the start of it is
\* not lost: it can only move on to a later page.
NothingLost ==
    pc = "done" /\ ~removed /\ Len(list) <= Ceiling => before \subseteq Contents(all)

\* However items are removed during the load, none is read twice: they only move to
\* an earlier page.  The list in the sidebar uses the identifiers as keys.
NothingTwice == pc = "done" /\ ~added => Distinct(all)

\* Removals hide entries: those that follow move to a page that was read already.  No
\* change of the list hides more than one.
MissedAtMostOnePerChange ==
    pc = "done" /\ Len(list) <= Ceiling =>
        Cardinality((before \cap Contents(list)) \ Contents(all)) <= changes

----------------------------------------------------------------------------
(* The pages are an implementation of one answer given at the end. *)

\* What a handler has of a load: nothing before it is done.
Result == IF pc = "done" THEN all ELSE <<>>

Abstract == INSTANCE ListRead WITH limit <- Ceiling, state <- pc, answer <- Result

\* However the list changes between two pages, a caller of GetAllTimeEntries or of
\* fetchAllPages cannot tell the loop from a reader that gets one faithful answer, or
\* an error and nothing else.
ReadsAtOnce == Abstract!Spec

----------------------------------------------------------------------------
(* Why they hold: how far the load has come at any moment. *)

\* The positions of the list that the pages to come would read.
Ahead == {i \in Positions(list) : i > Offset}

\* What was read is the list up to the page that comes next.
ReadSoFar ==
    ~added /\ ~removed =>
        /\ Len(all) = IF Offset <= Len(list) THEN Offset ELSE Len(list)
        /\ \A i \in Positions(all) : all[i] = list[i]

KeptOrAhead == ~removed => \A x \in before : x \in Contents(all) \/ \E i \in Ahead : list[i] = x

NotAgain ==
    ~added => Distinct(all) /\ \A i \in Positions(all), j \in Ahead : all[i] # list[j]

\* What the load has passed by: it stood in the list at the start, it stands there still,
\* before the next page, and was on no page that was read.
Missed == {x \in before \cap Contents(list) : x \notin Contents(all) /\ \A i \in Ahead : list[i] # x}

FewMissed == IsFiniteSet(Missed) /\ Cardinality(Missed) <= changes

\* The parts of the four properties that hold at every moment of a load: at its end
\* nothing lies ahead, or the ceiling is reached.
LoadInvariant ==
    /\ Distinct(list)
    /\ pc = "loading" => page < MaxPages[loop]
    /\ pc = "done" => Ahead = {} \/ page = MaxPages[loop]
    /\ pc # "failed" => ReadSoFar /\ KeptOrAhead /\ NotAgain /\ FewMissed
====
