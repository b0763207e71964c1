---- MODULE ProjectSelector ----
(***************************************************************************)
(* The choice of a project and a task: the dropdown of the selector with   *)
(* its search, its favorites and the focus that the arrow keys move, and   *)
(* the completion of the description, which takes the choice from an entry *)
(* that is done already.                                                   *)
(*                                                                         *)
(* The sidebar hands the selector its projects and replaces them while the *)
(* dropdown is open.  Favorites are in localStorage, which every tab       *)
(* writes and no tab watches.  How well a text matches is an outcome of    *)
(* the search (Fuse, or a substring); the highlighted option is the one    *)
(* with the focus.                                                         *)
(***************************************************************************)
EXTENDS SequencesExt

CONSTANTS
    Catalogues,      \* lists of projects the sidebar may hand over
    Queries,         \* texts in the search field
    FoundProjects,   \* the projects each of them finds by name or client
    FoundTasks,      \* the tasks each of them finds
    Done,            \* the project and task of the entries in the list
    MaxChanges,      \* bound: changes elsewhere
    None             \* no client, no text, no task, nothing chosen

Projects == UNION {Range(c) : c \in Catalogues}

Ids == {p.id : p \in Projects}

Pairs(c) == UNION {{[project |-> p.id, task |-> t] : t \in Range(p.tasks)} : p \in Range(c)}

SelectorAssumption ==
    /\ FoundProjects \in [Queries -> SUBSET Ids]
    /\ DOMAIN FoundTasks = Queries
    /\ \A c \in Catalogues : c \in Seq(Range(c))
    /\ \A p \in Projects : p.tasks \in Seq(Range(p.tasks)) /\ None \notin Range(p.tasks)
    /\ \A d \in Done : d = [project |-> d.project, task |-> d.task]
    /\ None \notin Queries \cup Ids
    /\ MaxChanges \in Nat

ASSUME SelectorAssumption

VARIABLES
    catalogue,   \* the projects of the sidebar
    stored,      \* localStorage: the favorites
    favorites,   \* the favorites the selector shows
    open,        \* the dropdown is there
    search,      \* the text in its search field, which outlives it
    expanded,    \* the project whose tasks are shown
    at,          \* the element with the focus
    choice,      \* what the form was given
    offered,     \* history: the pairs of the catalogues so far
    changes      \* how much changed elsewhere

vars == <<catalogue, stored, favorites, open, search, expanded, at, choice, offered, changes>>

Element(kind, p, t) == [kind |-> kind, project |-> p, task |-> t]

SearchField == Element("search", None, None)

Lost == Element("lost", None, None)

Init ==
    /\ catalogue \in Catalogues
    /\ stored \in SUBSET Ids
    /\ favorites = stored
    /\ open = FALSE /\ search = None /\ expanded = None /\ at = Lost
    /\ choice = None
    /\ offered = Pairs(catalogue)
    /\ changes = 0

----------------------------------------------------------------------------
(* What the dropdown shows. *)

Matched(p, text) == text = None \/ p.id \in FoundProjects[text]

\* filter: the elements of a sequence that are in a set, in their order.
Kept(s, S) == FlattenSeq([i \in DOMAIN s |-> IF s[i] \in S THEN <<s[i]>> ELSE <<>>])

\* All tasks of a project that matches itself, else those that match.
TasksOf(p, text) == IF Matched(p, text) THEN p.tasks ELSE Kept(p.tasks, FoundTasks[text])

\* filteredProjects
Filtered(c, text) ==
    Kept(c, {p \in Range(c) : ~p.archived /\ (Matched(p, text) \/ TasksOf(p, text) # <<>>)})

\* Client by client, in the order they come up.
ByClient(projects) ==
    LET first(i) == \A j \in 1 .. i - 1 : projects[j].client # projects[i].client
        group(i) == Kept(projects, {p \in Range(projects) : p.client = projects[i].client})
    IN  FlattenSeq([i \in DOMAIN projects |-> IF first(i) THEN group(i) ELSE <<>>])

FavoritesOf(c, favs) == {p \in Range(c) : p.id \in favs}

\* Mutant: a favorite stays in the group of its client too.
RowsTwice(c, favs, text) == Kept(Filtered(c, text), FavoritesOf(c, favs)) \o ByClient(Filtered(c, text))

\* The rows: favorites first, then the others.
Rows(c, favs, text) ==
    Kept(Filtered(c, text), FavoritesOf(c, favs))
    \o ByClient(Kept(Filtered(c, text), Range(c) \ FavoritesOf(c, favs)))

\* renderProjectRow: the button of a project, and those of its tasks while it is expanded.
Row(p, text, shown) ==
    LET tasks == IF shown = p.id THEN TasksOf(p, text) ELSE <<>>
    IN  <<Element("project", p.id, None)>>
        \o [i \in DOMAIN tasks |-> Element("task", p.id, tasks[i])]

OptionsOf(c, favs, text, shown) ==
    LET rows == Rows(c, favs, text)
    IN  FlattenSeq([i \in DOMAIN rows |-> Row(rows[i], text, shown)])

\* The buttons the arrow keys walk over, from the top.
Options == OptionsOf(catalogue, favorites, search, expanded)

Elements ==
    {SearchField} \cup Range(Options) \cup {Element("star", o.project, None) : o \in Range(Options)}

\* An option, or the row a star is in.
OptionOf(x) == IF x.kind = "star" THEN Element("project", x.project, None) ELSE x

\* handleDropdownKeyDown: step is 1 for the arrow down, -1 for the arrow up.  Beyond the
\* first and the last option is the search field.
Walk(x, step) ==
    IF x = SearchField THEN IF step = 1 /\ Options # <<>> THEN Options[1] ELSE x
    ELSE LET i == SelectInSeq(Options, LAMBDA o : o = OptionOf(x)) + step
         IN  IF i \in DOMAIN Options THEN Options[i] ELSE SearchField

\* React keeps a row while it stays in its group, and makes it anew in another one: the
\* focus in it is lost.  A project keeps its client.
Rendered(c, favs) ==
    LET kept == \E p \in Range(Rows(c, favs, search)) :
                    p.id = at.project /\ at.task \in {None} \cup Range(TasksOf(p, search))
    IN  IF \/ at \in {SearchField, Lost}
           \/ kept /\ (at.project \in favs <=> at.project \in favorites)
        THEN at ELSE Lost

----------------------------------------------------------------------------
(* The user. *)

\* The favorites are read whenever the dropdown opens or closes.
Open ==
    /\ ~open
    /\ open' = TRUE /\ at' = SearchField
    /\ favorites' = stored
    /\ UNCHANGED <<catalogue, stored, search, expanded, choice, offered, changes>>

\* Mutant: a project stays expanded in a dropdown that is closed.
ClosedExpanded == open' = FALSE /\ at' = Lost /\ favorites' = stored /\ UNCHANGED expanded

Closed == open' = FALSE /\ expanded' = None /\ at' = Lost /\ favorites' = stored

\* A click on the trigger or anywhere outside.
Close ==
    /\ open
    /\ Closed
    /\ UNCHANGED <<catalogue, stored, search, choice, offered, changes>>

Shown == UNCHANGED <<catalogue, stored, favorites, open, choice, offered, changes>>

Search ==
    /\ open /\ at = SearchField
    /\ search' \in Queries \cup {None}
    /\ UNCHANGED <<expanded, at>> /\ Shown

\* A tab or a click.
Focus ==
    /\ open
    /\ at' \in Elements
    /\ UNCHANGED <<search, expanded>> /\ Shown

Arrow ==
    /\ open /\ at # Lost
    /\ \E step \in {1, -1} : at' = Walk(at, step)
    /\ UNCHANGED <<search, expanded>> /\ Shown

\* toggleProjectExpanded, by a click or Enter on the row with the focus.
ToggleProject ==
    /\ open /\ at.kind = "project"
    /\ expanded' = IF expanded = at.project THEN None ELSE at.project
    /\ UNCHANGED <<search, at>> /\ Shown

\* pickTask
PickTask ==
    /\ open /\ at.kind = "task"
    /\ choice' = [project |-> at.project, task |-> at.task]
    /\ Closed
    /\ UNCHANGED <<catalogue, stored, search, offered, changes>>

Toggled(favs, p) == IF p \in favs THEN favs \ {p} ELSE favs \cup {p}

\* Mutant: the favorites the tab shows are written back.
ToggleShownFavorite ==
    /\ open /\ at.kind = "star"
    /\ stored' = Toggled(favorites, at.project)
    /\ favorites' = stored'
    /\ at' = Rendered(catalogue, favorites')
    /\ UNCHANGED <<catalogue, open, search, expanded, choice, offered, changes>>

\* toggleFavoriteProjectId acts on what is stored, not on what is shown.
ToggleFavorite ==
    /\ open /\ at.kind = "star"
    /\ stored' = Toggled(stored, at.project)
    /\ favorites' = stored'
    /\ at' = Rendered(catalogue, favorites')
    /\ UNCHANGED <<catalogue, open, search, expanded, choice, offered, changes>>

\* Mutant: the task of an entry is looked up, its project is taken as it is.
ResolvedTask(d) == \E p \in Range(catalogue) : d.task \in Range(p.tasks)

\* autocompleteItems: an entry whose task is in a project of the catalogue, and in the
\* entry's own.
Resolved(d) == \E p \in Range(catalogue) : p.id = d.project /\ d.task \in Range(p.tasks)

\* selectAutocompleteItem
ChooseEntry ==
    /\ ~open
    /\ \E d \in Done : Resolved(d) /\ choice' = d
    /\ UNCHANGED <<catalogue, stored, favorites, open, search, expanded, at, offered, changes>>

----------------------------------------------------------------------------
(* The sidebar, and other tabs. *)

Change == changes < MaxChanges /\ changes' = changes + 1

\* refreshAll: another week's projects, or none while an error is shown.
Reload ==
    /\ Change
    /\ catalogue' \in Catalogues
    /\ at' = Rendered(catalogue', favorites)
    /\ offered' = offered \cup Pairs(catalogue')
    /\ UNCHANGED <<stored, favorites, open, search, expanded, choice>>

ToggleElsewhere ==
    /\ Change
    /\ \E p \in Ids : stored' = Toggled(stored, p)
    /\ UNCHANGED <<catalogue, favorites, open, search, expanded, at, choice, offered>>

----------------------------------------------------------------------------
Next ==
    \/ Open
    \/ Close
    \/ Search
    \/ Focus
    \/ Arrow
    \/ ToggleProject
    \/ PickTask
    \/ ToggleFavorite
    \/ ChooseEntry
    \/ Reload
    \/ ToggleElsewhere

Spec == Init /\ [][Next]_vars

----------------------------------------------------------------------------
\* Every variable keeps its type, and a dropdown that is closed leaves nothing but its
\* search text behind.
TypeOK ==
    /\ catalogue \in Catalogues
    /\ stored \subseteq Ids /\ favorites \subseteq Ids
    /\ open \in BOOLEAN
    /\ search \in Queries \cup {None}
    /\ expanded \in Ids \cup {None}
    /\ IF open THEN at \in Elements \cup {Lost} ELSE at = Lost /\ expanded = None

\* Whatever the search, the favorites and the reloads make of the rows: while the focus is
\* in the dropdown, the arrow down comes to every option, each once, and back to the
\* search field.
ArrowsReachEveryOption ==
    open /\ at # Lost =>
        LET n == Len(Options) + 1
            walked[i \in 0..n] == IF i = 0 THEN at ELSE Walk(walked[i - 1], 1)
        IN  /\ {walked[i] : i \in 1..n} = {SearchField} \cup Range(Options)
            /\ walked[n] = OptionOf(at)

\* The form is given a project and a task of it that the catalogue has had together: never
\* the task of one project under the name of another.
ChoiceOffered == choice # None => choice \in offered

\* A favorite is set or taken back one at a time: no tab undoes what another one did.
FavoritesKept ==
    [][Cardinality((stored \ stored') \cup (stored' \ stored)) <= 1]_vars
====
