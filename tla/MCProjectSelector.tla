---- MODULE MCProjectSelector ----
(***************************************************************************)
(* An instance of ProjectSelector for TLC: no projects, three of them, and *)
(* the same with a task moved and a project archived.                      *)
(***************************************************************************)
EXTENDS ProjectSelector

CONSTANTS p1, p2, p3, t1, t2, client, byProject, byTask

Project(id, c, tasks, archived) == [id |-> id, client |-> c, tasks |-> tasks, archived |-> archived]

MCCatalogues ==
    {<<>>,
     <<Project(p1, client, <<t1>>, FALSE), Project(p2, None, <<t2>>, FALSE), Project(p3, client, <<>>, FALSE)>>,
     <<Project(p1, client, <<t1, t2>>, FALSE), Project(p2, None, <<>>, FALSE), Project(p3, client, <<>>, TRUE)>>}

MCQueries == {byProject, byTask}

MCFoundProjects == byProject :> {p1, p3} @@ byTask :> {}

MCFoundTasks == byProject :> {} @@ byTask :> {t2}

\* Two entries that fit a catalogue, one that fits none.
MCDone == {[project |-> p1, task |-> t1], [project |-> p2, task |-> t2], [project |-> p2, task |-> t1]}
====
