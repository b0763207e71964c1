SPECIFICATION Spec
CONSTANTS
    p1 = p1  p2 = p2  p3 = p3
    t1 = t1  t2 = t2
    client = client
    byProject = byProject
    byTask = byTask
    None = None
    Catalogues <- MCCatalogues
    Queries <- MCQueries
    FoundProjects <- MCFoundProjects
    FoundTasks <- MCFoundTasks
    Done <- MCDone
    MaxChanges = 2
INVARIANTS
    TypeOK
    ArrowsReachEveryOption
    ChoiceOffered
PROPERTY FavoritesKept
