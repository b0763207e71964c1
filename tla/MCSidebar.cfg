SPECIFICATION FairHSpec
CONSTANTS
    Orgs = {o1, o2}
    Weeks = {w1, w2}
    Calls = {c1, c2}
    MaxChanges = 3
    Faults = {"error", "connection", "elsewhere"}
    None = None
\* The bound on changes ends every behaviour.
CHECK_DEADLOCK FALSE
INVARIANTS
    TypeOK
    ListsCurrent
PROPERTIES
    LoadingEnds
