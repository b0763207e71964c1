SPECIFICATION HSpec
CONSTANTS
    Descriptions = {x}
    Projects = {p}
    Days = {d1, d2}
    LastClock = 2
    Calls = {c1, c2}
    MaxChanges = 2
    Faults = {"error", "elsewhere"}
    None = None
SYMMETRY Symmetry
\* The bound on changes ends every behaviour.
CHECK_DEADLOCK FALSE
INVARIANTS
    TypeOK
    TimesComplete
    CardShowsEntry
