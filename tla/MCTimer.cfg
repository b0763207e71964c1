SPECIFICATION HSpec
CONSTANTS
    Tabs = {tab1, tab2}
    Calls = {c1, c2}
    MaxCalls = 5
    Faults = {"solidtime", "socket", "elsewhere"}
    None = None
SYMMETRY Symmetry
\* The bound on requests ends every behaviour.
CHECK_DEADLOCK FALSE
INVARIANTS
    TypeOK
    HealedByOneRequest
