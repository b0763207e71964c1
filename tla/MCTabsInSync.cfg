SPECIFICATION HSpec
CONSTANTS
    Tabs = {tab1, tab2}
    Calls = {c1, c2}
    MaxCalls = 3
    Faults = {}
    None = None
SYMMETRY Symmetry
CHECK_DEADLOCK FALSE
INVARIANTS
    TabsInSync
