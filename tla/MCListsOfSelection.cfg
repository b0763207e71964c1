SPECIFICATION HSpec
CONSTANTS
    Orgs = {o1}
    Weeks = {w1, w2}
    Calls = {c1, c2}
    MaxChanges = 3
    Faults = {}
    None = None
CHECK_DEADLOCK FALSE
INVARIANTS
    ListsOfSelection
