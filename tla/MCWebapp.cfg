SPECIFICATION FairSpec
CONSTANTS
    Calls = {c1, c2}
    Locales = {en, ru}
    MaxChanges = 3
    Faults = {"socket", "error", "config", "disable"}
    None = None
\* The bound on changes ends every behaviour.
CHECK_DEADLOCK FALSE
INVARIANTS
    TypeOK
    OneButton
PROPERTIES
    DisconnectHeard
