SPECIFICATION Spec
CONSTANTS
    Items = {a, b, c, d, e, f}
    Loops = {"offset", "page"}
    PageSize = 2
    OffsetPages = 2
    PagePages = 3
    MaxPages <- MCMaxPages
    MaxLength = 6
    MaxChanges = 2
SYMMETRY Symmetry
\* A load ends.
CHECK_DEADLOCK FALSE
INVARIANTS
    TypeOK
    LoadComplete
    NothingLost
    NothingTwice
    MissedAtMostOnePerChange
    LoadInvariant
PROPERTY ReadsAtOnce
