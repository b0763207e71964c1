SPECIFICATION HSpec
CONSTANTS
    None = None
    Symbols <- MCSymbols
    MaxLength = 5
    Days = {today, tomorrow}
    Today = today
    Typed <- MCTyped
    Openings <- MCOpenings
    Calls = {c1, c2}
    MaxAsks = 3
    MaxEvents = 2
    Faults = {"error"}
INVARIANTS
    TypeOK
    TimesComplete
    PrefillSubmittable
    AddsInARow
    ParseAgrees
PROPERTIES
    ModeKeptWhileRunning
    SubmitEnds
