SPECIFICATION HSpec
CONSTANTS
    Requests = {r1, r2}
    Tokens = {t1, t2}
    o1 = o1
    o2 = o2
    Orgs = {o1, o2}
    OrgLists <- SmallOrgLists
    Kinds = {"connect", "disconnect", "switch", "entry"}
    Faults = {"kv", "crash"}
    Legacy = TRUE
    None = None
SYMMETRY Symmetry
INVARIANTS
    TypeOK
    SessionInvariant
    SessionCoherent
    AnnouncedTruth
    ResolvedComplete
    ResolvedSnapshot
    SwitchComplete
PROPERTY
    ActsAsRegister
