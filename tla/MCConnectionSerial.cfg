SPECIFICATION HFairSpec
CONSTANTS
    Requests = {r1}
    Tokens = {t1, t2}
    o1 = o1
    o2 = o2
    Orgs = {o1, o2}
    OrgLists <- AllOrgLists
    Kinds = {"connect", "disconnect", "status", "organizations", "switch", "entry"}
    Faults = {"kv", "solidtime", "crash", "config"}
    Legacy = TRUE
    None = None
PROPERTIES
    TokenBacked
    RequestsFinish
