SPECIFICATION HSpec
CONSTANTS
    Requests = {r1, r2}
    Tokens = {t1}
    o1 = o1
    o2 = o2
    Orgs = {o1, o2}
    OrgLists <- SmallOrgLists
    Kinds = {"connect", "switch"}
    Faults = {}
    Legacy = FALSE
    None = None
INVARIANTS
    MemberOfSelectedOrg
