---- MODULE ConnectionInvariant ----
(***************************************************************************)
(* The inductive invariant behind the session properties of                *)
(* ConnectionHistory: what each point of a request's code may rely on.     *)
(***************************************************************************)
EXTENDS ConnectionHistory

ConnectSteps == {"fetch", "prev_org", "save_list", "set_token"}

DeleteSteps == {"del_token", "del_org", "del_member", "del_list"}

RefreshSteps == {"get_list", "refresh_token", "refresh_fetch", "refresh_save"}

\* Steps of the middleware, and those that follow the read of the token.
SessionSteps == {"get_token", "get_org", "get_member", "call"} \cup RefreshSteps

PairSteps == {"set_org", "set_member"}

\* Where the writes of a request may have begun and not ended.
WriteSteps == PairSteps \cup {"set_token", "announce", "del_org", "del_member", "del_list"}

\* Which kind of request is at which step.
KindOfStep(q) ==
    /\ q.pc = "idle" => q.kind = None
    /\ q.pc \in ConnectSteps => q.kind = "connect"
    /\ q.pc \in DeleteSteps => q.kind = "disconnect"
    /\ q.pc \in SessionSteps => q.kind \in SessionKinds
    /\ q.pc \in PairSteps => q.kind \in SessionKinds \cup {"connect"}
    /\ q.pc = "announce" => \/ q.kind \in {"connect", "disconnect"}
                            \/ q.kind = "switch" /\ q.resolved
    /\ q.resolved => /\ q.pc \in RefreshSteps \cup PairSteps \cup {"announce", "call"}
                     /\ q.kind \in {"organizations", "switch", "entry"}
                     /\ q.pc \in PairSteps => q.kind = "switch"
    /\ q.pc = "call" => q.resolved

\* What the local variables of a request hold at each step.
LocalsOfStep(q) ==
    /\ q.kind = "connect" => q.token # None
    /\ q.kind \in SessionKinds /\ q.pc # "get_token" => q.token # None
    /\ q.pc \in {"prev_org", "save_list"} =>
          q.list # <<>> /\ \A m \in Entries(q.list) : m.account = q.token
    /\ q.pc = "refresh_fetch" => q.fresh # None
    /\ q.pc = "refresh_save" =>
          q.list # <<>> /\ \A m \in Entries(q.list) : m.account = q.fresh
    /\ (q.pc \in PairSteps \cup {"save_list", "set_token"}
           \/ (q.pc = "announce" /\ q.kind # "disconnect")) =>
          /\ q.member \in Members
          /\ q.org = q.member.org
          /\ q.kind = "connect" => q.member.account = q.token
          /\ q.resolved => q.org = q.target
    /\ q.pc = "call" => q.org # None /\ q.member # None

\* What the store holds when no other request changed it since q arrived.
StoreAgrees(q) ==
    /\ q.kind \in SessionKinds /\ q.pc # "get_token" => token = q.token
    /\ q.pc \in {"get_member", "set_member"} => orgID = q.org
    /\ q.pc \in RefreshSteps => orgID = q.org /\ memberID = q.member
    /\ q.pc \in {"refresh_token", "refresh_fetch", "refresh_save"} => memberships = <<>>
    /\ q.pc \in {"refresh_fetch", "refresh_save"} => q.fresh = token
    /\ q.pc \in PairSteps /\ q.kind # "connect" => q.member \in Entries(memberships)
    /\ q.pc = "call" \/ (q.pc = "announce" /\ q.kind = "switch") =>
          orgID = q.org /\ memberID = q.member
    /\ q.kind = "connect" /\ q.pc \in WriteSteps =>
          memberships # <<>> /\ \A m \in Entries(memberships) : m.account = q.token
    /\ q.kind = "connect" /\ q.pc \in {"set_token", "announce"} =>
          orgID = q.org /\ memberID = q.member
    /\ q.kind = "connect" /\ q.pc = "announce" => token = q.token
    /\ q.kind = "disconnect" /\ q.pc # "del_token" => token = None
    /\ q.kind = "disconnect" /\ q.pc \in {"del_member", "del_list", "announce"} => orgID = None
    /\ q.kind = "disconnect" /\ q.pc \in {"del_list", "announce"} => memberID = None
    /\ q.kind = "disconnect" /\ q.pc = "announce" => memberships = <<>>

RequestOK(q, isStale) == KindOfStep(q) /\ LocalsOfStep(q) /\ (~isStale => StoreAgrees(q))

\* The history variables: one writer at a time, and no one else wrote under it.
HistoryOK ==
    /\ \A r \in Requests : stale[r] => req[r].pc # "idle"
    /\ \A r \in Requests : halfway[r] => req[r].pc \in WriteSteps
    /\ ~tainted => \A r \in Requests : halfway[r] =>
          ~stale[r] /\ \A q \in Requests \ {r} : ~halfway[q]

Coherent == NothingLeft /\ PairMatches /\ ListOwned /\ ToldTruth

\* Half-way through a repair or a switch everything but the pair is in order.
PairPending(q) ==
    /\ token # None
    /\ ListOwned
    /\ ToldTruth
    /\ q.pc # "set_member" => PairMatches

SessionInvariant ==
    /\ \A r \in Requests : RequestOK(req[r], stale[r])
    /\ HistoryOK
    /\ Settled => Coherent
    /\ ~tainted => \A r \in Requests :
          halfway[r] /\ req[r].kind \in SessionKinds => PairPending(req[r])
====
