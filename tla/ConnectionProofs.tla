---- MODULE ConnectionProofs ----
(***************************************************************************)
(* Proofs about ConnectionHistory for any number of requests, tokens and   *)
(* organizations, and any faults.                                          *)
(***************************************************************************)
EXTENDS ConnectionInvariant, TLAPS

----------------------------------------------------------------------------
(* Membership lists. *)

\* A list that Solidtime answered for token t is one of the membership lists,
\* holds memberships of that account only, and is empty only if the answer was.
LEMMA ListFromSolidtime ==
    ASSUME NEW t \in Tokens, NEW l \in OrgLists
    PROVE  /\ MembershipsFrom(t, l) \in MembershipLists
           /\ \A m \in Entries(MembershipsFrom(t, l)) : m.account = t
           /\ l # <<>> => MembershipsFrom(t, l) # <<>>
<1>1. MembershipsFrom(t, l) \in MembershipLists
  BY DEF MembershipLists
<1>2. \A m \in Entries(MembershipsFrom(t, l)) : m.account = t
  BY DEF Entries, MembershipsFrom, Member
<1>3. l # <<>> => MembershipsFrom(t, l) # <<>>
  <2>1. l \in Seq(Orgs)
    BY ConnectionAssumption DEF ConnectionAssumption
  <2>2. DOMAIN MembershipsFrom(t, l) = DOMAIN l
    BY DEF MembershipsFrom
  <2>3. l # <<>> => 1 \in DOMAIN l
    BY <2>1
  <2> QED
    BY <2>2, <2>3
<1> QED
  BY <1>1, <1>2, <1>3

\* The entries of a membership list are member IDs, and a list that is not empty
\* has a first one: memberships[0] is safe where the code indexes it.
LEMMA EntriesAreMembers ==
    ASSUME NEW list \in MembershipLists \cup {<<>>}
    PROVE  /\ Entries(list) \subseteq Members
           /\ list # <<>> => list[1] \in Entries(list)
<1>1. CASE list = <<>>
  BY <1>1 DEF Entries
<1>2. CASE list \in MembershipLists
  <2>1. PICK t \in Tokens, l \in OrgLists : list = MembershipsFrom(t, l)
    BY <1>2 DEF MembershipLists
  <2>2. l \in Seq(Orgs)
    BY ConnectionAssumption DEF ConnectionAssumption
  <2>3. Entries(list) \subseteq Members
    <3>1. \A i \in DOMAIN l : l[i] \in Orgs
      BY <2>2
    <3> QED
      BY <2>1, <3>1 DEF Entries, MembershipsFrom, Member, Members
  <2>4. list # <<>> => list[1] \in Entries(list)
    <3>1. DOMAIN list = DOMAIN l
      BY <2>1 DEF MembershipsFrom
    <3>2. l = <<>> => list = <<>>
      BY <2>1 DEF MembershipsFrom
    <3>3. l # <<>> => 1 \in DOMAIN l
      BY <2>2
    <3> QED
      BY <3>1, <3>2, <3>3 DEF Entries
  <2> QED
    BY <2>3, <2>4
<1> QED
  BY <1>1, <1>2

\* pickOrg and the lookup of a switch choose an entry of the list.
LEMMA ChosenInList ==
    ASSUME NEW list \in MembershipLists \cup {<<>>}, list # <<>>, NEW o
    PROVE  /\ PickOrg(list, o) \in Entries(list)
           /\ PickOrg(list, o) \in Members
           /\ In(list, o) => /\ Entry(list, o) \in Entries(list)
                             /\ Entry(list, o) \in Members
                             /\ Entry(list, o).org = o
<1>1. In(list, o) => Entry(list, o) \in Entries(list) /\ Entry(list, o).org = o
  BY DEF In, Entry
<1>2. PickOrg(list, o) \in Entries(list)
  BY <1>1, EntriesAreMembers DEF PickOrg
<1> QED
  BY <1>1, <1>2, EntriesAreMembers

----------------------------------------------------------------------------
(* Types. *)

\* What a request does with a list of organizations keeps its type.
LEMMA WithOrganizationsType ==
    ASSUME NEW q \in Requesting, NEW list \in MembershipLists \cup {<<>>}, list # <<>>
    PROVE  WithOrganizations(q, list) \in Requesting
<1>1. \A m \in Members : Select(q, m) \in Requesting
  BY DEF Select, Requesting, Steps, StoreSteps, Members
<1>2. Idle \in Requesting
  BY DEF Idle, Requesting, Steps
<1> QED
  BY <1>1, <1>2, ChosenInList DEF WithOrganizations

\* So does what follows its write of the member ID.
LEMMA AfterMemberType ==
    ASSUME NEW q \in Requesting
    PROVE  Resolved(q) \in Requesting /\ AfterMember(q) \in Requesting
<1>1. Idle \in Requesting
  BY DEF Idle, Requesting, Steps
<1>2. \A s \in {"call", "get_list"} : [q EXCEPT !.resolved = TRUE, !.pc = s] \in Requesting
  BY DEF Requesting, Steps, StoreSteps, SolidtimeSteps
<1>3. \A s \in {"set_token", "announce"} : [q EXCEPT !.pc = s] \in Requesting
  BY DEF Requesting, Steps, StoreSteps
<1>4. Resolved(q) \in Requesting
  BY <1>1, <1>2 DEF Resolved
<1> QED
  BY <1>3, <1>4 DEF AfterMember

\* Every variable keeps its type.
LEMMA TypeInit == HInit => TypeOK
<1> SUFFICES ASSUME HInit PROVE TypeOK
  OBVIOUS
<1>1. Idle \in Requesting
  BY DEF Idle, Requesting, Steps
<1>2. token \in Tokens \cup {None} /\ orgID \in Orgs \cup {None}
      /\ memberships \in MembershipLists \cup {<<>>}
  <2>1. CASE token = None /\ orgID = None /\ memberships = <<>>
    BY <2>1
  <2>2. CASE \E s \in LegacySessions : token = s.token /\ orgID = s.org /\ memberships = s.list
    BY <2>2 DEF LegacySessions
  <2> QED
    BY <2>1, <2>2 DEF HInit, Init
<1> QED
  BY <1>1, <1>2 DEF HInit, Init, TypeOK

----------------------------------------------------------------------------
(* One request's own steps. *)

\* A free slot satisfies every fact, whatever the store holds.
LEMMA IdleOK ==
    /\ Idle \in Requesting
    /\ Idle.pc = "idle"
    /\ KindOfStep(Idle)
    /\ LocalsOfStep(Idle)
    /\ StoreAgrees(Idle) /\ StoreAgrees(Idle)'
<1> USE ConnectionAssumption DEF ConnectionAssumption, AllKinds, SessionKinds, Idle,
        ConnectSteps, DeleteSteps, RefreshSteps, SessionSteps, PairSteps, WriteSteps
<1>1. Idle \in Requesting
  BY DEF Requesting, Steps
<1>2. KindOfStep(Idle) /\ LocalsOfStep(Idle)
  BY DEF KindOfStep, LocalsOfStep
<1>3. StoreAgrees(Idle) /\ StoreAgrees(Idle)'
  BY DEF StoreAgrees
<1> QED
  BY <1>1, <1>2, <1>3

\* Connect's own steps keep the facts about the connecting request.
LEMMA ConnectKeepsOwn ==
    ASSUME TypeOK, SessionInvariant, NEW r \in Requests, Observe(r), Connect(r)
    PROVE  req'[r] \in Requesting /\ RequestOK(req[r], stale[r])'
<1> DEFINE q == req[r]
<1>q. /\ q \in Requesting
      /\ KindOfStep(q)
      /\ LocalsOfStep(q)
      /\ ~stale[r] => StoreAgrees(q)
  BY DEF TypeOK, SessionInvariant, RequestOK
<1>s. stale'[r] = (stale[r] /\ req'[r].pc # "idle")
  BY DEF Observe
<1>i. req'[r] = Idle => req'[r] \in Requesting /\ RequestOK(req[r], stale[r])'
  BY IdleOK DEF RequestOK
<1> USE DEF ConnectSteps, DeleteSteps, RefreshSteps, SessionSteps, PairSteps, WriteSteps,
            SessionKinds
<1>1. CASE ConnectFetch(r)
  <2>1. /\ q.pc = "fetch"
        /\ q.kind = "connect" /\ q.token \in Tokens /\ ~q.resolved
    BY <1>1, <1>q DEF ConnectFetch, At, KindOfStep, LocalsOfStep, Requesting
  <2>2. \/ req'[r] = Idle
        \/ \E l \in OrgLists : /\ l # <<>>
                               /\ req'[r] = [q EXCEPT !.pc = "prev_org",
                                                      !.list = MembershipsFrom(q.token, l)]
    BY <1>1 DEF ConnectFetch, Finish, Become, TypeOK
  <2>a. CASE req'[r] = Idle
    BY <2>a, <1>i
  <2>b. CASE req'[r] # Idle
    <3>1. PICK list \in MembershipLists :
             /\ list # <<>>
             /\ \A m \in Entries(list) : m.account = q.token
             /\ req'[r] = [q EXCEPT !.pc = "prev_org", !.list = list]
      BY <2>1, <2>2, <2>b, ListFromSolidtime
    <3>3. req'[r] \in Requesting
      BY <1>q, <2>1, <3>1 DEF Requesting, Steps, StoreSteps, SolidtimeSteps
    <3>4. KindOfStep(req'[r])
      BY <1>q, <2>1, <3>1 DEF KindOfStep, Requesting
    <3>5. LocalsOfStep(req'[r])
      BY <1>q, <2>1, <3>1 DEF LocalsOfStep, Requesting
    <3>6. ~stale'[r] => StoreAgrees(req[r])'
      BY <1>s, <1>q, <2>1, <3>1 DEF StoreAgrees, Requesting
    <3> QED
      BY <3>3, <3>4, <3>5, <3>6 DEF RequestOK
  <2> QED
    BY <2>a, <2>b
<1>2. CASE ConnectPreviousOrg(r)
  <2>1. /\ q.pc = "prev_org" /\ q.kind = "connect" /\ ~q.resolved
        /\ q.list # <<>> /\ q.list \in MembershipLists \cup {<<>>}
        /\ \A m \in Entries(q.list) : m.account = q.token
    BY <1>2, <1>q DEF ConnectPreviousOrg, At, KindOfStep, LocalsOfStep, Requesting
  <2>2. PICK m \in Members :
           /\ m.account = q.token
           /\ req'[r] = [q EXCEPT !.pc = "save_list", !.org = m.org, !.member = m]
    <3>1. PICK o : req'[r] = [q EXCEPT !.pc = "save_list", !.org = PickOrg(q.list, o).org,
                                       !.member = PickOrg(q.list, o)]
      BY <1>2 DEF ConnectPreviousOrg, Become, TypeOK
    <3>2. PickOrg(q.list, o) \in Members /\ PickOrg(q.list, o).account = q.token
      BY <2>1, ChosenInList
    <3> QED
      BY <3>1, <3>2
  <2>7. m.org \in Orgs
    BY DEF Members
  <2>3. req'[r] \in Requesting
    BY <1>q, <2>1, <2>2, <2>7 DEF Requesting, Steps, StoreSteps, SolidtimeSteps
  <2>4. KindOfStep(req'[r])
    BY <1>q, <2>1, <2>2, <2>7 DEF KindOfStep, Requesting
  <2>5. LocalsOfStep(req'[r])
    BY <1>q, <2>1, <2>2, <2>7 DEF LocalsOfStep, Requesting
  <2>6. ~stale'[r] => StoreAgrees(req[r])'
    BY <1>s, <1>q, <2>1, <2>2, <2>7 DEF StoreAgrees, Requesting
  <2> QED
    BY <2>3, <2>4, <2>5, <2>6 DEF RequestOK
<1>3. CASE ConnectSaveMemberships(r)
  <2>1. /\ q.pc = "save_list"
        /\ req'[r] = [q EXCEPT !.pc = "set_org", !.list = <<>>]
        /\ memberships' = q.list
    BY <1>3 DEF ConnectSaveMemberships, At, Become, TypeOK
  <2>2. /\ q.kind = "connect" /\ ~q.resolved
        /\ q.list # <<>> /\ \A m \in Entries(q.list) : m.account = q.token
    BY <1>q, <2>1 DEF KindOfStep, LocalsOfStep
  <2>3. req'[r] \in Requesting
    BY <1>q, <2>1, <2>2 DEF Requesting, Steps, StoreSteps, SolidtimeSteps
  <2>4. KindOfStep(req'[r])
    BY <1>q, <2>1, <2>2 DEF KindOfStep, Requesting
  <2>5. LocalsOfStep(req'[r])
    BY <1>q, <2>1, <2>2 DEF LocalsOfStep, Requesting
  <2>6. ~stale'[r] => StoreAgrees(req[r])'
    BY <1>s, <1>q, <2>1, <2>2 DEF StoreAgrees, Requesting
  <2> QED
    BY <2>3, <2>4, <2>5, <2>6 DEF RequestOK
<1>4. CASE ConnectSetToken(r)
  <2>1. /\ q.pc = "set_token"
        /\ req'[r] = [q EXCEPT !.pc = "announce"]
        /\ token' = q.token /\ UNCHANGED <<orgID, memberID, memberships>>
    BY <1>4 DEF ConnectSetToken, At, Goto, Become, TypeOK
  <2>2. q.kind = "connect" /\ ~q.resolved
    BY <1>q, <2>1 DEF KindOfStep
  <2>3. req'[r] \in Requesting
    BY <1>q, <2>1, <2>2 DEF Requesting, Steps, StoreSteps, SolidtimeSteps
  <2>4. KindOfStep(req'[r])
    BY <1>q, <2>1, <2>2 DEF KindOfStep, Requesting
  <2>5. LocalsOfStep(req'[r])
    BY <1>q, <2>1, <2>2 DEF LocalsOfStep, Requesting
  <2>6. ~stale'[r] => StoreAgrees(req[r])'
    BY <1>s, <1>q, <2>1, <2>2 DEF StoreAgrees, Requesting
  <2> QED
    BY <2>3, <2>4, <2>5, <2>6 DEF RequestOK
<1> QED
  BY <1>1, <1>2, <1>3, <1>4 DEF Connect

\* DeleteUserData's own steps keep the facts about the disconnecting request.
LEMMA DisconnectKeepsOwn ==
    ASSUME TypeOK, SessionInvariant, NEW r \in Requests, Observe(r), Disconnect(r)
    PROVE  req'[r] \in Requesting /\ RequestOK(req[r], stale[r])'
<1> DEFINE q == req[r]
<1>q. /\ q \in Requesting
      /\ KindOfStep(q)
      /\ LocalsOfStep(q)
      /\ ~stale[r] => StoreAgrees(q)
  BY DEF TypeOK, SessionInvariant, RequestOK
<1>s. stale'[r] = (stale[r] /\ req'[r].pc # "idle")
  BY DEF Observe
<1>i. req'[r] = Idle => req'[r] \in Requesting /\ RequestOK(req[r], stale[r])'
  BY IdleOK DEF RequestOK
<1> USE DEF ConnectSteps, DeleteSteps, RefreshSteps, SessionSteps, PairSteps, WriteSteps,
            SessionKinds
<1>1. CASE DeleteToken(r)
  <2>1. /\ q.pc = "del_token"
        /\ req'[r] = [q EXCEPT !.pc = "del_org"]
        /\ token' = None
    BY <1>1 DEF DeleteToken, At, Goto, Become, TypeOK
  <2>2. q.kind = "disconnect" /\ ~q.resolved
    BY <1>q, <2>1 DEF KindOfStep
  <2>3. req'[r] \in Requesting
    BY <1>q, <2>1, <2>2 DEF Requesting, Steps, StoreSteps, SolidtimeSteps
  <2>4. KindOfStep(req'[r])
    BY <1>q, <2>1, <2>2 DEF KindOfStep, Requesting
  <2>5. LocalsOfStep(req'[r])
    BY <1>q, <2>1, <2>2 DEF LocalsOfStep, Requesting
  <2>6. ~stale'[r] => StoreAgrees(req[r])'
    BY <1>s, <1>q, <2>1, <2>2 DEF StoreAgrees, Requesting
  <2> QED
    BY <2>3, <2>4, <2>5, <2>6 DEF RequestOK
<1>2. CASE DeleteOrgID(r)
  <2>1. /\ q.pc = "del_org"
        /\ req'[r] = [q EXCEPT !.pc = "del_member"]
        /\ orgID' = None /\ UNCHANGED token
    BY <1>2 DEF DeleteOrgID, At, Goto, Become, TypeOK
  <2>2. q.kind = "disconnect" /\ ~q.resolved
    BY <1>q, <2>1 DEF KindOfStep
  <2>3. req'[r] \in Requesting
    BY <1>q, <2>1, <2>2 DEF Requesting, Steps, StoreSteps, SolidtimeSteps
  <2>4. KindOfStep(req'[r])
    BY <1>q, <2>1, <2>2 DEF KindOfStep, Requesting
  <2>5. LocalsOfStep(req'[r])
    BY <1>q, <2>1, <2>2 DEF LocalsOfStep, Requesting
  <2>6. ~stale'[r] => StoreAgrees(req[r])'
    BY <1>s, <1>q, <2>1, <2>2 DEF StoreAgrees, Requesting
  <2> QED
    BY <2>3, <2>4, <2>5, <2>6 DEF RequestOK
<1>3. CASE DeleteMemberID(r)
  <2>1. /\ q.pc = "del_member"
        /\ req'[r] = [q EXCEPT !.pc = "del_list"]
        /\ memberID' = None /\ UNCHANGED <<token, orgID>>
    BY <1>3 DEF DeleteMemberID, At, Goto, Become, TypeOK
  <2>2. q.kind = "disconnect" /\ ~q.resolved
    BY <1>q, <2>1 DEF KindOfStep
  <2>3. req'[r] \in Requesting
    BY <1>q, <2>1, <2>2 DEF Requesting, Steps, StoreSteps, SolidtimeSteps
  <2>4. KindOfStep(req'[r])
    BY <1>q, <2>1, <2>2 DEF KindOfStep, Requesting
  <2>5. LocalsOfStep(req'[r])
    BY <1>q, <2>1, <2>2 DEF LocalsOfStep, Requesting
  <2>6. ~stale'[r] => StoreAgrees(req[r])'
    BY <1>s, <1>q, <2>1, <2>2 DEF StoreAgrees, Requesting
  <2> QED
    BY <2>3, <2>4, <2>5, <2>6 DEF RequestOK
<1>4. CASE DeleteMemberships(r)
  <2>1. /\ q.pc = "del_list"
        /\ req'[r] = [q EXCEPT !.pc = "announce"]
        /\ memberships' = <<>> /\ UNCHANGED <<token, orgID, memberID>>
    BY <1>4 DEF DeleteMemberships, At, Goto, Become, TypeOK
  <2>2. q.kind = "disconnect" /\ ~q.resolved
    BY <1>q, <2>1 DEF KindOfStep
  <2>3. req'[r] \in Requesting
    BY <1>q, <2>1, <2>2 DEF Requesting, Steps, StoreSteps, SolidtimeSteps
  <2>4. KindOfStep(req'[r])
    BY <1>q, <2>1, <2>2 DEF KindOfStep, Requesting
  <2>5. LocalsOfStep(req'[r])
    BY <1>q, <2>1, <2>2 DEF LocalsOfStep, Requesting
  <2>6. ~stale'[r] => StoreAgrees(req[r])'
    BY <1>s, <1>q, <2>1, <2>2 DEF StoreAgrees, Requesting
  <2> QED
    BY <2>3, <2>4, <2>5, <2>6 DEF RequestOK
<1> QED
  BY <1>1, <1>2, <1>3, <1>4 DEF Disconnect

\* The three reads of ResolveOrgMember keep the facts about the reading request.
LEMMA ResolveKeepsOwn ==
    ASSUME TypeOK, SessionInvariant, NEW r \in Requests, Observe(r), ResolveOrgMember(r)
    PROVE  req'[r] \in Requesting /\ RequestOK(req[r], stale[r])'
<1> DEFINE q == req[r]
<1>q. /\ q \in Requesting
      /\ KindOfStep(q)
      /\ LocalsOfStep(q)
      /\ ~stale[r] => StoreAgrees(q)
  BY DEF TypeOK, SessionInvariant, RequestOK
<1>s. stale'[r] = (stale[r] /\ req'[r].pc # "idle")
  BY DEF Observe
<1>i. req'[r] = Idle => req'[r] \in Requesting /\ RequestOK(req[r], stale[r])'
  BY IdleOK DEF RequestOK
<1> USE DEF ConnectSteps, DeleteSteps, RefreshSteps, SessionSteps, PairSteps, WriteSteps,
            SessionKinds
<1>1. CASE GetToken(r)
  <2>1. q.pc = "get_token" /\ q.kind \in SessionKinds /\ ~q.resolved
    BY <1>1, <1>q DEF GetToken, At, KindOfStep
  <2>2. \/ req'[r] = Idle
        \/ /\ token # None
           /\ req'[r] = [q EXCEPT !.pc = "get_org", !.token = token]
    BY <1>1 DEF GetToken, Finish, Become, TypeOK
  <2>a. CASE req'[r] = Idle
    BY <2>a, <1>i
  <2>b. CASE req'[r] # Idle
    <3>1. /\ token \in Tokens /\ token # None /\ token' = token
          /\ req'[r] = [q EXCEPT !.pc = "get_org", !.token = token]
      BY <1>1, <2>2, <2>b DEF GetToken, store, TypeOK
    <3>3. req'[r] \in Requesting
      BY <1>q, <2>1, <3>1 DEF Requesting, Steps, StoreSteps, SolidtimeSteps
    <3>4. KindOfStep(req'[r])
      BY <1>q, <2>1, <3>1 DEF KindOfStep, Requesting
    <3>5. LocalsOfStep(req'[r])
      BY <1>q, <2>1, <3>1 DEF LocalsOfStep, Requesting
    <3>6. ~stale'[r] => StoreAgrees(req[r])'
      BY <1>s, <1>q, <2>1, <3>1 DEF StoreAgrees, Requesting
    <3> QED
      BY <3>3, <3>4, <3>5, <3>6 DEF RequestOK
  <2> QED
    BY <2>a, <2>b
<1>2. CASE GetOrgID(r)
  <2>1. /\ q.pc = "get_org"
        /\ req'[r] = [q EXCEPT !.pc = "get_member", !.org = orgID]
        /\ UNCHANGED <<token, orgID>> /\ orgID \in Orgs \cup {None}
    BY <1>2 DEF GetOrgID, At, Become, TypeOK, store
  <2>2. q.kind \in SessionKinds /\ q.token # None /\ ~q.resolved
    BY <1>q, <2>1 DEF KindOfStep, LocalsOfStep
  <2>3. req'[r] \in Requesting
    BY <1>q, <2>1, <2>2 DEF Requesting, Steps, StoreSteps, SolidtimeSteps
  <2>4. KindOfStep(req'[r])
    BY <1>q, <2>1, <2>2 DEF KindOfStep, Requesting
  <2>5. LocalsOfStep(req'[r])
    BY <1>q, <2>1, <2>2 DEF LocalsOfStep, Requesting
  <2>6. ~stale'[r] => StoreAgrees(req[r])'
    BY <1>s, <1>q, <2>1, <2>2 DEF StoreAgrees, Requesting
  <2> QED
    BY <2>3, <2>4, <2>5, <2>6 DEF RequestOK
<1>3. CASE GetMemberID(r)
  <2>1. /\ q.pc = "get_member" /\ q.kind \in SessionKinds /\ q.token # None /\ ~q.resolved
        /\ UNCHANGED <<token, orgID, memberID, memberships>>
        /\ memberID \in Members \cup {None}
    BY <1>3, <1>q DEF GetMemberID, At, KindOfStep, LocalsOfStep, TypeOK, store
  <2>2. \/ req'[r] = Idle
        \/ req'[r] = [q EXCEPT !.pc = "get_list", !.member = memberID]
        \/ /\ q.kind \in {"organizations", "switch"}
           /\ req'[r] = [q EXCEPT !.pc = "get_list", !.member = memberID, !.resolved = TRUE]
        \/ /\ q.kind = "entry" /\ q.org # None /\ memberID # None
           /\ req'[r] = [q EXCEPT !.pc = "call", !.member = memberID, !.resolved = TRUE]
    <3> DEFINE p == [q EXCEPT !.member = memberID]
    <3>1. p \in Requesting /\ p.kind = q.kind /\ p.org = q.org /\ p.member = memberID
      BY <1>q, <2>1 DEF Requesting
    <3>2. \/ p.org # None /\ p.member # None /\ req'[r] = Resolved(p)
          \/ req'[r] = [p EXCEPT !.pc = "get_list"]
      BY <1>3 DEF GetMemberID, Become, TypeOK
    <3>3. CASE req'[r] = [p EXCEPT !.pc = "get_list"]
      BY <1>q, <3>3 DEF Requesting
    <3>4. CASE p.org # None /\ p.member # None /\ req'[r] = Resolved(p)
      <4>1. CASE q.kind = "status"
        BY <3>1, <3>4, <4>1 DEF Resolved
      <4>2. CASE q.kind = "entry"
        BY <1>q, <3>1, <3>4, <4>2 DEF Resolved, Requesting
      <4>3. CASE q.kind \in {"organizations", "switch"}
        BY <1>q, <3>1, <3>4, <4>3 DEF Resolved, Requesting
      <4> QED
        BY <2>1, <4>1, <4>2, <4>3
    <3> QED
      BY <3>2, <3>3, <3>4
  <2>a. CASE req'[r] = Idle
    BY <2>a, <1>i
  <2>b. CASE req'[r] = [q EXCEPT !.pc = "get_list", !.member = memberID]
    <3>3. req'[r] \in Requesting
      BY <1>q, <2>1, <2>b DEF Requesting, Steps, StoreSteps, SolidtimeSteps
    <3>4. KindOfStep(req'[r])
      BY <1>q, <2>1, <2>b DEF KindOfStep, Requesting
    <3>5. LocalsOfStep(req'[r])
      BY <1>q, <2>1, <2>b DEF LocalsOfStep, Requesting
    <3>6. ~stale'[r] => StoreAgrees(req[r])'
      BY <1>s, <1>q, <2>1, <2>b DEF StoreAgrees, Requesting
    <3> QED
      BY <3>3, <3>4, <3>5, <3>6 DEF RequestOK
  <2>c. CASE /\ q.kind \in {"organizations", "switch"}
             /\ req'[r] = [q EXCEPT !.pc = "get_list", !.member = memberID, !.resolved = TRUE]
    <3>3. req'[r] \in Requesting
      BY <1>q, <2>1, <2>c DEF Requesting, Steps, StoreSteps, SolidtimeSteps
    <3>4. KindOfStep(req'[r])
      BY <1>q, <2>1, <2>c DEF KindOfStep, Requesting
    <3>5. LocalsOfStep(req'[r])
      BY <1>q, <2>1, <2>c DEF LocalsOfStep, Requesting
    <3>6. ~stale'[r] => StoreAgrees(req[r])'
      BY <1>s, <1>q, <2>1, <2>c DEF StoreAgrees, Requesting
    <3> QED
      BY <3>3, <3>4, <3>5, <3>6 DEF RequestOK
  <2>d. CASE /\ q.kind = "entry" /\ q.org # None /\ memberID # None
             /\ req'[r] = [q EXCEPT !.pc = "call", !.member = memberID, !.resolved = TRUE]
    <3>3. req'[r] \in Requesting
      BY <1>q, <2>1, <2>d DEF Requesting, Steps, StoreSteps, SolidtimeSteps
    <3>4. KindOfStep(req'[r])
      BY <1>q, <2>1, <2>d DEF KindOfStep, Requesting
    <3>5. LocalsOfStep(req'[r])
      BY <1>q, <2>1, <2>d DEF LocalsOfStep, Requesting
    <3>6. ~stale'[r] => StoreAgrees(req[r])'
      BY <1>s, <1>q, <2>1, <2>d DEF StoreAgrees, Requesting
    <3> QED
      BY <3>3, <3>4, <3>5, <3>6 DEF RequestOK
  <2> QED
    BY <2>2, <2>a, <2>b, <2>c, <2>d
<1> QED
  BY <1>1, <1>2, <1>3 DEF ResolveOrgMember

\* What ListOrganizations is asked for: an entry of the list is selected, the one
\* a switch names if it is a switch, or the request is over.
LEMMA SelectedFromList ==
    ASSUME NEW q \in Requesting, KindOfStep(q), q.pc \in {"get_list", "refresh_save"},
           NEW list \in MembershipLists \cup {<<>>}, list # <<>>,
           WithOrganizations(q, list) # Idle
    PROVE  \E m \in Members :
              /\ m \in Entries(list)
              /\ m.org \in Orgs
              /\ q.resolved => q.kind = "switch" /\ m.org = q.target
              /\ WithOrganizations(q, list) = Select(q, m)
<1>1. CASE ~q.resolved
  BY <1>1, ChosenInList DEF WithOrganizations, Members
<1>2. CASE q.resolved
  BY <1>2, ChosenInList DEF WithOrganizations, Members
<1> QED
  BY <1>1, <1>2

\* ListOrganizations and its refresh keep the facts about the listing request.
LEMMA ListKeepsOwn ==
    ASSUME TypeOK, SessionInvariant, NEW r \in Requests, Observe(r), ListOrganizations(r)
    PROVE  req'[r] \in Requesting /\ RequestOK(req[r], stale[r])'
<1> DEFINE q == req[r]
<1>q. /\ q \in Requesting
      /\ KindOfStep(q)
      /\ LocalsOfStep(q)
      /\ ~stale[r] => StoreAgrees(q)
  BY DEF TypeOK, SessionInvariant, RequestOK
<1>s. stale'[r] = (stale[r] /\ req'[r].pc # "idle")
  BY DEF Observe
<1>i. req'[r] = Idle => req'[r] \in Requesting /\ RequestOK(req[r], stale[r])'
  BY IdleOK DEF RequestOK
<1> USE DEF ConnectSteps, DeleteSteps, RefreshSteps, SessionSteps, PairSteps, WriteSteps,
            SessionKinds
<1>1. CASE GetMemberships(r)
  <2>1. /\ q.pc = "get_list" /\ q.kind \in SessionKinds /\ q.token # None
        /\ UNCHANGED <<token, orgID, memberID, memberships>>
        /\ memberships \in MembershipLists \cup {<<>>}
    BY <1>1, <1>q DEF GetMemberships, At, KindOfStep, LocalsOfStep, TypeOK, store
  <2>c. CASE memberships = <<>>
    <3>1. req'[r] = [q EXCEPT !.pc = "refresh_token"]
      BY <1>1, <2>c DEF GetMemberships, Goto, Become, TypeOK
    <3>3. req'[r] \in Requesting
      BY <1>q, <2>1, <2>c, <3>1 DEF Requesting, Steps, StoreSteps, SolidtimeSteps
    <3>4. KindOfStep(req'[r])
      BY <1>q, <2>1, <2>c, <3>1 DEF KindOfStep, Requesting
    <3>5. LocalsOfStep(req'[r])
      BY <1>q, <2>1, <2>c, <3>1 DEF LocalsOfStep, Requesting
    <3>6. ~stale'[r] => StoreAgrees(req[r])'
      BY <1>s, <1>q, <2>1, <2>c, <3>1 DEF StoreAgrees, Requesting
    <3> QED
      BY <3>3, <3>4, <3>5, <3>6 DEF RequestOK
  <2>d. CASE memberships # <<>>
    <3>1. req'[r] = WithOrganizations(q, memberships)
      BY <1>1, <2>d DEF GetMemberships, Become, TypeOK
    <3>2. CASE req'[r] = Idle
      BY <3>2, <1>i
    <3>3. CASE req'[r] # Idle
      <4>1. PICK m \in Members :
               /\ m \in Entries(memberships)
               /\ m.org \in Orgs
               /\ q.resolved => q.kind = "switch" /\ m.org = q.target
               /\ req'[r] = Select(q, m)
        BY <1>q, <2>1, <2>d, <3>1, <3>3, SelectedFromList
      <4>2. req'[r] = [q EXCEPT !.pc = "set_org", !.org = m.org, !.member = m,
                                !.list = <<>>, !.fresh = None]
        BY <4>1 DEF Select
      <4>7. req'[r] \in Requesting
        BY <1>q, <2>1, <4>1, <4>2 DEF Requesting, Steps, StoreSteps, SolidtimeSteps
      <4>8. KindOfStep(req'[r])
        BY <1>q, <2>1, <4>1, <4>2 DEF KindOfStep, Requesting
      <4>9. LocalsOfStep(req'[r])
        BY <1>q, <2>1, <4>1, <4>2 DEF LocalsOfStep, Requesting
      <4>10. ~stale'[r] => StoreAgrees(req[r])'
        BY <1>s, <1>q, <2>1, <4>1, <4>2 DEF StoreAgrees, Requesting
      <4> QED
        BY <4>7, <4>8, <4>9, <4>10 DEF RequestOK
    <3> QED
      BY <3>2, <3>3
  <2> QED
    BY <2>c, <2>d
<1>2. CASE RefreshToken(r)
  <2>1. /\ q.pc = "refresh_token" /\ q.kind \in SessionKinds /\ q.token # None
        /\ UNCHANGED <<token, orgID, memberID, memberships>>
    BY <1>2, <1>q DEF RefreshToken, At, KindOfStep, LocalsOfStep, store
  <2>2. \/ req'[r] = Idle
        \/ /\ token \in Tokens /\ token # None
           /\ req'[r] = [q EXCEPT !.pc = "refresh_fetch", !.fresh = token]
    BY <1>2 DEF RefreshToken, Finish, Become, TypeOK
  <2>a. CASE req'[r] = Idle
    BY <2>a, <1>i
  <2>b. CASE req'[r] # Idle
    <3>3. req'[r] \in Requesting
      BY <1>q, <2>1, <2>2, <2>b DEF Requesting, Steps, StoreSteps, SolidtimeSteps
    <3>4. KindOfStep(req'[r])
      BY <1>q, <2>1, <2>2, <2>b DEF KindOfStep, Requesting
    <3>5. LocalsOfStep(req'[r])
      BY <1>q, <2>1, <2>2, <2>b DEF LocalsOfStep, Requesting
    <3>6. ~stale'[r] => StoreAgrees(req[r])'
      BY <1>s, <1>q, <2>1, <2>2, <2>b DEF StoreAgrees, Requesting
    <3> QED
      BY <3>3, <3>4, <3>5, <3>6 DEF RequestOK
  <2> QED
    BY <2>a, <2>b
<1>3. CASE RefreshFetch(r)
  <2>1. /\ q.pc = "refresh_fetch" /\ q.kind \in SessionKinds /\ q.token # None
        /\ UNCHANGED <<token, orgID, memberID, memberships>>
    BY <1>3, <1>q DEF RefreshFetch, At, KindOfStep, LocalsOfStep, store
  <2>7. q.fresh \in Tokens
    BY <1>q, <2>1 DEF LocalsOfStep, Requesting
  <2>2. \/ req'[r] = Idle
        \/ \E l \in OrgLists : /\ l # <<>>
                               /\ req'[r] = [q EXCEPT !.pc = "refresh_save",
                                                      !.list = MembershipsFrom(q.fresh, l)]
    BY <1>3 DEF RefreshFetch, Finish, Become, TypeOK
  <2>a. CASE req'[r] = Idle
    BY <2>a, <1>i
  <2>b. CASE req'[r] # Idle
    <3>1. PICK list \in MembershipLists :
             /\ list # <<>>
             /\ \A m \in Entries(list) : m.account = q.fresh
             /\ req'[r] = [q EXCEPT !.pc = "refresh_save", !.list = list]
      BY <2>2, <2>7, <2>b, ListFromSolidtime
    <3>3. req'[r] \in Requesting
      BY <1>q, <2>1, <3>1 DEF Requesting, Steps, StoreSteps, SolidtimeSteps
    <3>4. KindOfStep(req'[r])
      BY <1>q, <2>1, <3>1 DEF KindOfStep, Requesting
    <3>5. LocalsOfStep(req'[r])
      BY <1>q, <2>1, <3>1 DEF LocalsOfStep, Requesting
    <3>6. ~stale'[r] => StoreAgrees(req[r])'
      BY <1>s, <1>q, <2>1, <3>1 DEF StoreAgrees, Requesting
    <3> QED
      BY <3>3, <3>4, <3>5, <3>6 DEF RequestOK
  <2> QED
    BY <2>a, <2>b
<1>4. CASE RefreshSave(r)
  <2>1. /\ q.pc = "refresh_save" /\ q.kind \in SessionKinds /\ q.token # None
        /\ UNCHANGED <<token, orgID, memberID>>
        /\ memberships' = q.list
        /\ q.list # <<>> /\ q.list \in MembershipLists \cup {<<>>}
    BY <1>4, <1>q DEF RefreshSave, At, KindOfStep, LocalsOfStep, Requesting
  <2>2. req'[r] = WithOrganizations(q, q.list)
    BY <1>4 DEF RefreshSave, Become, TypeOK
  <2>a. CASE req'[r] = Idle
    BY <2>a, <1>i
  <2>b. CASE req'[r] # Idle
    <3>1. PICK m \in Members :
             /\ m \in Entries(q.list)
             /\ m.org \in Orgs
             /\ q.resolved => q.kind = "switch" /\ m.org = q.target
             /\ req'[r] = Select(q, m)
      BY <1>q, <2>1, <2>2, <2>b, SelectedFromList
    <3>2. req'[r] = [q EXCEPT !.pc = "set_org", !.org = m.org, !.member = m,
                              !.list = <<>>, !.fresh = None]
      BY <3>1 DEF Select
    <3>7. req'[r] \in Requesting
      BY <1>q, <2>1, <3>1, <3>2 DEF Requesting, Steps, StoreSteps, SolidtimeSteps
    <3>8. KindOfStep(req'[r])
      BY <1>q, <2>1, <3>1, <3>2 DEF KindOfStep, Requesting
    <3>9. LocalsOfStep(req'[r])
      BY <1>q, <2>1, <3>1, <3>2 DEF LocalsOfStep, Requesting
    <3>10. ~stale'[r] => StoreAgrees(req[r])'
      BY <1>s, <1>q, <2>1, <3>1, <3>2 DEF StoreAgrees, Requesting
    <3> QED
      BY <3>7, <3>8, <3>9, <3>10 DEF RequestOK
  <2> QED
    BY <2>a, <2>b
<1> QED
  BY <1>1, <1>2, <1>3, <1>4 DEF ListOrganizations

\* The writes of a selected organization.
SetPair(r) == SetOrgID(r) \/ SetMemberID(r)

\* The two writes of the selected organization keep the facts about their request.
LEMMA PairKeepsOwn ==
    ASSUME TypeOK, SessionInvariant, NEW r \in Requests, Observe(r), SetPair(r)
    PROVE  req'[r] \in Requesting /\ RequestOK(req[r], stale[r])'
<1> DEFINE q == req[r]
<1>q. /\ q \in Requesting
      /\ KindOfStep(q)
      /\ LocalsOfStep(q)
      /\ ~stale[r] => StoreAgrees(q)
  BY DEF TypeOK, SessionInvariant, RequestOK
<1>s. stale'[r] = (stale[r] /\ req'[r].pc # "idle")
  BY DEF Observe
<1>i. req'[r] = Idle => req'[r] \in Requesting /\ RequestOK(req[r], stale[r])'
  BY IdleOK DEF RequestOK
<1> USE DEF ConnectSteps, DeleteSteps, RefreshSteps, SessionSteps, PairSteps, WriteSteps,
            SessionKinds
<1>1. CASE SetOrgID(r)
  <2>1. /\ q.pc = "set_org"
        /\ req'[r] = [q EXCEPT !.pc = "set_member"]
        /\ orgID' = q.org /\ UNCHANGED <<token, memberships>>
    BY <1>1 DEF SetOrgID, At, Goto, Become, TypeOK
  <2>2. /\ q.kind \in SessionKinds \cup {"connect"}
        /\ q.kind # "connect" => q.token # None
        /\ q.member \in Members
    BY <1>q, <2>1 DEF KindOfStep, LocalsOfStep
  <2>3. req'[r] \in Requesting
    BY <1>q, <2>1, <2>2 DEF Requesting, Steps, StoreSteps, SolidtimeSteps
  <2>4. KindOfStep(req'[r])
    BY <1>q, <2>1, <2>2 DEF KindOfStep, Requesting
  <2>5. LocalsOfStep(req'[r])
    BY <1>q, <2>1, <2>2 DEF LocalsOfStep, Requesting
  <2>6. ~stale'[r] => StoreAgrees(req[r])'
    BY <1>s, <1>q, <2>1, <2>2 DEF StoreAgrees, Requesting
  <2> QED
    BY <2>3, <2>4, <2>5, <2>6 DEF RequestOK
<1>2. CASE SetMemberID(r)
  <2>1. /\ q.pc = "set_member"
        /\ req'[r] = AfterMember(q)
        /\ memberID' = q.member /\ UNCHANGED <<token, orgID, memberships>>
    BY <1>2 DEF SetMemberID, At, Become, TypeOK
  <2>2. /\ q.kind \in SessionKinds \cup {"connect"}
        /\ q.kind # "connect" => q.token # None
        /\ q.member \in Members /\ q.org = q.member.org /\ q.member # None
        /\ q.org \in Orgs /\ q.org # None
        /\ q.resolved => q.kind = "switch"
    BY <1>q, <2>1, ConnectionAssumption
       DEF KindOfStep, LocalsOfStep, ConnectionAssumption, Members
  <2>7. \/ req'[r] = Idle
        \/ q.kind = "connect" /\ req'[r] = [q EXCEPT !.pc = "set_token"]
        \/ q.kind = "switch" /\ q.resolved /\ req'[r] = [q EXCEPT !.pc = "announce"]
        \/ /\ ~q.resolved /\ q.kind \in {"organizations", "switch"}
           /\ req'[r] = [q EXCEPT !.resolved = TRUE, !.pc = "get_list"]
        \/ /\ ~q.resolved /\ q.kind = "entry"
           /\ req'[r] = [q EXCEPT !.resolved = TRUE, !.pc = "call"]
    BY <2>1, <2>2 DEF AfterMember, Resolved
  <2>a. CASE req'[r] = Idle
    BY <2>a, <1>i
  <2>b. CASE q.kind = "connect" /\ req'[r] = [q EXCEPT !.pc = "set_token"]
    <3>3. req'[r] \in Requesting
      BY <1>q, <2>1, <2>2, <2>b DEF Requesting, Steps, StoreSteps, SolidtimeSteps
    <3>4. KindOfStep(req'[r])
      BY <1>q, <2>1, <2>2, <2>b DEF KindOfStep, Requesting
    <3>5. LocalsOfStep(req'[r])
      BY <1>q, <2>1, <2>2, <2>b DEF LocalsOfStep, Requesting
    <3>6. ~stale'[r] => StoreAgrees(req[r])'
      BY <1>s, <1>q, <2>1, <2>2, <2>b DEF StoreAgrees, Requesting
    <3> QED
      BY <3>3, <3>4, <3>5, <3>6 DEF RequestOK
  <2>c. CASE q.kind = "switch" /\ q.resolved /\ req'[r] = [q EXCEPT !.pc = "announce"]
    <3>3. req'[r] \in Requesting
      BY <1>q, <2>1, <2>2, <2>c DEF Requesting, Steps, StoreSteps, SolidtimeSteps
    <3>4. KindOfStep(req'[r])
      BY <1>q, <2>1, <2>2, <2>c DEF KindOfStep, Requesting
    <3>5. LocalsOfStep(req'[r])
      BY <1>q, <2>1, <2>2, <2>c DEF LocalsOfStep, Requesting
    <3>6. ~stale'[r] => StoreAgrees(req[r])'
      BY <1>s, <1>q, <2>1, <2>2, <2>c DEF StoreAgrees, Requesting
    <3> QED
      BY <3>3, <3>4, <3>5, <3>6 DEF RequestOK
  <2>d. CASE /\ ~q.resolved /\ q.kind \in {"organizations", "switch"}
             /\ req'[r] = [q EXCEPT !.resolved = TRUE, !.pc = "get_list"]
    <3>3. req'[r] \in Requesting
      BY <1>q, <2>1, <2>2, <2>d DEF Requesting, Steps, StoreSteps, SolidtimeSteps
    <3>4. KindOfStep(req'[r])
      BY <1>q, <2>1, <2>2, <2>d DEF KindOfStep, Requesting
    <3>5. LocalsOfStep(req'[r])
      BY <1>q, <2>1, <2>2, <2>d DEF LocalsOfStep, Requesting
    <3>6. ~stale'[r] => StoreAgrees(req[r])'
      BY <1>s, <1>q, <2>1, <2>2, <2>d DEF StoreAgrees, Requesting
    <3> QED
      BY <3>3, <3>4, <3>5, <3>6 DEF RequestOK
  <2>e. CASE /\ ~q.resolved /\ q.kind = "entry"
             /\ req'[r] = [q EXCEPT !.resolved = TRUE, !.pc = "call"]
    <3>3. req'[r] \in Requesting
      BY <1>q, <2>1, <2>2, <2>e DEF Requesting, Steps, StoreSteps, SolidtimeSteps
    <3>4. KindOfStep(req'[r])
      BY <1>q, <2>1, <2>2, <2>e DEF KindOfStep, Requesting
    <3>5. LocalsOfStep(req'[r])
      BY <1>q, <2>1, <2>2, <2>e DEF LocalsOfStep, Requesting
    <3>6. ~stale'[r] => StoreAgrees(req[r])'
      BY <1>s, <1>q, <2>1, <2>2, <2>e DEF StoreAgrees, Requesting
    <3> QED
      BY <3>3, <3>4, <3>5, <3>6 DEF RequestOK
  <2> QED
    BY <2>7, <2>a, <2>b, <2>c, <2>d, <2>e
<1> QED
  BY <1>1, <1>2 DEF SetPair

\* A request arrives with the facts of its first step.
LEMMA ArriveKeepsOwn ==
    ASSUME TypeOK, SessionInvariant, NEW r \in Requests, Observe(r), Arrive(r)
    PROVE  req'[r] \in Requesting /\ RequestOK(req[r], stale[r])'
<1> DEFINE q == req[r]
<1>q. /\ q \in Requesting
      /\ KindOfStep(q)
      /\ LocalsOfStep(q)
      /\ ~stale[r] => StoreAgrees(q)
  BY DEF TypeOK, SessionInvariant, RequestOK
<1>s. stale'[r] = (stale[r] /\ req'[r].pc # "idle")
  BY DEF Observe
<1>i. req'[r] = Idle => req'[r] \in Requesting /\ RequestOK(req[r], stale[r])'
  BY IdleOK DEF RequestOK
<1> USE DEF ConnectSteps, DeleteSteps, RefreshSteps, SessionSteps, PairSteps, WriteSteps,
            SessionKinds
<1>a. PICK k \in Kinds, p \in {"fetch", "del_token", "get_token"},
             t \in Tokens \cup {None}, o \in Orgs \cup {None} :
         /\ req'[r] = [Idle EXCEPT !.kind = k, !.pc = p, !.token = t, !.target = o]
         /\ \/ k = "connect" /\ p = "fetch" /\ t \in Tokens
            \/ k = "disconnect" /\ p = "del_token"
            \/ k \in SessionKinds /\ p = "get_token"
  <2>1. CASE BeginConnect(r)
    BY <2>1 DEF BeginConnect, Begin, Become, TypeOK
  <2>2. CASE BeginDisconnect(r)
    BY <2>2 DEF BeginDisconnect, Begin, Become, TypeOK
  <2>3. CASE BeginSession(r)
    BY <2>3 DEF BeginSession, Begin, Become, TypeOK
  <2>4. CASE BeginSwitch(r)
    BY <2>4 DEF BeginSwitch, Begin, Become, TypeOK
  <2> QED
    BY <2>1, <2>2, <2>3, <2>4 DEF Arrive
<1>b. req'[r] = [kind |-> k, pc |-> p, resolved |-> FALSE, token |-> t, target |-> o,
                 org |-> None, member |-> None, fresh |-> None, list |-> <<>>]
  BY <1>a DEF Idle
<1>c. /\ req'[r].kind = k /\ req'[r].pc = p
      /\ req'[r].resolved = FALSE /\ req'[r].token = t
  BY <1>b
<1>d. \/ k = "connect" /\ p = "fetch" /\ t \in Tokens
      \/ k = "disconnect" /\ p = "del_token"
      \/ k \in SessionKinds /\ p = "get_token"
  BY <1>a
<1>3. req'[r] \in Requesting
  <2>1. p \in Steps
    BY <1>d DEF Steps, StoreSteps, SolidtimeSteps
  <2> QED
    BY <1>b, <2>1 DEF Requesting
<1>4. KindOfStep(req'[r])
  BY <1>c, <1>d DEF KindOfStep
<1>5. LocalsOfStep(req'[r])
  BY <1>c, <1>d, ConnectionAssumption DEF LocalsOfStep, ConnectionAssumption
<1>6. StoreAgrees(req[r])'
  BY <1>c, <1>d DEF StoreAgrees
<1> QED
  BY <1>3, <1>4, <1>5, <1>6 DEF RequestOK

\* A request that ends keeps nothing.
LEMMA EndKeepsOwn ==
    ASSUME TypeOK, NEW r \in Requests, CallSolidtime(r) \/ Announce(r) \/ Fail(r)
    PROVE  req'[r] = Idle /\ req'[r] \in Requesting /\ RequestOK(req[r], stale[r])'
<1>1. req'[r] = Idle
  BY DEF CallSolidtime, Announce, Fail, StoreError, SolidtimeError, Finish, Become, TypeOK
<1> QED
  BY <1>1, IdleOK DEF RequestOK

\* Every step of a request replaces its record and leaves the other requests alone.
LEMMA OneRequest ==
    ASSUME TypeOK, NEW r \in Requests, Arrive(r) \/ Progress(r) \/ Fail(r)
    PROVE  req' = [req EXCEPT ![r] = req'[r]]
<1> USE DEF Become, Finish, Goto, TypeOK
<1>1. CASE Arrive(r)
  BY <1>1 DEF Arrive, BeginConnect, BeginDisconnect, BeginSession, BeginSwitch, Begin
<1>2. CASE Connect(r)
  BY <1>2 DEF Connect, ConnectFetch, ConnectPreviousOrg, ConnectSaveMemberships, ConnectSetToken
<1>3. CASE Disconnect(r)
  BY <1>3 DEF Disconnect, DeleteToken, DeleteOrgID, DeleteMemberID, DeleteMemberships
<1>4. CASE ResolveOrgMember(r)
  BY <1>4 DEF ResolveOrgMember, GetToken, GetOrgID, GetMemberID
<1>5. CASE ListOrganizations(r)
  BY <1>5 DEF ListOrganizations, GetMemberships, RefreshToken, RefreshFetch, RefreshSave
<1>6. CASE SetPair(r)
  BY <1>6 DEF SetPair, SetOrgID, SetMemberID
<1>7. CASE CallSolidtime(r) \/ Announce(r) \/ Fail(r)
  BY <1>7 DEF CallSolidtime, Announce, Fail, StoreError, SolidtimeError
<1> QED
  BY <1>1, <1>2, <1>3, <1>4, <1>5, <1>6, <1>7 DEF Progress, SetPair

\* A request keeps its facts through a step of another one: that step changed
\* nothing shared, or it made the request stale.
LEMMA OthersKeep ==
    ASSUME TypeOK, SessionInvariant, NEW r \in Requests, Observe(r),
           req' = [req EXCEPT ![r] = req'[r]],
           NEW s \in Requests, s # r
    PROVE  req'[s] = req[s] /\ RequestOK(req[s], stale[s])'
<1>1. req'[s] = req[s]
  BY DEF TypeOK
<1>2. KindOfStep(req[s]) /\ LocalsOfStep(req[s]) /\ (~stale[s] => StoreAgrees(req[s]))
  BY DEF SessionInvariant, RequestOK
<1>3. stale'[s] = (stale[s] \/ (shared' # shared /\ req[s].pc # "idle"))
  BY DEF Observe, At
<1>4. CASE stale'[s]
  BY <1>1, <1>2, <1>4 DEF RequestOK
<1>5. CASE ~stale'[s] /\ shared' = shared
  <2>1. ~stale[s] /\ UNCHANGED <<token, orgID, memberID, memberships>>
    BY <1>3, <1>5 DEF shared, TypeOK
  <2>2. StoreAgrees(req[s])'
    BY <1>1, <1>2, <2>1 DEF StoreAgrees
  <2> QED
    BY <1>1, <1>2, <2>2 DEF RequestOK
<1>6. CASE req[s].pc = "idle"
  <2>1. req[s].kind = None
    BY <1>2, <1>6 DEF KindOfStep
  <2>2. StoreAgrees(req[s])'
    BY <1>1, <1>6, <2>1, ConnectionAssumption
       DEF StoreAgrees, ConnectionAssumption, AllKinds, SessionKinds, PairSteps, RefreshSteps, WriteSteps
  <2> QED
    BY <1>1, <1>2, <2>2 DEF RequestOK
<1> QED
  BY <1>3, <1>4, <1>5, <1>6

\* Together: every request keeps its facts through every step of a request.
LEMMA RequestsKeep ==
    ASSUME TypeOK, SessionInvariant, NEW r \in Requests, Observe(r),
           Arrive(r) \/ Progress(r) \/ Fail(r)
    PROVE  /\ req' \in [Requests -> Requesting]
           /\ \A s \in Requests : RequestOK(req[s], stale[s])'
<1>1. req'[r] \in Requesting /\ RequestOK(req[r], stale[r])'
  BY ArriveKeepsOwn, ConnectKeepsOwn, DisconnectKeepsOwn, ResolveKeepsOwn, ListKeepsOwn,
     PairKeepsOwn, EndKeepsOwn DEF Progress, SetPair
<1>2. req' = [req EXCEPT ![r] = req'[r]]
  BY OneRequest
<1>3. req' \in [Requests -> Requesting]
  BY <1>1, <1>2 DEF TypeOK
<1>4. \A s \in Requests : RequestOK(req[s], stale[s])'
  BY <1>1, <1>2, OthersKeep
<1> QED
  BY <1>3, <1>4

----------------------------------------------------------------------------
(* The history variables and the session.                                  *)

\* r writes undisturbed: nobody changed anything under it or is half-way.
Alone(r) == ~tainted /\ ~stale[r] /\ \A q \in Requests \ {r} : ~halfway[q]

\* A write sequence goes on through write steps until it is complete.
LEMMA WriteFlow ==
    ASSUME TypeOK, SessionInvariant, NEW r \in Requests, Arrive(r) \/ Progress(r) \/ Fail(r),
           req[r].pc \in WriteSteps \/ shared' # shared
    PROVE  req'[r].pc \in WriteSteps \cup {"idle", "get_list", "call"}
<1> DEFINE q == req[r]
<1> USE DEF WriteSteps, PairSteps, At, Goto, Become, Finish, TypeOK
<1>q. q \in Requesting /\ Idle.pc = "idle"
  BY IdleOK
<1>1. CASE Arrive(r)
  BY <1>1 DEF Arrive, BeginConnect, BeginDisconnect, BeginSession, BeginSwitch, Begin, shared, store
<1>2. CASE ConnectFetch(r) \/ ConnectPreviousOrg(r)
  BY <1>2 DEF ConnectFetch, ConnectPreviousOrg, shared, store
<1>3. CASE ConnectSaveMemberships(r) \/ ConnectSetToken(r) \/ Disconnect(r)
  <2>1. \/ req'[r] = [q EXCEPT !.pc = "set_org", !.list = <<>>]
        \/ \E s \in WriteSteps : req'[r] = [q EXCEPT !.pc = s]
    BY <1>3 DEF ConnectSaveMemberships, ConnectSetToken, Disconnect, DeleteToken, DeleteOrgID,
       DeleteMemberID, DeleteMemberships
  <2> QED
    BY <1>q, <2>1 DEF Requesting
<1>4. CASE ResolveOrgMember(r)
  BY <1>4 DEF ResolveOrgMember, GetToken, GetOrgID, GetMemberID, shared, store
<1>5. CASE GetMemberships(r) \/ RefreshToken(r) \/ RefreshFetch(r)
  BY <1>5 DEF GetMemberships, RefreshToken, RefreshFetch, shared, store
<1>6. CASE RefreshSave(r)
  <2>1. req'[r] = WithOrganizations(q, q.list)
    BY <1>6 DEF RefreshSave
  <2>2. \A m : Select(q, m).pc = "set_org"
    BY <1>q DEF Select, Requesting
  <2> QED
    BY <1>q, <2>1, <2>2 DEF WithOrganizations
<1>7. CASE SetOrgID(r)
  BY <1>q, <1>7 DEF SetOrgID, Requesting
<1>8. CASE SetMemberID(r)
  <2>1. req'[r] = AfterMember(q)
    BY <1>8 DEF SetMemberID
  <2>2. Resolved(q).pc \in {"idle", "get_list", "call"}
    BY <1>q DEF Resolved, Requesting
  <2> QED
    BY <1>q, <2>1, <2>2 DEF AfterMember, Requesting
<1>9. CASE CallSolidtime(r) \/ Announce(r) \/ Fail(r)
  BY <1>9, EndKeepsOwn, <1>q
<1> QED
  BY <1>1, <1>2, <1>3, <1>4, <1>5, <1>6, <1>7, <1>8, <1>9 DEF Progress, Connect, ListOrganizations

\* The parts of HistoryOK that hold for progress and failure alike.
LEMMA HistoryShape ==
    ASSUME TypeOK, SessionInvariant, NEW r \in Requests, Arrive(r) \/ Progress(r) \/ Fail(r),
           Observe(r)
    PROVE  /\ stale' \in [Requests -> BOOLEAN]
           /\ halfway' \in [Requests -> BOOLEAN]
           /\ \A s \in Requests : stale'[s] => req'[s].pc # "idle"
           /\ \A s \in Requests : halfway'[s] => req'[s].pc \in WriteSteps
           /\ \A s \in Requests \ {r} : req'[s] = req[s] /\ halfway'[s] = halfway[s]
           /\ halfway'[r] = (~AtRest(req'[r]) /\ (halfway[r] \/ shared' # shared))
<1>1. \A s \in Requests \ {r} : req'[s] = req[s]
  BY OneRequest DEF TypeOK
<1>2. stale' \in [Requests -> BOOLEAN] /\ halfway' \in [Requests -> BOOLEAN]
  BY DEF Observe, TypeOK
<1>3. /\ \A s \in Requests \ {r} : halfway'[s] = halfway[s]
      /\ halfway'[r] = (~AtRest(req'[r]) /\ (halfway[r] \/ shared' # shared))
  BY DEF Observe, TypeOK
<1>4. \A s \in Requests : stale'[s] => req'[s].pc # "idle"
  BY <1>1 DEF Observe, SessionInvariant, HistoryOK, At
<1>5. \A s \in Requests : halfway'[s] => req'[s].pc \in WriteSteps
  <2>1. \A s \in Requests : halfway[s] => req[s].pc \in WriteSteps
    BY DEF SessionInvariant, HistoryOK
  <2>2. halfway'[r] => req'[r].pc \in WriteSteps
    BY <1>3, <2>1, WriteFlow DEF AtRest
  <2> QED
    BY <1>1, <1>3, <2>1, <2>2
<1> QED
  BY <1>1, <1>2, <1>3, <1>4, <1>5

\* A step that goes well leaves one writer at a time, or is counted as a conflict.
LEMMA OneWriter ==
    ASSUME TypeOK, SessionInvariant, NEW r \in Requests, Arrive(r) \/ Progress(r),
           ObserveProgress(r), ~tainted'
    PROVE  \A s \in Requests : halfway'[s] =>
              ~stale'[s] /\ \A q \in Requests \ {s} : ~halfway'[q]
<1>1. Observe(r)
  BY DEF ObserveProgress
<1>2. /\ \A s \in Requests \ {r} : halfway'[s] = halfway[s]
      /\ halfway'[r] = (~AtRest(req'[r]) /\ (halfway[r] \/ shared' # shared))
      /\ stale'[r] => stale[r]
      /\ \A s \in Requests \ {r} : stale'[s] => stale[s] \/ shared' # shared
  BY <1>1, HistoryShape DEF Observe
<1>3. CASE Replaces(r)
  <2>1. \A s \in Requests \ {r} : ~halfway[s]
    BY <1>3 DEF Replaces
  <2>2. ~stale[r]
    BY <1>3 DEF Replaces
  <2> QED
    BY <1>2, <2>1, <2>2
<1>4. CASE ~tainted /\ ~Conflicts(r)
  <2>1. \A s \in Requests : halfway[s] => ~stale[s] /\ \A q \in Requests \ {s} : ~halfway[q]
    BY <1>4 DEF SessionInvariant, HistoryOK
  <2>2. CASE shared' = shared
    BY <1>2, <2>1, <2>2
  <2>3. CASE shared' # shared
    <3>1. ~stale[r] /\ \A s \in Requests \ {r} : ~halfway[s]
      BY <1>4, <2>3 DEF Conflicts
    <3> QED
      BY <1>2, <3>1
  <2> QED
    BY <2>2, <2>3
<1> QED
  BY <1>3, <1>4 DEF ObserveProgress

\* Nothing shared changes and r was not writing: the session stays as it was.
LEMMA SessionUntouched ==
    ASSUME TypeOK, SessionInvariant, NEW r \in Requests, Arrive(r) \/ Progress(r) \/ Fail(r),
           Observe(r), ~tainted, shared' = shared, ~halfway[r]
    PROVE  /\ (\A s \in Requests : ~halfway'[s]) => Coherent'
           /\ \A s \in Requests :
                 halfway'[s] /\ req'[s].kind \in SessionKinds => PairPending(req[s])'
<1>1. /\ \A s \in Requests \ {r} : req'[s] = req[s] /\ halfway'[s] = halfway[s]
      /\ ~halfway'[r]
  BY HistoryShape
<1>2. UNCHANGED <<token, orgID, memberID, memberships, told>>
  BY DEF shared
<1>3. (\A s \in Requests : ~halfway[s]) => Coherent
  BY DEF SessionInvariant, Settled
<1>4. (\A s \in Requests : ~halfway'[s]) => Coherent'
  BY <1>1, <1>2, <1>3 DEF Coherent, NothingLeft, PairMatches, ListOwned, ToldTruth
<1>5. ASSUME NEW s \in Requests, halfway'[s], req'[s].kind \in SessionKinds
      PROVE  PairPending(req[s])'
  <2>1. s # r /\ req'[s] = req[s] /\ halfway[s]
    BY <1>1, <1>5
  <2>2. PairPending(req[s])
    BY <1>5, <2>1 DEF SessionInvariant
  <2> QED
    BY <1>2, <2>1, <2>2 DEF PairPending, PairMatches, ListOwned, ToldTruth
<1> QED
  BY <1>4, <1>5

\* What a request that resolved its token finds when it is about to write alone.
LEMMA BeforeWrite ==
    ASSUME TypeOK, SessionInvariant, NEW r \in Requests, Alone(r),
           req[r].kind \in SessionKinds, req[r].pc # "get_token"
    PROVE  /\ token = req[r].token /\ token # None
           /\ ListOwned
           /\ ToldTruth
           /\ req[r].pc # "set_member" => PairMatches
<1>1. StoreAgrees(req[r]) /\ LocalsOfStep(req[r])
  BY DEF Alone, SessionInvariant, RequestOK
<1>2. token = req[r].token /\ token # None
  BY <1>1 DEF StoreAgrees, LocalsOfStep
<1>3. CASE halfway[r]
  <2>1. PairPending(req[r])
    BY <1>3 DEF SessionInvariant, Alone
  <2> QED
    BY <1>2, <2>1 DEF PairPending
<1>4. CASE ~halfway[r]
  <2>1. Coherent
    BY <1>4 DEF SessionInvariant, Settled, Alone
  <2> QED
    BY <1>2, <2>1 DEF Coherent
<1> QED
  BY <1>2, <1>3, <1>4

\* A connect or disconnect that was alone leaves a whole session, or none.
LEMMA SessionReplaced ==
    ASSUME TypeOK, SessionInvariant, NEW r \in Requests, Progress(r), Replaces(r)
    PROVE  Coherent'
<1> DEFINE q == req[r]
<1>1. q.pc = "announce" /\ q.kind \in {"connect", "disconnect"} /\ ~stale[r]
  BY DEF Replaces, At
<1>2. StoreAgrees(q) /\ LocalsOfStep(q)
  BY <1>1 DEF SessionInvariant, RequestOK
<1>3. Announce(r)
  BY <1>1 DEF Progress, Connect, ConnectFetch, ConnectPreviousOrg, ConnectSaveMemberships,
     ConnectSetToken, Disconnect, DeleteToken, DeleteOrgID, DeleteMemberID, DeleteMemberships,
     ResolveOrgMember, GetToken, GetOrgID, GetMemberID, ListOrganizations, GetMemberships,
     RefreshToken, RefreshFetch, RefreshSave, SetOrgID, SetMemberID, CallSolidtime, At
<1>4. /\ UNCHANGED <<token, orgID, memberID, memberships>>
      /\ told' = (q.kind = "connect")
  BY <1>1, <1>3 DEF Announce, store
<1>5. CASE q.kind = "connect"
  <2>1. /\ token = q.token /\ token # None
        /\ \A m \in Entries(memberships) : m.account = q.token
        /\ orgID = q.org /\ memberID = q.member
    BY <1>1, <1>2, <1>5 DEF StoreAgrees, LocalsOfStep, WriteSteps
  <2>2. q.member \in Members /\ q.org = q.member.org /\ q.member.account = q.token
    BY <1>1, <1>2, <1>5 DEF LocalsOfStep
  <2>3. memberID = Member(token, orgID)
    BY <2>1, <2>2 DEF Members, Member
  <2> QED
    BY <1>4, <1>5, <2>1, <2>3
       DEF Coherent, NothingLeft, PairMatches, ListOwned, ToldTruth, Member
<1>6. CASE q.kind = "disconnect"
  <2>1. token = None /\ orgID = None /\ memberID = None /\ memberships = <<>>
    BY <1>1, <1>2, <1>6 DEF StoreAgrees
  <2> QED
    BY <1>4, <1>6, <2>1 DEF Coherent, NothingLeft, PairMatches, ListOwned, ToldTruth
<1> QED
  BY <1>1, <1>5, <1>6

\* The steps of a request that writes, or is about to.
LEMMA WriteActions ==
    ASSUME TypeOK, SessionInvariant, NEW r \in Requests, Progress(r),
           halfway[r] \/ shared' # shared
    PROVE  \/ ConnectSaveMemberships(r) \/ ConnectSetToken(r) \/ Disconnect(r)
           \/ SetPair(r) \/ RefreshSave(r) \/ Announce(r)
<1>1. halfway[r] => req[r].pc \in WriteSteps
  BY DEF SessionInvariant, HistoryOK
<1>2. /\ ~ConnectFetch(r) /\ ~ConnectPreviousOrg(r) /\ ~ResolveOrgMember(r)
      /\ ~GetMemberships(r) /\ ~RefreshToken(r) /\ ~RefreshFetch(r) /\ ~CallSolidtime(r)
  BY <1>1 DEF ConnectFetch, ConnectPreviousOrg, ResolveOrgMember, GetToken, GetOrgID, GetMemberID,
     GetMemberships, RefreshToken, RefreshFetch, CallSolidtime, At, store, shared, WriteSteps, PairSteps
<1> QED
  BY <1>2 DEF Progress, Connect, ListOrganizations, SetPair

\* A request that writes alone keeps the session, or completes it.
LEMMA SessionWritten ==
    ASSUME TypeOK, SessionInvariant, NEW r \in Requests, Progress(r), Observe(r), Alone(r),
           halfway[r] \/ shared' # shared
    PROVE  /\ (\A s \in Requests : ~halfway'[s]) => Coherent'
           /\ \A s \in Requests :
                 halfway'[s] /\ req'[s].kind \in SessionKinds => PairPending(req[s])'
<1> DEFINE q == req[r]
<1>q. /\ q \in Requesting /\ KindOfStep(q) /\ LocalsOfStep(q) /\ StoreAgrees(q)
      /\ halfway[r] => q.pc \in WriteSteps
  BY DEF TypeOK, SessionInvariant, RequestOK, Alone, HistoryOK
<1>h. /\ halfway'[r] = ~AtRest(req'[r])
      /\ \A s \in Requests \ {r} : ~halfway'[s]
  BY HistoryShape DEF Alone
<1>c. SUFFICES /\ AtRest(req'[r]) => Coherent'
               /\ ~AtRest(req'[r]) /\ req'[r].kind \in SessionKinds => PairPending(req[r])'
  BY <1>h
<1> USE DEF SessionKinds
<1>1. CASE ConnectSaveMemberships(r) \/ ConnectSetToken(r) \/ Disconnect(r)
  <2>1. \/ q.pc \in ConnectSteps
        \/ q.pc \in DeleteSteps
    BY <1>1 DEF ConnectSaveMemberships, ConnectSetToken, Disconnect, DeleteToken, DeleteOrgID,
       DeleteMemberID, DeleteMemberships, At, ConnectSteps, DeleteSteps
  <2>2. q.kind \in {"connect", "disconnect"}
    BY <1>q, <2>1 DEF KindOfStep
  <2>3. \/ req'[r] = [q EXCEPT !.pc = "set_org", !.list = <<>>]
        \/ \E s \in WriteSteps : req'[r] = [q EXCEPT !.pc = s]
    BY <1>1 DEF ConnectSaveMemberships, ConnectSetToken, Disconnect, DeleteToken, DeleteOrgID,
       DeleteMemberID, DeleteMemberships, Goto, Become, TypeOK, WriteSteps
  <2>4. req'[r].kind = q.kind /\ req'[r].pc \in WriteSteps
    BY <1>q, <2>3 DEF Requesting, WriteSteps, PairSteps
  <2> QED
    BY <2>2, <2>4 DEF AtRest, WriteSteps, PairSteps
<1>2. CASE SetPair(r) /\ q.kind = "connect"
  <2>1. \E s \in {"set_member", "set_token"} : req'[r] = [q EXCEPT !.pc = s]
    BY <1>2 DEF SetPair, SetOrgID, SetMemberID, AfterMember, Goto, Become, TypeOK
  <2>2. req'[r].kind = "connect" /\ req'[r].pc \in {"set_member", "set_token"}
    BY <1>q, <1>2, <2>1 DEF Requesting
  <2> QED
    BY <2>2 DEF AtRest
<1>3. CASE SetOrgID(r) /\ q.kind \in SessionKinds
  <2>1. /\ q.pc = "set_org" /\ req'[r] = [q EXCEPT !.pc = "set_member"]
        /\ UNCHANGED <<token, memberID, memberships, told>>
    BY <1>3 DEF SetOrgID, At, Goto, Become, TypeOK
  <2>2. token # None /\ ListOwned /\ ToldTruth
    BY <1>3, <2>1, BeforeWrite
  <2>3. req'[r].pc = "set_member"
    BY <1>q, <2>1 DEF Requesting
  <2> QED
    BY <2>1, <2>2, <2>3 DEF PairPending, ListOwned, ToldTruth, AtRest
<1>4. CASE SetMemberID(r) /\ q.kind \in SessionKinds
  <2>1. /\ q.pc = "set_member" /\ memberID' = q.member
        /\ UNCHANGED <<token, orgID, memberships, told>>
    BY <1>4 DEF SetMemberID, At
  <2>2. token = q.token /\ token # None /\ ListOwned /\ ToldTruth
    BY <1>4, <2>1, BeforeWrite
  <2>3. /\ q.member \in Entries(memberships) /\ q.member \in Members
        /\ q.org = q.member.org /\ orgID = q.org
    BY <1>q, <1>4, <2>1 DEF StoreAgrees, LocalsOfStep, PairSteps
  <2>4. q.member = Member(token, orgID)
    BY <2>2, <2>3 DEF ListOwned, Members, Member
  <2>5. Coherent'
    BY <2>1, <2>2, <2>4 DEF Coherent, NothingLeft, PairMatches, ListOwned, ToldTruth, Member
  <2> QED
    BY <2>1, <2>2, <2>5 DEF PairPending, Coherent
<1>5. CASE RefreshSave(r)
  <2>1. /\ q.pc = "refresh_save" /\ memberships' = q.list
        /\ UNCHANGED <<token, orgID, memberID, told>>
    BY <1>5 DEF RefreshSave, At
  <2>2. q.kind \in SessionKinds
    BY <1>q, <2>1 DEF KindOfStep, SessionSteps, RefreshSteps
  <2>3. token # None /\ ToldTruth /\ PairMatches
    BY <2>1, <2>2, BeforeWrite
  <2>4. \A m \in Entries(q.list) : m.account = token
    BY <1>q, <2>1 DEF StoreAgrees, LocalsOfStep
  <2>5. Coherent'
    BY <2>1, <2>3, <2>4 DEF Coherent, NothingLeft, PairMatches, ListOwned, ToldTruth
  <2> QED
    BY <2>1, <2>3, <2>5 DEF PairPending, Coherent
<1>6. CASE Announce(r)
  <2>1. /\ q.pc = "announce" /\ UNCHANGED <<token, orgID, memberID, memberships>>
        /\ told' = IF q.kind = "switch" THEN told ELSE q.kind = "connect"
    BY <1>6 DEF Announce, At, store
  <2>2. AtRest(req'[r])
    BY <1>6, EndKeepsOwn DEF AtRest, Idle
  <2>3. q.kind \in {"connect", "disconnect", "switch"}
    BY <1>q, <2>1 DEF KindOfStep
  <2>4. CASE q.kind \in {"connect", "disconnect"}
    <3>1. Replaces(r)
      BY <2>1, <2>4 DEF Replaces, At, Alone
    <3> QED
      BY <2>2, <3>1, SessionReplaced
  <2>6. CASE q.kind = "switch"
    <3>1. token # None /\ ListOwned /\ ToldTruth /\ PairMatches
      BY <2>1, <2>6, BeforeWrite
    <3>2. Coherent'
      BY <2>1, <2>6, <3>1 DEF Coherent, NothingLeft, PairMatches, ListOwned, ToldTruth
    <3> QED
      BY <2>2, <3>2
  <2> QED
    BY <2>3, <2>4, <2>6
<1>7. SetPair(r) => q.kind \in SessionKinds \cup {"connect"}
  BY <1>q DEF SetPair, SetOrgID, SetMemberID, At, KindOfStep, PairSteps
<1> QED
  BY WriteActions, <1>1, <1>2, <1>3, <1>4, <1>5, <1>6, <1>7 DEF SetPair

----------------------------------------------------------------------------
(* The invariant is inductive. *)

\* No request is in flight at first, and a legacy session lacks a member ID only.
LEMMA InvariantInit == HInit => SessionInvariant
<1> SUFFICES ASSUME HInit PROVE SessionInvariant
  OBVIOUS
<1>1. \A r \in Requests : req[r] = Idle /\ stale[r] = FALSE /\ halfway[r] = FALSE
  BY DEF HInit, Init
<1>2. \A r \in Requests : RequestOK(req[r], stale[r])
  BY <1>1, IdleOK DEF RequestOK
<1>3. HistoryOK
  BY <1>1 DEF HistoryOK
<1>4. Coherent
  <2>1. memberID = None /\ told = (token # None)
    BY DEF HInit, Init
  <2>2. CASE token = None /\ orgID = None /\ memberships = <<>>
    BY <2>1, <2>2 DEF Coherent, NothingLeft, PairMatches, ListOwned, ToldTruth
  <2>3. CASE \E s \in LegacySessions : /\ \A m \in Entries(s.list) : m.account = s.token
                                       /\ token = s.token /\ orgID = s.org /\ memberships = s.list
    <3>1. token # None /\ \A m \in Entries(memberships) : m.account = token
      BY <2>3, ConnectionAssumption DEF LegacySessions, ConnectionAssumption
    <3> QED
      BY <2>1, <3>1 DEF Coherent, NothingLeft, PairMatches, ListOwned, ToldTruth
  <2> QED
    BY <2>2, <2>3 DEF HInit, Init
<1> QED
  BY <1>1, <1>2, <1>3, <1>4 DEF SessionInvariant

\* Arrivals and steps that go well.
LEMMA InvariantProgress ==
    ASSUME TypeOK, SessionInvariant, NEW r \in Requests, Arrive(r) \/ Progress(r),
           ObserveProgress(r)
    PROVE  SessionInvariant'
<1>1. Observe(r)
  BY DEF ObserveProgress
<1>2. \A s \in Requests : RequestOK(req[s], stale[s])'
  BY <1>1, RequestsKeep
<1>3. HistoryOK'
  BY <1>1, HistoryShape, OneWriter DEF HistoryOK
<1>4. Arrive(r) => /\ ~Replaces(r) /\ ~halfway[r] /\ shared' = shared
  BY DEF Arrive, BeginConnect, BeginDisconnect, BeginSession, BeginSwitch, Begin, At, Replaces,
     shared, store, SessionInvariant, HistoryOK, WriteSteps, PairSteps
<1>5. ASSUME ~tainted'
      PROVE  /\ (\A s \in Requests : ~halfway'[s]) => Coherent'
             /\ \A s \in Requests :
                   halfway'[s] /\ req'[s].kind \in SessionKinds => PairPending(req[s])'
  <2>1. CASE Replaces(r)
    <3>1. Coherent'
      BY <1>4, <2>1, SessionReplaced
    <3>2. \A s \in Requests \ {r} : ~halfway'[s]
      BY <1>1, <2>1, HistoryShape DEF Replaces
    <3>3. req'[r].pc \in WriteSteps /\ req'[r].kind \in SessionKinds => FALSE
      <4>1. Announce(r)
        BY <1>4, <2>1 DEF Replaces, Progress, Connect, ConnectFetch, ConnectPreviousOrg,
           ConnectSaveMemberships, ConnectSetToken, Disconnect, DeleteToken, DeleteOrgID,
           DeleteMemberID, DeleteMemberships, ResolveOrgMember, GetToken, GetOrgID, GetMemberID,
           ListOrganizations, GetMemberships, RefreshToken, RefreshFetch, RefreshSave, SetOrgID,
           SetMemberID, CallSolidtime, At
      <4> QED
        BY <4>1, EndKeepsOwn DEF WriteSteps, PairSteps, Idle
    <3>4. halfway'[r] => req'[r].pc \in WriteSteps
      BY <1>1, HistoryShape
    <3> QED
      BY <3>1, <3>2, <3>3, <3>4
  <2>2. CASE ~tainted /\ ~Conflicts(r) /\ ~halfway[r] /\ shared' = shared
    BY <1>1, <2>2, SessionUntouched
  <2>3. CASE ~tainted /\ ~Conflicts(r) /\ (halfway[r] \/ shared' # shared)
    <3>1. Alone(r)
      BY <2>3 DEF Alone, Conflicts, SessionInvariant, HistoryOK
    <3> QED
      BY <1>1, <1>4, <2>3, <3>1, SessionWritten
  <2> QED
    BY <1>5, <2>1, <2>2, <2>3 DEF ObserveProgress
<1> QED
  BY <1>2, <1>3, <1>5 DEF SessionInvariant, Settled

\* A request that fails.
LEMMA InvariantFailure ==
    ASSUME TypeOK, SessionInvariant, NEW r \in Requests, Fail(r), ObserveFailure(r)
    PROVE  SessionInvariant'
<1>1. Observe(r) /\ shared' = shared
  BY DEF ObserveFailure, Fail, StoreError, SolidtimeError, shared, store
<1>2. \A s \in Requests : RequestOK(req[s], stale[s])'
  BY <1>1, RequestsKeep
<1>3. /\ \A s \in Requests : stale'[s] => stale[s]
      /\ \A s \in Requests \ {r} : halfway'[s] = halfway[s]
      /\ halfway'[r] => halfway[r]
  BY <1>1, HistoryShape DEF Observe
<1>4. tainted' = (tainted \/ halfway[r])
  BY DEF ObserveFailure
<1>5. HistoryOK'
  BY <1>1, <1>3, <1>4, HistoryShape DEF HistoryOK, SessionInvariant
<1>6. ASSUME ~tainted'
      PROVE  /\ (\A s \in Requests : ~halfway'[s]) => Coherent'
             /\ \A s \in Requests :
                   halfway'[s] /\ req'[s].kind \in SessionKinds => PairPending(req[s])'
  BY <1>1, <1>4, <1>6, SessionUntouched
<1> QED
  BY <1>2, <1>5, <1>6 DEF SessionInvariant, Settled

\* The end of the process, which all requests share.
LEMMA InvariantDeath ==
    ASSUME TypeOK, SessionInvariant, ProcessDies, ObserveDeath
    PROVE  SessionInvariant'
<1>1. \A r \in Requests : req'[r] = Idle /\ stale'[r] = FALSE /\ halfway'[r] = FALSE
  BY DEF ProcessDies, ObserveDeath
<1>2. \A r \in Requests : RequestOK(req[r], stale[r])'
  BY <1>1, IdleOK DEF RequestOK
<1>3. HistoryOK'
  BY <1>1 DEF HistoryOK
<1>4. ~tainted' => Coherent'
  <2>1. ~tainted' => Coherent
    BY DEF ObserveDeath, SessionInvariant, Settled
  <2>2. UNCHANGED <<token, orgID, memberID, memberships, told>>
    BY DEF ProcessDies, store
  <2> QED
    BY <2>1, <2>2 DEF Coherent, NothingLeft, PairMatches, ListOwned, ToldTruth
<1> QED
  BY <1>1, <1>2, <1>3, <1>4 DEF SessionInvariant, Settled

\* Steps that touch neither the store nor a request.
LEMMA InvariantStutter ==
    ASSUME TypeOK, SessionInvariant,
           UNCHANGED <<token, orgID, memberID, memberships, told, req, stale, halfway, tainted>>
    PROVE  SessionInvariant'
BY DEF SessionInvariant, RequestOK, StoreAgrees, HistoryOK, Settled, Coherent, NothingLeft,
   PairMatches, ListOwned, ToldTruth, PairPending

\* Every variable keeps its type through every step.
LEMMA TypeNext ==
    ASSUME TypeOK, SessionInvariant, [HNext]_hvars
    PROVE  TypeOK'
<1>1. ASSUME NEW r \in Requests, Arrive(r) \/ Progress(r) \/ Fail(r), Observe(r),
             tainted' \in BOOLEAN
      PROVE  TypeOK'
  <2>1. req' \in [Requests -> Requesting]
    BY <1>1, RequestsKeep
  <2>2. stale' \in [Requests -> BOOLEAN] /\ halfway' \in [Requests -> BOOLEAN]
    BY <1>1, HistoryShape
  <2>3. /\ req[r] \in Requesting
        /\ token \in Tokens \cup {None} /\ orgID \in Orgs \cup {None}
        /\ memberID \in Members \cup {None} /\ memberships \in MembershipLists \cup {<<>>}
        /\ told \in BOOLEAN /\ plugin \in {"ready", "no_client", "inactive"}
    BY DEF TypeOK
  <2>4. /\ token' \in Tokens \cup {None} /\ orgID' \in Orgs \cup {None}
        /\ memberID' \in Members \cup {None} /\ memberships' \in MembershipLists \cup {<<>>}
        /\ told' \in BOOLEAN /\ plugin' \in {"ready", "no_client", "inactive"}
    <3> USE <2>3 DEF Requesting, store
    <3>1. CASE Arrive(r)
      BY <3>1 DEF Arrive, BeginConnect, BeginDisconnect, BeginSession, BeginSwitch, Begin
    <3>2. CASE Connect(r)
      BY <3>2 DEF Connect, ConnectFetch, ConnectPreviousOrg, ConnectSaveMemberships, ConnectSetToken
    <3>3. CASE Disconnect(r)
      BY <3>3 DEF Disconnect, DeleteToken, DeleteOrgID, DeleteMemberID, DeleteMemberships
    <3>4. CASE ResolveOrgMember(r)
      BY <3>4 DEF ResolveOrgMember, GetToken, GetOrgID, GetMemberID
    <3>5. CASE ListOrganizations(r)
      BY <3>5 DEF ListOrganizations, GetMemberships, RefreshToken, RefreshFetch, RefreshSave
    <3>6. CASE SetPair(r)
      BY <3>6 DEF SetPair, SetOrgID, SetMemberID
    <3>7. CASE CallSolidtime(r) \/ Announce(r) \/ Fail(r)
      BY <3>7 DEF CallSolidtime, Announce, Fail, StoreError, SolidtimeError
    <3> QED
      BY <1>1, <3>1, <3>2, <3>3, <3>4, <3>5, <3>6, <3>7 DEF Progress, SetPair
  <2> QED
    BY <1>1, <2>1, <2>2, <2>4 DEF TypeOK
<1>2. ASSUME NEW r \in Requests, Arrive(r) \/ Progress(r), ObserveProgress(r)
      PROVE  TypeOK'
  BY <1>1, <1>2 DEF ObserveProgress
<1>3. ASSUME NEW r \in Requests, Fail(r), ObserveFailure(r)
      PROVE  TypeOK'
  BY <1>1, <1>3 DEF ObserveFailure
<1>4. ASSUME ProcessDies, ObserveDeath
      PROVE  TypeOK'
  BY <1>4, IdleOK DEF TypeOK, ProcessDies, ObserveDeath, store
<1>5. CASE Administrate /\ UNCHANGED history
  BY <1>5 DEF TypeOK, Administrate, ClearServerURL, SetServerURL, history, store
<1>6. CASE UNCHANGED hvars
  BY <1>6 DEF TypeOK, hvars
<1> QED
  BY <1>2, <1>3, <1>4, <1>5, <1>6 DEF HNext, Crash, NilClient

\* Every step of the system keeps the invariant.
LEMMA InvariantNext ==
    ASSUME TypeOK, SessionInvariant, [HNext]_hvars
    PROVE  SessionInvariant'
<1>1. ASSUME NEW r \in Requests, Arrive(r) \/ Progress(r), ObserveProgress(r)
      PROVE  SessionInvariant'
  BY <1>1, InvariantProgress
<1>2. ASSUME NEW r \in Requests, Fail(r), ObserveFailure(r)
      PROVE  SessionInvariant'
  BY <1>2, InvariantFailure
<1>3. CASE (Crash \/ \E r \in Requests : NilClient(r)) /\ ObserveDeath
  BY <1>3, InvariantDeath DEF Crash, NilClient
<1>4. CASE Administrate /\ UNCHANGED history
  BY <1>4, InvariantStutter DEF Administrate, ClearServerURL, SetServerURL, history, store
<1>5. CASE UNCHANGED hvars
  BY <1>5, InvariantStutter DEF hvars
<1> QED
  BY <1>1, <1>2, <1>3, <1>4, <1>5 DEF HNext

----------------------------------------------------------------------------
(* Theorems. *)

\* Types and the inductive invariant hold in every reachable state.
THEOREM InvariantHolds == HSpec => [](TypeOK /\ SessionInvariant)
<1>1. HInit => TypeOK /\ SessionInvariant
  BY TypeInit, InvariantInit
<1>2. TypeOK /\ SessionInvariant /\ [HNext]_hvars => (TypeOK /\ SessionInvariant)'
  BY TypeNext, InvariantNext
<1> QED
  BY <1>1, <1>2, PTL DEF HSpec

\* Every variable keeps its type: no interleaving of handlers leaves a local, a key of
\* the store or a continuation in a shape its code does not know.
THEOREM TypesHold == HSpec => []TypeOK
BY InvariantHolds, PTL

\* Whatever requests overlap, fail or die: while no write sequence is open and none
\* overlapped another or was cut short since the last undisturbed connect or
\* disconnect, the four keys describe one session of one account.
THEOREM SessionCoherence == HSpec => []SessionCoherent
<1>1. SessionInvariant => SessionCoherent
  BY DEF SessionInvariant, SessionCoherent, Coherent
<1> QED
  BY <1>1, InvariantHolds, PTL

\* Under the same condition the tabs were last told whether the user is connected.
THEOREM AnnouncementsTrue == HSpec => []AnnouncedTruth
<1>1. SessionInvariant => AnnouncedTruth
  BY DEF SessionInvariant, AnnouncedTruth, Coherent
<1> QED
  BY <1>1, InvariantHolds, PTL

\* No handler ever runs with a part of its session missing.
THEOREM NoPartialSession == HSpec => []ResolvedComplete
<1>1. TypeOK /\ SessionInvariant => ResolvedComplete
  <2> SUFFICES ASSUME SessionInvariant, NEW r \in Requests, req[r].resolved
               PROVE  /\ req[r].token # None
                      /\ req[r].pc = "call" => req[r].org # None /\ req[r].member # None
    BY DEF ResolvedComplete
  <2>1. KindOfStep(req[r]) /\ LocalsOfStep(req[r])
    BY DEF SessionInvariant, RequestOK
  <2> QED
    BY <2>1 DEF KindOfStep, LocalsOfStep, SessionKinds, RefreshSteps, PairSteps
<1> QED
  BY <1>1, InvariantHolds, PTL

\* A handler's session is the stored one unless somebody changed it since.
THEOREM SessionIsSnapshot == HSpec => []ResolvedSnapshot
<1>1. SessionInvariant => ResolvedSnapshot
  <2> SUFFICES ASSUME SessionInvariant, NEW r \in Requests, At(r, "call"), ~stale[r]
               PROVE  token = req[r].token /\ orgID = req[r].org /\ memberID = req[r].member
    BY DEF ResolvedSnapshot
  <2>1. KindOfStep(req[r]) /\ StoreAgrees(req[r]) /\ req[r].pc = "call"
    BY DEF SessionInvariant, RequestOK, At
  <2> QED
    BY <2>1 DEF KindOfStep, StoreAgrees, SessionSteps
<1> QED
  BY <1>1, InvariantHolds, PTL

\* A switch tells the tabs of an organization only once both keys are its own.
THEOREM SwitchesComplete == HSpec => []SwitchComplete
<1>1. TypeOK /\ SessionInvariant => SwitchComplete
  <2> SUFFICES ASSUME SessionInvariant, NEW r \in Requests, At(r, "announce"),
                      req[r].kind = "switch", ~stale[r]
               PROVE  /\ req[r].org = req[r].target
                      /\ orgID = req[r].target
                      /\ memberID # None /\ memberID.org = orgID
    BY DEF SwitchComplete
  <2>1. /\ KindOfStep(req[r]) /\ LocalsOfStep(req[r]) /\ StoreAgrees(req[r])
        /\ req[r].pc = "announce"
    BY DEF SessionInvariant, RequestOK, At
  <2>2. /\ req[r].resolved /\ req[r].member \in Members /\ req[r].org = req[r].member.org
        /\ req[r].org = req[r].target
    BY <2>1 DEF KindOfStep, LocalsOfStep
  <2>3. orgID = req[r].org /\ memberID = req[r].member
    BY <2>1 DEF StoreAgrees
  <2> QED
    BY <2>2, <2>3, ConnectionAssumption DEF ConnectionAssumption
<1> QED
  BY <1>1, InvariantHolds, PTL

----------------------------------------------------------------------------
(* The keys implement the register.                                        *)

\* With a token there is a session, that of its account.
LEMMA StoredPresent == TypeOK /\ token # None => Stored # None /\ Stored.account = token
<1> SUFFICES ASSUME TypeOK, token # None PROVE Stored # None /\ Stored.account = token
  OBVIOUS
<1>1. Stored \in [account : Tokens, org : Orgs \cup {None}]
  BY DEF Stored, TypeOK
<1>2. Stored \in Members \/ Stored \in [account : Tokens, org : {None}]
  BY <1>1 DEF Members
<1>3. Stored # None
  BY <1>2, ConnectionAssumption DEF ConnectionAssumption
<1> QED
  BY <1>3 DEF Stored

\* What a request in the midst of its writes is about to leave: the session of a
\* connect or of a switch or repair is a whole one, and a disconnect leaves none.
LEMMA GoalOfWriter ==
    ASSUME TypeOK, SessionInvariant, NEW r \in Requests, req[r].pc \in WriteSteps
    PROVE  /\ req[r].kind \in {"connect", "disconnect"} \cup SessionKinds
           /\ req[r].kind = "disconnect" => Goal(req[r]) = None
           /\ req[r].kind # "disconnect" =>
                 /\ Goal(req[r]) \in [account : Tokens, org : Orgs]
                 /\ Goal(req[r]).account = req[r].token
<1> DEFINE q == req[r]
<1>1. /\ q \in Requesting /\ KindOfStep(q) /\ LocalsOfStep(q) /\ q.pc \in WriteSteps
  BY DEF TypeOK, SessionInvariant, RequestOK
<1>2. q.kind \in {"connect", "disconnect"} \cup SessionKinds
  BY <1>1 DEF KindOfStep, WriteSteps, PairSteps, ConnectSteps, DeleteSteps, SessionKinds
<1>3. q.kind = "disconnect" => Goal(q) = None
  BY DEF Goal
<1>4. ASSUME q.kind # "disconnect"
      PROVE  Goal(q) \in [account : Tokens, org : Orgs] /\ Goal(q).account = q.token
  <2>1. q.pc \in PairSteps \cup {"set_token", "announce"}
    BY <1>1, <1>4 DEF KindOfStep, WriteSteps, DeleteSteps
  <2>2. q.token \in Tokens
    BY <1>1, <1>2, <1>4, <2>1 DEF LocalsOfStep, PairSteps, Requesting
  <2>3. q.org \in Orgs
    BY <1>1, <1>4, <2>1 DEF LocalsOfStep, Members
  <2> QED
    BY <1>4, <2>2, <2>3 DEF Goal, Member
<1> QED
  BY <1>2, <1>3, <1>4

\* What the register shows: nothing of a torn session, the keys when no request is
\* half-way, and the session being written when one is.  What is written is a session,
\* and a token is never without one.
Shown ==
    /\ tainted => Status = "torn" /\ Session = None
    /\ Settled => Status = "steady" /\ Session = Stored
    /\ ~tainted => \A r \in Requests : halfway[r] =>
          Status = OperationOf(req[r]) /\ Session = Goal(req[r])
    /\ \A r \in Requests : req[r].pc \in WriteSteps =>
          /\ req[r].kind \in {"connect", "disconnect"} \cup SessionKinds
          /\ req[r].kind = "disconnect" => Goal(req[r]) = None
          /\ req[r].kind # "disconnect" =>
                /\ Goal(req[r]) \in [account : Tokens, org : Orgs]
                /\ Goal(req[r]).account = req[r].token
    /\ token # None => Stored # None /\ Stored.account = token

\* The request half-way through its writes is the only one.
LEMMA ShownHolds == TypeOK /\ SessionInvariant => Shown
<1> SUFFICES ASSUME TypeOK, SessionInvariant PROVE Shown
  OBVIOUS
<1>1. ASSUME ~tainted, NEW r \in Requests, halfway[r]
      PROVE  ~Settled /\ Writer = r
  <2>1. \A q \in Requests \ {r} : ~halfway[q]
    BY <1>1 DEF SessionInvariant, HistoryOK
  <2> QED
    BY <1>1, <2>1 DEF Writer, Settled
<1>2. tainted => Status = "torn" /\ Session = None
  BY DEF Status, Session
<1>3. Settled => Status = "steady" /\ Session = Stored
  BY DEF Status, Session, Settled
<1>4. ASSUME ~tainted, NEW r \in Requests, halfway[r]
      PROVE  Status = OperationOf(req[r]) /\ Session = Goal(req[r])
  BY <1>1, <1>4 DEF Status, Session
<1> QED
  BY <1>2, <1>3, <1>4, GoalOfWriter, StoredPresent DEF Shown

\* Until its last write a request keeps to the session it began to write, and the
\* tabs are told nothing.
LEMMA WriteGoesOn ==
    ASSUME TypeOK, SessionInvariant, NEW r \in Requests, Progress(r),
           halfway[r] \/ shared' # shared, ~AtRest(req'[r])
    PROVE  /\ told' = told
           /\ req'[r].kind = req[r].kind
           /\ halfway[r] => Goal(req'[r]) = Goal(req[r])
           /\ req[r].kind \in SessionKinds => token' = token
<1> DEFINE q == req[r]
<1>q. q \in Requesting /\ KindOfStep(q)
  BY DEF TypeOK, SessionInvariant, RequestOK
<1> USE DEF At, Goto, Become, TypeOK
<1>1. ASSUME NEW s, NEW l, req'[r] = [q EXCEPT !.pc = s, !.list = l]
      PROVE  req'[r].kind = q.kind /\ Goal(req'[r]) = Goal(q)
  BY <1>q, <1>1 DEF Requesting, Goal
<1>2. CASE ConnectSaveMemberships(r)
  BY <1>1, <1>2 DEF ConnectSaveMemberships
<1>3. CASE ConnectSetToken(r)
  <2>1. q.kind = "connect" /\ told' = told /\ req'[r] = [q EXCEPT !.pc = "announce"]
    BY <1>q, <1>3 DEF ConnectSetToken, KindOfStep, ConnectSteps
  <2>2. req'[r].kind = q.kind /\ Goal(req'[r]) = Goal(q)
    BY <1>q, <2>1 DEF Requesting, Goal
  <2> QED
    BY <2>1, <2>2 DEF SessionKinds
<1>4. CASE Disconnect(r)
  <2>1. /\ told' = told
        /\ q.pc \in DeleteSteps
        /\ \E s \in Steps : req'[r] = [q EXCEPT !.pc = s]
    BY <1>4 DEF Disconnect, DeleteToken, DeleteOrgID, DeleteMemberID, DeleteMemberships,
       DeleteSteps, Steps, StoreSteps
  <2>2. q.kind = "disconnect"
    BY <1>q, <2>1 DEF KindOfStep
  <2>3. req'[r].kind = q.kind /\ Goal(req'[r]) = Goal(q)
    BY <1>q, <2>1 DEF Requesting, Goal
  <2> QED
    BY <2>1, <2>2, <2>3 DEF SessionKinds
<1>5. CASE SetOrgID(r)
  <2>1. told' = told /\ token' = token /\ req'[r] = [q EXCEPT !.pc = "set_member"]
    BY <1>5 DEF SetOrgID
  <2>2. req'[r].kind = q.kind /\ Goal(req'[r]) = Goal(q)
    BY <1>q, <2>1 DEF Requesting, Goal
  <2> QED
    BY <2>1, <2>2
<1>6. CASE SetMemberID(r)
  <2>1. told' = told /\ token' = token /\ req'[r] = AfterMember(q)
    BY <1>6 DEF SetMemberID
  <2>2. Resolved(q).pc \in {"idle", "get_list", "call"}
    BY <1>q DEF Resolved, Requesting, Idle
  <2>3. \E s \in {"set_token", "announce"} : req'[r] = [q EXCEPT !.pc = s]
    BY <2>1, <2>2 DEF AfterMember, AtRest
  <2>4. req'[r].kind = q.kind /\ Goal(req'[r]) = Goal(q)
    BY <1>q, <2>3 DEF Requesting, Goal
  <2> QED
    BY <2>1, <2>4
<1>7. CASE RefreshSave(r)
  <2>1. /\ told' = told /\ token' = token /\ q.pc = "refresh_save"
        /\ req'[r] = WithOrganizations(q, q.list)
    BY <1>7 DEF RefreshSave
  <2>2. ~halfway[r]
    BY <2>1 DEF SessionInvariant, HistoryOK, WriteSteps, PairSteps
  <2>3. \E m : req'[r] = Select(q, m)
    BY <2>1 DEF WithOrganizations, AtRest, Idle
  <2>4. req'[r].kind = q.kind
    BY <1>q, <2>3 DEF Select, Requesting
  <2> QED
    BY <2>1, <2>2, <2>4
<1>8. ~Announce(r)
  BY EndKeepsOwn DEF AtRest, Idle
<1> QED
  BY WriteActions, <1>2, <1>3, <1>4, <1>5, <1>6, <1>7, <1>8 DEF SetPair

\* A request that is about to publish has left the session it meant to.
LEMMA AnnouncedGoal ==
    ASSUME TypeOK, SessionInvariant, NEW r \in Requests, req[r].pc = "announce", ~stale[r]
    PROVE  Stored = Goal(req[r])
<1> DEFINE q == req[r]
<1>1. /\ KindOfStep(q) /\ LocalsOfStep(q) /\ StoreAgrees(q)
      /\ None \notin Members
  BY ConnectionAssumption DEF SessionInvariant, RequestOK, ConnectionAssumption
<1>2. q.kind \in {"connect", "disconnect", "switch"}
  BY <1>1 DEF KindOfStep
<1>3. CASE q.kind = "disconnect"
  <2>1. token = None
    BY <1>1, <1>3 DEF StoreAgrees
  <2> QED
    BY <1>3, <2>1 DEF Stored, Goal
<1>4. CASE q.kind \in {"connect", "switch"}
  <2>1. q.member \in Members /\ q.token # None
    BY <1>1, <1>4 DEF LocalsOfStep, SessionKinds
  <2>2. token = q.token /\ orgID = q.org /\ memberID = q.member
    BY <1>1, <1>4 DEF StoreAgrees, SessionKinds
  <2> QED
    BY <1>1, <1>4, <2>1, <2>2 DEF Stored, Goal, Member
<1> QED
  BY <1>2, <1>3, <1>4

\* With its last write a request leaves the session it began to write.  A repair may
\* write one key only, and then nobody saw it half-way.
LEMMA WriteEnds ==
    ASSUME TypeOK, SessionInvariant, NEW r \in Requests, Progress(r), Alone(r),
           halfway[r] \/ shared' # shared, AtRest(req'[r]), Coherent'
    PROVE  /\ halfway[r] => Stored' = Goal(req[r])
           /\ ~halfway[r] => \/ Stored' = Stored
                             \/ /\ token # None
                                /\ Stored' \in [account : Tokens, org : Orgs]
                                /\ Stored'.account = token
           /\ ~halfway[r] => told' = told
<1> DEFINE q == req[r]
<1>q. /\ q \in Requesting /\ KindOfStep(q) /\ LocalsOfStep(q) /\ StoreAgrees(q)
      /\ halfway[r] => q.pc \in WriteSteps
  BY DEF TypeOK, SessionInvariant, RequestOK, Alone, HistoryOK
<1>n. None \notin Members
  BY ConnectionAssumption DEF ConnectionAssumption
<1> USE DEF At
<1>1. ~ConnectSaveMemberships(r) /\ ~ConnectSetToken(r) /\ ~Disconnect(r) /\ ~SetOrgID(r)
  <2>1. /\ ConnectSaveMemberships(r) => req'[r] = [q EXCEPT !.pc = "set_org", !.list = <<>>]
        /\ ConnectSetToken(r) => req'[r] = [q EXCEPT !.pc = "announce"]
        /\ Disconnect(r) => \E s \in {"del_org", "del_member", "del_list", "announce"} :
                               req'[r] = [q EXCEPT !.pc = s]
        /\ SetOrgID(r) => req'[r] = [q EXCEPT !.pc = "set_member"]
    BY DEF ConnectSaveMemberships, ConnectSetToken, Disconnect, DeleteToken, DeleteOrgID,
       DeleteMemberID, DeleteMemberships, SetOrgID, Goto, Become, TypeOK
  <2>2. ConnectSaveMemberships(r) \/ ConnectSetToken(r) \/ Disconnect(r) \/ SetOrgID(r) =>
           req'[r].pc \in {"set_org", "set_member", "announce", "del_org", "del_member", "del_list"}
    BY <1>q, <2>1 DEF Requesting
  <2> QED
    BY <2>2 DEF AtRest
<1>2. CASE SetMemberID(r)
  <2>1. /\ q.pc = "set_member" /\ memberID' = q.member
        /\ UNCHANGED <<token, orgID, told>>
        /\ req'[r] = AfterMember(q)
    BY <1>2 DEF SetMemberID, Become, TypeOK
  <2>2. q.kind # "connect"
    BY <1>q, <2>1 DEF AfterMember, AtRest, Requesting
  <2>3. q.kind \in SessionKinds
    BY <1>q, <2>1, <2>2 DEF KindOfStep, PairSteps
  <2>4. token = q.token /\ token # None
    BY <2>1, <2>3, BeforeWrite
  <2>5. orgID = q.org /\ q.member \in Members /\ q.org = q.member.org
    BY <1>q, <2>1 DEF StoreAgrees, LocalsOfStep, PairSteps
  <2>6. Stored' = [account |-> token, org |-> q.org]
    BY <1>n, <2>1, <2>4, <2>5 DEF Stored
  <2>7. Stored' = Goal(q)
    BY <2>3, <2>4, <2>6 DEF Goal, Member, SessionKinds
  <2>8. token \in Tokens /\ q.org \in Orgs
    BY <2>4, <2>5 DEF TypeOK, Members
  <2> QED
    BY <2>1, <2>4, <2>6, <2>7, <2>8
<1>3. CASE RefreshSave(r)
  <2>1. q.pc = "refresh_save" /\ UNCHANGED <<token, orgID, memberID, told>>
    BY <1>3 DEF RefreshSave
  <2>2. ~halfway[r]
    BY <1>q, <2>1 DEF WriteSteps, PairSteps
  <2> QED
    BY <2>1, <2>2 DEF Stored
<1>4. CASE Announce(r)
  <2>1. /\ q.pc = "announce" /\ UNCHANGED <<token, orgID, memberID, memberships>>
        /\ told' = IF q.kind = "switch" THEN told ELSE q.kind = "connect"
    BY <1>4 DEF Announce, store
  <2>5. Stored' = Goal(q) /\ Stored' = Stored
    <3>1. Stored = Goal(q)
      BY <2>1, AnnouncedGoal DEF Alone
    <3> QED
      BY <2>1, <3>1 DEF Stored
  <2>6. ~halfway[r] => told' = told
    <3>1. ~halfway[r] => ToldTruth
      BY DEF Alone, SessionInvariant, Settled, Coherent
    <3>2. told' = (token' # None)
      BY DEF Coherent, ToldTruth
    <3> QED
      BY <2>1, <3>1, <3>2 DEF ToldTruth
  <2> QED
    BY <2>5, <2>6
<1> QED
  BY WriteActions, <1>1, <1>2, <1>3, <1>4 DEF SetPair

\* What a step does to the register while the session is not torn: nothing, because it
\* changes nothing shared and touches no writer, or it is a write of a lone request.
LEMMA QuietOrWrites ==
    ASSUME TypeOK, SessionInvariant, [HNext]_hvars, ~tainted, ~tainted'
    PROVE  \/ /\ shared' = shared
              /\ \A s \in Requests : halfway'[s] = halfway[s] /\ (halfway[s] => req'[s] = req[s])
           \/ \E r \in Requests :
                 /\ Progress(r) /\ Observe(r) /\ Alone(r)
                 /\ halfway[r] \/ shared' # shared
<1>1. ASSUME NEW r \in Requests, Arrive(r) \/ Progress(r), ObserveProgress(r)
      PROVE  \/ /\ shared' = shared
                /\ \A s \in Requests : halfway'[s] = halfway[s] /\ (halfway[s] => req'[s] = req[s])
             \/ /\ Progress(r) /\ Observe(r) /\ Alone(r)
                /\ halfway[r] \/ shared' # shared
  <2>1. /\ Observe(r)
        /\ \A s \in Requests \ {r} : req'[s] = req[s] /\ halfway'[s] = halfway[s]
        /\ halfway'[r] = (~AtRest(req'[r]) /\ (halfway[r] \/ shared' # shared))
    BY <1>1, HistoryShape DEF ObserveProgress
  <2>2. CASE ~halfway[r] /\ shared' = shared
    <3>1. halfway'[r] = halfway[r]
      BY <2>1, <2>2 DEF TypeOK
    <3> QED
      BY <2>1, <2>2, <3>1
  <2>3. CASE halfway[r] \/ shared' # shared
    <3>1. Progress(r)
      <4>1. CASE Arrive(r)
        <5>1. shared' = shared /\ req[r].pc = "idle"
          BY <4>1 DEF Arrive, BeginConnect, BeginDisconnect, BeginSession, BeginSwitch, Begin,
             shared, store, At
        <5> QED
          BY <2>3, <5>1 DEF SessionInvariant, HistoryOK, WriteSteps, PairSteps
      <4> QED
        BY <1>1, <4>1
    <3>2. Alone(r)
      <4>1. CASE Replaces(r)
        BY <4>1 DEF Replaces, Alone
      <4>2. CASE ~Conflicts(r)
        BY <2>3, <4>2 DEF Conflicts, Alone, SessionInvariant, HistoryOK
      <4> QED
        BY <1>1, <4>1, <4>2 DEF ObserveProgress
    <3> QED
      BY <2>1, <2>3, <3>1, <3>2
  <2> QED
    BY <2>2, <2>3
<1>2. ASSUME NEW r \in Requests, Fail(r), ObserveFailure(r)
      PROVE  /\ shared' = shared
             /\ \A s \in Requests : halfway'[s] = halfway[s] /\ (halfway[s] => req'[s] = req[s])
  <2>1. shared' = shared /\ Observe(r) /\ ~halfway[r]
    BY <1>2 DEF ObserveFailure, Fail, StoreError, SolidtimeError, shared, store
  <2>2. /\ \A s \in Requests \ {r} : req'[s] = req[s] /\ halfway'[s] = halfway[s]
        /\ halfway'[r] = (~AtRest(req'[r]) /\ (halfway[r] \/ shared' # shared))
    BY <1>2, <2>1, HistoryShape
  <2>3. halfway'[r] = halfway[r]
    BY <2>1, <2>2 DEF TypeOK
  <2> QED
    BY <2>1, <2>2, <2>3
<1>3. ASSUME ProcessDies, ObserveDeath
      PROVE  /\ shared' = shared
             /\ \A s \in Requests : halfway'[s] = halfway[s] /\ (halfway[s] => req'[s] = req[s])
  <2>1. \A s \in Requests : ~halfway[s] /\ ~halfway'[s]
    BY <1>3 DEF ObserveDeath
  <2>2. \A s \in Requests : halfway'[s] = halfway[s]
    BY <2>1, <1>3 DEF ObserveDeath, TypeOK
  <2>3. shared' = shared
    BY <1>3 DEF ProcessDies, shared, store
  <2> QED
    BY <2>1, <2>2, <2>3
<1>4. CASE Administrate /\ UNCHANGED history
  BY <1>4 DEF Administrate, ClearServerURL, SetServerURL, history, store, shared
<1>5. CASE UNCHANGED hvars
  BY <1>5 DEF hvars, shared
<1> QED
  BY <1>1, <1>2, <1>3, <1>4, <1>5 DEF HNext, Crash, NilClient

\* A connect or disconnect that nobody disturbed makes the register whole again.
LEMMA ReplaceMends ==
    ASSUME TypeOK, SessionInvariant, SessionInvariant', Shown, Shown',
           NEW r \in Requests, Arrive(r) \/ Progress(r), ObserveProgress(r), Replaces(r), tainted
    PROVE  Register!Mend
<1> DEFINE q == req[r]
<1>1. q.pc = "announce" /\ q.kind \in {"connect", "disconnect"} /\ ~stale[r]
  BY DEF Replaces, At
<1>2. Progress(r) /\ Announce(r)
  BY <1>1 DEF Arrive, BeginConnect, BeginDisconnect, BeginSession, BeginSwitch, Begin,
     Progress, Connect, ConnectFetch, ConnectPreviousOrg, ConnectSaveMemberships,
     ConnectSetToken, Disconnect, DeleteToken, DeleteOrgID, DeleteMemberID, DeleteMemberships,
     ResolveOrgMember, GetToken, GetOrgID, GetMemberID, ListOrganizations, GetMemberships,
     RefreshToken, RefreshFetch, RefreshSave, SetOrgID, SetMemberID, CallSolidtime, At
<1>3. Settled'
  <2>1. /\ \A s \in Requests \ {r} : halfway'[s] = halfway[s]
        /\ halfway'[r] = (~AtRest(req'[r]) /\ (halfway[r] \/ shared' # shared))
    BY HistoryShape DEF ObserveProgress
  <2>2. AtRest(req'[r])
    BY <1>2, EndKeepsOwn DEF AtRest, Idle
  <2> QED
    BY <2>1, <2>2 DEF ObserveProgress, Replaces, Settled
<1>4. Status = "torn" /\ Status' = "steady" /\ Session' = Stored'
  BY <1>3 DEF Shown
<1>5. Stored' = Goal(q)
  <2>1. Stored = Goal(q)
    BY <1>1, AnnouncedGoal
  <2> QED
    BY <1>2, <2>1 DEF Announce, store, Stored
<1>6. Stored' \in {None} \cup [account : Tokens, org : Orgs]
  BY <1>1, <1>5, GoalOfWriter DEF WriteSteps
<1>7. told' = (Stored' # None)
  <2>1. told' = (token' # None)
    BY <1>2, SessionReplaced DEF Coherent, ToldTruth
  <2>2. Stored' = None <=> token' = None
    <3>1. q.kind = "disconnect" => token' = None
      BY <1>1, <1>2 DEF SessionInvariant, RequestOK, StoreAgrees, Announce, store
    <3>2. q.kind = "connect" => Stored' # None
      BY <1>1, <1>5, GoalOfWriter, ConnectionAssumption DEF WriteSteps, ConnectionAssumption, Members
    <3> QED
      BY <1>1, <3>1, <3>2 DEF Stored
  <2> QED
    BY <2>1, <2>2
<1> QED
  BY <1>4, <1>6, <1>7 DEF Register!Mend, Register!Sessions

\* A write of a lone request begins, continues or ends an operation of the register.
LEMMA WriteIsRegisterStep ==
    ASSUME TypeOK, SessionInvariant, TypeOK', SessionInvariant', Shown, Shown',
           ~tainted, ~tainted', NEW r \in Requests, Progress(r), Observe(r), Alone(r),
           halfway[r] \/ shared' # shared
    PROVE  [Register!Next]_(Register!vars)
<1> DEFINE q == req[r]
           p == req'[r]
<1>h. /\ halfway'[r] = ~AtRest(p)
      /\ \A s \in Requests \ {r} : ~halfway'[s] /\ ~halfway[s]
  BY HistoryShape DEF Alone
<1>s. Settled <=> ~halfway[r]
  BY <1>h DEF Settled
<1>t. Settled' <=> AtRest(p)
  BY <1>h DEF Settled
<1>1. ASSUME ~AtRest(p)
      PROVE  [Register!Next]_(Register!vars)
  <2>1. /\ told' = told /\ p.kind = q.kind
        /\ halfway[r] => Goal(p) = Goal(q)
        /\ q.kind \in SessionKinds => token' = token
    BY <1>1, WriteGoesOn
  <2>2. Status' = OperationOf(p) /\ Session' = Goal(p)
    BY <1>1, <1>h DEF Shown
  <2>3. CASE halfway[r]
    <3>1. Status = OperationOf(q) /\ Session = Goal(q)
      BY <2>3 DEF Shown
    <3>2. Status' = Status
      BY <2>1, <2>2, <3>1 DEF OperationOf
    <3> QED
      BY <2>1, <2>2, <2>3, <3>1, <3>2 DEF Register!vars
  <2>4. CASE ~halfway[r]
    <3>1. Status = "steady" /\ Session = Stored
      BY <1>s, <2>4 DEF Shown
    <3>2. p.pc \in WriteSteps /\ ~stale'[r]
      BY <1>1, <1>h DEF SessionInvariant, HistoryOK
    <3>3. /\ p.kind \in {"connect", "disconnect"} \cup SessionKinds
          /\ p.kind = "disconnect" => Goal(p) = None
          /\ p.kind # "disconnect" => Goal(p) \in [account : Tokens, org : Orgs]
                                      /\ Goal(p).account = p.token
      BY <3>2 DEF Shown
    <3>4. CASE p.kind = "connect"
      BY <2>1, <2>2, <3>1, <3>3, <3>4
         DEF OperationOf, Register!Next, Register!StartConnect, Register!Sessions
    <3>5. CASE p.kind = "disconnect"
      BY <2>1, <2>2, <3>1, <3>3, <3>5 DEF OperationOf, Register!Next, Register!StartDisconnect
    <3>6. CASE p.kind \in SessionKinds
      <4>1. token # None /\ token = p.token
        <5>1. PairPending(req[r])'
          BY <1>1, <1>h, <3>6 DEF SessionInvariant
        <5>2. StoreAgrees(req[r])'
          BY <3>2 DEF SessionInvariant, RequestOK
        <5>3. token' = token
          BY <2>1, <3>6
        <5>4. p.pc # "get_token"
          BY <3>2 DEF WriteSteps, PairSteps
        <5> QED
          BY <3>6, <5>1, <5>2, <5>3, <5>4 DEF PairPending, StoreAgrees
      <4>2. Stored # None /\ Stored.account = token
        BY <4>1, StoredPresent
      <4>3. Status' = "selecting"
        BY <2>2, <3>6 DEF OperationOf, SessionKinds
      <4>4. Goal(p) \in [account : Tokens, org : Orgs] /\ Goal(p).account = p.token
        BY <3>3, <3>6 DEF SessionKinds
      <4> QED
        BY <2>1, <2>2, <3>1, <4>1, <4>2, <4>3, <4>4
           DEF Register!Next, Register!Select, Register!Sessions
    <3> QED
      BY <3>3, <3>4, <3>5, <3>6
  <2> QED
    BY <2>3, <2>4
<1>2. ASSUME AtRest(p)
      PROVE  [Register!Next]_(Register!vars)
  <2>1. Status' = "steady" /\ Session' = Stored'
    BY <1>2, <1>t DEF Shown
  <2>2. Coherent'
    BY <1>2, <1>t DEF SessionInvariant
  <2>3. CASE halfway[r]
    <3>1. Status = OperationOf(q) /\ Session = Goal(q)
      BY <2>3 DEF Shown
    <3>2. Stored' = Goal(q)
      BY <1>2, <2>2, <2>3, WriteEnds
    <3>3. Status \in {"connecting", "disconnecting", "selecting"}
      BY <3>1 DEF OperationOf
    <3>4. told' = (Stored' # None)
      <4>1. told' = (token' # None)
        BY <2>2 DEF Coherent, ToldTruth
      <4>2. token' # None => Stored' # None
        BY DEF Shown
      <4> QED
        BY <4>1, <4>2 DEF Stored
    <3> QED
      BY <2>1, <3>1, <3>2, <3>3, <3>4 DEF Register!Next, Register!End, Register!Changing
  <2>4. CASE ~halfway[r]
    <3>1. Status = "steady" /\ Session = Stored
      BY <1>s, <2>4 DEF Shown
    <3>2. /\ told' = told
          /\ \/ Stored' = Stored
             \/ /\ token # None
                /\ Stored' \in [account : Tokens, org : Orgs]
                /\ Stored'.account = token
      BY <1>2, <2>2, <2>4, WriteEnds
    <3>3. CASE Stored' = Stored
      BY <2>1, <3>1, <3>2, <3>3 DEF Register!vars
    <3>4. CASE /\ token # None
               /\ Stored' \in [account : Tokens, org : Orgs]
               /\ Stored'.account = token
      <4>1. Stored # None /\ Stored.account = token
        BY <3>4, StoredPresent
      <4> QED
        BY <2>1, <3>1, <3>2, <3>4, <4>1 DEF Register!Next, Register!Select, Register!Sessions
    <3> QED
      BY <3>2, <3>3, <3>4
  <2> QED
    BY <2>3, <2>4
<1> QED
  BY <1>1, <1>2

\* Every step of the system is a step of the register, or none.
LEMMA RegisterNext ==
    ASSUME TypeOK, SessionInvariant, TypeOK', SessionInvariant', Shown, Shown', [HNext]_hvars
    PROVE  [Register!Next]_(Register!vars)
<1>1. CASE tainted'
  BY <1>1 DEF Shown, TypeOK, Register!Next, Register!Tear
<1>2. CASE tainted /\ ~tainted'
  <2>1. PICK r \in Requests : (Arrive(r) \/ Progress(r)) /\ ObserveProgress(r)
    BY <1>2 DEF HNext, ObserveFailure, ObserveDeath, history, hvars
  <2>2. Replaces(r)
    BY <1>2, <2>1 DEF ObserveProgress
  <2> QED
    BY <1>2, <2>1, <2>2, ReplaceMends DEF Register!Next
<1>3. CASE ~tainted /\ ~tainted'
  <2>1. CASE /\ shared' = shared
             /\ \A s \in Requests : halfway'[s] = halfway[s] /\ (halfway[s] => req'[s] = req[s])
    <3>1. told' = told /\ Stored' = Stored
      BY <2>1 DEF shared, Stored
    <3>2. CASE Settled
      <4>1. Settled'
        BY <1>3, <2>1, <3>2 DEF Settled
      <4> QED
        BY <3>1, <3>2, <4>1 DEF Shown, Register!vars
    <3>3. CASE ~Settled
      <4>1. PICK r \in Requests : halfway[r]
        BY <1>3, <3>3 DEF Settled
      <4>2. halfway'[r] /\ req'[r] = req[r]
        BY <2>1, <4>1
      <4>3. Status = OperationOf(req[r]) /\ Session = Goal(req[r])
        BY <1>3, <4>1 DEF Shown
      <4>4. Status' = OperationOf(req'[r]) /\ Session' = Goal(req'[r])
        BY <1>3, <4>2 DEF Shown
      <4> QED
        BY <3>1, <4>2, <4>3, <4>4 DEF Register!vars
    <3> QED
      BY <3>2, <3>3
  <2>2. CASE \E r \in Requests : /\ Progress(r) /\ Observe(r) /\ Alone(r)
                                 /\ halfway[r] \/ shared' # shared
    BY <1>3, <2>2, WriteIsRegisterStep
  <2> QED
    BY <1>3, <2>1, <2>2, QuietOrWrites
<1> QED
  BY <1>1, <1>2, <1>3

\* The store starts as a steady register: empty, or with the session of an old plugin.
LEMMA RegisterInit == HInit => Register!Init
<1> SUFFICES ASSUME HInit PROVE Register!Init
  OBVIOUS
<1>1. Settled
  BY DEF HInit, Settled
<1>2. Status = "steady" /\ Session = Stored
  BY <1>1, ShownHolds, TypeInit, InvariantInit DEF Shown
<1>3. memberID = None /\ token \in Tokens \cup {None} /\ told = (token # None)
  BY TypeInit DEF HInit, Init, TypeOK
<1>4. Stored \in {None} \cup [account : Tokens, org : {None}]
  BY <1>3 DEF Stored
<1>5. Stored = None <=> token = None
  BY TypeInit, StoredPresent DEF Stored
<1> QED
  BY <1>2, <1>3, <1>4, <1>5 DEF Register!Init, Register!LegacySessions

\* The four keys, written one at a time by any number of requests that interleave, fail
\* and die, implement one register of whole sessions that changes by one operation at a
\* time, torn only by writers that overlapped or stopped half-way.
THEOREM SessionIsRegister == HSpec => ActsAsRegister
<1>1. HInit => Register!Init
  BY RegisterInit
<1>2. TypeOK /\ SessionInvariant => Shown
  BY ShownHolds
<1>3. /\ TypeOK /\ SessionInvariant /\ Shown
      /\ (TypeOK /\ SessionInvariant /\ Shown)'
      /\ [HNext]_hvars
      => [Register!Next]_(Register!vars)
  BY RegisterNext
<1> QED
  BY <1>1, <1>2, <1>3, InvariantHolds, PTL DEF HSpec, ActsAsRegister, Register!Spec

----------------------------------------------------------------------------
(* Requests one after the other. *)

\* A step of a request under which nobody else has written leaves no token without the
\* rest of its session: the token is written last and deleted first.
LEMMA StepKeepsBacked ==
    ASSUME TypeOK, SessionInvariant, NEW r \in Requests, ~stale[r], Progress(r), Backed
    PROVE  Backed'
<1> DEFINE q == req[r]
<1>1. /\ q \in Requesting
      /\ KindOfStep(q) /\ LocalsOfStep(q) /\ StoreAgrees(q)
  BY DEF TypeOK, SessionInvariant, RequestOK
<1>2. None \notin Orgs \cup Members
  BY ConnectionAssumption DEF ConnectionAssumption
<1> USE DEF ConnectSteps, DeleteSteps, RefreshSteps, SessionSteps, PairSteps, WriteSteps, At
<1>3. CASE UNCHANGED store
  BY <1>3 DEF store, Backed
<1>4. CASE ConnectSaveMemberships(r)
  <2>1. memberships' = q.list /\ q.list # <<>> /\ UNCHANGED <<token, orgID, memberID>>
    BY <1>1, <1>4 DEF ConnectSaveMemberships, LocalsOfStep
  <2> QED
    BY <2>1 DEF Backed
<1>5. CASE ConnectSetToken(r)
  <2>1. q.pc = "set_token" /\ q.kind = "connect" /\ UNCHANGED <<orgID, memberID, memberships>>
    BY <1>1, <1>5 DEF ConnectSetToken, KindOfStep
  <2>2. q.member \in Members /\ q.org = q.member.org
    BY <1>1, <2>1 DEF LocalsOfStep
  <2>3. orgID = q.org /\ memberID = q.member /\ memberships # <<>>
    BY <1>1, <2>1 DEF StoreAgrees
  <2>4. q.org \in Orgs
    BY <2>2 DEF Members
  <2> QED
    BY <1>2, <2>1, <2>2, <2>3, <2>4 DEF Backed
<1>6. CASE SetOrgID(r)
  <2>1. orgID' = q.org /\ UNCHANGED <<token, memberID, memberships>> /\ q.pc = "set_org"
    BY <1>6 DEF SetOrgID
  <2>2. q.org \in Orgs
    BY <1>1, <2>1 DEF LocalsOfStep, Members
  <2> QED
    BY <1>2, <2>1, <2>2 DEF Backed
<1>7. CASE SetMemberID(r)
  <2>1. memberID' = q.member /\ UNCHANGED <<token, orgID, memberships>> /\ q.pc = "set_member"
    BY <1>7 DEF SetMemberID
  <2>2. q.member \in Members
    BY <1>1, <2>1 DEF LocalsOfStep
  <2> QED
    BY <1>2, <2>1, <2>2 DEF Backed
<1>8. CASE DeleteToken(r)
  BY <1>8 DEF DeleteToken, Backed
<1>9. CASE DeleteOrgID(r) \/ DeleteMemberID(r) \/ DeleteMemberships(r)
  <2>1. q.pc \in {"del_org", "del_member", "del_list"} /\ token' = token
    BY <1>9 DEF DeleteOrgID, DeleteMemberID, DeleteMemberships
  <2>2. token = None
    BY <1>1, <2>1 DEF KindOfStep, StoreAgrees
  <2> QED
    BY <2>1, <2>2 DEF Backed
<1>10. CASE RefreshSave(r)
  <2>1. memberships' = q.list /\ q.list # <<>> /\ UNCHANGED <<token, orgID, memberID>>
    BY <1>1, <1>10 DEF RefreshSave, LocalsOfStep
  <2> QED
    BY <2>1 DEF Backed
<1>11. \/ UNCHANGED store
       \/ ConnectSaveMemberships(r) \/ ConnectSetToken(r)
       \/ SetOrgID(r) \/ SetMemberID(r)
       \/ DeleteToken(r) \/ DeleteOrgID(r) \/ DeleteMemberID(r) \/ DeleteMemberships(r)
       \/ RefreshSave(r)
  BY DEF Progress, Connect, Disconnect, ResolveOrgMember, ListOrganizations, ConnectFetch,
         ConnectPreviousOrg, GetToken, GetOrgID, GetMemberID, GetMemberships, RefreshToken,
         RefreshFetch, CallSolidtime, Announce
<1> QED
  BY <1>3, <1>4, <1>5, <1>6, <1>7, <1>8, <1>9, <1>10, <1>11

NothingStale == \A r \in Requests : ~stale[r]

\* A crash, a failed write or an error of Solidtime at any point of one request after
\* another never leaves a token whose session needs a repair, and a repair lasts.
THEOREM TokenBackedHolds ==
    ASSUME \A r, s \in Requests : r = s
    PROVE  HSpec => TokenBacked
<1>1. HInit => NothingStale
  BY DEF HInit, NothingStale
<1>2. ASSUME NothingStale, [HNext]_hvars PROVE NothingStale'
  <2>1. ASSUME NEW r \in Requests, Observe(r) PROVE NothingStale'
    BY <1>2, <2>1 DEF Observe, NothingStale
  <2>2. ASSUME ObserveDeath PROVE NothingStale'
    BY <2>2 DEF ObserveDeath, NothingStale
  <2>3. ASSUME stale' = stale PROVE NothingStale'
    BY <1>2, <2>3 DEF NothingStale
  <2> QED
    BY <1>2, <2>1, <2>2, <2>3 DEF HNext, ObserveProgress, ObserveFailure, history, hvars
<1>3. ASSUME TypeOK, SessionInvariant, NothingStale, [HNext]_hvars
      PROVE  [Backed => Backed']_hvars
  <2> SUFFICES ASSUME Backed, HNext PROVE Backed'
    BY <1>3
  <2>1. ASSUME NEW r \in Requests, Progress(r) PROVE Backed'
    BY <1>3, <2>1, StepKeepsBacked DEF NothingStale
  <2>2. ASSUME UNCHANGED store PROVE Backed'
    BY <2>2 DEF store, Backed
  <2>3. UNCHANGED store \/ \E r \in Requests : Progress(r)
    BY DEF HNext, Arrive, BeginConnect, BeginDisconnect, BeginSession, BeginSwitch, Begin, Fail,
           StoreError, SolidtimeError, Crash, NilClient, ProcessDies, Administrate,
           ClearServerURL, SetServerURL
  <2> QED
    BY <2>1, <2>2, <2>3
<1> QED
  BY <1>1, <1>2, <1>3, InvariantHolds, PTL DEF HSpec, TokenBacked
====
