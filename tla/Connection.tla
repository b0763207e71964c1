---- MODULE Connection ----
(***************************************************************************)
(* The connection service of the plugin server and the key-value store it  *)
(* keeps a user's session in, for one user: keys carry the user ID, so     *)
(* users do not interact.                                                  *)
(*                                                                         *)
(* A session is four keys written and deleted one at a time.  Every HTTP   *)
(* request and slash command runs in a goroutine of its own and takes no   *)
(* lock, so each store operation and each call to Solidtime is one step    *)
(* here and steps of different requests interleave freely.                 *)
(*                                                                         *)
(* A token stands for the Solidtime account it belongs to; the member ID   *)
(* of an account in an organization is the record Member(account, org).    *)
(***************************************************************************)
EXTENDS Sequences

CONSTANTS
    Requests,   \* slots for the requests that may be in flight at once
    Tokens,     \* Solidtime API tokens, one per account
    Orgs,       \* organization IDs
    OrgLists,   \* the organization lists Solidtime may answer, in its order
    Kinds,      \* the kinds of request that are made
    Faults,     \* what may go wrong, a subset of AllFaults
    Legacy,     \* TRUE if the store may hold the session of an older plugin
    None        \* an absent value: the "" of the Go code

AllKinds == {"connect", "disconnect", "status", "organizations", "switch", "entry"}

AllFaults == {"kv", "solidtime", "crash", "config"}

Member(t, o) == [account |-> t, org |-> o]

Members == [account : Tokens, org : Orgs]

\* membershipsFromSolidtime: the cached form of one answer of Solidtime.
MembershipsFrom(t, orgs) == [i \in DOMAIN orgs |-> Member(t, orgs[i])]

MembershipLists == {MembershipsFrom(t, l) : t \in Tokens, l \in OrgLists}

Entries(list) == {list[i] : i \in DOMAIN list}

\* No two memberships of an account are in the same organization.
ConnectionAssumption ==
    /\ OrgLists \subseteq Seq(Orgs)
    /\ \A l \in OrgLists : \A i, j \in DOMAIN l : l[i] = l[j] => i = j
    /\ None \notin Tokens \cup Orgs \cup Members \cup AllKinds
    /\ None \notin [account : Tokens, org : {None}]
    /\ Kinds \subseteq AllKinds
    /\ Faults \subseteq AllFaults
    /\ Legacy \in BOOLEAN

ASSUME ConnectionAssumption

VARIABLES
    token, orgID, memberID, memberships,   \* the store; <<>> for no memberships
    told,      \* the last solidtime-connection-change the tabs received
    plugin,    \* "ready", "no_client" (no server URL) or "inactive"
    req        \* what each request is doing, with its local variables

store == <<token, orgID, memberID, memberships>>

vars == <<token, orgID, memberID, memberships, told, plugin, req>>

Idle == [kind |-> None, pc |-> "idle", resolved |-> FALSE, token |-> None,
         target |-> None, org |-> None, member |-> None, fresh |-> None,
         list |-> <<>>]

\* Resolving requests pass the middleware (or IsConnected) before their handler.
SessionKinds == {"status", "organizations", "switch", "entry"}

StoreSteps ==
    {"save_list", "set_org", "set_member", "set_token", "del_token", "del_org",
     "del_member", "del_list", "get_token", "get_org", "get_member", "get_list",
     "refresh_token", "refresh_save"}

SolidtimeSteps == {"fetch", "refresh_fetch", "call"}

Steps == {"idle", "prev_org", "announce"} \cup StoreSteps \cup SolidtimeSteps

\* The partial sessions of older plugins that the tests repair: no member ID,
\* and perhaps no cached memberships.
LegacySessions ==
    {[token |-> t, org |-> o, list |-> l] :
        t \in Tokens, o \in Orgs, l \in {<<>>} \cup MembershipLists}

Init ==
    /\ \/ /\ token = None /\ orgID = None /\ memberships = <<>>
       \/ /\ Legacy
          /\ \E s \in LegacySessions :
                /\ \A m \in Entries(s.list) : m.account = s.token
                /\ token = s.token /\ orgID = s.org /\ memberships = s.list
    /\ memberID = None
    /\ told = (token # None)
    /\ plugin = "ready"
    /\ req = [r \in Requests |-> Idle]

\* The record of request r becomes q.
Become(r, q) == req' = [req EXCEPT ![r] = q]

At(r, step) == req[r].pc = step

Goto(r, step) == Become(r, [req[r] EXCEPT !.pc = step])

Finish(r) == Become(r, Idle)

----------------------------------------------------------------------------
(* Arrival of a request. *)

Begin(r, kind, first, t, o) ==
    /\ At(r, "idle")
    /\ plugin # "inactive"
    /\ kind \in Kinds
    /\ Become(r, [Idle EXCEPT !.kind = kind, !.pc = first, !.token = t, !.target = o])
    /\ UNCHANGED <<store, told, plugin>>

\* Connect is refused without a server URL or a client; the empty token too.
BeginConnect(r) ==
    /\ plugin = "ready"
    /\ \E t \in Tokens : Begin(r, "connect", "fetch", t, None)

BeginDisconnect(r) == Begin(r, "disconnect", "del_token", None, None)

BeginSession(r) ==
    \E kind \in SessionKinds \ {"switch"} : Begin(r, kind, "get_token", None, None)

BeginSwitch(r) == \E o \in Orgs : Begin(r, "switch", "get_token", None, o)

----------------------------------------------------------------------------
(* Choosing an organization. *)

In(list, o) == \E m \in Entries(list) : m.org = o

Entry(list, o) == CHOOSE m \in Entries(list) : m.org = o

PickOrg(list, previous) == IF In(list, previous) THEN Entry(list, previous) ELSE list[1]

\* Mutant: the organization read before is kept beside the member ID picked now.
SelectKeepingOrg(q, m) == [q EXCEPT !.pc = "set_org", !.org = IF @ = None THEN m.org ELSE @,
                                    !.member = m, !.list = <<>>, !.fresh = None]

Select(q, m) == [q EXCEPT !.pc = "set_org", !.org = m.org, !.member = m,
                          !.list = <<>>, !.fresh = None]

\* What a request does with the list that ListOrganizations returned:
\* ensureOrgMember picks an organization, a switch looks its target up ("not
\* found" ends it), GET /organizations answers.
WithOrganizations(q, list) ==
    IF ~q.resolved THEN Select(q, PickOrg(list, q.org))
    ELSE IF q.kind = "switch" /\ In(list, q.target) THEN Select(q, Entry(list, q.target))
    ELSE Idle

----------------------------------------------------------------------------
(* Connect, from the call to Solidtime to the last store write.            *)

\* GetMe and GetMemberships: Connect reads nothing else of Solidtime, whose
\* memberships may differ at every call.  An empty list is an error.
ConnectFetch(r) ==
    /\ At(r, "fetch")
    /\ plugin = "ready"
    /\ \E l \in OrgLists :
          IF l = <<>> THEN Finish(r)
          ELSE Become(r, [req[r] EXCEPT !.pc = "prev_org",
                                        !.list = MembershipsFrom(req[r].token, l)])
    /\ UNCHANGED <<store, told, plugin>>

\* The error of this read is dropped: a failed read is an absent organization.
ConnectPreviousOrg(r) ==
    /\ At(r, "prev_org")
    /\ \E previous \in {orgID} \cup (IF "kv" \in Faults THEN {None} ELSE {}) :
          LET m == PickOrg(req[r].list, previous)
          IN  Become(r, [req[r] EXCEPT !.pc = "save_list", !.org = m.org, !.member = m])
    /\ UNCHANGED <<store, told, plugin>>

\* Mutant: Connect writes the token with its first write.
ConnectSaveMembershipsToken(r) ==
    /\ At(r, "save_list")
    /\ memberships' = req[r].list
    /\ token' = req[r].token
    /\ Become(r, [req[r] EXCEPT !.pc = "set_org", !.list = <<>>])
    /\ UNCHANGED <<orgID, memberID, told, plugin>>

ConnectSaveMemberships(r) ==
    /\ At(r, "save_list")
    /\ memberships' = req[r].list
    /\ Become(r, [req[r] EXCEPT !.pc = "set_org", !.list = <<>>])
    /\ UNCHANGED <<token, orgID, memberID, told, plugin>>

ConnectSetToken(r) ==
    /\ At(r, "set_token")
    /\ token' = req[r].token
    /\ Goto(r, "announce")
    /\ UNCHANGED <<orgID, memberID, memberships, told, plugin>>

----------------------------------------------------------------------------
(* The two writes that Connect, the repair of a session and a switch share. *)

\* Mutant: an organization that is there already is not replaced.
SetOrgIDOnce(r) ==
    /\ At(r, "set_org")
    /\ orgID' = IF orgID = None THEN req[r].org ELSE orgID
    /\ Goto(r, "set_member")
    /\ UNCHANGED <<token, memberID, memberships, told, plugin>>

\* Mutant: a switch publishes before it has written the member ID.
SetOrgIDThenAnnounce(r) ==
    /\ At(r, "set_org")
    /\ orgID' = req[r].org
    /\ Goto(r, IF req[r].kind = "switch" /\ req[r].resolved THEN "announce" ELSE "set_member")
    /\ UNCHANGED <<token, memberID, memberships, told, plugin>>

SetOrgID(r) ==
    /\ At(r, "set_org")
    /\ orgID' = req[r].org
    /\ Goto(r, "set_member")
    /\ UNCHANGED <<token, memberID, memberships, told, plugin>>

\* A request that has its session goes on to its handler.
Resolved(q) ==
    IF q.kind = "status" THEN Idle
    ELSE [q EXCEPT !.resolved = TRUE,
                   !.pc = IF q.kind = "entry" THEN "call" ELSE "get_list"]

AfterMember(q) ==
    IF q.kind = "connect" THEN [q EXCEPT !.pc = "set_token"]
    ELSE IF q.resolved THEN [q EXCEPT !.pc = "announce"]
    ELSE Resolved(q)

\* Mutant: the organization ID is stored as the member ID.
SetMemberIDOrg(r) ==
    /\ At(r, "set_member")
    /\ memberID' = req[r].org
    /\ Become(r, AfterMember(req[r]))
    /\ UNCHANGED <<token, orgID, memberships, told, plugin>>

SetMemberID(r) ==
    /\ At(r, "set_member")
    /\ memberID' = req[r].member
    /\ Become(r, AfterMember(req[r]))
    /\ UNCHANGED <<token, orgID, memberships, told, plugin>>

----------------------------------------------------------------------------
(* DeleteUserData: the keys in the order of the code. *)

DeleteToken(r) ==
    /\ At(r, "del_token")
    /\ token' = None
    /\ Goto(r, "del_org")
    /\ UNCHANGED <<orgID, memberID, memberships, told, plugin>>

DeleteOrgID(r) ==
    /\ At(r, "del_org")
    /\ orgID' = None
    /\ Goto(r, "del_member")
    /\ UNCHANGED <<token, memberID, memberships, told, plugin>>

\* Mutant: the member ID is left behind.
DeleteMemberIDNot(r) ==
    /\ At(r, "del_member")
    /\ Goto(r, "del_list")
    /\ UNCHANGED <<store, told, plugin>>

DeleteMemberID(r) ==
    /\ At(r, "del_member")
    /\ memberID' = None
    /\ Goto(r, "del_list")
    /\ UNCHANGED <<token, orgID, memberships, told, plugin>>

DeleteMemberships(r) ==
    /\ At(r, "del_list")
    /\ memberships' = <<>>
    /\ Goto(r, "announce")
    /\ UNCHANGED <<token, orgID, memberID, told, plugin>>

----------------------------------------------------------------------------
(* ResolveOrgMember and ensureOrgMember. *)

\* No token: not connected, and the request ends.
GetToken(r) ==
    /\ At(r, "get_token")
    /\ IF token = None THEN Finish(r)
       ELSE Become(r, [req[r] EXCEPT !.pc = "get_org", !.token = token])
    /\ UNCHANGED <<store, told, plugin>>

GetOrgID(r) ==
    /\ At(r, "get_org")
    /\ Become(r, [req[r] EXCEPT !.pc = "get_member", !.org = orgID])
    /\ UNCHANGED <<store, told, plugin>>

\* Mutant: one of the two keys is enough.
GetMemberIDEither(r) ==
    /\ At(r, "get_member")
    /\ LET q == [req[r] EXCEPT !.member = memberID]
       IN  IF q.org # None \/ q.member # None
           THEN Become(r, Resolved(q))
           ELSE Become(r, [q EXCEPT !.pc = "get_list"])
    /\ UNCHANGED <<store, told, plugin>>

GetMemberID(r) ==
    /\ At(r, "get_member")
    /\ LET q == [req[r] EXCEPT !.member = memberID]
       IN  IF q.org # None /\ q.member # None
           THEN Become(r, Resolved(q))
           ELSE Become(r, [q EXCEPT !.pc = "get_list"])
    /\ UNCHANGED <<store, told, plugin>>

----------------------------------------------------------------------------
(* ListOrganizations: the cache, or Solidtime and then the cache.          *)

GetMemberships(r) ==
    /\ At(r, "get_list")
    /\ IF memberships # <<>>
       THEN Become(r, WithOrganizations(req[r], memberships))
       ELSE Goto(r, "refresh_token")
    /\ UNCHANGED <<store, told, plugin>>

\* The token is read again here: it need not be the one the request resolved.
RefreshToken(r) ==
    /\ At(r, "refresh_token")
    /\ IF token = None THEN Finish(r)
       ELSE Become(r, [req[r] EXCEPT !.pc = "refresh_fetch", !.fresh = token])
    /\ UNCHANGED <<store, told, plugin>>

\* Mutant: an empty answer is asked for again instead of being an error.
RefreshFetchAgain(r) ==
    /\ At(r, "refresh_fetch")
    /\ plugin = "ready"
    /\ \E l \in OrgLists :
          IF l = <<>> THEN Goto(r, "get_list")
          ELSE Become(r, [req[r] EXCEPT !.pc = "refresh_save",
                                        !.list = MembershipsFrom(req[r].fresh, l)])
    /\ UNCHANGED <<store, told, plugin>>

RefreshFetch(r) ==
    /\ At(r, "refresh_fetch")
    /\ plugin = "ready"
    /\ \E l \in OrgLists :
          IF l = <<>> THEN Finish(r)
          ELSE Become(r, [req[r] EXCEPT !.pc = "refresh_save",
                                        !.list = MembershipsFrom(req[r].fresh, l)])
    /\ UNCHANGED <<store, told, plugin>>

RefreshSave(r) ==
    /\ At(r, "refresh_save")
    /\ memberships' = req[r].list
    /\ Become(r, WithOrganizations(req[r], req[r].list))
    /\ UNCHANGED <<token, orgID, memberID, told, plugin>>

----------------------------------------------------------------------------
(* The end of a request. *)

\* A handler of time entries or projects calls Solidtime with its session.
CallSolidtime(r) ==
    /\ At(r, "call")
    /\ plugin = "ready"
    /\ Finish(r)
    /\ UNCHANGED <<store, told, plugin>>

\* Mutant: a disconnect is not published.
AnnounceNoDisconnect(r) ==
    /\ At(r, "announce")
    /\ told' = (told \/ req[r].kind = "connect")
    /\ Finish(r)
    /\ UNCHANGED <<store, plugin>>

\* The event of a switch names req[r].org and changes nothing on the server.
Announce(r) ==
    /\ At(r, "announce")
    /\ told' = IF req[r].kind = "switch" THEN told ELSE req[r].kind = "connect"
    /\ Finish(r)
    /\ UNCHANGED <<store, plugin>>

\* An operation of the store fails: the request ends at once, whatever it wrote.
StoreError(r) ==
    /\ "kv" \in Faults
    /\ req[r].pc \in StoreSteps
    /\ Finish(r)
    /\ UNCHANGED <<store, told, plugin>>

\* Solidtime is down, refuses the token, or answers an error.
SolidtimeError(r) ==
    /\ "solidtime" \in Faults
    /\ plugin = "ready"
    /\ req[r].pc \in SolidtimeSteps
    /\ Finish(r)
    /\ UNCHANGED <<store, told, plugin>>

----------------------------------------------------------------------------
(* What happens to the plugin process. *)

\* All requests die; the process is started again if a server URL is set.
ProcessDies ==
    /\ req' = [r \in Requests |-> Idle]
    /\ plugin' = IF plugin = "ready" THEN "ready" ELSE "inactive"
    /\ UNCHANGED <<store, told>>

Crash ==
    /\ "crash" \in Faults
    /\ plugin # "inactive"
    /\ ProcessDies

\* A call through the client that OnConfigurationChange set to nil.
NilClient(r) ==
    /\ plugin = "no_client"
    /\ req[r].pc \in SolidtimeSteps
    /\ ProcessDies

ClearServerURL ==
    /\ "config" \in Faults
    /\ plugin = "ready"
    /\ plugin' = "no_client"
    /\ UNCHANGED <<store, told, req>>

SetServerURL ==
    /\ plugin # "ready"
    /\ plugin' = "ready"
    /\ UNCHANGED <<store, told, req>>

----------------------------------------------------------------------------
Connect(r) ==
    ConnectFetch(r) \/ ConnectPreviousOrg(r) \/ ConnectSaveMemberships(r) \/ ConnectSetToken(r)

Disconnect(r) == DeleteToken(r) \/ DeleteOrgID(r) \/ DeleteMemberID(r) \/ DeleteMemberships(r)

ResolveOrgMember(r) == GetToken(r) \/ GetOrgID(r) \/ GetMemberID(r)

ListOrganizations(r) ==
    GetMemberships(r) \/ RefreshToken(r) \/ RefreshFetch(r) \/ RefreshSave(r)

Arrive(r) == BeginConnect(r) \/ BeginDisconnect(r) \/ BeginSession(r) \/ BeginSwitch(r)

\* What request r does when nothing fails.
Progress(r) ==
    \/ Connect(r)
    \/ Disconnect(r)
    \/ ResolveOrgMember(r)
    \/ ListOrganizations(r)
    \/ SetOrgID(r)
    \/ SetMemberID(r)
    \/ CallSolidtime(r)
    \/ Announce(r)

Fail(r) == StoreError(r) \/ SolidtimeError(r)

Administrate == ClearServerURL \/ SetServerURL

Next ==
    \/ \E r \in Requests : Arrive(r) \/ Progress(r) \/ Fail(r) \/ NilClient(r)
    \/ Crash
    \/ Administrate

Spec == Init /\ [][Next]_vars

\* Goroutines are scheduled, and an HTTP call to Solidtime times out after 30 s.
Fairness == \A r \in Requests : WF_vars(Progress(r) \/ Fail(r) \/ NilClient(r))

FairSpec == Spec /\ Fairness
====
