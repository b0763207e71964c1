---- MODULE ConnectionHistory ----
(***************************************************************************)
(* Connection with history variables that say which requests overlapped,   *)
(* and the properties of the session.                                      *)
(*                                                                         *)
(* The code has no lock, so two writers that overlap, or one that stops    *)
(* half-way, can leave keys of different sessions side by side.  The       *)
(* history variables say exactly when that may have happened:              *)
(*   stale[r]    the store or the announcements changed by the hand of     *)
(*               another request since r arrived                           *)
(*   halfway[r]  r changed them and has not finished that write sequence   *)
(*   tainted     two write sequences overlapped or one stopped half-way,   *)
(*               and no connect or disconnect ran undisturbed since        *)
(* They are read by no action of the system.                               *)
(***************************************************************************)
EXTENDS Connection

VARIABLES stale, halfway, tainted

history == <<stale, halfway, tainted>>

hvars == <<token, orgID, memberID, memberships, told, plugin, req, stale, halfway, tainted>>

shared == <<token, orgID, memberID, memberships, told>>

HInit ==
    /\ Init
    /\ stale = [r \in Requests |-> FALSE]
    /\ halfway = [r \in Requests |-> FALSE]
    /\ tainted = FALSE

\* The points between write sequences: before the arrival and in the handler.
AtRest(q) == q.pc \in {"idle", "get_list", "call"}

\* A connect or disconnect that ended undisturbed replaced the whole session.
Replaces(r) ==
    /\ At(r, "announce")
    /\ req[r].kind \in {"connect", "disconnect"}
    /\ ~stale[r]
    /\ \A q \in Requests \ {r} : ~halfway[q]

\* r writes over what another request wrote meanwhile, or is still writing.
Conflicts(r) ==
    /\ shared' # shared
    /\ stale[r] \/ \E q \in Requests \ {r} : halfway[q]

Observe(r) ==
    /\ stale' = [q \in Requests |->
                    IF q = r THEN stale[r] /\ req'[r].pc # "idle"
                    ELSE stale[q] \/ (shared' # shared /\ ~At(q, "idle"))]
    /\ halfway' = [halfway EXCEPT ![r] = ~AtRest(req'[r]) /\ (@ \/ shared' # shared)]

\* A step that goes well may complete a session or run into another request.
ObserveProgress(r) ==
    /\ Observe(r)
    /\ tainted' = (~Replaces(r) /\ (tainted \/ Conflicts(r)))

\* A request that fails half-way leaves what it wrote so far.
ObserveFailure(r) ==
    /\ Observe(r)
    /\ tainted' = (tainted \/ halfway[r])

ObserveDeath ==
    /\ stale' = [r \in Requests |-> FALSE]
    /\ halfway' = [r \in Requests |-> FALSE]
    /\ tainted' = (tainted \/ \E r \in Requests : halfway[r])

HNext ==
    \/ \E r \in Requests : (Arrive(r) \/ Progress(r)) /\ ObserveProgress(r)
    \/ \E r \in Requests : Fail(r) /\ ObserveFailure(r)
    \/ (Crash \/ \E r \in Requests : NilClient(r)) /\ ObserveDeath
    \/ Administrate /\ UNCHANGED history

HSpec == HInit /\ [][HNext]_hvars

----------------------------------------------------------------------------
(* Every variable keeps its type. *)
Requesting ==
    [kind : Kinds \cup {None}, pc : Steps, resolved : BOOLEAN,
     token : Tokens \cup {None}, target : Orgs \cup {None},
     org : Orgs \cup {None}, member : Members \cup {None},
     fresh : Tokens \cup {None}, list : MembershipLists \cup {<<>>}]

TypeOK ==
    /\ token \in Tokens \cup {None}
    /\ orgID \in Orgs \cup {None}
    /\ memberID \in Members \cup {None}
    /\ memberships \in MembershipLists \cup {<<>>}
    /\ told \in BOOLEAN
    /\ plugin \in {"ready", "no_client", "inactive"}
    /\ req \in [Requests -> Requesting]
    /\ stale \in [Requests -> BOOLEAN]
    /\ halfway \in [Requests -> BOOLEAN]
    /\ tainted \in BOOLEAN

----------------------------------------------------------------------------
(* What a session is. *)

\* Without a token there is no session, and nothing of one.
NothingLeft == token = None => orgID = None /\ memberID = None /\ memberships = <<>>

\* The member ID is the one of this account in the selected organization.
PairMatches ==
    token # None /\ orgID # None /\ memberID # None => memberID = Member(token, orgID)

\* The cached memberships are those of the account the token belongs to.
ListOwned == token # None => \A m \in Entries(memberships) : m.account = token

\* The tabs were last told what is the case.
ToldTruth == told = (token # None)

Settled == ~tainted /\ \A r \in Requests : ~halfway[r]

\* The four keys describe one session: whenever no request is half-way through
\* its writes, and writers neither overlapped nor stopped half-way since the last
\* connect or disconnect that ran undisturbed.  It covers Connect,
\* SetCurrentOrganization, the repair of ensureOrgMember, the refresh of the
\* cache and DeleteUserData, whatever the interleaving of the requests.
SessionCoherent == Settled => NothingLeft /\ PairMatches /\ ListOwned

\* The connection event the tabs saw last agrees with the store, under the same
\* condition: PublishConnectionChange comes after the writes it tells about.
AnnouncedTruth == Settled => ToldTruth

\* A request that passed the middleware never carries a gap: token, organization
\* and member ID are all there, in every interleaving and after every failure.
ResolvedComplete ==
    \A r \in Requests :
        req[r].resolved => /\ req[r].token # None
                           /\ req[r].pc = "call" => req[r].org # None /\ req[r].member # None

\* The session a handler calls Solidtime with is the one in the store, unless
\* another request changed the store since this one arrived: reading three keys
\* one by one and repairing what is missing adds up to one snapshot.
ResolvedSnapshot ==
    \A r \in Requests :
        At(r, "call") /\ ~stale[r] =>
            token = req[r].token /\ orgID = req[r].org /\ memberID = req[r].member

\* A switch about to publish solidtime-org-change has both keys in place for the
\* organization it names, which is the one the user asked for.
SwitchComplete ==
    \A r \in Requests :
        At(r, "announce") /\ req[r].kind = "switch" /\ ~stale[r] =>
            /\ req[r].org = req[r].target
            /\ orgID = req[r].target
            /\ memberID # None /\ memberID.org = orgID

----------------------------------------------------------------------------
(* The four keys and their writers are an implementation of one register. *)

\* The session in the keys; without the pair it has no usable organization.
Stored ==
    IF token = None THEN None
    ELSE [account |-> token, org |-> IF memberID = None THEN None ELSE orgID]

\* The session request q is writing.
Goal(q) == IF q.kind = "disconnect" THEN None ELSE Member(q.token, q.org)

Writer == CHOOSE r \in Requests : halfway[r]

OperationOf(q) ==
    CASE q.kind = "connect" -> "connecting"
      [] q.kind = "disconnect" -> "disconnecting"
      [] OTHER -> "selecting"

Status ==
    IF tainted THEN "torn"
    ELSE IF Settled THEN "steady"
    ELSE OperationOf(req[Writer])

Session ==
    IF tainted THEN None
    ELSE IF Settled THEN Stored
    ELSE Goal(req[Writer])

Register == INSTANCE SessionRegister WITH status <- Status, session <- Session

\* However the requests interleave, fail and die, the store with its lockless writers
\* is a register of whole sessions that one operation at a time changes: the outcome of
\* Connect, SetCurrentOrganization, ensureOrgMember and DeleteUserData is settled at
\* their first write, is what the keys hold after the last, and is announced then.  Only
\* writers that overlap or stop half-way tear it, and only an undisturbed connect or
\* disconnect mends it.
ActsAsRegister == Register!Spec

----------------------------------------------------------------------------
(* Requests one after the other, with every fault. *)

HFairSpec ==
    HSpec /\ \A r \in Requests : WF_hvars(\/ Progress(r) /\ ObserveProgress(r)
                                          \/ Fail(r) /\ ObserveFailure(r)
                                          \/ NilClient(r) /\ ObserveDeath)

\* A token has a whole session beside it.
Backed == token # None => orgID # None /\ memberID # None /\ memberships # <<>>

\* Connect writes the token last and DeleteUserData deletes it first: a crash or a
\* failed write at any point of one request after another never leaves a token
\* whose session needs a repair, and the one repair an old session gets lasts.
TokenBacked == [][Backed => Backed']_hvars

\* Every request comes to its end: no path through the repair and the refresh of
\* the memberships leads back into itself.
RequestsFinish == \A r \in Requests : ~At(r, "idle") ~> At(r, "idle")

----------------------------------------------------------------------------
(* What the documentation says of the keys. *)

\* docs/ARCHITECTURE.md, table of the store: solidtime_member_ is the "Member ID
\* for selected org".  With no request in flight the two keys must agree.
MemberOfSelectedOrg ==
    (\A r \in Requests : At(r, "idle")) /\ orgID # None /\ memberID # None =>
        memberID.org = orgID
====
