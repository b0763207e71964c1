---- MODULE Sidebar ----
(***************************************************************************)
(* The right-hand sidebar in one browser tab: the organization and the     *)
(* week it shows, and the projects, the entries and the week total it has  *)
(* loaded for them.                                                        *)
(*                                                                         *)
(* A request names no organization: the plugin server answers for the one  *)
(* of the user's session, which another tab may have switched.  Answers    *)
(* come in any order.  Two loads can be cancelled when what they depend on *)
(* changes; every other request writes its answer whenever it arrives, for *)
(* the week of the render it was made in.                                  *)
(*                                                                         *)
(* A list is what it was read for (organization and week) and the changes  *)
(* of entries it reflects.  React's re-renders and effects after a change  *)
(* of state are part of the step that makes the change.                    *)
(***************************************************************************)
EXTENDS Naturals, Sequences

CONSTANTS
    Orgs, Weeks,
    Calls,       \* slots for the requests the tab has in flight
    MaxChanges,  \* bound: what users do and what goes wrong
    Faults,      \* a subset of AllFaults
    None         \* null, and an empty list

AllFaults == {"error", "connection", "elsewhere"}

Places == [org : Orgs, week : Weeks]

\* A list: what it was read for, and the changes of entries it reflects.
EntryLists == [place : Places, seen : SUBSET Nat]

SidebarAssumption ==
    /\ MaxChanges \in Nat
    /\ Faults \subseteq AllFaults
    /\ None \notin Orgs \cup Weeks \cup EntryLists

ASSUME SidebarAssumption

VARIABLES
    linked, org,   \* the server: the user is connected, the organization of the session
    log,           \* Solidtime: the organization and week of each change of an entry
    inbox,         \* WebSocket events on their way to the tab
    connected,     \* connection_state.ts
    orgsReady,     \* the organizations are loaded
    selected,      \* selectedOrgId in the Redux store
    week,          \* the week the footer shows
    projects,      \* the organization the projects were read for
    entries,       \* the entries
    total,         \* weekSeconds
    loading,       \* the list area shows "Loading..."
    timer,         \* an active timer is in the Redux store
    calls,         \* the requests in flight
    changes        \* how much happened

server == <<linked, org, log>>
content == <<projects, entries, total, loading>>
view == <<connected, orgsReady, selected, week>>

vars == <<linked, org, log, inbox, connected, orgsReady, selected, week, projects, entries,
          total, loading, timer, calls, changes>>

Place(o, w) == [org |-> o, week |-> w]

\* What Solidtime lists, or sums up, for a week of an organization now.
ListOf(o, w) == [place |-> Place(o, w), seen |-> {n \in DOMAIN log : log[n] = Place(o, w)}]

\* A request: its kind, the week of the render it comes from, what it is about, the
\* change of an entry it made, and what it has read so far.  It is live until the
\* effect that made it is cleaned up.
Request(kind, w, about) ==
    [pc |-> "ask", kind |-> kind, week |-> w, about |-> about, live |-> TRUE,
     change |-> 0, projects |-> None, entries |-> None, total |-> None]

Idle == [Request("none", None, None) EXCEPT !.pc = "idle"]

Init ==
    /\ linked = TRUE /\ org \in Orgs /\ log = <<>>
    /\ inbox = <<>>
    /\ connected = FALSE /\ orgsReady = FALSE /\ selected = None
    /\ week \in Weeks
    /\ projects = None /\ entries = None /\ total = None /\ loading = FALSE
    /\ timer = FALSE
    /\ calls = [c \in Calls |-> Idle]
    /\ changes = 0

----------------------------------------------------------------------------
(* Requests and effects. *)

At(c, kind, step) == calls[c].pc = step /\ calls[c].kind = kind

Done(c) == [calls EXCEPT ![c] = Idle]

\* A request goes out, the requests in flight being cs otherwise.
Send(cs, request) == \E c \in Calls : cs[c].pc = "idle" /\ calls' = [cs EXCEPT ![c] = request]

\* The clean-up of effects.
Cancelled(cs, kinds) ==
    [c \in Calls |-> IF cs[c].kind \in kinds THEN [cs[c] EXCEPT !.live = FALSE] ELSE cs[c]]

\* The effect that loads projects and entries, after a change of what it depends on.
Load(cs, ready, o, w) ==
    IF ready /\ o # None
    THEN /\ projects' = None /\ entries' = None /\ loading' = TRUE
         /\ Send(Cancelled(cs, {"load"}), Request("load", w, None))
    ELSE UNCHANGED <<projects, entries, loading>> /\ calls' = Cancelled(cs, {"load"})

\* setSelectedOrg.
Select(cs, o) ==
    /\ selected' = o
    /\ IF o = selected THEN UNCHANGED <<projects, entries, loading>> /\ calls' = cs
       ELSE Load(cs, orgsReady, o, week)

\* setConnectionState, and the effect that loads the organizations.
Connect(cs) ==
    /\ connected' = TRUE
    /\ IF connected THEN UNCHANGED orgsReady /\ calls' = cs
       ELSE orgsReady' = FALSE /\ Send(Cancelled(cs, {"load", "orgs"}), Request("orgs", week, None))
    /\ UNCHANGED <<selected, week, timer, content>>

\* Mutant: an empty identifier for no organization.
DisconnectEmpty(cs) ==
    /\ connected' = FALSE /\ orgsReady' = FALSE /\ selected' = "" /\ timer' = FALSE
    /\ projects' = None /\ entries' = None
    /\ calls' = Cancelled(cs, {"load", "orgs"})
    /\ UNCHANGED <<week, total>>

\* switchConnection(false): the sidebar is emptied, but for the week total and the
\* loading state.
Disconnect(cs) ==
    /\ connected' = FALSE /\ orgsReady' = FALSE /\ selected' = None /\ timer' = FALSE
    /\ projects' = None /\ entries' = None
    /\ calls' = Cancelled(cs, {"load", "orgs"})
    /\ UNCHANGED <<week, total>>

\* refreshEntries in slot c, made in the render of week w.
Refresh(cs, w) == loading' = TRUE /\ Send(cs, Request("refresh", w, None))

----------------------------------------------------------------------------
(* What the plugin server does with the requests. *)

\* What a load, a refresh or a request for the total alone asks for is read.
Read(c) == calls[c].total # None /\ (calls[c].kind = "total" \/ calls[c].entries # None)

\* solidtimeConnectedRequired, or another error.
Refuse(c) ==
    /\ calls[c].pc \in {"ask", "lists"} /\ ~Read(c)
    /\ \/ ~linked /\ calls' = [calls EXCEPT ![c].pc = "lost"]
       \/ "error" \in Faults /\ calls' = [calls EXCEPT ![c].pc = "failed"]
    /\ UNCHANGED <<server, inbox, view, content, timer, changes>>

GetOrganizations(c) ==
    /\ linked
    /\ At(c, "orgs", "ask")
    /\ calls' = [calls EXCEPT ![c].pc = "answer", ![c].about = org]
    /\ UNCHANGED <<server, inbox, view, content, timer, changes>>

GetProjects(c) ==
    /\ linked
    /\ At(c, "load", "ask")
    /\ calls' = [calls EXCEPT ![c].pc = "lists", ![c].projects = org]
    /\ UNCHANGED <<server, inbox, view, content, timer, changes>>

\* Of a refresh the lists are the first request.
ReadsLists(c) == At(c, "load", "lists") \/ At(c, "refresh", "ask")

GetTimeEntries(c) ==
    /\ linked
    /\ ReadsLists(c) /\ calls[c].entries = None
    /\ calls' = [calls EXCEPT ![c].entries = ListOf(org, calls[c].week)]
    /\ UNCHANGED <<server, inbox, view, content, timer, changes>>

\* Also refreshWeekTotal.
GetWeekTotal(c) ==
    /\ linked
    /\ ReadsLists(c) \/ At(c, "total", "ask")
    /\ calls[c].total = None
    /\ calls' = [calls EXCEPT ![c].total = ListOf(org, calls[c].week)]
    /\ UNCHANGED <<server, inbox, view, content, timer, changes>>

SetCurrentOrganization(c) ==
    /\ linked
    /\ At(c, "switch", "ask")
    /\ org' = calls[c].about
    /\ inbox' = Append(inbox, [kind |-> "org", to |-> org'])
    /\ calls' = [calls EXCEPT ![c].pc = "answer"]
    /\ UNCHANGED <<linked, log, view, content, timer, changes>>

\* A new entry goes into the organization of the session, in any week; another change
\* needs the entry to be in that organization.
ChangeEntry(c) ==
    /\ linked
    /\ calls[c].kind \in {"create", "retime", "rename", "delete"} /\ calls[c].pc = "ask"
    /\ LET place == calls[c].about
       IN  IF calls[c].kind # "create" /\ place.org # org
           THEN calls' = [calls EXCEPT ![c].pc = "failed"] /\ UNCHANGED log
           ELSE /\ log' = Append(log, Place(org, place.week))
                /\ calls' = [calls EXCEPT ![c].pc = "answer", ![c].change = Len(log')]
    /\ UNCHANGED <<linked, org, inbox, view, content, timer, changes>>

----------------------------------------------------------------------------
(* The answers. *)

OrganizationsLoaded(c) ==
    /\ At(c, "orgs", "answer")
    /\ IF calls[c].live
       THEN /\ orgsReady' = TRUE
            /\ selected' = calls[c].about
            /\ Load(Done(c), TRUE, selected', week)
       ELSE UNCHANGED <<orgsReady, selected, projects, entries, loading>> /\ calls' = Done(c)
    /\ UNCHANGED <<server, inbox, connected, week, total, timer, changes>>

\* Mutant: the answer of a cancelled load is shown.
LoadReturnsLate(c) ==
    /\ At(c, "load", "lists") /\ Read(c)
    /\ projects' = calls[c].projects /\ entries' = calls[c].entries
    /\ total' = calls[c].total /\ loading' = FALSE
    /\ calls' = Done(c)
    /\ UNCHANGED <<server, inbox, view, timer, changes>>

LoadReturns(c) ==
    /\ At(c, "load", "lists") /\ Read(c)
    /\ IF calls[c].live
       THEN /\ projects' = calls[c].projects /\ entries' = calls[c].entries
            /\ total' = calls[c].total /\ loading' = FALSE
       ELSE UNCHANGED content
    /\ calls' = Done(c)
    /\ UNCHANGED <<server, inbox, view, timer, changes>>

RefreshReturns(c) ==
    /\ At(c, "refresh", "ask") /\ Read(c)
    /\ entries' = calls[c].entries /\ total' = calls[c].total /\ loading' = FALSE
    /\ calls' = Done(c)
    /\ UNCHANGED <<server, inbox, view, projects, timer, changes>>

TotalReturns(c) ==
    /\ At(c, "total", "ask") /\ Read(c)
    /\ total' = calls[c].total
    /\ calls' = Done(c)
    /\ UNCHANGED <<server, inbox, view, projects, entries, loading, timer, changes>>

\* onChanged of the organization selector.
SwitchReturns(c) ==
    /\ At(c, "switch", "answer")
    /\ Select(Done(c), calls[c].about)
    /\ UNCHANGED <<server, inbox, connected, orgsReady, week, total, timer, changes>>

\* onCreated, of the render in which the form was submitted.
CreateReturns(c) ==
    /\ At(c, "create", "answer")
    /\ Refresh(Done(c), calls[c].week)
    /\ UNCHANGED <<server, inbox, view, projects, entries, total, timer, changes>>

\* The list shows the entry that change n changed.
Lists(n) == entries # None /\ entries.place = log[n]

\* The entry is replaced or filtered out in the list and the total read again.
ChangeInPlace(c) ==
    LET n == calls[c].change
    IN  /\ entries' = IF Lists(n) THEN [entries EXCEPT !.seen = @ \cup {n}] ELSE entries
        /\ Send(Done(c), Request("total", calls[c].week, None))
        /\ UNCHANGED loading

\* handleEntryUpdated: new times reload the list, unless the entry is not in it or a
\* reload has brought them already.
UpdateReturns(c) ==
    /\ At(c, "retime", "answer") \/ At(c, "rename", "answer")
    /\ LET n == calls[c].change
       IN  IF calls[c].kind = "retime" /\ Lists(n) /\ n \notin entries.seen
           THEN Refresh(Done(c), calls[c].week) /\ UNCHANGED entries
           ELSE ChangeInPlace(c)
    /\ UNCHANGED <<server, inbox, view, projects, total, timer, changes>>

\* handleEntryDeleted.
DeleteReturns(c) ==
    /\ At(c, "delete", "answer")
    /\ ChangeInPlace(c)
    /\ UNCHANGED <<server, inbox, view, projects, total, timer, changes>>

\* handlePluginApiError: not_connected disconnects the tab; a cancelled effect is
\* silent.  Whether a load is cancelled by then, and leaves the loading state as it
\* is, depends on when React cleans up.
RequestLost(c) ==
    /\ calls[c].pc = "lost"
    /\ IF calls[c].live
       THEN Disconnect(Done(c)) /\ loading' \in
              CASE calls[c].kind = "refresh" -> {FALSE}
                [] calls[c].kind = "load" -> {FALSE, loading}
                [] OTHER -> {loading}
       ELSE calls' = Done(c) /\ UNCHANGED <<view, content, timer>>
    /\ UNCHANGED <<server, inbox, changes>>

\* Mutant: the loading state is only reset by an answer.
RequestFailsLoading(c) ==
    /\ calls[c].pc = "failed"
    /\ calls' = Done(c)
    /\ UNCHANGED <<server, inbox, view, content, timer, changes>>

\* Any other error is shown to the user.
RequestFails(c) ==
    /\ calls[c].pc = "failed"
    /\ calls' = Done(c)
    /\ loading' = IF calls[c].kind = "refresh" \/ (calls[c].kind = "load" /\ calls[c].live)
                  THEN FALSE ELSE loading
    /\ UNCHANGED <<server, inbox, view, projects, entries, total, timer, changes>>

----------------------------------------------------------------------------
(* Events. *)

Receives(kind) == inbox # <<>> /\ Head(inbox).kind = kind /\ inbox' = Tail(inbox)

ConnectionChange ==
    /\ Receives("connection")
    /\ IF Head(inbox).to THEN Connect(calls) ELSE Disconnect(calls) /\ UNCHANGED loading
    /\ UNCHANGED <<server, changes>>

OrgChange ==
    /\ Receives("org")
    /\ Select(calls, Head(inbox).to)
    /\ UNCHANGED <<server, connected, orgsReady, week, total, timer, changes>>

----------------------------------------------------------------------------
(* The user, in this tab and elsewhere. *)

Change == changes < MaxChanges /\ changes' = changes + 1

\* The status of the mount, or the connect panel.
Open ==
    /\ Change
    /\ linked /\ ~connected
    /\ Connect(calls)
    /\ UNCHANGED <<server, inbox>>

\* The arrows of the footer.
ShowWeek ==
    /\ Change
    /\ connected
    /\ week' \in Weeks \ {week}
    /\ Load(calls, orgsReady, selected, week')
    /\ UNCHANGED <<server, inbox, connected, orgsReady, selected, total, timer>>

\* The selector of organizations.
SwitchOrg ==
    /\ Change
    /\ connected /\ orgsReady
    /\ \E o \in Orgs \ {selected} : Send(calls, Request("switch", week, o))
    /\ UNCHANGED <<server, inbox, view, content, timer>>

\* The form adds an entry, or stops the timer, in any week.
CreateEntry ==
    /\ Change
    /\ connected /\ orgsReady /\ projects # None
    /\ \E w \in Weeks : Send(calls, Request("create", week, Place(selected, w)))
    /\ UNCHANGED <<server, inbox, view, content, timer>>

\* An entry card of the list saves or deletes its entry.
EditEntry ==
    /\ Change
    /\ connected /\ entries # None /\ ~loading
    /\ \E kind \in {"retime", "rename", "delete"} : Send(calls, Request(kind, week, entries.place))
    /\ UNCHANGED <<server, inbox, view, content, timer>>

\* A timer is shown; it ends, in this tab or another, and the list is refreshed.
TimerStarts ==
    /\ connected /\ ~timer
    /\ Change
    /\ timer' = TRUE
    /\ UNCHANGED <<server, inbox, view, content, calls>>

TimerStops ==
    /\ timer
    /\ timer' = FALSE
    /\ \E w \in Weeks : log' = Append(log, Place(org, w))
    /\ IF connected /\ orgsReady /\ selected # None THEN Refresh(calls, week)
       ELSE UNCHANGED <<loading, calls>>
    /\ UNCHANGED <<linked, org, inbox, view, projects, entries, total, changes>>

\* Another tab switches the organization.
SwitchElsewhere ==
    /\ "elsewhere" \in Faults
    /\ Change
    /\ linked
    /\ org' \in Orgs \ {org}
    /\ inbox' = Append(inbox, [kind |-> "org", to |-> org'])
    /\ UNCHANGED <<linked, log, view, content, timer, calls>>

\* The user disconnects, or connects again, with a slash command or in another tab.
SwitchConnection ==
    /\ "connection" \in Faults
    /\ Change
    /\ linked' = ~linked
    /\ inbox' = Append(inbox, [kind |-> "connection", to |-> linked'])
    /\ UNCHANGED <<org, log, view, content, timer, calls>>

----------------------------------------------------------------------------
Serve(c) ==
    \/ Refuse(c)
    \/ GetOrganizations(c)
    \/ GetProjects(c)
    \/ GetTimeEntries(c)
    \/ GetWeekTotal(c)
    \/ SetCurrentOrganization(c)
    \/ ChangeEntry(c)

Return(c) ==
    \/ OrganizationsLoaded(c)
    \/ LoadReturns(c)
    \/ RefreshReturns(c)
    \/ TotalReturns(c)
    \/ SwitchReturns(c)
    \/ CreateReturns(c)
    \/ UpdateReturns(c)
    \/ DeleteReturns(c)
    \/ RequestLost(c)
    \/ RequestFails(c)

Receive == ConnectionChange \/ OrgChange

Here == Open \/ ShowWeek \/ SwitchOrg \/ CreateEntry \/ EditEntry \/ TimerStarts \/ TimerStops

Elsewhere == SwitchElsewhere \/ SwitchConnection

Next == (\E c \in Calls : Serve(c) \/ Return(c)) \/ Receive \/ Here \/ Elsewhere

Spec == Init /\ [][Next]_vars

\* Requests end, and events are delivered.
Fairness == WF_vars(Receive) /\ \A c \in Calls : WF_vars(Serve(c) \/ Return(c))
====
