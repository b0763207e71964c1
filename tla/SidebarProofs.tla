---- MODULE SidebarProofs ----
(***************************************************************************)
(* Proofs about SidebarHistory for any organizations, weeks and requests   *)
(* in flight, and any faults.                                              *)
(***************************************************************************)
EXTENDS SidebarHistory, TLAPS

----------------------------------------------------------------------------
(* The inductive invariants behind TypeOK and ListsCurrent. *)

EntryKinds == {"retime", "rename", "delete"}

\* A request in flight is of the render of some week and is about what its kind is
\* about; only the effects that load are ever cleaned up.
FormedRequests(n) ==
    {q \in Requests(n) :
        /\ q.pc = "idle" => q.kind = "none"
        /\ q.pc # "idle" => q.kind # "none" /\ q.week \in Weeks
        /\ ~q.live => q.kind \in {"load", "orgs"}
        /\ q.kind = "switch" \/ (q.kind = "orgs" /\ q.pc = "answer") => q.about \in Orgs
        /\ q.kind \in EntryKinds \cup {"create"} =>
              q.about \in Places /\ (q.pc = "answer" => q.change \in 1..n)}

TypeInvariant ==
    /\ TypeOK
    /\ calls \in [Calls -> FormedRequests(Len(log))]
    /\ orgsReady => selected # None

----------------------------------------------------------------------------
\* A request that is over for the sidebar: it changes nothing, or it says of the
\* organization what an event has said or will say.
Over(c) ==
    \/ calls[c].pc = "idle"
    \/ ~calls[c].live
    \/ At(c, "switch", "answer") /\ calls[c].about \in {org, selected}

\* The events still to come lead from the organization of the tab to that of the server.
InboxLeads ==
    /\ \A n \in 1..Len(inbox) : inbox[n].kind = "org" /\ inbox[n].to \in {selected, org}
    /\ \A m, n \in 1..Len(inbox) : m < n /\ inbox[m].to # selected => inbox[n].to = org
    /\ selected # org => inbox # <<>> /\ inbox[Len(inbox)].to = org

ProjectsCurrent == fresh = "all" => projects = selected

Current ==
    /\ ProjectsCurrent
    /\ entries = ListOf(selected, week) /\ total = ListOf(selected, week)

\* The list when all it lacks is the last change.
LacksLast ==
    /\ log # <<>> /\ log[Len(log)] = Place(selected, week)
    /\ entries = [place |-> Place(selected, week),
                  seen  |-> ListOf(selected, week).seen \ {Len(log)}]

\* What a request has read of the lists is what they are.
ReadsCurrent(q) ==
    /\ q.week = week
    /\ q.entries \in {None, ListOf(selected, week)}
    /\ q.total \in {None, ListOf(selected, week)}

\* What is known at each step of the one request under way.
LoadKeeps(q) ==
    /\ q.pc \in {"ask", "lists"} /\ fresh = "all"
    /\ ReadsCurrent(q)
    /\ q.pc = "lists" => q.projects = selected

RefreshKeeps(q) == q.pc = "ask" /\ ReadsCurrent(q) /\ ProjectsCurrent

TotalKeeps(q) ==
    /\ q.pc = "ask" /\ ReadsCurrent(q)
    /\ ProjectsCurrent /\ entries = ListOf(selected, week)

SwitchKeeps(q) == q.pc = "ask" /\ Current

CreateKeeps(q) == \/ q.pc = "ask" /\ Current
                  \/ q.pc = "answer" /\ ProjectsCurrent

EditKeeps(q) ==
    \/ q.pc = "ask" /\ Current /\ q.about = Place(selected, week)
    \/ q.pc = "answer" /\ ProjectsCurrent /\ q.change = Len(log) /\ LacksLast

Keeps(q) ==
    \/ q.kind = "load" /\ LoadKeeps(q)
    \/ q.kind = "refresh" /\ RefreshKeeps(q)
    \/ q.kind = "total" /\ TotalKeeps(q)
    \/ q.kind = "switch" /\ SwitchKeeps(q)
    \/ q.kind = "create" /\ CreateKeeps(q)
    \/ q.kind \in EntryKinds /\ EditKeeps(q)

\* As long as the sidebar must be current in the end, one request at most can still
\* change it, it answers for the organization and the week the sidebar shows, and with
\* none under way the sidebar is current or about to hear of another organization.
FreshBody ==
    /\ \A c, d \in Calls : ~Over(c) /\ ~Over(d) => c = d
    /\ InboxLeads
    /\ \A c \in Calls : ~Over(c) => selected = org /\ Keeps(calls[c])
    /\ (\A c \in Calls : Over(c)) /\ selected = org => Current

FreshInvariant == fresh # "no" /\ orgsReady => FreshBody

----------------------------------------------------------------------------
Events == [kind : {"org"}, to : Orgs] \cup [kind : {"connection"}, to : BOOLEAN]

----------------------------------------------------------------------------
(* Requests. *)

LEMMA IdleFormed ==
    ASSUME NEW n \in Nat
    PROVE  Idle \in FormedRequests(n) /\ Idle.pc = "idle" /\ Idle.kind = "none" /\ Idle.live
<1> DEFINE q == Request("none", None, None)
<1>1. q \in Requests(n) /\ q.live /\ q.kind = "none"
  BY DEF Request, Requests
<1> HIDE DEF q
<1>2. Idle \in Requests(n) /\ Idle.live /\ Idle.kind = "none" /\ Idle.pc = "idle"
  <2>1. Idle = [q EXCEPT !.pc = "idle"]
    BY DEF Idle, q
  <2> QED
    BY <1>1, <2>1 DEF Requests
<1> QED
  BY <1>2 DEF FormedRequests, EntryKinds

\* A new request, about what its kind is about.
LEMMA RequestFormed ==
    ASSUME NEW n \in Nat, NEW kind \in Kinds, NEW w \in Weeks,
           NEW about \in Orgs \cup Places \cup {None},
           kind = "switch" => about \in Orgs,
           kind \in EntryKinds \cup {"create"} => about \in Places
    PROVE  /\ Request(kind, w, about) \in FormedRequests(n)
           /\ Request(kind, w, about).pc = "ask" /\ Request(kind, w, about).kind = kind
<1>1. Request(kind, w, about) \in Requests(n)
  BY DEF Request, Requests
<1>2. kind # "none"
  BY DEF Kinds
<1> QED
  BY <1>1, <1>2 DEF FormedRequests, Request

\* What is well formed stays so as entries change.
LEMMA FormedGrow ==
    ASSUME NEW n \in Nat, NEW m \in Nat, n <= m
    PROVE  FormedRequests(n) \subseteq FormedRequests(m) /\ TimeLists(n) \subseteq TimeLists(m)
<1>1. 1..n \subseteq 1..m /\ 0..n \subseteq 0..m
  OBVIOUS
<1>2. TimeLists(n) \subseteq TimeLists(m)
  BY <1>1 DEF TimeLists
<1>3. Requests(n) \subseteq Requests(m)
  BY <1>1, <1>2 DEF Requests
<1> QED
  BY <1>1, <1>2, <1>3 DEF FormedRequests

\* The clean-up of the effects that load.
LEMMA CancelledFormed ==
    ASSUME NEW n \in Nat, NEW cs \in [Calls -> FormedRequests(n)], NEW kinds \in SUBSET {"load", "orgs"}
    PROVE  Cancelled(cs, kinds) \in [Calls -> FormedRequests(n)]
<1> SUFFICES ASSUME NEW c \in Calls, cs[c].kind \in kinds
             PROVE  [cs[c] EXCEPT !.live = FALSE] \in FormedRequests(n)
  BY DEF Cancelled
<1> DEFINE q == [cs[c] EXCEPT !.live = FALSE]
<1>1. cs[c] \in FormedRequests(n) /\ cs[c] \in Requests(n)
  BY DEF FormedRequests
<1>2. q \in Requests(n)
  BY <1>1 DEF Requests
<1>3. /\ q.pc = cs[c].pc /\ q.kind = cs[c].kind /\ q.week = cs[c].week /\ q.about = cs[c].about
      /\ q.change = cs[c].change
  BY <1>1 DEF Requests
<1> HIDE DEF q
<1>4. q.kind \in {"load", "orgs"}
  BY <1>3
<1>5. q \in FormedRequests(n)
  BY <1>1, <1>2, <1>3, <1>4 DEF FormedRequests
<1> QED
  BY <1>5 DEF q

LEMMA DoneFormed ==
    ASSUME NEW n \in Nat, calls \in [Calls -> FormedRequests(n)], NEW c \in Calls
    PROVE  Done(c) \in [Calls -> FormedRequests(n)]
BY IdleFormed DEF Done

LEMMA SendFormed ==
    ASSUME NEW n \in Nat, NEW cs \in [Calls -> FormedRequests(n)], NEW q \in FormedRequests(n),
           Send(cs, q)
    PROVE  calls' \in [Calls -> FormedRequests(n)]
BY DEF Send

\* What Solidtime lists.
LEMMA ListFormed ==
    ASSUME TypeInvariant, NEW o \in Orgs, NEW w \in Weeks
    PROVE  /\ ListOf(o, w) \in TimeLists(Len(log))
           /\ ListOf(o, w) # None
<1>1. log \in Seq(Places) /\ Len(log) \in Nat
  BY DEF TypeInvariant, TypeOK
<1>2. Place(o, w) \in Places
  BY DEF Place, Places
<1>3. {n \in DOMAIN log : log[n] = Place(o, w)} \subseteq 1..Len(log)
  BY <1>1
<1>4. ListOf(o, w) \in TimeLists(Len(log))
  BY <1>2, <1>3 DEF ListOf, TimeLists
<1>5. TimeLists(Len(log)) \subseteq EntryLists
  BY <1>1 DEF TimeLists, EntryLists
<1> QED
  BY <1>4, <1>5, SidebarAssumption DEF SidebarAssumption

\* The facts about the variables that most steps need.
LEMMA Known ==
    ASSUME TypeInvariant
    PROVE  /\ Len(log) \in Nat /\ log \in Seq(Places) /\ inbox \in Seq(Events)
           /\ calls \in [Calls -> FormedRequests(Len(log))]
           /\ org \in Orgs /\ week \in Weeks /\ selected \in Orgs \cup {None}
           /\ orgsReady \in BOOLEAN /\ connected \in BOOLEAN /\ loading \in BOOLEAN
           /\ timer \in BOOLEAN /\ linked \in BOOLEAN
           /\ projects \in Orgs \cup {None}
           /\ entries \in TimeLists(Len(log)) \cup {None} /\ total \in TimeLists(Len(log)) \cup {None}
           /\ changes \in 0..MaxChanges
           /\ (orgsReady => selected \in Orgs)
BY DEF TypeInvariant, TypeOK, Events

\* What is known of a call in flight.
LEMMA CallKnown ==
    ASSUME TypeInvariant, NEW c \in Calls
    PROVE  /\ calls[c] \in Requests(Len(log))
           /\ calls[c].pc = "idle" => calls[c].kind = "none"
           /\ calls[c].pc # "idle" => calls[c].kind # "none" /\ calls[c].week \in Weeks
           /\ ~calls[c].live => calls[c].kind \in {"load", "orgs"}
           /\ calls[c].kind = "switch" => calls[c].about \in Orgs
           /\ calls[c].kind = "orgs" /\ calls[c].pc = "answer" => calls[c].about \in Orgs
           /\ calls[c].kind \in EntryKinds \cup {"create"} =>
                 /\ calls[c].about \in Places
                 /\ calls[c].pc = "answer" => calls[c].change \in 1..Len(log)
<1>1. calls[c] \in FormedRequests(Len(log))
  BY DEF TypeInvariant
<1> QED
  BY <1>1 DEF FormedRequests

----------------------------------------------------------------------------
(* Types. *)

\* The types that a step with no change of an entry has to keep.
LEMMA TypesFrom ==
    ASSUME TypeInvariant, log' = log,
           linked' \in BOOLEAN, org' \in Orgs, inbox' \in Seq(Events),
           connected' \in BOOLEAN, orgsReady' \in BOOLEAN,
           selected' \in Orgs \cup {None}, week' \in Weeks, projects' \in Orgs \cup {None},
           entries' \in TimeLists(Len(log)) \cup {None}, total' \in TimeLists(Len(log)) \cup {None},
           loading' \in BOOLEAN, timer' \in BOOLEAN, changes' \in 0..MaxChanges,
           fresh' \in {"no", "lists", "all"},
           calls' \in [Calls -> FormedRequests(Len(log))],
           orgsReady' => selected' \in Orgs
    PROVE  TypeInvariant'
<1>1. FormedRequests(Len(log)) \subseteq Requests(Len(log))
  BY DEF FormedRequests
<1>2. calls' \in [Calls -> Requests(Len(log))]
  BY <1>1
<1>3. orgsReady' => selected' # None
  BY SidebarAssumption DEF SidebarAssumption
<1>4. log \in Seq(Places)
  BY DEF TypeInvariant, TypeOK
<1> QED
  BY <1>2, <1>3, <1>4 DEF TypeInvariant, TypeOK, Events

\* What must be current keeps its type, whatever happens.
LEMMA FreshType ==
    ASSUME fresh \in {"no", "lists", "all"}, Observe
    PROVE  fresh' \in {"no", "lists", "all"}
<1>1. \A c : Promised(c) \in {"no", "lists", "all"}
  BY DEF Promised
<1> HIDE DEF Promised
<1> QED
  BY <1>1 DEF Observe

\* The types that a step with a change of an entry has to keep.
LEMMA TypesGrow ==
    ASSUME TypeInvariant, NEW p \in Places, log' = Append(log, p),
           UNCHANGED <<linked, org, inbox, connected, orgsReady, selected, week, projects, entries,
                       total>>,
           loading' \in BOOLEAN, timer' \in BOOLEAN, changes' \in 0..MaxChanges,
           fresh' \in {"no", "lists", "all"},
           calls' \in [Calls -> FormedRequests(Len(log) + 1)]
    PROVE  TypeInvariant'
<1>1. log \in Seq(Places) /\ Len(log) \in Nat
  BY DEF TypeInvariant, TypeOK
<1>2. log' \in Seq(Places) /\ Len(log') = Len(log) + 1
  BY <1>1
<1>3. TimeLists(Len(log)) \subseteq TimeLists(Len(log) + 1)
  BY <1>1, FormedGrow
<1>4. calls' \in [Calls -> Requests(Len(log) + 1)]
  BY DEF FormedRequests
<1>5. /\ entries' \in TimeLists(Len(log')) \cup {None} /\ total' \in TimeLists(Len(log')) \cup {None}
      /\ calls' \in [Calls -> Requests(Len(log'))] /\ calls' \in [Calls -> FormedRequests(Len(log'))]
  BY <1>2, <1>3, <1>4 DEF TypeInvariant, TypeOK
<1> QED
  BY <1>2, <1>5 DEF TypeInvariant, TypeOK

LEMMA LoadTypes ==
    ASSUME TypeInvariant, NEW cs \in [Calls -> FormedRequests(Len(log))], NEW ready \in BOOLEAN,
           NEW o, NEW w \in Weeks, Load(cs, ready, o, w)
    PROVE  /\ projects' \in Orgs \cup {None} /\ entries' \in TimeLists(Len(log)) \cup {None}
           /\ loading' \in BOOLEAN
           /\ calls' \in [Calls -> FormedRequests(Len(log))]
<1>1. Len(log) \in Nat
  BY Known
<1>2. Cancelled(cs, {"load"}) \in [Calls -> FormedRequests(Len(log))]
  BY <1>1, CancelledFormed
<1>3. CASE ready /\ o # None
  <2>1. Request("load", w, None) \in FormedRequests(Len(log))
    BY <1>1, RequestFormed DEF Kinds, EntryKinds
  <2>2. /\ projects' = None /\ entries' = None /\ loading' = TRUE
        /\ Send(Cancelled(cs, {"load"}), Request("load", w, None))
    BY <1>3 DEF Load
  <2>3. calls' \in [Calls -> FormedRequests(Len(log))]
    BY <1>1, <1>2, <2>1, <2>2, SendFormed
  <2> QED
    BY <2>2, <2>3
<1>4. CASE ~(ready /\ o # None)
  BY <1>2, <1>4, Known DEF Load
<1> QED
  BY <1>3, <1>4

LEMMA SelectTypes ==
    ASSUME TypeInvariant, NEW cs \in [Calls -> FormedRequests(Len(log))], NEW o \in Orgs,
           Select(cs, o)
    PROVE  /\ selected' = o
           /\ projects' \in Orgs \cup {None} /\ entries' \in TimeLists(Len(log)) \cup {None}
           /\ loading' \in BOOLEAN
           /\ calls' \in [Calls -> FormedRequests(Len(log))]
<1>1. CASE o = selected
  BY <1>1, Known DEF Select
<1>2. CASE o # selected
  <2>1. Load(cs, orgsReady, o, week) /\ selected' = o
    BY <1>2 DEF Select
  <2> QED
    BY <2>1, LoadTypes, Known
<1> QED
  BY <1>1, <1>2

LEMMA ConnectTypes ==
    ASSUME TypeInvariant, Connect(calls)
    PROVE  /\ connected' \in BOOLEAN /\ orgsReady' \in BOOLEAN /\ (orgsReady' => selected' \in Orgs)
           /\ UNCHANGED <<selected, week, timer, content>>
           /\ calls' \in [Calls -> FormedRequests(Len(log))]
<1>3. connected' = TRUE /\ selected' = selected /\ (orgsReady' = orgsReady \/ orgsReady' = FALSE)
  BY DEF Connect
<1>4. connected' \in BOOLEAN /\ orgsReady' \in BOOLEAN /\ (orgsReady' => selected' \in Orgs)
  <2>1. CASE orgsReady' = orgsReady
    BY <1>3, <2>1, Known
  <2>2. CASE orgsReady' = FALSE
    BY <1>3, <2>2
  <2> QED
    BY <1>3, <2>1, <2>2
<1>1. CASE connected
  BY <1>1, Known DEF Connect
<1>2. CASE ~connected
  <2> DEFINE cs == Cancelled(calls, {"load", "orgs"})
  <2>1. Len(log) \in Nat /\ cs \in [Calls -> FormedRequests(Len(log))]
    BY CancelledFormed, Known
  <2>2. Request("orgs", week, None) \in FormedRequests(Len(log))
    BY <2>1, RequestFormed, Known DEF Kinds, EntryKinds
  <2>3. Send(cs, Request("orgs", week, None))
    BY <1>2 DEF Connect
  <2> HIDE DEF cs
  <2>4. calls' \in [Calls -> FormedRequests(Len(log))]
    BY <2>1, <2>2, <2>3, SendFormed
  <2> QED
    BY <1>2, <2>4 DEF Connect
<1> QED
  BY <1>1, <1>2, <1>4 DEF Connect

LEMMA DisconnectTypes ==
    ASSUME TypeInvariant, NEW cs \in [Calls -> FormedRequests(Len(log))], Disconnect(cs)
    PROVE  /\ connected' = FALSE /\ orgsReady' = FALSE /\ selected' = None /\ timer' = FALSE
           /\ projects' = None /\ entries' = None /\ UNCHANGED <<week, total>>
           /\ calls' \in [Calls -> FormedRequests(Len(log))]
<1>1. Cancelled(cs, {"load", "orgs"}) \in [Calls -> FormedRequests(Len(log))]
  BY CancelledFormed, Known
<1> QED
  BY <1>1 DEF Disconnect

\* The requests that no choice of the user goes into.
LEMMA SendTypes ==
    ASSUME TypeInvariant, NEW n \in Nat, NEW cs \in [Calls -> FormedRequests(n)],
           NEW kind \in {"refresh", "total"}, NEW w \in Weeks, Send(cs, Request(kind, w, None))
    PROVE  calls' \in [Calls -> FormedRequests(n)]
<1>1. Request(kind, w, None) \in FormedRequests(n)
  BY RequestFormed DEF Kinds, EntryKinds
<1> QED
  BY <1>1, SendFormed

\* The plugin server answers a request well formed.
LEMMA ServeTypes ==
    ASSUME TypeInvariant, NEW c \in Calls, Serve(c), fresh' \in {"no", "lists", "all"}
    PROVE  TypeInvariant'
<1> USE DEF server, view, content
<1> DEFINE n == Len(log)
<1>1. calls[c] \in FormedRequests(n) /\ calls \in [Calls -> FormedRequests(n)] /\ n \in Nat
  BY Known
<1>2. ASSUME NEW pc \in {"lost", "failed"}, calls[c].pc \in {"ask", "lists"},
             calls' = [calls EXCEPT ![c].pc = pc]
      PROVE  calls' \in [Calls -> FormedRequests(n)]
  <2> DEFINE q == [calls[c] EXCEPT !.pc = pc]
  <2>1. q \in Requests(n)
    BY CallKnown DEF Requests
  <2>2. /\ q.pc = pc /\ q.kind = calls[c].kind /\ q.week = calls[c].week
        /\ q.about = calls[c].about /\ q.live = calls[c].live
    BY CallKnown DEF Requests
  <2> HIDE DEF q
  <2>3. q \in FormedRequests(n)
    BY <1>2, <2>1, <2>2, CallKnown DEF FormedRequests
  <2>4. calls' = [calls EXCEPT ![c] = q]
    BY <1>1, <1>2 DEF q
  <2> QED
    BY <1>1, <2>3, <2>4
<1>3. CASE Refuse(c)
  <2>1. calls' \in [Calls -> FormedRequests(n)]
    BY <1>2, <1>3 DEF Refuse
  <2> QED
    BY <1>3, <2>1, Known, TypesFrom DEF Refuse
<1>4. CASE GetOrganizations(c)
  <2> DEFINE q == [calls[c] EXCEPT !.pc = "answer", !.about = org]
  <2>1. q \in Requests(n)
    BY CallKnown, Known DEF Requests
  <2>2. q.pc = "answer" /\ q.kind = "orgs" /\ q.week = calls[c].week /\ q.about = org
    BY <1>4, CallKnown DEF Requests, GetOrganizations, At
  <2> HIDE DEF q
  <2>3. q \in FormedRequests(n)
    BY <1>4, <2>1, <2>2, CallKnown, Known DEF FormedRequests, GetOrganizations, At, EntryKinds
  <2>4. calls' = [calls EXCEPT ![c] = q]
    BY <1>1, <1>4 DEF q, GetOrganizations
  <2>5. calls' \in [Calls -> FormedRequests(n)]
    BY <1>1, <2>3, <2>4
  <2> QED
    BY <1>4, <2>5, Known, TypesFrom DEF GetOrganizations
<1>5. CASE GetProjects(c)
  <2> DEFINE q == [calls[c] EXCEPT !.pc = "lists", !.projects = org]
  <2>1. q \in Requests(n)
    BY CallKnown, Known DEF Requests
  <2>2. q.pc = "lists" /\ q.kind = "load" /\ q.week = calls[c].week
    BY <1>5, CallKnown DEF Requests, GetProjects, At
  <2> HIDE DEF q
  <2>3. q \in FormedRequests(n)
    BY <1>5, <2>1, <2>2, CallKnown DEF FormedRequests, GetProjects, At, EntryKinds
  <2>4. calls' = [calls EXCEPT ![c] = q]
    BY <1>1, <1>5 DEF q, GetProjects
  <2>5. calls' \in [Calls -> FormedRequests(n)]
    BY <1>1, <2>3, <2>4
  <2> QED
    BY <1>5, <2>5, Known, TypesFrom DEF GetProjects
<1>6. CASE GetTimeEntries(c)
  <2> DEFINE q == [calls[c] EXCEPT !.entries = ListOf(org, calls[c].week)]
  <2>1. calls[c].pc \in {"ask", "lists"} /\ calls[c].week \in Weeks
    BY <1>6, CallKnown DEF GetTimeEntries, ReadsLists, At
  <2>2. ListOf(org, calls[c].week) \in TimeLists(n)
    BY <2>1, Known, ListFormed
  <2>3. q \in Requests(n)
    BY <2>2, CallKnown DEF Requests
  <2>4. /\ q.pc = calls[c].pc /\ q.kind = calls[c].kind /\ q.week = calls[c].week
        /\ q.about = calls[c].about /\ q.live = calls[c].live
    BY CallKnown DEF Requests
  <2> HIDE DEF q
  <2>5. q \in FormedRequests(n)
    BY <2>1, <2>3, <2>4, CallKnown DEF FormedRequests
  <2>6. calls' = [calls EXCEPT ![c] = q]
    BY <1>1, <1>6 DEF q, GetTimeEntries
  <2>7. calls' \in [Calls -> FormedRequests(n)]
    BY <1>1, <2>5, <2>6
  <2> QED
    BY <1>6, <2>7, Known, TypesFrom DEF GetTimeEntries
<1>7. CASE GetWeekTotal(c)
  <2> DEFINE q == [calls[c] EXCEPT !.total = ListOf(org, calls[c].week)]
  <2>1. calls[c].pc \in {"ask", "lists"} /\ calls[c].week \in Weeks
    BY <1>7, CallKnown DEF GetWeekTotal, ReadsLists, At
  <2>2. ListOf(org, calls[c].week) \in TimeLists(n)
    BY <2>1, Known, ListFormed
  <2>3. q \in Requests(n)
    BY <2>2, CallKnown DEF Requests
  <2>4. /\ q.pc = calls[c].pc /\ q.kind = calls[c].kind /\ q.week = calls[c].week
        /\ q.about = calls[c].about /\ q.live = calls[c].live
    BY CallKnown DEF Requests
  <2> HIDE DEF q
  <2>5. q \in FormedRequests(n)
    BY <2>1, <2>3, <2>4, CallKnown DEF FormedRequests
  <2>6. calls' = [calls EXCEPT ![c] = q]
    BY <1>1, <1>7 DEF q, GetWeekTotal
  <2>7. calls' \in [Calls -> FormedRequests(n)]
    BY <1>1, <2>5, <2>6
  <2> QED
    BY <1>7, <2>7, Known, TypesFrom DEF GetWeekTotal
<1>8. CASE SetCurrentOrganization(c)
  <2> DEFINE q == [calls[c] EXCEPT !.pc = "answer"]
  <2>1. calls[c].about \in Orgs /\ calls[c].kind = "switch" /\ calls[c].pc = "ask"
    BY <1>8, CallKnown DEF SetCurrentOrganization, At
  <2>2. /\ q \in Requests(n)
        /\ q.pc = "answer" /\ q.kind = calls[c].kind /\ q.week = calls[c].week
        /\ q.about = calls[c].about /\ q.live = calls[c].live
    BY CallKnown DEF Requests
  <2> HIDE DEF q
  <2>3. q \in FormedRequests(n)
    BY <2>1, <2>2, CallKnown DEF FormedRequests, EntryKinds
  <2>4. calls' = [calls EXCEPT ![c] = q]
    BY <1>1, <1>8 DEF q, SetCurrentOrganization
  <2>5. calls' \in [Calls -> FormedRequests(n)]
    BY <1>1, <2>3, <2>4
  <2>6. org' \in Orgs /\ inbox' \in Seq(Events)
    <3>1. org' = calls[c].about /\ inbox' = Append(inbox, [kind |-> "org", to |-> org'])
      BY <1>8 DEF SetCurrentOrganization
    <3>2. [kind |-> "org", to |-> org'] \in Events
      BY <2>1, <3>1 DEF Events
    <3> QED
      BY <2>1, <3>1, <3>2, Known
  <2> QED
    BY <1>8, <2>5, <2>6, Known, TypesFrom DEF SetCurrentOrganization
<1>9. CASE ChangeEntry(c)
  <2> DEFINE p == Place(org, calls[c].about.week)
  <2>1. calls[c].kind \in EntryKinds \cup {"create"} /\ calls[c].pc = "ask"
    BY <1>9 DEF ChangeEntry, EntryKinds
  <2>2. calls[c].about \in Places
    BY <2>1, CallKnown
  <2>3. p \in Places
    BY <2>2, Known DEF Place, Places
  <2>4. CASE calls' = [calls EXCEPT ![c].pc = "failed"] /\ UNCHANGED log
    <3>1. calls' \in [Calls -> FormedRequests(n)]
      BY <1>2, <2>1, <2>4
    <3> QED
      BY <1>9, <2>4, <3>1, Known, TypesFrom DEF ChangeEntry
  <2>5. CASE /\ log' = Append(log, p)
             /\ calls' = [calls EXCEPT ![c].pc = "answer", ![c].change = Len(log')]
    <3> DEFINE q == [calls[c] EXCEPT !.pc = "answer", !.change = n + 1]
    <3>1. Len(log') = n + 1
      BY <2>5, Known
    <3>2. FormedRequests(n) \subseteq FormedRequests(n + 1) /\ n + 1 \in 1..(n + 1) /\ n + 1 \in 0..(n + 1)
      BY <1>1, FormedGrow
    <3>3. calls[c] \in Requests(n + 1) /\ calls \in [Calls -> FormedRequests(n + 1)]
      <4> HIDE DEF n
      <4>1. calls[c] \in FormedRequests(n + 1)
        BY <1>1, <3>2
      <4> QED
        BY <1>1, <3>2, <4>1 DEF FormedRequests
    <3>4. /\ q \in Requests(n + 1)
          /\ q.pc = "answer" /\ q.kind = calls[c].kind /\ q.week = calls[c].week
          /\ q.about = calls[c].about /\ q.live = calls[c].live /\ q.change = n + 1
      BY <3>2, <3>3 DEF Requests
    <3>5. calls' = [calls EXCEPT ![c] = q]
      BY <1>1, <2>5, <3>1
    <3> HIDE DEF q
    <3>6. q \in FormedRequests(n + 1)
      BY <2>1, <2>2, <3>2, <3>4, CallKnown DEF FormedRequests, EntryKinds
    <3>7. calls' \in [Calls -> FormedRequests(n + 1)]
      BY <3>3, <3>5, <3>6
    <3> HIDE DEF p
    <3> QED
      BY <1>9, <2>3, <2>5, <3>7, Known, TypesGrow DEF ChangeEntry
  <2> QED
    BY <1>9, <2>4, <2>5 DEF ChangeEntry
<1> QED
  BY <1>3, <1>4, <1>5, <1>6, <1>7, <1>8, <1>9 DEF Serve

\* The sidebar takes an answer in and stays well formed.
LEMMA ReturnTypes ==
    ASSUME TypeInvariant, NEW c \in Calls, Return(c), fresh' \in {"no", "lists", "all"}
    PROVE  TypeInvariant'
<1> USE DEF server, view, content
<1> DEFINE n == Len(log)
<1>1. /\ calls[c] \in Requests(n) /\ calls \in [Calls -> FormedRequests(n)] /\ n \in Nat
      /\ Done(c) \in [Calls -> FormedRequests(n)]
  BY Known, CallKnown, DoneFormed
<1>2. /\ calls[c].projects \in Orgs \cup {None}
      /\ calls[c].entries \in TimeLists(n) \cup {None} /\ calls[c].total \in TimeLists(n) \cup {None}
  BY <1>1 DEF Requests
<1>3. CASE OrganizationsLoaded(c)
  <2>1. CASE calls[c].live
    <3>1. calls[c].about \in Orgs /\ orgsReady' = TRUE /\ selected' = calls[c].about
      BY <1>3, <2>1, CallKnown DEF OrganizationsLoaded, At
    <3>2. Load(Done(c), TRUE, selected', week)
      BY <1>3, <2>1 DEF OrganizationsLoaded
    <3>3. /\ projects' \in Orgs \cup {None} /\ entries' \in TimeLists(n) \cup {None}
          /\ loading' \in BOOLEAN /\ calls' \in [Calls -> FormedRequests(n)]
      BY <1>1, <3>2, LoadTypes, Known
    <3> QED
      BY <1>3, <3>1, <3>3, Known, TypesFrom DEF OrganizationsLoaded
  <2>2. CASE ~calls[c].live
    BY <1>1, <1>3, <2>2, Known, TypesFrom DEF OrganizationsLoaded
  <2> QED
    BY <2>1, <2>2
<1>4. CASE LoadReturns(c)
  <2>1. /\ projects' \in Orgs \cup {None} /\ loading' \in BOOLEAN
        /\ entries' \in TimeLists(n) \cup {None} /\ total' \in TimeLists(n) \cup {None}
    BY <1>2, <1>4, Known DEF LoadReturns
  <2> QED
    BY <1>1, <1>4, <2>1, Known, TypesFrom DEF LoadReturns
<1>5. CASE RefreshReturns(c)
  BY <1>1, <1>2, <1>5, Known, TypesFrom DEF RefreshReturns
<1>6. CASE TotalReturns(c)
  BY <1>1, <1>2, <1>6, Known, TypesFrom DEF TotalReturns
<1>7. CASE SwitchReturns(c)
  <2>1. calls[c].about \in Orgs /\ Select(Done(c), calls[c].about)
    BY <1>7, CallKnown DEF SwitchReturns, At
  <2>2. /\ selected' = calls[c].about
        /\ projects' \in Orgs \cup {None} /\ entries' \in TimeLists(n) \cup {None}
        /\ loading' \in BOOLEAN /\ calls' \in [Calls -> FormedRequests(n)]
    BY <1>1, <2>1, SelectTypes
  <2> QED
    BY <1>7, <2>1, <2>2, Known, TypesFrom DEF SwitchReturns
<1>8. CASE CreateReturns(c)
  <2>1. calls[c].week \in Weeks
    BY <1>8, CallKnown DEF CreateReturns, At
  <2>2. loading' = TRUE /\ calls' \in [Calls -> FormedRequests(n)]
    BY <1>1, <1>8, <2>1, SendTypes DEF CreateReturns, Refresh
  <2> QED
    BY <1>8, <2>2, Known, TypesFrom DEF CreateReturns
<1>9. ASSUME calls[c].kind \in EntryKinds, calls[c].pc = "answer", ChangeInPlace(c)
      PROVE  /\ entries' \in TimeLists(n) \cup {None} /\ loading' \in BOOLEAN
             /\ calls' \in [Calls -> FormedRequests(n)]
  <2>1. calls[c].week \in Weeks /\ calls[c].change \in 1..n
    BY <1>9, CallKnown
  <2>2. calls' \in [Calls -> FormedRequests(n)]
    BY <1>1, <1>9, <2>1, SendTypes DEF ChangeInPlace
  <2>3. entries' \in TimeLists(n) \cup {None}
    <3>1. CASE entries \in TimeLists(n)
      <4>1. [entries EXCEPT !.seen = @ \cup {calls[c].change}] \in TimeLists(n)
        BY <2>1, <3>1 DEF TimeLists
      <4> QED
        BY <1>9, <3>1, <4>1 DEF ChangeInPlace
    <3>2. CASE entries = None
      BY <1>9, <3>2 DEF ChangeInPlace, Lists
    <3> QED
      BY <3>1, <3>2, Known
  <2> QED
    BY <1>9, <2>2, <2>3, Known DEF ChangeInPlace
<1>10. CASE UpdateReturns(c)
  <2>1. calls[c].kind \in EntryKinds /\ calls[c].pc = "answer" /\ calls[c].week \in Weeks
    BY <1>10, CallKnown DEF UpdateReturns, At, EntryKinds
  <2>2. CASE ChangeInPlace(c)
    BY <1>9, <1>10, <2>1, <2>2, Known, TypesFrom DEF UpdateReturns
  <2>3. CASE Refresh(Done(c), calls[c].week) /\ UNCHANGED entries
    <3>1. loading' = TRUE /\ calls' \in [Calls -> FormedRequests(n)]
      BY <1>1, <2>1, <2>3, SendTypes DEF Refresh
    <3> QED
      BY <1>10, <2>3, <3>1, Known, TypesFrom DEF UpdateReturns
  <2> QED
    BY <1>10, <2>2, <2>3 DEF UpdateReturns
<1>11. CASE DeleteReturns(c)
  <2>1. calls[c].kind \in EntryKinds /\ calls[c].pc = "answer" /\ ChangeInPlace(c)
    BY <1>11 DEF DeleteReturns, At, EntryKinds
  <2> QED
    BY <1>9, <1>11, <2>1, Known, TypesFrom DEF DeleteReturns
<1>12. CASE RequestLost(c)
  <2>1. CASE calls[c].live
    <3>1. Disconnect(Done(c)) /\ loading' \in BOOLEAN
      BY <1>12, <2>1, Known DEF RequestLost
    <3> QED
      BY <1>1, <1>12, <3>1, DisconnectTypes, Known, TypesFrom DEF RequestLost
  <2>2. CASE ~calls[c].live
    BY <1>1, <1>12, <2>2, Known, TypesFrom DEF RequestLost
  <2> QED
    BY <2>1, <2>2
<1>13. CASE RequestFails(c)
  <2>1. loading' \in BOOLEAN
    BY <1>13, Known DEF RequestFails
  <2> QED
    BY <1>1, <1>13, <2>1, Known, TypesFrom DEF RequestFails
<1> QED
  BY <1>3, <1>4, <1>5, <1>6, <1>7, <1>8, <1>10, <1>11, <1>12, <1>13 DEF Return

LEMMA ReceiveTypes ==
    ASSUME TypeInvariant, Receive, fresh' \in {"no", "lists", "all"}
    PROVE  TypeInvariant'
<1> USE DEF server, view, content
<1>1. inbox # <<>> /\ inbox' = Tail(inbox) /\ inbox \in Seq(Events)
  BY Known DEF Receive, ConnectionChange, OrgChange, Receives
<1>2. inbox' \in Seq(Events) /\ Head(inbox) \in Events
  BY <1>1
<1>3. calls \in [Calls -> FormedRequests(Len(log))]
  BY Known
<1>4. CASE ConnectionChange
  <2>1. CASE Connect(calls)
    BY <1>2, <1>4, <2>1, ConnectTypes, Known, TypesFrom DEF ConnectionChange
  <2>2. CASE Disconnect(calls) /\ UNCHANGED loading
    BY <1>2, <1>3, <1>4, <2>2, DisconnectTypes, Known, TypesFrom DEF ConnectionChange
  <2> QED
    BY <1>4, <2>1, <2>2 DEF ConnectionChange
<1>5. CASE OrgChange
  <2>1. Head(inbox).to \in Orgs
    BY <1>2, <1>5 DEF OrgChange, Receives, Events
  <2>2. Select(calls, Head(inbox).to)
    BY <1>5 DEF OrgChange
  <2>3. /\ selected' = Head(inbox).to
        /\ projects' \in Orgs \cup {None} /\ entries' \in TimeLists(Len(log)) \cup {None}
        /\ loading' \in BOOLEAN /\ calls' \in [Calls -> FormedRequests(Len(log))]
    BY <1>3, <2>1, <2>2, SelectTypes
  <2> QED
    BY <1>2, <1>5, <2>1, <2>3, Known, TypesFrom DEF OrgChange
<1> QED
  BY <1>4, <1>5 DEF Receive

LEMMA ChangeTypes ==
    ASSUME TypeInvariant, Change
    PROVE  changes' \in 0..MaxChanges
BY SidebarAssumption, Known DEF Change, SidebarAssumption

LEMMA HereTypes ==
    ASSUME TypeInvariant, Here, fresh' \in {"no", "lists", "all"}
    PROVE  TypeInvariant'
<1> USE DEF server, view, content
<1> DEFINE n == Len(log)
<1>1. calls \in [Calls -> FormedRequests(n)] /\ n \in Nat
  BY Known
<1>2. CASE Open
  BY <1>2, ChangeTypes, ConnectTypes, Known, TypesFrom DEF Open
<1>3. CASE ShowWeek
  <2>1. week' \in Weeks /\ Load(calls, orgsReady, selected, week')
    BY <1>3 DEF ShowWeek
  <2>2. /\ projects' \in Orgs \cup {None} /\ entries' \in TimeLists(n) \cup {None}
        /\ loading' \in BOOLEAN /\ calls' \in [Calls -> FormedRequests(n)]
    BY <1>1, <2>1, LoadTypes, Known
  <2> QED
    BY <1>3, <2>1, <2>2, ChangeTypes, Known, TypesFrom DEF ShowWeek
<1>4. CASE SwitchOrg
  <2>1. PICK o \in Orgs : Send(calls, Request("switch", week, o))
    BY <1>4 DEF SwitchOrg
  <2>2. Request("switch", week, o) \in FormedRequests(n)
    BY <1>1, Known, RequestFormed DEF Kinds, EntryKinds
  <2>3. calls' \in [Calls -> FormedRequests(n)]
    BY <1>1, <2>1, <2>2, SendFormed
  <2> QED
    BY <1>4, <2>3, ChangeTypes, Known, TypesFrom DEF SwitchOrg
<1>5. CASE CreateEntry
  <2>1. PICK w \in Weeks : Send(calls, Request("create", week, Place(selected, w)))
    BY <1>5 DEF CreateEntry
  <2>2. Place(selected, w) \in Places
    BY <1>5, Known DEF CreateEntry, Place, Places
  <2>3. Request("create", week, Place(selected, w)) \in FormedRequests(n)
    BY <1>1, <2>2, Known, RequestFormed DEF Kinds, EntryKinds
  <2>4. calls' \in [Calls -> FormedRequests(n)]
    BY <1>1, <2>1, <2>3, SendFormed
  <2> QED
    BY <1>5, <2>4, ChangeTypes, Known, TypesFrom DEF CreateEntry
<1>6. CASE EditEntry
  <2>1. PICK kind \in EntryKinds : Send(calls, Request(kind, week, entries.place))
    BY <1>6 DEF EditEntry, EntryKinds
  <2>2. entries.place \in Places
    BY <1>6, Known DEF EditEntry, TimeLists
  <2>3. kind \in Kinds /\ kind # "switch"
    BY DEF EntryKinds, Kinds
  <2>4. Request(kind, week, entries.place) \in FormedRequests(n)
    BY <1>1, <2>2, <2>3, Known, RequestFormed
  <2>5. calls' \in [Calls -> FormedRequests(n)]
    BY <1>1, <2>1, <2>4, SendFormed
  <2> QED
    BY <1>6, <2>5, ChangeTypes, Known, TypesFrom DEF EditEntry
<1>7. CASE TimerStarts
  BY <1>1, <1>7, ChangeTypes, Known, TypesFrom DEF TimerStarts
<1>8. CASE TimerStops
  <2>1. PICK w \in Weeks : log' = Append(log, Place(org, w))
    BY <1>8 DEF TimerStops
  <2>2. Place(org, w) \in Places
    BY Known DEF Place, Places
  <2>3. calls \in [Calls -> FormedRequests(n + 1)] /\ n + 1 \in Nat
    BY <1>1, FormedGrow
  <2>4. loading' \in BOOLEAN /\ calls' \in [Calls -> FormedRequests(n + 1)]
    <3>1. CASE Refresh(calls, week)
      BY <2>3, <3>1, Known, SendTypes DEF Refresh
    <3>2. CASE UNCHANGED <<loading, calls>>
      BY <2>3, <3>2, Known
    <3> QED
      BY <1>8, <3>1, <3>2 DEF TimerStops
  <2> QED
    BY <1>8, <2>1, <2>2, <2>4, Known, TypesGrow DEF TimerStops
<1> QED
  BY <1>2, <1>3, <1>4, <1>5, <1>6, <1>7, <1>8 DEF Here

LEMMA ElsewhereTypes ==
    ASSUME TypeInvariant, Elsewhere, fresh' = "no"
    PROVE  TypeInvariant'
<1> USE DEF view, content
<1>1. inbox' \in Seq(Events)
  <2>1. CASE SwitchElsewhere
    <3>1. [kind |-> "org", to |-> org'] \in Events
      BY <2>1 DEF Events, SwitchElsewhere
    <3> QED
      BY <2>1, <3>1, Known DEF SwitchElsewhere
  <2>2. CASE SwitchConnection
    <3>1. [kind |-> "connection", to |-> linked'] \in Events
      BY <2>2, Known DEF Events, SwitchConnection
    <3> QED
      BY <2>2, <3>1, Known DEF SwitchConnection
  <2> QED
    BY <2>1, <2>2 DEF Elsewhere
<1>2. CASE SwitchElsewhere
  BY <1>1, <1>2, ChangeTypes, Known, TypesFrom DEF SwitchElsewhere
<1>3. CASE SwitchConnection
  BY <1>1, <1>3, ChangeTypes, Known, TypesFrom DEF SwitchConnection
<1> QED
  BY <1>2, <1>3 DEF Elsewhere

LEMMA TypeInit == HInit => TypeInvariant
<1> SUFFICES ASSUME HInit PROVE TypeInvariant
  OBVIOUS
<1> USE DEF HInit, Init
<1>1. Len(log) = 0 /\ log \in Seq(Places) /\ inbox = <<>>
  OBVIOUS
<1>2. Idle \in FormedRequests(Len(log)) /\ Idle \in Requests(Len(log))
  BY <1>1, IdleFormed DEF FormedRequests
<1>3. changes \in 0..MaxChanges
  BY SidebarAssumption DEF SidebarAssumption
<1>4. calls \in [Calls -> FormedRequests(Len(log))] /\ calls \in [Calls -> Requests(Len(log))]
  BY <1>2
<1>5. TypeOK
  <2>1. linked \in BOOLEAN /\ org \in Orgs /\ week \in Weeks
    OBVIOUS
  <2>2. connected \in BOOLEAN /\ orgsReady \in BOOLEAN /\ loading \in BOOLEAN /\ timer \in BOOLEAN
    OBVIOUS
  <2>3. /\ selected \in Orgs \cup {None} /\ projects \in Orgs \cup {None}
        /\ entries \in TimeLists(Len(log)) \cup {None} /\ total \in TimeLists(Len(log)) \cup {None}
    OBVIOUS
  <2>4. inbox \in Seq([kind : {"org"}, to : Orgs] \cup [kind : {"connection"}, to : BOOLEAN])
    OBVIOUS
  <2>5. fresh \in {"no", "lists", "all"}
    OBVIOUS
  <2> QED
    BY ONLY <1>1, <1>3, <1>4, <2>1, <2>2, <2>3, <2>4, <2>5 DEF TypeOK
<1> QED
  BY <1>4, <1>5 DEF TypeInvariant

LEMMA TypeStep ==
    ASSUME TypeInvariant, [HNext]_hvars
    PROVE  TypeInvariant'
<1>1. fresh \in {"no", "lists", "all"}
  BY DEF TypeInvariant, TypeOK
<1>2. ASSUME NEW c \in Calls, Serve(c) \/ Return(c), Observe PROVE TypeInvariant'
  BY <1>1, <1>2, FreshType, ServeTypes, ReturnTypes
<1>3. ASSUME Receive \/ Here, Observe PROVE TypeInvariant'
  BY <1>1, <1>3, FreshType, ReceiveTypes, HereTypes
<1>4. CASE Elsewhere /\ fresh' = "no"
  BY <1>4, ElsewhereTypes
<1>5. CASE UNCHANGED hvars
  <2>1. calls \in [Calls -> FormedRequests(Len(log))]
    BY Known
  <2> QED
    BY <1>1, <1>5, <2>1, Known, TypesFrom DEF hvars
<1> QED
  BY <1>2, <1>3, <1>4, <1>5 DEF HNext

\* Every variable keeps its type: whatever answers are taken in and whenever, no request
\* is about what it cannot be about, and no list names a change that was not made.
THEOREM TypesHold == HSpec => []TypeOK
<1>1. TypeInvariant => TypeOK
  BY DEF TypeInvariant
<1> QED
  BY <1>1, TypeInit, TypeStep, PTL DEF HSpec

----------------------------------------------------------------------------
(* What a step does to the promise. *)

\* A disturbance ends the promise; a step that sends nothing leaves it as it was.
LEMMA Undisturbed ==
    ASSUME Observe, fresh' # "no"
    PROVE  ~Disturbed /\ (Sent = {} => fresh' = fresh)
BY DEF Observe

\* The one request a step sends is sent alone, or ends the promise.
LEMMA SentAlone ==
    ASSUME Observe, fresh' # "no", NEW d \in Calls, Sent = {d}
    PROVE  Alone(d)' /\ fresh' = Promised(d)
<1>1. ~Disturbed /\ Sent # {}
  BY Undisturbed
<1>2. (CHOOSE c \in Sent : TRUE) = d
  OBVIOUS
<1>3. fresh' = IF d \in {e \in Calls : Alone(e)'} THEN Promised(d) ELSE "no"
  BY <1>1, <1>2 DEF Observe
<1> QED
  BY <1>3

\* A request that goes out of calls cs is the one request of its step.
LEMMA OneSent ==
    ASSUME TypeInvariant, NEW cs \in [Calls -> FormedRequests(Len(log))],
           NEW q, q.pc = "ask", q.kind # "none",
           \A e \in Calls : cs[e].kind = calls[e].kind
                         \/ (cs[e].pc = "idle" /\ calls[e].kind # q.kind),
           Send(cs, q)
    PROVE  \E d \in Calls : cs[d].pc = "idle" /\ calls' = [cs EXCEPT ![d] = q] /\ Sent = {d}
<1>1. PICK d \in Calls : cs[d].pc = "idle" /\ calls' = [cs EXCEPT ![d] = q]
  BY DEF Send
<1>2. calls'[d] = q /\ \A e \in Calls \ {d} : calls'[e] = cs[e]
  BY <1>1
<1>3. cs[d].kind = "none"
  <2>1. cs[d] \in FormedRequests(Len(log))
    OBVIOUS
  <2> QED
    BY <1>1, <2>1 DEF FormedRequests
<1>4. d \in Sent
  BY <1>2, <1>3 DEF Sent
<1>5. \A e \in Calls \ {d} : e \notin Sent
  BY <1>2 DEF Sent
<1>6. Sent = {d}
  BY <1>4, <1>5 DEF Sent
<1> QED
  BY <1>1, <1>6

\* The calls a step may send a request from: those in flight, without the one that has
\* returned and with some effects cleaned up.
LEMMA Freed ==
    ASSUME TypeInvariant, NEW c \in Calls, NEW kind \in Kinds, calls[c].kind # kind
    PROVE  /\ Done(c) \in [Calls -> FormedRequests(Len(log))]
           /\ \A e \in Calls : Done(c)[e].kind = calls[e].kind
                            \/ (Done(c)[e].pc = "idle" /\ calls[e].kind # kind)
<1>1. Len(log) \in Nat /\ calls \in [Calls -> FormedRequests(Len(log))]
  BY Known
<1>2. Done(c) \in [Calls -> FormedRequests(Len(log))]
  BY <1>1, DoneFormed
<1>3. \A e \in Calls : Done(c)[e] = IF e = c THEN Idle ELSE calls[e]
  BY <1>1 DEF Done
<1>4. Idle.pc = "idle"
  BY <1>1, IdleFormed
<1>5. ASSUME NEW e \in Calls
      PROVE  \/ Done(c)[e].kind = calls[e].kind
             \/ Done(c)[e].pc = "idle" /\ calls[e].kind # kind
  <2>1. CASE e = c
    BY <1>3, <1>4, <2>1
  <2>2. CASE e # c
    BY <1>3, <2>2
  <2> QED
    BY <2>1, <2>2
<1> QED
  BY <1>2, <1>5

\* What a request that is sent finds: everything else is harmless.
LEMMA SendAlone ==
    ASSUME TypeInvariant, Observe, fresh' # "no",
           NEW cs \in [Calls -> FormedRequests(Len(log))],
           NEW kind \in Kinds, NEW w \in Weeks, NEW about,
           \A e \in Calls : cs[e].kind = calls[e].kind
                         \/ (cs[e].pc = "idle" /\ calls[e].kind # kind),
           Send(cs, Request(kind, w, about))
    PROVE  \E d \in Calls :
              /\ cs[d].pc = "idle"
              /\ calls' = [cs EXCEPT ![d] = Request(kind, w, about)]
              /\ calls'[d] = Request(kind, w, about)
              /\ Alone(d)' /\ fresh' = Promised(d)
<1> DEFINE q == Request(kind, w, about)
<1>1. q.pc = "ask" /\ q.kind = kind /\ kind # "none"
  BY DEF Request, Kinds
<1> HIDE DEF q
<1>2. PICK d \in Calls : cs[d].pc = "idle" /\ calls' = [cs EXCEPT ![d] = q] /\ Sent = {d}
  <2>1. Send(cs, q)
    BY DEF q
  <2> QED
    BY <1>1, <2>1, OneSent
<1>3. Alone(d)' /\ fresh' = Promised(d)
  BY <1>2, SentAlone
<1>4. calls'[d] = q
  BY <1>2
<1> QED
  BY <1>2, <1>3, <1>4 DEF q

\* A request sent alone settles what must be current, if it keeps it.
LEMMA AloneBody ==
    ASSUME NEW d \in Calls, Alone(d)', calls'[d].pc = "ask", calls'[d].live, Keeps(calls[d])'
    PROVE  FreshBody'
<1>1. \A e \in Calls \ {d} : Over(e)'
  BY DEF Alone, Harmless, Over
<1>2. ~Over(d)'
  BY DEF Over, At
<1>3. selected' = org' /\ \A n \in 1..Len(inbox') : inbox'[n] = [kind |-> "org", to |-> org']
  BY DEF Alone
<1>4. InboxLeads'
  BY <1>3 DEF InboxLeads
<1> QED
  BY <1>1, <1>2, <1>3, <1>4 DEF FreshBody

\* A load of the organization and the week the sidebar shows.
LEMMA LoadBody ==
    ASSUME TypeInvariant, Observe, fresh' # "no",
           NEW cs \in [Calls -> FormedRequests(Len(log))],
           \A e \in Calls : cs[e].kind = calls[e].kind
                         \/ (cs[e].pc = "idle" /\ calls[e].kind # "load"),
           NEW o \in Orgs, NEW w \in Weeks, week' = w, Load(cs, TRUE, o, w)
    PROVE  FreshBody'
<1> DEFINE ds == Cancelled(cs, {"load"})
<1>1. ds \in [Calls -> FormedRequests(Len(log))]
  BY CancelledFormed, Known
<1>2. Send(ds, Request("load", w, None))
  BY SidebarAssumption DEF Load, SidebarAssumption
<1>3. \A e \in Calls : ds[e].kind = cs[e].kind /\ ds[e].pc = cs[e].pc
  <2> SUFFICES ASSUME NEW e \in Calls PROVE ds[e].kind = cs[e].kind /\ ds[e].pc = cs[e].pc
    OBVIOUS
  <2>1. cs[e] \in Requests(Len(log))
    BY DEF FormedRequests
  <2> QED
    BY <2>1 DEF Cancelled, Requests
<1>4. \A e \in Calls : ds[e].kind = calls[e].kind \/ (ds[e].pc = "idle" /\ calls[e].kind # "load")
  BY <1>3
<1>5. "load" \in Kinds
  BY DEF Kinds
<1> HIDE DEF ds
<1>6. PICK d \in Calls : /\ calls'[d] = Request("load", w, None)
                        /\ Alone(d)' /\ fresh' = Promised(d)
  BY <1>1, <1>2, <1>4, <1>5, SendAlone
<1>7. fresh' = "all"
  BY <1>6 DEF Promised, Request
<1>9. /\ calls'[d].pc = "ask" /\ calls'[d].live /\ calls'[d].kind = "load"
      /\ calls'[d].week = week' /\ calls'[d].entries = None /\ calls'[d].total = None
  BY <1>6 DEF Request
<1>10. LoadKeeps(calls[d])'
  BY <1>7, <1>9 DEF LoadKeeps, ReadsCurrent
<1>8. Keeps(calls[d])'
  BY <1>9, <1>10 DEF Keeps
<1> QED
  BY <1>6, <1>8, <1>9, AloneBody

\* A refresh, whose answer brings the entries and the total.
LEMMA RefreshBody ==
    ASSUME TypeInvariant, Observe, fresh' # "no",
           NEW d \in Calls, NEW w \in Weeks, calls'[d] = Request("refresh", w, None),
           Alone(d)', fresh' = Promised(d),
           projects' = projects, selected' = selected, ProjectsCurrent
    PROVE  FreshBody'
<1>1. /\ calls'[d].pc = "ask" /\ calls'[d].live /\ calls'[d].kind = "refresh"
      /\ calls'[d].week = w /\ calls'[d].entries = None /\ calls'[d].total = None
  BY DEF Request
<1>2. w = week' /\ fresh' \in {"lists", fresh}
  BY <1>1 DEF Promised
<1>3. ProjectsCurrent'
  BY <1>2 DEF ProjectsCurrent
<1>4. RefreshKeeps(calls[d])'
  BY <1>1, <1>2, <1>3 DEF RefreshKeeps, ReadsCurrent
<1>5. Keeps(calls[d])'
  BY <1>1, <1>4 DEF Keeps
<1> QED
  BY <1>1, <1>5, AloneBody

\* The total alone is read again.
LEMMA TotalBody ==
    ASSUME TypeInvariant, Observe, fresh' # "no",
           NEW d \in Calls, NEW w \in Weeks, calls'[d] = Request("total", w, None),
           Alone(d)', fresh' = Promised(d),
           projects' = projects, selected' = selected, ProjectsCurrent,
           entries' = ListOf(selected, week)'
    PROVE  FreshBody'
<1>1. /\ calls'[d].pc = "ask" /\ calls'[d].live /\ calls'[d].kind = "total"
      /\ calls'[d].week = w /\ calls'[d].entries = None /\ calls'[d].total = None
  BY DEF Request
<1>2. w = week' /\ fresh' = fresh
  BY <1>1 DEF Promised
<1>3. ProjectsCurrent'
  BY <1>2 DEF ProjectsCurrent
<1>4. TotalKeeps(calls[d])'
  BY <1>1, <1>2, <1>3 DEF TotalKeeps, ReadsCurrent
<1>5. Keeps(calls[d])'
  BY <1>1, <1>4 DEF Keeps
<1> QED
  BY <1>1, <1>5, AloneBody

\* With nothing but harmless requests under way the sidebar is current, or was not
\* promised to be.
LEMMA NothingElse ==
    ASSUME FreshInvariant, orgsReady, fresh # "no",
           \A e \in Calls : Harmless(e), selected = org
    PROVE  Current
<1>1. FreshBody
  BY DEF FreshInvariant
<1>2. \A e \in Calls : Over(e)
  BY DEF Harmless, Over
<1> QED
  BY <1>1, <1>2 DEF FreshBody

\* What is current is so with the request of a user: nothing else is under way.
LEMMA UserBody ==
    ASSUME TypeInvariant, FreshInvariant, Observe, fresh' # "no", orgsReady,
           UNCHANGED <<org, log, inbox, selected, week, projects, entries, total>>,
           NEW kind \in {"switch", "create"} \cup EntryKinds, NEW about,
           kind \in EntryKinds => about = entries.place,
           Send(calls, Request(kind, week, about))
    PROVE  FreshBody'
<1>1. calls \in [Calls -> FormedRequests(Len(log))] /\ week \in Weeks /\ kind \in Kinds
  BY Known DEF Kinds, EntryKinds
<1>2. PICK d \in Calls : /\ calls[d].pc = "idle"
                        /\ calls' = [calls EXCEPT ![d] = Request(kind, week, about)]
                        /\ calls'[d] = Request(kind, week, about)
                        /\ Alone(d)' /\ fresh' = Promised(d)
  BY <1>1, SendAlone
<1>3. /\ calls'[d].pc = "ask" /\ calls'[d].live /\ calls'[d].kind = kind
      /\ calls'[d].about = about
  BY <1>2 DEF Request
<1>4. fresh' = fresh
  BY <1>2, <1>3 DEF Promised, EntryKinds
<1>5. selected = org
  BY <1>2 DEF Alone
<1>6. \A e \in Calls : Harmless(e)
  <2>1. ASSUME NEW e \in Calls, e # d PROVE Harmless(e)
    <3>1. calls'[e] = calls[e]
      BY <1>1, <1>2, <2>1
    <3>2. Harmless(e)'
      BY <1>2, <2>1 DEF Alone
    <3> QED
      BY <3>1, <3>2 DEF Harmless, At
  <2>2. Harmless(d)
    BY <1>2 DEF Harmless
  <2> QED
    BY <2>1, <2>2
<1>7. Current
  BY <1>4, <1>5, <1>6, NothingElse
<1>8. Current'
  BY <1>4, <1>7 DEF Current, ProjectsCurrent, ListOf
<1>9. Keeps(calls[d])'
  <2>1. CASE kind = "switch"
    <3>1. SwitchKeeps(calls[d])'
      BY <1>3, <1>8 DEF SwitchKeeps
    <3> QED
      BY <1>3, <2>1, <3>1 DEF Keeps
  <2>2. CASE kind = "create"
    <3>1. CreateKeeps(calls[d])'
      BY <1>3, <1>8 DEF CreateKeeps
    <3> QED
      BY <1>3, <2>2, <3>1 DEF Keeps
  <2>3. CASE kind \in EntryKinds
    <3>1. about = Place(selected, week)
      BY <1>7, <2>3 DEF Current, ListOf
    <3>2. about = Place(selected, week)'
      BY <3>1 DEF Place
    <3>3. EditKeeps(calls[d])'
      BY <1>3, <1>8, <3>2 DEF EditKeeps
    <3> QED
      BY <1>3, <2>3, <3>3 DEF Keeps
  <2> QED
    BY <2>1, <2>2, <2>3
<1> QED
  BY <1>2, <1>3, <1>9, AloneBody

----------------------------------------------------------------------------
(* The steps that send nothing. *)

\* What is known of a request depends on the sidebar it is for.
LEMMA KeepsSame ==
    ASSUME NEW e \in Calls, calls'[e] = calls[e],
           UNCHANGED <<log, selected, week, projects, entries, total, fresh>>,
           Keeps(calls[e])
    PROVE  Keeps(calls[e])'
<1>1. /\ ListOf(selected, week)' = ListOf(selected, week) /\ Place(selected, week)' = Place(selected, week)
  BY DEF ListOf, Place
<1>2. Current' <=> Current
  BY <1>1 DEF Current, ProjectsCurrent
<1>3. (ReadsCurrent(calls[e]))' <=> ReadsCurrent(calls[e])
  BY <1>1 DEF ReadsCurrent
<1>4. LacksLast' <=> LacksLast
  BY <1>1 DEF LacksLast
<1> QED
  BY <1>1, <1>2, <1>3, <1>4 DEF Keeps, LoadKeeps, RefreshKeeps, TotalKeeps, SwitchKeeps, CreateKeeps,
                                EditKeeps, ProjectsCurrent

\* Requests that were over end or go on, and nothing else happens.
LEMMA OverKept ==
    ASSUME FreshBody, UNCHANGED <<org, log, inbox, selected, week, projects, entries, total, fresh>>,
           \A e \in Calls : calls'[e] = calls[e] \/ (Over(e) /\ Over(e)')
    PROVE  FreshBody'
<1>1. \A e \in Calls : Over(e)' <=> Over(e)
  BY DEF Over, At
<1>2. \A e \in Calls : ~Over(e) => calls'[e] = calls[e]
  OBVIOUS
<1>3. InboxLeads'
  BY DEF FreshBody, InboxLeads
<1>4. Current' <=> Current
  BY DEF Current, ProjectsCurrent, ListOf, Place
<1>5. ASSUME NEW e \in Calls, ~Over(e)' PROVE (selected = org)' /\ Keeps(calls[e])'
  BY <1>1, <1>2, <1>5, KeepsSame DEF FreshBody
<1> QED
  BY <1>1, <1>3, <1>4, <1>5 DEF FreshBody

\* The one request that is not over goes on, or it ends and the sidebar is current.
LEMMA MainKept ==
    ASSUME FreshBody, UNCHANGED <<org, inbox, selected>>, NEW c \in Calls, ~Over(c),
           \A e \in Calls \ {c} : calls'[e] = calls[e],
           Over(c)' => Current', ~Over(c)' => Keeps(calls[c])'
    PROVE  FreshBody'
<1>1. \A e \in Calls \ {c} : Over(e)
  BY DEF FreshBody
<1>2. \A e \in Calls \ {c} : Over(e)'
  BY <1>1 DEF Over, At
<1>3. InboxLeads'
  BY DEF FreshBody, InboxLeads
<1>4. selected' = org'
  BY DEF FreshBody
<1> QED
  BY <1>2, <1>3, <1>4 DEF FreshBody

\* The promise stands in a step that moves one call and sends nothing.
LEMMA Quietly ==
    ASSUME TypeInvariant, FreshInvariant, Observe, fresh' # "no", orgsReady,
           NEW c \in Calls, NEW q, calls' = [calls EXCEPT ![c] = q],
           q.pc # "ask" \/ q.kind = calls[c].kind
    PROVE  /\ FreshBody /\ fresh' = fresh /\ ~Disturbed
           /\ calls'[c] = q /\ \A e \in Calls \ {c} : calls'[e] = calls[e]
<1>1. calls'[c] = q /\ \A e \in Calls \ {c} : calls'[e] = calls[e]
  BY Known
<1>2. Sent = {}
  BY <1>1 DEF Sent
<1> QED
  BY <1>1, <1>2, Undisturbed DEF FreshInvariant

\* A request whose effect was cleaned up goes on for nobody.
LEMMA DeadKept ==
    ASSUME TypeInvariant, FreshInvariant, Observe, fresh' # "no", orgsReady,
           UNCHANGED <<org, log, inbox, selected, week, projects, entries, total>>,
           NEW c \in Calls, ~calls[c].live, NEW q, calls' = [calls EXCEPT ![c] = q],
           q.pc = "idle" \/ ~q.live, q.pc # "ask" \/ q.kind = calls[c].kind
    PROVE  FreshBody'
<1>1. /\ FreshBody /\ fresh' = fresh
      /\ calls'[c] = q /\ \A e \in Calls \ {c} : calls'[e] = calls[e]
  BY Quietly
<1>2. Over(c) /\ Over(c)'
  BY <1>1 DEF Over
<1> QED
  BY <1>1, <1>2, OverKept

----------------------------------------------------------------------------
(* The steps, one by one. *)

\* A request in its first steps, live and not yet over, is the one under way.
LEMMA UnderWay ==
    ASSUME FreshBody, NEW c \in Calls, calls[c].live, calls[c].pc \notin {"idle", "answer"}
    PROVE  ~Over(c) /\ selected = org /\ Keeps(calls[c])
BY DEF FreshBody, Over, At

\* What is read of the lists, of a load, a refresh or the total alone.
LEMMA ReadBody ==
    ASSUME TypeInvariant, FreshInvariant, Observe, fresh' # "no", orgsReady,
           UNCHANGED <<org, log, inbox, selected, week, projects, entries, total>>,
           NEW c \in Calls, calls[c].pc \in {"ask", "lists"},
           calls[c].kind \in {"load", "refresh", "total"},
           NEW q, calls' = [calls EXCEPT ![c] = q],
           q.pc = calls[c].pc, q.kind = calls[c].kind, q.live = calls[c].live,
           q.week = calls[c].week, q.projects = calls[c].projects,
           q.entries \in {calls[c].entries, ListOf(org, calls[c].week)},
           q.total \in {calls[c].total, ListOf(org, calls[c].week)}
    PROVE  FreshBody'
<1>1. CASE ~calls[c].live
  BY <1>1, DeadKept
<1>2. CASE calls[c].live
  <2>1. /\ FreshBody /\ fresh' = fresh
        /\ calls'[c] = q /\ \A e \in Calls \ {c} : calls'[e] = calls[e]
    BY Quietly
  <2>2. ~Over(c) /\ selected = org /\ Keeps(calls[c])
    BY <1>2, <2>1, UnderWay
  <2>3. ReadsCurrent(calls[c])
    BY <2>2 DEF Keeps, LoadKeeps, RefreshKeeps, TotalKeeps, EntryKinds
  <2>4. ReadsCurrent(q)
    BY <2>2, <2>3 DEF ReadsCurrent
  <2>5. ListOf(selected, week)' = ListOf(selected, week)
    BY DEF ListOf, Place
  <2>6. ReadsCurrent(calls[c])'
    BY <2>1, <2>4, <2>5 DEF ReadsCurrent
  <2>7. Keeps(calls[c])'
    BY <2>1, <2>2, <2>5, <2>6
       DEF Keeps, LoadKeeps, RefreshKeeps, TotalKeeps, EntryKinds, ProjectsCurrent
  <2>8. ~Over(c)'
    BY <1>2, <2>1 DEF Over, At
  <2> QED
    BY <2>1, <2>2, <2>7, <2>8, MainKept
<1> QED
  BY <1>1, <1>2

\* The plugin server refuses a request.
LEMMA RefuseBody ==
    ASSUME TypeInvariant, FreshInvariant, Observe, fresh' # "no", orgsReady',
           NEW c \in Calls, Refuse(c)
    PROVE  FreshBody'
<1>1. PICK pc \in {"lost", "failed"} : calls' = [calls EXCEPT ![c].pc = pc]
  BY DEF Refuse
<1> DEFINE q == [calls[c] EXCEPT !.pc = pc]
<1>2. q.pc = pc /\ q.kind = calls[c].kind /\ q.live = calls[c].live
  BY CallKnown DEF Requests
<1>3. calls' = [calls EXCEPT ![c] = q]
  BY <1>1, Known
<1> HIDE DEF q
<1>4. /\ orgsReady /\ UNCHANGED <<org, log, inbox, selected, week, projects, entries, total>>
  BY DEF Refuse, server, view, content
<1>5. calls'[c] = q /\ ~Disturbed
  BY <1>2, <1>3, <1>4, Quietly
<1>6. ~calls[c].live
  BY <1>2, <1>5 DEF Disturbed
<1> QED
  BY <1>2, <1>3, <1>4, <1>6, DeadKept

\* The organizations and the projects are read.
LEMMA OrganizationsBody ==
    ASSUME TypeInvariant, FreshInvariant, Observe, fresh' # "no", orgsReady',
           NEW c \in Calls, GetOrganizations(c)
    PROVE  FreshBody'
<1> DEFINE q == [calls[c] EXCEPT !.pc = "answer", !.about = org]
<1>1. q.pc = "answer" /\ q.kind = calls[c].kind /\ q.live = calls[c].live
  BY CallKnown DEF Requests
<1>2. calls' = [calls EXCEPT ![c] = q]
  BY Known DEF GetOrganizations
<1> HIDE DEF q
<1>3. /\ orgsReady /\ UNCHANGED <<org, log, inbox, selected, week, projects, entries, total>>
      /\ calls[c].kind = "orgs" /\ calls[c].pc = "ask"
  BY DEF GetOrganizations, server, view, content, At
<1>4. FreshBody
  BY <1>1, <1>2, <1>3, Quietly
<1>5. ~calls[c].live
  BY <1>3, <1>4, UnderWay DEF Keeps, EntryKinds
<1> QED
  BY <1>1, <1>2, <1>3, <1>5, DeadKept

LEMMA ProjectsBody ==
    ASSUME TypeInvariant, FreshInvariant, Observe, fresh' # "no", orgsReady',
           NEW c \in Calls, GetProjects(c)
    PROVE  FreshBody'
<1> DEFINE q == [calls[c] EXCEPT !.pc = "lists", !.projects = org]
<1>1. /\ q.pc = "lists" /\ q.kind = calls[c].kind /\ q.live = calls[c].live /\ q.week = calls[c].week
      /\ q.projects = org /\ q.entries = calls[c].entries /\ q.total = calls[c].total
  BY CallKnown DEF Requests
<1>2. calls' = [calls EXCEPT ![c] = q]
  BY Known DEF GetProjects
<1> HIDE DEF q
<1>3. /\ orgsReady /\ UNCHANGED <<org, log, inbox, selected, week, projects, entries, total>>
      /\ calls[c].kind = "load" /\ calls[c].pc = "ask"
  BY DEF GetProjects, server, view, content, At
<1>4. CASE ~calls[c].live
  BY <1>1, <1>2, <1>3, <1>4, DeadKept
<1>5. CASE calls[c].live
  <2>1. /\ FreshBody /\ fresh' = fresh
        /\ calls'[c] = q /\ \A e \in Calls \ {c} : calls'[e] = calls[e]
    BY <1>1, <1>2, <1>3, Quietly
  <2>2. ~Over(c) /\ selected = org /\ Keeps(calls[c])
    BY <1>3, <1>5, <2>1, UnderWay
  <2>3. LoadKeeps(calls[c])
    BY <1>3, <2>2 DEF Keeps, EntryKinds
  <2>4. ListOf(selected, week)' = ListOf(selected, week)
    BY <1>3 DEF ListOf, Place
  <2>5. LoadKeeps(calls[c])'
    BY <1>1, <1>3, <2>1, <2>2, <2>3, <2>4 DEF LoadKeeps, ReadsCurrent
  <2>6. ~Over(c)' /\ Keeps(calls[c])'
    BY <1>1, <1>3, <1>5, <2>1, <2>5 DEF Over, At, Keeps
  <2> QED
    BY <1>3, <2>1, <2>2, <2>6, MainKept
<1> QED
  BY <1>4, <1>5

\* The entries and the total are read.
LEMMA EntriesBody ==
    ASSUME TypeInvariant, FreshInvariant, Observe, fresh' # "no", orgsReady',
           NEW c \in Calls, GetTimeEntries(c)
    PROVE  FreshBody'
<1> DEFINE q == [calls[c] EXCEPT !.entries = ListOf(org, calls[c].week)]
<1>1. /\ q.pc = calls[c].pc /\ q.kind = calls[c].kind /\ q.live = calls[c].live
      /\ q.week = calls[c].week /\ q.projects = calls[c].projects
      /\ q.entries = ListOf(org, calls[c].week) /\ q.total = calls[c].total
  BY CallKnown DEF Requests
<1>2. calls' = [calls EXCEPT ![c] = q]
  BY Known DEF GetTimeEntries
<1> HIDE DEF q
<1>3. /\ orgsReady /\ UNCHANGED <<org, log, inbox, selected, week, projects, entries, total>>
      /\ calls[c].kind \in {"load", "refresh"} /\ calls[c].pc \in {"ask", "lists"}
  BY DEF GetTimeEntries, server, view, content, At, ReadsLists
<1> QED
  BY <1>1, <1>2, <1>3, ReadBody

LEMMA WeekTotalBody ==
    ASSUME TypeInvariant, FreshInvariant, Observe, fresh' # "no", orgsReady',
           NEW c \in Calls, GetWeekTotal(c)
    PROVE  FreshBody'
<1> DEFINE q == [calls[c] EXCEPT !.total = ListOf(org, calls[c].week)]
<1>1. /\ q.pc = calls[c].pc /\ q.kind = calls[c].kind /\ q.live = calls[c].live
      /\ q.week = calls[c].week /\ q.projects = calls[c].projects
      /\ q.total = ListOf(org, calls[c].week) /\ q.entries = calls[c].entries
  BY CallKnown DEF Requests
<1>2. calls' = [calls EXCEPT ![c] = q]
  BY Known DEF GetWeekTotal
<1> HIDE DEF q
<1>3. /\ orgsReady /\ UNCHANGED <<org, log, inbox, selected, week, projects, entries, total>>
      /\ calls[c].kind \in {"load", "refresh", "total"} /\ calls[c].pc \in {"ask", "lists"}
  BY DEF GetWeekTotal, server, view, content, At, ReadsLists
<1> QED
  BY <1>1, <1>2, <1>3, ReadBody

\* The server switches the organization: the answer and the event that tells of it are
\* on their way.
LEMMA SetOrganizationBody ==
    ASSUME TypeInvariant, FreshInvariant, Observe, fresh' # "no", orgsReady',
           NEW c \in Calls, SetCurrentOrganization(c)
    PROVE  FreshBody'
<1> DEFINE q == [calls[c] EXCEPT !.pc = "answer"]
           event == [kind |-> "org", to |-> org']
<1>1. q.pc = "answer" /\ q.kind = calls[c].kind /\ q.live = calls[c].live /\ q.about = calls[c].about
  BY CallKnown DEF Requests
<1>2. calls' = [calls EXCEPT ![c] = q]
  BY Known DEF SetCurrentOrganization
<1> HIDE DEF q
<1>3. /\ orgsReady /\ UNCHANGED <<log, selected, week, projects, entries, total>>
      /\ calls[c].kind = "switch" /\ calls[c].pc = "ask"
      /\ org' = calls[c].about /\ inbox' = Append(inbox, event)
  BY DEF SetCurrentOrganization, view, content, At
<1>4. calls[c].live
  BY <1>3, CallKnown
<1>5. /\ FreshBody /\ fresh' = fresh
      /\ calls'[c] = q /\ \A e \in Calls \ {c} : calls'[e] = calls[e]
  BY <1>1, <1>2, <1>3, Quietly
<1>6. ~Over(c) /\ selected = org /\ Keeps(calls[c])
  BY <1>3, <1>4, <1>5, UnderWay
<1>7. Current
  BY <1>3, <1>6 DEF Keeps, SwitchKeeps, EntryKinds
<1>8. Current'
  BY <1>3, <1>5, <1>7 DEF Current, ProjectsCurrent, ListOf, Place
<1>9. \A e \in Calls : Over(e)'
  <2>1. Over(c)'
    BY <1>1, <1>3, <1>5 DEF Over, At
  <2>2. ASSUME NEW e \in Calls \ {c} PROVE Over(e)'
    <3>1. Over(e)
      BY <1>5, <1>6 DEF FreshBody
    <3> QED
      BY <1>3, <1>5, <1>6, <3>1 DEF Over, At
  <2> QED
    BY <2>1, <2>2
<1>10. InboxLeads'
  <2>1. inbox \in Seq(Events) /\ Len(inbox) \in Nat
    BY Known
  <2>2. /\ Len(inbox') = Len(inbox) + 1 /\ inbox'[Len(inbox')] = event /\ inbox' # <<>>
        /\ \A n \in 1..Len(inbox) : inbox'[n] = inbox[n]
    <3> HIDE DEF event
    <3> QED
      BY <1>3, <2>1
  <2>3. \A n \in 1..Len(inbox) : inbox[n].kind = "org" /\ inbox[n].to = selected
    BY <1>5, <1>6 DEF FreshBody, InboxLeads
  <2>4. event.kind = "org" /\ event.to = org'
    OBVIOUS
  <2> HIDE DEF event
  <2>5. \A n \in 1..Len(inbox') : inbox'[n].kind = "org" /\ inbox'[n].to \in {selected', org'}
    BY <1>3, <2>1, <2>2, <2>3, <2>4
  <2>6. \A m, n \in 1..Len(inbox') : m < n => inbox'[m].to = selected'
    BY <1>3, <2>1, <2>2, <2>3
  <2> QED
    BY <2>2, <2>4, <2>5, <2>6 DEF InboxLeads
<1> QED
  BY <1>8, <1>9, <1>10 DEF FreshBody

\* A change of an entry that the list does not show yet is the one thing it lacks.
LEMMA LacksNew ==
    ASSUME TypeInvariant, orgsReady, Current, log' = Append(log, Place(selected, week)),
           UNCHANGED <<selected, week, entries>>
    PROVE  LacksLast'
<1> DEFINE p == Place(selected, week)
<1>1. log \in Seq(Places) /\ Len(log) \in Nat /\ p \in Places
  BY Known DEF Places, Place
<1> HIDE DEF p
<1>2. /\ Len(log') = Len(log) + 1 /\ log'[Len(log')] = p /\ log' # <<>>
      /\ \A n \in 1..Len(log) : log'[n] = log[n]
      /\ DOMAIN log' = 1..(Len(log) + 1) /\ DOMAIN log = 1..Len(log)
  BY <1>1 DEF p
<1>3. Place(selected, week)' = p
  BY DEF p, Place
<1>4. entries = [place |-> p, seen |-> {n \in DOMAIN log : log[n] = p}]
  BY DEF Current, ListOf, p
<1>5. ListOf(selected, week)'.seen = {n \in DOMAIN log' : log'[n] = p}
  BY <1>3 DEF ListOf
<1>6. {n \in DOMAIN log : log[n] = p} = {n \in DOMAIN log' : log'[n] = p} \ {Len(log')}
  BY <1>1, <1>2
<1> QED
  BY <1>2, <1>3, <1>4, <1>5, <1>6 DEF LacksLast

\* An entry is added or changed.
LEMMA ChangeBody ==
    ASSUME TypeInvariant, FreshInvariant, Observe, fresh' # "no", orgsReady',
           NEW c \in Calls, ChangeEntry(c)
    PROVE  FreshBody'
<1>1. /\ orgsReady /\ UNCHANGED <<org, inbox, selected, week, projects, entries, total>>
      /\ calls[c].kind \in EntryKinds \cup {"create"} /\ calls[c].pc = "ask"
  BY DEF ChangeEntry, view, content, EntryKinds
<1>2. calls[c].live
  BY <1>1, CallKnown DEF EntryKinds
<1>3. CASE calls' = [calls EXCEPT ![c].pc = "failed"] /\ log' = log
  <2> DEFINE q == [calls[c] EXCEPT !.pc = "failed"]
  <2>1. q.pc = "failed" /\ calls' = [calls EXCEPT ![c] = q]
    BY <1>3, Known, CallKnown DEF Requests
  <2> HIDE DEF q
  <2>2. calls'[c] = q /\ ~Disturbed
    BY <1>1, <2>1, Quietly
  <2> QED
    BY <1>2, <2>1, <2>2 DEF Disturbed
<1>4. CASE /\ log' = Append(log, Place(org, calls[c].about.week))
           /\ calls' = [calls EXCEPT ![c].pc = "answer", ![c].change = Len(log')]
           /\ calls[c].kind = "create" \/ calls[c].about.org = org
  <2> DEFINE q == [calls[c] EXCEPT !.pc = "answer", !.change = Len(log')]
  <2>1. /\ q.pc = "answer" /\ q.change = Len(log') /\ q.kind = calls[c].kind
        /\ q.live = calls[c].live
    BY CallKnown DEF Requests
  <2>2. calls' = [calls EXCEPT ![c] = q]
    BY <1>4, Known
  <2> HIDE DEF q
  <2>3. /\ FreshBody /\ fresh' = fresh
        /\ calls'[c] = q /\ \A e \in Calls \ {c} : calls'[e] = calls[e]
    BY <1>1, <2>1, <2>2, Quietly
  <2>4. ~Over(c) /\ selected = org /\ Keeps(calls[c])
    BY <1>1, <1>2, <2>3, UnderWay
  <2>5. Current /\ (calls[c].kind \in EntryKinds => calls[c].about = Place(selected, week))
    BY <1>1, <2>4 DEF Keeps, CreateKeeps, EditKeeps, EntryKinds
  <2>6. ProjectsCurrent'
    BY <1>1, <2>3, <2>5 DEF Current, ProjectsCurrent
  <2>7. calls[c].kind \in EntryKinds => LacksLast'
    <3>1. ASSUME calls[c].kind \in EntryKinds PROVE Place(org, calls[c].about.week) = Place(selected, week)
      BY <2>4, <2>5, <3>1 DEF Place
    <3> QED
      BY <1>1, <1>4, <2>5, <3>1, LacksNew
  <2>8. Keeps(calls[c])'
    BY <1>1, <2>1, <2>3, <2>6, <2>7 DEF Keeps, CreateKeeps, EditKeeps, EntryKinds
  <2>9. ~Over(c)'
    BY <1>1, <1>2, <2>1, <2>3 DEF Over, At, EntryKinds
  <2> QED
    BY <1>1, <2>3, <2>4, <2>8, <2>9, MainKept
<1> QED
  BY <1>3, <1>4 DEF ChangeEntry

\* What the plugin server does keeps what the sidebar is promised.
LEMMA ServeBody ==
    ASSUME TypeInvariant, FreshInvariant, Observe, fresh' # "no", orgsReady',
           NEW c \in Calls, Serve(c)
    PROVE  FreshBody'
BY RefuseBody, OrganizationsBody, ProjectsBody, EntriesBody, WeekTotalBody, SetOrganizationBody,
   ChangeBody DEF Serve

\* A request that has ended leaves its slot.
LEMMA Ended ==
    ASSUME TypeInvariant, NEW c \in Calls
    PROVE  /\ Done(c) = [calls EXCEPT ![c] = Idle]
           /\ Idle.pc = "idle" /\ Idle.live
BY IdleFormed, Known DEF Done

\* The organizations are loaded, which begins a load.
LEMMA OrganizationsLoadedBody ==
    ASSUME TypeInvariant, FreshInvariant, Observe, fresh' # "no", orgsReady',
           NEW c \in Calls, OrganizationsLoaded(c)
    PROVE  FreshBody'
<1> USE DEF server, content, At
<1>1. CASE calls[c].live
  <2>1. selected' \in Orgs /\ Load(Done(c), TRUE, selected', week)
    BY <1>1, CallKnown DEF OrganizationsLoaded
  <2>2. /\ Done(c) \in [Calls -> FormedRequests(Len(log))]
        /\ \A e \in Calls : Done(c)[e].kind = calls[e].kind
                         \/ (Done(c)[e].pc = "idle" /\ calls[e].kind # "load")
    <3>1. calls[c].kind # "load" /\ "load" \in Kinds
      BY DEF OrganizationsLoaded, Kinds
    <3> QED
      BY <3>1, Freed
  <2>3. week' = week /\ week \in Weeks
    BY Known DEF OrganizationsLoaded
  <2> QED
    BY <2>1, <2>2, <2>3, LoadBody
<1>2. CASE ~calls[c].live
  <2>1. /\ orgsReady /\ UNCHANGED <<org, log, inbox, selected, week, projects, entries, total>>
        /\ calls' = [calls EXCEPT ![c] = Idle]
    BY <1>2, Ended DEF OrganizationsLoaded
  <2> QED
    BY <1>2, <2>1, Ended, DeadKept
<1> QED
  BY <1>1, <1>2

\* The answers of a load, a refresh and a request for the total bring what was lacking.
LEMMA LoadReturnsBody ==
    ASSUME TypeInvariant, FreshInvariant, Observe, fresh' # "no", orgsReady',
           NEW c \in Calls, LoadReturns(c)
    PROVE  FreshBody'
<1>1. /\ orgsReady /\ UNCHANGED <<org, log, inbox, selected, week>>
      /\ calls[c].kind = "load" /\ calls[c].pc = "lists"
      /\ calls' = [calls EXCEPT ![c] = Idle]
  BY Ended DEF LoadReturns, server, view, At
<1>2. CASE ~calls[c].live
  <2>1. UNCHANGED <<projects, entries, total>>
    BY <1>2 DEF LoadReturns, content
  <2> QED
    BY <1>1, <1>2, <2>1, Ended, DeadKept
<1>3. CASE calls[c].live
  <2>1. FreshBody /\ fresh' = fresh /\ calls'[c] = Idle /\ \A e \in Calls \ {c} : calls'[e] = calls[e]
    BY <1>1, Ended, Quietly
  <2>2. ~Over(c) /\ selected = org /\ Keeps(calls[c])
    BY <1>1, <1>3, <2>1, UnderWay
  <2>3. ReadsCurrent(calls[c]) /\ calls[c].projects = selected
    BY <1>1, <2>2 DEF Keeps, LoadKeeps, EntryKinds
  <2>4. /\ projects' = selected
        /\ entries' = ListOf(selected, week) /\ total' = ListOf(selected, week)
    BY <1>1, <1>3, <2>3 DEF LoadReturns, Read, ReadsCurrent
  <2>5. Current' /\ Over(c)'
    BY <1>1, <2>1, <2>4, Ended DEF Current, ProjectsCurrent, ListOf, Place, Over
  <2> QED
    BY <1>1, <2>1, <2>2, <2>5, MainKept
<1> QED
  BY <1>2, <1>3

LEMMA RefreshReturnsBody ==
    ASSUME TypeInvariant, FreshInvariant, Observe, fresh' # "no", orgsReady',
           NEW c \in Calls, RefreshReturns(c)
    PROVE  FreshBody'
<1>1. /\ orgsReady /\ UNCHANGED <<org, log, inbox, selected, week, projects>>
      /\ calls[c].kind = "refresh" /\ calls[c].pc = "ask"
      /\ calls' = [calls EXCEPT ![c] = Idle]
  BY Ended DEF RefreshReturns, server, view, At
<1>2. calls[c].live
  BY <1>1, CallKnown
<1>3. FreshBody /\ fresh' = fresh /\ calls'[c] = Idle /\ \A e \in Calls \ {c} : calls'[e] = calls[e]
  BY <1>1, Ended, Quietly
<1>4. ~Over(c) /\ selected = org /\ Keeps(calls[c])
  BY <1>1, <1>2, <1>3, UnderWay
<1>5. ReadsCurrent(calls[c]) /\ ProjectsCurrent
  BY <1>1, <1>4 DEF Keeps, RefreshKeeps, EntryKinds
<1>6. entries' = ListOf(selected, week) /\ total' = ListOf(selected, week)
  BY <1>1, <1>5 DEF RefreshReturns, Read, ReadsCurrent
<1>7. Current' /\ Over(c)'
  BY <1>1, <1>3, <1>5, <1>6, Ended DEF Current, ProjectsCurrent, ListOf, Place, Over
<1> QED
  BY <1>1, <1>3, <1>4, <1>7, MainKept

LEMMA TotalReturnsBody ==
    ASSUME TypeInvariant, FreshInvariant, Observe, fresh' # "no", orgsReady',
           NEW c \in Calls, TotalReturns(c)
    PROVE  FreshBody'
<1>1. /\ orgsReady /\ UNCHANGED <<org, log, inbox, selected, week, projects, entries>>
      /\ calls[c].kind = "total" /\ calls[c].pc = "ask"
      /\ calls' = [calls EXCEPT ![c] = Idle]
  BY Ended DEF TotalReturns, server, view, At
<1>2. calls[c].live
  BY <1>1, CallKnown
<1>3. FreshBody /\ fresh' = fresh /\ calls'[c] = Idle /\ \A e \in Calls \ {c} : calls'[e] = calls[e]
  BY <1>1, Ended, Quietly
<1>4. ~Over(c) /\ selected = org /\ Keeps(calls[c])
  BY <1>1, <1>2, <1>3, UnderWay
<1>5. ReadsCurrent(calls[c]) /\ ProjectsCurrent /\ entries = ListOf(selected, week)
  BY <1>1, <1>4 DEF Keeps, TotalKeeps, EntryKinds
<1>6. total' = ListOf(selected, week)
  BY <1>1, <1>5 DEF TotalReturns, Read, ReadsCurrent
<1>7. Current' /\ Over(c)'
  BY <1>1, <1>3, <1>5, <1>6, Ended DEF Current, ProjectsCurrent, ListOf, Place, Over
<1> QED
  BY <1>1, <1>3, <1>4, <1>7, MainKept

\* The answer to a switch of the organization: the event has told of it already, or a
\* load begins.
LEMMA SwitchReturnsBody ==
    ASSUME TypeInvariant, FreshInvariant, Observe, fresh' # "no", orgsReady',
           NEW c \in Calls, SwitchReturns(c)
    PROVE  FreshBody'
<1>1. /\ orgsReady /\ UNCHANGED <<org, log, inbox, week, total>>
      /\ calls[c].kind = "switch" /\ calls[c].pc = "answer"
      /\ Select(Done(c), calls[c].about)
  BY DEF SwitchReturns, server, At
<1>2. CASE calls[c].about = selected
  <2>1. UNCHANGED <<selected, projects, entries>> /\ calls' = [calls EXCEPT ![c] = Idle]
    BY <1>1, <1>2, Ended DEF Select
  <2>2. FreshBody /\ fresh' = fresh /\ calls'[c] = Idle /\ \A e \in Calls \ {c} : calls'[e] = calls[e]
    BY <1>1, <2>1, Ended, Quietly
  <2>3. Over(c) /\ Over(c)'
    BY <1>1, <1>2, <2>2, Ended DEF Over, At
  <2> QED
    BY <1>1, <2>1, <2>2, <2>3, OverKept
<1>3. CASE calls[c].about # selected
  <2>1. Load(Done(c), TRUE, calls[c].about, week)
    BY <1>1, <1>3 DEF Select
  <2>2. /\ Done(c) \in [Calls -> FormedRequests(Len(log))]
        /\ \A e \in Calls : Done(c)[e].kind = calls[e].kind
                         \/ (Done(c)[e].pc = "idle" /\ calls[e].kind # "load")
    <3>1. calls[c].kind # "load" /\ "load" \in Kinds
      BY <1>1 DEF Kinds
    <3> QED
      BY <3>1, Freed
  <2>3. week' = week /\ week \in Weeks /\ calls[c].about \in Orgs
    BY <1>1, Known, CallKnown
  <2> QED
    BY <2>1, <2>2, <2>3, LoadBody
<1> QED
  BY <1>2, <1>3

\* The answer to a change of an entry, before what it starts goes out.
LEMMA Answered ==
    ASSUME TypeInvariant, FreshInvariant, fresh # "no", orgsReady,
           NEW c \in Calls, calls[c].pc = "answer", calls[c].kind \in EntryKinds \cup {"create"}
    PROVE  /\ ProjectsCurrent
           /\ calls[c].kind \in EntryKinds => calls[c].change = Len(log) /\ LacksLast
<1>1. ~Over(c)
  BY CallKnown DEF Over, At, EntryKinds
<1>2. Keeps(calls[c])
  BY <1>1 DEF FreshInvariant, FreshBody
<1> QED
  BY <1>2 DEF Keeps, CreateKeeps, EditKeeps, EntryKinds

\* The answer to a change of an entry starts a refresh.
LEMMA RefreshAfter ==
    ASSUME TypeInvariant, FreshInvariant, Observe, fresh' # "no", orgsReady,
           UNCHANGED <<projects, selected>>,
           NEW c \in Calls, calls[c].pc = "answer", calls[c].kind \in EntryKinds \cup {"create"},
           Refresh(Done(c), calls[c].week)
    PROVE  FreshBody'
<1>1. "refresh" \in Kinds /\ calls[c].kind # "refresh" /\ calls[c].week \in Weeks
  BY CallKnown DEF Kinds, EntryKinds
<1>2. /\ Done(c) \in [Calls -> FormedRequests(Len(log))]
      /\ \A e \in Calls : Done(c)[e].kind = calls[e].kind
                       \/ (Done(c)[e].pc = "idle" /\ calls[e].kind # "refresh")
  BY <1>1, Freed
<1>3. PICK d \in Calls : /\ calls'[d] = Request("refresh", calls[c].week, None)
                        /\ Alone(d)' /\ fresh' = Promised(d)
  BY <1>1, <1>2, SendAlone DEF Refresh
<1>4. ProjectsCurrent
  <2>1. CASE fresh = "no"
    BY <2>1 DEF ProjectsCurrent
  <2>2. CASE fresh # "no"
    BY <2>2, Answered
  <2> QED
    BY <2>1, <2>2
<1> QED
  BY <1>1, <1>3, <1>4, RefreshBody

LEMMA CreateReturnsBody ==
    ASSUME TypeInvariant, FreshInvariant, Observe, fresh' # "no", orgsReady',
           NEW c \in Calls, CreateReturns(c)
    PROVE  FreshBody'
BY RefreshAfter DEF CreateReturns, view, At

\* The entry is changed in the list, which then lacks nothing, and the total is read.
LEMMA InPlaceBody ==
    ASSUME TypeInvariant, FreshInvariant, Observe, fresh' # "no", orgsReady,
           UNCHANGED <<log, projects, selected, week>>,
           NEW c \in Calls, calls[c].pc = "answer", calls[c].kind \in EntryKinds,
           ChangeInPlace(c)
    PROVE  FreshBody'
<1>1. "total" \in Kinds /\ calls[c].kind # "total" /\ calls[c].week \in Weeks
  BY CallKnown DEF Kinds, EntryKinds
<1>2. /\ Done(c) \in [Calls -> FormedRequests(Len(log))]
      /\ \A e \in Calls : Done(c)[e].kind = calls[e].kind
                       \/ (Done(c)[e].pc = "idle" /\ calls[e].kind # "total")
  BY <1>1, Freed
<1>3. PICK d \in Calls : /\ calls'[d] = Request("total", calls[c].week, None)
                        /\ Alone(d)' /\ fresh' = Promised(d)
  BY <1>1, <1>2, SendAlone DEF ChangeInPlace
<1>4. fresh # "no"
  BY <1>3 DEF Promised, Request
<1>5. ProjectsCurrent /\ calls[c].change = Len(log) /\ LacksLast
  BY <1>4, Answered
<1>6. entries' = ListOf(selected, week)
  <2> DEFINE p == Place(selected, week)
             all == ListOf(selected, week).seen
  <2>1. selected \in Orgs /\ week \in Weeks /\ log \in Seq(Places) /\ Len(log) \in Nat
    BY Known
  <2>2. /\ log # <<>> /\ log[Len(log)] = p
        /\ entries = [place |-> p, seen |-> all \ {Len(log)}]
    BY <1>5 DEF LacksLast
  <2>3. ListOf(selected, week) = [place |-> p, seen |-> all] /\ Len(log) \in all
    <3>1. Len(log) \in DOMAIN log
      BY <2>1, <2>2
    <3> QED
      BY <2>2, <3>1 DEF ListOf
  <2>4. entries # None
    <3>1. ListOf(selected, week) \in TimeLists(Len(log))
      BY <2>1, ListFormed
    <3>2. all \in SUBSET Nat /\ p \in Places
      BY <2>1, <3>1 DEF TimeLists, Place, Places
    <3> HIDE DEF all, p
    <3>3. entries \in EntryLists
      BY <2>2, <3>2 DEF EntryLists
    <3> QED
      BY <3>3, SidebarAssumption DEF SidebarAssumption
  <2>5. entries' = [entries EXCEPT !.seen = @ \cup {Len(log)}]
    BY <1>5, <2>2, <2>4 DEF ChangeInPlace, Lists
  <2> HIDE DEF all, p
  <2>6. entries' = [place |-> p, seen |-> all]
    BY <2>2, <2>3, <2>5
  <2> QED
    BY <2>3, <2>6
<1>7. entries' = ListOf(selected, week)'
  BY <1>6 DEF ListOf, Place
<1> QED
  BY <1>1, <1>3, <1>5, <1>7, TotalBody

LEMMA UpdateReturnsBody ==
    ASSUME TypeInvariant, FreshInvariant, Observe, fresh' # "no", orgsReady',
           NEW c \in Calls, UpdateReturns(c)
    PROVE  FreshBody'
<1>1. /\ orgsReady /\ UNCHANGED <<log, projects, selected, week>>
      /\ calls[c].pc = "answer" /\ calls[c].kind \in EntryKinds
  BY DEF UpdateReturns, server, view, At, EntryKinds
<1>2. Refresh(Done(c), calls[c].week) \/ ChangeInPlace(c)
  BY DEF UpdateReturns
<1> QED
  BY <1>1, <1>2, RefreshAfter, InPlaceBody

LEMMA DeleteReturnsBody ==
    ASSUME TypeInvariant, FreshInvariant, Observe, fresh' # "no", orgsReady',
           NEW c \in Calls, DeleteReturns(c)
    PROVE  FreshBody'
<1>1. /\ orgsReady /\ UNCHANGED <<log, projects, selected, week>>
      /\ calls[c].pc = "answer" /\ calls[c].kind \in EntryKinds
  BY DEF DeleteReturns, server, view, At, EntryKinds
<1> QED
  BY <1>1, InPlaceBody DEF DeleteReturns

\* A request that fails ends the promise when it fails, unless it is nobody's any more.
LEMMA LostBody ==
    ASSUME TypeInvariant, FreshInvariant, Observe, fresh' # "no", orgsReady',
           NEW c \in Calls, RequestLost(c)
    PROVE  FreshBody'
<1>1. CASE calls[c].live
  <2>1. ~connected'
    BY <1>1 DEF RequestLost, Disconnect
  <2> QED
    BY <2>1, Undisturbed DEF Disturbed
<1>2. CASE ~calls[c].live
  <2>1. /\ orgsReady /\ UNCHANGED <<org, log, inbox, selected, week, projects, entries, total>>
        /\ calls' = [calls EXCEPT ![c] = Idle]
    BY <1>2, Ended DEF RequestLost, server, view, content
  <2> QED
    BY <1>2, <2>1, Ended, DeadKept
<1> QED
  BY <1>1, <1>2

LEMMA FailsBody ==
    ASSUME TypeInvariant, FreshInvariant, Observe, fresh' # "no", orgsReady',
           NEW c \in Calls, RequestFails(c)
    PROVE  FreshBody'
<1>1. /\ orgsReady /\ UNCHANGED <<org, log, inbox, selected, week, projects, entries, total>>
      /\ calls' = [calls EXCEPT ![c] = Idle] /\ calls[c].pc = "failed"
  BY Ended DEF RequestFails, server, view
<1>2. FreshBody
  BY <1>1, Ended, Quietly
<1>3. ~calls[c].live
  BY <1>1, <1>2, UnderWay
     DEF Keeps, LoadKeeps, RefreshKeeps, TotalKeeps, SwitchKeeps, CreateKeeps, EditKeeps
<1> QED
  BY <1>1, <1>3, Ended, DeadKept

\* Taking in an answer keeps what the sidebar is promised.
LEMMA ReturnBody ==
    ASSUME TypeInvariant, FreshInvariant, Observe, fresh' # "no", orgsReady',
           NEW c \in Calls, Return(c)
    PROVE  FreshBody'
BY OrganizationsLoadedBody, LoadReturnsBody, RefreshReturnsBody, TotalReturnsBody,
   SwitchReturnsBody, CreateReturnsBody, UpdateReturnsBody, DeleteReturnsBody, LostBody, FailsBody
   DEF Return

\* An event of the connection ends the promise, if one was made at all: one that says
\* what the tab knows is not expected.
LEMMA ConnectionChangeBody ==
    ASSUME TypeInvariant, FreshInvariant, Observe, fresh' # "no", orgsReady', ConnectionChange
    PROVE  FreshBody'
<1>1. inbox # <<>> /\ Head(inbox).kind = "connection" /\ inbox \in Seq(Events)
  BY Known DEF ConnectionChange, Receives
<1>2. inbox[1].kind = "connection" /\ 1 \in 1..Len(inbox)
  BY <1>1
<1>3. CASE ~connected'
  BY <1>3, Undisturbed DEF Disturbed
<1>4. CASE Connect(calls) /\ connected
  <2>1. orgsReady /\ calls' = calls
    BY <1>4 DEF Connect
  <2>2. fresh # "no"
    BY <2>1, Undisturbed DEF Sent
  <2>3. InboxLeads
    BY <2>1, <2>2 DEF FreshInvariant, FreshBody
  <2> QED
    BY <1>2, <2>3 DEF InboxLeads
<1>5. CASE Connect(calls) /\ ~connected
  BY <1>5 DEF Connect
<1>6. Connect(calls) \/ ~connected'
  BY DEF ConnectionChange, Disconnect
<1> QED
  BY <1>3, <1>4, <1>5, <1>6

\* An event names the organization: it is the one the sidebar has, or a load begins.
LEMMA OrgChangeBody ==
    ASSUME TypeInvariant, FreshInvariant, Observe, fresh' # "no", orgsReady', OrgChange
    PROVE  FreshBody'
<1> DEFINE to == Head(inbox).to
<1>1. /\ orgsReady /\ UNCHANGED <<org, log, week, total>>
      /\ inbox # <<>> /\ Head(inbox).kind = "org" /\ inbox' = Tail(inbox)
      /\ Select(calls, to)
  BY DEF OrgChange, Receives, server
<1>2. inbox \in Seq(Events) /\ Len(inbox) \in Nat /\ Len(inbox) > 0 /\ Head(inbox) = inbox[1]
  BY <1>1, Known
<1>3. to \in Orgs
  <2>1. Head(inbox) \in Events
    BY <1>1, <1>2
  <2> QED
    BY <1>1, <2>1 DEF Events
<1>4. CASE to = selected
  <2>1. UNCHANGED <<selected, projects, entries, calls>>
    BY <1>1, <1>4 DEF Select
  <2>2. fresh' = fresh
    BY <2>1, Undisturbed DEF Sent
  <2>3. FreshBody
    BY <1>1, <2>2 DEF FreshInvariant
  <2>4. \A e \in Calls : Over(e)' <=> Over(e)
    BY <1>1, <2>1 DEF Over, At
  <2>5. ASSUME NEW e \in Calls, ~Over(e)' PROVE (selected = org)' /\ Keeps(calls[e])'
    BY <1>1, <2>1, <2>2, <2>3, <2>4, <2>5, KeepsSame DEF FreshBody
  <2>6. Current' <=> Current
    BY <1>1, <2>1, <2>2 DEF Current, ProjectsCurrent, ListOf, Place
  <2>7. InboxLeads'
    <3>1. /\ Len(inbox') = Len(inbox) - 1
          /\ \A n \in 1..Len(inbox') : inbox'[n] = inbox[n + 1] /\ n + 1 \in 1..Len(inbox)
      BY <1>1, <1>2
    <3>2. InboxLeads /\ inbox[1].to = selected
      BY <1>2, <1>4, <2>3 DEF FreshBody
    <3>3. \A n \in 1..Len(inbox') : inbox'[n].kind = "org" /\ inbox'[n].to \in {selected', org'}
      BY <1>1, <2>1, <3>1, <3>2 DEF InboxLeads
    <3>4. \A m, n \in 1..Len(inbox') : m < n /\ inbox'[m].to # selected' => inbox'[n].to = org'
      <4>1. ASSUME NEW m \in 1..Len(inbox'), NEW n \in 1..Len(inbox'),
                   m < n, inbox'[m].to # selected'
            PROVE  inbox'[n].to = org'
        <5>1. m + 1 \in 1..Len(inbox) /\ n + 1 \in 1..Len(inbox) /\ m + 1 < n + 1
          BY <3>1, <4>1
        <5>2. inbox[m + 1].to # selected
          BY <2>1, <3>1, <4>1
        <5>3. inbox[n + 1].to = org
          BY <3>2, <5>1, <5>2 DEF InboxLeads
        <5> QED
          BY <1>1, <3>1, <5>3
      <4> QED
        BY <4>1
    <3>5. ASSUME selected' # org' PROVE inbox' # <<>> /\ inbox'[Len(inbox')].to = org'
      <4>1. selected # org /\ inbox[Len(inbox)].to = org
        BY <1>1, <2>1, <3>2, <3>5 DEF InboxLeads
      <4>2. Len(inbox) # 1
        BY <3>2, <4>1
      <4>3. Len(inbox') \in 1..Len(inbox') /\ Len(inbox') + 1 = Len(inbox)
        BY <1>2, <3>1, <4>2
      <4>4. inbox' # <<>>
        BY <4>3
      <4> QED
        BY <1>1, <3>1, <4>1, <4>3, <4>4
    <3> QED
      BY <3>3, <3>4, <3>5 DEF InboxLeads
  <2> QED
    BY <1>1, <2>1, <2>3, <2>4, <2>5, <2>6, <2>7 DEF FreshBody
<1>5. CASE to # selected
  <2>1. Load(calls, TRUE, to, week)
    BY <1>1, <1>5 DEF Select
  <2>2. calls \in [Calls -> FormedRequests(Len(log))] /\ week \in Weeks /\ week' = week
    BY <1>1, Known
  <2> HIDE DEF to
  <2> QED
    BY <1>3, <2>1, <2>2, LoadBody
<1> QED
  BY <1>4, <1>5

\* The steps of the user.
LEMMA OpenBody ==
    ASSUME orgsReady', Open
    PROVE  FreshBody'
BY DEF Open, Connect

LEMMA ShowWeekBody ==
    ASSUME TypeInvariant, FreshInvariant, Observe, fresh' # "no", orgsReady', ShowWeek
    PROVE  FreshBody'
<1>1. orgsReady /\ week' \in Weeks /\ Load(calls, orgsReady, selected, week')
  BY DEF ShowWeek
<1>2. selected \in Orgs /\ calls \in [Calls -> FormedRequests(Len(log))] /\ orgsReady = TRUE
  BY <1>1, Known
<1> QED
  BY <1>1, <1>2, LoadBody

LEMMA SwitchOrgBody ==
    ASSUME TypeInvariant, FreshInvariant, Observe, fresh' # "no", orgsReady', SwitchOrg
    PROVE  FreshBody'
<1>1. orgsReady /\ UNCHANGED <<org, log, inbox, selected, week, projects, entries, total>>
  BY DEF SwitchOrg, server, view, content
<1>2. PICK o \in Orgs : Send(calls, Request("switch", week, o))
  BY DEF SwitchOrg
<1> QED
  BY <1>1, <1>2, UserBody DEF EntryKinds

LEMMA CreateEntryBody ==
    ASSUME TypeInvariant, FreshInvariant, Observe, fresh' # "no", orgsReady', CreateEntry
    PROVE  FreshBody'
<1>1. orgsReady /\ UNCHANGED <<org, log, inbox, selected, week, projects, entries, total>>
  BY DEF CreateEntry, server, view, content
<1>2. PICK w \in Weeks : Send(calls, Request("create", week, Place(selected, w)))
  BY DEF CreateEntry
<1> QED
  BY <1>1, <1>2, UserBody DEF EntryKinds

LEMMA EditEntryBody ==
    ASSUME TypeInvariant, FreshInvariant, Observe, fresh' # "no", orgsReady', EditEntry
    PROVE  FreshBody'
<1>1. orgsReady /\ UNCHANGED <<org, log, inbox, selected, week, projects, entries, total>>
  BY DEF EditEntry, server, view, content
<1>2. PICK kind \in EntryKinds : Send(calls, Request(kind, week, entries.place))
  BY DEF EditEntry, EntryKinds
<1> QED
  BY <1>1, <1>2, UserBody

LEMMA TimerStartsBody ==
    ASSUME TypeInvariant, FreshInvariant, Observe, fresh' # "no", orgsReady', TimerStarts
    PROVE  FreshBody'
<1>1. /\ orgsReady /\ UNCHANGED <<org, log, inbox, selected, week, projects, entries, total>>
      /\ calls' = calls
  BY DEF TimerStarts, server, view, content
<1>2. fresh' = fresh
  BY <1>1, Undisturbed DEF Sent
<1>3. FreshBody
  BY <1>1, <1>2 DEF FreshInvariant
<1> QED
  BY <1>1, <1>2, <1>3, OverKept

\* The timer ends with an entry more in the organization, and the lists are refreshed.
LEMMA TimerStopsBody ==
    ASSUME TypeInvariant, FreshInvariant, Observe, fresh' # "no", orgsReady', TimerStops
    PROVE  FreshBody'
<1>1. orgsReady /\ UNCHANGED <<org, inbox, connected, selected, week, projects, entries, total>>
  BY DEF TimerStops, view
<1>2. connected
  BY <1>1, Undisturbed DEF Disturbed
<1>3. Refresh(calls, week)
  BY <1>1, <1>2 DEF TimerStops, TypeInvariant
<1>4. "refresh" \in Kinds /\ week \in Weeks /\ calls \in [Calls -> FormedRequests(Len(log))]
  BY Known DEF Kinds
<1>5. PICK d \in Calls : /\ calls[d].pc = "idle"
                        /\ calls' = [calls EXCEPT ![d] = Request("refresh", week, None)]
                        /\ calls'[d] = Request("refresh", week, None)
                        /\ Alone(d)' /\ fresh' = Promised(d)
  BY <1>3, <1>4, SendAlone DEF Refresh
<1>6. \A e \in Calls : Harmless(e)
  <2>1. ASSUME NEW e \in Calls, e # d PROVE Harmless(e)
    <3>1. calls'[e] = calls[e]
      BY <1>4, <1>5, <2>1
    <3>2. Harmless(e)'
      BY <1>5, <2>1 DEF Alone
    <3> QED
      BY <1>1, <3>1, <3>2 DEF Harmless, At
  <2>2. Harmless(d)
    BY <1>5 DEF Harmless
  <2> QED
    BY <2>1, <2>2
<1>7. selected = org
  BY <1>1, <1>5 DEF Alone
<1>8. ProjectsCurrent
  <2>1. CASE fresh = "no"
    BY <2>1 DEF ProjectsCurrent
  <2>2. CASE fresh # "no"
    BY <1>1, <1>6, <1>7, <2>2, NothingElse DEF Current
  <2> QED
    BY <2>1, <2>2
<1> QED
  BY <1>1, <1>4, <1>5, <1>8, RefreshBody

----------------------------------------------------------------------------
(* The sidebar is current. *)

LEMMA FreshStep ==
    ASSUME TypeInvariant, FreshInvariant, [HNext]_hvars
    PROVE  FreshInvariant'
<1> SUFFICES ASSUME fresh' # "no", orgsReady'
             PROVE  FreshBody'
  BY DEF FreshInvariant
<1>1. ASSUME NEW c \in Calls, Serve(c) \/ Return(c), Observe PROVE FreshBody'
  BY <1>1, ServeBody, ReturnBody
<1>2. ASSUME Receive, Observe PROVE FreshBody'
  BY <1>2, ConnectionChangeBody, OrgChangeBody DEF Receive
<1>3. ASSUME Here, Observe PROVE FreshBody'
  BY <1>3, OpenBody, ShowWeekBody, SwitchOrgBody, CreateEntryBody, EditEntryBody, TimerStartsBody,
     TimerStopsBody DEF Here
<1>4. CASE UNCHANGED hvars
  <2>1. /\ orgsReady' = orgsReady /\ calls' = calls
        /\ UNCHANGED <<org, log, inbox, selected, week, projects, entries, total, fresh>>
    BY <1>4 DEF hvars
  <2>2. FreshBody
    BY <2>1 DEF FreshInvariant
  <2> QED
    BY <2>1, <2>2, OverKept
<1> QED
  BY <1>1, <1>2, <1>3, <1>4 DEF HNext

\* As long as the sidebar must be current, at most one request can still change it, for
\* the organization and the week it shows, and the events to come lead to the server's.
THEOREM FreshInvariantHolds == HSpec => [](TypeInvariant /\ FreshInvariant)
<1>1. HInit => FreshInvariant
  BY DEF HInit, FreshInvariant
<1>2. HInit => TypeInvariant
  BY TypeInit
<1>3. ASSUME TypeInvariant, FreshInvariant, [HNext]_hvars
      PROVE  TypeInvariant' /\ FreshInvariant'
  BY <1>3, TypeStep, FreshStep
<1> QED
  BY <1>1, <1>2, <1>3, PTL DEF HSpec

\* However the user changes week and organization while loads are in flight, and edits
\* entries one at a time, with nothing under way the sidebar shows the entries and the
\* total of its organization and week, with every change made there.
THEOREM ListsCurrentHolds == HSpec => []ListsCurrent
<1>1. ASSUME FreshInvariant PROVE ListsCurrent
  <2> SUFFICES ASSUME Quiet, orgsReady, fresh # "no"
               PROVE  Current
    BY DEF ListsCurrent, Current, ProjectsCurrent
  <2>1. FreshBody
    BY <1>1 DEF FreshInvariant
  <2>2. \A c \in Calls : Over(c)
    BY DEF Quiet, Over
  <2>3. selected = org
    BY <2>1 DEF FreshBody, InboxLeads, Quiet
  <2> QED
    BY <2>1, <2>2, <2>3 DEF FreshBody
<1> QED
  BY <1>1, FreshInvariantHolds, PTL
====
