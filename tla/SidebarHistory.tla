---- MODULE SidebarHistory ----
(***************************************************************************)
(* Sidebar with a history variable that says how much of what the sidebar  *)
(* shows must be current once nothing is under way, and its properties.    *)
(*                                                                         *)
(* A load begun while nothing could disturb it makes everything current; a *)
(* refresh, the entries and the total.  What another tab or a disconnect   *)
(* does, an error, and requests that overlap end that.                     *)
(***************************************************************************)
EXTENDS Sidebar

VARIABLE fresh   \* "no", "lists" or "all"

hvars == <<linked, org, log, inbox, connected, orgsReady, selected, week, projects, entries,
           total, loading, timer, calls, changes, fresh>>

HInit == Init /\ fresh = "no"

\* A request that cannot change what the sidebar shows any more, nor what it must show:
\* there is none, its effect was cleaned up, or it is a switch to where the server is.
Harmless(c) ==
    \/ calls[c].pc = "idle"
    \/ ~calls[c].live
    \/ At(c, "switch", "answer") /\ calls[c].about = org

\* Nothing but the request in slot c is under way, and the tab knows its organization
\* or is about to hear of no other.
Alone(c) ==
    /\ \A d \in Calls \ {c} : Harmless(d)
    /\ \A n \in 1..Len(inbox) : inbox[n] = [kind |-> "org", to |-> org]
    /\ selected = org

\* The requests a step sends.
Sent == {c \in Calls : calls'[c].pc = "ask" /\ calls'[c].kind # calls[c].kind}

\* What follows for the sidebar from a request sent alone.
Promised(c) ==
    LET request == calls'[c]
    IN  CASE request.kind = "load" -> "all"
          [] request.kind = "refresh" /\ request.week = week' -> IF fresh = "no" THEN "lists" ELSE fresh
          [] request.kind = "orgs" -> "no"
          [] request.kind = "total" /\ request.week # week' -> "no"
          [] request.kind = "refresh" /\ request.week # week' -> "no"
          [] OTHER -> fresh

\* Steps of other tabs and failures.
Disturbed ==
    \/ ~connected'
    \/ \E c \in Calls : calls'[c].pc \in {"lost", "failed"} /\ calls[c].live
    \/ log' # log /\ timer /\ ~timer' /\ Sent = {}

Observe ==
    fresh' = CASE Disturbed -> "no"
               [] ~Disturbed /\ Sent = {} -> fresh
               [] OTHER -> LET c == CHOOSE c \in Sent : TRUE
                           IN  IF c \in {d \in Calls : Alone(d)'} THEN Promised(c) ELSE "no"

HNext ==
    \/ \E c \in Calls : (Serve(c) \/ Return(c)) /\ Observe
    \/ (Receive \/ Here) /\ Observe
    \/ Elsewhere /\ fresh' = "no"

HSpec == HInit /\ [][HNext]_hvars

FairHSpec == HSpec /\ Fairness

----------------------------------------------------------------------------
\* Lists and requests when entries have been changed n times.
TimeLists(n) == [place : Places, seen : SUBSET (1..n)]

Kinds == {"orgs", "load", "refresh", "total", "switch", "create", "retime", "rename", "delete"}

Requests(n) ==
    [pc : {"idle", "ask", "lists", "answer", "lost", "failed"},
     kind : Kinds \cup {"none"},
     week : Weeks \cup {None},
     about : Orgs \cup Places \cup {None},
     change : 0..n,
     live : BOOLEAN,
     projects : Orgs \cup {None},
     entries : TimeLists(n) \cup {None}, total : TimeLists(n) \cup {None}]

(* Every variable keeps its type. *)
TypeOK ==
    /\ linked \in BOOLEAN /\ org \in Orgs
    /\ log \in Seq(Places)
    /\ inbox \in Seq([kind : {"org"}, to : Orgs] \cup [kind : {"connection"}, to : BOOLEAN])
    /\ connected \in BOOLEAN /\ orgsReady \in BOOLEAN
    /\ selected \in Orgs \cup {None} /\ week \in Weeks
    /\ projects \in Orgs \cup {None}
    /\ entries \in TimeLists(Len(log)) \cup {None} /\ total \in TimeLists(Len(log)) \cup {None}
    /\ loading \in BOOLEAN /\ timer \in BOOLEAN
    /\ calls \in [Calls -> Requests(Len(log))]
    /\ changes \in 0..MaxChanges
    /\ fresh \in {"no", "lists", "all"}

----------------------------------------------------------------------------
Quiet == (\A c \in Calls : calls[c].pc = "idle") /\ inbox = <<>>

\* However the user changes week and organization while loads are in flight, and edits
\* entries one at a time, the sidebar ends up with the entries and the total of the
\* organization and week it names, with every change made in it, and after a load
\* with the projects of that organization: no answer of a load that was overtaken
\* gets through, and no edit is lost from the list.
ListsCurrent ==
    Quiet /\ orgsReady /\ fresh # "no" =>
        /\ entries = ListOf(selected, week) /\ total = ListOf(selected, week)
        /\ fresh = "all" => projects = selected

\* The list area does not show "Loading..." for ever in a sidebar that has its
\* organizations, whatever loads and refreshes overlap, are cancelled or fail.
LoadingEnds == loading ~> (~loading \/ ~orgsReady)

----------------------------------------------------------------------------
(* What the documentation says. *)

\* docs/UI.md, footer: the arrows switch the week and the list refreshes; organization
\* selector: projects and entries are reloaded on a change.  With nothing under way
\* the list is that of the organization and the week the sidebar names.
ListsOfSelection ==
    Quiet /\ orgsReady /\ entries # None => entries.place = Place(selected, week)
====
