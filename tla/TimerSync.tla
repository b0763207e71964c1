---- MODULE TimerSync ----
(***************************************************************************)
(* The running timer of one user: what Solidtime has, what the handlers of *)
(* the plugin server publish, and what the browser tabs show.              *)
(*                                                                         *)
(* A handler changes Solidtime, asks it for the active entry, publishes    *)
(* that on the WebSocket of every tab and answers its caller, and the      *)
(* caller sets its own timer from the answer.  Handlers run concurrently;  *)
(* events reach a tab in the order they were published, answers in any     *)
(* order.                                                                  *)
(*                                                                         *)
(* The user is connected and stays in one organization.  An entry is the   *)
(* number Solidtime gave it.  Solidtime keeps one running entry a user.    *)
(***************************************************************************)
EXTENDS Naturals, Sequences

CONSTANTS
    Tabs,        \* browser tabs of the user
    Calls,       \* slots for the plugin requests that may be in flight at once
    MaxCalls,    \* bound: requests and outside changes ever made
    Faults,      \* what may go wrong, a subset of AllFaults
    None         \* no timer

AllFaults == {"solidtime", "socket", "elsewhere"}

TimerAssumption ==
    /\ MaxCalls \in Nat
    /\ Faults \subseteq AllFaults
    /\ None \notin Nat

ASSUME TimerAssumption

VARIABLES
    running,   \* Solidtime: the entry without an end
    started,   \* Solidtime: how many entries were started
    shown,     \* activeTimer in the Redux store of each tab
    inbox,     \* timer events on their way to each tab; <<>> while it is offline
    online,    \* the tabs whose WebSocket is open
    calls,     \* the requests in flight
    made       \* how many requests and outside changes were made

vars == <<running, started, shown, inbox, online, calls, made>>

\* Every entry is started by a request or an outside change of its own.
Entries == 1..MaxCalls

Timers == Entries \cup {None}

Idle == [pc |-> "idle", kind |-> None, tab |-> None, entry |-> None]

\* "edit" stands for every request that leaves the running entry alone: adding a
\* past entry, changing one, deleting one.
Kinds == {"start", "stop", "edit", "poll"}

Init ==
    /\ running = None
    /\ started = 0
    /\ shown = [t \in Tabs |-> None]
    /\ inbox = [t \in Tabs |-> <<>>]
    /\ online = Tabs
    /\ calls = [c \in Calls |-> Idle]
    /\ made = 0

At(c, step) == calls[c].pc = step

Goto(c, step) == calls' = [calls EXCEPT ![c].pc = step]

----------------------------------------------------------------------------
(* The tabs. *)

Call(c, t, kind, e) ==
    /\ At(c, "idle")
    /\ made < MaxCalls
    /\ made' = made + 1
    /\ calls' = [calls EXCEPT ![c] = [pc |-> "solidtime", kind |-> kind, tab |-> t, entry |-> e]]

\* The form's button is disabled while its request is in flight.
StartTimer(c, t) ==
    /\ shown[t] = None
    /\ \A d \in Calls : ~(calls[d].tab = t /\ calls[d].kind = "start")
    /\ Call(c, t, "start", None)
    /\ UNCHANGED <<running, started, shown, inbox, online>>

\* The stop button of the channel header stays enabled during its request.
StopTimer(c, t) ==
    /\ shown[t] # None
    /\ Call(c, t, "stop", shown[t])
    /\ UNCHANGED <<running, started, shown, inbox, online>>

EditEntry(c, t) ==
    /\ Call(c, t, "edit", None)
    /\ UNCHANGED <<running, started, shown, inbox, online>>

\* registerReconnectHandler: syncChrome, and with it refreshActiveTimer.
Reconnect(c, t) ==
    /\ t \notin online
    /\ online' = online \cup {t}
    /\ Call(c, t, "poll", None)
    /\ UNCHANGED <<running, started, shown, inbox>>

Disconnected(t) ==
    /\ "socket" \in Faults
    /\ t \in online
    /\ online' = online \ {t}
    /\ inbox' = [inbox EXCEPT ![t] = <<>>]
    /\ UNCHANGED <<running, started, shown, calls, made>>

\* The handler of solidtime-timer-change.
TimerEvent(t) ==
    /\ inbox[t] # <<>>
    /\ shown' = [shown EXCEPT ![t] = Head(inbox[t])]
    /\ inbox' = [inbox EXCEPT ![t] = Tail(@)]
    /\ UNCHANGED <<running, started, online, calls, made>>

\* The answer reaches the tab: a start and a poll set its timer to what they got,
\* a stop clears it, whatever it has become meanwhile; an edit leaves it alone.
Answer(c) ==
    /\ At(c, "answer")
    /\ LET q == calls[c]
           timer == CASE q.kind \in {"start", "poll"} -> q.entry
                      [] q.kind = "stop" -> None
                      [] q.kind = "edit" -> shown[q.tab]
       IN  shown' = [shown EXCEPT ![q.tab] = timer]
    /\ calls' = [calls EXCEPT ![c] = Idle]
    /\ UNCHANGED <<running, started, inbox, online, made>>

\* An error is shown to the user and changes no timer, except that of a poll.
AnswerError(c) ==
    /\ At(c, "failed")
    /\ shown' = [shown EXCEPT ![calls[c].tab] = IF calls[c].kind = "poll" THEN None ELSE @]
    /\ calls' = [calls EXCEPT ![c] = Idle]
    /\ UNCHANGED <<running, started, inbox, online, made>>

----------------------------------------------------------------------------
(* The handlers of the plugin server. *)

\* POST with end null: refused while an entry is running.
CreateTimeEntry(c) ==
    /\ At(c, "solidtime") /\ calls[c].kind = "start"
    /\ IF running # None
       THEN Goto(c, "failed") /\ UNCHANGED <<running, started>>
       ELSE /\ started' = started + 1
            /\ running' = started'
            /\ calls' = [calls EXCEPT ![c].pc = "publish", ![c].entry = started']
    /\ UNCHANGED <<shown, inbox, online, made>>

\* PUT with an end: an entry that has ended already only gets another end.
UpdateTimeEntry(c) ==
    /\ At(c, "solidtime") /\ calls[c].kind = "stop"
    /\ running' = IF running = calls[c].entry THEN None ELSE running
    /\ Goto(c, "read")
    /\ UNCHANGED <<started, shown, inbox, online, made>>

ChangeEntry(c) ==
    /\ At(c, "solidtime") /\ calls[c].kind = "edit"
    /\ Goto(c, "read")
    /\ UNCHANGED <<running, started, shown, inbox, online, made>>

\* Mutant: the 404 of Solidtime becomes an empty entry.
GetActiveTimeEntryEmpty(c) ==
    /\ At(c, "solidtime") /\ calls[c].kind = "poll"
    /\ calls' = [calls EXCEPT ![c].pc = "answer", ![c].entry = IF running = None THEN 0 ELSE running]
    /\ UNCHANGED <<running, started, shown, inbox, online, made>>

\* handleGetActiveTimeEntry: 404 is no timer.
GetActiveTimeEntry(c) ==
    /\ At(c, "solidtime") /\ calls[c].kind = "poll"
    /\ calls' = [calls EXCEPT ![c].pc = "answer", ![c].entry = running]
    /\ UNCHANGED <<running, started, shown, inbox, online, made>>

\* publishActiveTimer, first half.
ReadActive(c) ==
    /\ At(c, "read")
    /\ calls' = [calls EXCEPT ![c].pc = "publish", ![c].entry = running]
    /\ UNCHANGED <<running, started, shown, inbox, online, made>>

\* Mutant: only the other tabs are told.
PublishToOthers(c) ==
    /\ At(c, "publish")
    /\ inbox' = [t \in Tabs |-> IF t \in online \ {calls[c].tab}
                                THEN Append(inbox[t], calls[c].entry) ELSE inbox[t]]
    /\ Goto(c, "answer")
    /\ UNCHANGED <<running, started, shown, online, made>>

PublishTimerChange(c) ==
    /\ At(c, "publish")
    /\ inbox' = [t \in Tabs |-> IF t \in online THEN Append(inbox[t], calls[c].entry)
                                ELSE inbox[t]]
    /\ Goto(c, "answer")
    /\ UNCHANGED <<running, started, shown, online, made>>

\* Solidtime fails: before the change the caller gets the error, after it the event
\* is dropped with a warning and the caller hears of a success.
SolidtimeError(c) ==
    /\ "solidtime" \in Faults
    /\ \/ At(c, "solidtime") /\ Goto(c, "failed")
       \/ At(c, "read") /\ Goto(c, "answer")
    /\ UNCHANGED <<running, started, shown, inbox, online, made>>

\* The user starts or stops a timer in Solidtime itself.
Elsewhere ==
    /\ "elsewhere" \in Faults
    /\ made < MaxCalls
    /\ made' = made + 1
    /\ IF running = None
       THEN started' = started + 1 /\ running' = started'
       ELSE running' = None /\ UNCHANGED started
    /\ UNCHANGED <<shown, inbox, online, calls>>

----------------------------------------------------------------------------
Ask(c, t) == StartTimer(c, t) \/ StopTimer(c, t) \/ EditEntry(c, t) \/ Reconnect(c, t)

Handle(c) ==
    \/ CreateTimeEntry(c)
    \/ UpdateTimeEntry(c)
    \/ ChangeEntry(c)
    \/ GetActiveTimeEntry(c)
    \/ ReadActive(c)
    \/ PublishTimerChange(c)

Quiet == (\A c \in Calls : At(c, "idle")) /\ \A t \in Tabs : inbox[t] = <<>>

Next ==
    \/ \E c \in Calls :
          \/ \E t \in Tabs : Ask(c, t)
          \/ Handle(c)
          \/ SolidtimeError(c)
          \/ Answer(c)
          \/ AnswerError(c)
    \/ \E t \in Tabs : TimerEvent(t) \/ Disconnected(t)
    \/ Elsewhere

Spec == Init /\ [][Next]_vars
====
