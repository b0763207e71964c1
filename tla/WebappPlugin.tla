---- MODULE WebappPlugin ----
(***************************************************************************)
(* The webapp half of the plugin in one browser tab: the channel header    *)
(* button it registers with Mattermost, its idea of the connection, and    *)
(* the running timer in the Redux store.                                   *)
(*                                                                         *)
(* JavaScript runs one handler at a time up to its next await, so a step   *)
(* here is one such stretch.  Between the steps of a handler the WebSocket *)
(* and other handlers run, and the server changes.                         *)
(***************************************************************************)
EXTENDS Naturals, Sequences

CONSTANTS
    Calls,       \* slots for the calls the tab has in flight
    Locales,     \* the user's profile languages
    MaxChanges,  \* bound: changes by users, administrators and the network
    Faults,      \* what may go wrong, a subset of AllFaults
    None         \* null

AllFaults == {"socket", "error", "config", "disable"}

WebappAssumption ==
    /\ MaxChanges \in Nat
    /\ Faults \subseteq AllFaults
    /\ None \notin Locales \cup Nat

ASSUME WebappAssumption

VARIABLES
    configured, linked, running,   \* the server: a URL is set, the user has a token,
                                   \* the user has a running timer
    inbox,       \* WebSocket events on their way to the tab
    online,      \* the WebSocket of the tab is open
    locale,      \* the language in the user's profile
    loaded,      \* "no", "yes" after initialize, "gone" after uninitialize
    buttons,     \* the header buttons registered with Mattermost: id and language
    button,      \* channelHeaderButtonId
    lastLocale,  \* lastHeaderLocale
    connected,   \* this.connected
    panel,       \* connection_state.ts, which the sidebar follows
    timer,       \* a timer is in the Redux store
    org,         \* an organization is in the Redux store
    calls,       \* the continuation and the answer each call in flight waits for
    missed,      \* history: the last request for the active entry failed
    changes      \* how many changes were made

server == <<configured, linked, running, missed, changes>>
socket == <<inbox, online>>
chrome == <<buttons, button, lastLocale>>
session == <<connected, panel, timer, org>>

vars == <<configured, linked, running, inbox, online, locale, loaded, buttons, button,
          lastLocale, connected, panel, timer, org, calls, missed, changes>>

\* The button takes the next free identifier.
Ids == 1..(MaxChanges + 2)

NewId == CHOOSE i \in Ids : \A b \in buttons : b.id # i

Idle == [pc |-> "idle", answer |-> None]

Init ==
    /\ configured = TRUE
    /\ linked \in BOOLEAN
    /\ running \in BOOLEAN
    /\ inbox = <<>>
    /\ online = TRUE
    /\ locale \in Locales
    /\ loaded = "no"
    /\ buttons = {} /\ button = None /\ lastLocale = None
    /\ connected = FALSE /\ panel = FALSE /\ timer = FALSE /\ org = FALSE
    /\ calls = [c \in Calls |-> Idle]
    /\ missed = FALSE
    /\ changes = 0

At(c, step) == calls[c].pc = step

Goto(c, step) == calls' = [calls EXCEPT ![c] = [pc |-> step, answer |-> None]]

Answered(c, step, answer) == calls' = [calls EXCEPT ![c] = [pc |-> step, answer |-> answer]]

Finish(c) == calls' = [calls EXCEPT ![c] = Idle]

----------------------------------------------------------------------------
(* The header button. *)

Unregistered == {b \in buttons : b.id # button}

UnregisterHeaderButton ==
    /\ buttons' = Unregistered
    /\ button' = None

\* Mutant: the old button is left in the header.
RegisterSecondButton(l) ==
    /\ buttons' = buttons \cup {[id |-> NewId, locale |-> l]}
    /\ button' = NewId
    /\ lastLocale' = l

\* registerHeaderButton past its guard: the old button goes, the new one comes.
ReplaceHeaderButton(l) ==
    /\ buttons' = Unregistered \cup {[id |-> NewId, locale |-> l]}
    /\ button' = NewId
    /\ lastLocale' = l

RegisterHeaderButton ==
    IF button # None /\ lastLocale = locale THEN UNCHANGED chrome
    ELSE ReplaceHeaderButton(locale)

----------------------------------------------------------------------------
(* The connection. *)

\* switchConnection; with a connection it goes on to refreshActiveTimer.
SwitchConnection(b) ==
    /\ connected' = b
    /\ panel' = b
    /\ IF b THEN UNCHANGED <<timer, org>> ELSE timer' = FALSE /\ org' = FALSE

\* switchConnection as the end of the call in slot c.
SwitchAfter(c, b) == SwitchConnection(b) /\ IF b THEN Goto(c, "active") ELSE Finish(c)

\* switchConnection outside any call.
SwitchNow(b) ==
    /\ SwitchConnection(b)
    /\ IF b THEN \E c \in Calls : At(c, "idle") /\ Goto(c, "active") ELSE UNCHANGED calls

\* syncChrome up to its first await.
SyncChrome == \E c \in Calls : At(c, "idle") /\ Goto(c, "status")

Initialize ==
    /\ loaded = "no"
    /\ loaded' = "yes"
    /\ SyncChrome
    /\ UNCHANGED <<server, socket, locale, chrome, session>>

\* GET /connection/status on the server.
GetConnectionStatus(c) ==
    /\ At(c, "status")
    /\ \/ Answered(c, "sync", [configured |-> configured, connected |-> linked])
       \/ "error" \in Faults /\ Goto(c, "sync_failed")
    /\ UNCHANGED <<server, socket, locale, loaded, chrome, session>>

\* syncChrome after the status: the button first, then the connection.
StatusReturns(c) ==
    /\ At(c, "sync")
    /\ LET status == calls[c].answer
       IN  /\ IF status.configured THEN RegisterHeaderButton
              ELSE UnregisterHeaderButton /\ lastLocale' = None
           /\ SwitchAfter(c, status.configured /\ status.connected)
    /\ UNCHANGED <<server, socket, locale, loaded>>

\* The catch of syncChrome keeps lastHeaderLocale.
StatusFails(c) ==
    /\ At(c, "sync_failed")
    /\ UnregisterHeaderButton
    /\ SwitchAfter(c, FALSE)
    /\ UNCHANGED <<server, socket, locale, loaded, lastLocale>>

\* GET /time-entries/active on the server, which needs a Solidtime client.
GetActiveTimeEntry(c) ==
    /\ At(c, "active")
    /\ \/ /\ ~linked \/ configured
          /\ IF linked THEN Answered(c, "refresh", running) ELSE Goto(c, "lost")
          /\ missed' = FALSE
       \/ /\ "error" \in Faults \/ (linked /\ ~configured)
          /\ Answered(c, "refresh", FALSE)
          /\ missed' = TRUE
    /\ UNCHANGED <<configured, linked, running, changes, socket, locale, loaded, chrome, session>>

\* refreshActiveTimer after its await; an error clears the timer.
ActiveReturns(c) ==
    /\ At(c, "refresh")
    /\ timer' = calls[c].answer
    /\ Finish(c)
    /\ UNCHANGED <<server, socket, locale, loaded, chrome, connected, panel, org>>

\* Mutant: an answer not_connected is taken for any other error.
ConnectionLostIgnored(c) ==
    /\ At(c, "lost")
    /\ timer' = FALSE
    /\ Finish(c)
    /\ UNCHANGED <<server, socket, locale, loaded, chrome, connected, panel, org>>

\* onConnectionLost, of refreshActiveTimer and of every request of the sidebar.
ConnectionLost(c) ==
    /\ At(c, "lost")
    /\ SwitchAfter(c, FALSE)
    /\ UNCHANGED <<server, socket, locale, loaded, chrome>>

----------------------------------------------------------------------------
(* Events. *)

Event(kind, value) == [kind |-> kind, value |-> value]

Receives(kind) == loaded = "yes" /\ inbox # <<>> /\ Head(inbox).kind = kind

ConnectionChange ==
    /\ Receives("connection")
    /\ inbox' = Tail(inbox)
    /\ SwitchNow(Head(inbox).value)
    /\ UNCHANGED <<server, online, locale, loaded, chrome>>

\* Mutant: no timer is not told from no value.
TimerChangeRaw ==
    /\ Receives("timer")
    /\ inbox' = Tail(inbox)
    /\ timer' = IF ~connected THEN timer ELSE IF Head(inbox).value THEN TRUE ELSE None
    /\ UNCHANGED <<server, online, locale, loaded, chrome, connected, panel, org, calls>>

TimerChange ==
    /\ Receives("timer")
    /\ inbox' = Tail(inbox)
    /\ timer' = IF connected THEN Head(inbox).value ELSE timer
    /\ UNCHANGED <<server, online, locale, loaded, chrome, connected, panel, org, calls>>

OrgChange ==
    /\ Receives("org")
    /\ inbox' = Tail(inbox)
    /\ org' = TRUE
    /\ UNCHANGED <<server, online, locale, loaded, chrome, connected, panel, timer, calls>>

\* Without handlers Mattermost drops the event.
Unheard ==
    /\ loaded # "yes" /\ inbox # <<>>
    /\ inbox' = Tail(inbox)
    /\ UNCHANGED <<server, online, locale, loaded, chrome, session, calls>>

Reconnect ==
    /\ ~online
    /\ online' = TRUE
    /\ IF loaded = "yes" THEN SyncChrome ELSE UNCHANGED calls
    /\ UNCHANGED <<server, inbox, locale, loaded, chrome, session>>

----------------------------------------------------------------------------
(* Users, administrators and the network. *)

Change == changes < MaxChanges /\ changes' = changes + 1

Publish(e) == inbox' = IF online THEN Append(inbox, e) ELSE inbox

\* The user connects or disconnects, with a slash command or in another tab.
SwitchOnServer ==
    /\ Change
    /\ configured \/ linked
    /\ linked' = ~linked
    /\ Publish(Event("connection", linked'))
    /\ UNCHANGED <<missed, configured, running, online, locale, loaded, chrome, session, calls>>

\* The user connects in the panel of this tab, whose answer follows.
ConnectInPanel ==
    /\ Change
    /\ loaded = "yes" /\ ~panel /\ configured
    /\ linked' = TRUE
    /\ Publish(Event("connection", TRUE))
    /\ \E c \in Calls : At(c, "idle") /\ Goto(c, "connected")
    /\ UNCHANGED <<missed, configured, running, online, locale, loaded, chrome, session>>

\* onConnected.
PanelConnected(c) ==
    /\ At(c, "connected")
    /\ SwitchAfter(c, TRUE)
    /\ UNCHANGED <<server, socket, locale, loaded, chrome>>

\* A request of the sidebar; its answer matters only if it is not_connected.
SidebarRequest ==
    /\ Change
    /\ loaded = "yes" /\ panel
    /\ \E c \in Calls : At(c, "idle") /\ IF linked THEN UNCHANGED calls ELSE Goto(c, "lost")
    /\ UNCHANGED <<missed, configured, linked, running, socket, locale, loaded, chrome, session>>

StartOrStopTimer ==
    /\ Change
    /\ linked /\ configured
    /\ running' = ~running
    /\ Publish(Event("timer", running'))
    /\ UNCHANGED <<missed, configured, linked, online, locale, loaded, chrome, session, calls>>

SwitchOrganization ==
    /\ Change
    /\ linked
    /\ Publish(Event("org", TRUE))
    /\ UNCHANGED <<missed, configured, linked, running, online, locale, loaded, chrome, session, calls>>

ChangeConfiguration ==
    /\ "config" \in Faults
    /\ Change
    /\ configured' = ~configured
    /\ UNCHANGED <<missed, linked, running, socket, locale, loaded, chrome, session, calls>>

\* The subscription to the Redux store sees the new language.
ChangeLocale ==
    /\ Change
    /\ locale' \in Locales \ {locale}
    /\ IF loaded = "yes" /\ button # None /\ locale' # lastLocale
       THEN ReplaceHeaderButton(locale') ELSE UNCHANGED chrome
    /\ UNCHANGED <<missed, configured, linked, running, socket, loaded, session, calls>>

LoseSocket ==
    /\ "socket" \in Faults
    /\ Change
    /\ online
    /\ online' = FALSE
    /\ inbox' = <<>>
    /\ UNCHANGED <<missed, configured, linked, running, locale, loaded, chrome, session, calls>>

\* The plugin is disabled: its handlers go, the calls in flight stay.
Uninitialize ==
    /\ "disable" \in Faults
    /\ Change
    /\ loaded = "yes"
    /\ loaded' = "gone"
    /\ UnregisterHeaderButton
    /\ lastLocale' = None
    /\ panel' = FALSE
    /\ UNCHANGED <<missed, configured, linked, running, socket, locale, connected, timer, org, calls>>

----------------------------------------------------------------------------
\* The continuation of a call, and the server's part in it.
Continue(c) ==
    \/ GetConnectionStatus(c)
    \/ StatusReturns(c)
    \/ StatusFails(c)
    \/ GetActiveTimeEntry(c)
    \/ ActiveReturns(c)
    \/ ConnectionLost(c)
    \/ PanelConnected(c)

Receive == ConnectionChange \/ TimerChange \/ OrgChange \/ Unheard

Happen ==
    \/ SwitchOnServer
    \/ ConnectInPanel
    \/ SidebarRequest
    \/ StartOrStopTimer
    \/ SwitchOrganization
    \/ ChangeConfiguration
    \/ ChangeLocale
    \/ LoseSocket
    \/ Uninitialize

Next == Initialize \/ (\E c \in Calls : Continue(c)) \/ Receive \/ Reconnect \/ Happen

Spec == Init /\ [][Next]_vars

\* Calls end (the browser gives up on them at last), events are delivered, and the
\* WebSocket client of Mattermost keeps trying to reconnect.
Fairness ==
    /\ WF_vars(Initialize)
    /\ \A c \in Calls : WF_vars(Continue(c))
    /\ WF_vars(Receive)
    /\ WF_vars(Reconnect)

FairSpec == Spec /\ Fairness

----------------------------------------------------------------------------
(* Every variable keeps its type. *)
TypeOK ==
    /\ configured \in BOOLEAN /\ linked \in BOOLEAN /\ running \in BOOLEAN
    /\ inbox \in Seq([kind : {"connection", "timer", "org"}, value : BOOLEAN])
    /\ online \in BOOLEAN
    /\ locale \in Locales
    /\ loaded \in {"no", "yes", "gone"}
    /\ buttons \subseteq [id : Ids, locale : Locales]
    /\ button \in Ids \cup {None}
    /\ lastLocale \in Locales \cup {None}
    /\ connected \in BOOLEAN /\ panel \in BOOLEAN /\ timer \in BOOLEAN /\ org \in BOOLEAN
    /\ calls \in [Calls ->
          [pc : {"idle", "status", "sync_failed", "active", "lost", "connected"}, answer : {None}]
          \cup [pc : {"refresh"}, answer : BOOLEAN]
          \cup [pc : {"sync"}, answer : [configured : BOOLEAN, connected : BOOLEAN]]]
    /\ missed \in BOOLEAN
    /\ changes \in 0..MaxChanges

\* However synchronizations, failures and changes of language interleave, the header
\* holds the one button the plugin knows of and no other, in the language of the
\* profile as long as the plugin is loaded: none is leaked, doubled or left behind
\* in the old language.
OneButton ==
    /\ {b.id : b \in buttons} = {button} \ {None}
    /\ loaded = "yes" => \A b \in buttons : b.locale = locale

\* Once the user is disconnected for good, so is the tab, in the end, although a stale
\* status or a late panel answer may connect it again: the refresh of the timer that
\* follows every such switch asks the server, and not_connected disconnects it.  The
\* tab misses it only if that request fails for another reason.
DisconnectHeard ==
    <>[](~linked /\ loaded = "yes") => <>[](missed \/ (~connected /\ ~panel))

====
