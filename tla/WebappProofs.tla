---- MODULE WebappProofs ----
(***************************************************************************)
(* Proofs about WebappPlugin for any number of calls in flight, any        *)
(* languages and any faults.                                               *)
(***************************************************************************)
EXTENDS WebappPlugin, TLAPS

----------------------------------------------------------------------------
(* Why the header holds the one button the plugin knows of. *)

\* No handler has run before initialize.
NothingBeforeInitialize ==
    loaded = "no" => button = None /\ \A c \in Calls : At(c, "idle")

\* The button is the one whose identifier the plugin keeps, in the language it
\* registered last; StatusFails forgets the button and keeps that language.
KnownButton ==
    /\ {b.id : b \in buttons} = {button} \ {None}
    /\ \A b \in buttons : b.locale = lastLocale

\* While the plugin is loaded it hears every change of the language.
LanguageFollowed == loaded = "yes" /\ button # None => lastLocale = locale

HeaderInvariant ==
    /\ NothingBeforeInitialize
    /\ KnownButton
    /\ LanguageFollowed

----------------------------------------------------------------------------
Calling ==
    [pc : {"idle", "status", "sync_failed", "active", "lost", "connected"}, answer : {None}]
    \cup [pc : {"refresh"}, answer : BOOLEAN]
    \cup [pc : {"sync"}, answer : [configured : BOOLEAN, connected : BOOLEAN]]

\* The variables of the header keep their types.
HeaderTypes ==
    /\ buttons \subseteq [id : Ids, locale : Locales]
    /\ button \in Ids \cup {None}
    /\ lastLocale \in Locales \cup {None}

----------------------------------------------------------------------------
(* The header button. *)

\* The plugin keeps the identifier of every button in the header: to take that one
\* away empties the header.
LEMMA NoneLeft ==
    ASSUME KnownButton
    PROVE  Unregistered = {}
<1> SUFFICES ASSUME NEW b \in buttons PROVE b.id = button
  BY DEF Unregistered
<1>1. b.id \in {x.id : x \in buttons}
  OBVIOUS
<1> QED
  BY <1>1 DEF KnownButton

\* Mattermost has an identifier for the next button.
LEMMA IdIsFree ==
    ASSUME HeaderTypes, KnownButton
    PROVE  NewId \in Ids
<1>1. 1 \in Ids /\ 2 \in Ids
  BY WebappAssumption DEF Ids, WebappAssumption
<1>2. \A b \in buttons : b.id = button
  <2> SUFFICES ASSUME NEW b \in buttons PROVE b.id = button
    OBVIOUS
  <2>1. b.id \in {x.id : x \in buttons}
    OBVIOUS
  <2> QED
    BY <2>1 DEF KnownButton
<1>3. \E i \in Ids : \A b \in buttons : b.id # i
  <2>1. CASE button = 1
    BY <1>1, <1>2, <2>1
  <2>2. CASE button # 1
    BY <1>1, <1>2, <2>2
  <2> QED
    BY <2>1, <2>2
<1> QED
  BY <1>3 DEF NewId

\* registerHeaderButton leaves one button, in the language it was called for.
LEMMA Replaced ==
    ASSUME HeaderTypes, KnownButton, NEW l \in Locales, ReplaceHeaderButton(l)
    PROVE  HeaderTypes' /\ KnownButton' /\ lastLocale' = l
<1>1. NewId \in Ids /\ NewId # None
  BY IdIsFree, WebappAssumption DEF WebappAssumption, Ids
<1>2. buttons' = {[id |-> NewId, locale |-> l]} /\ button' = NewId /\ lastLocale' = l
  BY NoneLeft DEF ReplaceHeaderButton
<1> HIDE DEF NewId
<1>3. HeaderTypes'
  BY <1>1, <1>2 DEF HeaderTypes
<1>4. \A b \in buttons' : b.id = NewId /\ b.locale = l
  BY <1>2
<1>5. {b.id : b \in buttons'} = {NewId}
  BY <1>2
<1> QED
  BY <1>1, <1>2, <1>3, <1>4, <1>5 DEF KnownButton

\* unregisterHeaderButton leaves none.
LEMMA Removed ==
    ASSUME HeaderTypes, KnownButton, UnregisterHeaderButton, lastLocale' \in {lastLocale, None}
    PROVE  HeaderTypes' /\ KnownButton' /\ button' = None
<1>1. buttons' = {} /\ button' = None
  BY NoneLeft DEF UnregisterHeaderButton
<1> QED
  BY <1>1 DEF HeaderTypes, KnownButton

\* A synchronization registers the button again only in a new language.
LEMMA Registered ==
    ASSUME HeaderTypes, KnownButton, locale \in Locales, RegisterHeaderButton
    PROVE  HeaderTypes' /\ KnownButton' /\ (button' # None => lastLocale' = locale)
<1>1. CASE ReplaceHeaderButton(locale)
  BY <1>1, Replaced
<1>2. CASE button # None /\ lastLocale = locale /\ UNCHANGED chrome
  BY <1>2 DEF chrome, HeaderTypes, KnownButton
<1> QED
  BY <1>1, <1>2 DEF RegisterHeaderButton

----------------------------------------------------------------------------
(* The calls in flight. *)

\* A call goes on to a step that waits for nothing yet.
LEMMA GoesTo ==
    ASSUME calls \in [Calls -> Calling], NEW c \in Calls,
           NEW step \in {"idle", "status", "sync_failed", "active", "lost", "connected"},
           Goto(c, step)
    PROVE  calls' \in [Calls -> Calling]
<1>1. [pc |-> step, answer |-> None] \in Calling
  BY DEF Calling
<1> QED
  BY <1>1 DEF Goto

LEMMA Ends ==
    ASSUME calls \in [Calls -> Calling], NEW c \in Calls, Finish(c)
    PROVE  calls' \in [Calls -> Calling]
<1>1. Idle \in Calling
  BY DEF Calling, Idle
<1> QED
  BY <1>1 DEF Finish

\* A switch of the connection keeps the types of the session.
LEMMA Switched ==
    ASSUME TypeOK, NEW b \in BOOLEAN, SwitchConnection(b)
    PROVE  connected' \in BOOLEAN /\ panel' \in BOOLEAN /\ timer' \in BOOLEAN /\ org' \in BOOLEAN
<1>1. connected' \in BOOLEAN /\ panel' \in BOOLEAN
  BY DEF SwitchConnection
<1>2. timer \in BOOLEAN /\ org \in BOOLEAN
  BY DEF TypeOK
<1>3. timer' \in {timer, FALSE} /\ org' \in {org, FALSE}
  BY DEF SwitchConnection
<1> QED
  BY <1>1, <1>2, <1>3

\* The end of a call that switches the connection.
LEMMA SwitchTypes ==
    ASSUME TypeOK, NEW c \in Calls, NEW b \in BOOLEAN, SwitchAfter(c, b)
    PROVE  /\ connected' \in BOOLEAN /\ panel' \in BOOLEAN /\ timer' \in BOOLEAN /\ org' \in BOOLEAN
           /\ calls' \in [Calls -> Calling]
<1>1. calls \in [Calls -> Calling]
  BY DEF TypeOK, Calling
<1>2. SwitchConnection(b) /\ (b => Goto(c, "active")) /\ (~b => Finish(c))
  BY DEF SwitchAfter
<1>3. connected' \in BOOLEAN /\ panel' \in BOOLEAN /\ timer' \in BOOLEAN /\ org' \in BOOLEAN
  BY <1>2, Switched
<1>4. CASE b
  BY <1>1, <1>2, <1>3, <1>4, GoesTo
<1>5. CASE ~b
  BY <1>1, <1>2, <1>3, <1>5, Ends
<1> QED
  BY <1>4, <1>5

----------------------------------------------------------------------------
(* The steps that leave the header alone. *)

\* A step that leaves the header and the language alone keeps the invariant, if it starts
\* no call before initialize.
LEMMA HeaderKept ==
    ASSUME HeaderInvariant, UNCHANGED chrome, locale' = locale, loaded' = loaded,
           loaded = "no" => UNCHANGED calls
    PROVE  HeaderInvariant'
BY DEF HeaderInvariant, NothingBeforeInitialize, KnownButton, LanguageFollowed, chrome, At

\* A call in flight means that the plugin was loaded.
LEMMA Loaded ==
    ASSUME NothingBeforeInitialize, NEW c \in Calls, ~At(c, "idle")
    PROVE  loaded # "no"
BY DEF NothingBeforeInitialize

\* The types of a step that leaves the header alone.
LEMMA TypesFrom ==
    ASSUME TypeOK, UNCHANGED chrome,
           configured' \in BOOLEAN, linked' \in BOOLEAN, running' \in BOOLEAN, missed' \in BOOLEAN,
           inbox' \in Seq([kind : {"connection", "timer", "org"}, value : BOOLEAN]),
           online' \in BOOLEAN, locale' \in Locales, loaded' \in {"no", "yes", "gone"},
           connected' \in BOOLEAN, panel' \in BOOLEAN, timer' \in BOOLEAN, org' \in BOOLEAN,
           calls' \in [Calls -> Calling],
           changes' \in 0..MaxChanges
    PROVE  TypeOK'
BY DEF TypeOK, chrome, Calling

----------------------------------------------------------------------------
(* The continuations of the calls. *)

LEMMA GetConnectionStatusKeeps ==
    ASSUME TypeOK, HeaderInvariant, NEW c \in Calls, GetConnectionStatus(c)
    PROVE  TypeOK' /\ HeaderInvariant'
<1> USE DEF GetConnectionStatus, server, socket, session
<1>1. calls \in [Calls -> Calling]
  BY DEF TypeOK, Calling
<1>2. calls' \in [Calls -> Calling]
  <2>1. CASE Goto(c, "sync_failed")
    BY <1>1, <2>1, GoesTo
  <2>2. CASE Answered(c, "sync", [configured |-> configured, connected |-> linked])
    <3>1. [pc |-> "sync", answer |-> [configured |-> configured, connected |-> linked]] \in Calling
      BY DEF Calling, TypeOK
    <3> QED
      BY <1>1, <2>2, <3>1 DEF Answered
  <2> QED
    BY <2>1, <2>2
<1>3. TypeOK'
  BY <1>2, TypesFrom DEF TypeOK
<1>4. loaded # "no"
  BY Loaded DEF HeaderInvariant, At
<1> QED
  BY <1>3, <1>4, HeaderKept

LEMMA StatusReturnsKeeps ==
    ASSUME TypeOK, HeaderInvariant, NEW c \in Calls, StatusReturns(c)
    PROVE  TypeOK' /\ HeaderInvariant'
<1> USE DEF StatusReturns, server, socket
<1>1. calls[c].answer \in [configured : BOOLEAN, connected : BOOLEAN]
  BY DEF TypeOK, At
<1> DEFINE status == calls[c].answer
<1>2. status.configured \in BOOLEAN /\ status.connected \in BOOLEAN
  BY <1>1
<1>3. SwitchAfter(c, status.configured /\ status.connected)
  OBVIOUS
<1>4. /\ connected' \in BOOLEAN /\ panel' \in BOOLEAN /\ timer' \in BOOLEAN /\ org' \in BOOLEAN
      /\ calls' \in [Calls -> Calling]
  BY <1>2, <1>3, SwitchTypes
<1>5. HeaderTypes' /\ KnownButton' /\ (button' # None => lastLocale' = locale)
  <2>1. HeaderTypes /\ KnownButton /\ locale \in Locales
    BY DEF TypeOK, HeaderTypes, HeaderInvariant
  <2>2. CASE RegisterHeaderButton
    BY <2>1, <2>2, Registered
  <2>3. CASE UnregisterHeaderButton /\ lastLocale' = None
    BY <2>1, <2>3, Removed
  <2> QED
    BY <2>2, <2>3
<1>6. TypeOK'
  BY <1>4, <1>5 DEF TypeOK, HeaderTypes, Calling
<1>7. loaded # "no"
  BY Loaded DEF HeaderInvariant, At
<1> QED
  BY <1>5, <1>6, <1>7 DEF HeaderInvariant, NothingBeforeInitialize, LanguageFollowed

LEMMA StatusFailsKeeps ==
    ASSUME TypeOK, HeaderInvariant, NEW c \in Calls, StatusFails(c)
    PROVE  TypeOK' /\ HeaderInvariant'
<1> USE DEF StatusFails, server, socket
<1>1. /\ connected' \in BOOLEAN /\ panel' \in BOOLEAN /\ timer' \in BOOLEAN /\ org' \in BOOLEAN
      /\ calls' \in [Calls -> Calling]
  BY SwitchTypes
<1>2. HeaderTypes' /\ KnownButton' /\ button' = None
  BY Removed DEF TypeOK, HeaderTypes, HeaderInvariant
<1>3. TypeOK'
  BY <1>1, <1>2 DEF TypeOK, HeaderTypes, Calling
<1>4. loaded # "no"
  BY Loaded DEF HeaderInvariant, At
<1> QED
  BY <1>2, <1>3, <1>4 DEF HeaderInvariant, NothingBeforeInitialize, LanguageFollowed

LEMMA GetActiveTimeEntryKeeps ==
    ASSUME TypeOK, HeaderInvariant, NEW c \in Calls, GetActiveTimeEntry(c)
    PROVE  TypeOK' /\ HeaderInvariant'
<1> USE DEF GetActiveTimeEntry, socket, session
<1>1. calls \in [Calls -> Calling] /\ running \in BOOLEAN
  BY DEF TypeOK, Calling
<1>2. \A a \in BOOLEAN : Answered(c, "refresh", a) => calls' \in [Calls -> Calling]
  <2> SUFFICES ASSUME NEW a \in BOOLEAN, Answered(c, "refresh", a) PROVE calls' \in [Calls -> Calling]
    OBVIOUS
  <2>1. [pc |-> "refresh", answer |-> a] \in Calling
    BY DEF Calling
  <2> QED
    BY <1>1, <2>1 DEF Answered
<1>3. Goto(c, "lost") => calls' \in [Calls -> Calling]
  BY <1>1, GoesTo
<1>4. calls' \in [Calls -> Calling] /\ missed' \in BOOLEAN
  BY <1>1, <1>2, <1>3
<1>5. TypeOK'
  BY <1>4, TypesFrom DEF TypeOK
<1>6. loaded # "no"
  BY Loaded DEF HeaderInvariant, At
<1> QED
  BY <1>5, <1>6, HeaderKept

LEMMA ActiveReturnsKeeps ==
    ASSUME TypeOK, HeaderInvariant, NEW c \in Calls, ActiveReturns(c)
    PROVE  TypeOK' /\ HeaderInvariant'
<1> USE DEF ActiveReturns, server, socket
<1>1. calls \in [Calls -> Calling] /\ calls[c].answer \in BOOLEAN
  BY DEF TypeOK, Calling, At
<1>2. calls' \in [Calls -> Calling] /\ timer' \in BOOLEAN
  BY <1>1, Ends
<1>3. TypeOK'
  BY <1>2, TypesFrom DEF TypeOK
<1>4. loaded # "no"
  BY Loaded DEF HeaderInvariant, At
<1> QED
  BY <1>3, <1>4, HeaderKept

\* onConnectionLost and onConnected.
LEMMA ConnectionSwitchKeeps ==
    ASSUME TypeOK, HeaderInvariant, NEW c \in Calls, ConnectionLost(c) \/ PanelConnected(c)
    PROVE  TypeOK' /\ HeaderInvariant'
<1> USE DEF ConnectionLost, PanelConnected, server, socket
<1>1. /\ connected' \in BOOLEAN /\ panel' \in BOOLEAN /\ timer' \in BOOLEAN /\ org' \in BOOLEAN
      /\ calls' \in [Calls -> Calling]
  BY SwitchTypes
<1>2. TypeOK'
  BY <1>1, TypesFrom DEF TypeOK
<1>3. loaded # "no"
  BY Loaded DEF HeaderInvariant, At
<1> QED
  BY <1>2, <1>3, HeaderKept

LEMMA ContinueKeeps ==
    ASSUME TypeOK, HeaderInvariant, NEW c \in Calls, Continue(c)
    PROVE  TypeOK' /\ HeaderInvariant'
BY GetConnectionStatusKeeps, StatusReturnsKeeps, StatusFailsKeeps, GetActiveTimeEntryKeeps,
   ActiveReturnsKeeps, ConnectionSwitchKeeps DEF Continue

----------------------------------------------------------------------------
(* The plugin and the events of its socket. *)

LEMMA InitializeKeeps ==
    ASSUME TypeOK, HeaderInvariant, Initialize
    PROVE  TypeOK' /\ HeaderInvariant'
<1> USE DEF Initialize, server, socket, session
<1>1. PICK c \in Calls : Goto(c, "status")
  BY DEF SyncChrome
<1>2. calls' \in [Calls -> Calling]
  BY <1>1, GoesTo DEF TypeOK, Calling
<1>3. TypeOK'
  BY <1>2, TypesFrom DEF TypeOK
<1>4. button = None
  BY DEF HeaderInvariant, NothingBeforeInitialize
<1> QED
  BY <1>3, <1>4 DEF HeaderInvariant, NothingBeforeInitialize, KnownButton, LanguageFollowed, chrome

LEMMA ReceiveKeeps ==
    ASSUME TypeOK, HeaderInvariant, Receive
    PROVE  TypeOK' /\ HeaderInvariant'
<1> DEFINE Events == [kind : {"connection", "timer", "org"}, value : BOOLEAN]
<1>1. calls \in [Calls -> Calling] /\ inbox \in Seq(Events)
  BY DEF TypeOK, Calling
<1>2. inbox # <<>> /\ inbox' = Tail(inbox)
  BY DEF Receive, ConnectionChange, TimerChange, OrgChange, Unheard, Receives
<1>3. inbox' \in Seq(Events) /\ Head(inbox) \in Events
  <2> HIDE DEF Events
  <2> QED
    BY <1>1, <1>2
<1>4. Head(inbox).value \in BOOLEAN
  BY <1>3
<1> HIDE DEF Events
<1>5. /\ connected' \in BOOLEAN /\ panel' \in BOOLEAN /\ timer' \in BOOLEAN /\ org' \in BOOLEAN
      /\ calls' \in [Calls -> Calling]
  <2>1. CASE ConnectionChange
    <3> DEFINE v == Head(inbox).value
    <3>1. SwitchConnection(v)
      BY <2>1 DEF ConnectionChange, SwitchNow
    <3>2. connected' \in BOOLEAN /\ panel' \in BOOLEAN /\ timer' \in BOOLEAN /\ org' \in BOOLEAN
      BY <1>4, <3>1, Switched
    <3>3. CASE v
      <4>1. PICK c \in Calls : Goto(c, "active")
        BY <2>1, <3>3 DEF ConnectionChange, SwitchNow
      <4> QED
        BY <1>1, <3>2, <4>1, GoesTo
    <3>4. CASE ~v
      <4>1. calls' = calls
        BY <2>1, <3>4 DEF ConnectionChange, SwitchNow
      <4> QED
        BY <1>1, <3>2, <4>1
    <3> QED
      BY <3>3, <3>4
  <2>2. CASE TimerChange
    BY <1>1, <1>4, <2>2 DEF TimerChange, TypeOK
  <2>3. CASE OrgChange
    BY <1>1, <2>3 DEF OrgChange, TypeOK
  <2>4. CASE Unheard
    BY <1>1, <2>4 DEF Unheard, TypeOK, session
  <2> QED
    BY <2>1, <2>2, <2>3, <2>4 DEF Receive
<1>6. UNCHANGED <<configured, linked, running, missed, changes, online, locale, loaded, chrome>>
  BY DEF Receive, ConnectionChange, TimerChange, OrgChange, Unheard, server
<1>7. TypeOK'
  BY <1>3, <1>5, <1>6, TypesFrom DEF TypeOK, Events
<1>8. loaded = "no" => UNCHANGED calls
  BY DEF Receive, ConnectionChange, TimerChange, OrgChange, Unheard, Receives
<1> QED
  BY <1>6, <1>7, <1>8, HeaderKept

LEMMA ReconnectKeeps ==
    ASSUME TypeOK, HeaderInvariant, Reconnect
    PROVE  TypeOK' /\ HeaderInvariant'
<1> USE DEF Reconnect, server, session
<1>1. calls' \in [Calls -> Calling]
  <2>1. CASE SyncChrome
    BY <2>1, GoesTo DEF SyncChrome, TypeOK, Calling
  <2>2. CASE UNCHANGED calls
    BY <2>2 DEF TypeOK, Calling
  <2> QED
    BY <2>1, <2>2
<1>2. TypeOK'
  BY <1>1, TypesFrom DEF TypeOK
<1>3. loaded = "no" => UNCHANGED calls
  OBVIOUS
<1> QED
  BY <1>2, <1>3, HeaderKept

----------------------------------------------------------------------------
(* Users, administrators and the network. *)

\* The changes that leave the header and the language alone.
LEMMA ServerChangeKeeps ==
    ASSUME TypeOK, HeaderInvariant,
           \/ SwitchOnServer \/ ConnectInPanel \/ SidebarRequest \/ StartOrStopTimer
           \/ SwitchOrganization \/ ChangeConfiguration \/ LoseSocket
    PROVE  TypeOK' /\ HeaderInvariant'
<1> DEFINE Events == [kind : {"connection", "timer", "org"}, value : BOOLEAN]
<1>1. changes' \in 0..MaxChanges
  <2>1. Change
    BY DEF SwitchOnServer, ConnectInPanel, SidebarRequest, StartOrStopTimer, SwitchOrganization,
           ChangeConfiguration, LoseSocket
  <2> QED
    BY <2>1, WebappAssumption DEF Change, TypeOK, WebappAssumption
<1> USE DEF SwitchOnServer, ConnectInPanel, SidebarRequest, StartOrStopTimer, SwitchOrganization,
            ChangeConfiguration, LoseSocket
<1>2. configured' \in BOOLEAN /\ linked' \in BOOLEAN /\ running' \in BOOLEAN
  BY DEF TypeOK
<1>3. inbox' \in Seq(Events)
  <2>1. inbox \in Seq(Events)
    BY DEF TypeOK
  <2>2. ASSUME NEW e \in Events, Publish(e) PROVE inbox' \in Seq(Events)
    <3> HIDE DEF Events
    <3>1. Append(inbox, e) \in Seq(Events)
      BY <2>1, <2>2
    <3> QED
      BY <2>1, <2>2, <3>1 DEF Publish
  <2>3. /\ Event("connection", linked') \in Events /\ Event("connection", TRUE) \in Events
        /\ Event("timer", running') \in Events /\ Event("org", TRUE) \in Events
    BY <1>2 DEF Event
  <2> HIDE DEF Events
  <2>4. CASE SwitchOnServer
    BY <2>2, <2>3, <2>4
  <2>5. CASE ConnectInPanel
    BY <2>2, <2>3, <2>5
  <2>6. CASE StartOrStopTimer
    BY <2>2, <2>3, <2>6
  <2>7. CASE SwitchOrganization
    BY <2>2, <2>3, <2>7
  <2>8. CASE SidebarRequest \/ ChangeConfiguration
    BY <2>1, <2>8 DEF socket
  <2>9. CASE LoseSocket
    BY <2>9 DEF Events
  <2> QED
    BY <2>4, <2>5, <2>6, <2>7, <2>8, <2>9
<1>4. /\ UNCHANGED <<missed, locale, loaded, chrome, connected, panel, timer, org>>
      /\ online' \in BOOLEAN
  BY DEF TypeOK, session, socket
<1>5. loaded = "no" => UNCHANGED calls
  BY DEF TypeOK
<1>6. calls' \in [Calls -> Calling]
  <2>1. calls \in [Calls -> Calling]
    BY DEF TypeOK, Calling
  <2>2. CASE UNCHANGED calls
    BY <2>1, <2>2
  <2>3. ASSUME NEW c \in Calls, Goto(c, "connected") \/ Goto(c, "lost")
        PROVE  calls' \in [Calls -> Calling]
    BY <2>1, <2>3, GoesTo
  <2> QED
    BY <2>2, <2>3
<1>7. TypeOK'
  BY <1>1, <1>2, <1>3, <1>4, <1>6, TypesFrom DEF TypeOK
<1> QED
  BY <1>4, <1>5, <1>7, HeaderKept

LEMMA ChangeLocaleKeeps ==
    ASSUME TypeOK, HeaderInvariant, ChangeLocale
    PROVE  TypeOK' /\ HeaderInvariant'
<1> USE DEF ChangeLocale, socket, session
<1>1. changes' \in 0..MaxChanges /\ locale' \in Locales
  BY WebappAssumption DEF Change, TypeOK, WebappAssumption
<1>2. HeaderTypes /\ KnownButton
  BY DEF TypeOK, HeaderTypes, HeaderInvariant
<1>3. CASE ReplaceHeaderButton(locale') /\ loaded = "yes"
  <2>1. HeaderTypes' /\ KnownButton' /\ lastLocale' = locale'
    BY <1>1, <1>2, <1>3, Replaced
  <2>2. TypeOK'
    BY <1>1, <2>1 DEF TypeOK, HeaderTypes
  <2> QED
    BY <1>3, <2>1, <2>2 DEF HeaderInvariant, NothingBeforeInitialize, LanguageFollowed
<1>4. CASE UNCHANGED chrome /\ (loaded = "yes" /\ button # None => locale' = lastLocale)
  <2>1. TypeOK'
    BY <1>1, <1>4 DEF TypeOK, chrome
  <2> QED
    BY <1>4, <2>1 DEF HeaderInvariant, NothingBeforeInitialize, KnownButton, LanguageFollowed, chrome, At
<1> QED
  BY <1>3, <1>4

LEMMA UninitializeKeeps ==
    ASSUME TypeOK, HeaderInvariant, Uninitialize
    PROVE  TypeOK' /\ HeaderInvariant'
<1> USE DEF Uninitialize, socket
<1>1. changes' \in 0..MaxChanges
  BY WebappAssumption DEF Change, TypeOK, WebappAssumption
<1>2. HeaderTypes' /\ KnownButton' /\ button' = None
  BY Removed DEF TypeOK, HeaderTypes, HeaderInvariant
<1>3. TypeOK'
  BY <1>1, <1>2 DEF TypeOK, HeaderTypes
<1> QED
  BY <1>2, <1>3 DEF HeaderInvariant, NothingBeforeInitialize, LanguageFollowed

----------------------------------------------------------------------------
(* The theorems. *)

LEMMA InitHolds == Init => TypeOK /\ HeaderInvariant
<1> SUFFICES ASSUME Init PROVE TypeOK /\ HeaderInvariant
  OBVIOUS
<1>1. TypeOK
  <2>1. Idle \in Calling
    BY DEF Idle, Calling
  <2>2. calls \in [Calls -> Calling]
    BY <2>1 DEF Init
  <2>3. changes \in 0..MaxChanges /\ buttons \subseteq [id : Ids, locale : Locales]
    BY WebappAssumption DEF Init, WebappAssumption
  <2>4. inbox \in Seq([kind : {"connection", "timer", "org"}, value : BOOLEAN])
    BY DEF Init
  <2> QED
    BY <2>2, <2>3, <2>4 DEF Init, TypeOK, Calling
<1>2. HeaderInvariant
  BY DEF Init, HeaderInvariant, NothingBeforeInitialize, KnownButton, LanguageFollowed, At, Idle
<1> QED
  BY <1>1, <1>2

\* Types and the invariant of the header hold at every moment: no handler runs before
\* initialize, and none leaves the header with a button the plugin has lost track of.
THEOREM HeaderInvariantHolds == Spec => [](TypeOK /\ HeaderInvariant)
<1>1. TypeOK /\ HeaderInvariant /\ [Next]_vars => (TypeOK /\ HeaderInvariant)'
  <2> SUFFICES ASSUME TypeOK, HeaderInvariant, [Next]_vars
               PROVE  TypeOK' /\ HeaderInvariant'
    OBVIOUS
  <2>1. ASSUME NEW c \in Calls, Continue(c) PROVE TypeOK' /\ HeaderInvariant'
    BY <2>1, ContinueKeeps
  <2>2. CASE UNCHANGED vars
    <3>1. TypeOK'
      BY <2>2 DEF vars, TypeOK
    <3> QED
      BY <2>2, <3>1, HeaderKept DEF vars, chrome
  <2> QED
    BY <2>1, <2>2, InitializeKeeps, ReceiveKeeps, ReconnectKeeps, ServerChangeKeeps,
       ChangeLocaleKeeps, UninitializeKeeps DEF Next, Happen
<1> QED
  BY <1>1, InitHolds, PTL DEF Spec

\* Every variable of the tab keeps its type.
THEOREM TypesHold == Spec => []TypeOK
BY HeaderInvariantHolds, PTL

\* Whatever calls are in flight and in whatever order they return, the header holds the
\* one button the plugin knows of, in the language of the profile while it is loaded.
THEOREM OneButtonHolds == Spec => []OneButton
<1>1. TypeOK /\ HeaderInvariant => OneButton
  <2> SUFFICES ASSUME HeaderInvariant, loaded = "yes", NEW b \in buttons
               PROVE  b.locale = locale
    BY DEF OneButton, HeaderInvariant, KnownButton
  <2>1. b.id \in {x.id : x \in buttons}
    OBVIOUS
  <2>2. button # None
    BY <2>1 DEF HeaderInvariant, KnownButton
  <2> QED
    BY <2>2 DEF HeaderInvariant, KnownButton, LanguageFollowed
<1> QED
  BY <1>1, HeaderInvariantHolds, PTL
====
