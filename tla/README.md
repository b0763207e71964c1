# Verification of the Solidtime plugin for Mattermost

TLA+ models of the plugin's server and webapp, TLC runs that check them on small
instances, and TLAPS proofs of the results that hold for instances of any size.

    tlc -workers 2 -config MCConnection.cfg MCConnection     (and so on, see "Runs")
    tlapm ConnectionProofs.tla                               (and the other ...Proofs modules)

## The system

A Mattermost user connects the plugin to a Solidtime account with an API token and
tracks time in the right-hand sidebar of the webapp.

    browser tabs  <-- WebSocket events --  plugin server  --HTTP-->  Solidtime
      (webapp)     -- HTTP requests -->      (Go)
                                              |
                                       key-value store (Mattermost)

| component | state | operations | interacts with |
|---|---|---|---|
| Connection service (`server/connection/service.go`) | none of its own: a user's session is four keys | Connect, Disconnect, IsConnected, ListOrganizations, SetCurrentOrganization, ResolveOrgMember with its repair, the three events | store, Solidtime, every tab |
| Key-value store (`server/store/kvstore`) | token, organization, member ID, memberships of each user | one key read, written or deleted at a time; DeleteUserData deletes four | Mattermost |
| HTTP API (`server/api.go`), slash commands (`server/command`) | none | two middlewares and a handler a route; a goroutine a request, no lock | connection service, Solidtime |
| Solidtime client (`server/solidtime`) | none | single requests, two page loops | Solidtime |
| Lifecycle, configuration (`server/plugin.go`, `configuration.go`) | server URL, the client made from it | OnActivate, OnConfigurationChange | connection service |
| Webapp plugin (`webapp/src/index.tsx`, `connection_state.ts`) | connected flag, header button, last language | initialize, uninitialize, syncChrome, switchConnection, event and reconnect handlers | store, sidebar, header timer |
| Header timer (`channel_header_timer.tsx`) | `activeTimer` in the Redux store | stop, refreshActiveTimer | API, sidebar |
| Sidebar (`components/rhs/sidebar.tsx`, `org_selector.tsx`, `pagination_footer.tsx`) | organization, week, projects, entries, total, loading | three effects, refreshes, callbacks of form, cards, footer, selector | API, Redux store |
| Entry form (`time_entry_form.tsx`, `utils/entry_mode.ts`) | the draft, `submitting`; the mode in the Redux store and in local storage | fields, mode, submit, start or stop the timer, completion by an earlier entry | API, sidebar, other tabs |
| Project selector (`project_selector.tsx`, `utils/favorites.ts`) | dropdown, search, expanded project, focus; favorites in local storage | search, arrow keys, pick a task, toggle a favorite | form, cards, sidebar, other tabs |
| Times of the form (`utils/time.ts`) | none | parseTime, defaultFormTimes, nextFormTimes | form, time fields |
| Entry card with its pair of time fields (`time_entry_card.tsx`, `time_range_input.tsx`), list | fields, their focus, what was saved last | type, leave a field, Enter, pick a day or a project, delete | API, sidebar |
| Weeks, grouping, popovers, texts | none to speak of | conversions, layout | - |

What is hard here:

* Handlers of one user run concurrently and a session is four keys, written one at a
  time. No lock, no transaction.
* A handler changes Solidtime, reads the active entry, publishes it and answers:
  four steps which interleave with those of other handlers. Events reach a tab in
  order; answers come in any order, also relative to events.
* The tabs await answers and use what they knew before: the connection, the
  organization, the week, the timer.
* The process may die, the store and Solidtime may fail at each step, a WebSocket may
  be down while events are published, an administrator may take the server URL away.
* A list is read page by page while it changes.
* A form outlives its requests or is outlived by them; the mode and the favorites are in
  local storage, which every tab writes and none watches.

What makes each part correct: the four keys are one session of one account and no
handler works with a part of one; the tabs know whether the user is connected, and
what timer runs; the header holds one button; the sidebar ends up with the lists
of what it names; a load reads its list whole; the form fills in times that follow each
other, adds an entry once and goes on after every answer; a text means one time; the
choice of a project and a task is one there was. PROJECT.json lists the hazards
line by line, with the properties that would catch them or the reason why none does. Several
are things the code does, that of writers that overlap above all: the model does them too, and
a property that excludes them by its condition is not listed as covering them.

## Modules

| module | models | checked by |
|---|---|---|
| `Connection` | the connection service and the store, for one user | MCConnection |
| `ConnectionHistory` | its history variables and its properties | MCConnection |
| `ConnectionInvariant`, `ConnectionProofs` | the inductive invariant; the proofs | MCConnection, tlapm |
| `SessionRegister` | what handlers and tabs rely on: one register of whole sessions that one operation at a time changes; implemented by Connection | MCConnection, tlapm |
| `TimerSync`, `TimerHistory` | the running timer in Solidtime, the handlers and any number of tabs | MCTimer |
| `TimerProofs` | the inductive invariants; the proofs | tlapm |
| `WebappPlugin` | one tab's plugin object: button, connection, events | MCWebapp |
| `WebappProofs` | the inductive invariant; the proofs | tlapm |
| `Sidebar`, `SidebarHistory` | one tab's sidebar and the server's part in it | MCSidebar |
| `SidebarProofs` | the inductive invariants; the proofs | tlapm |
| `Paging`, `PagingProofs` | the two page loops; the proofs | MCPaging, tlapm |
| `ListRead` | what the callers of the loops rely on: a reader that gets one answer at one moment; implemented by Paging | MCPaging, tlapm |
| `EntryCard`, `EntryCardHistory` | one entry, its card with the fields, its requests and the reloads of the list | MCEntryCard |
| `EntryCardProofs` | the inductive invariants; the proofs | tlapm |
| `ClockTime` | the times of the form as pure operators, and how times are written as their reference | MCEntryForm |
| `EntryForm`, `EntryFormHistory` | the form, its mode, its requests and the timer, as other tabs change them; extends ClockTime | MCEntryForm |
| `EntryFormProofs` | the inductive invariants; the proofs, and lemmas on how texts are read | tlapm |
| `ProjectSelector` | the choice of a project and a task, the dropdown, the favorites of all tabs | MCProjectSelector |
| `ProjectSelectorProofs` | lemmas on joined and filtered sequences, the inductive invariant, the proofs | tlapm |

The `...History` modules compose a component with history variables that no action of
the component reads: they say which requests overlapped or were disturbed, so
that a property can state exactly what the code promises and no more. Definitions
whose comment starts with "Mutant:" are broken variants of the definition after them;
each is the body of a mutation that makes a named property fail, and no
specification uses them.

### Connection

`token`, `orgID`, `memberID`, `memberships` are the four keys of `kvstore/store.go`,
`told` is the connection event the tabs saw last, `plugin` says whether there is a
server URL and a client, and `req[r]` is a goroutine: what it is doing (`pc`) and its
local variables. Each store operation and each call to Solidtime is one action, so
`Connect` of the code is ConnectFetch, ConnectPreviousOrg, ConnectSaveMemberships,
SetOrgID, SetMemberID, ConnectSetToken and Announce, in that order. StoreError and
SolidtimeError end the request at any step that can fail, ProcessDies ends all of
them, ClearServerURL and SetServerURL are the configuration hook, NilClient is the
call through a client that the hook has set to nil, which ends the process.

Abstractions: one user, since every key carries the user ID; a token stands for its
account, and a member ID is the pair of account and organization; Solidtime may answer
another list of organizations each time; GetMe and GetMemberships are one step
(both only read, and an error of either ends Connect); the handlers of entries and
projects are a session and one call; the session starts empty or, with `Legacy`, as the
partial session the tests repair.

`SessionRegister` has no keys and no requests: a session is there, whole, or is not, an
operation settles it with its first write, and the tabs hear of it when the operation ends.
In `ConnectionHistory` the four keys are mapped to it: `Stored` is the session in the keys
while no writer is half-way, `Goal` the one the half-way writer is writing, `Status` which
operation that is, or that the register is torn (`tainted`: writers overlapped or one stopped
half-way). `ActsAsRegister == Register!Spec` is a property of the run and a theorem.

### TimerSync

`running` is the entry without an end that Solidtime has, `shown[t]` the
`activeTimer` of tab t, `inbox[t]` the timer events on their way, `calls` the
requests: a start, a stop, an edit that leaves the running entry alone, a poll. A
handler is CreateTimeEntry or another change, GetActiveTimeEntry, PublishTimerChange,
Answer, each with its failure. One organization; entries are numbers; the times of
entries are left out.

### WebappPlugin

One tab. The actions are the stretches of code between two awaits, so a language
change, an event or uninitialize falls between them. The header's buttons are a set, as
Mattermost's registry keeps them; `button` is the identifier the plugin remembers.
Unregistering a button runs the locale subscription in the middle of
`registerHeaderButton`; the code clears the identifier first and sets
`updatingHeaderButton`, so the nested call returns at once and the replacement is
one step. Left out: opening and hiding the sidebar. The model has the behaviour that
a status answered after `uninitialize` registers a button of a disabled plugin; no
property forbids it.

### Sidebar

One tab, with the part of the server it needs: the session's organization, the
changes of entries made so far, and the events. A list is not its contents but
where it was read (organization, week) and which changes it reflects. A request is
sent, read by one or more steps on the server (a load reads projects, then entries and
total in either order) and answered. `live` is the `cancelled` flag of the two effects that
have one; the other requests write their answer unconditionally, for the week of the
render they come from. Re-renders and effects that follow a change of state are part of
the step that makes it. When a load hits `not_connected`, React may or may not have
cancelled it before its `finally`: both outcomes are possible.

### Paging

`NextPage` is one round of GetAllTimeEntries (an offset; a short page is the last) or
of fetchAllPages (a page number; the last page has no link to a next one). Between
rounds the list gains, loses or moves an item anywhere. A failed page fails the load.

`ListRead` has no pages: the list changes, and at one moment the reader gets an answer or an
error. `Faithful` is all its callers may expect: a quiet list as it is, up to the limit; a
growing one without a gap; a shrinking one without repetition. `Abstract` in Paging is the
refinement mapping (what was read is hidden until the load is done, the limit is the ceiling
in items), and `ReadsAtOnce == Abstract!Spec` is a property of the run and a theorem.

### EntryCard

`entry` is Solidtime's, `listed` the one in the sidebar's list, and `card` the state of the
component: `saved`, the fields, `saving`, the focus and what was in the field when it got
the focus. The fields are taken from the entry once, when the card is made; a reload of
the list unmounts the cards ("Loading..."), and what a request of an unmounted card
answers goes to the list only (`mine`). The fields hold the day of the start and two clock
times, so an entry that ends on the next day or holds seconds does not survive a save of
its times, and the end of such an entry may look earlier than its start. A timer stopped at
once leaves an entry whose two times read the same; the fields show it, and their commit
takes it for an end that is not after its start. A save disables
the text fields, not the project selector and the calendar: saves overlap. A text in a
time field is the time `parseTime` gives it, or none; clock times are small
numbers, in the order of the day.

### EntryForm and ClockTime

`form` is the state of the component: description and choice as far as they are there, the
day, the two times, the focus with what the field held when it got it, and `submitting`.
`mode` and `timer` are in the Redux store and outlive the form, `saved` is the mode in local
storage. `calls` are the requests, an answer of which reaches the form that sent it (`mine`)
or nobody: NewForm is the remount that a change of organization, or the sidebar closed and
opened, causes (`key` in sidebar.tsx:200). A request is served or refused, and one that was
served may still end in an error. The day of an entry that was added comes back with the
answer, since the continuation has the `date` of the render that submitted. The form hands
TimeRangeInput no `onCommit`, so Enter and leaving a field only normalize.

Times are minutes of the day. `ParseTime` is the code's parser on texts of digits, `:` and
`.` (filterTimeInput lets nothing else through but the comma, read as the point, and no more
than eight symbols): where the marks are tells which of the code's patterns the text matches,
and `Number` is parseInt of a piece of it. `Writings(h, m)` says the other way round how a time
may be written. Of three and more
decimals `parseFloat` may round a half either way, so those texts are not compared.

### ProjectSelector

`catalogue` is what the sidebar hands over and replaces while the dropdown is open,
`stored` the favorites in local storage and `favorites` what the tab shows, read whenever
the dropdown opens or closes. `at` is the element with the focus, which the highlighted
option follows. A row React makes anew in another group loses the focus (`Rendered`): a
favorite that is toggled has left its group, and the arrow keys rest until a click or
a tab. Which projects and tasks a text finds is a constant of the instance. What is rendered
is a pure operator of catalogue, favorites, text and expanded project (`OptionsOf`), as the
code's memos are. ChooseEntry is
the completion of the description, which takes project and task from an entry in the list.

## Runs

| run | question | instance | result |
|---|---|---|---|
| conn_concurrent | Is the session coherent under interleaving, store failures and crashes? | 2 requests, 2 accounts, 2 organizations, memberships of 2 shapes | TypeOK, SessionInvariant, SessionCoherent, AnnouncedTruth, ResolvedComplete, ResolvedSnapshot, SwitchComplete hold; Connection implements SessionRegister (ActsAsRegister) |
| conn_serial | What do crashes and failures at every step do to requests one after the other, and do requests end? | 1 request at a time, every kind, every fault, lists of 0 to 2 organizations in any order | TokenBacked, RequestsFinish hold |
| timer_sync | Does one undisturbed request bring the tabs back in line? | 2 tabs, 2 requests at a time, 5 in all, all faults | TypeOK, HealedByOneRequest hold |
| webapp | Is the button kept right, and does a disconnect reach the tab? | 2 calls, 2 languages, 3 changes, all faults | TypeOK, OneButton, DisconnectHeard hold |
| sidebar | Do overtaken loads leave the right lists, and does loading end? | 2 organizations, 2 weeks, 2 requests, 3 changes, all faults | TypeOK, ListsCurrent, LoadingEnds hold |
| paging | Do the loops read what is there? | lists up to 6 items, 2 a page, ceilings of 2 and 3 pages, 2 changes | TypeOK, LoadComplete, NothingLost, NothingTwice, MissedAtMostOnePerChange, LoadInvariant hold; Paging implements ListRead |
| entry_card | Does a card show what is saved, and never save half a pair of times? | entries of 3 clock times on 2 days, 2 changes by the user or elsewhere, reloads, all faults | TypeOK, TimesComplete, CardShowsEntry hold |
| entry_form | Are the times of the form usable, entries added once, the mode and the buttons right? Are texts read as the times they write? | 2 requests at a time, 3 in all, 2 events elsewhere, forms made at 9:58 and 23:07, texts of up to 5 of 7 symbols | TypeOK, TimesComplete, PrefillSubmittable, AddsInARow, ParseAgrees, ModeKeptWhileRunning, SubmitEnds hold |
| project_selector | Do the arrow keys reach every option, is the choice sound, are favorites kept? | 3 projects in 3 catalogues, 2 searches, 2 changes elsewhere | TypeOK, ArrowsReachEveryOption, ChoiceOffered, FavoritesKept hold |
| doc_member_org | Does the member ID always belong to the selected organization? | 2 overlapping requests | violated |
| doc_timer_sync | Are the tabs always in sync once all is delivered? | 2 tabs, no fault | violated |
| doc_sidebar_lists | Is the list that of the week and organization shown? | 1 organization, 2 weeks, no fault | violated |

Bounds. Two requests are what the properties of Connection relate (each names a
request and the others); the proofs remove the bound. Two organizations and two accounts
are the least that can be confused. In TimerSync five requests allow two overlapping
ones to put the tabs out of line, one more to disturb and one to heal them. `MaxChanges`
counts what users do and what goes wrong, not the steps that follow: three changes are a
load, one that overtakes it and one fault, or a disconnect, a late answer and a fault.
`MaxCalls` and `MaxChanges` are the only bounds on counters; because of them those runs
end, and their configurations switch the deadlock check off. Connection has none and is
checked for deadlock. Paging's page sizes and ceilings are scaled down from 100 entries a
page and ceilings of 5 and 10 pages; lists of up to six items end before, on and after the
border of a page and of the ceiling. EntryCard's three clock times are what a pair needs to
be edited at either end, and two changes are what it needs for two saves to overlap, or for
one to be healed by a reload. EntryForm's three requests (`MaxAsks`) are an entry, the next
one after it and a try after an error; its two events (`MaxEvents`) are a mode or a timer
changed elsewhere and the form made anew after it. The two openings lie before and in the
last hour of the day; all 1440 times are written and parsed. ProjectSelector's three
projects make two groups of clients beside the favorites, one of two rows, and a task moves
from one project to another. Symmetry is used in runs without liveness only.

Fairness. Connection: a goroutine is scheduled and its calls return (the HTTP client has
a timeout of 30 s), so weak fairness of each request's steps; nothing is assumed of
arrivals, crashes or the administrator. WebappPlugin and Sidebar: a request of the browser
ends, with an answer or an error; events on an open WebSocket are delivered; the client of
Mattermost keeps reconnecting. EntryForm: a request of the browser ends. Nothing is assumed
of the user or of other tabs.

What the less obvious properties say:

* **SessionCoherent, AnnouncedTruth.** Overlapping writers do mix sessions (see the
  findings), so they speak of the moments when no write sequence is open and none
  overlapped or was cut short since the last connect or disconnect that ran
  undisturbed. `tainted` is that condition.
* **ActsAsRegister.** It binds the steps, not only the states: a Connect that is alone writes
  the session it began with and nothing else in between, its end announces just that
  session, a switch never leaves the account, a step of a reader changes nothing, and what is
  torn stays so until a connect or disconnect that nobody disturbs.
* **TokenBacked.** Connect writes the token last and DeleteUserData deletes it first, so a
  crash between two writes never leaves a token without the rest of its session.
* **ResolvedSnapshot.** Reading three keys one by one adds up to the stored session
  unless another request wrote meanwhile.
* **HealedByOneRequest.** The tabs do drift apart; one request made while nothing else is
  under way, and not disturbed, brings every tab it informs back to the entry that
  is running. A stop that is carried out but whose event is dropped informs the tab that asked
  for it and no other.
* **DisconnectHeard.** A late status may connect a tab again after the disconnect; the
  request for the timer that follows is refused and disconnects it. The tab misses it only
  if that request fails for another reason (`missed`).
* **ListsCurrent.** `fresh` says how much must be current: everything after a load made
  while nothing could disturb it, entries and total after a refresh.
* **CardShowsEntry.** `sound` says when a card must show the entry: no overlap of requests,
  no failure after the change was made, no failed reload, no change elsewhere, and the pair of
  time fields not left by one that holds no time (PairLeftOpen); a reload that is
  alone makes up for all of them. Overlaps, failures and PairLeftOpen are left in the model:
  after them the card really may differ. For PairLeftOpen docs/UI.md:162 says that
  both fields are saved when focus leaves the pair; `blurEnd` saves nothing when its
  own text is no time, and what the other field shows stays unsaved.
* **TimesComplete.** Whatever way the focus takes, a field that it left holds a time again, in
  a card and in the form.
* **MissedAtMostOnePerChange.** Offsets move under a load when items are removed; one removal
  or move hides at most one item.
* **PrefillSubmittable.** Two cases are excluded because the code has them: a form made after
  23:00 (its end is past midnight and reads as a time before its start) and an entry that
  ends at 23:59 (the next one begins and ends there).
* **AddsInARow.** An error can come after Solidtime made the entry, and the draft stays, so a
  second try makes it twice: `errors` is how often the user was warned. Without a second
  request the guard `submitting` is all that prevents it.
* **ModeKeptWhileRunning.** A form made anew takes a running timer before the saved mode. A
  timer that starts elsewhere while the form is in the manual mode leaves it there, against
  docs/UI.md:111 ("Manual mode unavailable while the timer is running"), so the property
  begins with the timer mode.
* **FavoritesKept.** The toggle reads local storage again before it writes, so a tab with an
  old list takes nothing back that another one did; its star may be toggled the other way.

## Findings

Three statements of the documentation do not hold of the code; each is the one
property of a run and quoted in PROJECT.json:

1. `MemberOfSelectedOrg`: two overlapping writers leave one organization beside the
   member ID of another, and nothing repairs the pair.
2. `TabsInSync`: the answer to a start is applied after the event that the timer was
   stopped in another tab.
3. `ListsOfSelection`: the refresh after a new entry replaces the list of another week
   that the user has moved to.

Others are behaviours of the models that no run is spent on. They are noted with the hazards:
the repair of an old session takes the first organization when the stored one is not in the
list (docs/ARCHITECTURE.md:120); the answer to a request for the active entry is applied
after the disconnect and shows a timer (docs/SPECIFICATION.md:84); a pair of time fields left
by one that holds no time stays unsaved (docs/UI.md:162); the answer to a submit puts back
the day over one picked meanwhile (docs/UI.md:185); a timer started elsewhere leaves the
form in the manual mode (docs/UI.md:111).

## Proofs

Every invariant and every action property of the runs is a theorem, and so are the two
refinements: for
any sets of requests, tabs, tokens, organizations, weeks, lists, catalogues and texts, any
faults, and any value of the bounds that TLC needs. What is assumed of the constants is named
in the module that declares them and evaluated by TLC on every run: bounds are numbers, None
is none of the values it stands beside, and the few facts listed below.

| module | theorems | assumed besides |
|---|---|---|
| `ConnectionProofs` | InvariantHolds, TypesHold, SessionCoherence, AnnouncementsTrue, NoPartialSession, SessionIsSnapshot, SwitchesComplete, TokenBackedHolds, SessionIsRegister | an answer of Solidtime lists no organization twice; None is not a session |
| `TimerProofs` | TypesHold, HealedHolds | - |
| `WebappProofs` | HeaderInvariantHolds, TypesHold, OneButtonHolds | - |
| `PagingProofs` | LoadInvariantHolds, TypesHold, LoadsComplete, AdditionsLoseNothing, RemovalsRepeatNothing, ChangesHideOneEach, PagesReadAtOnce | page size and ceilings are positive |
| `SidebarProofs` | TypesHold, FreshInvariantHolds, ListsCurrentHolds | - |
| `EntryCardProofs` | TypesHold, TimesCompleteHolds, ShowsHolds | - |
| `EntryFormProofs` | TypesHold, TimesCompleteHolds, ModeKept, PrefillHolds, RowHolds, ParseAgreesHolds | openings are minutes of the day, texts are what filterTimeInput lets through: digits, colons and points, eight at most |
| `ProjectSelectorProofs` | TypesHold, ChoiceOfferedHolds, ArrowsReachHolds, FavoritesKeptHolds | a search finds projects there are; for ArrowsReachHolds, no catalogue lists a project or one of its tasks twice |

Each invariant was first checked by TLC on an instance like that of its run, then proved
inductive, one step per action (ParseAgrees, which has no steps, is proved of all texts). None of
the properties is inductive as it stands; what the
invariants add is the argument why the code is right.

**Connection.** SessionCoherent says nothing of a request half-way through its writes.
`SessionInvariant` adds, for each step of a request's code, which kind of request can be
there (KindOfStep), what its local variables hold (LocalsOfStep), what the store holds if no
one else wrote since it arrived (StoreAgrees), that at most one untainted writer is half-way
(HistoryOK), and what is in order while it is (PairPending). One lemma per group of steps
is for the request that moves (`...KeepsOwn`), one says that the others keep theirs because
they become stale (OthersKeep), and one per group of steps is for the shared part
(SessionUntouched, SessionReplaced, SessionWritten). TokenBacked is about requests made one
after the other, which TokenBackedHolds states as its hypothesis: then no request is ever
stale (NothingStale), StoreAgrees tells what each write finds, and StepKeepsBacked follows
the writes of Connect, Disconnect, a switch and the repair one by one.

SessionIsRegister rests on `Shown`, which follows from SessionInvariant: in a register that
is not torn, the one writer half-way is the operation under way and its `Goal` the session,
and what requests are about to write is a whole session of their token, or none. Then each
step is one of the register's: one that taints is Tear; the end of an undisturbed connect or
disconnect on a torn register is Mend (ReplaceMends); a first write is StartConnect,
StartDisconnect or Select; a later one is a stutter (WriteGoesOn); the last leaves in the
keys what the request aimed at and, with the announcement, is End (WriteEnds); all other
steps change nothing of the register.

**TimerSync.** TypeOK needs a count: entries are numbered as they are made, and `TypeInvariant`
says that there are no more of them, those on their way included, than requests and
outside changes. `SettledInvariant` is what HealedByOneRequest rests on: from the request
that settles the tabs on, no other is in flight, at most one event is on its way to
a tab, and `Settling` says for each step of that request which of the tabs will have
converged once its event or its answer is there. When the event of a stop is dropped
(ErrorSettles) nothing runs, and the answer clears the timer of the one tab that is left.

**WebappPlugin.** `HeaderInvariant`: the one button in the header is that whose identifier the
plugin keeps, in the language it registered last (KnownButton), and a loaded plugin has heard
of every change of the language (LanguageFollowed).

**Paging.** The properties speak of the end of a load; LoadInvariant says what holds after each
page: what was read is the list up to the offset (ReadSoFar), what stood in the list is
read or lies ahead (KeptOrAhead), nothing read lies ahead (NotAgain), and no more items
are missed than changes were made (FewMissed). PagesReadAtOnce is the refinement: the first
state maps to a first state of ListRead; a page that is not the last is a stutter, the last
one is Answer, where the properties together are Faithful; a change of the list is Change,
and a failed page Fail.

**Sidebar.** `FreshInvariant`: while the sidebar must be current in the end (`fresh`), one request
at most can still change it; all others are `Over`, cancelled or about an organization an event
already names. That request is of the organization and the week on the screen, and what it
has read so far is what it will show (`Keeps`, one case for each kind of request). With
none under way the sidebar is current, but for an organization that the events on their way
lead to (InboxLeads). One lemma per action carries this over; SidebarProofs is the longest
of the proofs because a request may be answered, overtaken, cancelled and refused at each of
its steps.

**EntryCard.** `CardInvariant`: the field that may hold no time has the focus, and what it
held is kept (FocusKept); requests carry whole pairs of times (Carries). `SoundInvariant`: while
nothing made the card unsound, at most one request is in flight, and InFlight says for each
of its steps what card, list and entry are to each other.

**EntryForm.** `FormInvariant` is FocusKept of the form, with the request the form waits for
(Mine); `PrefillInvariant` that the times the form filled in are times at all; `RowInvariant` that
the draft follows on the last entry, or is that entry after an error that was shown and is not
answered with another try, or is being added (Unknown).

ParseAgreesHolds is about texts alone. Numbers and their numerals come first: a numeral of a
number below a hundred, with leading zeros or without, is read as that number (NumeralRead), and
digits that make such a number are a numeral of it (NumeralWritten). ReadDigits to ReadColons say
what ParseTime reads in each shape of a text, ReadOnly that there are no others. From these, each
form of `Writings` is read as its time (WritingsAreRead), and a text that is read as a time is
cut at its marks into the numerals of a writing (ReadingIsWritten), decimals included: 3x - 5m
is between -2 and 2 just when x hundredths of an hour are rounded to m minutes.

**ProjectSelector.** What the dropdown shows is computed by `FlattenSeq`, a recursive function
of the community modules, here for sequences of any length. The proofs go down to that
recursion: its function exists (PrefixExists), by induction over the length, which is done
through the least counterexample since the order of the natural numbers is well founded
(Least, Induct). From there FlattenParts, FlattenInjective, KeptParts and ByClientParts say
what joining, filtering and grouping keep; OptionsParts says that the options are the buttons of the
projects that match, each once, whatever the favorites. The invariant adds to TypeOK and
ChoiceOffered that a task with the focus has been in a catalogue under its project
(FocusOffered): a reload may take it from there before Enter picks it. ArrowsReachHolds
unfolds the walk in the property itself: after i steps from place k the focus is i places
further around (WalkedIs), and there is one such walk (OneWalk). The ids of Solidtime are
unique; a list read page by page while an item is added could still name a project twice
(NothingTwice of Paging is about lists that shrink), and the selector's rows, keyed by id, are
not defined then.

Only model-checked: liveness (RequestsFinish, DisconnectHeard, LoadingEnds, SubmitEnds), which is
out of the prover's reach.

## Not modelled

* The week range and grouping by day (calendar arithmetic and layout), translations, the
  build programs.
* The HTTP transport, JSON, and the parsing of the slash command's text.
* Days of 23 or 25 hours: `nextFormTimes` and `toUTCISO` follow the browser's clock, the models
  know days of 1440 minutes.
* How well a text matches a name (Fuse), positions and scrolling of popovers, the ticking of the
  timer's display, the token field and the first status of the connect panel.
* Overlapping configuration hooks: Mattermost calls them one after another.
* The organization of a running timer: a stop uses the session's, and what Solidtime answers for
  an entry of another one is not in this code.
