---- MODULE EntryCard ----
(***************************************************************************)
(* One entry of the sidebar's list and the card that edits it: the fields  *)
(* of the card, the pair of time fields with its focus, the saves that are *)
(* in flight, and the reloads of the list, which take the card away and    *)
(* make it anew.                                                           *)
(*                                                                         *)
(* A card takes its fields from the entry once, when it is made.  While a  *)
(* save is in flight its text fields are disabled, the project selector    *)
(* and the calendar are not: saves overlap and their answers come in any   *)
(* order.  A field that is disabled loses the focus without an event.      *)
(*                                                                         *)
(* A text in a time field is the time it is parsed to, or none.  The       *)
(* billable toggle is a selector that is disabled during a save.           *)
(***************************************************************************)
EXTENDS Naturals

CONSTANTS
    Descriptions, Projects, Days,
    LastClock,    \* the clock times are 0..LastClock
    Calls,        \* slots for the requests the sidebar has in flight
    MaxChanges,   \* bound: requests of the user and changes elsewhere
    Faults,       \* a subset of AllFaults
    None          \* an empty description, no time, no entry, no card

AllFaults == {"error", "elsewhere"}

VARIABLES
    entry,     \* Solidtime's entry
    listed,    \* the entry in the list the sidebar holds
    loading,   \* the list area shows "Loading..."
    card,      \* the state of the card
    calls,     \* the requests in flight
    changes    \* how much was asked for

vars == <<entry, listed, loading, card, calls, changes>>

Clocks == 0..LastClock

Moment(d, c) == [day |-> d, clock |-> c]

Moments == [day : Days, clock : Clocks]

\* whole: start and end are whole minutes.
Entries ==
    [description : Descriptions \cup {None}, project : Projects,
     start : Moments, end : Moments, whole : BOOLEAN]

\* The state of a card.
Cards ==
    [saved : Entries,
     fields : [description : Descriptions \cup {None}, project : Projects, day : Days,
               start : Clocks \cup {None}, end : Clocks \cup {None}],
     saving : BOOLEAN,
     focus : {"none", "description", "start", "end"},
     atFocus : Clocks \cup Descriptions \cup {None}]

CardAssumption ==
    /\ LastClock \in Nat
    /\ MaxChanges \in Nat
    /\ Faults \subseteq AllFaults
    /\ None \notin Descriptions \cup Projects \cup Days \cup Nat
    /\ None \notin Entries \cup Cards

ASSUME CardAssumption

\* fromUTC: the day of the start alone, and no seconds.
Fields(e) ==
    [description |-> e.description, project |-> e.project, day |-> e.start.day,
     start |-> e.start.clock, end |-> e.end.clock]

\* A new card.  atFocus is what the two time fields, or the description, held when they
\* got the focus.
CardOf(e) ==
    IF e = None THEN None
    ELSE [saved |-> e, fields |-> Fields(e), saving |-> FALSE, focus |-> "none", atFocus |-> None]

Idle == [pc |-> "idle", kind |-> "none", patch |-> None, old |-> None, mine |-> FALSE, result |-> None]

\* An entry ends after it starts, on its day or the next one; a timer that is stopped at once
\* leaves one whose start and end the fields show as the same minute.
Init ==
    /\ entry \in Entries
    /\ entry.start.day = entry.end.day => entry.start.clock <= entry.end.clock
    /\ listed = entry
    /\ loading = FALSE
    /\ card = CardOf(entry)
    /\ calls = [c \in Calls |-> Idle]
    /\ changes = 0

Change == changes < MaxChanges /\ changes' = changes + 1

At(c, kind, step) == calls[c].pc = step /\ calls[c].kind = kind

\* The card k after a save is begun, and the request.
Save(k, patch) ==
    /\ Change
    /\ card' = [k EXCEPT !.saving = TRUE, !.focus = "none"]
    /\ \E c \in Calls :
          /\ calls[c].pc = "idle"
          /\ calls' = [calls EXCEPT ![c] =
                [Idle EXCEPT !.pc = "ask", !.kind = "save", !.patch = patch, !.old = k.saved, !.mine = TRUE]]

Keep(k) == card' = k /\ UNCHANGED <<calls, changes>>

\* The card k when the focus goes to field to, or nowhere.
Goto(k, to) ==
    IF to = k.focus THEN k
    ELSE [k EXCEPT !.focus = to, !.atFocus = IF to = "none" THEN None ELSE k.fields[to]]

----------------------------------------------------------------------------
(* The fields of the card. *)

\* revertFromSaved.
Reverted(k, e) == [k EXCEPT !.fields = Fields(e)]

\* commitDescription; the focus goes to field to unless the save disables it.
CommitDescription(to) ==
    LET text == card.fields.description
    IN  \/ text = None /\ Keep(Goto([card EXCEPT !.fields.description = card.atFocus], to))
        \/ text # None /\ text = card.saved.description /\ Keep(Goto(card, to))
        \/ text # None /\ text # card.saved.description /\ Save(card, [description |-> text])

\* commitTime of what the fields of k hold.
CommitTime(k, to) ==
    LET start == Moment(k.fields.day, k.fields.start)
        end == Moment(k.fields.day, k.fields.end)
        valid == None \notin {start.clock, end.clock} /\ start.clock < end.clock
        same == start = k.saved.start /\ end = k.saved.end /\ k.saved.whole
    IN  \/ ~valid /\ Keep(Goto(Reverted(k, k.saved), to))
        \/ valid /\ same /\ Keep(Goto(k, to))
        \/ valid /\ ~same /\ Save(k, [start |-> start, end |-> end, whole |-> TRUE])

\* Mutant: a text that is no time stays where it is.
NormalizedBare(k, f) == k

\* A text that is no time gives way to what was there.
Normalized(k, f) == IF k.fields[f] = None THEN [k EXCEPT !.fields[f] = k.atFocus] ELSE k

\* blurStart, blurEnd: the pair is saved when the focus leaves it, if the field it leaves
\* holds a time.
LeaveTime(f, to) ==
    IF to \in {"start", "end"} \/ card.fields[f] = None
    THEN Keep(Goto(Normalized(card, f), to))
    ELSE CommitTime(Normalized(card, f), to)

\* commitStart, commitEnd.
EnterTime(f) ==
    IF card.fields[f] = None THEN Keep(Normalized(card, f))
    ELSE CommitTime(Normalized(card, f), f)

----------------------------------------------------------------------------
(* The user. *)

Untouched == UNCHANGED <<entry, listed, loading>>

Focused(f) == card # None /\ card.focus = f

\* A click into a field or out of it, or a tab.
MoveFocus ==
    /\ \E to \in {"none", "description", "start", "end"} :
          \/ /\ Focused("none") /\ to # "none" /\ ~card.saving
             /\ Keep(Goto(card, to))
          \/ Focused("description") /\ to # "description" /\ CommitDescription(to)
          \/ \E f \in {"start", "end"} : Focused(f) /\ to # f /\ LeaveTime(f, to)
    /\ Untouched

Type ==
    /\ \/ /\ Focused("description")
          /\ \E text \in Descriptions \cup {None} :
                Keep([card EXCEPT !.fields.description = text])
       \/ \E f \in {"start", "end"}, c \in Clocks \cup {None} :
             /\ Focused(f)
             /\ Keep([card EXCEPT !.fields[f] = c])
    /\ Untouched

Enter ==
    /\ \/ Focused("description") /\ CommitDescription("description")
       \/ \E f \in {"start", "end"} : Focused(f) /\ EnterTime(f)
    /\ Untouched

\* The calendar, the selector of projects: not disabled by a save.
PickDay ==
    /\ Focused("none")
    /\ \E d \in Days : CommitTime([card EXCEPT !.fields.day = d], "none")
    /\ Untouched

SelectProject ==
    /\ Focused("none")
    /\ \E p \in Projects : Save([card EXCEPT !.fields.project = p], [project |-> p])
    /\ Untouched

ConfirmDelete ==
    /\ Focused("none") /\ ~card.saving
    /\ Change
    /\ card' = [card EXCEPT !.saving = TRUE]
    /\ \E c \in Calls :
          /\ calls[c].pc = "idle"
          /\ calls' = [calls EXCEPT ![c] = [Idle EXCEPT !.pc = "ask", !.kind = "delete", !.mine = TRUE]]
    /\ Untouched

\* Mutant: the card is gone, its requests still answer to it.
CardGoneListening(cs) == cs

\* The requests cs after the card is gone: their answers find it no more.
CardGone(cs) == [c \in Calls |-> [cs[c] EXCEPT !.mine = FALSE]]

Done(c) == [calls EXCEPT ![c] = Idle]

\* refreshEntries in slot c: the list gives way to "Loading...".
Refresh(c) ==
    /\ loading' = TRUE /\ card' = None
    /\ calls' = CardGone([calls EXCEPT ![c] = [Idle EXCEPT !.pc = "ask", !.kind = "refresh"]])

\* The form adds another entry, or the timer ends.
Reload ==
    /\ Change
    /\ \E c \in Calls : calls[c].pc = "idle" /\ Refresh(c)
    /\ UNCHANGED <<entry, listed>>

----------------------------------------------------------------------------
(* The plugin server and Solidtime. *)

Outcomes == {"answer"} \cup (IF "error" \in Faults THEN {"failed"} ELSE {})

\* Only what the patch names is changed.  The request may fail when that is done.
UpdateTimeEntry(c) ==
    /\ At(c, "save", "ask") /\ entry # None
    /\ LET patch == calls[c].patch
       IN  entry' = [f \in DOMAIN entry |-> IF f \in DOMAIN patch THEN patch[f] ELSE entry[f]]
    /\ \E pc \in Outcomes : calls' = [calls EXCEPT ![c].pc = pc, ![c].result = entry']
    /\ UNCHANGED <<listed, loading, card, changes>>

DeleteTimeEntry(c) ==
    /\ At(c, "delete", "ask") /\ entry # None
    /\ entry' = None
    /\ \E pc \in Outcomes : calls' = [calls EXCEPT ![c].pc = pc]
    /\ UNCHANGED <<listed, loading, card, changes>>

GetTimeEntries(c) ==
    /\ At(c, "refresh", "ask")
    /\ calls' = [calls EXCEPT ![c].pc = "answer", ![c].result = entry]
    /\ UNCHANGED <<entry, listed, loading, card, changes>>

\* An entry that is gone, or another error.
Refuse(c) ==
    /\ calls[c].pc = "ask"
    /\ "error" \in Faults \/ (entry = None /\ calls[c].kind # "refresh")
    /\ calls' = [calls EXCEPT ![c].pc = "failed"]
    /\ UNCHANGED <<entry, listed, loading, card, changes>>

\* Another tab changes the entry or deletes it; nothing tells the list.
EditElsewhere ==
    /\ "elsewhere" \in Faults
    /\ Change
    /\ entry # None
    /\ entry' \in {[entry EXCEPT !.description = d] : d \in Descriptions} \cup {None}
    /\ UNCHANGED <<listed, loading, card, calls>>

----------------------------------------------------------------------------
(* The answers. *)

TimeChanged(e) == listed # None /\ (\E f \in {"start", "end", "whole"} : listed[f] # e[f])

\* save, and handleEntryUpdated: new times reload the list.
SaveReturns(c) ==
    /\ At(c, "save", "answer")
    /\ LET e == calls[c].result
       IN  IF TimeChanged(e)
           THEN Refresh(c) /\ UNCHANGED listed
           ELSE /\ card' = IF calls[c].mine THEN [card EXCEPT !.saved = e, !.saving = FALSE] ELSE card
                /\ listed' = IF listed = None THEN None ELSE e
                /\ calls' = Done(c)
                /\ UNCHANGED loading
    /\ UNCHANGED <<entry, changes>>

\* Mutant: what could not be saved stays in the fields.
SaveFailsKeeping(c) ==
    /\ At(c, "save", "failed")
    /\ card' = IF calls[c].mine THEN [card EXCEPT !.saving = FALSE] ELSE card
    /\ calls' = Done(c)
    /\ UNCHANGED <<entry, listed, loading, changes>>

\* The fields go back to what was saved when the save began.
SaveFails(c) ==
    /\ At(c, "save", "failed")
    /\ card' = IF calls[c].mine THEN [Reverted(card, calls[c].old) EXCEPT !.saving = FALSE] ELSE card
    /\ calls' = Done(c)
    /\ UNCHANGED <<entry, listed, loading, changes>>

\* handleEntryDeleted.
DeleteReturns(c) ==
    /\ At(c, "delete", "answer")
    /\ listed' = None /\ card' = None
    /\ calls' = CardGone(Done(c))
    /\ UNCHANGED <<entry, loading, changes>>

DeleteFails(c) ==
    /\ At(c, "delete", "failed")
    /\ card' = IF calls[c].mine THEN [card EXCEPT !.saving = FALSE] ELSE card
    /\ calls' = Done(c)
    /\ UNCHANGED <<entry, listed, loading, changes>>

\* A card that is there stays as it is, unless its entry is gone or in another day's group.
RefreshReturns(c) ==
    /\ At(c, "refresh", "answer")
    /\ LET e == calls[c].result
           stays == card # None /\ e # None /\ e.start.day = listed.start.day
       IN  /\ listed' = e
           /\ card' = IF stays THEN card ELSE CardOf(e)
           /\ calls' = IF stays THEN Done(c) ELSE CardGone(Done(c))
    /\ loading' = FALSE
    /\ UNCHANGED <<entry, changes>>

\* The list comes back as it was.
RefreshFails(c) ==
    /\ At(c, "refresh", "failed")
    /\ loading' = FALSE
    /\ card' = IF card = None THEN CardOf(listed) ELSE card
    /\ calls' = Done(c)
    /\ UNCHANGED <<entry, listed, changes>>

----------------------------------------------------------------------------
Serve(c) == UpdateTimeEntry(c) \/ DeleteTimeEntry(c) \/ GetTimeEntries(c) \/ Refuse(c)

Return(c) ==
    \/ SaveReturns(c)
    \/ SaveFails(c)
    \/ DeleteReturns(c)
    \/ DeleteFails(c)
    \/ RefreshReturns(c)
    \/ RefreshFails(c)

User == MoveFocus \/ Type \/ Enter \/ PickDay \/ SelectProject \/ ConfirmDelete

Next == (\E c \in Calls : Serve(c) \/ Return(c)) \/ User \/ Reload \/ EditElsewhere

Spec == Init /\ [][Next]_vars
====
