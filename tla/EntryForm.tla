---- MODULE EntryForm ----
(***************************************************************************)
(* The form at the top of the sidebar: the draft of an entry with its pair *)
(* of time fields, the mode of the form (Manual or Timer), the requests    *)
(* that add an entry, start the timer or stop it, and the timer, which     *)
(* also starts and stops elsewhere.                                        *)
(*                                                                         *)
(* The mode and the timer are in the store and outlive the form; the draft *)
(* does not: a change of the organization, or the sidebar closed and       *)
(* opened, makes a new form, and a request of the old one answers to       *)
(* nobody.  While a request of the form is in flight its fields and        *)
(* buttons are disabled, the calendar is not.                              *)
(*                                                                         *)
(* A text in a time field is the time ParseTime reads in it, or None.  Of  *)
(* the description and the choice of a task it is kept whether they are    *)
(* there; the billable toggle is one more field like them.                 *)
(***************************************************************************)
EXTENDS ClockTime, FiniteSets

CONSTANTS
    Days, Today,
    Typed,        \* the texts a user types into a time field
    Openings,     \* the times of the day at which a form is made
    Calls,        \* slots for the requests in flight
    MaxAsks,      \* bound: requests of the user
    MaxEvents,    \* bound: new forms, and starts and stops of the timer elsewhere
    Faults        \* a subset of AllFaults

AllFaults == {"error"}

\* What an entry that is added lasts.
Intervals == [day : Days, start : 0..LastMinute, end : 0..LastMinute]

FormAssumption ==
    /\ Today \in Days
    /\ Typed \subseteq {t \in Seq(Symbol) : Len(t) <= FieldSize} /\ Openings \subseteq 0..LastMinute
    /\ Symbols \subseteq Symbol /\ MaxLength \in 0..FieldSize
    /\ None \notin Nat
    /\ MaxAsks \in Nat /\ MaxEvents \in Nat
    /\ Faults \subseteq AllFaults

ASSUME FormAssumption

VARIABLES
    form,      \* the state of the form
    mode,      \* store: entryMode
    saved,     \* localStorage: the mode the user chose last, in any tab
    timer,     \* store: a timer is running
    calls,     \* the requests in flight
    asks,      \* how often the user asked for something
    events     \* how much happened elsewhere

vars == <<form, mode, saved, timer, calls, asks, events>>

Modes == {"manual", "timer"}

\* A new form.  atFocus is what the field with the focus held when it got it.
FormAt(now) ==
    [described |-> FALSE, chosen |-> FALSE, day |-> Today,
     start |-> DefaultTimes(now).start, end |-> DefaultTimes(now).end,
     focus |-> "none", atFocus |-> None, submitting |-> FALSE]

\* Mutant: a new form restores the mode whether or not a timer runs.
RestoredSaved == saved

\* The mode of a form that is made: a running timer goes before the user's choice.
Restored == IF timer THEN "timer" ELSE saved

Interval(f) == [day |-> f.day, start |-> f.start, end |-> f.end]

Idle == [pc |-> "idle", kind |-> "none", mine |-> FALSE, interval |-> None]

Init ==
    /\ timer \in BOOLEAN
    /\ saved \in Modes
    /\ mode = Restored
    /\ form \in {FormAt(now) : now \in Openings}
    /\ calls = [c \in Calls |-> Idle]
    /\ asks = 0 /\ events = 0

Pending == {c \in Calls : calls[c].pc # "idle"}

----------------------------------------------------------------------------
(* The fields. *)

Rest == UNCHANGED <<mode, saved, timer, calls, asks, events>>

\* A click beside the two time fields takes the focus from them.
Free == form.focus = "none" /\ ~form.submitting

\* Typing in the description, or clearing it.
Describe ==
    /\ Free
    /\ form' = [form EXCEPT !.described = ~@]
    /\ Rest

\* A task of the selector.
ChooseTask ==
    /\ Free
    /\ form' = [form EXCEPT !.chosen = TRUE]
    /\ Rest

\* selectAutocompleteItem: an entry that is done already gives both.
ChooseEntry ==
    /\ Free
    /\ form' = [form EXCEPT !.described = TRUE, !.chosen = TRUE]
    /\ Rest

\* Mutant: a text that is no time stays where it is.
NormalizedBare(f) == form

\* A text that is no time gives way to what was there.
Normalized(f) == IF form[f] = None THEN [form EXCEPT ![f] = form.atFocus] ELSE form

\* A click into a time field or out of it, or a tab.
MoveFocus ==
    /\ mode = "manual" /\ ~form.submitting
    /\ \E to \in {"none", "start", "end"} \ {form.focus} :
          LET left == IF form.focus = "none" THEN form ELSE Normalized(form.focus)
          IN  form' = [left EXCEPT !.focus = to, !.atFocus = IF to = "none" THEN None ELSE form[to]]
    /\ Rest

\* handleTimeChange: the state and the refs beside it hold the same.
Type ==
    /\ form.focus # "none"
    /\ \E t \in Typed : form' = [form EXCEPT ![form.focus] = ParseTime(t)]
    /\ Rest

\* The form has nothing to commit: commitStart and commitEnd only normalize.
Enter ==
    /\ form.focus # "none"
    /\ form' = Normalized(form.focus)
    /\ Rest

\* The calendar: a submit does not disable it.
PickDay ==
    /\ mode = "manual" /\ form.focus = "none"
    /\ \E d \in Days : form' = [form EXCEPT !.day = d]
    /\ Rest

\* selectEntryMode
SelectMode ==
    /\ Free
    /\ mode' \in IF timer THEN {"timer"} ELSE Modes
    /\ saved' = mode'
    /\ UNCHANGED <<form, timer, calls, asks, events>>

----------------------------------------------------------------------------
(* The requests. *)

Ask(kind, interval) ==
    /\ asks < MaxAsks /\ asks' = asks + 1
    /\ form' = [form EXCEPT !.submitting = TRUE]
    /\ \E c \in Calls \ Pending :
          calls' = [calls EXCEPT ![c] =
                       [pc |-> "ask", kind |-> kind, mine |-> TRUE, interval |-> interval]]
    /\ UNCHANGED <<mode, saved, timer, events>>

\* Mutant: the button stays enabled while a request is in flight.
ManualSubmitAgain ==
    /\ mode = "manual" /\ form.focus = "none"
    /\ form.described /\ form.chosen
    /\ None \notin {form.start, form.end} /\ form.start < form.end
    /\ Ask("add", Interval(form))

\* handleManualSubmit; a draft that is not complete, or ends before it starts, is refused
\* with an error and stays as it is.
ManualSubmit ==
    /\ mode = "manual" /\ Free
    /\ form.described /\ form.chosen
    /\ None \notin {form.start, form.end} /\ form.start < form.end
    /\ Ask("add", Interval(form))

\* handleTimerAction
TimerAction ==
    /\ mode = "timer" /\ Free
    /\ \/ timer /\ Ask("stop", None)
       \/ ~timer /\ form.described /\ form.chosen /\ Ask("start", None)

----------------------------------------------------------------------------
(* The plugin server and Solidtime. *)

\* handleCreateTimeEntry, handleUpdateTimeEntry: an error may come when it is done.
Serve(c) ==
    /\ calls[c].pc = "ask"
    /\ \E pc \in {"answer"} \cup (IF "error" \in Faults THEN {"failed"} ELSE {}) :
          calls' = [calls EXCEPT ![c].pc = pc]
    /\ UNCHANGED <<form, mode, saved, timer, asks, events>>

Refuse(c) ==
    /\ calls[c].pc = "ask" /\ "error" \in Faults
    /\ calls' = [calls EXCEPT ![c].pc = "refused"]
    /\ UNCHANGED <<form, mode, saved, timer, asks, events>>

Event == events < MaxEvents /\ events' = events + 1

\* handleTimerChanged: another tab, or Solidtime.
TimerElsewhere ==
    /\ Event
    /\ timer' = ~timer
    /\ UNCHANGED <<form, mode, saved, calls, asks>>

\* Another tab of the user chooses a mode.
ModeElsewhere ==
    /\ Event
    /\ saved' \in Modes
    /\ UNCHANGED <<form, mode, timer, calls, asks>>

\* Mutant: the requests of the old form answer to the new one.
LeftListening == calls

\* The form is gone: the answers to its requests find it no more.
Left == [c \in Calls |-> [calls[c] EXCEPT !.mine = FALSE, !.interval = None]]

\* Another organization, or the sidebar is closed and opened.
NewForm ==
    /\ Event
    /\ form' \in {FormAt(now) : now \in Openings}
    /\ mode' = Restored
    /\ calls' = Left
    /\ UNCHANGED <<saved, timer, asks>>

----------------------------------------------------------------------------
(* The answers. *)

\* The form f after the answer to request c, unless it is the answer to a form before it.
Answered(c, f) ==
    /\ form' = IF calls[c].mine THEN [f EXCEPT !.submitting = FALSE] ELSE form
    /\ calls' = [calls EXCEPT ![c] = Idle]
    /\ UNCHANGED <<mode, saved, asks, events>>

AddReturns(c) ==
    /\ calls[c].pc = "answer" /\ calls[c].kind = "add"
    /\ LET added == calls[c].interval
           next == NextTimes(added.start, added.end)
       IN  Answered(c, [form EXCEPT !.described = FALSE, !.day = added.day,
                                    !.start = next.start, !.end = next.end])
    /\ UNCHANGED timer

\* setActiveTimer, whatever the store has by now.
TimerReturns(c) ==
    /\ calls[c].pc = "answer" /\ calls[c].kind \in {"start", "stop"}
    /\ Answered(c, form)
    /\ timer' = (calls[c].kind = "start")

\* Mutant: an error leaves the form as it is while it is submitting.
FailsSubmitting(c) ==
    /\ calls[c].pc \in {"failed", "refused"}
    /\ calls' = [calls EXCEPT ![c] = Idle]
    /\ UNCHANGED <<form, mode, saved, timer, asks, events>>

\* The draft stays for another try.
Fails(c) ==
    /\ calls[c].pc \in {"failed", "refused"}
    /\ Answered(c, form)
    /\ UNCHANGED timer

----------------------------------------------------------------------------
User ==
    \/ Describe
    \/ ChooseTask
    \/ ChooseEntry
    \/ MoveFocus
    \/ Type
    \/ Enter
    \/ PickDay
    \/ SelectMode
    \/ ManualSubmit
    \/ TimerAction

Elsewhere == TimerElsewhere \/ ModeElsewhere \/ NewForm

Request(c) == Serve(c) \/ Refuse(c) \/ AddReturns(c) \/ TimerReturns(c) \/ Fails(c)

Next == User \/ Elsewhere \/ (\E c \in Calls : Request(c))

Spec == Init /\ [][Next]_vars

\* A request is answered, with an error in the end, and its answer is handled.
Fairness == \A c \in Calls : WF_vars(Request(c))

FairSpec == Spec /\ Fairness
====
