---- MODULE EntryFormHistory ----
(***************************************************************************)
(* EntryForm with what its properties need to know of the past: where the  *)
(* times in the form come from, and the entries that were made of them     *)
(* since.                                                                  *)
(***************************************************************************)
EXTENDS EntryForm

VARIABLES
    times,     \* "opened", "advanced" or "touched": who set the day and the times last
    made,      \* the entries Solidtime made since the user touched them last
    errors     \* the errors the user was shown since

hvars == <<form, mode, saved, timer, calls, asks, events, times, made, errors>>

HInit == Init /\ times = "opened" /\ made = <<>> /\ errors = 0

Remember == UNCHANGED <<times, made, errors>>

Touched ==
    /\ PickDay \/ Type \/ NewForm
    /\ times' = IF events' = events THEN "touched" ELSE "opened"
    /\ made' = <<>> /\ errors' = 0

Served(c) ==
    /\ Serve(c)
    /\ LET ofDraft == calls[c].mine /\ calls[c].kind = "add" /\ calls[c].interval = Interval(form)
       IN  made' = IF ofDraft THEN Append(made, Interval(form)) ELSE made
    /\ UNCHANGED <<times, errors>>

Added(c) ==
    /\ AddReturns(c)
    /\ times' = IF calls[c].mine THEN "advanced" ELSE times
    /\ UNCHANGED <<made, errors>>

Failed(c) ==
    /\ Fails(c)
    /\ errors' = IF calls[c].mine THEN errors + 1 ELSE errors
    /\ UNCHANGED <<times, made>>

HRequest(c) ==
    \/ Served(c)
    \/ Added(c)
    \/ Failed(c)
    \/ (Refuse(c) \/ TimerReturns(c)) /\ Remember

Other ==
    /\ \/ Describe \/ ChooseTask \/ ChooseEntry \/ MoveFocus \/ Enter
       \/ SelectMode \/ ManualSubmit \/ TimerAction
       \/ TimerElsewhere \/ ModeElsewhere
    /\ Remember

HNext == Touched \/ Other \/ (\E c \in Calls : HRequest(c))

HSpec == HInit /\ [][HNext]_hvars /\ \A c \in Calls : WF_hvars(HRequest(c))

----------------------------------------------------------------------------
\* Every variable keeps its type, and the form waits for the answer to the one request it
\* made itself, or for none.
TypeOK ==
    /\ form \in [described : BOOLEAN, chosen : BOOLEAN, day : Days,
                 start : 0..LastMinute \cup {None}, end : 0..LastMinute \cup {None},
                 focus : {"none", "start", "end"}, atFocus : 0..LastMinute \cup {None},
                 submitting : BOOLEAN]
    /\ mode \in Modes /\ saved \in Modes /\ timer \in BOOLEAN
    /\ calls \in [Calls -> [pc : {"idle", "ask", "answer", "failed", "refused"},
                            kind : {"none", "add", "start", "stop"}, mine : BOOLEAN,
                            interval : Intervals \cup {None}]]
    /\ Cardinality({c \in Calls : calls[c].mine}) = IF form.submitting THEN 1 ELSE 0

\* Both fields hold a time whenever the focus is in neither, whatever was typed, left or
\* overtaken by an answer: the day can be picked and the draft submitted
\* (docs/UI.md:162).
TimesComplete == form.focus = "none" => None \notin {form.start, form.end}

\* In a form as it is opened: whatever a user writes for a time is read as that time, and a
\* text that is read as a time is a way to write it.  No text means two times, none is taken
\* for a time by accident (docs/UI.md:164-173).
ParseAgrees == form \in {FormAt(now) : now \in Openings} /\ asks = 0 /\ events = 0 => Agreement

\* Times the user did not touch can be submitted: the form fills in an end after the
\* start (docs/UI.md:179-185).  It cannot in the last hour of the day, nor after an entry
\* that ends in its last minute.
PrefillSubmittable ==
    \/ times = "touched"
    \/ times = "opened" /\ form.start >= 23 * 60
    \/ times = "advanced" /\ form.start = LastMinute
    \/ form.start < form.end

\* One entry after the other with the times the form fills in: each begins where the one
\* before it ended.  The same entry is made again only by a user who was shown an error.
AddsInARow ==
    LET again == {i \in 2..Len(made) : made[i] = made[i - 1]}
    IN  /\ \A i \in 2..Len(made) \ again :
              made[i].day = made[i - 1].day /\ made[i].start = made[i - 1].end
        /\ Cardinality(again) <= errors

\* While a timer runs the form does not go to the manual mode, neither by the user nor by
\* a form that is made anew with a manual mode saved (docs/UI.md:111).
ModeKeptWhileRunning == [][timer /\ mode = "timer" => mode' = "timer"]_hvars

\* A form that submits becomes usable again, whatever its request ends in.
SubmitEnds == form.submitting ~> ~form.submitting
====
