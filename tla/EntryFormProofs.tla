---- MODULE EntryFormProofs ----
(***************************************************************************)
(* Proofs about EntryFormHistory for any texts, times, days and requests.  *)
(***************************************************************************)
EXTENDS EntryFormHistory, FiniteSetTheorems, SequenceTheorems, TLAPS

----------------------------------------------------------------------------
(* The inductive invariants. *)

Minutes == 0..LastMinute

\* The requests that answer to the form.
Mine == {c \in Calls : calls[c].mine}

Requesting ==
    [pc : {"idle", "ask", "answer", "failed", "refused"}, kind : {"none", "add", "start", "stop"},
     mine : BOOLEAN, interval : Intervals \cup {None}]

Draft ==
    [described : BOOLEAN, chosen : BOOLEAN, day : Days,
     start : Minutes \cup {None}, end : Minutes \cup {None},
     focus : {"none", "start", "end"}, atFocus : Minutes \cup {None}, submitting : BOOLEAN]

\* What the form asks to be added ends after it starts; other requests have no times.
Timed(q) ==
    IF q.mine /\ q.kind = "add"
    THEN q.interval \in Intervals /\ q.interval.start < q.interval.end
    ELSE q.interval = None

\* The field with the focus is the only one that may hold no time, and the time it held
\* is kept; a form that waits for an answer has no focus.
FormInvariant ==
    /\ form \in Draft
    /\ mode \in Modes /\ saved \in Modes /\ timer \in BOOLEAN
    /\ calls \in [Calls -> Requesting]
    /\ \A c \in Calls : Timed(calls[c])
    /\ form.submitting => (\E c \in Calls : Mine = {c}) /\ form.focus = "none"
    /\ ~form.submitting => Mine = {}
    /\ form.focus # "start" => form.start # None
    /\ form.focus # "end" => form.end # None
    /\ form.focus # "none" => form.atFocus # None

\* Times that the form filled in are times.
PrefillInvariant ==
    /\ times # "touched" => None \notin {form.start, form.end}
    /\ PrefillSubmittable

Again == {i \in 2..Len(made) : made[i] = made[i - 1]}

\* The draft follows on the last entry, or is that entry after an error that was shown
\* and not yet answered with another try.
Ready ==
    \/ Interval(form) = Last(made) /\ Cardinality(Again) < errors
    \/ form.day = Last(made).day /\ form.start = Last(made).end

\* The draft is added, and the form does not know it yet.
Unknown(q) == q.mine /\ q.kind = "add" /\ q.pc \in {"answer", "failed"}

RowInvariant ==
    /\ made \in Seq(Intervals) /\ errors \in Nat
    /\ \A i \in 1..Len(made) : made[i].start < made[i].end
    /\ AddsInARow
    /\ made # <<>> =>
          /\ None \notin {form.start, form.end}
          /\ \A c \in Calls : calls[c].mine /\ calls[c].kind = "add" => calls[c].interval = Interval(form)
          /\ \A c \in Calls : Unknown(calls[c]) => Last(made) = Interval(form)
          /\ (\A c \in Calls : ~Unknown(calls[c])) => Ready

----------------------------------------------------------------------------
(* Times. *)

\* No time is not a time.
LEMMA NoneIsNoTime == None \notin Minutes
<1>1. None \notin Nat
  BY FormAssumption DEF FormAssumption
<1>2. Minutes \subseteq Nat
  BY DEF Minutes, LastMinute
<1> QED
  BY <1>1, <1>2

\* The times of an entry are times.
LEMMA IntervalTimes ==
    ASSUME NEW x \in Intervals
    PROVE  x.start \in Minutes /\ x.end \in Minutes /\ x.start \in Int /\ x.end \in Int
BY DEF Intervals, Minutes, LastMinute

\* What a clock shows is a minute of the day, or no time.
LEMMA ClockRange ==
    ASSUME NEW h, NEW m
    PROVE  Clock(h, m) \in Minutes \cup {None}
<1>1. CASE h \in 0..23 /\ m \in 0..59
  <2>1. 60 * h + m \in 0..1439
    BY <1>1
  <2> QED
    BY <1>1, <2>1 DEF Clock, Minutes, LastMinute
<1>2. CASE ~(h \in 0..23 /\ m \in 0..59)
  BY <1>2 DEF Clock
<1> QED
  BY <1>1, <1>2

\* So is what any text is read as.
LEMMA ParsedTime ==
    ASSUME NEW t
    PROVE  ParseTime(t) \in Minutes \cup {None}
<1>1. ParseDigits(t) \in Minutes \cup {None}
  BY ClockRange, Zenon DEF ParseDigits
<1> QED
  BY <1>1, ClockRange, Zenon DEF ParseTime

\* The times of a new form are minutes of the day, an hour apart but before midnight.
LEMMA DefaultRange ==
    ASSUME NEW now \in Minutes
    PROVE  /\ DefaultTimes(now).start \in Minutes /\ DefaultTimes(now).end \in Minutes
           /\ \/ DefaultTimes(now).start >= 23 * 60
              \/ DefaultTimes(now).start < DefaultTimes(now).end
<1> DEFINE start == 5 * (now \div 5)
<1>1. start \in 0..1439 /\ (start + 60) % 1440 \in 0..1439
  BY DEF Minutes, LastMinute
<1>2. start >= 23 * 60 \/ (start + 60) % 1440 = start + 60
  BY <1>1
<1> QED
  BY <1>1, <1>2 DEF DefaultTimes, Minutes, LastMinute

\* The times after an entry are minutes of the day, and begin where it ends; there is
\* something between them unless the day is over.
LEMMA NextRange ==
    ASSUME NEW start \in Minutes, NEW end \in Minutes, start < end
    PROVE  /\ NextTimes(start, end).start = end
           /\ NextTimes(start, end).end \in Minutes
           /\ end = LastMinute \/ end < NextTimes(start, end).end
BY DEF NextTimes, Minutes, LastMinute

----------------------------------------------------------------------------
(* The form. *)

\* A new form is one, and both its times are times.
LEMMA NewFormFields ==
    ASSUME NEW now \in Openings
    PROVE  /\ FormAt(now) \in Draft
           /\ FormAt(now).start \in Minutes /\ FormAt(now).end \in Minutes
           /\ None \notin Minutes
           /\ FormAt(now).focus = "none" /\ ~FormAt(now).submitting
           /\ FormAt(now).start = DefaultTimes(now).start
           /\ FormAt(now).end = DefaultTimes(now).end
<1>1. now \in Minutes /\ None \notin Minutes /\ Today \in Days
  BY FormAssumption, NoneIsNoTime DEF FormAssumption, Minutes
<1>2. DefaultTimes(now).start \in Minutes /\ DefaultTimes(now).end \in Minutes
  BY <1>1, DefaultRange
<1> QED
  BY <1>1, <1>2 DEF FormAt, Draft

\* Every form starts well.
LEMMA FormInit == Init => FormInvariant
<1> SUFFICES ASSUME Init PROVE FormInvariant
  OBVIOUS
<1>1. PICK now \in Openings : form = FormAt(now)
  BY DEF Init
<1>2. Idle \in Requesting /\ Timed(Idle) /\ ~Idle.mine
  BY DEF Idle, Requesting, Timed
<1>3. calls \in [Calls -> Requesting] /\ (\A c \in Calls : Timed(calls[c])) /\ Mine = {}
  BY <1>2 DEF Init, Mine
<1>4. mode \in Modes /\ saved \in Modes /\ timer \in BOOLEAN
  BY DEF Init, Restored, Modes
<1> QED
  BY <1>1, <1>3, <1>4, NewFormFields DEF FormInvariant

\* A step that only changes the fields of a form that waits for no answer, or leaves the
\* fields of one that does.
LEMMA FieldsStep ==
    ASSUME FormInvariant, Rest, form' \in Draft, form'.submitting = form.submitting,
           form.submitting => form'.focus = "none",
           form'.focus # "start" => form'.start # None,
           form'.focus # "end" => form'.end # None,
           form'.focus # "none" => form'.atFocus # None
    PROVE  FormInvariant'
<1>1. UNCHANGED <<mode, saved, timer, calls>> /\ Mine' = Mine
  BY DEF Rest, Mine
<1> QED
  BY <1>1 DEF FormInvariant

\* A field that is normalized holds a time.
LEMMA NormalizedField ==
    ASSUME FormInvariant, NEW f \in {"start", "end"}, form.focus = f
    PROVE  /\ Normalized(f) \in Draft
           /\ Normalized(f).start # None /\ Normalized(f).end # None
           /\ Normalized(f).focus = form.focus /\ Normalized(f).atFocus = form.atFocus
           /\ Normalized(f).submitting = form.submitting
           /\ None \notin {form.start, form.end} => Normalized(f) = form
           /\ Interval(Normalized(f)).day = form.day
<1>1. form \in Draft /\ form.atFocus \in Minutes \cup {None} /\ form.atFocus # None
  BY DEF FormInvariant, Draft
<1>2. CASE f = "start"
  BY <1>1, <1>2 DEF FormInvariant, Normalized, Draft, Interval
<1>3. CASE f = "end"
  BY <1>1, <1>3 DEF FormInvariant, Normalized, Draft, Interval
<1> QED
  BY <1>2, <1>3

\* The user moves between the fields as he likes.
LEMMA UserKeepsForm ==
    ASSUME FormInvariant,
           Describe \/ ChooseTask \/ ChooseEntry \/ MoveFocus \/ Type \/ Enter \/ PickDay
    PROVE  FormInvariant'
<1>1. /\ form \in Draft /\ form.focus \in {"none", "start", "end"}
      /\ form.submitting => form.focus = "none"
      /\ form.focus # "start" => form.start # None
      /\ form.focus # "end" => form.end # None
      /\ form.focus # "none" => form.atFocus # None
  BY DEF FormInvariant, Draft
<1>2. CASE Describe
  BY <1>1, <1>2, FieldsStep DEF Describe, Draft
<1>3. CASE ChooseTask
  BY <1>1, <1>3, FieldsStep DEF ChooseTask, Draft
<1>4. CASE ChooseEntry
  BY <1>1, <1>4, FieldsStep DEF ChooseEntry, Draft
<1>5. CASE MoveFocus
  <2> DEFINE left == IF form.focus = "none" THEN form ELSE Normalized(form.focus)
  <2>1. PICK to \in {"none", "start", "end"} \ {form.focus} :
           form' = [left EXCEPT !.focus = to, !.atFocus = IF to = "none" THEN None ELSE form[to]]
    BY <1>5 DEF MoveFocus
  <2>2. left \in Draft /\ left.start # None /\ left.end # None /\ ~left.submitting
    BY <1>1, <1>5, NormalizedField DEF MoveFocus
  <2>3. to # "none" => form[to] \in Minutes /\ form[to] # None
    BY <1>1 DEF Draft
  <2> HIDE DEF left
  <2> QED
    BY <1>1, <1>5, <2>1, <2>2, <2>3, FieldsStep DEF MoveFocus, Draft
<1>6. CASE Type
  <2>1. PICK t \in Typed : form' = [form EXCEPT ![form.focus] = ParseTime(t)]
    BY <1>6 DEF Type
  <2>2. ParseTime(t) \in Minutes \cup {None}
    BY ParsedTime
  <2>3. form.focus \in {"start", "end"}
    BY <1>1, <1>6 DEF Type
  <2>4. CASE form.focus = "start"
    BY <1>1, <1>6, <2>1, <2>2, <2>4, FieldsStep DEF Type, Draft
  <2>5. CASE form.focus = "end"
    BY <1>1, <1>6, <2>1, <2>2, <2>5, FieldsStep DEF Type, Draft
  <2> QED
    BY <2>3, <2>4, <2>5
<1>7. CASE Enter
  BY <1>1, <1>7, NormalizedField, FieldsStep DEF Enter
<1>8. CASE PickDay
  <2>1. PICK d \in Days : form' = [form EXCEPT !.day = d]
    BY <1>8 DEF PickDay
  <2> QED
    BY <1>1, <1>8, <2>1, FieldsStep DEF PickDay, Draft
<1> QED
  BY <1>2, <1>3, <1>4, <1>5, <1>6, <1>7, <1>8

\* A request of the form is the only one that answers to it.
LEMMA AskKeepsForm ==
    ASSUME FormInvariant, Free, NEW kind \in {"add", "start", "stop"}, NEW interval,
           IF kind = "add" THEN interval \in Intervals /\ interval.start < interval.end
           ELSE interval = None,
           Ask(kind, interval)
    PROVE  FormInvariant'
<1>1. PICK c \in Calls : calls' = [calls EXCEPT ![c] =
                            [pc |-> "ask", kind |-> kind, mine |-> TRUE, interval |-> interval]]
  BY DEF Ask
<1> DEFINE q == [pc |-> "ask", kind |-> kind, mine |-> TRUE, interval |-> interval]
<1>2. q \in Requesting /\ Timed(q) /\ q.mine
  BY DEF Requesting, Timed
<1>3. /\ form \in Draft /\ ~form.submitting /\ form.focus = "none"
      /\ calls \in [Calls -> Requesting] /\ Mine = {}
  BY DEF FormInvariant, Free
<1>4. calls' \in [Calls -> Requesting] /\ \A d \in Calls : Timed(calls'[d])
  BY <1>1, <1>2, <1>3 DEF FormInvariant
<1>5. Mine' = {c}
  BY <1>1, <1>2, <1>3 DEF Mine
<1>6. form' = [form EXCEPT !.submitting = TRUE] /\ UNCHANGED <<mode, saved, timer>>
  BY DEF Ask
<1>7. /\ form' \in Draft /\ form'.submitting /\ form'.focus = "none"
      /\ form'.start = form.start /\ form'.end = form.end
  BY <1>3, <1>6 DEF Draft
<1> QED
  BY <1>3, <1>4, <1>5, <1>6, <1>7 DEF FormInvariant

\* The buttons of the form.
LEMMA ButtonsKeepForm ==
    ASSUME FormInvariant, SelectMode \/ ManualSubmit \/ TimerAction
    PROVE  FormInvariant'
<1>1. CASE SelectMode
  <2>1. mode' \in Modes /\ saved' \in Modes /\ UNCHANGED <<form, timer, calls>> /\ Mine' = Mine
    BY <1>1 DEF SelectMode, Modes, Mine
  <2> QED
    BY <2>1 DEF FormInvariant
<1>2. CASE ManualSubmit
  <2>1. Interval(form) \in Intervals /\ Interval(form).start < Interval(form).end
    BY <1>2 DEF ManualSubmit, FormInvariant, Draft, Interval, Intervals, Minutes
  <2> QED
    BY <1>2, <2>1, AskKeepsForm DEF ManualSubmit
<1>3. CASE TimerAction
  BY <1>3, AskKeepsForm DEF TimerAction
<1> QED
  BY <1>1, <1>2, <1>3

\* A step of the server changes nothing but how far the request has come.
LEMMA ServerKeepsForm ==
    ASSUME FormInvariant, NEW c \in Calls, Serve(c) \/ Refuse(c)
    PROVE  /\ FormInvariant'
           /\ calls'[c].mine = calls[c].mine /\ calls'[c].kind = calls[c].kind
           /\ calls'[c].interval = calls[c].interval
           /\ \A d \in Calls \ {c} : calls'[d] = calls[d]
           /\ UNCHANGED form
<1>1. PICK pc \in {"answer", "failed", "refused"} : calls' = [calls EXCEPT ![c].pc = pc]
  BY DEF Serve, Refuse
<1>2. UNCHANGED <<form, mode, saved, timer>> /\ calls \in [Calls -> Requesting]
  BY DEF Serve, Refuse, FormInvariant
<1>3. /\ calls'[c].mine = calls[c].mine /\ calls'[c].kind = calls[c].kind
      /\ calls'[c].interval = calls[c].interval
      /\ \A d \in Calls \ {c} : calls'[d] = calls[d]
      /\ calls' \in [Calls -> Requesting]
  BY <1>1, <1>2 DEF Requesting
<1>4. Mine' = Mine /\ \A d \in Calls : Timed(calls[d]) => Timed(calls'[d])
  BY <1>3 DEF Mine, Timed
<1> QED
  BY <1>2, <1>3, <1>4 DEF FormInvariant

\* An answer ends the wait of the form it is for.
LEMMA AnsweredKeepsForm ==
    ASSUME FormInvariant, NEW c \in Calls, NEW f \in Draft, Answered(c, f), timer' \in BOOLEAN,
           calls[c].mine => f.focus = form.focus /\ f.start # None /\ f.end # None
    PROVE  FormInvariant'
<1>1. /\ calls \in [Calls -> Requesting] /\ form \in Draft
      /\ calls' = [calls EXCEPT ![c] = Idle] /\ UNCHANGED <<mode, saved>>
      /\ form' = IF calls[c].mine THEN [f EXCEPT !.submitting = FALSE] ELSE form
  BY DEF Answered, FormInvariant
<1>2. Idle \in Requesting /\ Timed(Idle) /\ ~Idle.mine
  BY DEF Idle, Requesting, Timed
<1>3. calls' \in [Calls -> Requesting] /\ Mine' = Mine \ {c} /\ \A d \in Calls : Timed(calls'[d])
  BY <1>1, <1>2 DEF FormInvariant, Mine
<1>4. CASE calls[c].mine
  <2>1. form.submitting /\ form.focus = "none" /\ Mine = {c}
    BY <1>4 DEF FormInvariant, Mine
  <2>2. /\ form' \in Draft /\ ~form'.submitting /\ form'.focus = "none"
        /\ form'.start # None /\ form'.end # None
    BY <1>1, <1>4, <2>1 DEF Draft
  <2> QED
    BY <1>1, <1>3, <2>1, <2>2 DEF FormInvariant
<1>5. CASE ~calls[c].mine
  <2>1. form' = form /\ Mine' = Mine
    BY <1>1, <1>3, <1>5 DEF Mine
  <2> QED
    BY <1>1, <1>3, <2>1 DEF FormInvariant
<1> QED
  BY <1>4, <1>5

\* The form after the entry it asked for was added: it begins where that one ends.
LEMMA AddReturnsForm ==
    ASSUME FormInvariant, NEW c \in Calls, AddReturns(c)
    PROVE  /\ FormInvariant'
           /\ ~calls[c].mine => form' = form
           /\ calls[c].mine =>
                 /\ calls[c].interval \in Intervals
                 /\ calls[c].interval.start < calls[c].interval.end
                 /\ form'.day = calls[c].interval.day
                 /\ form'.start = calls[c].interval.end /\ form'.end \in Minutes
                 /\ form'.start = LastMinute \/ form'.start < form'.end
<1> DEFINE added == calls[c].interval
           next == NextTimes(added.start, added.end)
           f == [form EXCEPT !.described = FALSE, !.day = added.day,
                             !.start = next.start, !.end = next.end]
<1>1. Answered(c, f) /\ UNCHANGED timer /\ calls[c].kind = "add"
  BY DEF AddReturns
<1>2. form \in Draft /\ Timed(calls[c]) /\ timer \in BOOLEAN /\ None \notin Minutes
  BY NoneIsNoTime DEF FormInvariant
<1>3. CASE ~calls[c].mine
  <2>1. Answered(c, form)
    BY <1>1, <1>3 DEF Answered
  <2> QED
    BY <1>1, <1>2, <1>3, <2>1, AnsweredKeepsForm DEF Answered
<1>4. CASE calls[c].mine
  <2>1. added \in Intervals /\ added.start < added.end
    BY <1>1, <1>2, <1>4 DEF Timed
  <2>2. added.start \in Minutes /\ added.end \in Minutes /\ added.day \in Days
    BY <2>1 DEF Intervals, Minutes
  <2>3. /\ next.start = added.end /\ next.end \in Minutes
        /\ next.start = LastMinute \/ next.start < next.end
    BY <2>1, <2>2, NextRange
  <2> HIDE DEF next, added
  <2>4. /\ f \in Draft /\ f.focus = form.focus /\ f.start = added.end /\ f.end = next.end
        /\ f.day = added.day
    BY <1>2, <2>2, <2>3 DEF Draft
  <2>5. FormInvariant'
    BY <1>1, <1>2, <2>2, <2>3, <2>4, AnsweredKeepsForm
  <2>6. form'.day = f.day /\ form'.start = f.start /\ form'.end = f.end
    BY <1>1, <1>4, <2>4 DEF Answered, Draft
  <2> QED
    BY <1>4, <2>1, <2>3, <2>4, <2>5, <2>6 DEF added
<1> QED
  BY <1>3, <1>4

\* The other answers leave the draft.
LEMMA OtherAnswersForm ==
    ASSUME FormInvariant, NEW c \in Calls, TimerReturns(c) \/ Fails(c)
    PROVE  /\ FormInvariant'
           /\ form'.day = form.day /\ form'.start = form.start /\ form'.end = form.end
<1>1. Answered(c, form) /\ timer' \in BOOLEAN
  BY DEF TimerReturns, Fails, FormInvariant
<1>2. form \in Draft /\ calls[c].mine => form.start # None /\ form.end # None
  BY DEF FormInvariant, Mine
<1>3. form \in Draft
  BY DEF FormInvariant
<1>4. FormInvariant'
  BY <1>1, <1>2, <1>3, AnsweredKeepsForm
<1> QED
  BY <1>1, <1>3, <1>4 DEF Answered, Draft

\* What happens elsewhere; a new form is nobody's who waits for an answer.
LEMMA ElsewhereKeepsForm ==
    ASSUME FormInvariant, TimerElsewhere \/ ModeElsewhere \/ NewForm
    PROVE  FormInvariant'
<1>1. CASE TimerElsewhere
  <2>1. UNCHANGED <<form, mode, saved, calls>> /\ timer' \in BOOLEAN /\ Mine' = Mine
    BY <1>1 DEF TimerElsewhere, FormInvariant, Mine
  <2> QED
    BY <2>1 DEF FormInvariant
<1>2. CASE ModeElsewhere
  <2>1. UNCHANGED <<form, mode, timer, calls>> /\ saved' \in Modes /\ Mine' = Mine
    BY <1>2 DEF ModeElsewhere, Mine
  <2> QED
    BY <2>1 DEF FormInvariant
<1>3. CASE NewForm
  <2>1. PICK now \in Openings : form' = FormAt(now)
    BY <1>3 DEF NewForm
  <2>2. calls \in [Calls -> Requesting]
    BY DEF FormInvariant
  <2>3. /\ calls' \in [Calls -> Requesting] /\ Mine' = {}
        /\ \A c \in Calls : Timed(calls'[c]) /\ ~calls'[c].mine
    BY <1>3, <2>2 DEF NewForm, Left, Requesting, Mine, Timed
  <2>4. mode' \in Modes /\ UNCHANGED <<saved, timer>>
    BY <1>3 DEF NewForm, Restored, FormInvariant, Modes
  <2> QED
    BY <2>1, <2>3, <2>4, NewFormFields DEF FormInvariant
<1> QED
  BY <1>1, <1>2, <1>3

\* Every step of the form keeps its invariant.
LEMMA FormStep == FormInvariant /\ [HNext]_hvars => FormInvariant'
<1> SUFFICES ASSUME FormInvariant, [HNext]_hvars PROVE FormInvariant'
  OBVIOUS
<1>1. CASE Touched
  BY <1>1, UserKeepsForm, ElsewhereKeepsForm DEF Touched
<1>2. CASE Other
  BY <1>2, UserKeepsForm, ButtonsKeepForm, ElsewhereKeepsForm DEF Other
<1>3. ASSUME NEW c \in Calls, HRequest(c) PROVE FormInvariant'
  BY <1>3, ServerKeepsForm, AddReturnsForm, OtherAnswersForm
     DEF HRequest, Served, Added, Failed
<1>4. CASE UNCHANGED hvars
  <2>1. Mine' = Mine
    BY <1>4 DEF hvars, Mine
  <2> QED
    BY <1>4, <2>1 DEF hvars, FormInvariant
<1> QED
  BY <1>1, <1>2, <1>3, <1>4 DEF HNext

\* The invariant of the form holds in every behaviour.
LEMMA FormInvariantHolds == HSpec => []FormInvariant
<1>1. HInit => FormInvariant
  BY FormInit DEF HInit
<1> QED
  BY <1>1, FormStep, PTL DEF HSpec

\* Every variable keeps its type, and one request at most answers to the form: the one it
\* waits for.
THEOREM TypesHold == HSpec => []TypeOK
<1>1. FormInvariant => TypeOK
  <2> SUFFICES ASSUME FormInvariant PROVE TypeOK
    OBVIOUS
  <2>1. Cardinality(Mine) = IF form.submitting THEN 1 ELSE 0
    BY FS_EmptySet, FS_Singleton DEF FormInvariant
  <2> QED
    BY <2>1 DEF FormInvariant, TypeOK, Draft, Requesting, Minutes, Mine
<1> QED
  BY <1>1, FormInvariantHolds, PTL

\* Both fields hold a time whenever the focus is in neither, whatever is typed, left and
\* answered.
THEOREM TimesCompleteHolds == HSpec => []TimesComplete
<1>1. FormInvariant => TimesComplete
  BY DEF FormInvariant, TimesComplete
<1> QED
  BY <1>1, FormInvariantHolds, PTL

\* A running timer keeps the form in the timer mode.
THEOREM ModeKept == HSpec => ModeKeptWhileRunning
<1>1. [HNext]_hvars => [timer /\ mode = "timer" => mode' = "timer"]_hvars
  <2> SUFFICES ASSUME HNext, timer, mode = "timer" PROVE mode' = "timer"
    OBVIOUS
  <2>1. CASE Touched
    BY <2>1 DEF Touched, PickDay, Type, NewForm, Rest, Restored
  <2>2. CASE Other
    BY <2>2 DEF Other, Describe, ChooseTask, ChooseEntry, MoveFocus, Enter, SelectMode, ManualSubmit,
                TimerAction, Ask, TimerElsewhere, ModeElsewhere, Rest
  <2>3. ASSUME NEW c \in Calls, HRequest(c) PROVE mode' = "timer"
    BY <2>3 DEF HRequest, Served, Added, Failed, Serve, AddReturns, Fails, Refuse, TimerReturns, Answered
  <2> QED
    BY <2>1, <2>2, <2>3 DEF HNext
<1> QED
  BY <1>1, PTL DEF HSpec, ModeKeptWhileRunning

----------------------------------------------------------------------------
(* The times that the form fills in. *)

\* What the user does beside typing and picking a day, and what happens elsewhere, leaves
\* a draft that has both its times; a request that is sent is the only one of the form.
LEMMA OtherKeepsDraft ==
    ASSUME FormInvariant, Other
    PROVE  /\ None \notin {form.start, form.end} => Interval(form)' = Interval(form)
           /\ \/ calls' = calls
              \/ /\ Mine = {}
                 /\ \E c \in Calls : /\ calls' = [calls EXCEPT ![c] = calls'[c]]
                                     /\ calls'[c].pc = "ask"
                                     /\ calls'[c].kind = "add" => calls'[c].interval = Interval(form)
<1>1. form \in Draft /\ calls \in [Calls -> Requesting]
  BY DEF FormInvariant
<1>2. CASE Describe \/ ChooseTask \/ ChooseEntry
  <2>1. form'.day = form.day /\ form'.start = form.start /\ form'.end = form.end
    BY <1>1, <1>2 DEF Describe, ChooseTask, ChooseEntry, Draft
  <2>2. calls' = calls
    BY <1>2 DEF Describe, ChooseTask, ChooseEntry, Rest
  <2> QED
    BY <2>1, <2>2 DEF Interval
<1>3. CASE MoveFocus
  <2> DEFINE left == IF form.focus = "none" THEN form ELSE Normalized(form.focus)
  <2>1. PICK to \in {"none", "start", "end"} \ {form.focus} :
           form' = [left EXCEPT !.focus = to, !.atFocus = IF to = "none" THEN None ELSE form[to]]
    BY <1>3 DEF MoveFocus
  <2>2. None \notin {form.start, form.end} => left = form
    BY <1>1, NormalizedField DEF Draft
  <2>3. calls' = calls
    BY <1>3 DEF MoveFocus, Rest
  <2> QED
    BY <1>1, <2>1, <2>2, <2>3 DEF Interval, Draft
<1>4. CASE Enter
  <2>1. None \notin {form.start, form.end} => form' = form
    BY <1>1, <1>4, NormalizedField DEF Enter, Draft
  <2>2. calls' = calls
    BY <1>4 DEF Enter, Rest
  <2> QED
    BY <2>1, <2>2 DEF Interval
<1>5. CASE SelectMode \/ TimerElsewhere \/ ModeElsewhere
  BY <1>5 DEF SelectMode, TimerElsewhere, ModeElsewhere, Interval
<1>6. CASE ManualSubmit
  <2>1. Mine = {} /\ Ask("add", Interval(form))
    BY <1>6 DEF ManualSubmit, Free, FormInvariant
  <2>2. Interval(form)' = Interval(form)
    BY <1>1, <2>1 DEF Ask, Interval, Draft
  <2>3. PICK c \in Calls : calls' = [calls EXCEPT ![c] =
                  [pc |-> "ask", kind |-> "add", mine |-> TRUE, interval |-> Interval(form)]]
    BY <2>1 DEF Ask
  <2> QED
    BY <1>1, <2>1, <2>2, <2>3
<1>7. CASE TimerAction
  <2>1. Mine = {} /\ \E kind \in {"start", "stop"} : Ask(kind, None)
    BY <1>7 DEF TimerAction, Free, FormInvariant
  <2>2. Interval(form)' = Interval(form)
    BY <1>1, <2>1 DEF Ask, Interval, Draft
  <2>3. PICK c \in Calls, kind \in {"start", "stop"} : calls' = [calls EXCEPT ![c] =
                  [pc |-> "ask", kind |-> kind, mine |-> TRUE, interval |-> None]]
    BY <2>1 DEF Ask
  <2> QED
    BY <1>1, <2>1, <2>2, <2>3
<1> QED
  BY <1>2, <1>3, <1>4, <1>5, <1>6, <1>7 DEF Other

\* The times of the form stay what they are as long as nothing is said of them.
LEMMA PrefillKept ==
    ASSUME PrefillInvariant, times' = times, None \notin {form.start, form.end} =>
               form'.start = form.start /\ form'.end = form.end
    PROVE  PrefillInvariant'
BY DEF PrefillInvariant, PrefillSubmittable

\* Every step keeps the times that were filled in ready to be submitted.
LEMMA PrefillStep == FormInvariant /\ PrefillInvariant /\ [HNext]_hvars => PrefillInvariant'
<1> SUFFICES ASSUME FormInvariant, PrefillInvariant, [HNext]_hvars PROVE PrefillInvariant'
  OBVIOUS
<1>1. CASE Touched
  <2>1. CASE times' = "touched"
    BY <2>1 DEF PrefillInvariant, PrefillSubmittable
  <2>2. CASE times' # "touched"
    <3>1. NewForm /\ times' = "opened"
      BY <1>1, <2>2 DEF Touched, PickDay, Type, Rest
    <3>2. PICK now \in Openings : form' = FormAt(now)
      BY <3>1 DEF NewForm
    <3>3. now \in Minutes
      BY FormAssumption DEF FormAssumption, Minutes
    <3> QED
      BY <3>1, <3>2, <3>3, NewFormFields, DefaultRange DEF PrefillInvariant, PrefillSubmittable
  <2> QED
    BY <2>1, <2>2
<1>2. CASE Other
  <2>1. None \notin {form.start, form.end} => form'.start = form.start /\ form'.end = form.end
    BY <1>2, OtherKeepsDraft DEF Interval
  <2> QED
    BY <1>2, <2>1, PrefillKept DEF Other, Remember
<1>3. ASSUME NEW c \in Calls, HRequest(c) PROVE PrefillInvariant'
  <2>1. CASE Added(c) /\ calls[c].mine
    <3>1. /\ times' = "advanced" /\ calls[c].interval \in Intervals
          /\ form'.start = calls[c].interval.end /\ form'.end \in Minutes
          /\ form'.start = LastMinute \/ form'.start < form'.end
      BY <2>1, AddReturnsForm DEF Added
    <3>2. calls[c].interval.end \in Minutes
      BY <3>1 DEF Intervals, Minutes
    <3> QED
      BY <3>1, <3>2, NoneIsNoTime DEF PrefillInvariant, PrefillSubmittable
  <2>2. CASE ~(Added(c) /\ calls[c].mine)
    <3>1. times' = times /\ form'.start = form.start /\ form'.end = form.end
      BY <1>3, <2>2, ServerKeepsForm, AddReturnsForm, OtherAnswersForm
         DEF HRequest, Served, Added, Failed, Remember
    <3> QED
      BY <3>1, PrefillKept
  <2> QED
    BY <2>1, <2>2
<1>4. CASE UNCHANGED hvars
  BY <1>4, PrefillKept DEF hvars
<1> QED
  BY <1>1, <1>2, <1>3, <1>4 DEF HNext

\* The times that the form fills in can be submitted as they are, but for the last hour of
\* the day and an entry that ends with the day: whenever the form is opened, whatever was
\* added, and whatever else the user did meanwhile.
THEOREM PrefillHolds == HSpec => []PrefillSubmittable
<1>1. HInit => PrefillInvariant
  <2> SUFFICES ASSUME HInit PROVE PrefillInvariant
    OBVIOUS
  <2>1. PICK now \in Openings : form = FormAt(now)
    BY DEF HInit, Init
  <2>2. now \in Minutes
    BY FormAssumption DEF FormAssumption, Minutes
  <2> QED
    BY <2>1, <2>2, NewFormFields, DefaultRange DEF HInit, PrefillInvariant, PrefillSubmittable
<1>2. PrefillInvariant => PrefillSubmittable
  BY DEF PrefillInvariant
<1> QED
  BY <1>1, <1>2, PrefillStep, FormInvariantHolds, PTL DEF HSpec

----------------------------------------------------------------------------
(* One entry after the other. *)

\* Entries that were made twice are among those that were made.
LEMMA AgainFinite ==
    ASSUME made \in Seq(Intervals)
    PROVE  /\ IsFiniteSet(Again) /\ Cardinality(Again) \in Nat
           /\ Len(made) + 1 \notin Again
           /\ Len(made) < 2 => Again = {}
<1>1. Len(made) \in Nat /\ Again \subseteq 2..Len(made)
  BY DEF Again
<1>2. IsFiniteSet(2..Len(made))
  BY <1>1, FS_Interval
<1>3. IsFiniteSet(Again)
  BY <1>1, <1>2, FS_Subset
<1>4. Len(made) + 1 \notin Again /\ (Len(made) < 2 => Again = {})
  BY <1>1
<1> QED
  BY <1>3, <1>4, FS_CardinalityType

\* An entry that follows on the last one, or repeats it after an error, belongs to the row.
LEMMA RowGrows ==
    ASSUME made \in Seq(Intervals), errors \in Nat, AddsInARow, NEW x \in Intervals,
           \A i \in 1..Len(made) : made[i].start < made[i].end,
           made # <<>> => \/ x = Last(made) /\ Cardinality(Again) < errors
                          \/ x.day = Last(made).day /\ x.start = Last(made).end,
           made' = Append(made, x), errors' = errors
    PROVE  AddsInARow'
<1> DEFINE n == Len(made)
<1>1. /\ n \in Nat /\ Len(made') = n + 1 /\ made'[n + 1] = x
      /\ \A i \in 1..n : made'[i] = made[i]
  OBVIOUS
<1>2. /\ \A i \in 2..n \ Again : made[i].day = made[i - 1].day /\ made[i].start = made[i - 1].end
      /\ Cardinality(Again) <= errors
  BY DEF AddsInARow, Again
<1>3. /\ IsFiniteSet(Again) /\ Cardinality(Again) \in Nat /\ n + 1 \notin Again
      /\ Again \subseteq 2..n
  BY AgainFinite DEF Again
<1>4. SUFFICES /\ \A i \in 2..(n + 1) \ Again' :
                     made'[i].day = made'[i - 1].day /\ made'[i].start = made'[i - 1].end
               /\ Cardinality(Again') <= errors
  BY <1>1 DEF AddsInARow, Again
<1>5. Again' = {i \in 2..(n + 1) : made'[i] = made'[i - 1]}
  BY <1>1 DEF Again
<1>6. \A i \in 2..n : made'[i] = made[i] /\ made'[i - 1] = made[i - 1]
  BY <1>1
<1>7. CASE n = 0
  <2>1. Again' = {} /\ 2..(n + 1) = {}
    BY <1>5, <1>7
  <2> QED
    BY <2>1, FS_EmptySet
<1>8. CASE n # 0 /\ x = Last(made) /\ Cardinality(Again) < errors
  <2>1. Again' = Again \cup {n + 1}
    BY <1>1, <1>5, <1>6, <1>8 DEF Again, Last
  <2>2. Cardinality(Again') = Cardinality(Again) + 1
    BY <1>3, <2>1, FS_AddElement
  <2>3. \A i \in 2..(n + 1) \ Again' : i \in 2..n \ Again
    BY <1>1, <2>1
  <2> QED
    BY <1>2, <1>3, <1>6, <1>8, <2>2, <2>3
<1>9. CASE n # 0 /\ x.day = Last(made).day /\ x.start = Last(made).end
  <2>1. Last(made) = made[n] /\ made[n] \in Intervals /\ made[n].start < made[n].end
    BY <1>1, <1>9 DEF Last
  <2>2. x # made[n]
    <3>1. made[n].start \in Int /\ made[n].end \in Int
      BY <2>1, IntervalTimes
    <3>2. x.start = made[n].end
      BY <1>9, <2>1
    <3> QED
      BY <2>1, <3>1, <3>2
  <2>3. Again' = Again
    BY <1>1, <1>5, <1>6, <1>9, <2>2 DEF Again
  <2>4. /\ made'[n + 1].day = made'[n].day /\ made'[n + 1].start = made'[n].end
        /\ \A i \in 2..(n + 1) : i \in 2..n \/ (i = n + 1 /\ i - 1 = n)
    BY <1>1, <1>9, <2>1
  <2> QED
    BY <1>2, <1>6, <2>3, <2>4
<1> QED
  BY <1>7, <1>8, <1>9, <1>1

\* A row of no entries is one.
LEMMA EmptyRow ==
    ASSUME made = <<>>, errors \in Nat
    PROVE  RowInvariant
<1>1. Again = {} /\ made \in Seq(Intervals) /\ 1..Len(made) = {} /\ 2..Len(made) = {}
  BY DEF Again
<1>2. AddsInARow
  BY <1>1, FS_EmptySet DEF AddsInARow, Again
<1> QED
  BY <1>1, <1>2 DEF RowInvariant

\* What the user does beside typing and picking a day keeps the row.
LEMMA OtherKeepsRow ==
    ASSUME FormInvariant, RowInvariant, Other
    PROVE  RowInvariant'
<1>1. made' = made /\ errors' = errors
  BY DEF Other, Remember
<1>2. AddsInARow' /\ Again' = Again
  BY <1>1 DEF RowInvariant, AddsInARow, Again
<1>3. CASE made = <<>>
  BY <1>1, <1>2, <1>3 DEF RowInvariant
<1>4. CASE made # <<>>
  <2>1. Interval(form)' = Interval(form)
    BY <1>4, OtherKeepsDraft DEF RowInvariant
  <2>2. /\ form'.day = form.day /\ form'.start = form.start /\ form'.end = form.end
    BY <2>1 DEF Interval
  <2>3. Ready => Ready'
    BY <1>1, <1>2, <2>1, <2>2 DEF Ready
  <2>4. CASE calls' = calls
    BY <1>1, <1>2, <1>4, <2>1, <2>2, <2>3, <2>4 DEF RowInvariant
  <2>5. ASSUME Mine = {}, NEW c \in Calls, calls' = [calls EXCEPT ![c] = calls'[c]],
               calls'[c].pc = "ask",
               calls'[c].kind = "add" => calls'[c].interval = Interval(form)
        PROVE  RowInvariant'
    <3>1. \A d \in Calls : ~calls[d].mine
      BY <2>5 DEF Mine
    <3>2. \A d \in Calls \ {c} : calls'[d] = calls[d]
      BY <2>5 DEF FormInvariant
    <3>3. \A d \in Calls : ~Unknown(calls[d]) /\ ~Unknown(calls'[d])
      BY <2>5, <3>1, <3>2 DEF Unknown
    <3>4. \A d \in Calls : calls'[d].mine /\ calls'[d].kind = "add" => calls'[d].interval = Interval(form)
      BY <2>5, <3>1, <3>2
    <3> QED
      BY <1>1, <1>2, <1>4, <2>1, <2>2, <2>3, <3>3, <3>4 DEF RowInvariant
  <2> QED
    BY <2>4, <2>5, OtherKeepsDraft
<1> QED
  BY <1>3, <1>4

\* Solidtime makes the entry that the draft holds: it is the next one of the row.
LEMMA ServedKeepsRow ==
    ASSUME FormInvariant, RowInvariant, NEW c \in Calls, Served(c)
    PROVE  RowInvariant'
<1>1. /\ UNCHANGED form /\ errors' = errors
      /\ calls'[c].mine = calls[c].mine /\ calls'[c].kind = calls[c].kind
      /\ calls'[c].interval = calls[c].interval
      /\ \A d \in Calls \ {c} : calls'[d] = calls[d]
      /\ Timed(calls[c])
  BY ServerKeepsForm DEF Served, FormInvariant
<1>2. calls[c].pc = "ask" /\ calls'[c].pc \in {"answer", "failed"}
  BY DEF Served, Serve, FormInvariant, Requesting
<1>3. CASE calls[c].mine /\ calls[c].kind = "add" /\ calls[c].interval = Interval(form)
  <2> DEFINE x == calls[c].interval
  <2>1. x \in Intervals /\ x.start < x.end /\ made' = Append(made, x)
    BY <1>1, <1>3 DEF Timed, Served
  <2>2. \A d \in Calls : calls[d].mine <=> d = c
    BY <1>3 DEF FormInvariant, Mine
  <2>3. made # <<>> => Ready
    BY <1>2, <2>2 DEF RowInvariant, Unknown
  <2>4. Interval(form).day = form.day /\ Interval(form).start = form.start /\ Interval(form).end = form.end
    BY DEF Interval
  <2>5. made # <<>> => \/ x = Last(made) /\ Cardinality(Again) < errors
                       \/ x.day = Last(made).day /\ x.start = Last(made).end
    BY <1>3, <2>3, <2>4 DEF Ready
  <2>6. AddsInARow'
    BY <1>1, <2>1, <2>5, RowGrows DEF RowInvariant
  <2>7. /\ made' \in Seq(Intervals) /\ made' # <<>> /\ Last(made') = x
        /\ \A i \in 1..Len(made') : made'[i].start < made'[i].end
    BY <2>1 DEF RowInvariant, Last
  <2>8. Unknown(calls'[c]) /\ \A d \in Calls : Unknown(calls'[d]) \/ (calls'[d].mine /\ calls'[d].kind = "add") => d = c
    BY <1>1, <1>2, <1>3, <2>2 DEF Unknown
  <2>9. None \notin {form.start, form.end}
    BY <1>3, <2>1, <2>4, NoneIsNoTime DEF Intervals, Minutes
  <2>10. Interval(form)' = x
    BY <1>1, <1>3 DEF Interval
  <2> QED
    BY <1>1, <2>6, <2>7, <2>8, <2>9, <2>10 DEF RowInvariant
<1>4. CASE ~(calls[c].mine /\ calls[c].kind = "add" /\ calls[c].interval = Interval(form))
  <2>1. made' = made
    BY <1>4 DEF Served
  <2>2. AddsInARow' /\ Again' = Again
    BY <1>1, <2>1 DEF RowInvariant, AddsInARow, Again
  <2>3. made # <<>> => ~(calls[c].mine /\ calls[c].kind = "add")
    BY <1>4 DEF RowInvariant
  <2>4. made # <<>> => \A d \in Calls : Unknown(calls'[d]) <=> Unknown(calls[d])
    BY <1>1, <2>3 DEF Unknown
  <2>5. Interval(form)' = Interval(form) /\ (Ready => Ready')
    BY <1>1, <2>1, <2>2 DEF Interval, Ready
  <2> QED
    BY <1>1, <2>1, <2>2, <2>3, <2>4, <2>5 DEF RowInvariant
<1> QED
  BY <1>3, <1>4

\* The form takes over from what was added, or is told of an error.
LEMMA AnswerKeepsRow ==
    ASSUME FormInvariant, RowInvariant, NEW c \in Calls, HRequest(c), ~Served(c)
    PROVE  RowInvariant'
<1>1. made' = made /\ AddsInARow /\ errors \in Nat /\ made \in Seq(Intervals)
  BY DEF HRequest, Added, Failed, Remember, RowInvariant
<1>2. Again' = Again /\ Cardinality(Again) \in Nat
  BY <1>1, AgainFinite DEF Again
<1>3. errors' \in Nat /\ errors' >= errors
  BY <1>1 DEF HRequest, Added, Failed, Remember
<1>4. AddsInARow'
  BY <1>1, <1>2, <1>3 DEF AddsInARow, Again
<1>5. CASE made = <<>>
  BY <1>1, <1>3, <1>4, <1>5 DEF RowInvariant
<1>6. CASE made # <<>>
  <2>1. calls \in [Calls -> Requesting] /\ \A d \in Calls : calls[d].mine /\ calls[c].mine => d = c
    BY DEF FormInvariant, Mine
  <2>2. CASE Refuse(c)
    <3>1. /\ UNCHANGED form /\ calls[c].pc = "ask" /\ calls'[c].pc = "refused"
          /\ calls'[c].mine = calls[c].mine /\ calls'[c].kind = calls[c].kind
          /\ calls'[c].interval = calls[c].interval
          /\ \A d \in Calls \ {c} : calls'[d] = calls[d]
      BY <2>1, <2>2, ServerKeepsForm DEF Refuse, Requesting
    <3>2. \A d \in Calls : Unknown(calls'[d]) <=> Unknown(calls[d])
      BY <3>1 DEF Unknown
    <3>3. Interval(form)' = Interval(form) /\ (Ready => Ready')
      BY <1>1, <1>2, <1>3, <3>1 DEF Interval, Ready
    <3> QED
      BY <1>1, <1>3, <1>4, <3>1, <3>2, <3>3 DEF RowInvariant
  <2>3. CASE ~Refuse(c)
    <3>1. calls' = [calls EXCEPT ![c] = Idle]
      BY <2>3 DEF HRequest, Added, Failed, AddReturns, TimerReturns, Fails, Answered
    <3>2. /\ ~calls'[c].mine /\ ~Unknown(calls'[c])
          /\ \A d \in Calls \ {c} : calls'[d] = calls[d]
      BY <2>1, <3>1 DEF Idle, Unknown
    <3>3. calls[c].mine => \A d \in Calls : ~calls'[d].mine /\ ~Unknown(calls'[d])
      BY <2>1, <3>2 DEF Unknown
    <3>4. CASE Added(c) /\ calls[c].mine
      <4>1. /\ calls[c].kind = "add" /\ calls[c].pc = "answer"
            /\ Last(made) = Interval(form) /\ calls[c].interval = Interval(form)
        BY <1>6, <3>4 DEF Added, AddReturns, RowInvariant, Unknown
      <4>2. /\ form'.day = calls[c].interval.day /\ form'.start = calls[c].interval.end
            /\ calls[c].interval \in Intervals /\ form'.end \in Minutes
        BY <3>4, AddReturnsForm DEF Added
      <4>3. None \notin {form'.start, form'.end}
        BY <4>2, NoneIsNoTime DEF Intervals, Minutes
      <4>4. Ready'
        BY <1>1, <4>1, <4>2 DEF Ready
      <4> QED
        BY <1>1, <1>3, <1>4, <3>3, <3>4, <4>3, <4>4 DEF RowInvariant
    <3>5. CASE ~(Added(c) /\ calls[c].mine)
      <4>1. form'.day = form.day /\ form'.start = form.start /\ form'.end = form.end
        BY <2>3, <3>5, AddReturnsForm, OtherAnswersForm DEF HRequest, Added, Failed
      <4>2. Interval(form)' = Interval(form) /\ (Ready => Ready')
        BY <1>1, <1>2, <1>3, <4>1 DEF Interval, Ready
      <4>3. CASE Unknown(calls[c])
        <5>1. Last(made) = Interval(form)
          BY <1>6, <4>3 DEF RowInvariant
        <5>2. Failed(c) /\ calls[c].mine
          BY <2>3, <3>5, <4>3 DEF HRequest, Added, TimerReturns, Unknown
        <5>3. Cardinality(Again) < errors'
          <6>1. errors' = errors + 1 /\ Cardinality(Again) <= errors
            BY <1>1, <5>2 DEF Failed, AddsInARow, Again
          <6> QED
            BY <1>1, <1>2, <6>1
        <5>4. Ready'
          BY <1>1, <1>2, <4>2, <5>1, <5>3 DEF Ready
        <5> QED
          BY <1>1, <1>3, <1>4, <3>3, <4>1, <5>2, <5>4 DEF RowInvariant
      <4>4. CASE ~Unknown(calls[c])
        <5>1. \A d \in Calls : Unknown(calls'[d]) => Unknown(calls[d])
          BY <3>2
        <5>2. (\A d \in Calls : ~Unknown(calls'[d])) => \A d \in Calls : ~Unknown(calls[d])
          BY <3>2, <4>4
        <5> QED
          BY <1>1, <1>3, <1>4, <3>2, <4>1, <4>2, <5>1, <5>2 DEF RowInvariant
      <4> QED
        BY <4>3, <4>4
    <3> QED
      BY <3>4, <3>5
  <2> QED
    BY <2>2, <2>3
<1> QED
  BY <1>5, <1>6

\* Every step keeps the entries in a row.
LEMMA RowStep == FormInvariant /\ RowInvariant /\ [HNext]_hvars => RowInvariant'
<1> SUFFICES ASSUME FormInvariant, RowInvariant, [HNext]_hvars PROVE RowInvariant'
  OBVIOUS
<1>1. CASE Touched
  <2>1. made' = <<>> /\ errors' = 0
    BY <1>1 DEF Touched
  <2>2. Again' = {} /\ made' \in Seq(Intervals) /\ 1..Len(made') = {} /\ 2..Len(made') = {}
    BY <2>1 DEF Again
  <2>3. AddsInARow'
    BY <2>1, <2>2, FS_EmptySet DEF AddsInARow, Again
  <2> QED
    BY <2>1, <2>2, <2>3 DEF RowInvariant
<1>2. CASE Other
  BY <1>2, OtherKeepsRow
<1>3. ASSUME NEW c \in Calls, HRequest(c) PROVE RowInvariant'
  BY <1>3, ServedKeepsRow, AnswerKeepsRow
<1>4. CASE UNCHANGED hvars
  <2>1. Again' = Again /\ Interval(form)' = Interval(form)
    BY <1>4 DEF hvars, Again, Interval
  <2>2. (AddsInARow => AddsInARow') /\ (Ready => Ready')
    BY <1>4, <2>1 DEF hvars, AddsInARow, Ready, Again
  <2> QED
    BY <1>4, <2>1, <2>2 DEF hvars, RowInvariant
<1> QED
  BY <1>1, <1>2, <1>3, <1>4 DEF HNext

\* Entries that are added one after the other with the times the form fills in follow on
\* one another, and none is made twice but after an error: of any number of entries,
\* although an error may come when the entry was made, and the form may be made anew
\* while it waits.
THEOREM RowHolds == HSpec => []AddsInARow
<1>1. HInit => RowInvariant
  BY EmptyRow DEF HInit
<1>2. RowInvariant => AddsInARow
  BY DEF RowInvariant
<1> QED
  BY <1>1, <1>2, RowStep, FormInvariantHolds, PTL DEF HSpec

----------------------------------------------------------------------------
(* How a text is read. *)

\* The first and the last of two marks.
LEMMA MarkEnds ==
    ASSUME NEW i \in Int, NEW j \in Int, i <= j
    PROVE  Min({i, j}) = i /\ Max({i, j}) = j
BY DEF Min, Max

\* Of one mark.
LEMMA MarkEnd ==
    ASSUME NEW i \in Int
    PROVE  Min({i}) = i /\ Max({i}) = i
BY DEF Min, Max

\* What ParseTime reads in a text of each shape: digits only,
LEMMA ReadDigits ==
    ASSUME NEW t, Marks(t) = {}
    PROVE  ParseTime(t) = ParseDigits(t)
BY DEF ParseTime

\* an hour and a minute,
LEMMA ReadColon ==
    ASSUME NEW t, NEW n \in Nat, NEW i \in 1..n, Len(t) = n,
           Marks(t) = {i}, t[i] = Colon, i - 1 \in 1..2, n - i \in 1..2
    PROVE  ParseTime(t) = Clock(Number(t, 1, i - 1), Number(t, i + 1, n))
<1>1. i \in Int /\ Marks(t) # {}
  OBVIOUS
<1>2. Min(Marks(t)) = i /\ Max(Marks(t)) = i
  BY <1>1, MarkEnd
<1>3. (i - 1) - 1 \in 0..1 /\ n - (i + 1) \in 0..1 /\ ~(i < i) /\ Colon # Point
  BY DEF Colon, Point
<1> QED
  BY <1>1, <1>2, <1>3 DEF ParseTime

\* a decimal number of hours,
LEMMA ReadPoint ==
    ASSUME NEW t, NEW n \in Nat, NEW i \in 1..n, Len(t) = n,
           Marks(t) = {i}, t[i] = Point, 1 < i, i < n
    PROVE  ParseTime(t) = Clock(Hours(t, i) \div 60, Hours(t, i) % 60)
<1>1. i \in Int /\ Marks(t) # {}
  OBVIOUS
<1>2. Min(Marks(t)) = i /\ Max(Marks(t)) = i
  BY <1>1, MarkEnd
<1>3. ~(i < i) /\ Colon # Point
  BY DEF Colon, Point
<1> QED
  BY <1>1, <1>2, <1>3 DEF ParseTime

\* an hour, a minute and a second.
LEMMA ReadColons ==
    ASSUME NEW t, NEW n \in Nat, NEW i \in 1..n, NEW j \in 1..n, Len(t) = n, i < j,
           Marks(t) = {i, j}, t[i] = Colon, t[j] = Colon,
           i - 1 \in 1..2, j - i - 1 \in 1..2, n - j \in 1..2
    PROVE  ParseTime(t) = IF Number(t, j + 1, n) > 59 THEN None
                          ELSE Clock(Number(t, 1, i - 1), Number(t, i + 1, j - 1))
<1>1. i \in Int /\ j \in Int /\ i <= j /\ Marks(t) # {} /\ Marks(t) # {i}
  OBVIOUS
<1>2. Min(Marks(t)) = i /\ Max(Marks(t)) = j
  BY <1>1, MarkEnds
<1>3. (i - 1) - 1 \in 0..1 /\ (j - 1) - (i + 1) \in 0..1 /\ n - (j + 1) \in 0..1
  OBVIOUS
<1> QED
  BY <1>1, <1>2, <1>3 DEF ParseTime

\* A text with a mark that is read as a time has one of these shapes.
LEMMA ReadOnly ==
    ASSUME NEW t, NEW n \in Nat, Len(t) = n, ParseTime(t) # None, Marks(t) # {}
    PROVE  \/ \E i \in 1..n :
                 /\ Marks(t) = {i} /\ t[i] = Colon
                 /\ i - 1 \in 1..2 /\ n - i \in 1..2
           \/ \E i \in 1..n : Marks(t) = {i} /\ t[i] = Point /\ 1 < i /\ i < n
           \/ \E i, j \in 1..n :
                 /\ i < j /\ Marks(t) = {i, j} /\ t[i] = Colon /\ t[j] = Colon
                 /\ i - 1 \in 1..2 /\ j - i - 1 \in 1..2 /\ n - j \in 1..2
<1> DEFINE i == Min(Marks(t))
           j == Max(Marks(t))
<1>1. Marks(t) \subseteq 1..n
  BY DEF Marks
<1>2. \/ Marks(t) = {i} /\ t[i] = Colon /\ i - 2 \in 0..1 /\ n - (i + 1) \in 0..1
      \/ Marks(t) = {i} /\ t[i] = Point /\ 1 < i /\ i < n
      \/ /\ i < j /\ Marks(t) = {i, j} /\ t[i] = Colon /\ t[j] = Colon
         /\ (i - 1) - 1 \in 0..1 /\ (j - 1) - (i + 1) \in 0..1 /\ n - (j + 1) \in 0..1
  BY DEF ParseTime
<1> QED
  BY <1>1, <1>2

----------------------------------------------------------------------------
(* Numerals. *)

\* The number in a piece of a text is that of the piece.
LEMMA SameNumber ==
    ASSUME NEW t, NEW a, NEW i \in Nat, NEW v \in Nat, \A k \in 1..v : t[i + k] = a[k]
    PROVE  Number(t, i + 1, i + v) = Number(a, 1, v)
<1>1. ASSUME NEW k \in Nat
      PROVE  (IF i + 1 <= i + v - k THEN t[i + v - k] ELSE 0)
                = (IF 1 <= v - k THEN a[v - k] ELSE 0)
  <2>1. CASE 1 <= v - k
    <3>1. v - k \in 1..v /\ i + v - k = i + (v - k)
      BY <2>1
    <3> QED
      BY <2>1, <3>1
  <2>2. CASE ~(1 <= v - k)
    BY <2>2
  <2> QED
    BY <2>1, <2>2
<1> QED
  BY <1>1 DEF Number

\* Powers of ten.
LEMMA Tens ==
    /\ Ten(1) = 10 /\ Ten(2) = 100
    /\ \A k \in 1..6 : Ten(k) \in Nat \ {0} /\ (k > 1 => Ten(k) >= 100)
<1>1. /\ Ten(1) = 10 /\ Ten(2) = 100 /\ Ten(3) = 1000
      /\ Ten(4) = 10000 /\ Ten(5) = 100000 /\ Ten(6) = 1000000
  BY SMT DEF Ten
<1>2. \A k \in 1..6 : Ten(k) \in Nat \ {0} /\ (k > 1 => Ten(k) >= 100)
  BY <1>1, SMT
<1> QED
  BY <1>1, <1>2, SMT

\* A numeral of a number below a hundred is made of digits, and is read as that number.
LEMMA NumeralRead ==
    ASSUME NEW x \in 0..99, NEW width \in 1..6, NEW a \in Numerals(x, width)
    PROVE  /\ a \in Seq(Digit) /\ Len(a) \in 1..width
           /\ Number(a, 1, Len(a)) = x
<1>1. PICK w \in 1..width :
         /\ x < Ten(w)
         /\ a = [i \in 1..w |-> IF i = w THEN x % 10 ELSE (x \div Ten(w - i)) % 10]
  BY DEF Numerals
<1>3. \A i \in 1..w : a[i] = IF i = w THEN x % 10 ELSE (x \div Ten(w - i)) % 10
  BY <1>1
<1>4. \A i \in 1..w : /\ a[i] \in 0..9
                      /\ i < w - 1 => a[i] = 0
                      /\ i = w - 1 => a[i] = x \div 10
                      /\ i = w => a[i] = x % 10
  <2> TAKE i \in 1..w
  <2>1. CASE i = w
    BY <1>3, <2>1
  <2>2. CASE i = w - 1
    <3>1. a[i] = (x \div 10) % 10
      BY <1>3, Tens, <2>2
    <3>2. (x \div 10) % 10 = x \div 10 /\ x \div 10 \in 0..9
      OBVIOUS
    <3> QED
      BY <2>2, <3>1, <3>2
  <2>3. CASE i < w - 1
    <3>1. w - i \in 1..6 /\ w - i > 1
      BY <2>3
    <3>2. Ten(w - i) \in Nat /\ Ten(w - i) >= 100
      BY Tens, <3>1
    <3>3. x \div Ten(w - i) = 0
      BY <3>2
    <3>4. a[i] = 0
      BY <1>3, <2>3, <3>3
    <3> QED
      BY <2>3, <3>4
  <2> QED
    BY <2>1, <2>2, <2>3
<1>5. a \in Seq(Digit) /\ Len(a) = w
  <2>1. a \in [1..w -> Digit]
    BY <1>1, <1>4 DEF Digit
  <2> QED
    BY <2>1
<1>6. Number(a, 1, w) = x
  <2>1. \A k \in 2..5 : (IF 1 <= w - k THEN a[w - k] ELSE 0) = 0
    BY <1>4
  <2>2. (IF 1 <= w - 0 THEN a[w - 0] ELSE 0) = x % 10
    BY <1>4
  <2>3. (IF 1 <= w - 1 THEN a[w - 1] ELSE 0) = x \div 10
    <3>1. CASE w = 1
      <4>1. x < 10
        BY <1>1, Tens, <3>1
      <4> QED
        BY <3>1, <4>1
    <3>2. CASE w > 1
      BY <1>4, <3>2
    <3> QED
      BY <3>1, <3>2
  <2>4. Number(a, 1, w) = (x % 10) + 10 * (x \div 10)
    BY <2>1, <2>2, <2>3 DEF Number
  <2> QED
    BY <2>4
<1> QED
  BY <1>5, <1>6

\* The two digits of a number below a hundred are the only ones.
LEMMA TwoDigits ==
    ASSUME NEW x \in 0..99, NEW q \in 0..9, NEW r \in 0..9, x = 10 * q + r
    PROVE  r = x % 10 /\ q = x \div 10
<1>1. x = 10 * (x \div 10) + (x % 10) /\ (x % 10) \in 0..9 /\ (x \div 10) \in 0..9
  OBVIOUS
<1> DEFINE p == x \div 10
           s == x % 10
<1>2. p \in 0..9 /\ s \in 0..9 /\ 10 * q + r = 10 * p + s
  BY <1>1
<1> HIDE DEF p, s
<1>3. q = p /\ r = s
  BY <1>2
<1> QED
  BY <1>3 DEF p, s

\* The digits of a number below a hundred.
LEMMA LastDigits ==
    ASSUME NEW x \in 0..99, NEW d \in [0..5 -> 0..9],
           x = d[0] + 10 * (d[1] + 10 * (d[2] + 10 * (d[3] + 10 * (d[4] + 10 * d[5]))))
    PROVE  /\ d[0] = x % 10 /\ d[1] = x \div 10
           /\ \A k \in 2..5 : d[k] = 0
<1>1. \A k \in 0..5 : d[k] \in 0..9
  OBVIOUS
<1>2. PICK d0 \in 0..9 : d0 = d[0]
  BY <1>1
<1>3. PICK d1 \in 0..9 : d1 = d[1]
  BY <1>1
<1>4. PICK d2 \in 0..9 : d2 = d[2]
  BY <1>1
<1>5. PICK d3 \in 0..9 : d3 = d[3]
  BY <1>1
<1>6. PICK d4 \in 0..9 : d4 = d[4]
  BY <1>1
<1>7. PICK d5 \in 0..9 : d5 = d[5]
  BY <1>1
<1>8. x = d0 + 10 * (d1 + 10 * (d2 + 10 * (d3 + 10 * (d4 + 10 * d5))))
  BY <1>2, <1>3, <1>4, <1>5, <1>6, <1>7, Zenon
<1>9. x = 10 * d1 + d0 /\ d2 = 0 /\ d3 = 0 /\ d4 = 0 /\ d5 = 0
  <2>1. d5 = 0
    BY <1>8
  <2>2. d4 = 0
    BY <1>8, <2>1
  <2>3. d3 = 0
    BY <1>8, <2>1, <2>2
  <2>4. d2 = 0
    BY <1>8, <2>1, <2>2, <2>3
  <2>5. x = 10 * d1 + d0
    BY <1>8, <2>1, <2>2, <2>3, <2>4
  <2> QED
    BY <2>1, <2>2, <2>3, <2>4, <2>5
<1>10. d0 = x % 10 /\ d1 = x \div 10
  BY <1>9, TwoDigits
<1>11. d[2] = 0 /\ d[3] = 0 /\ d[4] = 0 /\ d[5] = 0
  BY <1>4, <1>5, <1>6, <1>7, <1>9, Zenon
<1>12. \A k \in 2..5 : d[k] = 0
  BY <1>11
<1> QED
  BY <1>2, <1>3, <1>10, <1>12, Zenon

\* Digits with a small number are a numeral of it.
LEMMA NumeralWritten ==
    ASSUME NEW width \in 1..6, NEW w \in 1..width, NEW a \in [1..w -> Digit],
           NEW x \in 0..99, Number(a, 1, w) = x
    PROVE  a \in Numerals(x, width)
<1> DEFINE d == [k \in 0..5 |-> IF 1 <= w - k THEN a[w - k] ELSE 0]
<1>1. d \in [0..5 -> 0..9]
  BY DEF Digit
<1>2. x = d[0] + 10 * (d[1] + 10 * (d[2] + 10 * (d[3] + 10 * (d[4] + 10 * d[5]))))
  BY DEF Number
<1>3. \A i \in 1..w : w - i \in 0..5 /\ a[i] = d[w - i]
  <2> TAKE i \in 1..w
  <2>1. w - i \in 0..5 /\ 1 <= w - (w - i) /\ w - (w - i) = i
    BY SMTT(30)
  <2> QED
    BY <2>1
<1> HIDE DEF d
<1>4. d[0] = x % 10 /\ d[1] = x \div 10
  BY <1>1, <1>2, LastDigits, ZenonT(60)
<1>5. \A k \in 2..5 : d[k] = 0
  BY <1>1, <1>2, LastDigits
<1>6. d[1] = 0 => x < 10
  BY <1>4
<1>7. \A i \in 1..w : a[i] = IF i = w THEN x % 10 ELSE (x \div Ten(w - i)) % 10
  <2> TAKE i \in 1..w
  <2>1. a[i] = d[w - i] /\ w - i \in 0..5
    BY <1>3
  <2>2. CASE i = w
    BY <1>4, <2>1, <2>2
  <2>3. CASE i = w - 1
    <3>1. (x \div 10) % 10 = x \div 10
      OBVIOUS
    <3> QED
      BY <1>4, Tens, <2>1, <2>3, <3>1, SMTT(30)
  <2>4. CASE i < w - 1
    <3>0. w - i \in 1..6 /\ w - i > 1
      BY <2>4
    <3>1. Ten(w - i) \in Nat /\ Ten(w - i) >= 100
      BY Tens, <3>0
    <3>2. x \div Ten(w - i) = 0
      BY <3>1
    <3>3. a[i] = 0
      BY <1>5, <2>1, <2>4
    <3> QED
      BY <2>4, <3>2, <3>3
  <2> QED
    BY <2>2, <2>3, <2>4
<1>8. x < Ten(w)
  <2>1. CASE w = 1
    <3>1. d[1] = 0
      BY <2>1 DEF d
    <3>2. x < 10
      BY <1>6, <3>1
    <3> QED
      BY Tens, <2>1, <3>2
  <2>2. CASE w > 1
    BY Tens, <2>2
  <2> QED
    BY <2>1, <2>2
<1>9. a = [i \in 1..w |-> IF i = w THEN x % 10 ELSE (x \div Ten(w - i)) % 10]
  BY <1>7
<1> QED
  BY <1>8, <1>9 DEF Numerals

----------------------------------------------------------------------------
(* What is written is read. *)

\* The symbols of two texts and one between them.
LEMMA Joined ==
    ASSUME NEW a \in Seq(Symbol), NEW b \in Seq(Symbol), NEW c \in Symbol
    PROVE  /\ a \o <<c>> \o b \in Seq(Symbol)
           /\ Len(a \o <<c>> \o b) = Len(a) + 1 + Len(b)
           /\ \A k \in 1..Len(a) : (a \o <<c>> \o b)[k] = a[k]
           /\ (a \o <<c>> \o b)[Len(a) + 1] = c
           /\ \A k \in 1..Len(b) : (a \o <<c>> \o b)[Len(a) + 1 + k] = b[k]
<1> DEFINE u == a \o <<c>>
<1>1. <<c>> \in Seq(Symbol) /\ Len(<<c>>) = 1 /\ <<c>>[1] = c
  OBVIOUS
<1>2. /\ u \in Seq(Symbol) /\ Len(u) = Len(a) + 1
      /\ \A i \in 1..Len(a) + 1 : u[i] = IF i <= Len(a) THEN a[i] ELSE <<c>>[i - Len(a)]
  BY <1>1, ConcatProperties
<1>3. Len(a) \in Nat /\ Len(b) \in Nat
  BY LenProperties
<1>4. u[Len(a) + 1] = c
  <2>1. ~(Len(a) + 1 <= Len(a)) /\ Len(a) + 1 - Len(a) = 1 /\ Len(a) + 1 \in 1..Len(a) + 1
    BY <1>3
  <2> QED
    BY <1>1, <1>2, <2>1
<1>5. \A k \in 1..Len(a) : u[k] = a[k]
  BY <1>2, <1>3
<1> HIDE DEF u
<1>6. /\ u \o b \in Seq(Symbol) /\ Len(u \o b) = Len(a) + 1 + Len(b)
      /\ \A i \in 1..Len(a) + 1 + Len(b) :
            (u \o b)[i] = IF i <= Len(a) + 1 THEN u[i] ELSE b[i - (Len(a) + 1)]
  <2>1. /\ u \o b \in Seq(Symbol) /\ Len(u \o b) = Len(u) + Len(b)
        /\ \A i \in 1..Len(u) + Len(b) :
              (u \o b)[i] = IF i <= Len(u) THEN u[i] ELSE b[i - Len(u)]
    BY <1>2, ConcatProperties, ZenonT(60)
  <2> QED
    BY <1>2, <2>1, Zenon
<1>7. \A k \in 1..Len(a) : (u \o b)[k] = a[k]
  BY <1>3, <1>5, <1>6
<1>8. (u \o b)[Len(a) + 1] = c
  BY <1>3, <1>4, <1>6
<1>9. ASSUME NEW k \in 1..Len(b)
      PROVE  (u \o b)[Len(a) + 1 + k] = b[k]
  <2>1. /\ Len(a) + 1 + k \in 1..Len(a) + 1 + Len(b) /\ ~(Len(a) + 1 + k <= Len(a) + 1)
        /\ Len(a) + 1 + k - (Len(a) + 1) = k
    BY <1>3
  <2> QED
    BY <1>6, <2>1
<1>10. /\ u \o b \in Seq(Symbol) /\ Len(u \o b) = Len(a) + 1 + Len(b)
       /\ \A k \in 1..Len(a) : (u \o b)[k] = a[k]
       /\ (u \o b)[Len(a) + 1] = c
       /\ \A k \in 1..Len(b) : (u \o b)[Len(a) + 1 + k] = b[k]
  BY <1>6, <1>7, <1>8, <1>9
<1> QED
  BY <1>10 DEF u

\* Digits are symbols, and are no marks; Colon and Point are.
LEMMA Kinds ==
    /\ Digit \subseteq Symbol /\ Colon \in Symbol \ Digit /\ Point \in Symbol \ Digit
    /\ Colon # Point /\ Symbol \ Digit = {Colon, Point}
BY DEF Symbol, Digit, Colon, Point

\* A text of digits is a text.
LEMMA DigitsAreSymbols ==
    ASSUME NEW a \in Seq(Digit)
    PROVE  a \in Seq(Symbol) /\ Len(a) \in Nat /\ \A k \in 1..Len(a) : a[k] \in Digit
<1>1. Len(a) \in Nat /\ a \in [1..Len(a) -> Digit]
  BY LenProperties
<1>2. a \in [1..Len(a) -> Symbol]
  BY <1>1, Kinds
<1> QED
  BY <1>1, <1>2

\* The numbers before and after the one mark of a text.
LEMMA OneMark ==
    ASSUME NEW a \in Seq(Digit), NEW b \in Seq(Digit), NEW c \in {Colon, Point}
    PROVE  LET t == a \o <<c>> \o b
           IN  /\ Len(t) = Len(a) + 1 + Len(b) /\ t[Len(a) + 1] = c
               /\ Marks(t) = {Len(a) + 1}
               /\ Number(t, 1, Len(a)) = Number(a, 1, Len(a))
               /\ Number(t, Len(a) + 2, Len(t)) = Number(b, 1, Len(b))
<1> DEFINE t == a \o <<c>> \o b
<1>1. /\ Len(a) \in Nat /\ Len(b) \in Nat
      /\ \A k \in 1..Len(a) : a[k] \in Digit
      /\ \A k \in 1..Len(b) : b[k] \in Digit
      /\ a \in Seq(Symbol) /\ b \in Seq(Symbol) /\ c \in Symbol \ Digit
  BY DigitsAreSymbols, Kinds
<1>2. /\ Len(t) = Len(a) + 1 + Len(b) /\ t[Len(a) + 1] = c
      /\ \A k \in 1..Len(a) : t[k] = a[k]
      /\ \A k \in 1..Len(b) : t[Len(a) + 1 + k] = b[k]
  BY <1>1, Joined
<1> HIDE DEF t
<1>3. Marks(t) = {Len(a) + 1}
  <2>1. ASSUME NEW k \in 1..Len(t), k # Len(a) + 1
        PROVE  t[k] \in Digit
    <3>1. CASE k <= Len(a)
      BY <1>1, <1>2, <3>1
    <3>2. CASE k > Len(a)
      <4>1. k - (Len(a) + 1) \in 1..Len(b) /\ Len(a) + 1 + (k - (Len(a) + 1)) = k
        BY <1>1, <1>2, <2>1, <3>2
      <4> QED
        BY <1>1, <1>2, <4>1
    <3> QED
      BY <1>1, <3>1, <3>2
  <2>2. Len(a) + 1 \in 1..Len(t)
    BY <1>1, <1>2
  <2> QED
    BY <1>1, <1>2, <2>1, <2>2 DEF Marks
<1>4. Number(t, 1, Len(a)) = Number(a, 1, Len(a))
  <2>1. 0 \in Nat /\ Len(a) \in Nat /\ \A k \in 1..Len(a) : t[0 + k] = a[k]
    BY <1>1, <1>2
  <2>2. Number(t, 0 + 1, 0 + Len(a)) = Number(a, 1, Len(a))
    BY <2>1, SameNumber, ZenonT(60)
  <2>3. 0 + 1 = 1 /\ 0 + Len(a) = Len(a)
    BY <1>1
  <2> QED
    BY <2>2, <2>3
<1>5. Number(t, Len(a) + 2, Len(t)) = Number(b, 1, Len(b))
  <2>1. /\ Len(a) + 1 \in Nat /\ Len(b) \in Nat
        /\ \A k \in 1..Len(b) : t[Len(a) + 1 + k] = b[k]
    BY <1>1, <1>2
  <2>2. Number(t, Len(a) + 1 + 1, Len(a) + 1 + Len(b)) = Number(b, 1, Len(b))
    BY <2>1, SameNumber, ZenonT(60)
  <2>3. Len(a) + 1 + 1 = Len(a) + 2
    BY <1>1
  <2> QED
    BY <1>2, <2>2, <2>3
<1> QED
  BY <1>2, <1>3, <1>4, <1>5 DEF t

\* Writing by writing: h:m,
LEMMA HourAndMinuteRead ==
    ASSUME NEW h \in 0..23, NEW m \in 0..59, NEW a \in Numerals(h, 2), NEW b \in Numerals(m, 2)
    PROVE  ParseTime(a \o <<Colon>> \o b) = 60 * h + m
<1> DEFINE t == a \o <<Colon>> \o b
           i == Len(a) + 1
<1>1. /\ a \in Seq(Digit) /\ Len(a) \in 1..2 /\ Number(a, 1, Len(a)) = h
      /\ b \in Seq(Digit) /\ Len(b) \in 1..2 /\ Number(b, 1, Len(b)) = m
  <2>1. h \in 0..99 /\ m \in 0..99 /\ 2 \in 1..6
    OBVIOUS
  <2> QED
    BY <2>1, NumeralRead, Zenon
<1>2. /\ Len(t) = Len(a) + 1 + Len(b) /\ t[i] = Colon /\ Marks(t) = {i}
      /\ Number(t, 1, Len(a)) = h /\ Number(t, i + 1, Len(t)) = m
  <2>1. i + 1 = Len(a) + 2
    BY <1>1
  <2>2. /\ Len(t) = Len(a) + 1 + Len(b) /\ t[Len(a) + 1] = Colon
        /\ Marks(t) = {Len(a) + 1}
        /\ Number(t, 1, Len(a)) = Number(a, 1, Len(a))
        /\ Number(t, Len(a) + 2, Len(t)) = Number(b, 1, Len(b))
    <3>1. a \in Seq(Digit) /\ b \in Seq(Digit) /\ Colon \in {Colon, Point}
      BY <1>1
    <3> QED
      BY <3>1, OneMark
  <2> HIDE DEF t
  <2> QED
    BY <1>1, <2>1, <2>2
<1> HIDE DEF t
<1>3. /\ Len(t) \in Nat /\ i \in 1..Len(t) /\ i - 1 \in 1..2 /\ Len(t) - i \in 1..2
      /\ i - 1 = Len(a)
  BY <1>1, <1>2
<1> HIDE DEF i
<1>4. ParseTime(t) = Clock(Number(t, 1, i - 1), Number(t, i + 1, Len(t)))
  BY <1>2, <1>3, ReadColon
<1>5. ParseTime(t) = Clock(h, m)
  BY <1>2, <1>3, <1>4
<1>6. ParseTime(t) = 60 * h + m
  BY <1>5 DEF Clock
<1> QED
  BY <1>6 DEF t

\* The decimals that are rounded to m minutes.
LEMMA FractionRead ==
    ASSUME NEW m \in 0..59, NEW b \in Fractions(m)
    PROVE  /\ b \in Seq(Digit) /\ Len(b) \in 1..2
           /\ Round(60 * Number(b, 1, Len(b)), Ten(Len(b))) = m
<1>1. PICK x \in Hundredths(m) : \/ b = <<x \div 10, x % 10>>
                                 \/ b = <<x \div 10>> /\ x % 10 = 0
  BY DEF Fractions
<1>2. x \in 0..99 /\ 3 * x - 5 * m \in -2 .. 2
  BY DEF Hundredths
<1>3. /\ (x \div 10) \in Digit /\ (x % 10) \in Digit
      /\ x = 10 * (x \div 10) + (x % 10)
  BY <1>2 DEF Digit
<1> DEFINE q == x \div 10
           r == x % 10
<1>4. /\ q \in Digit /\ r \in Digit /\ q \in Int /\ r \in Int /\ x = 10 * q + r
      /\ \/ b = <<q, r>>
         \/ b = <<q>> /\ r = 0
  BY <1>1, <1>3 DEF Digit
<1> HIDE DEF q, r
<1>5. CASE b = <<q, r>>
  <2>1. b \in Seq(Digit) /\ Len(b) = 2
    BY <1>4, <1>5
  <2>2. Number(b, 1, 2) = x
    <3>1. /\ 1 <= 2 - 0 /\ 2 - 0 = 2 /\ 1 <= 2 - 1 /\ 2 - 1 = 1
          /\ ~(1 <= 2 - 2) /\ ~(1 <= 2 - 3) /\ ~(1 <= 2 - 4) /\ ~(1 <= 2 - 5)
      OBVIOUS
    <3>2. b[1] = q /\ b[2] = r
      BY <1>5
    <3>3. Number(b, 1, 2) = r + 10 * (q + 10 * (0 + 10 * (0 + 10 * (0 + 10 * 0))))
      BY <3>1, <3>2 DEF Number
    <3> QED
      BY <1>4, <3>3
  <2>3. Round(60 * x, 100) = m
    BY <1>2 DEF Round
  <2> QED
    BY <2>1, <2>2, <2>3, Tens
<1>6. CASE b = <<q>> /\ r = 0
  <2>1. b \in Seq(Digit) /\ Len(b) = 1
    BY <1>4, <1>6
  <2>2. Number(b, 1, 1) = q
    <3>1. /\ 1 <= 1 - 0 /\ 1 - 0 = 1 /\ ~(1 <= 1 - 1)
          /\ ~(1 <= 1 - 2) /\ ~(1 <= 1 - 3) /\ ~(1 <= 1 - 4) /\ ~(1 <= 1 - 5)
      OBVIOUS
    <3>2. b[1] = q
      BY <1>6
    <3>3. Number(b, 1, 1) = q + 10 * (0 + 10 * (0 + 10 * (0 + 10 * (0 + 10 * 0))))
      BY <3>1, <3>2 DEF Number
    <3> QED
      BY <1>4, <3>3
  <2>3. m = 6 * q
    BY <1>2, <1>4, <1>6
  <2>4. Round(60 * q, 10) = m
    BY <1>4, <2>3 DEF Round
  <2> QED
    BY <2>1, <2>2, <2>4, Tens
<1> QED
  BY <1>4, <1>5, <1>6

\* hours with tenths or hundredths,
LEMMA DecimalRead ==
    ASSUME NEW h \in 0..23, NEW m \in 0..59, NEW a \in Numerals(h, 6), NEW b \in Fractions(m)
    PROVE  ParseTime(a \o <<Point>> \o b) = 60 * h + m
<1> DEFINE t == a \o <<Point>> \o b
           i == Len(a) + 1
<1>1. /\ a \in Seq(Digit) /\ Len(a) \in 1..6 /\ Number(a, 1, Len(a)) = h
      /\ b \in Seq(Digit) /\ Len(b) \in 1..2
      /\ Round(60 * Number(b, 1, Len(b)), Ten(Len(b))) = m
  <2>1. h \in 0..99 /\ 6 \in 1..6
    OBVIOUS
  <2> QED
    BY <2>1, NumeralRead, FractionRead, Zenon
<1>2. /\ Len(t) = Len(a) + 1 + Len(b) /\ t[i] = Point /\ Marks(t) = {i}
      /\ Number(t, 1, Len(a)) = h /\ Number(t, i + 1, Len(t)) = Number(b, 1, Len(b))
  <2>1. i + 1 = Len(a) + 2
    BY <1>1
  <2>2. /\ Len(t) = Len(a) + 1 + Len(b) /\ t[Len(a) + 1] = Point
        /\ Marks(t) = {Len(a) + 1}
        /\ Number(t, 1, Len(a)) = Number(a, 1, Len(a))
        /\ Number(t, Len(a) + 2, Len(t)) = Number(b, 1, Len(b))
    <3>1. a \in Seq(Digit) /\ b \in Seq(Digit) /\ Point \in {Colon, Point}
      BY <1>1
    <3> QED
      BY <3>1, OneMark
  <2> HIDE DEF t
  <2> QED
    BY <1>1, <2>1, <2>2
<1> HIDE DEF t
<1>3. /\ Len(t) \in Nat /\ i \in 1..Len(t) /\ 1 < i /\ i < Len(t)
      /\ i - 1 = Len(a) /\ Len(t) - i = Len(b)
  <2>1. PICK p \in 1..6, q \in 1..2 : Len(a) = p /\ Len(b) = q
    BY <1>1
  <2>2. Len(t) = p + 1 + q /\ i = p + 1
    BY <1>2, <2>1
  <2> HIDE DEF i
  <2> QED
    BY <2>1, <2>2
<1> HIDE DEF i
<1>4. ParseTime(t) = Clock(Hours(t, i) \div 60, Hours(t, i) % 60)
  BY <1>2, <1>3, ReadPoint
<1>5. Hours(t, i) = 60 * h + m
  BY <1>1, <1>2, <1>3 DEF Hours
<1>6. (60 * h + m) \div 60 = h /\ (60 * h + m) % 60 = m
  OBVIOUS
<1>7. ParseTime(t) = Clock(h, m)
  BY <1>4, <1>5, <1>6
<1>8. ParseTime(t) = 60 * h + m
  BY <1>7 DEF Clock
<1> QED
  BY <1>8 DEF t

\* h:m:s,
LEMMA SecondsRead ==
    ASSUME NEW h \in 0..23, NEW m \in 0..59, NEW s \in 0..59,
           NEW a \in Numerals(h, 2), NEW b \in Numerals(m, 2), NEW e \in Numerals(s, 2)
    PROVE  ParseTime(a \o <<Colon>> \o b \o <<Colon>> \o e) = 60 * h + m
<1> DEFINE u == a \o <<Colon>> \o b
           t == u \o <<Colon>> \o e
           i == Len(a) + 1
           j == Len(u) + 1
<1>1. /\ a \in Seq(Digit) /\ Len(a) \in 1..2 /\ Number(a, 1, Len(a)) = h
      /\ b \in Seq(Digit) /\ Len(b) \in 1..2 /\ Number(b, 1, Len(b)) = m
      /\ e \in Seq(Digit) /\ Len(e) \in 1..2 /\ Number(e, 1, Len(e)) = s
  <2>1. h \in 0..99 /\ m \in 0..99 /\ s \in 0..99 /\ 2 \in 1..6
    OBVIOUS
  <2> QED
    BY <2>1, NumeralRead, Zenon
<1>2. /\ a \in Seq(Symbol) /\ b \in Seq(Symbol) /\ e \in Seq(Symbol)
      /\ \A k \in 1..Len(a) : a[k] \in Digit
      /\ \A k \in 1..Len(b) : b[k] \in Digit
      /\ \A k \in 1..Len(e) : e[k] \in Digit
      /\ Colon \in Symbol /\ Colon \notin Digit
  BY <1>1, DigitsAreSymbols, Kinds
<1>3. /\ u \in Seq(Symbol) /\ Len(u) = Len(a) + 1 + Len(b)
      /\ \A k \in 1..Len(a) : u[k] = a[k]
      /\ u[Len(a) + 1] = Colon
      /\ \A k \in 1..Len(b) : u[Len(a) + 1 + k] = b[k]
  BY <1>2, Joined
<1> HIDE DEF u
<1>4. /\ Len(t) = Len(u) + 1 + Len(e)
      /\ \A k \in 1..Len(u) : t[k] = u[k]
      /\ t[Len(u) + 1] = Colon
      /\ \A k \in 1..Len(e) : t[Len(u) + 1 + k] = e[k]
  <2>1. u \in Seq(Symbol) /\ e \in Seq(Symbol) /\ Colon \in Symbol
    BY <1>2, <1>3
  <2> QED
    BY <2>1, Joined, ZenonT(60)
<1> HIDE DEF t
<1>5. PICK p \in 1..2, q \in 1..2, r \in 1..2 : p = Len(a) /\ q = Len(b) /\ r = Len(e)
  BY <1>1
<1>6. i = p + 1 /\ j = p + q + 2 /\ Len(u) = p + 1 + q /\ Len(t) = p + q + r + 2
  BY <1>3, <1>4, <1>5
<1>7. /\ \A k \in 1..p : t[k] = a[k]
      /\ \A k \in 1..q : t[i + k] = b[k]
      /\ \A k \in 1..r : t[j + k] = e[k]
      /\ t[i] = Colon /\ t[j] = Colon
  <2>1. \A k \in 1..p : t[k] = a[k]
    BY <1>3, <1>4, <1>5, <1>6
  <2>2. \A k \in 1..q : t[i + k] = b[k]
    <3> TAKE k \in 1..q
    <3>1. i + k \in 1..Len(u)
      BY <1>6
    <3>2. t[i + k] = u[i + k] /\ u[i + k] = b[k]
      BY <1>3, <1>4, <1>5, <3>1
    <3> QED
      BY <3>2
  <2>3. \A k \in 1..r : t[j + k] = e[k]
    BY <1>4, <1>5
  <2>4. t[i] = Colon /\ t[j] = Colon
    <3>1. i \in 1..Len(u)
      BY <1>6
    <3> QED
      BY <1>3, <1>4, <3>1
  <2> QED
    BY <2>1, <2>2, <2>3, <2>4
<1> HIDE DEF i, j
<1>8. Marks(t) = {i, j}
  <2>1. ASSUME NEW k \in 1..Len(t), k # i, k # j
        PROVE  t[k] \in Digit
    <3>1. CASE k \in 1..p
      BY <1>2, <1>5, <1>7, <3>1
    <3>2. CASE k - i \in 1..q
      <4>1. i + (k - i) = k
        BY <1>6
      <4>2. t[k] = b[k - i]
        BY <1>7, <3>2, <4>1
      <4> QED
        BY <1>2, <1>5, <3>2, <4>2
    <3>3. CASE k - j \in 1..r
      <4>1. j + (k - j) = k
        BY <1>6
      <4>2. t[k] = e[k - j]
        BY <1>7, <3>3, <4>1
      <4> QED
        BY <1>2, <1>5, <3>3, <4>2
    <3> QED
      BY <1>6, <2>1, <3>1, <3>2, <3>3
  <2>2. i \in 1..Len(t) /\ j \in 1..Len(t)
    BY <1>6
  <2> QED
    BY <1>2, <1>7, <2>1, <2>2 DEF Marks
<1>9. Number(t, 1, i - 1) = h /\ Number(t, i + 1, j - 1) = m /\ Number(t, j + 1, Len(t)) = s
  <2>1. /\ Number(t, 0 + 1, 0 + p) = Number(a, 1, p)
        /\ Number(t, i + 1, i + q) = Number(b, 1, q)
        /\ Number(t, j + 1, j + r) = Number(e, 1, r)
    <3>1. Number(t, 0 + 1, 0 + p) = Number(a, 1, p)
      <4>1. 0 \in Nat /\ p \in Nat /\ \A k \in 1..p : t[0 + k] = a[k]
        BY <1>7
      <4> QED
        BY <4>1, SameNumber, Zenon
    <3>2. Number(t, i + 1, i + q) = Number(b, 1, q)
      <4>1. i \in Nat /\ q \in Nat /\ \A k \in 1..q : t[i + k] = b[k]
        BY <1>6, <1>7
      <4> QED
        BY <4>1, SameNumber, Zenon
    <3>3. Number(t, j + 1, j + r) = Number(e, 1, r)
      <4>1. j \in Nat /\ r \in Nat /\ \A k \in 1..r : t[j + k] = e[k]
        BY <1>6, <1>7
      <4> QED
        BY <4>1, SameNumber, Zenon
    <3> QED
      BY <3>1, <3>2, <3>3
  <2>2. 0 + 1 = 1 /\ 0 + p = i - 1 /\ i + q = j - 1 /\ j + r = Len(t)
    BY <1>6
  <2> QED
    BY <1>1, <1>5, <2>1, <2>2
<1>10. /\ Len(t) \in Nat /\ i \in 1..Len(t) /\ j \in 1..Len(t) /\ i < j
       /\ i - 1 \in 1..2 /\ j - i - 1 \in 1..2 /\ Len(t) - j \in 1..2
  BY <1>6
<1>11. ParseTime(t) = IF Number(t, j + 1, Len(t)) > 59 THEN None
                      ELSE Clock(Number(t, 1, i - 1), Number(t, i + 1, j - 1))
  BY <1>7, <1>8, <1>10, ReadColons
<1>12. ParseTime(t) = Clock(h, m)
  BY <1>9, <1>11
<1>13. ParseTime(t) = 60 * h + m
  BY <1>12 DEF Clock
<1> QED
  BY <1>13 DEF t, u

\* Digits have no mark.
LEMMA NoMarks ==
    ASSUME NEW a \in Seq(Digit)
    PROVE  Marks(a) = {}
BY DigitsAreSymbols DEF Marks

\* a whole hour,
LEMMA WholeHourRead ==
    ASSUME NEW h \in 0..23, NEW a \in Numerals(h, 2)
    PROVE  ParseTime(a) = 60 * h
<1>1. a \in Seq(Digit) /\ Len(a) \in 1..2 /\ Number(a, 1, Len(a)) = h
  <2>1. h \in 0..99 /\ 2 \in 1..6
    OBVIOUS
  <2> QED
    BY <2>1, NumeralRead, Zenon
<1>2. ParseTime(a) = ParseDigits(a)
  BY <1>1, NoMarks, ReadDigits
<1>3. ParseDigits(a) = Clock(Number(a, 1, Len(a)), 0)
  <2>1. PICK p \in 1..2 : Len(a) = p
    BY <1>1, Zenon
  <2>2. p \notin 3..4
    OBVIOUS
  <2> QED
    BY <2>1, <2>2, Zenon DEF ParseDigits
<1>4. Clock(h, 0) = 60 * h
  <2>1. 0 \in 0..59 /\ 60 * h + 0 = 60 * h
    OBVIOUS
  <2> QED
    BY <2>1 DEF Clock
<1> QED
  BY <1>1, <1>2, <1>3, <1>4

\* The number two digits make.
LEMMA TwoDigitNumber ==
    ASSUME NEW t, NEW i \in Nat, NEW q \in Digit, NEW r \in Digit, t[i + 1] = q, t[i + 2] = r
    PROVE  Number(t, i + 1, i + 2) = 10 * q + r
<1>1. /\ i + 1 <= i + 2 - 0 /\ i + 2 - 0 = i + 2 /\ i + 1 <= i + 2 - 1 /\ i + 2 - 1 = i + 1
      /\ ~(i + 1 <= i + 2 - 2) /\ ~(i + 1 <= i + 2 - 3)
      /\ ~(i + 1 <= i + 2 - 4) /\ ~(i + 1 <= i + 2 - 5)
  OBVIOUS
<1>2. Number(t, i + 1, i + 2) = r + 10 * (q + 10 * (0 + 10 * (0 + 10 * (0 + 10 * 0))))
  BY <1>1 DEF Number
<1> QED
  BY <1>2 DEF Digit

\* hmm or hhmm.
LEMMA DigitsRead ==
    ASSUME NEW h \in 0..23, NEW m \in 0..59, NEW a \in Numerals(h, 2)
    PROVE  ParseTime(a \o <<m \div 10, m % 10>>) = 60 * h + m
<1> DEFINE q == m \div 10
           r == m % 10
           b == <<q, r>>
           t == a \o b
<1>1. a \in Seq(Digit) /\ Len(a) \in 1..2 /\ Number(a, 1, Len(a)) = h
  <2>1. h \in 0..99 /\ 2 \in 1..6
    OBVIOUS
  <2> QED
    BY <2>1, NumeralRead, Zenon
<1>2. q \in Digit /\ r \in Digit /\ m = 10 * q + r
  BY DEF Digit
<1> HIDE DEF q, r
<1>3. b \in Seq(Digit) /\ Len(b) = 2 /\ b[1] = q /\ b[2] = r
  BY <1>2
<1> HIDE DEF b
<1>4. /\ t \in Seq(Digit) /\ Len(t) = Len(a) + Len(b)
      /\ \A k \in 1..Len(a) + Len(b) : t[k] = IF k <= Len(a) THEN a[k] ELSE b[k - Len(a)]
  BY <1>1, <1>3, ConcatProperties
<1> HIDE DEF t
<1>5. PICK p \in 1..2 : p = Len(a)
  BY <1>1
<1>6. Len(t) = p + 2
  BY <1>3, <1>4, <1>5
<1>7. \A k \in 1..p : t[0 + k] = a[k]
  BY <1>3, <1>4, <1>5
<1>8. t[p + 1] = q /\ t[p + 2] = r
  <2>1. /\ p + 1 \in 1..p + 2 /\ ~(p + 1 <= p) /\ p + 1 - p = 1
        /\ p + 2 \in 1..p + 2 /\ ~(p + 2 <= p) /\ p + 2 - p = 2
    OBVIOUS
  <2> QED
    BY <1>3, <1>4, <1>5, <2>1
<1>9. Number(t, 1, Len(t) - 2) = h
  <2>1. 0 \in Nat /\ p \in Nat
    OBVIOUS
  <2>2. Number(t, 0 + 1, 0 + p) = Number(a, 1, p)
    BY <1>7, <2>1, SameNumber, Zenon
  <2>3. 0 + 1 = 1 /\ 0 + p = Len(t) - 2
    BY <1>6
  <2> QED
    BY <1>1, <1>5, <2>2, <2>3
<1>10. Number(t, Len(t) - 1, Len(t)) = m
  <2>1. Number(t, p + 1, p + 2) = 10 * q + r
    BY <1>2, <1>8, TwoDigitNumber
  <2>2. p + 1 = Len(t) - 1 /\ p + 2 = Len(t)
    BY <1>6
  <2> QED
    BY <1>2, <2>1, <2>2
<1>11. ParseTime(t) = ParseDigits(t)
  BY <1>4, NoMarks, ReadDigits
<1>12. ParseDigits(t) = Clock(Number(t, 1, Len(t) - 2), Number(t, Len(t) - 1, Len(t)))
  <2>1. Len(t) \in 3..4 /\ Len(t) \notin 1..2
    BY <1>6
  <2> QED
    BY <2>1 DEF ParseDigits
<1>13. ParseTime(t) = Clock(h, m)
  BY <1>9, <1>10, <1>11, <1>12
<1>14. ParseTime(t) = 60 * h + m
  BY <1>13 DEF Clock
<1> QED
  BY <1>14 DEF t, b, q, r

\* All of them.
LEMMA WritingsAreRead == WritingsRead
<1>1. SUFFICES ASSUME NEW h \in 0..23, NEW m \in 0..59, NEW t \in Writings(h, m)
               PROVE  ParseTime(t) = 60 * h + m
  BY DEF WritingsRead
<1> DEFINE hour == Numerals(h, 2)
           minute == Numerals(m, 2)
           second == UNION {Numerals(s, 2) : s \in 0..59}
           W1 == IF m = 0 THEN hour ELSE {}
           W2 == {a \o <<Colon>> \o b : a \in hour, b \in minute}
           W3 == {a \o <<Colon>> \o b \o <<Colon>> \o c :
                     a \in hour, b \in minute, c \in second}
           W4 == {a \o <<m \div 10, m % 10>> : a \in hour}
           W5 == {a \o <<Point>> \o b : a \in Numerals(h, FieldSize - 2), b \in Fractions(m)}
<1>2. Writings(h, m) = W1 \cup W2 \cup W3 \cup W4 \cup W5
  BY DEF Writings
<1>3. CASE t \in W1
  <2>1. m = 0 /\ t \in Numerals(h, 2)
    BY <1>3
  <2>2. ParseTime(t) = 60 * h
    BY <2>1, WholeHourRead
  <2> QED
    BY <2>1, <2>2
<1>4. CASE t \in W2
  <2>1. PICK a \in hour, b \in minute : t = a \o <<Colon>> \o b
    BY <1>4
  <2> QED
    BY <2>1, HourAndMinuteRead, Zenon
<1>5. CASE t \in W3
  <2>1. PICK a \in hour, b \in minute, c \in second : t = a \o <<Colon>> \o b \o <<Colon>> \o c
    BY <1>5, SMTT(30)
  <2>2. PICK s \in 0..59 : c \in Numerals(s, 2)
    BY <2>1
  <2> QED
    BY <2>1, <2>2, SecondsRead, ZenonT(60)
<1>6. CASE t \in W4
  <2>1. PICK a \in hour : t = a \o <<m \div 10, m % 10>>
    BY <1>6, Zenon
  <2> QED
    BY <2>1, DigitsRead, Zenon
<1>7. CASE t \in W5
  <2>1. FieldSize - 2 = 6
    BY DEF FieldSize
  <2>2. PICK a \in Numerals(h, 6), b \in Fractions(m) : t = a \o <<Point>> \o b
    BY <1>7, <2>1, SMTT(30)
  <2>3. ParseTime(a \o <<Point>> \o b) = 60 * h + m
    BY DecimalRead
  <2> QED
    BY <2>2, <2>3, Zenon
<1> HIDE DEF W1, W2, W3, W4, W5
<1> QED
  BY <1>1, <1>2, <1>3, <1>4, <1>5, <1>6, <1>7

----------------------------------------------------------------------------
(* What is read is written. *)

\* A piece of a text is a text.
LEMMA Piece ==
    ASSUME NEW S, NEW f, NEW i \in Nat, NEW v \in Nat, \A k \in 1..v : f[i + k] \in S
    PROVE  /\ [k \in 1..v |-> f[i + k]] \in Seq(S) /\ Len([k \in 1..v |-> f[i + k]]) = v
           /\ [k \in 1..v |-> f[i + k]] \in [1..v -> S]
           /\ \A k \in 1..v : [j \in 1..v |-> f[i + j]][k] = f[i + k]
<1>1. [k \in 1..v |-> f[i + k]] \in [1..v -> S]
  OBVIOUS
<1>2. [k \in 1..v |-> f[i + k]] \in Seq(S) /\ Len([k \in 1..v |-> f[i + k]]) = v
  BY <1>1
<1> QED
  BY <1>1, <1>2

\* A text is cut at a symbol.
LEMMA Cut ==
    ASSUME NEW n \in Nat, NEW t \in [1..n -> Symbol], NEW i \in 1..n
    PROVE  t = [k \in 1..i - 1 |-> t[0 + k]] \o <<t[i]>> \o [k \in 1..n - i |-> t[i + k]]
<1> DEFINE a == [k \in 1..i - 1 |-> t[0 + k]]
           b == [k \in 1..n - i |-> t[i + k]]
           c == t[i]
           u == a \o <<c>> \o b
<1>1. /\ a \in Seq(Symbol) /\ Len(a) = i - 1 /\ \A k \in 1..i - 1 : a[k] = t[0 + k]
  <2>1. 0 \in Nat /\ i - 1 \in Nat /\ \A k \in 1..i - 1 : t[0 + k] \in Symbol
    OBVIOUS
  <2> QED
    BY <2>1, Piece
<1>2. /\ b \in Seq(Symbol) /\ Len(b) = n - i /\ \A k \in 1..n - i : b[k] = t[i + k]
  <2>1. i \in Nat /\ n - i \in Nat /\ \A k \in 1..n - i : t[i + k] \in Symbol
    OBVIOUS
  <2> QED
    BY <2>1, Piece
<1>3. c \in Symbol
  OBVIOUS
<1> HIDE DEF a, b
<1>4. /\ u \in Seq(Symbol) /\ Len(u) = Len(a) + 1 + Len(b)
      /\ \A k \in 1..Len(a) : u[k] = a[k]
      /\ u[Len(a) + 1] = c
      /\ \A k \in 1..Len(b) : u[Len(a) + 1 + k] = b[k]
  BY <1>1, <1>2, <1>3, Joined, ZenonT(60)
<1> HIDE DEF u
<1>5. Len(u) = n
  BY <1>1, <1>2, <1>4
<1>6. ASSUME NEW k \in 1..n
      PROVE  u[k] = t[k]
  <2>1. CASE k < i
    <3>1. k \in 1..i - 1 /\ 0 + k = k
      BY <2>1
    <3> QED
      BY <1>1, <1>4, <3>1
  <2>2. CASE k = i
    <3>1. Len(a) + 1 = i
      BY <1>1
    <3> QED
      BY <1>4, <2>2, <3>1
  <2>3. CASE k > i
    <3>1. k - i \in 1..n - i /\ i + (k - i) = k /\ Len(a) + 1 = i
      BY <1>1, <2>3
    <3>2. u[i + (k - i)] = b[k - i]
      BY <1>2, <1>4, <3>1
    <3> QED
      BY <1>2, <3>1, <3>2
  <2> QED
    BY <2>1, <2>2, <2>3
<1>7. t = u
  <2>1. u \in [1..n -> Symbol]
    BY <1>4, <1>5, LenProperties
  <2> QED
    BY <1>6, <2>1
<1> QED
  BY <1>7 DEF u, a, b

\* The digits of a text from one place on that make a small number are a numeral of it.
LEMMA PieceWritten ==
    ASSUME NEW t, NEW i \in Nat, NEW v \in Nat, NEW width \in 1..6, v \in 1..width,
           \A k \in 1..v : t[i + k] \in Digit,
           NEW x \in 0..99, Number(t, i + 1, i + v) = x
    PROVE  [k \in 1..v |-> t[i + k]] \in Numerals(x, width)
<1> DEFINE a == [k \in 1..v |-> t[i + k]]
<1>1. a \in [1..v -> Digit] /\ \A k \in 1..v : t[i + k] = a[k]
  BY Piece
<1> HIDE DEF a
<1>2. Number(a, 1, v) = x
  BY <1>1, SameNumber
<1>3. a \in Numerals(x, width)
  BY <1>1, <1>2, NumeralWritten
<1> QED
  BY <1>3 DEF a

\* A time on the clock has one hour and one minute.
LEMMA ClockTimes ==
    ASSUME NEW h, NEW m, NEW time, time = Clock(h, m), time # None
    PROVE  h \in 0..23 /\ m \in 0..59 /\ time \div 60 = h /\ time % 60 = m
<1>1. h \in 0..23 /\ m \in 0..59 /\ time = 60 * h + m
  BY DEF Clock
<1> QED
  BY <1>1

\* What is no mark is a digit.
LEMMA BetweenMarks ==
    ASSUME NEW n \in Nat, NEW t \in [1..n -> Symbol], NEW k \in 1..n, k \notin Marks(t)
    PROVE  t[k] \in Digit
<1>1. Len(t) = n
  OBVIOUS
<1> QED
  BY <1>1 DEF Marks

\* A writing is one of these.
LEMMA WritingForms ==
    ASSUME NEW h, NEW m
    PROVE  /\ m = 0 => Numerals(h, 2) \subseteq Writings(h, m)
           /\ \A a \in Numerals(h, 2), b \in Numerals(m, 2) :
                 a \o <<Colon>> \o b \in Writings(h, m)
           /\ \A a \in Numerals(h, 2), b \in Numerals(m, 2), s \in 0..59 :
                 \A c \in Numerals(s, 2) : a \o <<Colon>> \o b \o <<Colon>> \o c \in Writings(h, m)
           /\ \A a \in Numerals(h, 2) : a \o <<m \div 10, m % 10>> \in Writings(h, m)
           /\ \A a \in Numerals(h, 6), b \in Fractions(m) :
                 a \o <<Point>> \o b \in Writings(h, m)
<1> DEFINE hour == Numerals(h, 2)
           minute == Numerals(m, 2)
           second == UNION {Numerals(s, 2) : s \in 0..59}
           W1 == IF m = 0 THEN hour ELSE {}
           W2 == {a \o <<Colon>> \o b : a \in hour, b \in minute}
           W3 == {a \o <<Colon>> \o b \o <<Colon>> \o c :
                     a \in hour, b \in minute, c \in second}
           W4 == {a \o <<m \div 10, m % 10>> : a \in hour}
           W5 == {a \o <<Point>> \o b : a \in Numerals(h, FieldSize - 2), b \in Fractions(m)}
<1>1. Writings(h, m) = W1 \cup W2 \cup W3 \cup W4 \cup W5
  BY DEF Writings
<1>2. /\ W1 \subseteq Writings(h, m) /\ W2 \subseteq Writings(h, m)
      /\ W3 \subseteq Writings(h, m) /\ W4 \subseteq Writings(h, m)
      /\ W5 \subseteq Writings(h, m)
  <2> HIDE DEF W1, W2, W3, W4, W5
  <2> QED
    BY <1>1
<1>3. m = 0 => hour \subseteq W1
  OBVIOUS
<1>4. \A a \in hour, b \in minute : a \o <<Colon>> \o b \in W2
  BY SMTT(30)
<1>5. ASSUME NEW a \in hour, NEW b \in minute, NEW s \in 0..59, NEW c \in Numerals(s, 2)
      PROVE  a \o <<Colon>> \o b \o <<Colon>> \o c \in W3
  <2>1. c \in second
    OBVIOUS
  <2> HIDE DEF second
  <2> QED
    BY <2>1
<1>6. \A a \in hour : a \o <<m \div 10, m % 10>> \in W4
  OBVIOUS
<1>7. \A a \in Numerals(h, 6), b \in Fractions(m) : a \o <<Point>> \o b \in W5
  BY DEF FieldSize
<1> HIDE DEF W1, W2, W3, W4, W5
<1>8. m = 0 => hour \subseteq Writings(h, m)
  BY <1>2, <1>3
<1>9. \A a \in hour, b \in minute : a \o <<Colon>> \o b \in Writings(h, m)
  BY <1>2, <1>4
<1>10. \A a \in hour, b \in minute, s \in 0..59 :
         \A c \in Numerals(s, 2) : a \o <<Colon>> \o b \o <<Colon>> \o c \in Writings(h, m)
  BY <1>2, <1>5
<1>11. \A a \in hour : a \o <<m \div 10, m % 10>> \in Writings(h, m)
  BY <1>2, <1>6
<1>12. \A a \in Numerals(h, 6), b \in Fractions(m) : a \o <<Point>> \o b \in Writings(h, m)
  BY <1>2, <1>7
<1> QED
  BY <1>8, <1>9, <1>10, <1>11, <1>12, Zenon

\* An hour and a minute around a colon.
LEMMA HourAndMinuteWritten ==
    ASSUME NEW n \in 0..8, NEW t \in [1..n -> Symbol], NEW i \in 1..n,
           Marks(t) = {i}, t[i] = Colon, i - 1 \in 1..2, n - i \in 1..2,
           NEW h \in 0..23, h = Number(t, 1, i - 1), NEW m \in 0..59, m = Number(t, i + 1, n)
    PROVE  t \in Writings(h, m)
<1> DEFINE a == [k \in 1..i - 1 |-> t[0 + k]]
           b == [k \in 1..n - i |-> t[i + k]]
<1>1. a \in Numerals(h, 2)
  <2>1. \A k \in 1..i - 1 : t[0 + k] \in Digit
    <3> TAKE k \in 1..i - 1
    <3>1. n \in Nat /\ k \in 1..n /\ k \notin Marks(t) /\ 0 + k = k
      OBVIOUS
    <3> QED
      BY <3>1, BetweenMarks
  <2>2. /\ 0 \in Nat /\ i - 1 \in Nat /\ 2 \in 1..6 /\ i - 1 \in 1..2 /\ h \in 0..99
        /\ 0 + 1 = 1 /\ 0 + (i - 1) = i - 1
    OBVIOUS
  <2>3. Number(t, 0 + 1, 0 + (i - 1)) = h
    BY <2>2
  <2> QED
    BY <2>1, <2>2, <2>3, PieceWritten, ZenonT(60)
<1>2. b \in Numerals(m, 2)
  <2>1. \A k \in 1..n - i : t[i + k] \in Digit
    <3> TAKE k \in 1..n - i
    <3>1. n \in Nat /\ i + k \in 1..n /\ i + k \notin Marks(t)
      OBVIOUS
    <3> QED
      BY <3>1, BetweenMarks
  <2>2. /\ i \in Nat /\ n - i \in Nat /\ 2 \in 1..6 /\ n - i \in 1..2 /\ m \in 0..99
        /\ i + (n - i) = n
    OBVIOUS
  <2>3. Number(t, i + 1, i + (n - i)) = m
    BY <2>2
  <2> QED
    BY <2>1, <2>2, <2>3, PieceWritten, ZenonT(60)
<1>3. t = a \o <<Colon>> \o b
  BY Cut
<1> HIDE DEF a, b
<1>4. a \o <<Colon>> \o b \in Writings(h, m)
  BY <1>1, <1>2, WritingForms
<1> QED
  BY <1>3, <1>4

\* An hour, a minute and a second around two colons.
LEMMA SecondsWritten ==
    ASSUME NEW n \in 0..8, NEW t \in [1..n -> Symbol], NEW i \in 1..n, NEW j \in 1..n, i < j,
           Marks(t) = {i, j}, t[i] = Colon, t[j] = Colon,
           i - 1 \in 1..2, j - i - 1 \in 1..2, n - j \in 1..2,
           NEW h \in 0..23, h = Number(t, 1, i - 1),
           NEW m \in 0..59, m = Number(t, i + 1, j - 1),
           NEW s \in 0..59, s = Number(t, j + 1, n)
    PROVE  t \in Writings(h, m)
<1> DEFINE r == n - i
           w == [k \in 1..r |-> t[i + k]]
           a == [k \in 1..i - 1 |-> t[0 + k]]
           b == [k \in 1..j - i - 1 |-> t[i + k]]
           e == [k \in 1..n - j |-> t[j + k]]
<1>1. a \in Numerals(h, 2)
  <2>1. \A k \in 1..i - 1 : t[0 + k] \in Digit
    <3> TAKE k \in 1..i - 1
    <3>1. n \in Nat /\ k \in 1..n /\ k \notin Marks(t) /\ 0 + k = k
      OBVIOUS
    <3> QED
      BY <3>1, BetweenMarks, Zenon
  <2>2. /\ 0 \in Nat /\ i - 1 \in Nat /\ 2 \in 1..6 /\ i - 1 \in 1..2 /\ h \in 0..99
        /\ 0 + 1 = 1 /\ 0 + (i - 1) = i - 1
    OBVIOUS
  <2>3. Number(t, 0 + 1, 0 + (i - 1)) = h
    BY <2>2
  <2> QED
    BY <2>1, <2>2, <2>3, PieceWritten, ZenonT(60)
<1>2. b \in Numerals(m, 2)
  <2>1. \A k \in 1..j - i - 1 : t[i + k] \in Digit
    <3> TAKE k \in 1..j - i - 1
    <3>1. n \in Nat /\ i + k \in 1..n /\ i + k \notin Marks(t)
      OBVIOUS
    <3> QED
      BY <3>1, BetweenMarks, Zenon
  <2>2. /\ i \in Nat /\ j - i - 1 \in Nat /\ 2 \in 1..6 /\ j - i - 1 \in 1..2 /\ m \in 0..99
        /\ i + (j - i - 1) = j - 1
    OBVIOUS
  <2>3. Number(t, i + 1, i + (j - i - 1)) = m
    BY <2>2
  <2> QED
    BY <2>1, <2>2, <2>3, PieceWritten, ZenonT(60)
<1>3. e \in Numerals(s, 2)
  <2>1. \A k \in 1..n - j : t[j + k] \in Digit
    <3> TAKE k \in 1..n - j
    <3>1. n \in Nat /\ j + k \in 1..n /\ j + k \notin Marks(t)
      OBVIOUS
    <3> QED
      BY <3>1, BetweenMarks, Zenon
  <2>2. /\ j \in Nat /\ n - j \in Nat /\ 2 \in 1..6 /\ n - j \in 1..2 /\ s \in 0..99
        /\ j + (n - j) = n
    OBVIOUS
  <2>3. Number(t, j + 1, j + (n - j)) = s
    BY <2>2
  <2> QED
    BY <2>1, <2>2, <2>3, PieceWritten, ZenonT(60)
<1>4. t = [k \in 1..j - 1 |-> t[0 + k]] \o <<Colon>> \o e
  BY Cut
<1>5. [k \in 1..j - 1 |-> t[0 + k]] = a \o <<Colon>> \o b
  <2> DEFINE u == [k \in 1..j - 1 |-> t[0 + k]]
             q == j - 1
  <2>1. q \in Nat /\ i \in 1..q /\ q - i = j - i - 1
    OBVIOUS
  <2>2. u \in [1..q -> Symbol] /\ \A k \in 1..q : u[k] = t[k]
    OBVIOUS
  <2> HIDE DEF u
  <2>3. u = [k \in 1..i - 1 |-> u[0 + k]] \o <<u[i]>> \o [k \in 1..q - i |-> u[i + k]]
    BY <2>1, <2>2, Cut
  <2>4. [k \in 1..i - 1 |-> u[0 + k]] = a
    <3>1. \A k \in 1..i - 1 : u[0 + k] = t[0 + k]
      BY <2>1, <2>2
    <3> QED
      BY <3>1
  <2>5. [k \in 1..q - i |-> u[i + k]] = b
    <3>1. \A k \in 1..q - i : u[i + k] = t[i + k]
      BY <2>1, <2>2
    <3> QED
      BY <2>1, <3>1
  <2>6. u[i] = Colon
    BY <2>1, <2>2
  <2> HIDE DEF a, b
  <2>7. u = a \o <<Colon>> \o b
    BY <2>3, <2>4, <2>5, <2>6
  <2> QED
    BY <2>7 DEF u
<1> HIDE DEF a, b, e
<1>6. a \o <<Colon>> \o b \o <<Colon>> \o e \in Writings(h, m)
  BY <1>1, <1>2, <1>3, WritingForms
<1>7. t = a \o <<Colon>> \o b \o <<Colon>> \o e
  BY <1>4, <1>5, Zenon
<1> QED
  BY <1>6, <1>7, Zenon

\* Two digits are the tens and the ones of the number they make.
LEMMA TwoDigitsWritten ==
    ASSUME NEW t, NEW i \in Nat, t[i + 1] \in Digit, t[i + 2] \in Digit,
           NEW m \in 0..99, m = Number(t, i + 1, i + 2)
    PROVE  [k \in 1..2 |-> t[i + k]] = <<m \div 10, m % 10>>
<1>1. PICK q \in 0..9, r \in 0..9 : q = t[i + 1] /\ r = t[i + 2]
  BY DEF Digit
<1>2. m = 10 * q + r
  BY <1>1, TwoDigitNumber DEF Digit
<1>3. r = m % 10 /\ q = m \div 10
  BY <1>2, TwoDigits
<1>4. [k \in 1..2 |-> t[i + k]] = <<t[i + 1], t[i + 2]>>
  OBVIOUS
<1> QED
  BY <1>1, <1>3, <1>4

\* One or two digits, or three or four, are a time.
LEMMA DigitForms ==
    ASSUME NEW t
    PROVE  \/ ParseDigits(t) = None
           \/ Len(t) \in 1..2 /\ ParseDigits(t) = Clock(Number(t, 1, Len(t)), 0)
           \/ /\ Len(t) \in 3..4
              /\ ParseDigits(t) = Clock(Number(t, 1, Len(t) - 2), Number(t, Len(t) - 1, Len(t)))
<1> DEFINE n == Len(t)
<1>1. ParseDigits(t) = CASE n \in 1..2 -> Clock(Number(t, 1, n), 0)
                         [] n \in 3..4 -> Clock(Number(t, 1, n - 2), Number(t, n - 1, n))
                         [] OTHER -> None
  BY Zenon DEF ParseDigits
<1> DEFINE short == n \in 1..2
           long == n \in 3..4
<1>2. short => ~long
  OBVIOUS
<1>3. ParseDigits(t) = CASE short -> Clock(Number(t, 1, n), 0)
                         [] long -> Clock(Number(t, 1, n - 2), Number(t, n - 1, n))
                         [] OTHER -> None
  BY <1>1, Zenon
<1> HIDE DEF short, long
<1>4. \/ ParseDigits(t) = None
      \/ short /\ ParseDigits(t) = Clock(Number(t, 1, n), 0)
      \/ long /\ ParseDigits(t) = Clock(Number(t, 1, n - 2), Number(t, n - 1, n))
  BY <1>2, <1>3, Zenon
<1> QED
  BY <1>4, Zenon DEF short, long

\* Digits only are a whole hour, or hmm or hhmm.
LEMMA DigitsWritten ==
    ASSUME NEW n \in 0..8, NEW t \in [1..n -> Symbol], Marks(t) = {},
           NEW time, time = ParseDigits(t), time # None
    PROVE  t \in Writings(time \div 60, time % 60)
<1>1. Len(t) = n /\ \A k \in 1..n : t[k] \in Digit
  <2>1. Len(t) = n
    OBVIOUS
  <2> QED
    BY <2>1, BetweenMarks
<1>2. \/ n \in 1..2 /\ time = Clock(Number(t, 1, n), 0)
      \/ n \in 3..4 /\ time = Clock(Number(t, 1, n - 2), Number(t, n - 1, n))
  <2>1. \/ Len(t) \in 1..2 /\ time = Clock(Number(t, 1, Len(t)), 0)
        \/ /\ Len(t) \in 3..4
           /\ time = Clock(Number(t, 1, Len(t) - 2), Number(t, Len(t) - 1, Len(t)))
    BY DigitForms, Zenon
  <2> QED
    BY <1>1, <2>1, Zenon
<1>3. CASE n \in 1..2 /\ time = Clock(Number(t, 1, n), 0)
  <2> DEFINE h == Number(t, 1, n)
  <2>1. h \in 0..23 /\ time \div 60 = h /\ time % 60 = 0
    BY <1>3, ClockTimes
  <2>2. t \in [1..n -> Digit] /\ 2 \in 1..6 /\ h \in 0..99
    BY <1>1, <2>1
  <2>3. t \in Numerals(h, 2)
    BY <1>3, <2>2, NumeralWritten
  <2> HIDE DEF h
  <2>4. Numerals(h, 2) \subseteq Writings(h, 0)
    BY WritingForms
  <2> QED
    BY <2>1, <2>3, <2>4
<1>4. CASE n \in 3..4 /\ time = Clock(Number(t, 1, n - 2), Number(t, n - 1, n))
  <2> DEFINE h == Number(t, 1, n - 2)
             m == Number(t, n - 1, n)
             p == n - 2
             a == [k \in 1..p |-> t[0 + k]]
             b == <<m \div 10, m % 10>>
  <2>1. /\ h \in 0..23 /\ m \in 0..59 /\ time \div 60 = h /\ time % 60 = m
    BY <1>4, ClockTimes
  <2>2. p \in 1..2 /\ p \in Nat /\ p + 1 = n - 1 /\ p + 2 = n
    BY <1>4
  <2>3. a \in Numerals(h, 2)
    <3>1. /\ 0 \in Nat /\ p \in Nat /\ 2 \in 1..6 /\ p \in 1..2 /\ h \in 0..99
          /\ 0 + 1 = 1 /\ 0 + p = n - 2
      BY <2>1, <2>2
    <3>2. Number(t, 0 + 1, 0 + p) = h
      BY <3>1
    <3>3. \A k \in 1..p : t[0 + k] \in Digit
      BY <1>1
    <3> HIDE DEF h, p
    <3> QED
      BY <3>1, <3>2, <3>3, PieceWritten, Zenon
  <2>4. [k \in 1..2 |-> t[p + k]] = b
    <3>1. t[p + 1] \in Digit /\ t[p + 2] \in Digit /\ m \in 0..99
      BY <1>1, <2>1, <2>2
    <3>2. m = Number(t, p + 1, p + 2)
      BY <2>2
    <3> HIDE DEF m, p
    <3> QED
      BY <2>2, <3>1, <3>2, TwoDigitsWritten
  <2>5. t = a \o b
    <3>1. /\ a \in Seq(Symbol) /\ Len(a) = p
      BY <2>2
    <3>2. /\ [k \in 1..2 |-> t[p + k]] \in Seq(Symbol) /\ Len([k \in 1..2 |-> t[p + k]]) = 2
          /\ \A k \in 1..2 : [j \in 1..2 |-> t[p + j]][k] = t[p + k]
      BY <2>2
    <3>3. b \in Seq(Symbol) /\ Len(b) = 2 /\ \A k \in 1..2 : b[k] = t[p + k]
      BY <2>4, <3>2, Zenon
    <3>4. \A k \in 1..p : a[k] = t[k]
      OBVIOUS
    <3> HIDE DEF a, b
    <3>5. /\ a \o b \in Seq(Symbol) /\ Len(a \o b) = p + 2
          /\ \A k \in 1..p + 2 : (a \o b)[k] = IF k <= p THEN a[k] ELSE b[k - p]
      <4>1. /\ a \o b \in Seq(Symbol) /\ Len(a \o b) = Len(a) + Len(b)
            /\ \A k \in 1..Len(a) + Len(b) :
                  (a \o b)[k] = IF k <= Len(a) THEN a[k] ELSE b[k - Len(a)]
        BY <3>1, <3>3, ConcatProperties, Zenon
      <4> QED
        BY <3>1, <3>3, <4>1, Zenon
    <3>6. ASSUME NEW k \in 1..n
          PROVE  t[k] = (a \o b)[k]
      <4>1. CASE k <= p
        <5>1. k \in 1..p /\ k \in 1..p + 2
          BY <2>2, <4>1
        <5> QED
          BY <3>4, <3>5, <4>1, <5>1
      <4>2. CASE ~(k <= p)
        <5>1. k - p \in 1..2 /\ p + (k - p) = k /\ k \in 1..p + 2
          BY <2>2, <4>2
        <5> QED
          BY <3>3, <3>5, <4>2, <5>1
      <4> QED
        BY <4>1, <4>2
    <3>7. t \in Seq(Symbol) /\ Len(t) = n /\ Len(a \o b) = n
      BY <2>2, <3>5
    <3> QED
      BY <3>5, <3>6, <3>7, SeqEqual
  <2> HIDE DEF h, m, a, b
  <2>6. a \o b \in Writings(h, m)
    BY <2>3, WritingForms DEF b
  <2> QED
    BY <2>1, <2>5, <2>6
<1> QED
  BY <1>2, <1>3, <1>4

\* What digits mean is a number.
LEMMA NumberIsNatural ==
    ASSUME NEW t, NEW i \in Nat, NEW n \in Nat, \A k \in 1..n - i : t[i + k] \in Digit
    PROVE  Number(t, i + 1, n) \in Nat
<1> DEFINE d(k) == IF i + 1 <= n - k THEN t[n - k] ELSE 0
<1>1. \A k \in 0..5 : d(k) \in Nat
  <2> TAKE k \in 0..5
  <2>1. CASE i + 1 <= n - k
    <3>1. n - k - i \in 1..n - i /\ i + (n - k - i) = n - k
      BY <2>1
    <3>2. t[n - k] \in Digit
      BY <3>1
    <3> QED
      BY <2>1, <3>2 DEF Digit
  <2>2. CASE ~(i + 1 <= n - k)
    BY <2>2
  <2> QED
    BY <2>1, <2>2
<1>2. /\ d(0) \in Nat /\ d(1) \in Nat /\ d(2) \in Nat
      /\ d(3) \in Nat /\ d(4) \in Nat /\ d(5) \in Nat
  BY <1>1
<1>3. Number(t, i + 1, n) = d(0) + 10 * (d(1) + 10 * (d(2) + 10 * (d(3) + 10 * (d(4) + 10 * d(5)))))
  BY DEF Number
<1> HIDE DEF d
<1>4. PICK d0 \in Nat : d0 = d(0)
  BY <1>2, Zenon
<1>5. PICK d1 \in Nat : d1 = d(1)
  BY <1>2, Zenon
<1>6. PICK d2 \in Nat : d2 = d(2)
  BY <1>2, Zenon
<1>7. PICK d3 \in Nat : d3 = d(3)
  BY <1>2, Zenon
<1>8. PICK d4 \in Nat : d4 = d(4)
  BY <1>2, Zenon
<1>9. PICK d5 \in Nat : d5 = d(5)
  BY <1>2, Zenon
<1>10. Number(t, i + 1, n) = d0 + 10 * (d1 + 10 * (d2 + 10 * (d3 + 10 * (d4 + 10 * d5))))
  BY <1>3, <1>4, <1>5, <1>6, <1>7, <1>8, <1>9, Zenon
<1> QED
  BY <1>10

\* Hours with one or two decimals.
LEMMA DecimalWritten ==
    ASSUME NEW n \in 0..8, NEW t \in [1..n -> Symbol], NEW i \in 1..n,
           Marks(t) = {i}, t[i] = Point, 1 < i, i < n, n - i <= 2,
           NEW time, time = Clock(Hours(t, i) \div 60, Hours(t, i) % 60), time # None
    PROVE  t \in Writings(time \div 60, time % 60)
<1> DEFINE w == i - 1
           v == n - i
           a == [k \in 1..w |-> t[0 + k]]
           b == [k \in 1..v |-> t[i + k]]
           h == Number(t, 1, i - 1)
           x == Number(t, i + 1, n)
           minutes == Hours(t, i)
<1>1. /\ w \in 1..6 /\ v \in 1..2 /\ w \in Nat /\ v \in Nat /\ i \in Nat
      /\ 0 + 1 = 1 /\ 0 + w = i - 1 /\ i + v = n
  OBVIOUS
<1>2. /\ \A k \in 1..w : t[0 + k] \in Digit
      /\ \A k \in 1..v : t[i + k] \in Digit
  <2>1. ASSUME NEW k \in 1..w
        PROVE  t[0 + k] \in Digit
    <3>1. n \in Nat /\ k \in 1..n /\ k \notin Marks(t) /\ 0 + k = k
      OBVIOUS
    <3> QED
      BY <3>1, BetweenMarks, Zenon
  <2>2. ASSUME NEW k \in 1..v
        PROVE  t[i + k] \in Digit
    <3>1. n \in Nat /\ i + k \in 1..n /\ i + k \notin Marks(t)
      OBVIOUS
    <3> QED
      BY <3>1, BetweenMarks, Zenon
  <2> QED
    BY <2>1, <2>2
<1>3. h \in Nat
  <2>1. 0 \in Nat /\ i - 1 \in Nat /\ \A k \in 1..(i - 1) - 0 : t[0 + k] \in Digit
    BY <1>1, <1>2
  <2>2. Number(t, 0 + 1, i - 1) \in Nat
    BY <2>1, NumberIsNatural, Zenon
  <2> QED
    BY <2>2
<1>4. ASSUME NEW m \in 0..59, Hours(t, i) = 60 * h + m, b \in Fractions(m)
      PROVE  t \in Writings(time \div 60, time % 60)
  <2> HIDE DEF h
  <2>1. (60 * h + m) \div 60 = h /\ (60 * h + m) % 60 = m
    BY <1>3
  <2>2. time = Clock(h, m)
    BY <1>4, <2>1
  <2>3. h \in 0..23 /\ time \div 60 = h /\ time % 60 = m
    BY <2>2, ClockTimes
  <2>4. a \in Numerals(h, 6)
    <3>1. 0 \in Nat /\ 6 \in 1..6 /\ h \in 0..99
      BY <2>3
    <3>2. Number(t, 0 + 1, 0 + w) = h
      BY <1>1 DEF h
    <3> HIDE DEF w
    <3> QED
      BY <1>1, <1>2, <3>1, <3>2, PieceWritten, ZenonT(60)
  <2>5. t = a \o <<Point>> \o b
    BY Cut
  <2> HIDE DEF a, b
  <2>6. a \o <<Point>> \o b \in Writings(h, m)
    BY <1>4, <2>4, WritingForms
  <2> QED
    BY <2>3, <2>5, <2>6
<1>5. CASE v = 2
  <2>1. i + 1 \in Nat /\ i + 2 = n /\ t[i + 1] \in Digit /\ t[i + 2] \in Digit
    BY <1>1, <1>2, <1>5
  <2>2. PICK q \in 0..9, r \in 0..9 : q = t[i + 1] /\ r = t[i + 2]
    BY <2>1 DEF Digit
  <2>3. x = 10 * q + r
    <3>1. q \in Digit /\ r \in Digit
      BY DEF Digit
    <3>2. Number(t, i + 1, i + 2) = 10 * q + r
      BY <1>1, <2>2, <3>1, TwoDigitNumber, ZenonT(60)
    <3> QED
      BY <2>1, <3>2
  <2> HIDE DEF x
  <2>4. x \in 0..99
    BY <2>3
  <2> DEFINE m == Round(60 * x, 100)
  <2>5. m \in 0..59 /\ 3 * x - 5 * m \in -2 .. 2
    BY <2>4 DEF Round
  <2>6. Hours(t, i) = 60 * h + m
    <3>1. Len(t) = n /\ n - i = 2
      BY <1>5
    <3> HIDE DEF h
    <3> QED
      BY <3>1, Tens DEF Hours, h, x
  <2>7. b = <<x \div 10, x % 10>>
    <3>1. x = Number(t, i + 1, i + 2)
      BY <2>1 DEF x
    <3>2. [k \in 1..2 |-> t[i + k]] = <<x \div 10, x % 10>>
      BY <1>1, <2>1, <2>4, <3>1, TwoDigitsWritten, ZenonT(60)
    <3> QED
      BY <1>5, <3>2
  <2> HIDE DEF m, b
  <2>8. x \in Hundredths(m)
    BY <2>4, <2>5 DEF Hundredths
  <2>9. b \in Fractions(m)
    BY <2>7, <2>8 DEF Fractions
  <2> QED
    BY <1>4, <2>5, <2>6, <2>9 DEF b
<1>6. CASE v = 1
  <2>1. i + 1 = n /\ t[i + 1] \in Digit
    BY <1>1, <1>2, <1>6
  <2>2. PICK q \in 0..9 : q = t[i + 1]
    BY <2>1 DEF Digit
  <2>3. x = q
    <3>1. /\ i + 1 <= n - 0 /\ n - 0 = i + 1 /\ ~(i + 1 <= n - 1)
          /\ ~(i + 1 <= n - 2) /\ ~(i + 1 <= n - 3)
          /\ ~(i + 1 <= n - 4) /\ ~(i + 1 <= n - 5)
      BY <2>1
    <3>2. x = q + 10 * (0 + 10 * (0 + 10 * (0 + 10 * (0 + 10 * 0))))
      BY <2>2, <3>1 DEF Number
    <3> QED
      BY <3>2
  <2> DEFINE m == 6 * q
             y == 10 * q
  <2>4. m \in 0..59 /\ Round(60 * q, 10) = m
    BY DEF Round
  <2>5. Hours(t, i) = 60 * h + m
    <3>1. Len(t) = n /\ n - i = 1
      BY <1>6
    <3>2. Number(t, i + 1, Len(t)) = q
      BY <2>3, <3>1
    <3> HIDE DEF m
    <3> QED
      BY <2>4, <3>1, <3>2, Tens DEF Hours
  <2>6. y \in 0..99 /\ 3 * y - 5 * m \in -2 .. 2 /\ y \div 10 = q /\ y % 10 = 0
    OBVIOUS
  <2>7. b = <<q>>
    <3>1. b = [k \in 1..1 |-> t[i + k]]
      BY <1>6
    <3>2. [k \in 1..1 |-> t[i + k]] = <<t[i + 1]>>
      OBVIOUS
    <3> QED
      BY <2>2, <3>1, <3>2
  <2> HIDE DEF m, b, y
  <2>8. y \in Hundredths(m)
    BY <2>6 DEF Hundredths
  <2>9. b \in Fractions(m)
    BY <2>6, <2>7, <2>8 DEF Fractions
  <2> QED
    BY <1>4, <2>4, <2>5, <2>9 DEF b
<1> QED
  BY <1>1, <1>5, <1>6

\* All of them: what is read as a time, with no more than two decimals, is a writing of it.
LEMMA ReadingIsWritten ==
    ASSUME NEW n \in 0..8, NEW t \in [1..n -> Symbol], NEW time, time = ParseTime(t), time # None,
           \A i \in Marks(t) : t[i] = Point => Len(t) - i <= 2
    PROVE  t \in Writings(time \div 60, time % 60)
<1>1. Len(t) = n /\ n \in Nat
  OBVIOUS
<1>2. CASE Marks(t) = {}
  BY <1>2, ReadDigits, DigitsWritten
<1>3. CASE \E i \in 1..n :
             /\ Marks(t) = {i} /\ t[i] = Colon
             /\ i - 1 \in 1..2 /\ n - i \in 1..2
  <2>1. PICK i \in 1..n :
           /\ Marks(t) = {i} /\ t[i] = Colon
           /\ i - 1 \in 1..2 /\ n - i \in 1..2
    BY <1>3
  <2> DEFINE h == Number(t, 1, i - 1)
             m == Number(t, i + 1, n)
  <2>2. time = Clock(h, m)
    BY <1>1, <2>1, ReadColon
  <2>3. h \in 0..23 /\ m \in 0..59 /\ time \div 60 = h /\ time % 60 = m
    <3> HIDE DEF h, m
    <3> QED
      BY <2>2, ClockTimes
  <2>4. t \in Writings(h, m)
    BY <2>1, <2>3, HourAndMinuteWritten
  <2> QED
    BY <2>3, <2>4
<1>4. CASE \E i \in 1..n : Marks(t) = {i} /\ t[i] = Point /\ 1 < i /\ i < n
  <2>1. PICK i \in 1..n : Marks(t) = {i} /\ t[i] = Point /\ 1 < i /\ i < n
    BY <1>4
  <2>2. n - i <= 2
    BY <1>1, <2>1
  <2>3. time = Clock(Hours(t, i) \div 60, Hours(t, i) % 60)
    BY <1>1, <2>1, ReadPoint
  <2> QED
    BY <2>1, <2>2, <2>3, DecimalWritten
<1>5. CASE \E i, j \in 1..n :
             /\ i < j /\ Marks(t) = {i, j} /\ t[i] = Colon /\ t[j] = Colon
             /\ i - 1 \in 1..2 /\ j - i - 1 \in 1..2 /\ n - j \in 1..2
  <2>1. PICK i \in 1..n, j \in 1..n :
           /\ i < j /\ Marks(t) = {i, j} /\ t[i] = Colon /\ t[j] = Colon
           /\ i - 1 \in 1..2 /\ j - i - 1 \in 1..2 /\ n - j \in 1..2
    BY <1>5
  <2> DEFINE h == Number(t, 1, i - 1)
             m == Number(t, i + 1, j - 1)
             s == Number(t, j + 1, n)
  <2>2. time = IF s > 59 THEN None ELSE Clock(h, m)
    BY <1>1, <2>1, ReadColons
  <2>3. ~(s > 59) /\ time = Clock(h, m)
    BY <2>2
  <2>4. h \in 0..23 /\ m \in 0..59 /\ time \div 60 = h /\ time % 60 = m
    <3> HIDE DEF h, m
    <3> QED
      BY <2>3, ClockTimes
  <2>5. s \in 0..59
    <3>1. s \in Nat
      <4>1. \A k \in 1..n - j : t[j + k] \in Digit
        <5> TAKE k \in 1..n - j
        <5>1. j + k \in 1..n /\ j + k \notin Marks(t)
          BY <2>1
        <5> QED
          BY <1>1, <5>1, BetweenMarks, Zenon
      <4> QED
        BY <1>1, <2>1, <4>1, NumberIsNatural
    <3>2. ~(s > 59)
      BY <2>3
    <3> HIDE DEF s
    <3> QED
      BY <3>1, <3>2
  <2>6. t \in Writings(h, m)
    <3>1. h \in 0..23 /\ m \in 0..59 /\ s \in 0..59
      BY <2>4, <2>5
    <3> QED
      BY <2>1, <3>1, SecondsWritten
  <2> QED
    BY <2>4, <2>6
<1> QED
  BY <1>1, <1>2, <1>3, <1>4, <1>5, ReadOnly

\* So of every text that a field can hold.
LEMMA ReadingsAreWritten ==
    ASSUME Symbols \subseteq Symbol, MaxLength \in 0..FieldSize
    PROVE  ReadingsWritten
<1> SUFFICES ASSUME NEW t \in Texts,
                    ParseTime(t) # None,
                    \A i \in Marks(t) : t[i] = Point => Len(t) - i <= 2
             PROVE  t \in Writings(ParseTime(t) \div 60, ParseTime(t) % 60)
  BY DEF ReadingsWritten
<1>1. PICK n \in 0..MaxLength : t \in [1..n -> Symbols]
  BY DEF Texts, BoundedSeq, SeqOf
<1>2. n \in 0..8 /\ t \in [1..n -> Symbol]
  BY <1>1 DEF FieldSize
<1> QED
  BY <1>2, ReadingIsWritten

\* In a form as it is opened, what is written is read and what is read is written: of every
\* time, and of every text a field can hold.
THEOREM ParseAgreesHolds == HSpec => []ParseAgrees
<1>1. Symbols \subseteq Symbol /\ MaxLength \in 0..FieldSize
  BY FormAssumption DEF FormAssumption
<1>2. Agreement
  BY <1>1, WritingsAreRead, ReadingsAreWritten DEF Agreement
<1>3. ParseAgrees
  BY <1>2 DEF ParseAgrees
<1> QED
  BY <1>3, PTL
====
