---- MODULE TimerProofs ----
(***************************************************************************)
(* Proofs about TimerHistory for any number of tabs and requests, and any  *)
(* faults.                                                                 *)
(***************************************************************************)
EXTENDS TimerHistory, FiniteSets, FiniteSetTheorems, TLAPS

----------------------------------------------------------------------------
(* The inductive invariants behind TypeOK and HealedByOneRequest. *)

Busy(c) == calls[c].pc # "idle"

\* Requests that may still start an entry.
Starting == {c \in Calls : At(c, "solidtime") /\ calls[c].kind = "start"}

\* A request has a kind and a tab, and a poll neither reads nor publishes.
Formed(q) ==
    /\ q.pc # "idle" => q.kind \in Kinds /\ q.tab \in Tabs
    /\ q.pc \in {"read", "publish"} => q.kind # "poll"

\* Every entry was asked for: there are no more of them, the ones on their way
\* included, than requests and outside changes.
TypeInvariant ==
    /\ TypeOK
    /\ \A c \in Calls : Formed(calls[c])
    /\ IsFiniteSet(Starting)
    /\ started + Cardinality(Starting) <= made

\* The tab shows the running timer, or will when the event on its way is delivered.
Converges(t) == \/ inbox[t] = <<running>>
                \/ inbox[t] = <<>> /\ shown[t] = running

\* What is known at each step of the one request q that settles the tabs.
Settling(q) ==
    /\ q.pc # "failed"
    /\ q.pc # "answer" \/ q.kind = "poll" => \A t \in Tabs : inbox[t] = <<>>
    /\ q.kind = "poll" => \A t \in settled \ {q.tab} : shown[t] = running
    /\ q.kind # "poll" /\ q.pc # "answer" => settled \subseteq online
    /\ q.kind # "poll" /\ q.pc = "answer" =>
          \A t \in settled : Converges(t) \/ (q.kind = "stop" /\ t = q.tab)
    /\ q.pc = "publish" \/ (q.pc = "answer" /\ q.kind \in {"start", "poll"}) => q.entry = running
    /\ q.kind = "stop" /\ q.tab \in settled =>
          IF q.pc = "solidtime" THEN q.entry = running ELSE running = None

\* While some tab is settled, one request at most is in flight, and one event at most
\* is on its way to a tab.
SettledInvariant ==
    settled # {} =>
        /\ \A c, d \in Calls : Busy(c) /\ Busy(d) => c = d
        /\ \A t \in Tabs : inbox[t] \in {<<>>, <<running>>}
        /\ \A c \in Calls : Busy(c) => Settling(calls[c])
        /\ (\A c \in Calls : ~Busy(c)) => \A t \in settled : Converges(t)

----------------------------------------------------------------------------
(* Types. *)

\* The variables start with their types, and nobody has asked for anything.
LEMMA TypeInit == HInit => TypeInvariant
<1> SUFFICES ASSUME HInit PROVE TypeInvariant
  OBVIOUS
<1> USE DEF HInit, Init
<1>1. TypeOK
  <2>1. Idle \in Requesting
    BY DEF Idle, Requesting, Timers
  <2> QED
    BY <2>1, TimerAssumption DEF TypeOK, TimerAssumption, Timers
<1>2. \A c \in Calls : Formed(calls[c])
  BY DEF Formed, Idle
<1>3. Starting = {}
  BY DEF Starting, At, Idle
<1> QED
  BY <1>1, <1>2, <1>3, FS_EmptySet, TimerAssumption DEF TypeInvariant, TimerAssumption

\* A new request keeps the types, and is counted if it may start an entry.
LEMMA CallType ==
    ASSUME TypeInvariant, NEW c \in Calls, NEW t \in Tabs, NEW kind \in Kinds, NEW e \in Timers,
           Call(c, t, kind, e), UNCHANGED <<running, started, shown, inbox>>,
           online' \subseteq Tabs, settled' \subseteq Tabs
    PROVE  TypeInvariant'
<1> DEFINE q == [pc |-> "solidtime", kind |-> kind, tab |-> t, entry |-> e]
<1>1. q \in Requesting /\ Formed(q)
  BY DEF Requesting, Formed, Kinds
<1>2. calls' = [calls EXCEPT ![c] = q] /\ calls \in [Calls -> Requesting] /\ At(c, "idle")
  BY DEF Call, TypeInvariant, TypeOK
<1>3. made' = made + 1 /\ made' \in 0..MaxCalls /\ made \in Nat /\ started \in Nat
  BY TimerAssumption DEF Call, TypeInvariant, TypeOK, TimerAssumption
<1>4. TypeOK'
  BY <1>1, <1>2, <1>3 DEF TypeInvariant, TypeOK
<1>5. (\A d \in Calls : Formed(calls[d]))'
  BY <1>1, <1>2 DEF TypeInvariant
<1>6. IsFiniteSet(Starting) /\ Cardinality(Starting) \in Nat /\ c \notin Starting
  BY <1>2, FS_CardinalityType DEF TypeInvariant, Starting, At
<1>7. CASE kind = "start"
  <2>1. Starting' = Starting \cup {c}
    BY <1>2, <1>7 DEF Starting, At
  <2>2. IsFiniteSet(Starting') /\ Cardinality(Starting') = Cardinality(Starting) + 1
    BY <1>6, <2>1, FS_AddElement
  <2> QED
    BY <1>3, <1>4, <1>5, <1>6, <2>2 DEF TypeInvariant
<1>8. CASE kind # "start"
  <2>1. Starting' = Starting
    BY <1>2, <1>8 DEF Starting, At
  <2> QED
    BY <1>3, <1>4, <1>5, <1>6, <2>1 DEF TypeInvariant
<1> QED
  BY <1>7, <1>8

\* So does every request of a tab.
LEMMA AskType ==
    ASSUME TypeInvariant, NEW c \in Calls, NEW t \in Tabs, Ask(c, t), ObserveAsk(c, t)
    PROVE  TypeInvariant'
<1>1. None \in Timers /\ shown[t] \in Timers /\ online \subseteq Tabs /\ settled \subseteq Tabs
  BY DEF TypeInvariant, TypeOK, Timers
<1>2. calls'[c].kind \in Kinds
  BY DEF TypeInvariant, TypeOK, Ask, StartTimer, StopTimer, EditEntry, Reconnect, Call, Kinds
<1>3. settled' \subseteq online \cup settled \cup {t}
  BY <1>2 DEF ObserveAsk, Informed, Kinds
<1>4. settled' \subseteq Tabs
  BY <1>1, <1>3
<1>5. CASE StartTimer(c, t)
  BY <1>1, <1>4, <1>5, CallType DEF StartTimer, Kinds
<1>6. CASE StopTimer(c, t)
  BY <1>1, <1>4, <1>6, CallType DEF StopTimer, Kinds
<1>7. CASE EditEntry(c, t)
  BY <1>1, <1>4, <1>7, CallType DEF EditEntry, Kinds
<1>8. CASE Reconnect(c, t)
  BY <1>1, <1>4, <1>8, CallType DEF Reconnect, Kinds
<1> QED
  BY <1>5, <1>6, <1>7, <1>8 DEF Ask

\* A step of the request in slot c that starts no entry: if the request and the other
\* variables keep their types, and it does not go back to where it may start one, the
\* invariant is kept.
LEMMA StepType ==
    ASSUME TypeInvariant, NEW c \in Calls, NEW q \in Requesting, Formed(q),
           calls' = [calls EXCEPT ![c] = q], q.pc # "solidtime",
           running' \in Timers, shown' \in [Tabs -> Timers], inbox' \in [Tabs -> Seq(Timers)],
           UNCHANGED <<started, online, made>>, settled' \subseteq Tabs
    PROVE  TypeInvariant'
<1>1. calls \in [Calls -> Requesting] /\ started \in Nat /\ made \in Nat
  BY TimerAssumption DEF TypeInvariant, TypeOK, TimerAssumption
<1>2. TypeOK'
  BY <1>1 DEF TypeInvariant, TypeOK
<1>3. (\A d \in Calls : Formed(calls[d]))'
  BY <1>1 DEF TypeInvariant
<1>4. Starting' = Starting \ {c}
  BY <1>1 DEF Starting, At
<1>5. IsFiniteSet(Starting') /\ Cardinality(Starting') <= Cardinality(Starting)
      /\ Cardinality(Starting') \in Nat /\ Cardinality(Starting) \in Nat
  BY <1>4, FS_RemoveElement, FS_CardinalityType, FS_Subset DEF TypeInvariant
<1> QED
  BY <1>1, <1>2, <1>3, <1>5 DEF TypeInvariant

\* Starting an entry turns a request that may start one into an entry.
LEMMA CreateType ==
    ASSUME TypeInvariant, NEW c \in Calls, CreateTimeEntry(c), settled' \subseteq Tabs
    PROVE  TypeInvariant'
<1> USE DEF CreateTimeEntry, Goto, At
<1>1. calls \in [Calls -> Requesting] /\ started \in Nat /\ made \in 0..MaxCalls /\ MaxCalls \in Nat
      /\ Formed(calls[c])
  BY TimerAssumption DEF TypeInvariant, TypeOK, TimerAssumption
<1>2. CASE running # None
  <2> DEFINE q == [calls[c] EXCEPT !.pc = "failed"]
  <2>1. q \in Requesting /\ Formed(q) /\ q.pc # "solidtime" /\ calls' = [calls EXCEPT ![c] = q]
    BY <1>1, <1>2 DEF Requesting, Formed
  <2> QED
    BY <1>2, <2>1, StepType DEF TypeInvariant, TypeOK
<1>3. CASE running = None
  <2>1. c \in Starting
    BY DEF Starting
  <2>2. Cardinality(Starting) \in Nat /\ Cardinality(Starting \ {c}) = Cardinality(Starting) - 1
        /\ IsFiniteSet(Starting \ {c}) /\ Cardinality(Starting \ {c}) \in Nat
    BY <2>1, FS_RemoveElement, FS_CardinalityType DEF TypeInvariant
  <2>3. started' = started + 1 /\ started + 1 \in 1..MaxCalls
    BY <1>1, <1>3, <2>2 DEF TypeInvariant
  <2> DEFINE q == [calls[c] EXCEPT !.pc = "publish", !.entry = started']
  <2>4. q \in Requesting /\ Formed(q) /\ calls' = [calls EXCEPT ![c] = q]
    BY <1>1, <1>3, <2>3 DEF Requesting, Formed, Timers, Entries
  <2>5. TypeOK'
    BY <1>1, <1>3, <2>3, <2>4 DEF TypeInvariant, TypeOK, Timers, Entries
  <2>6. (\A d \in Calls : Formed(calls[d]))'
    BY <1>1, <2>4 DEF TypeInvariant
  <2>7. Starting' = Starting \ {c}
    BY <1>1, <2>4 DEF Starting
  <2> QED
    BY <1>1, <1>3, <2>2, <2>3, <2>5, <2>6, <2>7 DEF TypeInvariant
<1> QED
  BY <1>2, <1>3

\* Every step of a handler keeps the types.
LEMMA HandleType ==
    ASSUME TypeInvariant, NEW c \in Calls, Handle(c), ObserveHandle(c)
    PROVE  TypeInvariant'
<1>0. settled' \subseteq Tabs
  BY DEF ObserveHandle, TypeInvariant, TypeOK
<1>1. calls \in [Calls -> Requesting] /\ calls[c] \in Requesting /\ Formed(calls[c])
      /\ running \in Timers /\ None \in Timers
      /\ shown \in [Tabs -> Timers] /\ inbox \in [Tabs -> Seq(Timers)]
  BY DEF TypeInvariant, TypeOK, Timers
<1>2. CASE CreateTimeEntry(c)
  BY <1>0, <1>2, CreateType
<1>3. CASE UpdateTimeEntry(c)
  <2> DEFINE q == [calls[c] EXCEPT !.pc = "read"]
  <2>1. q \in Requesting /\ Formed(q) /\ q.pc # "solidtime" /\ calls' = [calls EXCEPT ![c] = q]
    BY <1>1, <1>3 DEF UpdateTimeEntry, Goto, At, Requesting, Formed, Kinds
  <2> QED
    BY <1>0, <1>1, <1>3, <2>1, StepType DEF UpdateTimeEntry
<1>4. CASE ChangeEntry(c)
  <2> DEFINE q == [calls[c] EXCEPT !.pc = "read"]
  <2>1. q \in Requesting /\ Formed(q) /\ q.pc # "solidtime" /\ calls' = [calls EXCEPT ![c] = q]
    BY <1>1, <1>4 DEF ChangeEntry, Goto, At, Requesting, Formed, Kinds
  <2> QED
    BY <1>0, <1>1, <1>4, <2>1, StepType DEF ChangeEntry
<1>5. CASE GetActiveTimeEntry(c)
  <2> DEFINE q == [calls[c] EXCEPT !.pc = "answer", !.entry = running]
  <2>1. q \in Requesting /\ Formed(q) /\ q.pc # "solidtime" /\ calls' = [calls EXCEPT ![c] = q]
    BY <1>1, <1>5 DEF GetActiveTimeEntry, At, Requesting, Formed, Kinds
  <2> QED
    BY <1>0, <1>1, <1>5, <2>1, StepType DEF GetActiveTimeEntry
<1>6. CASE ReadActive(c)
  <2> DEFINE q == [calls[c] EXCEPT !.pc = "publish", !.entry = running]
  <2>1. q \in Requesting /\ Formed(q) /\ q.pc # "solidtime" /\ calls' = [calls EXCEPT ![c] = q]
    BY <1>1, <1>6 DEF ReadActive, At, Requesting, Formed, Kinds
  <2> QED
    BY <1>0, <1>1, <1>6, <2>1, StepType DEF ReadActive
<1>7. CASE PublishTimerChange(c)
  <2> DEFINE q == [calls[c] EXCEPT !.pc = "answer"]
  <2>1. q \in Requesting /\ Formed(q) /\ q.pc # "solidtime" /\ calls' = [calls EXCEPT ![c] = q]
    BY <1>1, <1>7 DEF PublishTimerChange, Goto, At, Requesting, Formed, Kinds
  <2>2. calls[c].entry \in Timers
    BY <1>1 DEF Requesting
  <2>3. inbox' \in [Tabs -> Seq(Timers)]
    BY <1>1, <1>7, <2>2 DEF PublishTimerChange
  <2> QED
    BY <1>0, <1>1, <1>7, <2>1, <2>3, StepType DEF PublishTimerChange
<1> QED
  BY <1>2, <1>3, <1>4, <1>5, <1>6, <1>7 DEF Handle

\* So do an error of Solidtime and the answers.
LEMMA AnswerType ==
    ASSUME TypeInvariant, NEW c \in Calls, settled' \subseteq Tabs,
           SolidtimeError(c) \/ Answer(c) \/ AnswerError(c)
    PROVE  TypeInvariant'
<1>1. calls \in [Calls -> Requesting] /\ calls[c] \in Requesting /\ Formed(calls[c])
      /\ running \in Timers /\ None \in Timers
      /\ shown \in [Tabs -> Timers] /\ inbox \in [Tabs -> Seq(Timers)]
  BY DEF TypeInvariant, TypeOK, Timers
<1>2. Idle \in Requesting /\ Formed(Idle) /\ Idle.pc # "solidtime"
  BY <1>1 DEF Idle, Requesting, Formed
<1>3. CASE SolidtimeError(c)
  <2>1. PICK step \in {"failed", "answer"} : calls' = [calls EXCEPT ![c].pc = step]
    BY <1>3 DEF SolidtimeError, Goto
  <2> DEFINE q == [calls[c] EXCEPT !.pc = step]
  <2>2. calls[c].pc # "idle"
    BY <1>3 DEF SolidtimeError, At
  <2>3. q \in Requesting /\ Formed(q) /\ q.pc # "solidtime" /\ calls' = [calls EXCEPT ![c] = q]
    BY <1>1, <2>1, <2>2 DEF Requesting, Formed, Kinds
  <2> QED
    BY <1>1, <1>3, <2>3, StepType DEF SolidtimeError
<1>4. CASE Answer(c)
  <2>1. calls[c].kind \in Kinds /\ calls[c].tab \in Tabs /\ calls[c].entry \in Timers
    BY <1>1, <1>4 DEF Answer, At, Formed, Requesting
  <2>2. shown' \in [Tabs -> Timers]
    BY <1>1, <1>4, <2>1 DEF Answer, Kinds
  <2> QED
    BY <1>1, <1>2, <1>4, <2>2, StepType DEF Answer
<1>5. CASE AnswerError(c)
  <2>1. shown' \in [Tabs -> Timers]
    BY <1>1, <1>5 DEF AnswerError
  <2> QED
    BY <1>1, <1>2, <1>5, <2>1, StepType DEF AnswerError
<1> QED
  BY <1>3, <1>4, <1>5

\* So do the steps that no request makes.
LEMMA OtherType ==
    ASSUME TypeInvariant, settled' \subseteq Tabs,
           (\E t \in Tabs : TimerEvent(t) \/ Disconnected(t)) \/ Elsewhere
    PROVE  TypeInvariant'
<1>1. /\ running \in Timers /\ online \subseteq Tabs /\ MaxCalls \in Nat
      /\ shown \in [Tabs -> Timers] /\ inbox \in [Tabs -> Seq(Timers)]
      /\ started \in Nat /\ made \in 0..MaxCalls
      /\ IsFiniteSet(Starting) /\ Cardinality(Starting) \in Nat
      /\ started + Cardinality(Starting) <= made
  BY FS_CardinalityType, TimerAssumption DEF TypeInvariant, TypeOK, TimerAssumption
<1>2. calls' = calls /\ Starting' = Starting
  BY DEF TimerEvent, Disconnected, Elsewhere, Starting, At
<1>3. ASSUME NEW t \in Tabs, TimerEvent(t) PROVE TypeInvariant'
  <2>1. Head(inbox[t]) \in Timers /\ Tail(inbox[t]) \in Seq(Timers)
    BY <1>1, <1>3 DEF TimerEvent
  <2> QED
    BY <1>1, <1>2, <1>3, <2>1 DEF TimerEvent, TypeInvariant, TypeOK
<1>4. ASSUME NEW t \in Tabs, Disconnected(t) PROVE TypeInvariant'
  BY <1>1, <1>2, <1>4 DEF Disconnected, TypeInvariant, TypeOK
<1>5. CASE Elsewhere
  <2>1. made' = made + 1 /\ made' \in 0..MaxCalls
    BY <1>1, <1>5 DEF Elsewhere
  <2>2. /\ started' \in Nat /\ started' + Cardinality(Starting) <= made'
        /\ running' \in {None, started'} /\ (running' = None \/ started' = started + 1)
    BY <1>1, <1>5, <2>1 DEF Elsewhere
  <2>3. started' \in 0..MaxCalls /\ running' \in Timers
    BY <1>1, <2>1, <2>2 DEF Timers, Entries
  <2> QED
    BY <1>1, <1>2, <1>5, <2>1, <2>2, <2>3 DEF Elsewhere, TypeInvariant, TypeOK
<1> QED
  BY <1>3, <1>4, <1>5

\* Every step keeps the types and the count of the entries.
LEMMA TypeStep == TypeInvariant /\ [HNext]_hvars => TypeInvariant'
<1> SUFFICES ASSUME TypeInvariant, [HNext]_hvars PROVE TypeInvariant'
  OBVIOUS
<1>0. settled \subseteq Tabs
  BY DEF TypeInvariant, TypeOK
<1>1. ASSUME NEW c \in Calls, NEW t \in Tabs, Ask(c, t), ObserveAsk(c, t) PROVE TypeInvariant'
  BY <1>1, AskType
<1>2. ASSUME NEW c \in Calls, Handle(c), ObserveHandle(c) PROVE TypeInvariant'
  BY <1>2, HandleType
<1>3. ASSUME NEW c \in Calls, SolidtimeError(c), ObserveError(c) PROVE TypeInvariant'
  <2>1. settled' \subseteq Tabs
    BY <1>0, <1>3 DEF ObserveError
  <2> QED
    BY <1>3, <2>1, AnswerType
<1>4. ASSUME NEW c \in Calls, Answer(c) \/ AnswerError(c), UNCHANGED settled PROVE TypeInvariant'
  BY <1>0, <1>4, AnswerType
<1>5. ASSUME NEW t \in Tabs, TimerEvent(t), UNCHANGED settled PROVE TypeInvariant'
  BY <1>0, <1>5, OtherType
<1>6. ASSUME NEW t \in Tabs, Disconnected(t), settled' = settled \ {t} PROVE TypeInvariant'
  BY <1>0, <1>6, OtherType
<1>7. CASE Elsewhere /\ settled' = {}
  BY <1>7, OtherType
<1>8. CASE UNCHANGED hvars
  <2>1. Starting' = Starting
    BY <1>8 DEF hvars, Starting, At
  <2> QED
    BY <1>8, <2>1 DEF hvars, TypeInvariant, TypeOK
<1> QED
  BY <1>1, <1>2, <1>3, <1>4, <1>5, <1>6, <1>7, <1>8 DEF HNext

\* Every variable keeps its type; in particular, Solidtime never has more entries than
\* were asked for.
THEOREM TypesHold == HSpec => []TypeOK
<1>1. TypeInvariant => TypeOK
  BY DEF TypeInvariant
<1> QED
  BY <1>1, TypeInit, TypeStep, PTL DEF HSpec

----------------------------------------------------------------------------
(* Synchronization. *)

\* What a step of the one request in flight has to show.
LEMMA OneRequestStep ==
    ASSUME TypeInvariant, SettledInvariant, settled # {}, settled' \subseteq settled,
           NEW c \in Calls, Busy(c), \A d \in Calls \ {c} : calls'[d] = calls[d],
           \A t \in Tabs : inbox'[t] \in {<<>>, <<running'>>},
           Busy(c)' => Settling(calls[c])',
           ~Busy(c)' => \A t \in settled' : Converges(t)'
    PROVE  SettledInvariant'
<1>1. \A d \in Calls : Busy(d)' => d = c
  BY DEF SettledInvariant, Busy
<1> QED
  BY <1>1 DEF SettledInvariant

\* A request sent while nothing else was under way settles the tabs it informs.
LEMMA AskSettles ==
    ASSUME TypeInvariant, SettledInvariant, NEW c \in Calls, NEW t \in Tabs,
           Ask(c, t), ObserveAsk(c, t)
    PROVE  SettledInvariant'
<1>1. CASE ~Quiet
  BY <1>1 DEF ObserveAsk, SettledInvariant
<1>2. CASE Quiet
  <2>1. /\ calls \in [Calls -> Requesting]
        /\ \A d \in Calls : calls[d].pc = "idle"
        /\ \A u \in Tabs : inbox[u] = <<>>
        /\ settled \subseteq Tabs /\ online \subseteq Tabs
    BY <1>2 DEF Quiet, At, TypeInvariant, TypeOK
  <2>2. \A u \in settled : shown[u] = running
    <3> SUFFICES ASSUME NEW u \in settled PROVE shown[u] = running
      OBVIOUS
    <3>1. Converges(u)
      BY <2>1 DEF SettledInvariant, Busy
    <3>2. inbox[u] = <<>> /\ <<running>> # <<>>
      BY <2>1
    <3> QED
      BY <3>1, <3>2 DEF Converges
  <2>3. UNCHANGED <<running, shown, inbox>>
    BY DEF Ask, StartTimer, StopTimer, EditEntry, Reconnect
  <2>4. /\ calls'[c].pc = "solidtime" /\ calls'[c].tab = t /\ calls'[c].kind \in Kinds
        /\ \A d \in Calls \ {c} : calls'[d] = calls[d]
        /\ calls'[c].kind = "stop" => calls'[c].entry = shown[t]
        /\ calls'[c].kind # "poll" => online' = online
    BY <2>1 DEF Ask, StartTimer, StopTimer, EditEntry, Reconnect, Call, Kinds
  <2>5. settled' = Informed(t, calls'[c].kind)
    BY <1>2 DEF ObserveAsk
  <2>6. Settling(calls[c])'
    <3>1. CASE calls'[c].kind = "poll"
      <4>1. settled' = settled \cup {t}
        BY <2>5, <3>1 DEF Informed
      <4> QED
        BY <2>1, <2>2, <2>3, <2>4, <3>1, <4>1 DEF Settling
    <3>2. CASE calls'[c].kind = "stop"
      <4>1. settled' = IF shown[t] = running THEN online ELSE online \ {t}
        BY <2>5, <3>2 DEF Informed
      <4> QED
        BY <2>1, <2>3, <2>4, <3>2, <4>1 DEF Settling
    <3>3. CASE calls'[c].kind \in {"start", "edit"}
      <4>1. settled' = online
        BY <2>5, <3>3 DEF Informed
      <4> QED
        BY <2>1, <2>3, <2>4, <3>3, <4>1 DEF Settling
    <3> QED
      BY <2>4, <3>1, <3>2, <3>3 DEF Kinds
  <2>7. \A d \in Calls : Busy(d)' <=> d = c
    BY <2>1, <2>4 DEF Busy
  <2> QED
    BY <2>1, <2>3, <2>6, <2>7 DEF SettledInvariant
<1> QED
  BY <1>1, <1>2

\* The change in Solidtime comes before the read of the active entry, and that before
\* the event: what is published is what runs.
LEMMA HandleSettles ==
    ASSUME TypeInvariant, SettledInvariant, NEW c \in Calls, Handle(c), ObserveHandle(c)
    PROVE  SettledInvariant'
<1>1. CASE settled' = {}
  BY <1>1 DEF SettledInvariant
<1>2. CASE settled' # {}
  <2>1. settled' = settled /\ settled # {} /\ calls'[c].pc # "failed"
    BY <1>2 DEF ObserveHandle
  <2>2. Busy(c)
    BY DEF Handle, Busy, At, CreateTimeEntry, UpdateTimeEntry, ChangeEntry, GetActiveTimeEntry,
           ReadActive, PublishTimerChange
  <2>3. /\ calls \in [Calls -> Requesting] /\ Formed(calls[c])
        /\ inbox \in [Tabs -> Seq(Timers)] /\ settled \subseteq Tabs
        /\ Settling(calls[c])
    BY <2>1, <2>2 DEF TypeInvariant, TypeOK, SettledInvariant
  <2>4. CASE CreateTimeEntry(c)
    <3>0. running = None
      BY <2>1, <2>3, <2>4 DEF CreateTimeEntry, Goto, Requesting
    <3>1. /\ calls[c].kind = "start" /\ calls[c].pc = "solidtime"
          /\ running' = started'
          /\ calls' = [calls EXCEPT ![c].pc = "publish", ![c].entry = started']
          /\ UNCHANGED <<shown, inbox, online>>
      BY <2>4, <3>0 DEF CreateTimeEntry, At
    <3>2. /\ calls'[c].pc = "publish" /\ calls'[c].kind = "start" /\ calls'[c].entry = running'
          /\ \A d \in Calls \ {c} : calls'[d] = calls[d]
      BY <2>3, <3>1 DEF Requesting
    <3>3. Settling(calls[c])' /\ \A t \in Tabs : inbox'[t] = <<>>
      BY <2>1, <2>3, <3>1, <3>2 DEF Settling
    <3> QED
      BY <2>1, <2>2, <3>2, <3>3, OneRequestStep DEF Busy
  <2>5. CASE UpdateTimeEntry(c)
    <3>1. /\ calls[c].pc = "solidtime" /\ calls[c].kind = "stop"
          /\ running' = IF running = calls[c].entry THEN None ELSE running
          /\ UNCHANGED <<shown, inbox, online>>
      BY <2>5 DEF UpdateTimeEntry, At
    <3>2. /\ calls'[c].pc = "read" /\ calls'[c].kind = "stop" /\ calls'[c].tab = calls[c].tab
          /\ \A d \in Calls \ {c} : calls'[d] = calls[d]
      BY <2>3, <2>5 DEF UpdateTimeEntry, At, Goto, Requesting
    <3>3. Settling(calls[c])' /\ \A t \in Tabs : inbox'[t] = <<>>
      BY <2>1, <2>3, <3>1, <3>2 DEF Settling
    <3> QED
      BY <2>1, <2>2, <3>2, <3>3, OneRequestStep DEF Busy
  <2>6. CASE ChangeEntry(c)
    <3>1. /\ calls[c].pc = "solidtime" /\ calls[c].kind = "edit"
          /\ UNCHANGED <<running, shown, inbox, online>>
      BY <2>6 DEF ChangeEntry, At
    <3>2. /\ calls'[c].pc = "read" /\ calls'[c].kind = "edit"
          /\ \A d \in Calls \ {c} : calls'[d] = calls[d]
      BY <2>3, <2>6 DEF ChangeEntry, At, Goto, Requesting
    <3>3. Settling(calls[c])' /\ \A t \in Tabs : inbox'[t] = <<>>
      BY <2>1, <2>3, <3>1, <3>2 DEF Settling
    <3> QED
      BY <2>1, <2>2, <3>2, <3>3, OneRequestStep DEF Busy
  <2>7. CASE GetActiveTimeEntry(c)
    <3>1. /\ calls[c].pc = "solidtime" /\ calls[c].kind = "poll"
          /\ UNCHANGED <<running, shown, inbox, online>>
      BY <2>7 DEF GetActiveTimeEntry, At
    <3>2. /\ calls'[c].pc = "answer" /\ calls'[c].kind = "poll" /\ calls'[c].entry = running
          /\ calls'[c].tab = calls[c].tab
          /\ \A d \in Calls \ {c} : calls'[d] = calls[d]
      BY <2>3, <2>7 DEF GetActiveTimeEntry, At, Requesting
    <3>3. Settling(calls[c])' /\ \A t \in Tabs : inbox'[t] = <<>>
      BY <2>1, <2>3, <3>1, <3>2 DEF Settling
    <3> QED
      BY <2>1, <2>2, <3>2, <3>3, OneRequestStep DEF Busy
  <2>8. CASE ReadActive(c)
    <3>1. /\ calls[c].pc = "read" /\ calls[c].kind # "poll"
          /\ UNCHANGED <<running, shown, inbox, online>>
      BY <2>3, <2>8 DEF ReadActive, At, Formed
    <3>2. /\ calls'[c].pc = "publish" /\ calls'[c].kind = calls[c].kind
          /\ calls'[c].entry = running /\ calls'[c].tab = calls[c].tab
          /\ \A d \in Calls \ {c} : calls'[d] = calls[d]
      BY <2>3, <2>8 DEF ReadActive, At, Requesting
    <3>3. Settling(calls[c])' /\ \A t \in Tabs : inbox'[t] = <<>>
      BY <2>1, <2>3, <3>1, <3>2 DEF Settling
    <3> QED
      BY <2>1, <2>2, <3>2, <3>3, OneRequestStep DEF Busy
  <2>9. CASE PublishTimerChange(c)
    <3>1. /\ calls[c].pc = "publish" /\ calls[c].kind # "poll"
          /\ UNCHANGED <<running, shown, online>>
      BY <2>3, <2>9 DEF PublishTimerChange, At, Formed
    <3>2. /\ calls'[c].pc = "answer" /\ calls'[c].kind = calls[c].kind
          /\ calls'[c].entry = calls[c].entry /\ calls'[c].tab = calls[c].tab
          /\ \A d \in Calls \ {c} : calls'[d] = calls[d]
      BY <2>3, <2>9 DEF PublishTimerChange, At, Goto, Requesting
    <3>3. calls[c].entry = running /\ settled \subseteq online /\ \A t \in Tabs : inbox[t] = <<>>
      BY <2>3, <3>1 DEF Settling
    <3>4. \A t \in Tabs : inbox'[t] = IF t \in online THEN <<running'>> ELSE <<>>
      <4>1. Append(<<>>, running) = <<running>>
        OBVIOUS
      <4> QED
        BY <2>9, <3>1, <3>3, <4>1 DEF PublishTimerChange
    <3>5. \A t \in settled' : Converges(t)'
      BY <2>1, <2>3, <3>3, <3>4 DEF Converges
    <3>6. Settling(calls[c])'
      BY <2>1, <2>3, <3>1, <3>2, <3>3, <3>5 DEF Settling
    <3> QED
      BY <2>1, <2>2, <3>2, <3>4, <3>6, OneRequestStep DEF Busy
  <2> QED
    BY <2>4, <2>5, <2>6, <2>7, <2>8, <2>9 DEF Handle
<1> QED
  BY <1>1, <1>2

\* A stop whose event is dropped has no timer left to show, and its answer says so.
LEMMA ErrorSettles ==
    ASSUME TypeInvariant, SettledInvariant, NEW c \in Calls,
           SolidtimeError(c), ObserveError(c)
    PROVE  SettledInvariant'
<1>1. CASE settled' = {}
  BY <1>1 DEF SettledInvariant
<1>2. CASE settled' # {}
  <2>1. /\ calls[c].pc = "read" /\ calls[c].kind = "stop"
        /\ settled' = settled \cap {calls[c].tab}
        /\ settled # {} /\ calls[c].tab \in settled
    BY <1>2 DEF ObserveError, At
  <2>2. Busy(c)
    BY <2>1 DEF Busy
  <2>3. calls \in [Calls -> Requesting] /\ Settling(calls[c])
    BY <2>1, <2>2 DEF TypeInvariant, TypeOK, SettledInvariant
  <2>4. /\ calls'[c].pc = "answer" /\ calls'[c].kind = "stop" /\ calls'[c].tab = calls[c].tab
        /\ \A d \in Calls \ {c} : calls'[d] = calls[d]
        /\ UNCHANGED <<running, shown, inbox, online>>
    BY <2>1, <2>3 DEF SolidtimeError, At, Goto, Requesting
  <2>5. (\A t \in Tabs : inbox[t] = <<>>) /\ running = None
    BY <2>1, <2>3 DEF Settling
  <2>6. Settling(calls[c])'
    BY <2>1, <2>4, <2>5 DEF Settling
  <2> QED
    BY <2>1, <2>2, <2>4, <2>5, <2>6, OneRequestStep DEF Busy
<1> QED
  BY <1>1, <1>2

\* The answer tells the tab that asked what the event tells all of them.
LEMMA AnswerSettles ==
    ASSUME TypeInvariant, SettledInvariant, NEW c \in Calls,
           Answer(c) \/ AnswerError(c), UNCHANGED settled
    PROVE  SettledInvariant'
<1>1. CASE settled = {}
  BY <1>1 DEF SettledInvariant
<1>2. CASE settled # {}
  <2>1. Busy(c)
    BY DEF Answer, AnswerError, At, Busy
  <2>2. /\ calls \in [Calls -> Requesting] /\ Formed(calls[c])
        /\ shown \in [Tabs -> Timers] /\ settled \subseteq Tabs
        /\ Settling(calls[c])
    BY <1>2, <2>1 DEF TypeInvariant, TypeOK, SettledInvariant
  <2>3. Answer(c)
    BY <2>2 DEF AnswerError, At, Settling
  <2>4. /\ calls[c].pc = "answer" /\ calls[c].kind \in Kinds
        /\ \A d \in Calls \ {c} : calls'[d] = calls[d]
        /\ ~Busy(c)'
        /\ UNCHANGED <<running, inbox, online>>
    BY <2>2, <2>3 DEF Answer, At, Formed, Busy, Idle
  <2>5. \A t \in settled : inbox[t] = <<running>> \/ inbox[t] = <<>>
    BY <1>2, <2>2 DEF SettledInvariant
  <2>6. \A t \in settled \ {calls[c].tab} : shown'[t] = shown[t]
    BY <2>2, <2>3 DEF Answer
  <2>7. calls[c].tab \in settled /\ calls[c].kind # "edit" => shown'[calls[c].tab] = running
    <3>1. CASE calls[c].kind \in {"start", "poll"}
      BY <2>2, <2>3, <2>4, <3>1 DEF Answer, Settling
    <3>2. CASE calls[c].kind = "stop"
      BY <2>2, <2>3, <2>4, <3>2 DEF Answer, Settling
    <3> QED
      BY <2>4, <3>1, <3>2 DEF Kinds
  <2>8. calls[c].tab \in settled /\ calls[c].kind = "edit" => shown'[calls[c].tab] = shown[calls[c].tab]
    BY <2>2, <2>3 DEF Answer
  <2>9. \A t \in settled' : Converges(t)'
    BY <2>2, <2>4, <2>5, <2>6, <2>7, <2>8 DEF Converges, Settling
  <2>10. \A t \in Tabs : inbox'[t] \in {<<>>, <<running'>>}
    BY <1>2, <2>4 DEF SettledInvariant
  <2> QED
    BY <1>2, <2>1, <2>4, <2>9, <2>10, OneRequestStep
<1> QED
  BY <1>1, <1>2

\* The event that is delivered holds what runs, and a tab that goes offline is settled
\* no more.
LEMMA SocketSettles ==
    ASSUME TypeInvariant, SettledInvariant, NEW t \in Tabs,
           \/ TimerEvent(t) /\ settled' = settled
           \/ Disconnected(t) /\ settled' = settled \ {t}
    PROVE  SettledInvariant'
<1>1. CASE settled = {}
  BY <1>1 DEF SettledInvariant
<1>2. CASE settled # {}
  <2>1. /\ shown \in [Tabs -> Timers] /\ inbox \in [Tabs -> Seq(Timers)] /\ settled \subseteq Tabs
        /\ UNCHANGED <<running, calls>> /\ \A c \in Calls : Busy(c)' <=> Busy(c)
    BY DEF TypeInvariant, TypeOK, TimerEvent, Disconnected, Busy
  <2>2. \A u \in Tabs : inbox[u] \in {<<>>, <<running>>}
    BY <1>2 DEF SettledInvariant
  <2>3. /\ inbox'[t] = <<>>
        /\ \A u \in Tabs \ {t} : inbox'[u] = inbox[u] /\ shown'[u] = shown[u]
        /\ t \in settled' => shown'[t] = running \/ Disconnected(t)
        /\ settled' \subseteq settled
    <3>1. CASE TimerEvent(t) /\ settled' = settled
      <4>1. inbox[t] = <<running>> /\ Head(<<running>>) = running /\ Tail(<<running>>) = <<>>
        BY <2>2, <3>1 DEF TimerEvent
      <4> QED
        BY <2>1, <3>1, <4>1 DEF TimerEvent
    <3>2. CASE Disconnected(t) /\ settled' = settled \ {t}
      BY <2>1, <3>2 DEF Disconnected
    <3> QED
      BY <3>1, <3>2
  <2>4. t \in settled' => shown'[t] = running
    BY <2>1, <2>2 DEF TimerEvent
  <2>5. \A u \in settled : Converges(u) /\ u \in settled' => Converges(u)'
    BY <2>1, <2>3, <2>4 DEF Converges
  <2>6. \A c \in Calls : Settling(calls[c]) => Settling(calls[c])'
    <3> SUFFICES ASSUME NEW c \in Calls, Settling(calls[c]) PROVE Settling(calls[c])'
      OBVIOUS
    <3>1. settled \subseteq online => settled' \subseteq online'
      BY DEF TimerEvent, Disconnected
    <3> QED
      BY <2>1, <2>2, <2>3, <2>4, <2>5, <3>1 DEF Settling
  <2> QED
    BY <1>2, <2>1, <2>2, <2>3, <2>5, <2>6 DEF SettledInvariant
<1> QED
  BY <1>1, <1>2

\* Every step keeps the settled tabs on their way to the running timer.
LEMMA SettledStep == TypeInvariant /\ SettledInvariant /\ [HNext]_hvars => SettledInvariant'
<1> SUFFICES ASSUME TypeInvariant, SettledInvariant, [HNext]_hvars PROVE SettledInvariant'
  OBVIOUS
<1>1. ASSUME NEW c \in Calls, NEW t \in Tabs, Ask(c, t), ObserveAsk(c, t) PROVE SettledInvariant'
  BY <1>1, AskSettles
<1>2. ASSUME NEW c \in Calls, Handle(c), ObserveHandle(c) PROVE SettledInvariant'
  BY <1>2, HandleSettles
<1>3. CASE settled' = {}
  BY <1>3 DEF SettledInvariant
<1>4. ASSUME NEW c \in Calls, Answer(c) \/ AnswerError(c), UNCHANGED settled PROVE SettledInvariant'
  BY <1>4, AnswerSettles
<1>5. ASSUME NEW t \in Tabs, TimerEvent(t), settled' = settled PROVE SettledInvariant'
  BY <1>5, SocketSettles
<1>6. ASSUME NEW t \in Tabs, Disconnected(t), settled' = settled \ {t} PROVE SettledInvariant'
  BY <1>6, SocketSettles
<1>7. CASE UNCHANGED hvars
  BY <1>7 DEF hvars, SettledInvariant, Settling, Converges, Busy
<1>8. ASSUME NEW c \in Calls, SolidtimeError(c), ObserveError(c) PROVE SettledInvariant'
  BY <1>8, ErrorSettles
<1> QED
  BY <1>1, <1>2, <1>3, <1>4, <1>5, <1>6, <1>7, <1>8 DEF HNext

\* All tabs are settled at first, when nothing runs and nobody shows a timer.
LEMMA SettledInit == HInit => SettledInvariant
BY DEF HInit, Init, SettledInvariant, Converges, Busy, Idle

\* One undisturbed request is enough, whatever the tabs showed before it and however many
\* of them there are: every tab it informs shows the running timer once nothing is under
\* way.
THEOREM HealedHolds == HSpec => []HealedByOneRequest
<1>1. HInit => TypeInvariant /\ SettledInvariant
  BY TypeInit, SettledInit
<1>2. TypeInvariant /\ SettledInvariant /\ [HNext]_hvars => TypeInvariant' /\ SettledInvariant'
  BY TypeStep, SettledStep
<1>3. TypeInvariant /\ SettledInvariant => HealedByOneRequest
  <2> SUFFICES ASSUME SettledInvariant, TypeInvariant, Quiet, NEW t \in settled
               PROVE  shown[t] = running
    BY DEF HealedByOneRequest
  <2>1. (\A c \in Calls : ~Busy(c)) /\ inbox[t] = <<>>
    BY DEF Quiet, At, Busy, TypeInvariant, TypeOK
  <2> QED
    BY <2>1 DEF SettledInvariant, Converges
<1> QED
  BY <1>1, <1>2, <1>3, PTL DEF HSpec
====
