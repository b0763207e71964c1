---- MODULE TimerHistory ----
(***************************************************************************)
(* TimerSync with a history variable that says which tabs must show the    *)
(* running timer once nothing is under way, and the properties of the      *)
(* synchronization.                                                        *)
(*                                                                         *)
(* A request made while nothing else was under way, and that nothing       *)
(* disturbed since, settles the tabs it informs: a poll the tab that       *)
(* asked, every other request the tabs that are online.  The exception is  *)
(* a stop of an entry that is not the running one: the answer clears the   *)
(* timer of the tab that asked, whatever the event told it.  A stop whose  *)
(* event is dropped settles the tab that asked and no other.               *)
(***************************************************************************)
EXTENDS TimerSync

VARIABLE settled

hvars == <<running, started, shown, inbox, online, calls, made, settled>>

HInit == Init /\ settled = Tabs

\* The tabs that an undisturbed request of tab t brings in line.
Informed(t, kind) ==
    CASE kind \in {"start", "edit"} -> online
      [] kind = "stop" -> IF shown[t] = running THEN online ELSE online \ {t}
      [] kind = "poll" -> settled \cup {t}

ObserveAsk(c, t) ==
    settled' = IF Quiet THEN Informed(t, calls'[c].kind) ELSE {}

\* A request that is refused or fails tells nobody anything.
ObserveHandle(c) == settled' = IF calls'[c].pc = "failed" THEN {} ELSE settled

\* When the event of a stop is dropped, its answer still tells the tab that asked.
ObserveError(c) ==
    settled' = IF At(c, "read") /\ calls[c].kind = "stop" THEN settled \cap {calls[c].tab} ELSE {}

HNext ==
    \/ \E c \in Calls :
          \/ \E t \in Tabs : Ask(c, t) /\ ObserveAsk(c, t)
          \/ Handle(c) /\ ObserveHandle(c)
          \/ SolidtimeError(c) /\ ObserveError(c)
          \/ (Answer(c) \/ AnswerError(c)) /\ UNCHANGED settled
    \/ \E t \in Tabs : \/ TimerEvent(t) /\ UNCHANGED settled
                       \/ Disconnected(t) /\ settled' = settled \ {t}
    \/ Elsewhere /\ settled' = {}

HSpec == HInit /\ [][HNext]_hvars

----------------------------------------------------------------------------
(* Every variable keeps its type. *)
Requesting ==
    [pc : {"idle", "solidtime", "read", "publish", "answer", "failed"},
     kind : Kinds \cup {None}, tab : Tabs \cup {None}, entry : Timers]

TypeOK ==
    /\ running \in Timers
    /\ started \in 0..MaxCalls
    /\ shown \in [Tabs -> Timers]
    /\ inbox \in [Tabs -> Seq(Timers)]
    /\ online \subseteq Tabs
    /\ calls \in [Calls -> Requesting]
    /\ made \in 0..MaxCalls
    /\ settled \subseteq Tabs

----------------------------------------------------------------------------
(* Synchronization. *)

\* One undisturbed request is enough: once it is answered and its event delivered,
\* every tab it informs shows the entry that is running, however far the tabs and
\* Solidtime had drifted apart before.  A stop that is carried out but whose event is
\* dropped informs the tab that asked by its answer.  It covers the order of change, read,
\* publish and answer in the handlers and the three ways a tab sets its timer.
HealedByOneRequest == Quiet => \A t \in settled : shown[t] = running

\* docs/SPECIFICATION.md, acceptance criteria: the timer event synchronizes the UI
\* across tabs.  With nothing under way and no fault, every tab shows the entry
\* that is running.
TabsInSync == Quiet => \A t \in Tabs : shown[t] = running
====
