---- MODULE EntryCardHistory ----
(***************************************************************************)
(* EntryCard with a history variable that says whether the card must show  *)
(* Solidtime's entry once nothing is under way, and its properties.        *)
(*                                                                         *)
(* It must as long as no two requests overlap, none fails after it was     *)
(* carried out, no reload fails and nobody changes the entry elsewhere;    *)
(* and again after a reload that was alone.                                *)
(***************************************************************************)
EXTENDS EntryCard

VARIABLE sound

hvars == <<entry, listed, loading, card, calls, changes, sound>>

HInit == Init /\ sound = TRUE

Quiet == \A c \in Calls : calls[c].pc = "idle"

\* The requests a step sends.
Sent == {c \in Calls : calls'[c].pc = "ask" /\ calls'[c] # calls[c] /\ calls[c].pc # "ask"}

Alone(c) == \A d \in Calls \ {c} : calls[d].pc = "idle"

\* The focus leaves the pair of time fields by one that holds no time: what the other
\* holds is not saved.
PairLeftOpen ==
    /\ Focused("start") \/ Focused("end")
    /\ card.fields[card.focus] = None
    /\ card'.focus \notin {"start", "end"}

\* The user works on a card while a request is in flight.
Overlap == ~Quiet /\ card'.fields # card.fields

ObserveUser ==
    sound' = (sound /\ ~PairLeftOpen /\ ~Overlap /\ \A c \in Sent : Alone(c))

\* A reload that is alone makes the list and its card anew.
ObserveReload == sound' = \A c \in Sent : Alone(c)

\* So does the one that follows a save of new times.
ObserveReturn(c) ==
    sound' = CASE Sent # {} -> Alone(c)
               [] At(c, "refresh", "failed") -> FALSE
               [] OTHER -> sound

\* A request that fails although it was carried out.
ObserveServe(c) == sound' = (sound /\ ~(calls'[c].pc = "failed" /\ entry' # entry))

HNext ==
    \/ \E c \in Calls : \/ Serve(c) /\ ObserveServe(c)
                        \/ Return(c) /\ ObserveReturn(c)
    \/ User /\ ObserveUser
    \/ Reload /\ ObserveReload
    \/ EditElsewhere /\ sound' = FALSE

HSpec == HInit /\ [][HNext]_hvars

----------------------------------------------------------------------------
(* Every variable keeps its type. *)
AnyDescription == Descriptions \cup {None}

TypeOK ==
    /\ entry \in Entries \cup {None} /\ listed \in Entries \cup {None}
    /\ loading \in BOOLEAN
    /\ card # None =>
          /\ card.saved \in Entries /\ card.saving \in BOOLEAN
          /\ card.focus \in {"none", "description", "start", "end"}
          /\ card.fields.description \in AnyDescription /\ card.fields.project \in Projects
          /\ card.fields.day \in Days
          /\ {card.fields.start, card.fields.end} \subseteq Clocks \cup {None}
    /\ \A c \in Calls :
          /\ calls[c].pc \in {"idle", "ask", "answer", "failed"}
          /\ calls[c].kind \in {"none", "save", "delete", "refresh"}
          /\ calls[c].mine => card # None
          /\ calls[c].result \in Entries \cup {None} /\ calls[c].old \in Entries \cup {None}
    /\ changes \in 0..MaxChanges
    /\ sound \in BOOLEAN

----------------------------------------------------------------------------
\* A time field without the focus holds a time, however the user moves
\* between the two fields, the calendar and Enter and whatever saves fail: a change of the
\* day never meets half a pair.
TimesComplete ==
    card # None => \A f \in {"start", "end"} : card.focus # f => card.fields[f] # None

\* What the user sees is what Solidtime has, once nothing is under way: every edit was
\* saved or taken back, through partial times, moves between the fields, failed saves,
\* entries that end on the next day or hold seconds, and reloads that make the card anew.
\* The conditions are those of the history variable.
CardShowsEntry ==
    Quiet /\ sound =>
        /\ listed = entry /\ ~loading
        /\ entry = None => card = None
        /\ entry # None => /\ card # None /\ card.saved = entry /\ ~card.saving
                           /\ card.focus = "none" => card.fields = Fields(entry)
====
