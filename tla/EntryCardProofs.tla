---- MODULE EntryCardProofs ----
(***************************************************************************)
(* Proofs about EntryCardHistory for any descriptions, projects, days,     *)
(* times and requests.                                                     *)
(***************************************************************************)
EXTENDS EntryCardHistory, TLAPS

----------------------------------------------------------------------------
(* The inductive invariants. *)

\* The entry after a request with patch p.
Patched(e, p) == [f \in DOMAIN e |-> IF f \in DOMAIN p THEN p[f] ELSE e[f]]

Patches ==
    [description : Descriptions]
    \cup [start : Moments, end : Moments, whole : {TRUE}]
    \cup [project : Projects]

Requesting ==
    [pc : {"idle", "ask", "answer", "failed"}, kind : {"none", "save", "delete", "refresh"},
     patch : Patches \cup {None}, old : Entries \cup {None}, mine : BOOLEAN,
     result : Entries \cup {None}]

\* A time field that may hold no time has the focus, and the time it held is kept.
FocusKept(k) ==
    /\ k.focus # "start" => k.fields.start # None
    /\ k.focus # "end" => k.fields.end # None
    /\ k.focus \in {"start", "end"} => k.atFocus \in Clocks
    /\ k.focus = "description" => k.atFocus \in AnyDescription

\* What a request carries.
Carries(q) ==
    /\ q.kind = "save" => q.patch \in Patches /\ q.old \in Entries
    /\ q.kind = "save" /\ q.pc = "answer" => q.result \in Entries
    /\ q.mine => q.kind \in {"save", "delete"}

CardInvariant ==
    /\ entry \in Entries \cup {None} /\ listed \in Entries \cup {None}
    /\ loading \in BOOLEAN
    /\ card \in Cards \cup {None}
    /\ card # None => FocusKept(card)
    /\ calls \in [Calls -> Requesting]
    /\ \A c \in Calls : Carries(calls[c]) /\ (calls[c].mine => card # None)
    /\ changes \in 0..MaxChanges
    /\ sound \in BOOLEAN

Busy(c) == calls[c].pc # "idle"

\* Card k shows entry e, but for what is being typed.
Shows(k, e) ==
    /\ k.saved = e /\ ~k.saving
    /\ IF k.focus = "description" THEN k.atFocus = e.description
       ELSE k.fields.description = e.description
    /\ k.fields.project = e.project /\ k.fields.day = e.start.day
    /\ k.focus \notin {"start", "end"} =>
          k.fields.start = e.start.clock /\ k.fields.end = e.end.clock

\* The card waits for the request q to save or to delete the listed entry.
Waits(q) ==
    /\ q.mine /\ card # None /\ listed # None /\ ~loading
    /\ card.saving /\ card.focus = "none" /\ card.saved = listed

\* What is known at each step of the one request q in flight.
InFlight(q) ==
    /\ q.kind \in {"save", "delete", "refresh"}
    /\ q.kind = "save" =>
          /\ Waits(q) /\ q.old = listed
          /\ card.fields = Fields(Patched(listed, q.patch))
          /\ entry = IF q.pc = "answer" THEN Patched(listed, q.patch) ELSE listed
          /\ q.pc = "answer" => q.result = entry
    /\ q.kind = "delete" =>
          /\ Waits(q) /\ card.fields = Fields(listed)
          /\ entry = IF q.pc = "answer" THEN None ELSE listed
    /\ q.kind = "refresh" =>
          /\ card = None
          /\ q.pc = "answer" => q.result = entry

\* While nothing made the card unsound, one request at most is in flight, and the card
\* shows the entry when none is.
SoundInvariant ==
    sound =>
        /\ \A c, d \in Calls : Busy(c) /\ Busy(d) => c = d
        /\ \A c \in Calls : Busy(c) => InFlight(calls[c])
        /\ Quiet => /\ listed = entry /\ ~loading
                    /\ entry = None => card = None
                    /\ entry # None => card # None /\ Shows(card, entry)

----------------------------------------------------------------------------
(* Entries and cards. *)

\* None is nothing else.
LEMMA NoneIsNothing ==
    /\ None \notin Clocks /\ None \notin Descriptions /\ None \notin Days
    /\ None \notin Entries /\ None \notin Cards
BY CardAssumption DEF CardAssumption, Clocks

\* The fields of a card.
CardFields ==
    [description : AnyDescription, project : Projects, day : Days,
     start : Clocks \cup {None}, end : Clocks \cup {None}]

Focuses == {"none", "description", "start", "end"}

\* What a card consists of.
LEMMA CardParts ==
    ASSUME NEW k \in Cards
    PROVE  /\ k.saved \in Entries /\ k.fields \in CardFields /\ k.saving \in BOOLEAN
           /\ k.focus \in Focuses /\ k.atFocus \in Clocks \cup Descriptions \cup {None}
           /\ k.fields.description \in AnyDescription /\ k.fields.project \in Projects
           /\ k.fields.day \in Days
           /\ k.fields.start \in Clocks \cup {None} /\ k.fields.end \in Clocks \cup {None}
BY DEF Cards, CardFields, AnyDescription, Focuses

\* What an entry consists of.
LEMMA EntryParts ==
    ASSUME NEW e \in Entries
    PROVE  /\ e.description \in AnyDescription /\ e.project \in Projects
           /\ e.start \in Moments /\ e.end \in Moments /\ e.whole \in BOOLEAN
           /\ e.start.day \in Days /\ e.end.day \in Days
           /\ e.start.clock \in Clocks /\ e.end.clock \in Clocks
BY DEF Entries, Moments, AnyDescription

\* The fields made from an entry hold its times.
LEMMA FieldsOfEntry ==
    ASSUME NEW e \in Entries
    PROVE  Fields(e) \in CardFields /\ Fields(e).start # None /\ Fields(e).end # None
BY EntryParts, NoneIsNothing DEF Fields, CardFields

\* A card with other fields, another focus, or a save begun or ended.
LEMMA CardWith ==
    ASSUME NEW k \in Cards, NEW f \in CardFields, NEW to \in Focuses,
           NEW a \in Clocks \cup Descriptions \cup {None}, NEW b \in BOOLEAN, NEW e \in Entries
    PROVE  /\ [k EXCEPT !.fields = f] \in Cards
           /\ [k EXCEPT !.focus = to, !.atFocus = a] \in Cards
           /\ [k EXCEPT !.saving = b, !.focus = "none"] \in Cards
           /\ [k EXCEPT !.saving = b] \in Cards
           /\ [k EXCEPT !.saved = e, !.saving = b] \in Cards
BY DEF Cards, CardFields, AnyDescription, Focuses

\* A new card.
LEMMA NewCard ==
    ASSUME NEW e \in Entries \cup {None}
    PROVE  /\ CardOf(e) \in Cards \cup {None}
           /\ CardOf(e) = None <=> e = None
           /\ CardOf(e) # None => FocusKept(CardOf(e))
<1>1. CASE e = None
  BY <1>1 DEF CardOf
<1>2. CASE e # None
  <2>1. Fields(e) \in CardFields /\ Fields(e).start # None /\ Fields(e).end # None
    BY <1>2, FieldsOfEntry
  <2>2. CardOf(e) = [saved |-> e, fields |-> Fields(e), saving |-> FALSE, focus |-> "none", atFocus |-> None]
    BY <1>2 DEF CardOf
  <2>3. CardOf(e) \in Cards
    BY <1>2, <2>1, <2>2 DEF Cards, CardFields, AnyDescription
  <2>4. FocusKept(CardOf(e))
    BY <2>1, <2>2 DEF FocusKept
  <2> QED
    BY <1>2, <2>3, <2>4, NoneIsNothing
<1> QED
  BY <1>1, <1>2

\* The focus leaves a field that holds a time.
LEMMA GotoKeeps ==
    ASSUME NEW k \in Cards, FocusKept(k), NEW to \in Focuses,
           to # "start" => k.fields.start # None,
           to # "end" => k.fields.end # None
    PROVE  /\ Goto(k, to) \in Cards /\ FocusKept(Goto(k, to))
           /\ Goto(k, to).fields = k.fields /\ Goto(k, to).focus = to
           /\ Goto(k, to).saved = k.saved /\ Goto(k, to).saving = k.saving
<1>1. CASE to = k.focus
  BY <1>1 DEF Goto
<1>2. CASE to # k.focus
  <2> DEFINE a == IF to = "none" THEN None ELSE k.fields[to]
  <2>1. /\ a \in Clocks \cup Descriptions \cup {None}
        /\ to \in {"start", "end"} => a \in Clocks
        /\ to = "description" => a \in AnyDescription
    BY <1>2, CardParts DEF FocusKept, Focuses, AnyDescription
  <2>2. Goto(k, to) = [k EXCEPT !.focus = to, !.atFocus = a]
    BY <1>2 DEF Goto
  <2> HIDE DEF a
  <2>3. Goto(k, to) \in Cards
    BY <2>1, <2>2 DEF Cards, Focuses
  <2>4. /\ Goto(k, to).fields = k.fields /\ Goto(k, to).focus = to
        /\ Goto(k, to).saved = k.saved /\ Goto(k, to).saving = k.saving
        /\ Goto(k, to).atFocus = a
    BY <2>2 DEF Cards
  <2> QED
    BY <2>1, <2>3, <2>4 DEF FocusKept
<1> QED
  BY <1>1, <1>2

\* A card whose fields go back to an entry.
LEMMA RevertedKeeps ==
    ASSUME NEW k \in Cards, FocusKept(k), NEW e \in Entries
    PROVE  /\ Reverted(k, e) \in Cards /\ FocusKept(Reverted(k, e))
           /\ Reverted(k, e).fields = Fields(e) /\ Reverted(k, e).focus = k.focus
           /\ Reverted(k, e).saved = k.saved /\ Reverted(k, e).saving = k.saving
           /\ Reverted(k, e).atFocus = k.atFocus
           /\ Reverted(k, e).fields.start # None /\ Reverted(k, e).fields.end # None
<1>1. Fields(e) \in CardFields /\ Fields(e).start # None /\ Fields(e).end # None
  BY FieldsOfEntry
<1>2. Reverted(k, e) \in Cards
  BY <1>1, CardWith, CardParts DEF Reverted
<1>3. /\ Reverted(k, e).fields = Fields(e) /\ Reverted(k, e).focus = k.focus
      /\ Reverted(k, e).saved = k.saved /\ Reverted(k, e).saving = k.saving
      /\ Reverted(k, e).atFocus = k.atFocus
  BY DEF Reverted, Cards
<1> QED
  BY <1>1, <1>2, <1>3 DEF FocusKept

\* A time field that is normalized holds a time; the other one did already.
LEMMA NormalizedKeeps ==
    ASSUME NEW k \in Cards, FocusKept(k), NEW f \in {"start", "end"}, k.focus = f
    PROVE  /\ Normalized(k, f) \in Cards /\ FocusKept(Normalized(k, f))
           /\ Normalized(k, f).fields.start # None /\ Normalized(k, f).fields.end # None
           /\ Normalized(k, f).focus = k.focus /\ Normalized(k, f).saved = k.saved
           /\ Normalized(k, f).saving = k.saving /\ Normalized(k, f).atFocus = k.atFocus
           /\ Normalized(k, f).fields.description = k.fields.description
           /\ Normalized(k, f).fields.project = k.fields.project
           /\ Normalized(k, f).fields.day = k.fields.day
           /\ k.fields[f] # None => Normalized(k, f) = k
<1>1. k.atFocus \in Clocks /\ k.atFocus # None
  BY NoneIsNothing DEF FocusKept
<1> DEFINE fs == [k.fields EXCEPT ![f] = k.atFocus]
<1>2. CASE k.fields[f] = None
  <2>1. /\ fs \in CardFields /\ fs.start # None /\ fs.end # None
        /\ fs.description = k.fields.description /\ fs.project = k.fields.project
        /\ fs.day = k.fields.day
    BY <1>1, CardParts DEF CardFields, FocusKept
  <2>2. Normalized(k, f) = [k EXCEPT !.fields = fs]
    BY <1>2 DEF Normalized
  <2> HIDE DEF fs
  <2>3. Normalized(k, f) \in Cards
    BY <2>1, <2>2, CardWith, CardParts
  <2>4. /\ Normalized(k, f).fields = fs /\ Normalized(k, f).focus = k.focus
        /\ Normalized(k, f).saved = k.saved /\ Normalized(k, f).saving = k.saving
        /\ Normalized(k, f).atFocus = k.atFocus
    BY <2>2 DEF Cards
  <2> QED
    BY <1>1, <1>2, <2>1, <2>3, <2>4 DEF FocusKept
<1>3. CASE k.fields[f] # None
  BY <1>1, <1>3 DEF Normalized, FocusKept
<1> QED
  BY <1>2, <1>3

\* A card with one field set.
LEMMA CardWithField ==
    ASSUME NEW k \in Cards, NEW f \in DOMAIN k.fields, NEW v,
           f = "description" => v \in AnyDescription,
           f = "project" => v \in Projects,
           f = "day" => v \in Days,
           f \in {"start", "end"} => v \in Clocks \cup {None}
    PROVE  /\ [k EXCEPT !.fields[f] = v] \in Cards
           /\ [k EXCEPT !.fields[f] = v].fields = [k.fields EXCEPT ![f] = v]
           /\ [k EXCEPT !.fields[f] = v].focus = k.focus
           /\ [k EXCEPT !.fields[f] = v].saved = k.saved
           /\ [k EXCEPT !.fields[f] = v].saving = k.saving
           /\ [k EXCEPT !.fields[f] = v].atFocus = k.atFocus
<1> DEFINE fs == [k.fields EXCEPT ![f] = v]
<1>1. fs \in CardFields
  BY CardParts DEF CardFields, AnyDescription
<1>2. [k EXCEPT !.fields[f] = v] = [k EXCEPT !.fields = fs]
  BY DEF Cards
<1> HIDE DEF fs
<1>3. [k EXCEPT !.fields = fs] \in Cards
  BY <1>1, CardWith, CardParts
<1>4. LET n == [k EXCEPT !.fields = fs]
      IN  n.fields = fs /\ n.focus = k.focus /\ n.saved = k.saved /\ n.saving = k.saving /\ n.atFocus = k.atFocus
  BY DEF Cards
<1> QED
  BY <1>2, <1>3, <1>4 DEF fs

----------------------------------------------------------------------------
(* The types of the card and its requests. *)

\* Every card starts well.
LEMMA CardInit == HInit => CardInvariant
<1> SUFFICES ASSUME HInit PROVE CardInvariant
  OBVIOUS
<1>1. entry \in Entries /\ listed = entry /\ card = CardOf(entry) /\ calls = [c \in Calls |-> Idle]
  BY DEF HInit, Init
<1>2. Idle \in Requesting /\ Carries(Idle) /\ ~Idle.mine
  BY DEF Idle, Requesting, Carries
<1>3. changes = 0 /\ loading = FALSE /\ sound = TRUE /\ MaxChanges \in Nat
  BY CardAssumption DEF CardAssumption, HInit, Init
<1>4. /\ calls \in [Calls -> Requesting]
      /\ \A c \in Calls : Carries(calls[c]) /\ (calls[c].mine => card # None)
  BY <1>1, <1>2
<1>5. card \in Cards \cup {None} /\ (card # None => FocusKept(card))
  BY <1>1, NewCard
<1>6. changes \in 0..MaxChanges /\ entry \in Entries /\ listed \in Entries
  BY <1>1, <1>3
<1> QED
  BY <1>3, <1>4, <1>5, <1>6 DEF CardInvariant

\* A step that only changes the fields or the focus of the card.
LEMMA KeepStep ==
    ASSUME CardInvariant, card # None, NEW k \in Cards, FocusKept(k), Keep(k), Untouched,
           sound' \in BOOLEAN
    PROVE  CardInvariant'
BY NoneIsNothing DEF CardInvariant, Keep, Untouched

\* Another request or change, of which there are only so many.
LEMMA ChangeStep ==
    ASSUME CardInvariant, Change
    PROVE  changes' \in 0..MaxChanges
BY CardAssumption DEF CardAssumption, CardInvariant, Change

\* A save of the card.
LEMMA SaveStep ==
    ASSUME CardInvariant, card # None, NEW k \in Cards, k.fields.start # None, k.fields.end # None,
           NEW p \in Patches, Save(k, p), Untouched, sound' \in BOOLEAN
    PROVE  CardInvariant'
<1>1. PICK c \in Calls : calls' = [calls EXCEPT ![c] =
                            [Idle EXCEPT !.pc = "ask", !.kind = "save", !.patch = p, !.old = k.saved, !.mine = TRUE]]
  BY DEF Save
<1> DEFINE q == [Idle EXCEPT !.pc = "ask", !.kind = "save", !.patch = p, !.old = k.saved, !.mine = TRUE]
<1>2. q \in Requesting /\ Carries(q)
  BY CardParts DEF Idle, Requesting, Carries
<1> HIDE DEF q
<1>3. /\ calls' \in [Calls -> Requesting]
      /\ \A d \in Calls : Carries(calls'[d])
  BY <1>1, <1>2 DEF CardInvariant, q
<1>4. card' = [k EXCEPT !.saving = TRUE, !.focus = "none"] /\ changes' \in 0..MaxChanges
  BY ChangeStep DEF Save
<1>5. card' \in Cards /\ card' # None
  BY <1>4, CardParts, NoneIsNothing DEF Cards
<1>6. FocusKept(card')
  BY <1>4 DEF FocusKept, Cards
<1> QED
  BY <1>3, <1>4, <1>5, <1>6 DEF CardInvariant, Untouched

\* A description that is committed.
LEMMA CommitDescriptionStep ==
    ASSUME CardInvariant, Focused("description"), NEW to \in Focuses, CommitDescription(to),
           Untouched, sound' \in BOOLEAN
    PROVE  CardInvariant'
<1>1. /\ card # None /\ card \in Cards /\ FocusKept(card) /\ card.focus = "description"
      /\ card.atFocus \in AnyDescription
      /\ card.fields.start # None /\ card.fields.end # None
  BY DEF CardInvariant, Focused, FocusKept
<1> DEFINE k == [card EXCEPT !.fields.description = card.atFocus]
<1>2. CASE card.fields.description = None /\ Keep(Goto(k, to))
  <2>1. k \in Cards /\ k.fields = [card.fields EXCEPT !.description = card.atFocus]
        /\ k.focus = card.focus /\ k.atFocus = card.atFocus
    BY <1>1, CardWithField, CardParts DEF CardFields
  <2>2. k.fields.start # None /\ k.fields.end # None
    BY <1>1, <2>1, CardParts DEF CardFields
  <2> HIDE DEF k
  <2>3. FocusKept(k)
    BY <1>1, <2>1, <2>2 DEF FocusKept
  <2> QED
    BY <1>1, <1>2, <2>1, <2>2, <2>3, GotoKeeps, KeepStep
<1>3. CASE Keep(Goto(card, to))
  BY <1>1, <1>3, GotoKeeps, KeepStep
<1>4. CASE /\ card.fields.description # None
           /\ Save(card, [description |-> card.fields.description])
  <2>1. [description |-> card.fields.description] \in Patches
    BY <1>1, <1>4, CardParts DEF Patches, AnyDescription
  <2> QED
    BY <1>1, <1>4, <2>1, SaveStep
<1> QED
  BY <1>2, <1>3, <1>4 DEF CommitDescription

\* Times that are committed.
LEMMA CommitTimeStep ==
    ASSUME CardInvariant, card # None, NEW k \in Cards, FocusKept(k), NEW to \in Focuses,
           k.fields.start # None, k.fields.end # None, CommitTime(k, to),
           Untouched, sound' \in BOOLEAN
    PROVE  CardInvariant'
<1>1. k.saved \in Entries /\ k.fields.day \in Days /\ k.fields.start \in Clocks /\ k.fields.end \in Clocks
  BY CardParts
<1>2. CASE Keep(Goto(Reverted(k, k.saved), to))
  <2> DEFINE r == Reverted(k, k.saved)
  <2>1. r \in Cards /\ FocusKept(r) /\ r.fields.start # None /\ r.fields.end # None
    BY <1>1, RevertedKeeps
  <2> HIDE DEF r
  <2>2. Goto(r, to) \in Cards /\ FocusKept(Goto(r, to))
    BY <2>1, GotoKeeps
  <2> QED
    BY <1>2, <2>2, KeepStep DEF r
<1>3. CASE Keep(Goto(k, to))
  BY <1>3, GotoKeeps, KeepStep
<1>4. ASSUME Save(k, [start |-> Moment(k.fields.day, k.fields.start),
                      end |-> Moment(k.fields.day, k.fields.end), whole |-> TRUE])
      PROVE  CardInvariant'
  <2>1. [start |-> Moment(k.fields.day, k.fields.start),
         end |-> Moment(k.fields.day, k.fields.end), whole |-> TRUE] \in Patches
    BY <1>1 DEF Patches, Moment, Moments
  <2> QED
    BY <1>4, <2>1, SaveStep
<1> QED
  BY <1>2, <1>3, <1>4 DEF CommitTime

\* The user.
LEMMA UserKeepsCard ==
    ASSUME CardInvariant, User, sound' \in BOOLEAN
    PROVE  CardInvariant'
<1>1. card # None => card \in Cards /\ FocusKept(card)
  BY DEF CardInvariant
<1>2. CASE MoveFocus
  <2>1. PICK to \in Focuses :
           \/ Focused("none") /\ Keep(Goto(card, to))
           \/ Focused("description") /\ CommitDescription(to)
           \/ \E f \in {"start", "end"} : Focused(f) /\ to # f /\ LeaveTime(f, to)
    BY <1>2 DEF MoveFocus, Focuses
  <2>2. Untouched
    BY <1>2 DEF MoveFocus
  <2>3. CASE Focused("none") /\ Keep(Goto(card, to))
    <3>1. card \in Cards /\ FocusKept(card) /\ card.fields.start # None /\ card.fields.end # None
      BY <1>1, <2>3 DEF Focused, FocusKept
    <3>2. Goto(card, to) \in Cards /\ FocusKept(Goto(card, to))
      BY <3>1, GotoKeeps
    <3> QED
      BY <2>2, <2>3, <3>2, KeepStep DEF Focused
  <2>4. CASE Focused("description") /\ CommitDescription(to)
    BY <2>2, <2>4, CommitDescriptionStep
  <2>5. ASSUME NEW f \in {"start", "end"}, Focused(f), to # f, LeaveTime(f, to)
        PROVE  CardInvariant'
    <3> DEFINE n == Normalized(card, f)
    <3>1. /\ n \in Cards /\ FocusKept(n)
          /\ n.fields.start # None /\ n.fields.end # None
      BY <1>1, <2>5, NormalizedKeeps DEF Focused
    <3>2. CASE Keep(Goto(n, to))
      <4>1. Goto(n, to) \in Cards /\ FocusKept(Goto(n, to))
        BY <3>1, GotoKeeps
      <4> QED
        BY <2>2, <2>5, <3>2, <4>1, KeepStep DEF Focused
    <3>3. CASE CommitTime(n, to)
      BY <2>2, <2>5, <3>1, <3>3, CommitTimeStep DEF Focused
    <3> QED
      BY <2>5, <3>2, <3>3 DEF LeaveTime
  <2> QED
    BY <2>1, <2>3, <2>4, <2>5
<1>3. CASE Type
  <2>1. Untouched
    BY <1>3 DEF Type
  <2>2. ASSUME Focused("description"), NEW text \in AnyDescription,
               Keep([card EXCEPT !.fields.description = text])
        PROVE  CardInvariant'
    <3> DEFINE k == [card EXCEPT !.fields.description = text]
    <3>1. k \in Cards /\ k.fields = [card.fields EXCEPT !.description = text]
          /\ k.focus = card.focus /\ k.atFocus = card.atFocus
      BY <1>1, <2>2, CardWithField, CardParts DEF CardFields, Focused
    <3>2. k.fields.start = card.fields.start /\ k.fields.end = card.fields.end
      BY <1>1, <2>2, <3>1, CardParts DEF CardFields, Focused
    <3> HIDE DEF k
    <3>3. FocusKept(k)
      BY <1>1, <2>2, <3>1, <3>2 DEF FocusKept, Focused
    <3> QED
      BY <2>1, <2>2, <3>1, <3>3, KeepStep DEF k, Focused
  <2>3. ASSUME NEW f \in {"start", "end"}, NEW c \in Clocks \cup {None}, Focused(f),
               Keep([card EXCEPT !.fields[f] = c])
        PROVE  CardInvariant'
    <3> DEFINE k == [card EXCEPT !.fields[f] = c]
    <3>1. k \in Cards /\ k.fields = [card.fields EXCEPT ![f] = c]
          /\ k.focus = card.focus /\ k.atFocus = card.atFocus
      BY <1>1, <2>3, CardWithField, CardParts DEF CardFields, Focused
    <3>2. \A g \in {"start", "end"} \ {f} : k.fields[g] = card.fields[g]
      BY <1>1, <2>3, <3>1, CardParts DEF CardFields, Focused
    <3> HIDE DEF k
    <3>3. FocusKept(k)
      BY <1>1, <2>3, <3>1, <3>2 DEF FocusKept, Focused
    <3> QED
      BY <2>1, <2>3, <3>1, <3>3, KeepStep DEF k, Focused
  <2> QED
    BY <1>3, <2>2, <2>3 DEF Type, AnyDescription
<1>4. CASE Enter
  <2>1. Untouched
    BY <1>4 DEF Enter
  <2>2. CASE Focused("description") /\ CommitDescription("description")
    BY <2>1, <2>2, CommitDescriptionStep DEF Focuses
  <2>3. ASSUME NEW f \in {"start", "end"}, Focused(f), EnterTime(f)
        PROVE  CardInvariant'
    <3> DEFINE n == Normalized(card, f)
    <3>1. /\ n \in Cards /\ FocusKept(n)
          /\ n.fields.start # None /\ n.fields.end # None
      BY <1>1, <2>3, NormalizedKeeps DEF Focused
    <3>2. CASE Keep(n)
      BY <2>1, <2>3, <3>1, <3>2, KeepStep DEF Focused
    <3>3. CASE CommitTime(n, f)
      BY <2>1, <2>3, <3>1, <3>3, CommitTimeStep DEF Focused, Focuses
    <3> QED
      BY <2>3, <3>2, <3>3 DEF EnterTime
  <2> QED
    BY <1>4, <2>2, <2>3 DEF Enter
<1>5. CASE PickDay
  <2>1. PICK d \in Days : CommitTime([card EXCEPT !.fields.day = d], "none")
    BY <1>5 DEF PickDay
  <2> DEFINE k == [card EXCEPT !.fields.day = d]
  <2>2. card \in Cards /\ card # None /\ Untouched /\ card.focus = "none"
        /\ card.fields.start # None /\ card.fields.end # None
    BY <1>1, <1>5 DEF PickDay, Focused, FocusKept
  <2>3. k \in Cards /\ k.fields = [card.fields EXCEPT !.day = d]
        /\ k.focus = card.focus
    BY <2>2, CardWithField, CardParts DEF CardFields
  <2>4. k.fields.start # None /\ k.fields.end # None
    BY <2>2, <2>3, CardParts DEF CardFields
  <2> HIDE DEF k
  <2>5. FocusKept(k)
    BY <2>2, <2>3, <2>4 DEF FocusKept
  <2> QED
    BY <2>1, <2>2, <2>3, <2>4, <2>5, CommitTimeStep DEF k, Focuses
<1>6. CASE SelectProject
  <2>1. PICK p \in Projects : Save([card EXCEPT !.fields.project = p], [project |-> p])
    BY <1>6 DEF SelectProject
  <2> DEFINE k == [card EXCEPT !.fields.project = p]
  <2>2. card \in Cards /\ card # None /\ Untouched /\ card.focus = "none"
        /\ card.fields.start # None /\ card.fields.end # None
    BY <1>1, <1>6 DEF SelectProject, Focused, FocusKept
  <2>3. k \in Cards /\ k.fields = [card.fields EXCEPT !.project = p]
        /\ k.focus = card.focus
    BY <2>2, CardWithField, CardParts DEF CardFields
  <2>4. k.fields.start # None /\ k.fields.end # None
    BY <2>2, <2>3, CardParts DEF CardFields
  <2>5. [project |-> p] \in Patches
    BY DEF Patches
  <2> HIDE DEF k
  <2> QED
    BY <2>1, <2>2, <2>3, <2>4, <2>5, SaveStep DEF k
<1>7. CASE ConfirmDelete
  <2>1. PICK c \in Calls :
           calls' = [calls EXCEPT ![c] = [Idle EXCEPT !.pc = "ask", !.kind = "delete", !.mine = TRUE]]
    BY <1>7 DEF ConfirmDelete
  <2>2. /\ card \in Cards /\ card # None /\ FocusKept(card) /\ card' = [card EXCEPT !.saving = TRUE]
        /\ UNCHANGED <<entry, listed, loading>>
    BY <1>1, <1>7 DEF ConfirmDelete, Focused, Untouched
  <2> DEFINE q == [Idle EXCEPT !.pc = "ask", !.kind = "delete", !.mine = TRUE]
  <2>3. q \in Requesting /\ Carries(q)
    BY DEF Idle, Requesting, Carries
  <2> HIDE DEF q
  <2>4. calls' \in [Calls -> Requesting] /\ \A d \in Calls : Carries(calls'[d])
    BY <2>1, <2>3 DEF CardInvariant, q
  <2>5. card' \in Cards /\ card' # None /\ FocusKept(card')
    BY <2>2, NoneIsNothing DEF Cards, FocusKept
  <2>6. changes' \in 0..MaxChanges
    BY <1>7, ChangeStep DEF ConfirmDelete
  <2> QED
    BY <2>2, <2>4, <2>5, <2>6 DEF CardInvariant
<1> QED
  BY <1>2, <1>3, <1>4, <1>5, <1>6, <1>7 DEF User

\* What the server does changes the entry and how far the request has come.
LEMMA ServerKeepsCard ==
    ASSUME CardInvariant, NEW c \in Calls, Serve(c), sound' \in BOOLEAN
    PROVE  /\ CardInvariant'
           /\ UNCHANGED <<listed, loading, card>>
           /\ calls[c].pc = "ask" /\ calls'[c].pc \in {"answer", "failed"}
           /\ calls'[c].kind = calls[c].kind /\ calls'[c].mine = calls[c].mine
           /\ calls'[c].patch = calls[c].patch /\ calls'[c].old = calls[c].old
           /\ \A d \in Calls \ {c} : calls'[d] = calls[d]
           /\ At(c, "save", "ask") /\ (calls'[c].pc = "answer" \/ entry' # entry) =>
                 entry # None /\ entry' = Patched(entry, calls[c].patch) /\ calls'[c].result = entry'
<1>1. /\ calls \in [Calls -> Requesting] /\ calls[c] \in Requesting /\ Carries(calls[c])
      /\ entry \in Entries \cup {None}
  BY DEF CardInvariant
<1>2. UNCHANGED <<listed, loading, card, changes>> /\ calls[c].pc = "ask"
  BY DEF Serve, UpdateTimeEntry, DeleteTimeEntry, GetTimeEntries, Refuse, At
<1>3. CASE UpdateTimeEntry(c)
  <2>1. PICK pc \in {"answer", "failed"} : calls' = [calls EXCEPT ![c].pc = pc, ![c].result = entry']
    BY <1>3 DEF UpdateTimeEntry, Outcomes
  <2>2. entry' = Patched(entry, calls[c].patch) /\ calls[c].patch \in Patches /\ entry \in Entries
    BY <1>1, <1>3 DEF UpdateTimeEntry, Patched, Carries, At
  <2>3. entry' \in Entries
    BY <2>2 DEF Patched, Patches, Entries
  <2>4. /\ calls' \in [Calls -> Requesting] /\ \A d \in Calls \ {c} : calls'[d] = calls[d]
        /\ calls'[c].pc = pc /\ calls'[c].result = entry'
        /\ calls'[c].kind = calls[c].kind /\ calls'[c].mine = calls[c].mine
        /\ calls'[c].patch = calls[c].patch /\ calls'[c].old = calls[c].old
    BY <1>1, <2>1, <2>3 DEF Requesting
  <2>5. Carries(calls'[c])
    BY <1>1, <2>3, <2>4 DEF Carries
  <2>6. CardInvariant'
    BY <1>2, <2>3, <2>4, <2>5 DEF CardInvariant
  <2> QED
    BY <1>2, <1>3, <2>2, <2>4, <2>6, NoneIsNothing DEF UpdateTimeEntry
<1>4. CASE DeleteTimeEntry(c) \/ Refuse(c)
  <2>1. PICK pc \in {"answer", "failed"} : calls' = [calls EXCEPT ![c].pc = pc]
    BY <1>4 DEF DeleteTimeEntry, Refuse, Outcomes
  <2>2. entry' \in Entries \cup {None}
    BY <1>1, <1>4 DEF DeleteTimeEntry, Refuse
  <2>3. /\ calls' \in [Calls -> Requesting] /\ \A d \in Calls \ {c} : calls'[d] = calls[d]
        /\ calls'[c].pc = pc /\ calls'[c].result = calls[c].result
        /\ calls'[c].kind = calls[c].kind /\ calls'[c].mine = calls[c].mine
        /\ calls'[c].patch = calls[c].patch /\ calls'[c].old = calls[c].old
    BY <1>1, <2>1 DEF Requesting
  <2>4. calls[c].kind = "save" => entry' = entry /\ calls'[c].pc = "failed"
    <3>1. DeleteTimeEntry(c) => calls[c].kind = "delete"
      BY DEF DeleteTimeEntry, At
    <3>2. Refuse(c) => entry' = entry /\ calls'[c].pc = "failed"
      BY <1>1 DEF Refuse, Requesting
    <3> QED
      BY <1>4, <3>1, <3>2
  <2>5. Carries(calls'[c])
    BY <1>1, <1>2, <2>3, <2>4 DEF Carries
  <2>6. CardInvariant'
    BY <1>2, <2>2, <2>3, <2>5 DEF CardInvariant
  <2> QED
    BY <1>2, <2>3, <2>4, <2>6 DEF At
<1>5. CASE GetTimeEntries(c)
  <2>1. calls' = [calls EXCEPT ![c].pc = "answer", ![c].result = entry] /\ calls[c].kind = "refresh"
        /\ entry' = entry
    BY <1>5 DEF GetTimeEntries, At
  <2>2. /\ calls' \in [Calls -> Requesting] /\ \A d \in Calls \ {c} : calls'[d] = calls[d]
        /\ calls'[c].pc = "answer"
        /\ calls'[c].kind = calls[c].kind /\ calls'[c].mine = calls[c].mine
        /\ calls'[c].patch = calls[c].patch /\ calls'[c].old = calls[c].old
    BY <1>1, <2>1 DEF Requesting
  <2>3. Carries(calls'[c])
    BY <1>1, <2>1, <2>2 DEF Carries
  <2>4. CardInvariant'
    BY <1>2, <2>1, <2>2, <2>3 DEF CardInvariant
  <2> QED
    BY <1>2, <2>1, <2>2, <2>4 DEF At
<1> QED
  BY <1>3, <1>4, <1>5 DEF Serve

\* The requests after the card is gone.
LEMMA GoneRequests ==
    ASSUME NEW cs \in [Calls -> Requesting], \A d \in Calls : Carries(cs[d])
    PROVE  /\ CardGone(cs) \in [Calls -> Requesting]
           /\ \A d \in Calls : /\ Carries(CardGone(cs)[d]) /\ ~CardGone(cs)[d].mine
                              /\ CardGone(cs)[d].pc = cs[d].pc
                              /\ CardGone(cs)[d] = [cs[d] EXCEPT !.mine = FALSE]
<1>1. \A d \in Calls : CardGone(cs)[d] = [cs[d] EXCEPT !.mine = FALSE]
  BY DEF CardGone
<1>2. ASSUME NEW d \in Calls
      PROVE  LET n == [cs[d] EXCEPT !.mine = FALSE]
             IN  n \in Requesting /\ Carries(n) /\ ~n.mine /\ n.pc = cs[d].pc
  <2>1. cs[d] \in Requesting /\ Carries(cs[d])
    OBVIOUS
  <2> QED
    BY <2>1 DEF Requesting, Carries
<1>3. CardGone(cs) \in [Calls -> Requesting]
  BY <1>1, <1>2 DEF CardGone
<1> QED
  BY <1>1, <1>2, <1>3

\* A request that is done leaves the others.
LEMMA DoneRequests ==
    ASSUME CardInvariant, NEW c \in Calls
    PROVE  /\ Done(c) \in [Calls -> Requesting] /\ Done(c)[c] = Idle
           /\ \A d \in Calls \ {c} : Done(c)[d] = calls[d]
           /\ \A d \in Calls : Carries(Done(c)[d]) /\ (Done(c)[d].mine => calls[d].mine)
<1>1. Idle \in Requesting /\ Carries(Idle) /\ ~Idle.mine
  BY DEF Idle, Requesting, Carries
<1> QED
  BY <1>1 DEF CardInvariant, Done

\* A reload of the list.
LEMMA RefreshRequests ==
    ASSUME CardInvariant, NEW c \in Calls, Refresh(c)
    PROVE  /\ calls' \in [Calls -> Requesting]
           /\ \A d \in Calls : Carries(calls'[d]) /\ ~calls'[d].mine
           /\ \A d \in Calls \ {c} : calls'[d] = [calls[d] EXCEPT !.mine = FALSE]
           /\ calls'[c].pc = "ask" /\ calls'[c].kind = "refresh"
           /\ loading' = TRUE /\ card' = None
<1> DEFINE q == [Idle EXCEPT !.pc = "ask", !.kind = "refresh"]
           cs == [calls EXCEPT ![c] = q]
<1>1. q \in Requesting /\ q.pc = "ask" /\ q.kind = "refresh" /\ ~q.mine
  BY DEF Idle, Requesting
<1>2. Carries(q) /\ [q EXCEPT !.mine = FALSE].pc = "ask" /\ [q EXCEPT !.mine = FALSE].kind = "refresh"
  BY <1>1 DEF Requesting, Carries
<1> HIDE DEF q
<1>3. cs \in [Calls -> Requesting] /\ (\A d \in Calls : Carries(cs[d])) /\ cs[c] = q
      /\ \A d \in Calls \ {c} : cs[d] = calls[d]
  BY <1>1, <1>2 DEF CardInvariant
<1>4. calls' = CardGone(cs) /\ loading' = TRUE /\ card' = None
  BY DEF Refresh, q
<1> HIDE DEF cs
<1>5. /\ CardGone(cs) \in [Calls -> Requesting]
      /\ \A d \in Calls : /\ Carries(CardGone(cs)[d]) /\ ~CardGone(cs)[d].mine
                         /\ CardGone(cs)[d] = [cs[d] EXCEPT !.mine = FALSE]
  BY <1>3, GoneRequests
<1> QED
  BY <1>2, <1>3, <1>4, <1>5 DEF q

\* What is known of a card before an answer that is for it.
LEMMA AnswerForCard ==
    ASSUME CardInvariant, NEW c \in Calls, calls[c].mine
    PROVE  card \in Cards /\ card # None /\ FocusKept(card)
BY DEF CardInvariant

\* The answers.
LEMMA ReturnKeepsCard ==
    ASSUME CardInvariant, NEW c \in Calls, Return(c), sound' \in BOOLEAN
    PROVE  CardInvariant'
<1>1. /\ calls \in [Calls -> Requesting] /\ calls[c] \in Requesting /\ Carries(calls[c])
      /\ entry \in Entries \cup {None} /\ listed \in Entries \cup {None}
      /\ card \in Cards \cup {None} /\ (card # None => FocusKept(card))
      /\ changes \in 0..MaxChanges
      /\ loading \in BOOLEAN
  BY DEF CardInvariant
<1>2. UNCHANGED <<entry, changes>>
  BY DEF Return, SaveReturns, SaveFails, DeleteReturns, DeleteFails, RefreshReturns, RefreshFails
<1>3. ASSUME listed' \in Entries \cup {None}, loading' \in BOOLEAN, calls' = Done(c),
             card' = IF calls[c].mine THEN card' ELSE card,
             calls[c].mine => card' \in Cards /\ FocusKept(card')
      PROVE  CardInvariant'
  <2>1. card' \in Cards \cup {None} /\ (card' # None => FocusKept(card'))
    BY <1>1, <1>3
  <2>2. \A d \in Calls : Carries(calls'[d]) /\ (calls'[d].mine => card' # None)
    BY <1>3, DoneRequests, NoneIsNothing DEF CardInvariant
  <2> QED
    BY <1>1, <1>2, <1>3, <2>1, <2>2, DoneRequests DEF CardInvariant
<1>4. ASSUME listed' \in Entries \cup {None}, loading' \in BOOLEAN, calls' = CardGone(Done(c)),
             card' \in Cards \cup {None}, card' # None => FocusKept(card')
      PROVE  CardInvariant'
  <2>1. calls' \in [Calls -> Requesting] /\ \A d \in Calls : Carries(calls'[d]) /\ ~calls'[d].mine
    BY <1>4, DoneRequests, GoneRequests
  <2> QED
    BY <1>1, <1>2, <1>4, <2>1 DEF CardInvariant
<1>5. CASE SaveReturns(c)
  <2>1. calls[c].result \in Entries
    BY <1>1, <1>5 DEF SaveReturns, At, Carries
  <2>2. CASE TimeChanged(calls[c].result)
    <3>1. Refresh(c) /\ UNCHANGED listed
      BY <1>5, <2>2 DEF SaveReturns
    <3> QED
      BY <1>1, <1>2, <3>1, RefreshRequests DEF CardInvariant
  <2>3. CASE ~TimeChanged(calls[c].result)
    <3> DEFINE n == [card EXCEPT !.saved = calls[c].result, !.saving = FALSE]
    <3>1. /\ card' = IF calls[c].mine THEN n ELSE card
          /\ listed' \in Entries \cup {None} /\ calls' = Done(c) /\ loading' = loading
      BY <1>1, <1>5, <2>1, <2>3 DEF SaveReturns
    <3>2. calls[c].mine => n \in Cards /\ FocusKept(n)
      BY <2>1, AnswerForCard DEF Cards, FocusKept
    <3> QED
      BY <1>1, <1>3, <3>1, <3>2
  <2> QED
    BY <2>2, <2>3
<1>6. CASE SaveFails(c)
  <2> DEFINE r == Reverted(card, calls[c].old)
  <2>1. calls[c].old \in Entries
    BY <1>1, <1>6 DEF SaveFails, At, Carries
  <2>2. calls[c].mine => r \in Cards /\ FocusKept(r)
    BY <2>1, AnswerForCard, RevertedKeeps
  <2>3. /\ card' = IF calls[c].mine THEN [r EXCEPT !.saving = FALSE] ELSE card
        /\ calls' = Done(c) /\ UNCHANGED <<listed, loading>>
    BY <1>6 DEF SaveFails
  <2> HIDE DEF r
  <2>4. calls[c].mine => card' \in Cards /\ FocusKept(card')
    BY <2>2, <2>3 DEF Cards, FocusKept
  <2> QED
    BY <1>1, <1>3, <2>3, <2>4
<1>7. CASE DeleteReturns(c)
  BY <1>1, <1>4, <1>7 DEF DeleteReturns
<1>8. CASE DeleteFails(c)
  <2>1. /\ card' = IF calls[c].mine THEN [card EXCEPT !.saving = FALSE] ELSE card
        /\ calls' = Done(c) /\ UNCHANGED <<listed, loading>>
    BY <1>8 DEF DeleteFails
  <2>2. calls[c].mine => card' \in Cards /\ FocusKept(card')
    BY <2>1, AnswerForCard DEF Cards, FocusKept
  <2> QED
    BY <1>1, <1>3, <2>1, <2>2
<1>9. CASE RefreshReturns(c)
  <2> DEFINE e == calls[c].result
             stays == card # None /\ e # None /\ e.start.day = listed.start.day
  <2>1. /\ listed' = e /\ card' = (IF stays THEN card ELSE CardOf(e)) /\ loading' = FALSE
        /\ calls' = (IF stays THEN Done(c) ELSE CardGone(Done(c)))
        /\ calls[c].kind = "refresh"
    BY <1>9 DEF RefreshReturns, At
  <2>2. e \in Entries \cup {None} /\ ~calls[c].mine
    BY <1>1, <2>1 DEF Requesting, Carries
  <2>3. CASE stays
    BY <1>3, <2>1, <2>2, <2>3
  <2>4. CASE ~stays
    BY <1>4, <2>1, <2>2, <2>4, NewCard
  <2> QED
    BY <2>3, <2>4
<1>10. CASE RefreshFails(c)
  <2>1. /\ loading' = FALSE /\ card' = (IF card = None THEN CardOf(listed) ELSE card)
        /\ calls' = Done(c) /\ listed' = listed /\ calls[c].kind = "refresh"
    BY <1>10 DEF RefreshFails, At
  <2>2. card' \in Cards \cup {None} /\ (card' # None => FocusKept(card'))
        /\ (card # None => card' # None)
    BY <1>1, <2>1, NewCard
  <2>3. \A d \in Calls : Carries(calls'[d]) /\ (calls'[d].mine => card' # None)
    BY <2>1, <2>2, DoneRequests DEF CardInvariant
  <2> QED
    BY <1>1, <1>2, <2>1, <2>2, <2>3, DoneRequests DEF CardInvariant
<1> QED
  BY <1>5, <1>6, <1>7, <1>8, <1>9, <1>10 DEF Return

\* A reload that something else asks for, and a change elsewhere.
LEMMA ElsewhereKeepsCard ==
    ASSUME CardInvariant, Reload \/ EditElsewhere, sound' \in BOOLEAN
    PROVE  CardInvariant'
<1>1. changes' \in 0..MaxChanges
  BY ChangeStep DEF Reload, EditElsewhere
<1>2. CASE Reload
  <2>1. PICK c \in Calls : Refresh(c)
    BY <1>2 DEF Reload
  <2> QED
    BY <1>1, <1>2, <2>1, RefreshRequests DEF CardInvariant, Reload
<1>3. CASE EditElsewhere
  <2>1. entry' \in Entries \cup {None}
    BY <1>3 DEF EditElsewhere, CardInvariant, Entries
  <2> QED
    BY <1>1, <1>3, <2>1 DEF CardInvariant, EditElsewhere
<1> QED
  BY <1>2, <1>3

\* The history variable is a condition.
LEMMA SoundTyped ==
    ASSUME CardInvariant, HNext
    PROVE  sound' \in BOOLEAN
<1>1. sound \in BOOLEAN
  BY DEF CardInvariant
<1>2. ASSUME NEW c \in Calls, ObserveServe(c) PROVE sound' \in BOOLEAN
  BY <1>1, <1>2 DEF ObserveServe
<1>3. ASSUME NEW c \in Calls, ObserveReturn(c) PROVE sound' \in BOOLEAN
  BY <1>1, <1>3 DEF ObserveReturn, Alone
<1>4. CASE ObserveUser
  BY <1>1, <1>4 DEF ObserveUser
<1>5. CASE ObserveReload
  BY <1>5 DEF ObserveReload
<1> QED
  BY <1>2, <1>3, <1>4, <1>5 DEF HNext

\* Every step keeps the types.
LEMMA CardStep == CardInvariant /\ [HNext]_hvars => CardInvariant'
<1> SUFFICES ASSUME CardInvariant, [HNext]_hvars PROVE CardInvariant'
  OBVIOUS
<1>1. CASE HNext
  BY <1>1, SoundTyped, ServerKeepsCard, ReturnKeepsCard, UserKeepsCard, ElsewhereKeepsCard DEF HNext
<1>2. CASE UNCHANGED hvars
  BY <1>2 DEF hvars, CardInvariant
<1> QED
  BY <1>1, <1>2

\* The inductive invariant holds of every state.
LEMMA CardInvariantHolds == HSpec => []CardInvariant
BY CardInit, CardStep, PTL DEF HSpec

\* Every variable keeps its type, whatever overlaps and fails.
THEOREM TypesHold == HSpec => []TypeOK
<1>1. CardInvariant => TypeOK
  BY CardParts DEF CardInvariant, TypeOK, Requesting, Focuses
<1> QED
  BY <1>1, CardInvariantHolds, PTL

\* A time field without the focus holds a time: however the user moves between the two
\* fields, the calendar, the projects and Enter, whatever saves overlap and fail, and
\* however many requests are in flight.
THEOREM TimesCompleteHolds == HSpec => []TimesComplete
<1>1. CardInvariant => TimesComplete
  BY DEF CardInvariant, TimesComplete, FocusKept
<1> QED
  BY <1>1, CardInvariantHolds, PTL

----------------------------------------------------------------------------
(* What the card shows. *)

\* Two sets of fields that agree on each field are the same.
LEMMA SameFields ==
    ASSUME NEW f \in CardFields, NEW g \in CardFields,
           f.description = g.description, f.project = g.project, f.day = g.day,
           f.start = g.start, f.end = g.end
    PROVE  f = g
BY DEF CardFields

\* A patch changes what it names: a description, the times or a project.
LEMMA PatchedParts ==
    ASSUME NEW e \in Entries, NEW p \in Patches
    PROVE  /\ Patched(e, p) \in Entries
           /\ p \in [description : Descriptions] =>
                 /\ Patched(e, p).description = p.description /\ Patched(e, p).project = e.project
                 /\ Patched(e, p).start = e.start /\ Patched(e, p).end = e.end
           /\ p \in [start : Moments, end : Moments, whole : {TRUE}] =>
                 /\ Patched(e, p).description = e.description /\ Patched(e, p).project = e.project
                 /\ Patched(e, p).start = p.start /\ Patched(e, p).end = p.end
           /\ p \in [project : Projects] =>
                 /\ Patched(e, p).description = e.description /\ Patched(e, p).project = p.project
                 /\ Patched(e, p).start = e.start /\ Patched(e, p).end = e.end
<1>1. CASE p \in [description : Descriptions]
  BY <1>1 DEF Patched, Entries
<1>2. CASE p \in [start : Moments, end : Moments, whole : {TRUE}]
  BY <1>2 DEF Patched, Entries
<1>3. CASE p \in [project : Projects]
  BY <1>3 DEF Patched, Entries
<1> QED
  BY <1>1, <1>2, <1>3 DEF Patches

\* What the fields made from an entry hold.
LEMMA FieldsHold ==
    ASSUME NEW e
    PROVE  /\ Fields(e).description = e.description /\ Fields(e).project = e.project
           /\ Fields(e).day = e.start.day
           /\ Fields(e).start = e.start.clock /\ Fields(e).end = e.end.clock
BY DEF Fields

\* A card whose fields are those of the entry shows it, wherever the focus goes.
LEMMA GotoShows ==
    ASSUME NEW k \in Cards, FocusKept(k), NEW to \in Focuses, NEW e,
           k.saved = e, ~k.saving,
           k.focus = "description" /\ to = "description" => k.atFocus = e.description,
           k.focus # "description" \/ to # "description" => k.fields.description = e.description,
           k.fields.project = e.project, k.fields.day = e.start.day,
           to \notin {"start", "end"} =>
              k.fields.start = e.start.clock /\ k.fields.end = e.end.clock
    PROVE  Shows(Goto(k, to), e)
<1>1. CASE to = k.focus
  BY <1>1 DEF Goto, Shows
<1>2. CASE to # k.focus
  <2> DEFINE a == IF to = "none" THEN None ELSE k.fields[to]
  <2>1. Goto(k, to) = [k EXCEPT !.focus = to, !.atFocus = a]
    BY <1>2 DEF Goto
  <2>2. to = "description" => a = e.description
    BY <1>2
  <2> HIDE DEF a
  <2>3. /\ Goto(k, to).fields = k.fields /\ Goto(k, to).focus = to
        /\ Goto(k, to).saved = k.saved /\ Goto(k, to).saving = k.saving
        /\ Goto(k, to).atFocus = a
    BY <2>1 DEF Cards
  <2> QED
    BY <1>2, <2>2, <2>3 DEF Shows
<1> QED
  BY <1>1, <1>2

\* Nothing is in flight and the card shows the entry.
AtRest ==
    /\ Quiet /\ listed = entry /\ ~loading
    /\ entry \in Entries /\ card \in Cards /\ FocusKept(card) /\ Shows(card, entry)

\* A step at rest that leaves a card that shows the entry.
LEMMA KeepSound ==
    ASSUME AtRest, NEW k \in Cards, Shows(k, entry), Keep(k), Untouched
    PROVE  SoundInvariant'
<1>1. card' = k /\ k # None /\ entry # None /\ UNCHANGED <<entry, listed, loading, calls>>
  BY NoneIsNothing DEF AtRest, Keep, Untouched
<1>2. Quiet' /\ \A c \in Calls : ~Busy(c)'
  BY <1>1 DEF AtRest, Quiet, Busy
<1>3. Shows(k, entry)'
  BY <1>1 DEF Shows
<1> QED
  BY <1>1, <1>2 DEF SoundInvariant, AtRest, Shows

\* A save at rest of a card that differs from the entry by what the save names.
LEMMA SaveSound ==
    ASSUME CardInvariant, AtRest, NEW k \in Cards, NEW p \in Patches, Save(k, p), Untouched,
           k.saved = entry, k.fields = Fields(Patched(entry, p))
    PROVE  SoundInvariant'
<1>1. PICK c \in Calls : calls' = [calls EXCEPT ![c] =
                            [Idle EXCEPT !.pc = "ask", !.kind = "save", !.patch = p, !.old = k.saved, !.mine = TRUE]]
  BY DEF Save
<1>2. /\ calls'[c].pc = "ask" /\ calls'[c].kind = "save" /\ calls'[c].patch = p
      /\ calls'[c].old = k.saved /\ calls'[c].mine
      /\ \A d \in Calls \ {c} : calls'[d] = calls[d]
  BY <1>1 DEF Idle, CardInvariant
<1>3. /\ card'.fields = k.fields /\ card'.saved = k.saved /\ card'.saving /\ card'.focus = "none"
      /\ card' \in Cards
  BY CardParts DEF Save, Cards
<1>4. UNCHANGED <<entry, listed, loading>> /\ card' # None /\ entry # None /\ listed = entry /\ ~loading
  BY <1>3, NoneIsNothing DEF Untouched, AtRest
<1>5. \A d \in Calls : Busy(d)' <=> d = c
  BY <1>2 DEF AtRest, Quiet, Busy
<1>6. InFlight(calls[c])'
  BY <1>2, <1>3, <1>4 DEF InFlight, Waits
<1>7. ~Quiet'
  BY <1>2 DEF Quiet
<1> QED
  BY <1>5, <1>6, <1>7 DEF SoundInvariant

\* A commit of a description at rest.
LEMMA CommitDescriptionSound ==
    ASSUME CardInvariant, AtRest, Focused("description"), NEW to \in Focuses,
           CommitDescription(to), Untouched
    PROVE  SoundInvariant'
<1>1. /\ card \in Cards /\ FocusKept(card) /\ card.focus = "description" /\ entry \in Entries
      /\ card.saved = entry /\ ~card.saving /\ card.atFocus = entry.description
      /\ card.fields.project = entry.project /\ card.fields.day = entry.start.day
      /\ card.fields.start = entry.start.clock /\ card.fields.end = entry.end.clock
      /\ card.fields.start # None /\ card.fields.end # None
  BY DEF AtRest, Focused, Shows, FocusKept
<1> DEFINE k == [card EXCEPT !.fields.description = card.atFocus]
<1>2. CASE Keep(Goto(k, to))
  <2>1. /\ k \in Cards /\ k.fields = [card.fields EXCEPT !.description = card.atFocus]
        /\ k.focus = card.focus /\ k.atFocus = card.atFocus
        /\ k.saved = card.saved /\ k.saving = card.saving
    BY <1>1, CardWithField, CardParts DEF CardFields, FocusKept
  <2>2. /\ k.fields.start = card.fields.start /\ k.fields.end = card.fields.end
        /\ k.fields.project = card.fields.project /\ k.fields.day = card.fields.day
        /\ k.fields.description = card.atFocus
    BY <1>1, <2>1, CardParts DEF CardFields
  <2> HIDE DEF k
  <2>3. FocusKept(k)
    BY <1>1, <2>1, <2>2 DEF FocusKept
  <2>4. /\ k.saved = entry /\ ~k.saving /\ k.atFocus = entry.description
        /\ k.fields.description = entry.description
        /\ k.fields.project = entry.project /\ k.fields.day = entry.start.day
        /\ k.fields.start = entry.start.clock /\ k.fields.end = entry.end.clock
        /\ k.fields.start # None /\ k.fields.end # None
    BY <1>1, <2>1, <2>2
  <2>5. Shows(Goto(k, to), entry)
    BY <2>1, <2>3, <2>4, GotoShows
  <2>6. Goto(k, to) \in Cards
    BY <2>1, <2>3, <2>4, GotoKeeps
  <2> QED
    BY <1>2, <2>5, <2>6, KeepSound DEF k
<1>3. CASE card.fields.description = card.saved.description /\ Keep(Goto(card, to))
  <2>1. Shows(Goto(card, to), entry) /\ Goto(card, to) \in Cards
    BY <1>1, <1>3, GotoShows, GotoKeeps
  <2> QED
    BY <1>3, <2>1, KeepSound
<1>4. CASE /\ card.fields.description # None
           /\ Save(card, [description |-> card.fields.description])
  <2> DEFINE p == [description |-> card.fields.description]
  <2>1. p \in [description : Descriptions] /\ p \in Patches /\ p.description = card.fields.description
    BY <1>1, <1>4, CardParts DEF Patches, AnyDescription
  <2> HIDE DEF p
  <2>2. Patched(entry, p) \in Entries /\ Fields(Patched(entry, p)) \in CardFields
    BY <1>1, <2>1, PatchedParts, FieldsOfEntry
  <2> DEFINE n == Patched(entry, p)
  <2>3. /\ n.description = p.description /\ n.project = entry.project
        /\ n.start = entry.start /\ n.end = entry.end
    BY <1>1, <2>1, PatchedParts
  <2> HIDE DEF n
  <2>4. /\ card.fields.description = Fields(n).description /\ card.fields.project = Fields(n).project
        /\ card.fields.day = Fields(n).day
        /\ card.fields.start = Fields(n).start /\ card.fields.end = Fields(n).end
    BY <1>1, <2>1, <2>3, FieldsHold
  <2>5. card.fields = Fields(Patched(entry, p))
    BY <1>1, <2>2, <2>4, SameFields, CardParts DEF n
  <2> QED
    BY <1>1, <1>4, <2>1, <2>5, SaveSound DEF p
<1> QED
  BY <1>2, <1>3, <1>4 DEF CommitDescription

\* A commit of times at rest: they are saved or go back to the entry's.
LEMMA CommitTimeSound ==
    ASSUME CardInvariant, AtRest, NEW k \in Cards, FocusKept(k), NEW to \in Focuses,
           k.fields.start # None, k.fields.end # None, CommitTime(k, to), Untouched,
           k.saved = entry, ~k.saving, k.focus # "description",
           k.fields.description = entry.description, k.fields.project = entry.project
    PROVE  SoundInvariant'
<1>1. /\ entry \in Entries /\ k.fields \in CardFields
      /\ k.fields.day \in Days /\ k.fields.start \in Clocks /\ k.fields.end \in Clocks
  BY CardParts DEF AtRest
<1>2. CASE Keep(Goto(Reverted(k, k.saved), to))
  <2> DEFINE r == Reverted(k, k.saved)
  <2>1. /\ r \in Cards /\ FocusKept(r) /\ r.fields = Fields(entry) /\ r.focus = k.focus
        /\ r.saved = entry /\ ~r.saving
        /\ r.fields.start # None /\ r.fields.end # None
    BY <1>1, RevertedKeeps
  <2> HIDE DEF r
  <2>2. Shows(Goto(r, to), entry) /\ Goto(r, to) \in Cards
    BY <1>1, <2>1, FieldsHold, GotoShows, GotoKeeps
  <2> QED
    BY <1>2, <2>2, KeepSound DEF r
<1>3. CASE /\ Moment(k.fields.day, k.fields.start) = k.saved.start
           /\ Moment(k.fields.day, k.fields.end) = k.saved.end
           /\ Keep(Goto(k, to))
  <2>1. /\ k.fields.day = entry.start.day /\ k.fields.start = entry.start.clock
        /\ k.fields.end = entry.end.clock
    BY <1>3 DEF Moment
  <2>2. Shows(Goto(k, to), entry) /\ Goto(k, to) \in Cards
    BY <2>1, GotoShows, GotoKeeps
  <2> QED
    BY <1>3, <2>2, KeepSound
<1> DEFINE p == [start |-> Moment(k.fields.day, k.fields.start),
                 end |-> Moment(k.fields.day, k.fields.end), whole |-> TRUE]
<1>4. CASE Save(k, p)
  <2>1. /\ p \in [start : Moments, end : Moments, whole : {TRUE}] /\ p \in Patches
        /\ p.start.day = k.fields.day /\ p.start.clock = k.fields.start /\ p.end.clock = k.fields.end
    BY <1>1 DEF Patches, Moment, Moments
  <2> HIDE DEF p
  <2>2. Patched(entry, p) \in Entries /\ Fields(Patched(entry, p)) \in CardFields
    BY <1>1, <2>1, PatchedParts, FieldsOfEntry
  <2> DEFINE n == Patched(entry, p)
  <2>3. /\ n.description = entry.description /\ n.project = entry.project
        /\ n.start = p.start /\ n.end = p.end
    BY <1>1, <2>1, PatchedParts
  <2> HIDE DEF n
  <2>4. /\ k.fields.description = Fields(n).description /\ k.fields.project = Fields(n).project
        /\ k.fields.day = Fields(n).day
        /\ k.fields.start = Fields(n).start /\ k.fields.end = Fields(n).end
    BY <2>1, <2>3, FieldsHold
  <2>5. k.fields = Fields(Patched(entry, p))
    BY <1>1, <2>2, <2>4, SameFields DEF n
  <2> QED
    BY <1>4, <2>1, <2>5, SaveSound DEF p
<1> QED
  BY <1>2, <1>3, <1>4 DEF CommitTime

\* The user works on a card at rest.
LEMMA UserAtRest ==
    ASSUME CardInvariant, AtRest, User, ~PairLeftOpen
    PROVE  SoundInvariant'
<1>1. /\ card \in Cards /\ card # None /\ FocusKept(card) /\ entry \in Entries
      /\ card.saved = entry /\ ~card.saving /\ Shows(card, entry)
      /\ card.fields.project = entry.project /\ card.fields.day = entry.start.day
      /\ card.focus # "description" => card.fields.description = entry.description
  BY NoneIsNothing DEF AtRest, Shows
<1>2. CASE MoveFocus
  <2>1. PICK to \in Focuses :
           \/ Focused("none") /\ Keep(Goto(card, to))
           \/ Focused("description") /\ CommitDescription(to)
           \/ \E f \in {"start", "end"} : Focused(f) /\ to # f /\ LeaveTime(f, to)
    BY <1>2 DEF MoveFocus, Focuses
  <2>2. Untouched
    BY <1>2 DEF MoveFocus
  <2>3. CASE Focused("none") /\ Keep(Goto(card, to))
    <3>1. /\ card.focus = "none" /\ card.fields.start # None /\ card.fields.end # None
          /\ card.fields.start = entry.start.clock /\ card.fields.end = entry.end.clock
      BY <1>1, <2>3 DEF Focused, FocusKept, Shows
    <3>2. Goto(card, to) \in Cards /\ Shows(Goto(card, to), entry)
      BY <1>1, <3>1, GotoKeeps, GotoShows
    <3> QED
      BY <2>2, <2>3, <3>2, KeepSound
  <2>4. CASE Focused("description") /\ CommitDescription(to)
    BY <2>2, <2>4, CommitDescriptionSound
  <2>5. ASSUME NEW f \in {"start", "end"}, Focused(f), to # f, LeaveTime(f, to)
        PROVE  SoundInvariant'
    <3> DEFINE n == Normalized(card, f)
    <3>1. card.focus = f
      BY <2>5 DEF Focused
    <3>2. /\ n \in Cards /\ FocusKept(n) /\ n.fields.start # None /\ n.fields.end # None
          /\ n.focus = f /\ n.saved = entry /\ ~n.saving
          /\ n.fields.description = entry.description /\ n.fields.project = entry.project
          /\ n.fields.day = entry.start.day
          /\ card.fields[f] # None => n = card
      BY <1>1, <3>1, NormalizedKeeps
    <3> HIDE DEF n
    <3>3. CASE Keep(Goto(n, to)) /\ to \in {"start", "end"}
      <4>1. Goto(n, to) \in Cards
        BY <3>2, GotoKeeps
      <4>2. Shows(Goto(n, to), entry)
        BY <3>2, <3>3, GotoShows
      <4> QED
        BY <2>2, <3>3, <4>1, <4>2, KeepSound
    <3>4. CASE Keep(Goto(n, to)) /\ to \notin {"start", "end"} /\ card.fields[f] = None
      <4>1. card' = Goto(n, to) /\ Goto(n, to).focus = to
        BY <3>2, <3>4, GotoKeeps DEF Keep
      <4> QED
        BY <2>5, <3>1, <3>4, <4>1 DEF PairLeftOpen
    <3>5. CASE CommitTime(n, to)
      BY <2>2, <3>2, <3>5, CommitTimeSound
    <3> QED
      BY <2>5, <3>3, <3>4, <3>5 DEF LeaveTime, n
  <2> QED
    BY <2>1, <2>3, <2>4, <2>5
<1>3. CASE Type
  <2>1. Untouched
    BY <1>3 DEF Type
  <2>2. ASSUME Focused("description"), NEW text \in AnyDescription,
               Keep([card EXCEPT !.fields.description = text])
        PROVE  SoundInvariant'
    <3> DEFINE k == [card EXCEPT !.fields.description = text]
    <3>1. /\ k \in Cards /\ k.fields = [card.fields EXCEPT !.description = text]
          /\ k.focus = card.focus /\ k.atFocus = card.atFocus
          /\ k.saved = card.saved /\ k.saving = card.saving
      BY <1>1, CardWithField, CardParts DEF CardFields
    <3>2. /\ k.fields.start = card.fields.start /\ k.fields.end = card.fields.end
          /\ k.fields.project = card.fields.project /\ k.fields.day = card.fields.day
      BY <1>1, <3>1, CardParts DEF CardFields
    <3> HIDE DEF k
    <3>3. Shows(k, entry)
      BY <1>1, <2>2, <3>1, <3>2 DEF Shows, Focused
    <3> QED
      BY <2>1, <2>2, <3>1, <3>3, KeepSound DEF k
  <2>3. ASSUME NEW f \in {"start", "end"}, NEW c \in Clocks \cup {None}, Focused(f),
               Keep([card EXCEPT !.fields[f] = c])
        PROVE  SoundInvariant'
    <3> DEFINE k == [card EXCEPT !.fields[f] = c]
    <3>1. /\ k \in Cards /\ k.fields = [card.fields EXCEPT ![f] = c]
          /\ k.focus = card.focus /\ k.saved = card.saved /\ k.saving = card.saving
      BY <1>1, CardWithField, CardParts DEF CardFields
    <3>2. /\ k.fields.description = card.fields.description
          /\ k.fields.project = card.fields.project /\ k.fields.day = card.fields.day
      BY <1>1, <3>1, CardParts DEF CardFields
    <3> HIDE DEF k
    <3>3. Shows(k, entry)
      BY <1>1, <2>3, <3>1, <3>2 DEF Shows, Focused
    <3> QED
      BY <2>1, <2>3, <3>1, <3>3, KeepSound DEF k
  <2> QED
    BY <1>3, <2>2, <2>3 DEF Type, AnyDescription
<1>4. CASE Enter
  <2>1. Untouched
    BY <1>4 DEF Enter
  <2>2. CASE Focused("description") /\ CommitDescription("description")
    BY <2>1, <2>2, CommitDescriptionSound DEF Focuses
  <2>3. ASSUME NEW f \in {"start", "end"}, Focused(f), EnterTime(f)
        PROVE  SoundInvariant'
    <3> DEFINE n == Normalized(card, f)
    <3>1. card.focus = f
      BY <2>3 DEF Focused
    <3>2. /\ n \in Cards /\ FocusKept(n) /\ n.fields.start # None /\ n.fields.end # None
          /\ n.focus = f /\ n.saved = entry /\ ~n.saving
          /\ n.fields.description = entry.description /\ n.fields.project = entry.project
          /\ n.fields.day = entry.start.day
      BY <1>1, <3>1, NormalizedKeeps
    <3> HIDE DEF n
    <3>3. CASE Keep(n)
      <4>1. Shows(n, entry)
        BY <3>2 DEF Shows
      <4> QED
        BY <2>1, <3>2, <3>3, <4>1, KeepSound
    <3>4. CASE CommitTime(n, f)
      BY <2>1, <3>2, <3>4, CommitTimeSound DEF Focuses
    <3> QED
      BY <2>3, <3>3, <3>4 DEF EnterTime, n
  <2> QED
    BY <1>4, <2>2, <2>3 DEF Enter
<1>5. ASSUME Focused("none")
      PROVE  /\ card.focus = "none" /\ card.fields.start # None /\ card.fields.end # None
             /\ card.fields.description = entry.description
             /\ card.fields.start = entry.start.clock /\ card.fields.end = entry.end.clock
  BY <1>1, <1>5 DEF Focused, FocusKept, Shows
<1>6. CASE PickDay
  <2>1. PICK d \in Days : CommitTime([card EXCEPT !.fields.day = d], "none")
    BY <1>6 DEF PickDay
  <2>2. Untouched /\ Focused("none")
    BY <1>6 DEF PickDay
  <2> DEFINE k == [card EXCEPT !.fields.day = d]
  <2>3. /\ k \in Cards /\ k.fields = [card.fields EXCEPT !.day = d]
        /\ k.focus = card.focus /\ k.saved = card.saved /\ k.saving = card.saving
    BY <1>1, CardWithField, CardParts DEF CardFields
  <2>4. /\ k.fields.start = card.fields.start /\ k.fields.end = card.fields.end
        /\ k.fields.description = card.fields.description
        /\ k.fields.project = card.fields.project
    BY <1>1, <2>3, CardParts DEF CardFields
  <2>5. CommitTime(k, "none")
    BY <2>1
  <2> HIDE DEF k
  <2>6. FocusKept(k)
    BY <1>5, <2>2, <2>3, <2>4 DEF FocusKept
  <2> QED
    BY <1>1, <1>5, <2>2, <2>3, <2>4, <2>5, <2>6, CommitTimeSound DEF Focuses
<1>7. CASE SelectProject
  <2>1. PICK j \in Projects : Save([card EXCEPT !.fields.project = j], [project |-> j])
    BY <1>7 DEF SelectProject
  <2>2. Untouched /\ Focused("none")
    BY <1>7 DEF SelectProject
  <2> DEFINE k == [card EXCEPT !.fields.project = j]
             p == [project |-> j]
  <2>3. /\ k \in Cards /\ k.fields = [card.fields EXCEPT !.project = j]
        /\ k.focus = card.focus /\ k.saved = card.saved
    BY <1>1, CardWithField, CardParts DEF CardFields
  <2>4. /\ k.fields.start = card.fields.start /\ k.fields.end = card.fields.end
        /\ k.fields.description = card.fields.description
        /\ k.fields.project = j /\ k.fields.day = card.fields.day
        /\ k.fields \in CardFields
    BY <1>1, <2>3, CardParts DEF CardFields
  <2>5. p \in [project : Projects] /\ p \in Patches /\ p.project = j
    BY DEF Patches
  <2>6. Save(k, p)
    BY <2>1
  <2> HIDE DEF k, p
  <2>7. Patched(entry, p) \in Entries /\ Fields(Patched(entry, p)) \in CardFields
    BY <1>1, <2>5, PatchedParts, FieldsOfEntry
  <2> DEFINE n == Patched(entry, p)
  <2>8. /\ n.description = entry.description /\ n.project = j
        /\ n.start = entry.start /\ n.end = entry.end
    BY <1>1, <2>5, PatchedParts
  <2> HIDE DEF n
  <2>9. /\ k.fields.description = Fields(n).description /\ k.fields.project = Fields(n).project
        /\ k.fields.day = Fields(n).day
        /\ k.fields.start = Fields(n).start /\ k.fields.end = Fields(n).end
    BY <1>1, <1>5, <2>2, <2>4, <2>8, FieldsHold
  <2>10. k.fields = Fields(Patched(entry, p))
    BY <2>4, <2>7, <2>9, SameFields DEF n
  <2> QED
    BY <1>1, <2>2, <2>3, <2>5, <2>6, <2>10, SaveSound
<1>8. CASE ConfirmDelete
  <2>1. PICK c \in Calls :
           calls' = [calls EXCEPT ![c] = [Idle EXCEPT !.pc = "ask", !.kind = "delete", !.mine = TRUE]]
    BY <1>8 DEF ConfirmDelete
  <2>2. /\ calls'[c].pc = "ask" /\ calls'[c].kind = "delete" /\ calls'[c].mine
        /\ \A d \in Calls \ {c} : calls'[d] = calls[d]
    BY <2>1 DEF Idle, CardInvariant
  <2>3. /\ card' = [card EXCEPT !.saving = TRUE] /\ Focused("none")
        /\ UNCHANGED <<entry, listed, loading>>
    BY <1>8 DEF ConfirmDelete, Untouched
  <2>4. /\ card'.fields = card.fields /\ card'.saved = entry /\ card'.saving /\ card'.focus = "none"
        /\ card' \in Cards /\ card' # None
    BY <1>1, <1>5, <2>3, NoneIsNothing DEF Cards
  <2>5. card.fields = Fields(entry)
    <3>1. card.fields \in CardFields /\ Fields(entry) \in CardFields
      BY <1>1, CardParts, FieldsOfEntry
    <3> QED
      BY <1>1, <1>5, <2>3, <3>1, FieldsHold, SameFields
  <2>6. \A d \in Calls : Busy(d)' <=> d = c
    BY <2>2 DEF AtRest, Quiet, Busy
  <2>7. InFlight(calls[c])'
    BY <1>1, <2>2, <2>3, <2>4, <2>5, NoneIsNothing DEF InFlight, Waits, AtRest
  <2>8. ~Quiet'
    BY <2>2 DEF Quiet
  <2> QED
    BY <2>6, <2>7, <2>8 DEF SoundInvariant
<1> QED
  BY <1>2, <1>3, <1>4, <1>6, <1>7, <1>8 DEF User

\* A step that sends a request and a step that does not.
LEMMA SaveSends ==
    ASSUME CardInvariant, NEW k, NEW p, Save(k, p)
    PROVE  \E c \in Sent : calls[c].pc = "idle"
<1>1. PICK c \in Calls : /\ calls[c].pc = "idle"
                         /\ calls' = [calls EXCEPT ![c] =
                               [Idle EXCEPT !.pc = "ask", !.kind = "save", !.patch = p, !.old = k.saved, !.mine = TRUE]]
  BY DEF Save
<1>2. calls'[c].pc = "ask"
  BY <1>1 DEF Idle, CardInvariant
<1>3. calls'[c] # calls[c]
  BY <1>1, <1>2
<1> QED
  BY <1>1, <1>2, <1>3 DEF Sent

\* While the card waits for an answer, the user cannot change it and send no other request.
LEMMA UserWhileBusy ==
    ASSUME CardInvariant, SoundInvariant, sound, ~Quiet, User, ~Overlap, \A c \in Sent : Alone(c)
    PROVE  SoundInvariant'
<1>1. PICK b \in Calls : Busy(b)
  BY DEF Quiet, Busy
<1>2. InFlight(calls[b]) /\ \A d \in Calls \ {b} : ~Busy(d)
  BY <1>1 DEF SoundInvariant
<1>3. card # None
  BY DEF User, MoveFocus, Type, Enter, PickDay, SelectProject, ConfirmDelete, Focused
<1>4. /\ Waits(calls[b]) /\ card.focus = "none" /\ card.saving /\ card \in Cards /\ FocusKept(card)
      /\ card.fields.start # None /\ card.fields.end # None
  BY <1>2, <1>3 DEF InFlight, Waits, CardInvariant, FocusKept
<1>5. ASSUME NEW k, NEW p, Save(k, p) PROVE FALSE
  <2>1. PICK c \in Sent : calls[c].pc = "idle"
    BY <1>5, SaveSends
  <2>2. Alone(c) /\ b # c
    BY <1>1, <2>1 DEF Busy
  <2> QED
    BY <1>1, <2>2 DEF Alone, Busy
<1>6. ASSUME NEW k \in Cards, Keep(k), Untouched,
             k.saved = card.saved, k.saving = card.saving, k.focus = card.focus
      PROVE  SoundInvariant'
  <2>1. card'.fields = card.fields
    BY DEF Overlap
  <2>2. /\ card' = k /\ UNCHANGED <<entry, listed, loading, calls>> /\ k # None
    BY <1>6, NoneIsNothing DEF Keep, Untouched
  <2>3. k.fields = card.fields
    BY <2>1, <2>2
  <2>4. Waits(calls[b])'
    BY <1>3, <1>4, <1>6, <2>2 DEF Waits
  <2>5. InFlight(calls[b])'
    BY <1>2, <1>3, <2>2, <2>3, <2>4 DEF InFlight
  <2>6. \A d \in Calls : Busy(d)' <=> d = b
    BY <1>1, <1>2, <2>2 DEF Busy
  <2>7. ~Quiet'
    BY <2>2 DEF Quiet
  <2> QED
    BY <2>5, <2>6, <2>7 DEF SoundInvariant
<1>7. PickDay
  <2>1. ~MoveFocus
    BY <1>4 DEF MoveFocus, Focused
  <2>2. ~Type /\ ~Enter
    BY <1>4 DEF Type, Enter, Focused
  <2>3. ~ConfirmDelete
    BY <1>4 DEF ConfirmDelete
  <2>4. ~SelectProject
    BY <1>5 DEF SelectProject
  <2> QED
    BY <2>1, <2>2, <2>3, <2>4 DEF User
<1>8. PICK d \in Days : CommitTime([card EXCEPT !.fields.day = d], "none")
  BY <1>7 DEF PickDay
<1> DEFINE k == [card EXCEPT !.fields.day = d]
<1>9. /\ k \in Cards /\ k.fields = [card.fields EXCEPT !.day = d]
      /\ k.focus = card.focus /\ k.saved = card.saved /\ k.saving = card.saving
  <2>1. card \in Cards
    BY <1>4
  <2>2. "day" \in DOMAIN card.fields
    BY <2>1, CardParts DEF CardFields
  <2> QED
    BY <2>1, <2>2, CardWithField
<1>10. k.fields.start = card.fields.start /\ k.fields.end = card.fields.end
  BY <1>4, <1>9, CardParts DEF CardFields
<1>11. CommitTime(k, "none") /\ Untouched
  BY <1>7, <1>8 DEF PickDay
<1> HIDE DEF k
<1>12. FocusKept(k)
  BY <1>4, <1>9, <1>10 DEF FocusKept
<1>13. Keep(Goto(Reverted(k, k.saved), "none")) \/ Keep(Goto(k, "none"))
  BY <1>5, <1>11 DEF CommitTime
<1>14. CASE Keep(Goto(k, "none"))
  <2>1. Goto(k, "none") = k
    BY <1>4, <1>9 DEF Goto
  <2> QED
    BY <1>6, <1>9, <1>11, <1>14, <2>1
<1>15. CASE Keep(Goto(Reverted(k, k.saved), "none"))
  <2> DEFINE r == Reverted(k, k.saved)
  <2>1. r \in Cards /\ r.focus = k.focus /\ r.saved = k.saved /\ r.saving = k.saving
    BY <1>9, <1>12, CardParts, RevertedKeeps
  <2> HIDE DEF r
  <2>2. Goto(r, "none") = r
    BY <1>4, <1>9, <2>1 DEF Goto
  <2> QED
    BY <1>6, <1>9, <1>11, <1>15, <2>1, <2>2 DEF r
<1> QED
  BY <1>13, <1>14, <1>15

\* The server carries out the one request that is in flight.
LEMMA ServerSound ==
    ASSUME CardInvariant, SoundInvariant, NEW c \in Calls, Serve(c), ObserveServe(c), sound'
    PROVE  SoundInvariant'
<1>1. sound /\ ~(calls'[c].pc = "failed" /\ entry' # entry)
  BY DEF ObserveServe
<1>2. /\ UNCHANGED <<listed, loading, card>>
      /\ calls[c].pc = "ask" /\ calls'[c].pc \in {"answer", "failed"}
      /\ calls'[c].kind = calls[c].kind /\ calls'[c].mine = calls[c].mine
      /\ calls'[c].patch = calls[c].patch /\ calls'[c].old = calls[c].old
      /\ \A d \in Calls \ {c} : calls'[d] = calls[d]
      /\ At(c, "save", "ask") /\ (calls'[c].pc = "answer" \/ entry' # entry) =>
            entry # None /\ entry' = Patched(entry, calls[c].patch) /\ calls'[c].result = entry'
  BY ServerKeepsCard
<1>3. /\ Busy(c) /\ InFlight(calls[c]) /\ \A d \in Calls : Busy(d) => d = c
  BY <1>1, <1>2 DEF SoundInvariant, Busy
<1>4. (\A d \in Calls : Busy(d)' <=> d = c) /\ ~Quiet'
  BY <1>2, <1>3 DEF Busy, Quiet
<1>5. SUFFICES InFlight(calls[c])'
  BY <1>4 DEF SoundInvariant
<1>6. Waits(calls[c]) => Waits(calls[c])'
  BY <1>2 DEF Waits
<1>7. CASE calls[c].kind = "save"
  <2>1. /\ Waits(calls[c]) /\ calls[c].old = listed /\ entry = listed
        /\ card.fields = Fields(Patched(listed, calls[c].patch))
    BY <1>2, <1>3, <1>7 DEF InFlight
  <2>2. calls'[c].pc = "answer" => entry' = Patched(listed, calls[c].patch) /\ calls'[c].result = entry'
    BY <1>2, <1>7, <2>1 DEF At
  <2>3. calls'[c].pc = "failed" => entry' = listed
    BY <1>1, <2>1
  <2> QED
    BY <1>2, <1>6, <1>7, <2>1, <2>2, <2>3 DEF InFlight
<1>8. CASE calls[c].kind = "delete"
  <2>1. Waits(calls[c]) /\ card.fields = Fields(listed) /\ entry = listed
    BY <1>2, <1>3, <1>8 DEF InFlight
  <2>2. calls'[c].pc = "answer" => entry' = None
    BY <1>8 DEF Serve, UpdateTimeEntry, DeleteTimeEntry, GetTimeEntries, Refuse, At, CardInvariant, Requesting
  <2>3. calls'[c].pc = "failed" => entry' = listed
    BY <1>1, <2>1
  <2> QED
    BY <1>2, <1>6, <1>8, <2>1, <2>2, <2>3 DEF InFlight
<1>9. CASE calls[c].kind = "refresh"
  <2>1. card' = None
    BY <1>2, <1>3, <1>9 DEF InFlight
  <2>2. calls'[c].pc = "answer" => calls'[c].result = entry'
    <3>1. GetTimeEntries(c) \/ Refuse(c)
      BY <1>9 DEF Serve, UpdateTimeEntry, DeleteTimeEntry, At
    <3> QED
      BY <3>1 DEF GetTimeEntries, Refuse, CardInvariant, Requesting
  <2> QED
    BY <1>2, <1>9, <2>1, <2>2 DEF InFlight
<1> QED
  BY <1>3, <1>7, <1>8, <1>9 DEF InFlight

\* A reload that is alone: what it brings is what the card is made of.
LEMMA RefreshSound ==
    ASSUME CardInvariant, NEW c \in Calls, Refresh(c), Alone(c)
    PROVE  SoundInvariant'
<1>1. /\ calls'[c].pc = "ask" /\ calls'[c].kind = "refresh" /\ card' = None
      /\ \A d \in Calls \ {c} : calls'[d] = [calls[d] EXCEPT !.mine = FALSE]
  BY RefreshRequests
<1>2. \A d \in Calls \ {c} : calls'[d].pc = "idle"
  BY <1>1 DEF Alone, CardInvariant, Requesting
<1>3. (\A d \in Calls : Busy(d)' <=> d = c) /\ ~Quiet'
  BY <1>1, <1>2 DEF Busy, Quiet
<1>4. InFlight(calls[c])'
  BY <1>1 DEF InFlight
<1> QED
  BY <1>3, <1>4 DEF SoundInvariant

\* A reload is a request that is sent.
LEMMA RefreshSends ==
    ASSUME CardInvariant, NEW c \in Calls, Refresh(c), calls[c].pc # "ask"
    PROVE  c \in Sent
<1>1. calls'[c].pc = "ask"
  BY RefreshRequests
<1>2. calls'[c] # calls[c]
  BY <1>1
<1> QED
  BY <1>1, <1>2 DEF Sent

\* An answer that is all there was to wait for.
LEMMA LastAnswer ==
    ASSUME CardInvariant, SoundInvariant, sound, NEW c \in Calls, Busy(c),
           calls' = Done(c) \/ calls' = CardGone(Done(c)),
           listed' = entry', ~loading',
           entry' = None => card' = None,
           entry' # None => card' # None /\ Shows(card', entry')
    PROVE  SoundInvariant'
<1>1. \A d \in Calls : Done(c)[d].pc = "idle"
  BY DoneRequests DEF SoundInvariant, Busy, Idle
<1>2. Done(c) \in [Calls -> Requesting] /\ \A d \in Calls : Carries(Done(c)[d])
  BY DoneRequests
<1>3. \A d \in Calls : calls'[d].pc = "idle"
  <2>1. \A d \in Calls : CardGone(Done(c))[d].pc = Done(c)[d].pc
    BY <1>2, GoneRequests
  <2> QED
    BY <1>1, <2>1
<1>4. Quiet' /\ \A d \in Calls : ~Busy(d)'
  BY <1>3 DEF Quiet, Busy
<1>5. entry' # None => Shows(card, entry)'
  BY DEF Shows
<1> QED
  BY <1>4, <1>5 DEF SoundInvariant

\* A card that waited shows what its fields were made from once it stops waiting.
LEMMA StopsWaiting ==
    ASSUME NEW k, NEW e, k.saved = e, ~k.saving, k.focus = "none", k.fields = Fields(e)
    PROVE  Shows(k, e)
BY FieldsHold DEF Shows

\* Without a request that is sent, the history variable stays but for a reload that fails.
LEMMA NothingSent ==
    ASSUME CardInvariant, NEW c \in Calls, calls' = Done(c) \/ calls' = CardGone(Done(c)),
           ObserveReturn(c), sound'
    PROVE  sound /\ ~At(c, "refresh", "failed")
<1>1. \A d \in Calls : calls'[d].pc = "ask" => calls[d].pc = "ask"
  <2>1. Done(c) \in [Calls -> Requesting] /\ \A d \in Calls : Carries(Done(c)[d])
    BY DoneRequests
  <2>2. \A d \in Calls : calls'[d].pc = Done(c)[d].pc
    BY <2>1, GoneRequests
  <2>3. \A d \in Calls : Done(c)[d].pc = "ask" => calls[d].pc = "ask"
    BY DoneRequests DEF Idle
  <2> QED
    BY <2>2, <2>3
<1>2. Sent = {}
  BY <1>1 DEF Sent
<1> QED
  BY <1>2 DEF ObserveReturn

\* The answers to the card and to the list.
LEMMA ReturnSound ==
    ASSUME CardInvariant, SoundInvariant, NEW c \in Calls, Return(c), ObserveReturn(c), sound'
    PROVE  SoundInvariant'
<1>1. /\ calls[c] \in Requesting /\ Carries(calls[c]) /\ entry' = entry
      /\ card \in Cards \cup {None} /\ entry \in Entries \cup {None}
      /\ listed \in Entries \cup {None}
  BY DEF CardInvariant, Return, SaveReturns, SaveFails, DeleteReturns, DeleteFails,
         RefreshReturns, RefreshFails
<1>2. calls[c].pc \in {"answer", "failed"} /\ Busy(c)
  BY DEF Return, SaveReturns, SaveFails, DeleteReturns, DeleteFails, RefreshReturns, RefreshFails,
         At, Busy
<1>3. ASSUME Refresh(c) PROVE SoundInvariant'
  <2>1. c \in Sent
    BY <1>2, <1>3, RefreshSends
  <2>2. Alone(c)
    BY <2>1 DEF ObserveReturn
  <2> QED
    BY <1>3, <2>2, RefreshSound
<1>4. ASSUME calls' = Done(c) \/ calls' = CardGone(Done(c))
      PROVE  sound /\ InFlight(calls[c]) /\ ~At(c, "refresh", "failed")
  BY <1>2, <1>4, NothingSent DEF SoundInvariant
<1>5. ASSUME Waits(calls[c])
      PROVE  /\ card \in Cards /\ card # None /\ listed \in Entries /\ listed # None
             /\ ~loading /\ card.focus = "none" /\ card.saved = listed /\ calls[c].mine
  BY <1>1, <1>5 DEF Waits
<1>6. CASE SaveReturns(c)
  <2> DEFINE e == calls[c].result
  <2>1. CASE TimeChanged(e)
    BY <1>3, <1>6, <2>1 DEF SaveReturns
  <2>2. CASE ~TimeChanged(e)
    <3>1. /\ calls' = Done(c) /\ loading' = loading
          /\ card' = (IF calls[c].mine THEN [card EXCEPT !.saved = e, !.saving = FALSE] ELSE card)
          /\ listed' = (IF listed = None THEN None ELSE e)
          /\ calls[c].kind = "save" /\ calls[c].pc = "answer"
      BY <1>6, <2>2 DEF SaveReturns, At
    <3>2. /\ sound /\ Waits(calls[c]) /\ e = entry /\ card.fields = Fields(e)
      BY <1>4, <3>1 DEF InFlight
    <3>3. e \in Entries /\ e # None
      BY <1>1, <3>1, NoneIsNothing DEF Carries
    <3> HIDE DEF e
    <3>4. card' = [card EXCEPT !.saved = e, !.saving = FALSE] /\ listed' = e /\ ~loading'
      BY <1>5, <3>1, <3>2
    <3>5. /\ card' \in Cards /\ card'.saved = e /\ ~card'.saving /\ card'.focus = "none"
          /\ card'.fields = Fields(e)
      BY <1>5, <3>2, <3>3, <3>4 DEF Cards
    <3>6. card' # None /\ Shows(card', e)
      BY <3>5, StopsWaiting, NoneIsNothing
    <3> QED
      BY <1>1, <1>2, <3>1, <3>2, <3>3, <3>4, <3>6, LastAnswer
  <2> QED
    BY <2>1, <2>2
<1>7. CASE SaveFails(c)
  <2>1. /\ calls' = Done(c) /\ UNCHANGED <<listed, loading>>
        /\ card' = (IF calls[c].mine THEN [Reverted(card, calls[c].old) EXCEPT !.saving = FALSE] ELSE card)
        /\ calls[c].kind = "save" /\ calls[c].pc = "failed"
    BY <1>7 DEF SaveFails, At
  <2>2. sound /\ Waits(calls[c]) /\ entry = listed /\ calls[c].old = listed
    BY <1>4, <2>1 DEF InFlight
  <2> DEFINE r == Reverted(card, listed)
  <2>3. /\ r \in Cards /\ r.fields = Fields(listed) /\ r.focus = "none" /\ r.saved = listed
    BY <1>5, <2>2, AnswerForCard, RevertedKeeps
  <2> HIDE DEF r
  <2>4. card' = [r EXCEPT !.saving = FALSE]
    BY <1>5, <2>1, <2>2 DEF r
  <2>5. /\ card' \in Cards /\ card'.saved = listed /\ ~card'.saving /\ card'.focus = "none"
        /\ card'.fields = Fields(listed)
    BY <2>3, <2>4 DEF Cards
  <2>6. card' # None /\ Shows(card', listed)
    BY <2>5, StopsWaiting, NoneIsNothing
  <2> QED
    BY <1>1, <1>2, <1>5, <2>1, <2>2, <2>6, LastAnswer
<1>8. CASE DeleteReturns(c)
  <2>1. /\ listed' = None /\ card' = None /\ calls' = CardGone(Done(c)) /\ loading' = loading
        /\ calls[c].kind = "delete" /\ calls[c].pc = "answer"
    BY <1>8 DEF DeleteReturns, At
  <2>2. sound /\ Waits(calls[c]) /\ entry = None
    BY <1>4, <2>1 DEF InFlight
  <2> QED
    BY <1>1, <1>2, <1>5, <2>1, <2>2, LastAnswer
<1>9. CASE DeleteFails(c)
  <2>1. /\ card' = (IF calls[c].mine THEN [card EXCEPT !.saving = FALSE] ELSE card)
        /\ calls' = Done(c) /\ UNCHANGED <<listed, loading>>
        /\ calls[c].kind = "delete" /\ calls[c].pc = "failed"
    BY <1>9 DEF DeleteFails, At
  <2>2. sound /\ Waits(calls[c]) /\ entry = listed /\ card.fields = Fields(listed)
    BY <1>4, <2>1 DEF InFlight
  <2>3. card' = [card EXCEPT !.saving = FALSE]
    BY <1>5, <2>1, <2>2
  <2>4. /\ card' \in Cards /\ card'.saved = listed /\ ~card'.saving /\ card'.focus = "none"
        /\ card'.fields = Fields(listed)
    BY <1>5, <2>2, <2>3 DEF Cards
  <2>5. card' # None /\ Shows(card', listed)
    BY <2>4, StopsWaiting, NoneIsNothing
  <2> QED
    BY <1>1, <1>2, <1>5, <2>1, <2>2, <2>5, LastAnswer
<1>10. CASE RefreshReturns(c)
  <2>1. /\ calls[c].kind = "refresh" /\ calls[c].pc = "answer" /\ loading' = FALSE
        /\ listed' = calls[c].result
        /\ calls' = Done(c) \/ calls' = CardGone(Done(c))
        /\ card = None => card' = CardOf(calls[c].result)
    BY <1>10 DEF RefreshReturns, At
  <2>2. sound /\ card = None /\ calls[c].result = entry
    BY <1>4, <2>1 DEF InFlight
  <2>3. card' = CardOf(entry) /\ listed' = entry
    BY <2>1, <2>2
  <2>4. entry # None => card' # None /\ Shows(card', entry)
    <3>1. entry # None => card' = [saved |-> entry, fields |-> Fields(entry), saving |-> FALSE,
                                   focus |-> "none", atFocus |-> None]
      BY <2>3 DEF CardOf
    <3>2. entry # None => card' # None
      BY <1>1, <2>3, NewCard
    <3> QED
      BY <3>1, <3>2, StopsWaiting
  <2>5. entry = None => card' = None
    BY <2>3 DEF CardOf
  <2> QED
    BY <1>1, <1>2, <2>1, <2>2, <2>3, <2>4, <2>5, LastAnswer
<1>11. CASE RefreshFails(c)
  BY <1>4, <1>11 DEF RefreshFails
<1> QED
  BY <1>6, <1>7, <1>8, <1>9, <1>10, <1>11 DEF Return

\* What makes the card sound keeps it so.
LEMMA SoundStep == CardInvariant /\ SoundInvariant /\ [HNext]_hvars => SoundInvariant'
<1> SUFFICES ASSUME CardInvariant, SoundInvariant, [HNext]_hvars PROVE SoundInvariant'
  OBVIOUS
<1>1. SUFFICES ASSUME sound' PROVE SoundInvariant'
  BY DEF SoundInvariant
<1>2. ASSUME NEW c \in Calls, Serve(c), ObserveServe(c) PROVE SoundInvariant'
  BY <1>1, <1>2, ServerSound
<1>3. ASSUME NEW c \in Calls, Return(c), ObserveReturn(c) PROVE SoundInvariant'
  BY <1>1, <1>3, ReturnSound
<1>4. CASE User /\ ObserveUser
  <2>1. sound /\ ~PairLeftOpen /\ ~Overlap /\ \A c \in Sent : Alone(c)
    BY <1>1, <1>4 DEF ObserveUser
  <2>2. CASE Quiet
    <3>1. card # None
      BY <1>4 DEF User, MoveFocus, Type, Enter, PickDay, SelectProject, ConfirmDelete, Focused
    <3>2. AtRest
      BY <2>1, <2>2, <3>1 DEF SoundInvariant, CardInvariant, AtRest
    <3> QED
      BY <1>4, <2>1, <3>2, UserAtRest
  <2>3. CASE ~Quiet
    BY <1>4, <2>1, <2>3, UserWhileBusy
  <2> QED
    BY <2>2, <2>3
<1>5. CASE Reload /\ ObserveReload
  <2>1. PICK c \in Calls : calls[c].pc = "idle" /\ Refresh(c)
    BY <1>5 DEF Reload
  <2>2. c \in Sent
    BY <2>1, RefreshSends
  <2>3. Alone(c)
    BY <1>1, <1>5, <2>2 DEF ObserveReload
  <2> QED
    BY <2>1, <2>3, RefreshSound
<1>6. CASE UNCHANGED hvars
  BY <1>6 DEF hvars, SoundInvariant, Quiet, Busy, InFlight, Waits, Shows
<1> QED
  BY <1>1, <1>2, <1>3, <1>4, <1>5, <1>6 DEF HNext

\* What the user sees is what Solidtime has, once nothing is under way: for any entry,
\* whatever was typed, committed, taken back and deleted one after the other, and again
\* after any reload that was alone.
THEOREM ShowsHolds == HSpec => []CardShowsEntry
<1>1. HInit => SoundInvariant
  <2> SUFFICES ASSUME HInit PROVE SoundInvariant
    OBVIOUS
  <2>1. /\ entry \in Entries /\ listed = entry /\ loading = FALSE /\ card = CardOf(entry)
        /\ \A c \in Calls : ~Busy(c)
    BY DEF HInit, Init, Idle, Busy
  <2>2. entry # None /\ card # None
    BY <2>1, NewCard, NoneIsNothing
  <2>3. card = [saved |-> entry, fields |-> Fields(entry), saving |-> FALSE, focus |-> "none", atFocus |-> None]
    BY <2>1, <2>2 DEF CardOf
  <2>4. Shows(card, entry)
    BY <2>3, StopsWaiting
  <2> QED
    BY <2>1, <2>2, <2>4 DEF SoundInvariant
<1>2. CardInvariant /\ SoundInvariant => CardShowsEntry
  <2> SUFFICES ASSUME CardInvariant, SoundInvariant, Quiet, sound PROVE CardShowsEntry
    BY DEF CardShowsEntry
  <2>1. /\ listed = entry /\ ~loading /\ (entry = None => card = None)
        /\ entry # None => card # None /\ Shows(card, entry)
    BY DEF SoundInvariant
  <2>2. entry # None /\ card.focus = "none" => card.fields = Fields(entry)
    <3>1. entry # None => card.fields \in CardFields /\ Fields(entry) \in CardFields
      BY <2>1, CardParts, FieldsOfEntry DEF CardInvariant
    <3> QED
      BY <2>1, <3>1, FieldsHold, SameFields DEF Shows
  <2> QED
    BY <2>1, <2>2 DEF CardShowsEntry, Shows
<1> QED
  BY <1>1, <1>2, SoundStep, CardInvariantHolds, PTL DEF HSpec
====
