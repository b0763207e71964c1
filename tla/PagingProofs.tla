---- MODULE PagingProofs ----
(***************************************************************************)
(* Proofs about Paging for lists, pages and ceilings of any size.          *)
(***************************************************************************)
EXTENDS Paging, TLAPS, SequenceTheorems, FiniteSetTheorems

----------------------------------------------------------------------------
(* Sequences given by a function, and the pages. *)

LEMMA FunctionIsSeq ==
    ASSUME NEW S, NEW n \in Nat, NEW f \in [1..n -> S]
    PROVE  f \in Seq(S) /\ Len(f) = n
<1>1. f \in Seq(S)
  BY SeqDef
<1>2. 1..Len(f) = 1..n /\ Len(f) \in Nat
  BY <1>1, LenProperties
<1> QED
  BY <1>1, <1>2

\* The pages follow one another without a gap.
LEMMA NextOffset ==
    ASSUME NEW p \in Nat
    PROVE  /\ p * PageSize \in Nat
           /\ (p + 1) * PageSize = p * PageSize + PageSize
  BY PagingAssumption DEF PagingAssumption

\* A load within its number of pages is within its ceiling.
LEMMA WithinCeiling ==
    ASSUME NEW p \in Nat, NEW m \in Nat, p <= m
    PROVE  p * PageSize <= m * PageSize
<1>1. PICK d \in Nat : m = p + d
  BY m - p \in Nat
<1>2. m * PageSize = p * PageSize + d * PageSize
  BY <1>1, PagingAssumption DEF PagingAssumption
<1>3. d * PageSize \in Nat /\ p * PageSize \in Nat
  BY PagingAssumption DEF PagingAssumption
<1> QED
  BY <1>2, <1>3

\* What a page holds.
LEMMA BatchIs ==
    ASSUME TypeOK
    PROVE  /\ Offset \in Nat
           /\ Batch \in Seq(Items)
           /\ Len(Batch) = IF Offset + PageSize <= Len(list) THEN PageSize
                           ELSE IF Offset <= Len(list) THEN Len(list) - Offset ELSE 0
           /\ \A i \in 1..Len(Batch) : Offset + i \in Positions(list) /\ Batch[i] = list[Offset + i]
<1> DEFINE n == IF Offset + PageSize <= Len(list) THEN PageSize
                ELSE IF Offset <= Len(list) THEN Len(list) - Offset ELSE 0
<1>1. page \in Nat /\ Len(list) \in Nat /\ PageSize \in Nat
  BY PagingAssumption DEF TypeOK, PagingAssumption
<1>2. Offset \in Nat
  BY <1>1, NextOffset DEF Offset
<1>3. n \in Nat /\ n <= PageSize /\ (n > 0 => Offset + n <= Len(list))
  BY <1>1, <1>2
<1> HIDE DEF n
<1>4. \A i \in 1..n : Offset + i \in 1..Len(list) /\ list[Offset + i] \in Items
  BY <1>1, <1>2, <1>3 DEF TypeOK
<1>5. Batch = [i \in 1..n |-> list[Offset + i]]
  BY DEF Batch, n
<1>6. Batch \in [1..n -> Items]
  BY <1>4, <1>5
<1>7. Batch \in Seq(Items) /\ Len(Batch) = n
  BY <1>3, <1>6, FunctionIsSeq
<1>8. \A i \in 1..Len(Batch) : Offset + i \in Positions(list) /\ Batch[i] = list[Offset + i]
  BY <1>4, <1>5, <1>7 DEF Positions
<1> QED
  BY <1>2, <1>7, <1>8 DEF n

----------------------------------------------------------------------------
(* What the changes of a list leave of it. *)

LEMMA InsertIs ==
    ASSUME NEW s \in Seq(Items), NEW i \in 1..(Len(s) + 1), NEW x \in Items
    PROVE  /\ InsertAt(s, i, x) \in Seq(Items)
           /\ Len(InsertAt(s, i, x)) = Len(s) + 1
           /\ \A k \in 1..(Len(s) + 1) :
                 InsertAt(s, i, x)[k] = IF k < i THEN s[k] ELSE IF k = i THEN x ELSE s[k - 1]
<1>1. Len(s) \in Nat /\ \A k \in 1..Len(s) : s[k] \in Items
  OBVIOUS
<1>2. \A k \in 1..(Len(s) + 1) : /\ k < i => k \in 1..Len(s)
                                 /\ ~(k < i) /\ k # i => k - 1 \in 1..Len(s)
  BY <1>1
<1>3. InsertAt(s, i, x) \in [1..(Len(s) + 1) -> Items]
  BY <1>1, <1>2 DEF InsertAt
<1>4. Len(s) + 1 \in Nat
  BY <1>1
<1> QED
  BY <1>3, <1>4, FunctionIsSeq DEF InsertAt

LEMMA RemoveIs ==
    ASSUME NEW s \in Seq(Items), NEW i \in Positions(s)
    PROVE  /\ RemoveAt(s, i) \in Seq(Items)
           /\ Len(RemoveAt(s, i)) = Len(s) - 1
           /\ \A k \in 1..(Len(s) - 1) : RemoveAt(s, i)[k] = IF k < i THEN s[k] ELSE s[k + 1]
<1>1. Len(s) \in Nat /\ Len(s) - 1 \in Nat /\ \A k \in 1..Len(s) : s[k] \in Items
  BY DEF Positions
<1>2. \A k \in 1..(Len(s) - 1) : k \in 1..Len(s) /\ k + 1 \in 1..Len(s)
  BY <1>1
<1>3. RemoveAt(s, i) \in [1..(Len(s) - 1) -> Items]
  BY <1>1, <1>2 DEF RemoveAt
<1> QED
  BY <1>1, <1>3, FunctionIsSeq DEF RemoveAt

\* An item that is new to a list keeps it without repetitions.
LEMMA InsertDistinct ==
    ASSUME NEW s \in Seq(Items), Distinct(s),
           NEW i \in 1..(Len(s) + 1), NEW x \in Items \ Contents(s)
    PROVE  Distinct(InsertAt(s, i, x))
<1> DEFINE t == InsertAt(s, i, x)
<1>1. Len(s) \in Nat /\ Len(t) = Len(s) + 1
  BY InsertIs
<1>2. \A k \in Positions(s) : s[k] # x
  BY DEF Contents
<1>3. \A k \in Positions(t) :
        /\ k < i => k \in Positions(s) /\ t[k] = s[k]
        /\ k = i => t[k] = x
        /\ k > i => k - 1 \in Positions(s) /\ t[k] = s[k - 1]
  <2>1. x \in Items /\ i \in 1..(Len(s) + 1)
    OBVIOUS
  <2>2. \A k \in 1..(Len(s) + 1) : t[k] = IF k < i THEN s[k] ELSE IF k = i THEN x ELSE s[k - 1]
    BY <2>1, InsertIs
  <2>3. Positions(t) = 1..(Len(s) + 1) /\ Positions(s) = 1..Len(s)
    BY <1>1 DEF Positions
  <2> HIDE DEF t
  <2> QED
    BY <1>1, <2>1, <2>2, <2>3
<1> HIDE DEF t
<1> SUFFICES ASSUME NEW k \in Positions(t), NEW l \in Positions(t), t[k] = t[l]
             PROVE  k = l
  BY DEF Distinct, t
<1>4. k \in Nat /\ l \in Nat /\ i \in Nat
  BY <1>1 DEF Positions
<1>5. CASE k = i \/ l = i
  BY <1>2, <1>3, <1>4, <1>5
<1>6. CASE k < i /\ l < i
  BY <1>3, <1>6 DEF Distinct
<1>7. CASE k > i /\ l > i
  <2>1. k - 1 = l - 1
    BY <1>3, <1>7 DEF Distinct
  <2> QED
    BY <2>1, <1>4
<1>8. CASE k < i /\ l > i
  <2>1. k = l - 1
    BY <1>3, <1>8 DEF Distinct
  <2> QED
    BY <2>1, <1>8, <1>4
<1>9. CASE k > i /\ l < i
  <2>1. k - 1 = l
    BY <1>3, <1>9 DEF Distinct
  <2> QED
    BY <2>1, <1>9, <1>4
<1> QED
  BY <1>4, <1>5, <1>6, <1>7, <1>8, <1>9

\* What is removed is gone, and what is left stands as far from the end as before.
LEMMA RemoveDistinct ==
    ASSUME NEW s \in Seq(Items), Distinct(s), NEW i \in Positions(s)
    PROVE  /\ Distinct(RemoveAt(s, i))
           /\ s[i] \notin Contents(RemoveAt(s, i))
           /\ \A k \in Positions(RemoveAt(s, i)) :
                 \E l \in Positions(s) : l >= k /\ RemoveAt(s, i)[k] = s[l]
<1> DEFINE t == RemoveAt(s, i)
<1>1. Len(s) \in Nat /\ Len(t) = Len(s) - 1 /\ i \in 1..Len(s)
  BY RemoveIs DEF Positions
<1>2. \A k \in Positions(t) :
        /\ k < i => k \in Positions(s) /\ t[k] = s[k]
        /\ k >= i => k + 1 \in Positions(s) /\ t[k] = s[k + 1]
  BY <1>1, RemoveIs DEF Positions
<1>3. \A k \in Positions(t) : k \in Nat
  BY DEF Positions
<1> HIDE DEF t
<1>4. ASSUME NEW k \in Positions(t), NEW l \in Positions(t), t[k] = t[l]
      PROVE  k = l
  <2>1. CASE k < i /\ l < i
    BY <1>2, <1>4, <2>1 DEF Distinct
  <2>2. CASE k >= i /\ l >= i
    <3>1. k + 1 = l + 1
      BY <1>2, <1>4, <2>2 DEF Distinct
    <3> QED
      BY <3>1, <1>3
  <2>3. CASE k < i /\ l >= i
    <3>1. k = l + 1
      BY <1>2, <1>4, <2>3 DEF Distinct
    <3> QED
      BY <3>1, <2>3, <1>1, <1>3
  <2>4. CASE k >= i /\ l < i
    <3>1. k + 1 = l
      BY <1>2, <1>4, <2>4 DEF Distinct
    <3> QED
      BY <3>1, <2>4, <1>1, <1>3
  <2> QED
    BY <2>1, <2>2, <2>3, <2>4, <1>1, <1>3
<1>5. ASSUME NEW k \in Positions(t), t[k] = s[i]
      PROVE  FALSE
  <2>1. CASE k < i
    <3>1. k = i
      BY <1>2, <1>5, <2>1 DEF Distinct
    <3> QED
      BY <3>1, <2>1, <1>1, <1>3
  <2>2. CASE k >= i
    <3>1. k + 1 = i
      BY <1>2, <1>5, <2>2 DEF Distinct
    <3> QED
      BY <3>1, <2>2, <1>1, <1>3
  <2> QED
    BY <2>1, <2>2, <1>1, <1>3
<1>6. ASSUME NEW k \in Positions(t)
      PROVE  \E l \in Positions(s) : l >= k /\ t[k] = s[l]
  <2>1. CASE k < i
    BY <1>2, <1>3, <2>1
  <2>2. CASE k >= i
    <3>1. k + 1 >= k
      BY <1>3
    <3> QED
      BY <1>2, <2>2, <3>1
  <2> QED
    BY <2>1, <2>2, <1>1, <1>3
<1> QED
  BY <1>4, <1>5, <1>6 DEF Distinct, Contents, t

----------------------------------------------------------------------------
(* Types. *)

LEMMA InitTypes == Init => TypeOK
<1> SUFFICES ASSUME Init PROVE TypeOK
  OBVIOUS
<1>1. list \in Seq(Items)
  <2>1. PICK n \in 0..MaxLength : list \in [1..n -> Items]
    BY DEF Init
  <2>2. n \in Nat
    BY PagingAssumption DEF PagingAssumption
  <2> QED
    BY <2>1, <2>2, FunctionIsSeq
<1>2. before \subseteq Items
  BY <1>1 DEF Init, Contents, Positions
<1>3. 0 \in 0..MaxPages[loop]
  <2>1. MaxPages[loop] \in Nat
    BY PagingAssumption DEF Init, PagingAssumption
  <2> QED
    BY <2>1
<1>4. page \in 0..MaxPages[loop]
  BY <1>3 DEF Init
<1>5. all \in Seq(Items) /\ changes \in Nat
  BY DEF Init
<1>6. /\ loop \in Loops
      /\ pc \in {"loading", "done", "failed"}
      /\ added \in BOOLEAN /\ removed \in BOOLEAN
  BY DEF Init
<1> QED
  BY <1>1, <1>2, <1>4, <1>5, <1>6 DEF TypeOK

\* A step of the load reads one page of the list, which is within the ceiling if the
\* load was not over.
LEMMA NextPageTypes ==
    ASSUME TypeOK, LoadInvariant, NextPage
    PROVE  TypeOK'
<1>1. all' \in Seq(Items)
  BY BatchIs, ConcatProperties DEF NextPage, TypeOK
<1>2. page' \in 0..MaxPages[loop]
  BY PagingAssumption DEF NextPage, TypeOK, LoadInvariant, PagingAssumption
<1>3. pc' \in {"loading", "done", "failed"}
  BY DEF NextPage
<1> QED
  BY <1>1, <1>2, <1>3 DEF NextPage, TypeOK

LEMMA ChangeTypes ==
    ASSUME TypeOK, Add \/ Remove \/ Move
    PROVE  TypeOK'
<1>1. list' \in Seq(Items)
  <2>1. CASE Add
    BY <2>1, InsertIs DEF Add, TypeOK
  <2>2. CASE Remove
    BY <2>2, RemoveIs DEF Remove, TypeOK
  <2>3. CASE Move
    <3>1. PICK i \in Positions(list), j \in Positions(list) :
            list' = InsertAt(RemoveAt(list, i), j, list[i])
      BY <2>3 DEF Move
    <3>2. RemoveAt(list, i) \in Seq(Items) /\ j \in 1..(Len(RemoveAt(list, i)) + 1)
      BY RemoveIs DEF TypeOK, Positions
    <3>3. list[i] \in Items
      BY DEF TypeOK, Positions
    <3> QED
      BY <3>1, <3>2, <3>3, InsertIs
  <2> QED
    BY <2>1, <2>2, <2>3
<1>2. /\ changes' = changes + 1
      /\ added' \in BOOLEAN /\ removed' \in BOOLEAN
      /\ UNCHANGED <<loop, pc, page, all, before>>
  BY DEF Add, Remove, Move, Change, TypeOK
<1> QED
  BY <1>1, <1>2 DEF TypeOK

----------------------------------------------------------------------------
(* The invariant: one lemma for every part of it that a step can disturb. *)

\* A list holds no more items than it has positions.
LEMMA ContentsFinite ==
    ASSUME NEW s \in Seq(Items)
    PROVE  IsFiniteSet(Contents(s))
<1>1. s \in [Positions(s) -> Contents(s)]
  <2>1. s \in [1..Len(s) -> Items]
    OBVIOUS
  <2> QED
    BY <2>1 DEF Positions, Contents
<1>2. s \in Surjection(Positions(s), Contents(s))
  BY <1>1 DEF Surjection, Contents
<1>3. IsFiniteSet(Positions(s))
  BY FS_Interval DEF Positions
<1> QED
  BY <1>2, <1>3, FS_Surjection

\* A change of the list makes the load miss one item more at most, the item z, if it
\* brings no other one into the list and moves no other one off the pages to come.
LEMMA OneMoreMissed ==
    ASSUME TypeOK, FewMissed, NEW z,
           before' = before, all' = all, changes' = changes + 1,
           \A x \in Contents(list)' : x = z \/ x \in Contents(list),
           \A i \in Ahead : \/ list[i] = z
                           \/ list[i] \notin Contents(list)'
                           \/ \E j \in Ahead' : list'[j] = list[i]
    PROVE  FewMissed'
<1>1. Contents(all)' = Contents(all)
  BY DEF Contents, Positions
<1>2. Missed' \subseteq Missed \cup {z}
  <2> SUFFICES ASSUME NEW x \in Missed', x # z PROVE x \in Missed
    OBVIOUS
  <2>1. x \in before /\ x \in Contents(list) /\ x \notin Contents(all)
    BY <1>1 DEF Missed
  <2>2. x \in Contents(list)' /\ \A j \in Ahead' : list'[j] # x
    BY DEF Missed
  <2>3. \A i \in Ahead : list[i] # x
    BY <2>2
  <2> QED
    BY <2>1, <2>3 DEF Missed
<1>3. /\ IsFiniteSet(Missed \cup {z})
      /\ Cardinality(Missed \cup {z}) \in {Cardinality(Missed), Cardinality(Missed) + 1}
  BY FS_AddElement DEF FewMissed
<1>4. IsFiniteSet(Missed') /\ Cardinality(Missed') <= Cardinality(Missed \cup {z})
  BY <1>2, <1>3, FS_Subset
<1>5. /\ Cardinality(Missed) \in Nat /\ Cardinality(Missed') \in Nat /\ changes \in Nat
      /\ Cardinality(Missed) <= changes
  BY <1>4, FS_CardinalityType DEF TypeOK, FewMissed
<1> QED
  BY <1>3, <1>4, <1>5 DEF FewMissed

LEMMA InitInvariant == Init => LoadInvariant
<1> SUFFICES ASSUME Init PROVE LoadInvariant
  OBVIOUS
<1>1. TypeOK
  BY InitTypes
<1>2. Offset = 0 /\ Len(list) \in Nat
  BY <1>1, PagingAssumption DEF Init, Offset, PagingAssumption, TypeOK
<1>3. Len(all) = 0 /\ Positions(all) = {}
  BY DEF Init, Positions
<1>4. ReadSoFar
  BY <1>2, <1>3 DEF ReadSoFar
<1>5. Ahead = Positions(list)
  BY <1>2 DEF Ahead, Positions
<1>6. KeptOrAhead
  BY <1>5 DEF KeptOrAhead, Init, Contents
<1>7. NotAgain
  BY <1>3 DEF NotAgain, Distinct
<1>9. FewMissed
  <2>1. Missed = {}
    BY <1>5 DEF Missed, Contents
  <2> QED
    BY <2>1, FS_EmptySet DEF FewMissed, Init
<1>8. page < MaxPages[loop]
  <2>1. page = 0 /\ loop \in Loops
    BY DEF Init
  <2>2. MaxPages[loop] \in Nat \ {0}
    BY <2>1, PagingAssumption DEF PagingAssumption
  <2> QED
    BY <2>1, <2>2
<1> QED
  BY <1>4, <1>6, <1>7, <1>8, <1>9 DEF LoadInvariant, Init

LEMMA NextPageInvariant ==
    ASSUME TypeOK, LoadInvariant, NextPage
    PROVE  LoadInvariant'
<1>1. /\ Offset \in Nat /\ Offset' = Offset + PageSize /\ PageSize \in Nat \ {0}
      /\ list' = list /\ Len(list) \in Nat /\ all' = all \o Batch /\ Len(all) \in Nat
      /\ pc = "loading"
  BY NextOffset, PagingAssumption DEF NextPage, Offset, TypeOK, PagingAssumption
<1>2. /\ Len(all') = Len(all) + Len(Batch)
      /\ \A i \in Positions(all) : i \in Positions(all') /\ all'[i] = all[i]
      /\ \A k \in Positions(Batch) : Len(all) + k \in Positions(all') /\ all'[Len(all) + k] = Batch[k]
      /\ \A i \in Positions(all') : \/ i \in Positions(all)
                                    \/ i > Len(all) /\ i - Len(all) \in Positions(Batch)
  BY <1>1, BatchIs, ConcatProperties DEF TypeOK, Positions
<1>3. \A k \in Positions(Batch) :
        /\ Offset + k \in Ahead /\ Offset + k \notin Ahead' /\ Batch[k] = list[Offset + k]
  BY <1>1, BatchIs DEF Positions, Ahead
<1>4. Ahead' \subseteq Ahead
  BY <1>1 DEF Ahead, Positions
<1>5. \A i \in Ahead \ Ahead' : i - Offset \in Positions(Batch)
  BY <1>1, BatchIs DEF Ahead, Positions
<1>6. Distinct(list)
  BY DEF LoadInvariant
<1>7. ReadSoFar'
  <2> SUFFICES ASSUME ~added, ~removed
               PROVE  /\ Len(all') = IF Offset' <= Len(list) THEN Offset' ELSE Len(list)
                      /\ \A i \in Positions(all') : all'[i] = list[i]
    BY <1>1 DEF ReadSoFar, NextPage
  <2>1. /\ Len(all) = IF Offset <= Len(list) THEN Offset ELSE Len(list)
        /\ \A i \in Positions(all) : all[i] = list[i]
    BY <1>1 DEF LoadInvariant, ReadSoFar
  <2>2. Len(all') = IF Offset' <= Len(list) THEN Offset' ELSE Len(list)
    BY <1>1, <1>2, <2>1, BatchIs
  <2>3. ASSUME NEW i \in Positions(all'), i \notin Positions(all)
        PROVE  all'[i] = list[i]
    <3>1. i > Len(all) /\ i - Len(all) \in Positions(Batch) /\ i \in Nat
      BY <1>2, <2>3 DEF Positions
    <3>2. Len(all) = Offset
      BY <1>1, <2>1, <3>1, BatchIs DEF Positions
    <3> DEFINE k == i - Len(all)
    <3>3. all'[Len(all) + k] = Batch[k] /\ Batch[k] = list[Offset + k]
      BY <1>2, <1>3, <3>1
    <3>4. Len(all) + k = i /\ Offset + k = i
      BY <1>1, <3>1, <3>2
    <3> QED
      BY <3>3, <3>4
  <2> QED
    BY <1>2, <2>1, <2>2, <2>3
<1>8. KeptOrAhead'
  <2> SUFFICES ASSUME ~removed, NEW x \in before
               PROVE  x \in Contents(all') \/ \E i \in Ahead' : list[i] = x
    BY <1>1 DEF KeptOrAhead, NextPage
  <2>1. CASE x \in Contents(all)
    BY <1>2, <2>1 DEF Contents
  <2>2. CASE \E i \in Ahead : list[i] = x
    <3>1. PICK i \in Ahead : list[i] = x
      BY <2>2
    <3>2. CASE i \in Ahead'
      BY <3>1, <3>2
    <3>3. CASE i \notin Ahead'
      <4>1. i - Offset \in Positions(Batch) /\ Offset + (i - Offset) = i
        BY <1>1, <1>5, <3>3 DEF Ahead, Positions
      <4> QED
        BY <1>2, <1>3, <3>1, <4>1 DEF Contents
    <3> QED
      BY <3>2, <3>3
  <2> QED
    BY <1>1, <2>1, <2>2 DEF LoadInvariant, KeptOrAhead
<1>12. FewMissed'
  <2>1. Missed' \subseteq Missed
    <3> SUFFICES ASSUME NEW x \in Missed' PROVE x \in Missed
      OBVIOUS
    <3>1. x \in before /\ x \in Contents(list)
      BY <1>1 DEF Missed, NextPage, Contents, Positions
    <3>2. x \notin Contents(all') /\ \A i \in Ahead' : list[i] # x
      BY <1>1 DEF Missed, Contents, Positions
    <3>3. x \notin Contents(all)
      BY <1>2, <3>2 DEF Contents
    <3>4. ASSUME NEW i \in Ahead, list[i] = x PROVE FALSE
      <4>1. i \notin Ahead'
        BY <3>2, <3>4
      <4>2. i - Offset \in Positions(Batch) /\ Offset + (i - Offset) = i
        BY <1>1, <1>5, <4>1 DEF Ahead, Positions
      <4> QED
        BY <1>2, <1>3, <3>2, <3>4, <4>2 DEF Contents
    <3> QED
      BY <3>1, <3>3, <3>4 DEF Missed
  <2>2. IsFiniteSet(Missed) /\ Cardinality(Missed) <= changes
    BY <1>1 DEF LoadInvariant, FewMissed
  <2>3. IsFiniteSet(Missed') /\ Cardinality(Missed') <= Cardinality(Missed)
    BY <2>1, <2>2, FS_Subset
  <2>4. Cardinality(Missed) \in Nat /\ Cardinality(Missed') \in Nat /\ changes \in Nat
    BY <2>2, <2>3, FS_CardinalityType DEF TypeOK
  <2> QED
    BY <2>2, <2>3, <2>4 DEF FewMissed, NextPage
<1>9. NotAgain'
  <2> SUFFICES ASSUME ~added
               PROVE  /\ Distinct(all')
                      /\ \A i \in Positions(all'), j \in Ahead' : all'[i] # list[j]
    BY <1>1 DEF NotAgain, NextPage
  <2>1. Distinct(all) /\ \A i \in Positions(all), j \in Ahead : all[i] # list[j]
    BY <1>1 DEF LoadInvariant, NotAgain
  <2>2. \A k \in Positions(Batch), j \in Ahead' : Batch[k] # list[j]
    BY <1>3, <1>4, <1>6 DEF Distinct, Ahead
  <2>3. \A k, l \in Positions(Batch) : Batch[k] = Batch[l] => k = l
    <3> SUFFICES ASSUME NEW k \in Positions(Batch), NEW l \in Positions(Batch), Batch[k] = Batch[l]
                 PROVE  k = l
      OBVIOUS
    <3>1. Offset + k = Offset + l
      BY <1>3, <1>6 DEF Distinct, Ahead
    <3> QED
      BY <1>1, <3>1 DEF Positions
  <2>4. \A i \in Positions(all), k \in Positions(Batch) : all[i] # Batch[k]
    BY <1>3, <2>1
  <2>5. ASSUME NEW i \in Positions(all'), NEW j \in Ahead'
        PROVE  all'[i] # list[j]
    <3>1. CASE i \in Positions(all)
      BY <1>2, <1>4, <2>1, <3>1
    <3>2. CASE i \notin Positions(all)
      <4>1. i - Len(all) \in Positions(Batch) /\ Len(all) + (i - Len(all)) = i
        BY <1>1, <1>2, <3>2 DEF Positions
      <4> QED
        BY <1>2, <2>2, <4>1
    <3> QED
      BY <3>1, <3>2
  <2>6. ASSUME NEW i \in Positions(all'), NEW j \in Positions(all'), all'[i] = all'[j]
        PROVE  i = j
    <3> DEFINE InBatch(k) == k - Len(all) \in Positions(Batch) /\ Len(all) + (k - Len(all)) = k
    <3>1. \A k \in Positions(all') : k \in Positions(all) \/ InBatch(k)
      BY <1>1, <1>2 DEF Positions
    <3>2. CASE i \in Positions(all) /\ j \in Positions(all)
      BY <1>2, <2>1, <2>6, <3>2 DEF Distinct
    <3>3. CASE i \in Positions(all) /\ InBatch(j)
      <4>1. all'[i] = all[i] /\ all'[j] = Batch[j - Len(all)]
        BY <1>2, <3>3
      <4> QED
        BY <2>4, <2>6, <3>3, <4>1
    <3>4. CASE InBatch(i) /\ j \in Positions(all)
      <4>1. all'[j] = all[j] /\ all'[i] = Batch[i - Len(all)]
        BY <1>2, <3>4
      <4> QED
        BY <2>4, <2>6, <3>4, <4>1
    <3>5. CASE InBatch(i) /\ InBatch(j)
      <4>1. all'[i] = Batch[i - Len(all)] /\ all'[j] = Batch[j - Len(all)]
        BY <1>2, <3>5
      <4>2. i - Len(all) = j - Len(all)
        BY <2>3, <2>6, <3>5, <4>1
      <4> QED
        BY <1>1, <4>2 DEF Positions
    <3> QED
      BY <3>1, <3>2, <3>3, <3>4, <3>5
  <2> QED
    BY <2>5, <2>6 DEF Distinct
<1>10. pc' = "done" => Ahead' = {} \/ page' = MaxPages[loop]
  <2> SUFFICES ASSUME LastBatch(Batch) PROVE Ahead' = {}
    BY DEF NextPage
  <2>1. Offset' >= Len(list)
    BY <1>1, BatchIs DEF LastBatch
  <2> QED
    BY <1>1, <2>1 DEF Ahead, Positions
<1>11. pc' = "loading" => page' < MaxPages[loop]
  BY PagingAssumption DEF NextPage, TypeOK, LoadInvariant, PagingAssumption
<1> QED
  BY <1>1, <1>6, <1>7, <1>8, <1>9, <1>10, <1>11, <1>12 DEF LoadInvariant, NextPage

\* An addition moves what lies ahead of the load further ahead.
LEMMA AddInvariant ==
    ASSUME TypeOK, LoadInvariant, Add
    PROVE  LoadInvariant'
<1>1. PICK x \in Items \ Contents(list), p \in 1..(Len(list) + 1) : list' = InsertAt(list, p, x)
  BY DEF Add
<1>2. /\ pc = "loading" /\ pc' = pc /\ page' = page /\ all' = all /\ loop' = loop
      /\ before' = before /\ added' /\ removed' = removed
  BY DEF Add, Change
<1>3. Offset \in Nat /\ Offset' = Offset /\ list \in Seq(Items) /\ Len(list) \in Nat
  BY <1>2, BatchIs DEF Offset, TypeOK
<1>4. Distinct(list')
  BY <1>1, <1>3, InsertDistinct DEF LoadInvariant
<1>5. ReadSoFar' /\ NotAgain'
  BY <1>2 DEF ReadSoFar, NotAgain
<1>6. \A i \in Ahead : \E j \in Ahead' : list'[j] = list[i]
  <2> SUFFICES ASSUME NEW i \in Ahead PROVE \E j \in Ahead' : list'[j] = list[i]
    OBVIOUS
  <2>1. /\ Len(list') = Len(list) + 1
        /\ \A k \in 1..(Len(list) + 1) :
              list'[k] = IF k < p THEN list[k] ELSE IF k = p THEN x ELSE list[k - 1]
    BY <1>1, <1>3, InsertIs
  <2>2. i \in Nat /\ i > Offset /\ i \in 1..Len(list) /\ i + 1 \in 1..(Len(list) + 1)
    BY <1>3 DEF Ahead, Positions
  <2>3. i \in Ahead' /\ i + 1 \in Ahead'
    BY <1>3, <2>1, <2>2 DEF Ahead, Positions
  <2>4. CASE i < p
    BY <2>1, <2>2, <2>3, <2>4
  <2>5. CASE i >= p
    <3>1. list'[i + 1] = list[i]
      BY <2>1, <2>2, <2>5
    <3> QED
      BY <2>3, <3>1
  <2> QED
    BY <2>2, <2>4, <2>5
<1>7. KeptOrAhead'
  <2>1. KeptOrAhead
    BY <1>2 DEF LoadInvariant
  <2>2. Contents(all)' = Contents(all)
    BY <1>2 DEF Contents, Positions
  <2> SUFFICES ASSUME ~removed, NEW y \in before
               PROVE  y \in Contents(all) \/ \E j \in Ahead' : list'[j] = y
    BY <1>2, <2>2 DEF KeptOrAhead
  <2> QED
    BY <1>6, <2>1 DEF KeptOrAhead
<1>8. FewMissed'
  <2>1. FewMissed /\ changes' = changes + 1
    BY <1>2 DEF LoadInvariant, Add, Change
  <2>2. \A y \in Contents(list)' : y = x \/ y \in Contents(list)
    <3> SUFFICES ASSUME NEW k \in Positions(list'), list'[k] # x
                 PROVE  list'[k] \in Contents(list)
      BY DEF Contents
    <3>1. /\ Len(list') = Len(list) + 1 /\ k \in 1..(Len(list) + 1)
          /\ list'[k] = IF k < p THEN list[k] ELSE IF k = p THEN x ELSE list[k - 1]
      BY <1>1, <1>3, InsertIs DEF Positions
    <3>2. CASE k < p
      BY <1>3, <3>1, <3>2 DEF Contents, Positions
    <3>3. CASE k > p
      <4>1. k - 1 \in Positions(list) /\ list'[k] = list[k - 1]
        BY <1>3, <3>1, <3>3 DEF Positions
      <4> QED
        BY <4>1 DEF Contents
    <3> QED
      BY <3>1, <3>2, <3>3
  <2> QED
    BY <1>2, <1>6, <2>1, <2>2, OneMoreMissed
<1> QED
  BY <1>2, <1>4, <1>5, <1>7, <1>8 DEF LoadInvariant

\* A removal brings nothing ahead of the load that was not ahead of it already.
LEMMA RemoveInvariant ==
    ASSUME TypeOK, LoadInvariant, Remove
    PROVE  LoadInvariant'
<1>1. PICK p \in Positions(list) : list' = RemoveAt(list, p)
  BY DEF Remove
<1>2. /\ pc = "loading" /\ pc' = pc /\ page' = page /\ all' = all /\ loop' = loop
      /\ removed' /\ added' = added
  BY DEF Remove, Change
<1>3. Offset \in Nat /\ Offset' = Offset /\ list \in Seq(Items) /\ Distinct(list)
  BY <1>2, BatchIs DEF Offset, TypeOK, LoadInvariant
<1>4. /\ Distinct(list')
      /\ \A k \in Positions(list') : \E l \in Positions(list) : l >= k /\ list'[k] = list[l]
  BY <1>1, <1>3, RemoveDistinct
<1>5. ReadSoFar' /\ KeptOrAhead'
  BY <1>2 DEF ReadSoFar, KeptOrAhead
<1>6. NotAgain'
  <2> SUFFICES ASSUME ~added
               PROVE  /\ Distinct(all)
                      /\ \A i \in Positions(all), j \in Ahead' : all[i] # list'[j]
    BY <1>2 DEF NotAgain, Distinct, Positions
  <2>1. Distinct(all) /\ \A i \in Positions(all), j \in Ahead : all[i] # list[j]
    BY <1>2 DEF LoadInvariant, NotAgain
  <2>2. \A j \in Ahead' : \E l \in Ahead : list'[j] = list[l]
    <3> SUFFICES ASSUME NEW j \in Ahead' PROVE \E l \in Ahead : list'[j] = list[l]
      OBVIOUS
    <3>1. j \in Positions(list') /\ j > Offset /\ j \in Nat
      BY <1>3 DEF Ahead, Positions
    <3>2. PICK l \in Positions(list) : l >= j /\ list'[j] = list[l]
      BY <1>4, <3>1
    <3>3. l \in Ahead
      BY <1>3, <3>1, <3>2 DEF Ahead, Positions
    <3> QED
      BY <3>2, <3>3
  <2> QED
    BY <2>1, <2>2
<1>7. FewMissed'
  <2> DEFINE z == list[Offset + 1]
  <2>1. FewMissed /\ changes' = changes + 1 /\ before' = before
    BY <1>2 DEF LoadInvariant, Remove, Change
  <2>2. \A y \in Contents(list)' : y = z \/ y \in Contents(list)
    BY <1>4 DEF Contents
  <2>3. /\ Len(list) \in Nat /\ Len(list') = Len(list) - 1 /\ p \in 1..Len(list)
        /\ \A k \in 1..(Len(list) - 1) : list'[k] = IF k < p THEN list[k] ELSE list[k + 1]
    BY <1>1, <1>3, RemoveIs DEF Positions
  <2>4. ASSUME NEW i \in Ahead, i # p, i # Offset + 1
        PROVE  \E j \in Ahead' : list'[j] = list[i]
    <3>1. i \in 1..Len(list) /\ i > Offset + 1
      BY <1>3, <2>4 DEF Ahead, Positions
    <3>2. CASE i < p
      <4>1. i \in Ahead' /\ list'[i] = list[i]
        BY <1>3, <2>3, <3>1, <3>2 DEF Ahead, Positions
      <4> QED
        BY <4>1
    <3>3. CASE i > p
      <4>1. i - 1 \in Ahead' /\ list'[i - 1] = list[i]
        BY <1>3, <2>3, <3>1, <3>3 DEF Ahead, Positions
      <4> QED
        BY <4>1
    <3> QED
      BY <2>3, <2>4, <3>1, <3>2, <3>3
  <2>5. list[p] \notin Contents(list)'
    <3>1. list[p] \notin Contents(RemoveAt(list, p))
      BY <1>3, RemoveDistinct
    <3> QED
      BY <1>1, <3>1 DEF Contents, Positions
  <2> QED
    BY <1>2, <2>1, <2>2, <2>4, <2>5, OneMoreMissed
<1> QED
  BY <1>2, <1>4, <1>5, <1>6, <1>7 DEF LoadInvariant

LEMMA MoveInvariant ==
    ASSUME TypeOK, LoadInvariant, Move
    PROVE  LoadInvariant'
<1>1. PICK p \in Positions(list), q \in Positions(list) :
        list' = InsertAt(RemoveAt(list, p), q, list[p])
  BY DEF Move
<1>2. /\ pc = "loading" /\ pc' = pc /\ page' = page /\ all' = all /\ loop' = loop
      /\ added' /\ removed'
  BY DEF Move, Change
<1>3. list \in Seq(Items) /\ Distinct(list)
  BY DEF TypeOK, LoadInvariant
<1>4. Distinct(list')
  <2>1. RemoveAt(list, p) \in Seq(Items) /\ q \in 1..(Len(RemoveAt(list, p)) + 1)
    BY <1>3, RemoveIs DEF Positions
  <2>2. Distinct(RemoveAt(list, p)) /\ list[p] \in Items \ Contents(RemoveAt(list, p))
    BY <1>3, RemoveDistinct DEF Positions
  <2> QED
    BY <1>1, <2>1, <2>2, InsertDistinct
<1>5. Offset \in Nat /\ Offset' = Offset /\ Len(list) \in Nat
  BY <1>2, <1>3, BatchIs DEF Offset
<1>6. /\ Len(list') = Len(list) /\ p \in 1..Len(list) /\ q \in 1..Len(list)
      /\ \A k \in 1..Len(list) :
            list'[k] = IF k < q THEN IF k < p THEN list[k] ELSE list[k + 1]
                       ELSE IF k = q THEN list[p]
                       ELSE IF k - 1 < p THEN list[k - 1] ELSE list[k]
  <2> DEFINE s == RemoveAt(list, p)
  <2>1. /\ s \in Seq(Items) /\ Len(s) = Len(list) - 1
        /\ \A k \in 1..(Len(list) - 1) : s[k] = IF k < p THEN list[k] ELSE list[k + 1]
    BY <1>3, RemoveIs
  <2> HIDE DEF s
  <2>2. list[p] \in Items /\ q \in 1..(Len(s) + 1) /\ p \in 1..Len(list)
    BY <1>3, <1>5, <2>1 DEF Positions
  <2>3. /\ Len(list') = Len(s) + 1
        /\ \A k \in 1..(Len(s) + 1) :
              list'[k] = IF k < q THEN s[k] ELSE IF k = q THEN list[p] ELSE s[k - 1]
    <3>1. list' = InsertAt(s, q, list[p])
      BY <1>1 DEF s
    <3>2. /\ Len(InsertAt(s, q, list[p])) = Len(s) + 1
          /\ \A k \in 1..(Len(s) + 1) :
                InsertAt(s, q, list[p])[k] = IF k < q THEN s[k] ELSE IF k = q THEN list[p] ELSE s[k - 1]
      <4>1. s \in Seq(Items) /\ q \in 1..(Len(s) + 1) /\ list[p] \in Items
        BY <2>1, <2>2
      <4> QED
        BY ONLY <4>1, InsertIs
    <3> QED
      BY <3>1, <3>2
  <2>4. Len(s) + 1 = Len(list) /\ q \in 1..Len(list)
    BY <1>5, <2>1, <2>2
  <2>5. ASSUME NEW k \in 1..Len(list)
        PROVE  list'[k] = IF k < q THEN IF k < p THEN list[k] ELSE list[k + 1]
                          ELSE IF k = q THEN list[p]
                          ELSE IF k - 1 < p THEN list[k - 1] ELSE list[k]
    <3>1. CASE k < q
      <4>1. k \in 1..(Len(list) - 1)
        BY <1>5, <2>4, <3>1
      <4> QED
        BY <2>1, <2>3, <2>4, <3>1, <4>1
    <3>2. CASE k = q
      BY <2>3, <2>4, <3>2
    <3>3. CASE k > q
      <4>1. k - 1 \in 1..(Len(list) - 1) /\ (k - 1) + 1 = k
        BY <1>5, <2>4, <3>3
      <4>2. s[k - 1] = IF k - 1 < p THEN list[k - 1] ELSE list[k]
        BY <2>1, <4>1
      <4> QED
        BY <2>3, <2>4, <3>3, <4>2
    <3> QED
      BY <2>4, <3>1, <3>2, <3>3
  <2> QED
    BY <1>5, <2>2, <2>3, <2>4, <2>5
<1>7. FewMissed'
  <2> DEFINE z == IF p > Offset THEN list[p] ELSE list[Offset + 1]
  <2>1. FewMissed /\ changes' = changes + 1 /\ before' = before
    BY <1>2 DEF LoadInvariant, Move, Change
  <2>2. \A y \in Contents(list)' : y \in Contents(list)
    <3> SUFFICES ASSUME NEW y \in Contents(list)' PROVE y \in Contents(list)
      OBVIOUS
    <3>4. PICK k \in 1..Len(list) : y = list'[k]
      BY <1>6 DEF Contents, Positions
    <3>5. (\E l \in 1..Len(list) : list'[k] = list[l]) => y \in Contents(list)
      BY <3>4 DEF Contents, Positions
    <3>1. CASE k < q
      <4>1. k + 1 \in 1..Len(list)
        BY <1>5, <1>6, <3>1
      <4> QED
        BY <1>6, <3>1, <3>5, <4>1
    <3>2. CASE k = q
      BY <1>6, <3>2, <3>5
    <3>3. CASE k > q
      <4>1. k - 1 \in 1..Len(list)
        BY <1>5, <1>6, <3>3
      <4> QED
        BY <1>6, <3>3, <3>5, <4>1
    <3> QED
      BY <1>6, <3>1, <3>2, <3>3
  <2>3. ASSUME NEW i \in Ahead, list[i] # z
        PROVE  \E j \in Ahead' : list'[j] = list[i]
    <3>1. i \in 1..Len(list) /\ i > Offset /\ Ahead' = {j \in 1..Len(list) : j > Offset}
      BY <1>5, <1>6 DEF Ahead, Positions
    <3>2. CASE i < p
      <4>1. CASE i < q
        BY <1>5, <1>6, <3>1, <3>2, <4>1
      <4>2. CASE i >= q
        <5>1. i + 1 \in 1..Len(list) /\ i + 1 > Offset /\ i + 1 > q /\ (i + 1) - 1 = i
          BY <1>5, <1>6, <3>1, <3>2, <4>2
        <5>2. list'[i + 1] = list[i]
          BY <1>6, <3>2, <5>1
        <5> QED
          BY <3>1, <5>1, <5>2
      <4> QED
        BY <1>6, <3>1, <4>1, <4>2
    <3>3. CASE i = p
      BY <1>5, <2>3, <3>1, <3>3
    <3>4. CASE i > p
      <4>1. i > Offset + 1
        BY <1>5, <1>6, <2>3, <3>1, <3>4
      <4>2. CASE i > q
        <5>1. list'[i] = list[i]
          BY <1>5, <1>6, <3>1, <3>4, <4>2
        <5> QED
          BY <3>1, <5>1
      <4>3. CASE i <= q
        <5>1. i - 1 \in 1..Len(list) /\ i - 1 > Offset /\ i - 1 < q /\ ~(i - 1 < p) /\ (i - 1) + 1 = i
          BY <1>5, <1>6, <3>1, <3>4, <4>1, <4>3
        <5>2. list'[i - 1] = list[i]
          BY <1>6, <5>1
        <5> QED
          BY <3>1, <5>1, <5>2
      <4> QED
        BY <1>6, <3>1, <4>2, <4>3
    <3> QED
      BY <1>6, <3>1, <3>2, <3>3, <3>4
  <2> HIDE DEF z
  <2> QED
    BY <1>2, <2>1, <2>2, <2>3, OneMoreMissed
<1> QED
  BY <1>2, <1>4, <1>7 DEF LoadInvariant, ReadSoFar, KeptOrAhead, NotAgain

----------------------------------------------------------------------------
(* The theorems. *)

\* Types and the invariant hold at every moment of a load: it never asks for more
\* pages than maxTimeEntryPages or maxPages, and what it read and what lies ahead of
\* it make up the list as far as the changes of the list allow.
THEOREM LoadInvariantHolds == Spec => [](TypeOK /\ LoadInvariant)
<1>1. Init => TypeOK /\ LoadInvariant
  BY InitTypes, InitInvariant
<1>2. TypeOK /\ LoadInvariant /\ [Next]_vars => (TypeOK /\ LoadInvariant)'
  <2> SUFFICES ASSUME TypeOK, LoadInvariant, [Next]_vars
               PROVE  TypeOK' /\ LoadInvariant'
    OBVIOUS
  <2>1. CASE NextPage
    BY <2>1, NextPageTypes, NextPageInvariant
  <2>2. CASE PageFails
    <3>1. TypeOK'
      BY <2>2 DEF PageFails, TypeOK
    <3>2. LoadInvariant'
      BY <2>2 DEF PageFails, LoadInvariant, Distinct, Positions
    <3> QED
      BY <3>1, <3>2
  <2>3. CASE Add
    BY <2>3, ChangeTypes, AddInvariant
  <2>4. CASE Remove
    BY <2>4, ChangeTypes, RemoveInvariant
  <2>5. CASE Move
    BY <2>5, ChangeTypes, MoveInvariant
  <2>6. CASE UNCHANGED vars
    <3>1. TypeOK'
      BY <2>6 DEF vars, TypeOK
    <3>2. UNCHANGED <<Ahead, Offset>>
      BY <2>6 DEF vars, Ahead, Offset, Positions
    <3>3. LoadInvariant'
      BY <2>6, <3>2 DEF vars, LoadInvariant, ReadSoFar, KeptOrAhead, NotAgain, FewMissed, Missed,
                        Distinct, Contents, Positions
    <3> QED
      BY <3>1, <3>3
  <2> QED
    BY <2>1, <2>2, <2>3, <2>4, <2>5, <2>6 DEF Next
<1> QED
  BY <1>1, <1>2, PTL DEF Spec

\* Every variable keeps its type, and no load asks for more pages than it may.
THEOREM TypesHold == Spec => []TypeOK
BY LoadInvariantHolds, PTL

\* At the end of a load everything is read or the ceiling is reached.
LEMMA NothingAhead ==
    ASSUME TypeOK, LoadInvariant, pc = "done"
    PROVE  /\ Offset \in Nat /\ Ceiling \in Nat /\ Offset <= Ceiling /\ Len(list) \in Nat
           /\ Len(list) <= Offset \/ Offset = Ceiling
<1>1. page \in Nat /\ MaxPages[loop] \in Nat /\ page <= MaxPages[loop]
  BY PagingAssumption DEF TypeOK, PagingAssumption
<1>2. Offset \in Nat /\ Ceiling \in Nat /\ Offset <= Ceiling
  BY <1>1, NextOffset, WithinCeiling DEF Offset, Ceiling
<1>3. Len(list) \in Nat
  BY DEF TypeOK
<1>4. CASE Ahead = {}
  BY <1>2, <1>3, <1>4 DEF Ahead, Positions
<1>5. CASE page = MaxPages[loop]
  BY <1>2, <1>3, <1>5 DEF Offset, Ceiling
<1> QED
  BY <1>2, <1>3, <1>4, <1>5 DEF LoadInvariant

\* A list nobody changes is read whole and in order, up to the ceiling, whatever the
\* size of the pages: no item is skipped or read twice where two pages meet.
THEOREM LoadsComplete == Spec => []LoadComplete
<1>1. TypeOK /\ LoadInvariant => LoadComplete
  <2> SUFFICES ASSUME TypeOK, LoadInvariant, pc = "done", ~added, ~removed
               PROVE  /\ Len(all) = IF Len(list) <= Ceiling THEN Len(list) ELSE Ceiling
                      /\ \A i \in Positions(all) : all[i] = list[i]
    BY DEF LoadComplete
  <2>1. /\ Len(all) = IF Offset <= Len(list) THEN Offset ELSE Len(list)
        /\ \A i \in Positions(all) : all[i] = list[i]
    BY DEF LoadInvariant, ReadSoFar
  <2>2. Len(all) = IF Len(list) <= Ceiling THEN Len(list) ELSE Ceiling
    BY <2>1, NothingAhead
  <2> QED
    BY <2>1, <2>2
<1> QED
  BY <1>1, LoadInvariantHolds, PTL

\* Additions during a load lose nothing that was in the list when it began.
THEOREM AdditionsLoseNothing == Spec => []NothingLost
<1>1. TypeOK /\ LoadInvariant => NothingLost
  <2> SUFFICES ASSUME TypeOK, LoadInvariant, pc = "done", ~removed, Len(list) <= Ceiling,
                      NEW x \in before
               PROVE  x \in Contents(all)
    BY DEF NothingLost
  <2>1. Ahead = {}
    BY NothingAhead DEF Ahead, Positions
  <2> QED
    BY <2>1 DEF LoadInvariant, KeptOrAhead
<1> QED
  BY <1>1, LoadInvariantHolds, PTL

\* Removals during a load make it read nothing twice.
THEOREM RemovalsRepeatNothing == Spec => []NothingTwice
<1>1. TypeOK /\ LoadInvariant => NothingTwice
  BY DEF LoadInvariant, NotAgain, NothingTwice
<1> QED
  BY <1>1, LoadInvariantHolds, PTL

\* A change of the list during the load hides one of its items at most, whether it removes
\* an item, moves one or brings one back, and whatever page the load has come to.
THEOREM ChangesHideOneEach == Spec => []MissedAtMostOnePerChange
<1>1. TypeOK /\ LoadInvariant => MissedAtMostOnePerChange
  <2> SUFFICES ASSUME TypeOK, LoadInvariant, pc = "done", Len(list) <= Ceiling
               PROVE  Cardinality((before \cap Contents(list)) \ Contents(all)) <= changes
    BY DEF MissedAtMostOnePerChange
  <2>1. Ahead = {}
    BY NothingAhead DEF Ahead, Positions
  <2>2. (before \cap Contents(list)) \ Contents(all) = Missed
    BY <2>1 DEF Missed
  <2> QED
    BY <2>2 DEF LoadInvariant, FewMissed
<1> QED
  BY <1>1, LoadInvariantHolds, PTL

\* The loops over the pages implement the reader that gets one faithful answer at one
\* moment: the pages between are stutters, the last one is the answer, and every change
\* of the list is a change the reader knows.
THEOREM PagesReadAtOnce == Spec => ReadsAtOnce
<1> DEFINE Promise == TypeOK /\ LoadInvariant /\ LoadComplete /\ NothingLost /\ NothingTwice
<1>1. ASSUME Init, TypeOK, LoadInvariant
      PROVE  Abstract!Init
  <2>1. Ceiling \in Nat
    <3>1. MaxPages[loop] \in Nat
      BY <1>1, PagingAssumption DEF TypeOK, PagingAssumption
    <3> QED
      BY <3>1, NextOffset DEF Ceiling
  <2> QED
    BY <1>1, <2>1 DEF Init, Abstract!Init, TypeOK, LoadInvariant, Distinct, Contents, Positions,
                      Abstract!Distinct, Abstract!Contents, Result
<1>2. ASSUME Promise, Promise', [Next]_vars
      PROVE  [Abstract!Next]_(Abstract!vars)
  <2> USE <1>2
  <2>1. CASE NextPage
    <3>1. Ceiling' = Ceiling
      BY <2>1 DEF NextPage, Ceiling
    <3>2. CASE pc' = "loading"
      BY <2>1, <3>1, <3>2 DEF NextPage, Abstract!vars, Result
    <3>3. CASE pc' = "done"
      <4>1. Result' = all' /\ all' \in Seq(Items)
        BY <3>3 DEF Result, TypeOK
      <4>2. Abstract!Faithful(Result')
        BY <2>1, <3>1, <3>3, <4>1 DEF NextPage, Abstract!Faithful, LoadComplete, NothingLost,
               NothingTwice, Distinct, Contents, Positions, Abstract!Distinct, Abstract!Contents
      <4> QED
        BY <2>1, <3>1, <3>3, <4>1, <4>2 DEF NextPage, Abstract!Next, Abstract!Answer
    <3> QED
      BY <2>1, <3>2, <3>3 DEF NextPage
  <2>2. CASE PageFails
    BY <2>2 DEF PageFails, Abstract!Next, Abstract!Fail, Result, Ceiling
  <2>3. ASSUME Add \/ Remove \/ Move
        PROVE  /\ Ceiling' = Ceiling /\ Result' = Result /\ before' = before
               /\ pc = "loading" /\ pc' = pc
               /\ list' \in Seq(Items) /\ Abstract!Distinct(list')
    BY <2>3 DEF Add, Remove, Move, Change, Ceiling, Result, TypeOK, LoadInvariant, Distinct,
                Positions, Abstract!Distinct
  <2>4. CASE Add
    <3>1. Contents(list) \subseteq Contents(list')
      <4> SUFFICES ASSUME NEW k \in Positions(list)
                   PROVE  list[k] \in Contents(list')
        BY DEF Contents
      <4>1. PICK x \in Items, i \in 1..(Len(list) + 1) : list' = InsertAt(list, i, x)
        BY <2>4 DEF Add
      <4>2. Len(list) \in Nat /\ k \in Nat /\ k <= Len(list) /\ 1 <= k /\ i \in Nat
        BY DEF Positions, TypeOK
      <4>3. Len(list') = Len(list) + 1
        BY <4>1, <2>3, InsertIs DEF TypeOK
      <4>4. list'[IF k < i THEN k ELSE k + 1] = list[k]
        BY <4>1, <4>2 DEF InsertAt
      <4> QED
        BY <4>2, <4>3, <4>4 DEF Contents, Positions
    <3> QED
      BY <2>3, <2>4, <3>1 DEF Add, Abstract!Next, Abstract!Change, Contents, Positions,
                              Abstract!Contents
  <2>5. CASE Remove
    <3>1. Contents(list') \subseteq Contents(list)
      <4> SUFFICES ASSUME NEW k \in Positions(list')
                   PROVE  list'[k] \in Contents(list)
        BY DEF Contents
      <4>1. PICK i \in Positions(list) : list' = RemoveAt(list, i)
        BY <2>5 DEF Remove
      <4>2. Len(list) \in Nat /\ i \in Nat /\ 1 <= i /\ i <= Len(list)
        BY DEF Positions, TypeOK
      <4>3. Len(list') = Len(list) - 1
        BY <4>1, <2>3, RemoveIs DEF TypeOK
      <4>4. k \in Nat /\ 1 <= k /\ k <= Len(list) - 1
        BY <4>2, <4>3 DEF Positions
      <4>5. list'[k] = IF k < i THEN list[k] ELSE list[k + 1]
        BY <4>1, <4>2, <4>4 DEF RemoveAt
      <4> QED
        BY <4>2, <4>4, <4>5 DEF Contents, Positions
    <3> QED
      BY <2>3, <2>5, <3>1 DEF Remove, Abstract!Next, Abstract!Change, Contents, Positions,
                              Abstract!Contents
  <2>6. CASE Move
    BY <2>3, <2>6 DEF Move, Abstract!Next, Abstract!Change
  <2>7. CASE UNCHANGED vars
    BY <2>7 DEF vars, Abstract!vars, Result, Ceiling
  <2> QED
    BY <2>1, <2>2, <2>4, <2>5, <2>6, <2>7 DEF Next
<1>3. Spec => []Promise
  BY LoadInvariantHolds, LoadsComplete, AdditionsLoseNothing, RemovalsRepeatNothing, PTL
<1> HIDE DEF Promise
<1> QED
  BY <1>1, <1>2, <1>3, LoadInvariantHolds, PTL DEF Spec, ReadsAtOnce, Abstract!Spec
====
