---- MODULE ProjectSelectorProofs ----
(***************************************************************************)
(* Proofs about ProjectSelector for any catalogues, searches and tabs.     *)
(* The lemmas on joined and filtered sequences come first, then what the   *)
(* rows and the options of the dropdown are, then the invariant, then the  *)
(* walk of the arrow keys.                                                 *)
(***************************************************************************)
EXTENDS ProjectSelector, FiniteSetTheorems, WellFoundedInduction, TLAPS

\* What two sets do not share.
Difference(s, t) == (s \ t) \cup (t \ s)

\* A star sets or takes back one favorite.
LEMMA ToggledDiffers ==
    ASSUME NEW favs, NEW p
    PROVE  Cardinality(Difference(favs, Toggled(favs, p))) = 1
<1>1. Difference(favs, Toggled(favs, p)) = {p}
  BY DEF Difference, Toggled
<1> QED
  BY <1>1, FS_Singleton

LEMMA SameDiffers ==
    ASSUME NEW favs
    PROVE  Cardinality(Difference(favs, favs)) = 0
<1>1. Difference(favs, favs) = {}
  BY DEF Difference
<1> QED
  BY <1>1, FS_EmptySet

\* No step of the selector, of the sidebar or of another tab changes more than one stored
\* favorite, whatever the favorites this tab shows.
THEOREM FavoritesKeptHolds == Spec => FavoritesKept
<1>1. ASSUME [Next]_vars
      PROVE  [Cardinality((stored \ stored') \cup (stored' \ stored)) <= 1]_vars
  <2>1. stored' = stored \/ \E p : stored' = Toggled(stored, p)
    BY <1>1 DEF Next, Open, Close, Search, Focus, Arrow, ToggleProject, PickTask, ToggleFavorite,
                ChooseEntry, Reload, ToggleElsewhere, Shown, vars
  <2>2. Cardinality(Difference(stored, stored')) \in {0, 1}
    BY <2>1, ToggledDiffers, SameDiffers
  <2> QED
    BY <2>2 DEF Difference
<1> QED
  BY <1>1, PTL DEF Spec, FavoritesKept

----------------------------------------------------------------------------
(* Sequences of sequences.  The induction over the length is by the least  *)
(* counterexample: the order of the natural numbers is well founded.       *)

\* A nonempty set of natural numbers has a least one.
LEMMA Least ==
    ASSUME NEW S \in SUBSET Nat, S # {}
    PROVE  \E m \in S : \A k \in S : m <= k
<1> DEFINE Less == {p \in Nat \X Nat : p[1] < p[2]}
<1>1. IsWellFoundedOn(Less, Nat)
  BY NatLessThanWellFounded DEF OpToRel
<1>2. PICK m \in S : \A k \in S : ~(<<k, m>> \in Less)
  <2> HIDE DEF Less
  <2> QED
    BY <1>1, WFMin
<1>3. ASSUME NEW k \in S PROVE m <= k
  <2>1. m \in Nat /\ k \in Nat
    OBVIOUS
  <2>2. k < m => <<k, m>> \in Less
    BY <2>1
  <2> HIDE DEF Less
  <2> QED
    BY <1>2, <2>1, <2>2
<1> QED
  BY <1>3

\* Counting up to n: what holds of 0, and of i + 1 whenever it holds of i.
LEMMA Induct ==
    ASSUME NEW n \in Nat, NEW S, 0 \in S,
           \A i \in 0 .. n : i \in S /\ i + 1 <= n => i + 1 \in S
    PROVE  \A i \in 0 .. n : i \in S
<1> DEFINE T == {i \in 0 .. n : i \notin S}
<1>1. SUFFICES ASSUME T # {} PROVE FALSE
  OBVIOUS
<1>2. T \in SUBSET Nat
  OBVIOUS
<1>3. PICK m \in T : \A k \in T : m <= k
  <2> HIDE DEF T
  <2> QED
    BY <1>1, <1>2, Least
<1>4. m # 0 /\ m \in 0 .. n /\ m \notin S
  OBVIOUS
<1>5. m - 1 \in 0 .. n /\ m - 1 \notin T
  BY <1>3, <1>4
<1>6. m - 1 \in S
  BY <1>5
<1> QED
  BY <1>4, <1>5, <1>6

\* What is in two sequences joined.
LEMMA ConcatParts ==
    ASSUME NEW T, NEW a \in Seq(T), NEW b \in Seq(T)
    PROVE  /\ a \o b \in Seq(T)
           /\ Range(a \o b) = Range(a) \cup Range(b)
<1>1. a \o b \in Seq(T) /\ Len(a \o b) = Len(a) + Len(b)
  OBVIOUS
<1>2. \A i \in 1 .. Len(a) + Len(b) : (a \o b)[i] = IF i <= Len(a) THEN a[i] ELSE b[i - Len(a)]
  OBVIOUS
<1>3. Range(a \o b) \subseteq Range(a) \cup Range(b)
  BY <1>1, <1>2 DEF Range
<1>4. Range(a) \subseteq Range(a \o b)
  <2> SUFFICES ASSUME NEW i \in 1 .. Len(a) PROVE a[i] \in Range(a \o b)
    BY DEF Range
  <2>1. i \in 1 .. Len(a \o b) /\ (a \o b)[i] = a[i]
    BY <1>1, <1>2
  <2> QED
    BY <1>1, <2>1 DEF Range
<1>5. Range(b) \subseteq Range(a \o b)
  <2> SUFFICES ASSUME NEW i \in 1 .. Len(b) PROVE b[i] \in Range(a \o b)
    BY DEF Range
  <2>1. i + Len(a) \in 1 .. Len(a \o b) /\ (a \o b)[i + Len(a)] = b[i]
    BY <1>1, <1>2
  <2> QED
    BY <1>1, <2>1 DEF Range
<1> QED
  BY <1>1, <1>3, <1>4, <1>5

\* Two sequences that name nothing twice and share nothing, joined, name nothing twice.
LEMMA ConcatInjective ==
    ASSUME NEW T, NEW a \in Seq(T), NEW b \in Seq(T), IsInjective(a), IsInjective(b),
           Range(a) \cap Range(b) = {}
    PROVE  IsInjective(a \o b)
<1>1. a \o b \in Seq(T) /\ Len(a \o b) = Len(a) + Len(b)
  OBVIOUS
<1>2. \A i \in 1 .. Len(a) + Len(b) : (a \o b)[i] = IF i <= Len(a) THEN a[i] ELSE b[i - Len(a)]
  OBVIOUS
<1> SUFFICES ASSUME NEW i \in 1 .. Len(a) + Len(b), NEW j \in 1 .. Len(a) + Len(b),
                    (a \o b)[i] = (a \o b)[j]
             PROVE  i = j
  BY <1>1 DEF IsInjective
<1>3. CASE i <= Len(a) /\ j <= Len(a)
  <2>1. i \in DOMAIN a /\ j \in DOMAIN a /\ a[i] = a[j]
    BY <1>2, <1>3
  <2> QED
    BY <2>1 DEF IsInjective
<1>4. CASE i > Len(a) /\ j > Len(a)
  <2>1. i - Len(a) \in DOMAIN b /\ j - Len(a) \in DOMAIN b /\ b[i - Len(a)] = b[j - Len(a)]
    BY <1>2, <1>4
  <2>2. i - Len(a) = j - Len(a)
    BY <2>1 DEF IsInjective
  <2> QED
    BY <2>2
<1>5. CASE i <= Len(a) /\ j > Len(a)
  <2>1. a[i] = b[j - Len(a)] /\ i \in DOMAIN a /\ j - Len(a) \in DOMAIN b
    BY <1>2, <1>5
  <2> QED
    BY <2>1 DEF Range
<1>6. CASE i > Len(a) /\ j <= Len(a)
  <2>1. a[j] = b[i - Len(a)] /\ j \in DOMAIN a /\ i - Len(a) \in DOMAIN b
    BY <1>2, <1>6
  <2> QED
    BY <2>1 DEF Range
<1> QED
  BY <1>3, <1>4, <1>5, <1>6

\* The equation of the function inside FlattenSeq.
Prefix(ss, f) == [i \in 1 .. Len(ss) |-> IF i = 1 THEN ss[i] ELSE f[i - 1] \o ss[i]]

\* The function FlattenSeq is defined by exists.
LEMMA PrefixExists ==
    ASSUME NEW T, NEW ss \in Seq(Seq(T)), Len(ss) # 0
    PROVE  \E f : f = Prefix(ss, f)
<1> DEFINE Is(n, f) == \A i \in 1 .. n : f[i] = IF i = 1 THEN ss[i] ELSE f[i - 1] \o ss[i]
           S == {n \in 0 .. Len(ss) : \E f \in [1 .. n -> Seq(T)] : Is(n, f)}
<1>1. 0 \in S
  <2>1. [i \in 1 .. 0 |-> ss[i]] \in [1 .. 0 -> Seq(T)] /\ Is(0, [i \in 1 .. 0 |-> ss[i]])
    OBVIOUS
  <2>2. 0 \in 0 .. Len(ss)
    OBVIOUS
  <2> HIDE DEF Is
  <2>3. \E f \in [1 .. 0 -> Seq(T)] : Is(0, f)
    BY <2>1
  <2> QED
    BY <2>2, <2>3
<1>2. ASSUME NEW n \in 0 .. Len(ss), n \in S, n + 1 <= Len(ss)
      PROVE  n + 1 \in S
  <2>1. PICK f \in [1 .. n -> Seq(T)] : Is(n, f)
    BY <1>2
  <2> DEFINE x == IF n = 0 THEN ss[n + 1] ELSE f[n] \o ss[n + 1]
             g == [i \in 1 .. n + 1 |-> IF i <= n THEN f[i] ELSE x]
  <2>2. ss[n + 1] \in Seq(T)
    BY <1>2
  <2>3. x \in Seq(T)
    <3>1. CASE n = 0
      BY <2>2, <3>1
    <3>2. CASE n # 0
      <4>1. f[n] \in Seq(T)
        BY <3>2
      <4> QED
        BY <2>2, <3>2, <4>1
    <3> QED
      BY <3>1, <3>2
  <2>4. g \in [1 .. n + 1 -> Seq(T)]
    <3> HIDE DEF x
    <3> QED
      BY <2>3
  <2>5. Is(n + 1, g)
    <3> SUFFICES ASSUME NEW i \in 1 .. n + 1
                 PROVE  g[i] = IF i = 1 THEN ss[i] ELSE g[i - 1] \o ss[i]
      OBVIOUS
    <3>1. CASE i <= n
      <4>1. g[i] = f[i] /\ (i # 1 => g[i - 1] = f[i - 1])
        BY <3>1
      <4> HIDE DEF g, x
      <4>2. f[i] = IF i = 1 THEN ss[i] ELSE f[i - 1] \o ss[i]
        <5>1. i \in 1 .. n
          BY <3>1
        <5> QED
          BY <2>1, <5>1
      <4> QED
        BY <4>1, <4>2
    <3>2. CASE i = n + 1
      <4>1. g[i] = x /\ (i # 1 => g[i - 1] = f[n])
        BY <3>2
      <4> QED
        BY <3>2, <4>1
    <3> QED
      BY <3>1, <3>2
  <2> HIDE DEF Is, g
  <2> QED
    BY <1>2, <2>4, <2>5
<1>3. Len(ss) \in S
  <2>1. Len(ss) \in Nat
    OBVIOUS
  <2> HIDE DEF S
  <2>2. \A n \in 0 .. Len(ss) : n \in S
    BY <1>1, <1>2, <2>1, Induct
  <2> QED
    BY <2>1, <2>2
<1>4. PICK f \in [1 .. Len(ss) -> Seq(T)] : Is(Len(ss), f)
  BY <1>3
<1>5. f = Prefix(ss, f)
  BY <1>4 DEF Prefix
<1> QED
  BY <1>5

\* FlattenSeq joins the sequences one after the other, from the first.
LEMMA PrefixOf ==
    ASSUME NEW T, NEW ss \in Seq(Seq(T)), Len(ss) # 0
    PROVE  \E f \in [1 .. Len(ss) -> Seq(T)] :
               /\ \A n \in 0 .. Len(ss) :
                      n + 1 <= Len(ss) => f[n + 1] = IF n = 0 THEN ss[n + 1] ELSE f[n] \o ss[n + 1]
               /\ FlattenSeq(ss) = f[Len(ss)]
<1> DEFINE f == CHOOSE g : g = Prefix(ss, g)
<1>1. f = Prefix(ss, f)
  BY PrefixExists
<1>2. FlattenSeq(ss) = f[Len(ss)]
  BY DEF FlattenSeq, Prefix
<1> HIDE DEF f
<1>3. \A i \in 1 .. Len(ss) : f[i] = IF i = 1 THEN ss[i] ELSE f[i - 1] \o ss[i]
  BY <1>1 DEF Prefix
<1>4. \A n \in 0 .. Len(ss) :
          n + 1 <= Len(ss) => f[n + 1] = IF n = 0 THEN ss[n + 1] ELSE f[n] \o ss[n + 1]
  BY <1>3
<1> DEFINE S == {i \in 0 .. Len(ss) : i = 0 \/ f[i] \in Seq(T)}
<1>5. ASSUME NEW i \in 0 .. Len(ss), i \in S, i + 1 <= Len(ss)
      PROVE  i + 1 \in S
  <2>1. f[i + 1] = IF i = 0 THEN ss[i + 1] ELSE f[i] \o ss[i + 1]
    BY <1>5, <1>4
  <2>2. ss[i + 1] \in Seq(T)
    BY <1>5
  <2>3. CASE i = 0
    BY <2>1, <2>2, <2>3
  <2>4. CASE i # 0
    <3>1. f[i] \in Seq(T) /\ f[i + 1] = f[i] \o ss[i + 1]
      BY <1>5, <2>1, <2>4
    <3>2. f[i + 1] \in Seq(T)
      BY <2>2, <3>1
    <3> QED
      BY <1>5, <3>2
  <2> QED
    BY <2>3, <2>4
<1>6. \A i \in 0 .. Len(ss) : i \in S
  <2>1. 0 \in S /\ Len(ss) \in Nat
    OBVIOUS
  <2> HIDE DEF S
  <2> QED
    BY <1>5, <2>1, Induct
<1>7. f \in [1 .. Len(ss) -> Seq(T)]
  <2>1. \A i \in 1 .. Len(ss) : f[i] \in Seq(T)
    BY <1>6
  <2> QED
    BY <1>1, <2>1 DEF Prefix
<1> QED
  BY <1>2, <1>7, <1>4

\* What is in sequences joined is in one of them.
LEMMA FlattenParts ==
    ASSUME NEW T, NEW ss \in Seq(Seq(T))
    PROVE  /\ FlattenSeq(ss) \in Seq(T)
           /\ Range(FlattenSeq(ss)) = UNION {Range(ss[i]) : i \in DOMAIN ss}
<1>1. CASE Len(ss) = 0
  <2>1. FlattenSeq(ss) = ss
    BY <1>1 DEF FlattenSeq
  <2>2. ss = <<>>
    BY <1>1
  <2>3. <<>> \in Seq(T) /\ DOMAIN <<>> = {}
    OBVIOUS
  <2> QED
    BY <2>1, <2>2, <2>3 DEF Range
<1>2. CASE Len(ss) # 0
  <2>1. PICK f \in [1 .. Len(ss) -> Seq(T)] :
               /\ \A n \in 0 .. Len(ss) :
                      n + 1 <= Len(ss) => f[n + 1] = IF n = 0 THEN ss[n + 1] ELSE f[n] \o ss[n + 1]
               /\ FlattenSeq(ss) = f[Len(ss)]
    BY <1>2, PrefixOf
  <2> DEFINE S == {n \in 0 .. Len(ss) : n = 0 \/ Range(f[n]) = UNION {Range(ss[j]) : j \in 1 .. n}}
  <2>3. 0 \in S /\ Len(ss) \in Nat
    OBVIOUS
  <2>4. ASSUME NEW n \in 0 .. Len(ss), n \in S, n + 1 <= Len(ss)
        PROVE  n + 1 \in S
    <3>1. f[n + 1] = IF n = 0 THEN ss[n + 1] ELSE f[n] \o ss[n + 1]
      BY <2>1, <2>4
    <3>2. n + 1 \in 1 .. Len(ss) /\ 1 .. n + 1 = 1 .. n \cup {n + 1}
      BY <2>4
    <3>3. ss[n + 1] \in Seq(T)
      BY <3>2
    <3>4. UNION {Range(ss[j]) : j \in 1 .. n + 1}
          = (UNION {Range(ss[j]) : j \in 1 .. n}) \cup Range(ss[n + 1])
      BY <3>2
    <3>5. Range(f[n + 1]) = UNION {Range(ss[j]) : j \in 1 .. n + 1}
      <4>1. CASE n = 0
        <5>1. 1 .. n = {}
          BY <4>1
        <5>2. f[n + 1] = ss[n + 1]
          BY <3>1, <4>1
        <5> QED
          BY <3>4, <5>1, <5>2
      <4>2. CASE n # 0
        <5>1. n \in 1 .. Len(ss)
          BY <4>2
        <5>2. f[n] \in Seq(T) /\ f[n + 1] = f[n] \o ss[n + 1]
          BY <3>1, <4>2, <5>1
        <5>3. Range(f[n + 1]) = Range(f[n]) \cup Range(ss[n + 1])
          BY <3>3, <5>2, ConcatParts
        <5>4. Range(f[n]) = UNION {Range(ss[j]) : j \in 1 .. n}
          BY <2>4, <4>2
        <5> QED
          BY <3>4, <5>3, <5>4
      <4> QED
        BY <4>1, <4>2
    <3>6. n + 1 \in 0 .. Len(ss)
      BY <2>4
    <3> QED
      BY <3>5, <3>6
  <2>5. Len(ss) \in S
    <3> HIDE DEF S
    <3>1. \A n \in 0 .. Len(ss) : n \in S
      BY <2>3, <2>4, Induct
    <3> QED
      BY <2>3, <3>1
  <2>6. Range(f[Len(ss)]) = UNION {Range(ss[j]) : j \in 1 .. Len(ss)}
    BY <1>2, <2>5
  <2>7. f[Len(ss)] \in Seq(T) /\ DOMAIN ss = 1 .. Len(ss)
    BY <1>2
  <2> QED
    BY <2>1, <2>6, <2>7
<1> QED
  BY <1>1, <1>2

\* Sequences that share nothing and name nothing twice, joined, name nothing twice.
LEMMA FlattenInjective ==
    ASSUME NEW T, NEW ss \in Seq(Seq(T)),
           \A i \in DOMAIN ss : IsInjective(ss[i]),
           \A i, j \in DOMAIN ss : i # j => Range(ss[i]) \cap Range(ss[j]) = {}
    PROVE  IsInjective(FlattenSeq(ss))
<1>1. CASE Len(ss) = 0
  <2>1. FlattenSeq(ss) = ss
    BY <1>1 DEF FlattenSeq
  <2>2. DOMAIN ss = {}
    BY <1>1
  <2> QED
    BY <2>1, <2>2 DEF IsInjective
<1>2. CASE Len(ss) # 0
  <2>1. PICK f \in [1 .. Len(ss) -> Seq(T)] :
               /\ \A n \in 0 .. Len(ss) :
                      n + 1 <= Len(ss) => f[n + 1] = IF n = 0 THEN ss[n + 1] ELSE f[n] \o ss[n + 1]
               /\ FlattenSeq(ss) = f[Len(ss)]
    BY <1>2, PrefixOf
  <2> DEFINE S == {n \in 0 .. Len(ss) :
                     \/ n = 0
                     \/ IsInjective(f[n]) /\ \A x \in Range(f[n]) : \E j \in 1 .. n : x \in Range(ss[j])}
  <2>3. 0 \in S /\ Len(ss) \in Nat /\ DOMAIN ss = 1 .. Len(ss)
    OBVIOUS
  <2>4. ASSUME NEW n \in 0 .. Len(ss), n \in S, n + 1 <= Len(ss)
        PROVE  n + 1 \in S
    <3>1. f[n + 1] = IF n = 0 THEN ss[n + 1] ELSE f[n] \o ss[n + 1]
      BY <2>1, <2>4
    <3>2. n + 1 \in 1 .. Len(ss) /\ 1 .. n + 1 = 1 .. n \cup {n + 1} /\ n + 1 \in 0 .. Len(ss)
      BY <2>4
    <3>3. ss[n + 1] \in Seq(T) /\ IsInjective(ss[n + 1])
      <4>1. n + 1 \in DOMAIN ss
        BY <2>3, <3>2
      <4> QED
        BY <4>1
    <3>4. CASE n = 0
      BY <3>1, <3>2, <3>3, <3>4
    <3>5. CASE n # 0
      <4>1. n \in 1 .. Len(ss)
        BY <3>5
      <4>2. f[n] \in Seq(T) /\ f[n + 1] = f[n] \o ss[n + 1]
        BY <3>1, <3>5, <4>1
      <4>3. IsInjective(f[n]) /\ \A x \in Range(f[n]) : \E j \in 1 .. n : x \in Range(ss[j])
        BY <2>4, <3>5
      <4>4. Range(f[n]) \cap Range(ss[n + 1]) = {}
        <5>1. \A j \in 1 .. n : j \in DOMAIN ss /\ j # n + 1
          BY <4>1
        <5> QED
          BY <2>3, <3>2, <4>3, <5>1
      <4>5. IsInjective(f[n + 1])
        BY <3>3, <4>2, <4>3, <4>4, ConcatInjective
      <4>6. Range(f[n + 1]) = Range(f[n]) \cup Range(ss[n + 1])
        BY <3>3, <4>2, ConcatParts
      <4>7. \A x \in Range(f[n + 1]) : \E j \in 1 .. n + 1 : x \in Range(ss[j])
        BY <3>2, <4>3, <4>6
      <4> QED
        BY <3>2, <4>5, <4>7
    <3> QED
      BY <3>4, <3>5
  <2>5. Len(ss) \in S
    <3> HIDE DEF S
    <3>1. \A n \in 0 .. Len(ss) : n \in S
      BY <2>3, <2>4, Induct
    <3> QED
      BY <2>3, <3>1
  <2> QED
    BY <1>2, <2>1, <2>5
<1> QED
  BY <1>1, <1>2

\* A filter keeps what is in the set, and names nothing twice that was not.
LEMMA KeptParts ==
    ASSUME NEW T, NEW s \in Seq(T), NEW S
    PROVE  /\ Kept(s, S) \in Seq(T)
           /\ Range(Kept(s, S)) = Range(s) \cap S
           /\ IsInjective(s) => IsInjective(Kept(s, S))
<1> DEFINE ss == [i \in DOMAIN s |-> IF s[i] \in S THEN <<s[i]>> ELSE <<>>]
<1>1. Kept(s, S) = FlattenSeq(ss)
  BY DEF Kept
<1>2. ASSUME NEW i \in DOMAIN s
      PROVE  /\ s[i] \in T
             /\ ss[i] \in Seq(T)
             /\ Range(ss[i]) = IF s[i] \in S THEN {s[i]} ELSE {}
             /\ IsInjective(ss[i])
  <2>1. s[i] \in T
    OBVIOUS
  <2>2. CASE s[i] \in S
    <3>1. ss[i] = <<s[i]>>
      BY <2>2
    <3>2. <<s[i]>> \in Seq(T) /\ DOMAIN <<s[i]>> = {1} /\ <<s[i]>>[1] = s[i]
      BY <2>1
    <3>3. Range(<<s[i]>>) = {s[i]}
      BY <3>2 DEF Range
    <3>4. IsInjective(<<s[i]>>)
      BY <3>2 DEF IsInjective
    <3> HIDE DEF ss
    <3> QED
      BY <2>1, <2>2, <3>1, <3>2, <3>3, <3>4
  <2>3. CASE s[i] \notin S
    <3>1. ss[i] = <<>>
      BY <2>3
    <3>2. <<>> \in Seq(T) /\ DOMAIN <<>> = {}
      OBVIOUS
    <3>3. Range(<<>>) = {} /\ IsInjective(<<>>)
      BY <3>2 DEF Range, IsInjective
    <3> HIDE DEF ss
    <3> QED
      BY <2>1, <2>3, <3>1, <3>2, <3>3
  <2> QED
    BY <2>2, <2>3
<1>3. DOMAIN ss = DOMAIN s /\ DOMAIN s = 1 .. Len(s) /\ Len(s) \in Nat
  OBVIOUS
<1>4. ss \in Seq(Seq(T))
  <2>1. \A i \in 1 .. Len(s) : ss[i] \in Seq(T)
    BY <1>2, <1>3
  <2>2. ss = [i \in 1 .. Len(s) |-> ss[i]]
    BY <1>3
  <2> HIDE DEF ss
  <2> QED
    BY <1>3, <2>1, <2>2
<1> HIDE DEF ss
<1>5. Range(FlattenSeq(ss)) = UNION {Range(ss[i]) : i \in DOMAIN s}
  BY <1>3, <1>4, FlattenParts
<1>6. UNION {Range(ss[i]) : i \in DOMAIN s} = Range(s) \cap S
  <2>1. Range(s) = {s[i] : i \in DOMAIN s}
    BY DEF Range
  <2>2. UNION {Range(ss[i]) : i \in DOMAIN s} = UNION {IF s[i] \in S THEN {s[i]} ELSE {} : i \in DOMAIN s}
    BY <1>2
  <2> QED
    BY <2>1, <2>2
<1>7. ASSUME IsInjective(s)
      PROVE  IsInjective(FlattenSeq(ss))
  <2>1. \A i, j \in DOMAIN ss : i # j => Range(ss[i]) \cap Range(ss[j]) = {}
    BY <1>2, <1>3, <1>7 DEF IsInjective
  <2> QED
    BY <1>2, <1>3, <1>4, <2>1, FlattenInjective
<1> QED
  BY <1>1, <1>4, <1>5, <1>6, <1>7, FlattenParts

----------------------------------------------------------------------------
(* The rows and the options of the dropdown. *)

\* Grouping by client loses nothing, adds nothing and names nothing twice.
LEMMA ByClientParts ==
    ASSUME NEW T, NEW ps \in Seq(T)
    PROVE  /\ ByClient(ps) \in Seq(T)
           /\ Range(ByClient(ps)) = Range(ps)
           /\ IsInjective(ps) => IsInjective(ByClient(ps))
<1> DEFINE first(i) == \A j \in 1 .. i - 1 : ps[j].client # ps[i].client
           clients(i) == {p \in Range(ps) : p.client = ps[i].client}
           groups == [i \in DOMAIN ps |-> IF first(i) THEN Kept(ps, clients(i)) ELSE <<>>]
<1>1. ByClient(ps) = FlattenSeq(groups)
  BY DEF ByClient
<1>2. DOMAIN groups = DOMAIN ps /\ DOMAIN ps = 1 .. Len(ps) /\ Len(ps) \in Nat
  OBVIOUS
<1>3. ASSUME NEW i \in DOMAIN ps
      PROVE  /\ groups[i] \in Seq(T)
             /\ Range(groups[i]) = IF first(i) THEN clients(i) ELSE {}
             /\ IsInjective(ps) => IsInjective(groups[i])
  <2>1. CASE first(i)
    <3>1. groups[i] = Kept(ps, clients(i))
      BY <2>1
    <3>2. Range(ps) \cap clients(i) = clients(i)
      OBVIOUS
    <3>3. /\ Kept(ps, clients(i)) \in Seq(T)
          /\ Range(Kept(ps, clients(i))) = clients(i)
          /\ IsInjective(ps) => IsInjective(Kept(ps, clients(i)))
      <4> HIDE DEF clients
      <4> QED
        BY <3>2, KeptParts
    <3> HIDE DEF groups, first, clients
    <3> QED
      BY <2>1, <3>1, <3>3
  <2>2. CASE ~first(i)
    <3>1. groups[i] = <<>>
      BY <2>2
    <3>2. <<>> \in Seq(T) /\ DOMAIN <<>> = {}
      OBVIOUS
    <3>3. Range(<<>>) = {} /\ IsInjective(<<>>)
      BY <3>2 DEF Range, IsInjective
    <3> HIDE DEF groups, first, clients
    <3> QED
      BY <2>2, <3>1, <3>2, <3>3
  <2> QED
    BY <2>1, <2>2
<1>4. groups \in Seq(Seq(T))
  <2>1. \A i \in 1 .. Len(ps) : groups[i] \in Seq(T)
    BY <1>2, <1>3
  <2>2. groups = [i \in 1 .. Len(ps) |-> groups[i]]
    BY <1>2
  <2> HIDE DEF groups
  <2> QED
    BY <1>2, <2>1, <2>2
<1>5. FlattenSeq(groups) \in Seq(T) /\ Range(FlattenSeq(groups)) = UNION {Range(groups[i]) : i \in DOMAIN ps}
  <2> HIDE DEF groups
  <2> QED
    BY <1>2, <1>4, FlattenParts
<1>6. ASSUME NEW i \in DOMAIN ps
      PROVE  \E k \in DOMAIN ps : first(k) /\ ps[i] \in clients(k)
  <2> DEFINE S == {k \in DOMAIN ps : ps[k].client = ps[i].client}
  <2>1. S \in SUBSET Nat /\ i \in S
    BY <1>2
  <2>2. PICK k \in S : \A j \in S : k <= j
    <3> HIDE DEF S
    <3> QED
      BY <2>1, Least
  <2>3. first(k)
    <3> SUFFICES ASSUME NEW j \in 1 .. k - 1, ps[j].client = ps[k].client
                 PROVE  FALSE
      OBVIOUS
    <3>1. j \in S
      BY <1>2
    <3> QED
      BY <1>2, <2>2, <3>1
  <2>4. ps[i] \in clients(k)
    BY DEF Range
  <2> QED
    BY <2>3, <2>4
<1>7. UNION {Range(groups[i]) : i \in DOMAIN ps} = Range(ps)
  <2>1. \A i \in DOMAIN ps : Range(groups[i]) \subseteq Range(ps)
    BY <1>3
  <2>2. \A x \in Range(ps) : \E k \in DOMAIN ps : x \in Range(groups[k])
    <3> SUFFICES ASSUME NEW x \in Range(ps)
                 PROVE  \E k \in DOMAIN ps : x \in Range(groups[k])
      OBVIOUS
    <3>1. PICK i \in DOMAIN ps : x = ps[i]
      BY DEF Range
    <3>2. PICK k \in DOMAIN ps : first(k) /\ ps[i] \in clients(k)
      BY <1>6
    <3> HIDE DEF first, clients, groups
    <3> QED
      BY <1>3, <3>1, <3>2
  <2> HIDE DEF groups
  <2> QED
    BY <2>1, <2>2
<1>8. ASSUME IsInjective(ps)
      PROVE  IsInjective(FlattenSeq(groups))
  <2>1. ASSUME NEW i \in DOMAIN ps, NEW j \in DOMAIN ps, i # j
        PROVE  Range(groups[i]) \cap Range(groups[j]) = {}
    <3>1. ps[i].client = ps[j].client => ~first(i) \/ ~first(j)
      <4>1. i < j \/ j < i
        BY <1>2, <2>1
      <4>2. i < j => i \in 1 .. j - 1
        BY <1>2
      <4>3. j < i => j \in 1 .. i - 1
        BY <1>2
      <4> QED
        BY <4>1, <4>2, <4>3
    <3>2. clients(i) \cap clients(j) # {} => ps[i].client = ps[j].client
      OBVIOUS
    <3> HIDE DEF first, clients, groups
    <3> QED
      BY <1>3, <3>1, <3>2
  <2> HIDE DEF groups
  <2> QED
    BY <1>2, <1>3, <1>4, <1>8, <2>1, FlattenInjective
<1> QED
  BY <1>1, <1>5, <1>7, <1>8

\* No catalogue lists a project twice, nor a task of a project: an id is a key of Solidtime.
ListedOnce ==
    \A c \in Catalogues : /\ \A i, j \in DOMAIN c : c[i].id = c[j].id => i = j
                          /\ \A p \in Range(c) : IsInjective(p.tasks)

\* The rows are the projects that are not archived and match the search, each once.
LEMMA RowsParts ==
    ASSUME NEW c \in Catalogues, NEW favs, NEW text
    PROVE  /\ Rows(c, favs, text) \in Seq(Range(c))
           /\ Range(Rows(c, favs, text)) = Range(Filtered(c, text))
           /\ Range(Filtered(c, text)) \subseteq Range(c)
           /\ ListedOnce => IsInjective(Rows(c, favs, text))
<1> DEFINE F == Filtered(c, text)
           a == Kept(F, FavoritesOf(c, favs))
           o == Kept(F, Range(c) \ FavoritesOf(c, favs))
<1>1. c \in Seq(Range(c))
  BY SelectorAssumption DEF SelectorAssumption
<1>2. /\ F \in Seq(Range(c))
      /\ Range(F) \subseteq Range(c)
      /\ IsInjective(c) => IsInjective(F)
  BY <1>1, KeptParts DEF Filtered
<1> HIDE DEF F
<1>3. /\ a \in Seq(Range(c))
      /\ Range(a) = Range(F) \cap FavoritesOf(c, favs)
      /\ IsInjective(F) => IsInjective(a)
  BY <1>2, KeptParts
<1>4. /\ o \in Seq(Range(c))
      /\ Range(o) = Range(F) \cap (Range(c) \ FavoritesOf(c, favs))
      /\ IsInjective(F) => IsInjective(o)
  BY <1>2, KeptParts
<1>5. Rows(c, favs, text) = a \o ByClient(o)
  BY DEF Rows, F
<1> HIDE DEF a, o
<1>6. /\ ByClient(o) \in Seq(Range(c))
      /\ Range(ByClient(o)) = Range(o)
      /\ IsInjective(o) => IsInjective(ByClient(o))
  BY <1>4, ByClientParts
<1>7. Rows(c, favs, text) \in Seq(Range(c)) /\ Range(Rows(c, favs, text)) = Range(a) \cup Range(ByClient(o))
  BY <1>3, <1>5, <1>6, ConcatParts
<1>8. Range(a) \cup Range(ByClient(o)) = Range(F)
  BY <1>2, <1>3, <1>4, <1>6
<1>9. ASSUME ListedOnce
      PROVE  IsInjective(Rows(c, favs, text))
  <2>1. IsInjective(c)
    BY <1>9 DEF ListedOnce, IsInjective
  <2>2. Range(a) \cap Range(ByClient(o)) = {}
    BY <1>3, <1>4, <1>6
  <2>3. IsInjective(a) /\ IsInjective(ByClient(o))
    BY <1>2, <1>3, <1>4, <1>6, <2>1
  <2> QED
    BY <1>3, <1>5, <1>6, <2>2, <2>3, ConcatInjective
<1> QED
  BY <1>2, <1>7, <1>8, <1>9 DEF F

\* The buttons of one project.
RowElements(p, text, shown) ==
    {Element("project", p.id, None)}
    \cup {Element("task", p.id, t) : t \in IF shown = p.id THEN Range(TasksOf(p, text)) ELSE {}}

\* The tasks shown are tasks of the project.
LEMMA TasksParts ==
    ASSUME NEW p \in Projects, NEW text
    PROVE  /\ TasksOf(p, text) \in Seq(Range(p.tasks))
           /\ Range(TasksOf(p, text)) \subseteq Range(p.tasks)
           /\ IsInjective(p.tasks) => IsInjective(TasksOf(p, text))
<1>1. p.tasks \in Seq(Range(p.tasks))
  BY SelectorAssumption DEF SelectorAssumption
<1>2. CASE Matched(p, text)
  BY <1>1, <1>2 DEF TasksOf
<1>3. CASE ~Matched(p, text)
  <2>1. TasksOf(p, text) = Kept(p.tasks, FoundTasks[text])
    BY <1>3 DEF TasksOf
  <2> QED
    BY <1>1, <2>1, KeptParts
<1> QED
  BY <1>2, <1>3

\* A row is made of the buttons of its project, each once.
LEMMA RowParts ==
    ASSUME NEW p \in Projects, NEW text, NEW shown
    PROVE  /\ Row(p, text, shown) \in Seq(RowElements(p, text, shown))
           /\ Range(Row(p, text, shown)) = RowElements(p, text, shown)
           /\ IsInjective(p.tasks) => IsInjective(Row(p, text, shown))
<1> DEFINE E == RowElements(p, text, shown)
           tasks == IF shown = p.id THEN TasksOf(p, text) ELSE <<>>
           head == <<Element("project", p.id, None)>>
           tail == [i \in DOMAIN tasks |-> Element("task", p.id, tasks[i])]
<1>1. Row(p, text, shown) = head \o tail
  BY DEF Row
<1>2. /\ tasks \in Seq(Range(p.tasks))
      /\ Range(tasks) = IF shown = p.id THEN Range(TasksOf(p, text)) ELSE {}
      /\ IsInjective(p.tasks) => IsInjective(tasks)
  <2>1. CASE shown = p.id
    BY <2>1, TasksParts
  <2>2. CASE shown # p.id
    <3>1. tasks = <<>> /\ <<>> \in Seq(Range(p.tasks)) /\ DOMAIN <<>> = {}
      BY <2>2
    <3>2. Range(<<>>) = {} /\ IsInjective(<<>>)
      BY <3>1 DEF Range, IsInjective
    <3> HIDE DEF tasks
    <3> QED
      BY <2>2, <3>1, <3>2
  <2> QED
    BY <2>1, <2>2
<1> HIDE DEF tasks
<1>3. E = {Element("project", p.id, None)} \cup {Element("task", p.id, t) : t \in Range(tasks)}
  BY <1>2 DEF RowElements
<1> HIDE DEF E
<1>4. head \in Seq(E) /\ Range(head) = {Element("project", p.id, None)} /\ IsInjective(head)
  <2>1. Element("project", p.id, None) \in E
    BY <1>3
  <2>2. head \in Seq(E) /\ DOMAIN head = {1} /\ head[1] = Element("project", p.id, None)
    BY <2>1
  <2> QED
    BY <2>2 DEF Range, IsInjective
<1>5. /\ DOMAIN tail = 1 .. Len(tasks) /\ DOMAIN tasks = 1 .. Len(tasks) /\ Len(tasks) \in Nat
      /\ \A i \in DOMAIN tasks : tail[i] = Element("task", p.id, tasks[i]) /\ tasks[i] \in Range(tasks)
  BY <1>2 DEF Range
<1>6. tail \in Seq(E)
  <2>1. \A i \in 1 .. Len(tasks) : tail[i] \in E
    BY <1>3, <1>5
  <2>2. tail = [i \in 1 .. Len(tasks) |-> tail[i]]
    BY <1>5
  <2> HIDE DEF tail
  <2> QED
    BY <1>5, <2>1, <2>2
<1>7. Range(tail) = {Element("task", p.id, t) : t \in Range(tasks)}
  BY <1>5 DEF Range
<1>8. ASSUME IsInjective(p.tasks)
      PROVE  IsInjective(tail)
  <2>1. IsInjective(tasks)
    BY <1>2, <1>8
  <2>2. \A i, j \in DOMAIN tasks : tail[i] = tail[j] => tasks[i] = tasks[j]
    BY <1>5 DEF Element
  <2> HIDE DEF tail
  <2> QED
    BY <1>5, <2>1, <2>2 DEF IsInjective
<1>9. Range(head) \cap Range(tail) = {}
  BY <1>4, <1>7 DEF Element
<1> HIDE DEF head, tail
<1>10. head \o tail \in Seq(E) /\ Range(head \o tail) = E
  BY <1>3, <1>4, <1>6, <1>7, ConcatParts
<1>11. IsInjective(p.tasks) => IsInjective(head \o tail)
  BY <1>4, <1>6, <1>8, <1>9, ConcatInjective
<1> QED
  BY <1>1, <1>10, <1>11 DEF E

\* The options of the rows for the projects in the catalogue.
Buttons(c, text, shown) == UNION {RowElements(p, text, shown) : p \in Range(Filtered(c, text))}

\* The options are the buttons of the rows, each once, whatever the favorites.
LEMMA OptionsParts ==
    ASSUME NEW c \in Catalogues, NEW favs, NEW text, NEW shown
    PROVE  /\ OptionsOf(c, favs, text, shown) \in Seq(Buttons(c, text, shown))
           /\ Range(OptionsOf(c, favs, text, shown)) = Buttons(c, text, shown)
           /\ ListedOnce => IsInjective(OptionsOf(c, favs, text, shown))
<1> DEFINE rows == Rows(c, favs, text)
           B == Buttons(c, text, shown)
           ss == [i \in DOMAIN rows |-> Row(rows[i], text, shown)]
<1>1. OptionsOf(c, favs, text, shown) = FlattenSeq(ss)
  BY DEF OptionsOf
<1>2. /\ rows \in Seq(Range(c))
      /\ Range(rows) = Range(Filtered(c, text))
      /\ ListedOnce => IsInjective(rows)
  BY RowsParts
<1> HIDE DEF rows
<1>3. /\ DOMAIN ss = DOMAIN rows /\ DOMAIN rows = 1 .. Len(rows) /\ Len(rows) \in Nat
      /\ \A i \in DOMAIN rows : rows[i] \in Range(c) /\ rows[i] \in Range(Filtered(c, text))
  BY <1>2 DEF Range
<1>4. Range(c) \subseteq Projects
  BY DEF Projects
<1>5. ASSUME NEW i \in DOMAIN rows
      PROVE  /\ ss[i] \in Seq(B)
             /\ Range(ss[i]) = RowElements(rows[i], text, shown)
             /\ IsInjective(rows[i].tasks) => IsInjective(ss[i])
  <2>1. ss[i] = Row(rows[i], text, shown) /\ rows[i] \in Projects
    BY <1>3, <1>4
  <2>2. RowElements(rows[i], text, shown) \subseteq B
    BY <1>3 DEF Buttons
  <2>3. Seq(RowElements(rows[i], text, shown)) \subseteq Seq(B)
    <3> HIDE DEF B
    <3> QED
      BY <2>2
  <2> HIDE DEF ss, B
  <2> QED
    BY <2>1, <2>3, RowParts
<1>6. ss \in Seq(Seq(B))
  <2>1. \A i \in 1 .. Len(rows) : ss[i] \in Seq(B)
    BY <1>3, <1>5
  <2>2. ss = [i \in 1 .. Len(rows) |-> ss[i]]
    BY <1>3
  <2> HIDE DEF ss, B
  <2> QED
    BY <1>3, <2>1, <2>2
<1> HIDE DEF ss
<1>7. FlattenSeq(ss) \in Seq(B) /\ Range(FlattenSeq(ss)) = UNION {Range(ss[i]) : i \in DOMAIN rows}
  <2> HIDE DEF B
  <2> QED
    BY <1>3, <1>6, FlattenParts
<1>8. UNION {Range(ss[i]) : i \in DOMAIN rows} = B
  <2>1. \A i \in DOMAIN rows : Range(ss[i]) = RowElements(rows[i], text, shown)
    BY <1>5
  <2>2. \A p \in Range(Filtered(c, text)) : \E i \in DOMAIN rows : p = rows[i]
    BY <1>2 DEF Range
  <2> QED
    BY <1>3, <2>1, <2>2 DEF Buttons
<1>9. ASSUME ListedOnce
      PROVE  IsInjective(FlattenSeq(ss))
  <2>1. IsInjective(rows)
    BY <1>2, <1>9
  <2>2. \A i \in DOMAIN rows : IsInjective(ss[i])
    BY <1>3, <1>5, <1>9 DEF ListedOnce
  <2>3. ASSUME NEW i \in DOMAIN rows, NEW j \in DOMAIN rows, i # j
        PROVE  Range(ss[i]) \cap Range(ss[j]) = {}
    <3>1. rows[i].id # rows[j].id
      <4>1. rows[i] # rows[j]
        BY <2>1, <2>3 DEF IsInjective
      <4>2. PICK k \in DOMAIN c : rows[i] = c[k]
        BY <1>3 DEF Range
      <4>3. PICK l \in DOMAIN c : rows[j] = c[l]
        BY <1>3 DEF Range
      <4> QED
        BY <1>9, <4>1, <4>2, <4>3 DEF ListedOnce
    <3>2. \A x \in Range(ss[i]) : x.project = rows[i].id
      BY <1>5 DEF RowElements, Element
    <3>3. \A x \in Range(ss[j]) : x.project = rows[j].id
      BY <1>5 DEF RowElements, Element
    <3> QED
      BY <3>1, <3>2, <3>3
  <2> HIDE DEF B
  <2> QED
    BY <1>3, <1>6, <2>2, <2>3, FlattenInjective
<1> QED
  BY <1>1, <1>7, <1>8, <1>9

----------------------------------------------------------------------------
(* Types, and what the form is given. *)

\* Where the focus may be, whatever the favorites.
Places(c, text, shown) ==
    {SearchField}
    \cup UNION {RowElements(p, text, shown) \cup {Element("star", p.id, None)} : p \in Range(Filtered(c, text))}

\* The elements of the dropdown are its places.
LEMMA ElementsParts ==
    ASSUME NEW c \in Catalogues, NEW favs, NEW text, NEW shown, NEW options,
           options = OptionsOf(c, favs, text, shown)
    PROVE  {SearchField} \cup Range(options) \cup {Element("star", o.project, None) : o \in Range(options)}
           = Places(c, text, shown)
<1>1. Range(options) = Buttons(c, text, shown)
  BY OptionsParts
<1>2. {Element("star", o.project, None) : o \in Buttons(c, text, shown)}
      = {Element("star", p.id, None) : p \in Range(Filtered(c, text))}
  <2>1. \A p \in Range(Filtered(c, text)) : \A o \in RowElements(p, text, shown) : o.project = p.id
    BY DEF RowElements, Element
  <2>2. ASSUME NEW p \in Range(Filtered(c, text))
        PROVE  \E o \in RowElements(p, text, shown) : o.project = p.id
    <3>1. Element("project", p.id, None) \in RowElements(p, text, shown)
      BY DEF RowElements
    <3>2. Element("project", p.id, None).project = p.id
      BY DEF Element
    <3> QED
      BY <3>1, <3>2
  <2> QED
    BY <2>1, <2>2 DEF Buttons
<1> QED
  BY <1>1, <1>2 DEF Places, Buttons

\* What a place is.
LEMMA PlaceIs ==
    ASSUME NEW c \in Catalogues, NEW text, NEW shown, NEW x \in Places(c, text, shown)
    PROVE  \/ x = SearchField
           \/ \E p \in Range(Filtered(c, text)) :
                 /\ p \in Range(c) /\ p \in Projects /\ p.id \in Ids
                 /\ \/ x = Element("project", p.id, None)
                    \/ x = Element("star", p.id, None)
                    \/ /\ shown = p.id
                       /\ \E t \in Range(TasksOf(p, text)) :
                             /\ t \in Range(p.tasks) /\ t # None
                             /\ x = Element("task", p.id, t)
<1>1. SUFFICES ASSUME x # SearchField
               PROVE  \E p \in Range(Filtered(c, text)) :
                         /\ p \in Range(c) /\ p \in Projects /\ p.id \in Ids
                         /\ \/ x = Element("project", p.id, None)
                            \/ x = Element("star", p.id, None)
                            \/ /\ shown = p.id
                               /\ \E t \in Range(TasksOf(p, text)) :
                                     /\ t \in Range(p.tasks) /\ t # None
                                     /\ x = Element("task", p.id, t)
  OBVIOUS
<1>2. PICK p \in Range(Filtered(c, text)) : x \in RowElements(p, text, shown) \cup {Element("star", p.id, None)}
  BY <1>1 DEF Places
<1>3. p \in Range(c) /\ p \in Projects /\ p.id \in Ids
  <2>1. p \in Range(c)
    BY RowsParts
  <2> QED
    BY <2>1 DEF Projects, Ids
<1>4. \A t \in Range(TasksOf(p, text)) : t \in Range(p.tasks) /\ t # None
  BY <1>3, TasksParts, SelectorAssumption DEF SelectorAssumption
<1>5. \/ x = Element("project", p.id, None)
      \/ x = Element("star", p.id, None)
      \/ shown = p.id /\ \E t \in Range(TasksOf(p, text)) : x = Element("task", p.id, t)
  BY <1>2 DEF RowElements
<1> QED
  BY <1>3, <1>4, <1>5

\* The focus walks from a place to a place.
LEMMA WalkStays ==
    ASSUME NEW x, NEW step, TypeOK
    PROVE  Walk(x, step) \in {x} \cup Elements
<1>1. Options \in Seq(Buttons(catalogue, search, expanded))
  BY OptionsParts DEF Options, TypeOK
<1>2. Options # <<>> => 1 \in DOMAIN Options
  BY <1>1
<1>3. \A i \in DOMAIN Options : Options[i] \in Range(Options)
  BY DEF Range
<1>4. CASE x = SearchField
  <2>1. Walk(x, step) = IF step = 1 /\ Options # <<>> THEN Options[1] ELSE x
    BY <1>4 DEF Walk
  <2> QED
    BY <1>2, <1>3, <2>1 DEF Elements
<1>5. CASE x # SearchField
  <2>1. \E i : Walk(x, step) = IF i \in DOMAIN Options THEN Options[i] ELSE SearchField
    BY <1>5 DEF Walk
  <2> QED
    BY <1>3, <2>1 DEF Elements
<1> QED
  BY <1>4, <1>5

\* The task with the focus has been in the catalogue under its project, and so has the choice.
FocusOffered ==
    /\ Pairs(catalogue) \subseteq offered
    /\ at.kind = "task" => [project |-> at.project, task |-> at.task] \in offered

Invariant == TypeOK /\ FocusOffered /\ ChoiceOffered

\* A place of the dropdown shows a task only with its project.
LEMMA PlaceOffered ==
    ASSUME NEW c \in Catalogues, NEW text, NEW shown, NEW x \in Places(c, text, shown) \cup {Lost},
           x.kind = "task"
    PROVE  [project |-> x.project, task |-> x.task] \in Pairs(c)
<1>1. x # Lost /\ x # SearchField
  BY DEF Lost, SearchField, Element
<1>2. PICK p \in Range(c) : \E t \in Range(p.tasks) : x = Element("task", p.id, t)
  BY <1>1, PlaceIs DEF Element
<1> QED
  BY <1>2 DEF Pairs, Element

\* Elements in terms of the state.
LEMMA ElementsArePlaces == catalogue \in Catalogues => Elements = Places(catalogue, search, expanded)
BY ElementsParts DEF Elements, Options

\* A row that stays keeps its place, whatever the new projects.
LEMMA RenderedPlace ==
    ASSUME TypeOK, NEW c \in Catalogues, NEW favs
    PROVE  /\ Rendered(c, favs) \in {at, Lost}
           /\ open => Rendered(c, favs) \in Places(c, search, expanded) \cup {Lost}
<1> DEFINE new == Rendered(c, favs)
<1>1. new \in {at, Lost}
  BY DEF Rendered
<1>2. ASSUME open, new # Lost, at # SearchField
      PROVE  at \in Places(c, search, expanded)
  <2>1. at \in Places(catalogue, search, expanded) /\ at # Lost
    BY <1>1, <1>2, ElementsArePlaces DEF TypeOK
  <2>2. PICK p \in Range(Rows(c, favs, search)) :
            p.id = at.project /\ at.task \in {None} \cup Range(TasksOf(p, search))
    BY <1>2, <2>1 DEF Rendered
  <2>3. p \in Range(Filtered(c, search))
    BY <2>2, RowsParts
  <2>4. RowElements(p, search, expanded) \cup {Element("star", p.id, None)} \subseteq Places(c, search, expanded)
    BY <2>3 DEF Places
  <2>5. PICK q \in Projects : \/ at = Element("project", q.id, None)
                              \/ at = Element("star", q.id, None)
                              \/ /\ expanded = q.id
                                 /\ \E t : t # None /\ at = Element("task", q.id, t)
    <3>1. catalogue \in Catalogues
      BY DEF TypeOK
    <3> QED
      BY <1>2, <2>1, <3>1, PlaceIs
  <2>6. p.id = q.id
    BY <2>2, <2>5 DEF Element
  <2>7. CASE at = Element("project", q.id, None) \/ at = Element("star", q.id, None)
    BY <2>4, <2>6, <2>7 DEF RowElements
  <2>8. CASE expanded = q.id /\ \E t : t # None /\ at = Element("task", q.id, t)
    <3>1. PICK t : t # None /\ at = Element("task", q.id, t)
      BY <2>8
    <3>2. t \in Range(TasksOf(p, search))
      BY <2>2, <3>1 DEF Element
    <3>3. at \in RowElements(p, search, expanded)
      BY <2>6, <2>8, <3>1, <3>2 DEF RowElements
    <3> QED
      BY <2>4, <3>3
  <2> QED
    BY <2>5, <2>7, <2>8
<1>3. SearchField \in Places(c, search, expanded)
  BY DEF Places
<1> HIDE DEF new
<1> QED
  BY <1>1, <1>2, <1>3 DEF new

\* The same in the next state.
LEMMA NextElementsArePlaces ==
    catalogue' \in Catalogues => Elements' = Places(catalogue', search', expanded')
<1>1. Options' = OptionsOf(catalogue', favorites', search', expanded')
  BY DEF Options
<1>2. Elements' = {SearchField} \cup Range(Options') \cup {Element("star", o.project, None) : o \in Range(Options')}
  BY DEF Elements
<1> QED
  BY <1>1, <1>2, ElementsParts

LEMMA InvariantInit == Init => Invariant
<1> SUFFICES ASSUME Init PROVE Invariant
  OBVIOUS
<1>1. TypeOK
  BY DEF Init, TypeOK
<1>2. FocusOffered
  BY DEF Init, FocusOffered, Lost, Element
<1>3. ChoiceOffered
  BY DEF Init, ChoiceOffered
<1> QED
  BY <1>1, <1>2, <1>3 DEF Invariant

\* A step of the user or the sidebar in which the focus stays or goes to a place of the
\* dropdown as it is then.
LEMMA FocusStep ==
    ASSUME Invariant,
           at' \in {at, Lost} \/ at' \in Places(catalogue, search, expanded) \cup {Lost},
           offered' = offered \cup Pairs(catalogue'),
           offered \subseteq offered'
    PROVE  FocusOffered'
<1>1. Pairs(catalogue') \subseteq offered'
  OBVIOUS
<1>2. ASSUME at'.kind = "task"
      PROVE  [project |-> at'.project, task |-> at'.task] \in offered'
  <2>1. Lost.kind # "task"
    BY DEF Lost, Element
  <2>2. CASE at' = at
    BY <1>2, <2>2 DEF Invariant, FocusOffered
  <2>3. CASE at' \in Places(catalogue, search, expanded) \cup {Lost}
    <3>1. catalogue \in Catalogues /\ Pairs(catalogue) \subseteq offered
      BY DEF Invariant, TypeOK, FocusOffered
    <3>2. [project |-> at'.project, task |-> at'.task] \in Pairs(catalogue)
      BY <1>2, <2>3, <3>1, PlaceOffered
    <3> QED
      BY <3>1, <3>2
  <2> QED
    BY <1>2, <2>1, <2>2, <2>3
<1> QED
  BY <1>1, <1>2 DEF FocusOffered

LEMMA InvariantStep == Invariant /\ [Next]_vars => Invariant'
<1> SUFFICES ASSUME Invariant, [Next]_vars PROVE Invariant'
  OBVIOUS
<1> USE DEF Invariant
<1>0. /\ catalogue \in Catalogues
      /\ Elements = Places(catalogue, search, expanded)
      /\ catalogue' \in Catalogues => Elements' = Places(catalogue', search', expanded')
      /\ SearchField \in Places(catalogue', search', expanded')
      /\ SearchField \in Places(catalogue, search, expanded)
  BY ElementsArePlaces, NextElementsArePlaces DEF TypeOK, Places
<1>1. CASE Open
  <2>1. TypeOK'
    BY <1>0, <1>1 DEF Open, TypeOK
  <2>2. FocusOffered' /\ ChoiceOffered'
    BY <1>1 DEF Open, FocusOffered, ChoiceOffered, SearchField, Element
  <2> QED
    BY <2>1, <2>2
<1>2. CASE Close
  <2>1. TypeOK'
    BY <1>2 DEF Close, Closed, TypeOK
  <2>2. FocusOffered' /\ ChoiceOffered'
    BY <1>2 DEF Close, Closed, FocusOffered, ChoiceOffered, Lost, Element
  <2> QED
    BY <2>1, <2>2
<1>3. CASE Search
  <2>1. TypeOK'
    BY <1>0, <1>3 DEF Search, Shown, TypeOK
  <2>2. FocusOffered' /\ ChoiceOffered'
    BY <1>3 DEF Search, Shown, FocusOffered, ChoiceOffered
  <2> QED
    BY <2>1, <2>2
<1>4. CASE Focus
  <2>1. TypeOK'
    BY <1>0, <1>4 DEF Focus, Shown, TypeOK
  <2>2. at' \in Places(catalogue, search, expanded)
    BY <1>0, <1>4 DEF Focus
  <2>3. FocusOffered'
    BY <1>4, <2>2, FocusStep DEF Focus, Shown, FocusOffered
  <2>4. ChoiceOffered'
    BY <1>4 DEF Focus, Shown, ChoiceOffered
  <2> QED
    BY <2>1, <2>3, <2>4
<1>5. CASE Arrow
  <2>1. at \in Elements
    BY <1>5 DEF Arrow, TypeOK
  <2>2. at' \in Places(catalogue, search, expanded)
    BY <1>0, <1>5, <2>1, WalkStays DEF Arrow
  <2>3. TypeOK'
    BY <1>0, <1>5, <2>2 DEF Arrow, Shown, TypeOK
  <2>4. FocusOffered'
    BY <1>5, <2>2, FocusStep DEF Arrow, Shown, FocusOffered
  <2>5. ChoiceOffered'
    BY <1>5 DEF Arrow, Shown, ChoiceOffered
  <2> QED
    BY <2>3, <2>4, <2>5
<1>6. CASE ToggleProject
  <2>1. at \in Places(catalogue, search, expanded) /\ at # Lost /\ at # SearchField
    BY <1>0, <1>6 DEF ToggleProject, TypeOK, Lost, SearchField, Element
  <2>2. PICK p \in Range(Filtered(catalogue, search)) : p.id \in Ids /\ at = Element("project", p.id, None)
    BY <1>0, <1>6, <2>1, PlaceIs DEF ToggleProject, Element
  <2>3. expanded' \in Ids \cup {None}
    BY <1>6, <2>2 DEF ToggleProject, Element
  <2>4. at \in Places(catalogue, search, expanded')
    BY <2>2 DEF Places, RowElements
  <2>5. TypeOK'
    BY <1>0, <1>6, <2>3, <2>4 DEF ToggleProject, Shown, TypeOK
  <2>6. FocusOffered' /\ ChoiceOffered'
    BY <1>6 DEF ToggleProject, Shown, FocusOffered, ChoiceOffered
  <2> QED
    BY <2>5, <2>6
<1>7. CASE PickTask
  <2>1. TypeOK'
    BY <1>7 DEF PickTask, Closed, TypeOK
  <2>2. FocusOffered'
    BY <1>7 DEF PickTask, Closed, FocusOffered, Lost, Element
  <2>3. ChoiceOffered'
    BY <1>7 DEF PickTask, Closed, FocusOffered, ChoiceOffered
  <2> QED
    BY <2>1, <2>2, <2>3
<1>8. CASE ToggleFavorite
  <2>1. at \in Places(catalogue, search, expanded) /\ at # SearchField
    BY <1>0, <1>8 DEF ToggleFavorite, TypeOK, Lost, SearchField, Element
  <2>2. at.project \in Ids
    BY <1>0, <2>1, PlaceIs DEF Element
  <2>3. stored' \subseteq Ids
    BY <1>8, <2>2 DEF ToggleFavorite, Toggled, TypeOK
  <2>4. at' \in {at, Lost}
    BY <1>0, <1>8, RenderedPlace DEF ToggleFavorite
  <2>5. TypeOK'
    BY <1>0, <1>8, <2>1, <2>3, <2>4 DEF ToggleFavorite, TypeOK
  <2>6. FocusOffered' /\ ChoiceOffered'
    BY <1>8, <2>4 DEF ToggleFavorite, FocusOffered, ChoiceOffered, Lost, Element
  <2> QED
    BY <2>5, <2>6
<1>9. CASE ChooseEntry
  <2>1. TypeOK'
    BY <1>9 DEF ChooseEntry, TypeOK
  <2>2. FocusOffered'
    BY <1>9 DEF ChooseEntry, FocusOffered
  <2>3. PICK d \in Done : Resolved(d) /\ choice' = d
    BY <1>9 DEF ChooseEntry
  <2>4. d \in Pairs(catalogue)
    <3>1. d = [project |-> d.project, task |-> d.task]
      BY SelectorAssumption DEF SelectorAssumption
    <3>2. PICK p \in Range(catalogue) : p.id = d.project /\ d.task \in Range(p.tasks)
      BY <2>3 DEF Resolved
    <3>3. [project |-> p.id, task |-> d.task] \in Pairs(catalogue)
      BY <3>2 DEF Pairs
    <3> QED
      BY <3>1, <3>2, <3>3
  <2>5. ChoiceOffered'
    BY <1>9, <2>3, <2>4 DEF ChooseEntry, FocusOffered, ChoiceOffered
  <2> QED
    BY <2>1, <2>2, <2>5
<1>10. CASE Reload
  <2>1. catalogue' \in Catalogues /\ at' = Rendered(catalogue', favorites)
    BY <1>10 DEF Reload
  <2>2. at' \in {at, Lost} /\ (open => at' \in Places(catalogue', search, expanded) \cup {Lost})
    BY <2>1, RenderedPlace
  <2>3. TypeOK'
    BY <1>0, <1>10, <2>1, <2>2 DEF Reload, TypeOK
  <2>4. FocusOffered'
    BY <1>10, <2>2, FocusStep DEF Reload
  <2>5. ChoiceOffered'
    BY <1>10 DEF Reload, ChoiceOffered
  <2> QED
    BY <2>3, <2>4, <2>5
<1>11. CASE ToggleElsewhere
  <2>1. stored' \subseteq Ids
    BY <1>11 DEF ToggleElsewhere, Toggled, TypeOK
  <2>2. TypeOK'
    BY <1>0, <1>11, <2>1 DEF ToggleElsewhere, TypeOK
  <2>3. FocusOffered' /\ ChoiceOffered'
    BY <1>11 DEF ToggleElsewhere, FocusOffered, ChoiceOffered
  <2> QED
    BY <2>2, <2>3
<1>12. CASE UNCHANGED vars
  <2>1. TypeOK'
    BY <1>0, <1>12 DEF vars, TypeOK
  <2>2. FocusOffered' /\ ChoiceOffered'
    BY <1>12 DEF vars, FocusOffered, ChoiceOffered
  <2> QED
    BY <2>1, <2>2
<1> QED
  BY <1>1, <1>2, <1>3, <1>4, <1>5, <1>6, <1>7, <1>8, <1>9, <1>10, <1>11, <1>12 DEF Next

\* Every variable of the selector keeps its type, and the focus is in the dropdown or lost.
THEOREM TypesHold == Spec => []TypeOK
<1>1. Spec => []Invariant
  BY InvariantInit, InvariantStep, PTL DEF Spec
<1>2. Invariant => TypeOK
  BY DEF Invariant
<1> QED
  BY <1>1, <1>2, PTL

\* The form is given a project and a task that the catalogue has had together, whatever is
\* searched, expanded and reloaded before it is picked.
THEOREM ChoiceOfferedHolds == Spec => []ChoiceOffered
<1>1. Spec => []Invariant
  BY InvariantInit, InvariantStep, PTL DEF Spec
<1>2. Invariant => ChoiceOffered
  BY DEF Invariant
<1> QED
  BY <1>1, <1>2, PTL

----------------------------------------------------------------------------
(* The arrow keys.  The search field is place 0, the options come after it. *)

Place(k) == IF k = 0 THEN SearchField ELSE Options[k]

\* The options are the buttons of the rows: nothing else, and nothing twice.
LEMMA PlacesApart ==
    ASSUME TypeOK, ListedOnce
    PROVE  /\ Options \in Seq(Range(Options))
           /\ DOMAIN Options = 1 .. Len(Options)
           /\ Len(Options) \in Nat
           /\ IsInjective(Options)
           /\ \A k \in 1 .. Len(Options) : Options[k].kind \in {"project", "task"}
<1> DEFINE B == Buttons(catalogue, search, expanded)
<1>1. Options \in Seq(B) /\ Range(Options) = B /\ IsInjective(Options)
  BY OptionsParts DEF Options, TypeOK
<1>2. \A x \in B : x.kind \in {"project", "task"}
  BY DEF Buttons, RowElements, Element
<1> HIDE DEF B
<1>3. \A k \in 1 .. Len(Options) : Options[k] \in B
  BY <1>1
<1> QED
  BY <1>1, <1>2, <1>3

\* The arrow down goes from each place to the next, and from the last to the search field.
LEMMA WalkDown ==
    ASSUME TypeOK, ListedOnce, NEW k \in 0 .. Len(Options), NEW x, OptionOf(x) = Place(k)
    PROVE  /\ Walk(x, 1) = Place(IF k = Len(Options) THEN 0 ELSE k + 1)
           /\ OptionOf(Walk(x, 1)) = Walk(x, 1)
<1>1. /\ DOMAIN Options = 1 .. Len(Options)
      /\ Len(Options) \in Nat
      /\ IsInjective(Options)
      /\ \A j \in 1 .. Len(Options) : Options[j].kind \in {"project", "task"}
      /\ Options # <<>> <=> Len(Options) # 0
  BY PlacesApart
<1>2. k # Len(Options) => k + 1 \in 1 .. Len(Options) /\ k + 1 \in 0 .. Len(Options) /\ k + 1 # 0
  <2> DEFINE L == Len(Options)
  <2>1. L \in Nat /\ k \in 0 .. L
    BY <1>1
  <2> HIDE DEF L
  <2>2. k # L => k + 1 \in 1 .. L /\ k + 1 \in 0 .. L /\ k + 1 # 0
    BY <2>1
  <2> QED
    BY <2>2 DEF L
<1>3. SearchField.kind = "search" /\ OptionOf(SearchField) = SearchField
  BY DEF SearchField, OptionOf, Element
<1>4. \A j \in 0 .. Len(Options) : OptionOf(Place(j)) = Place(j)
  BY <1>1, <1>3 DEF Place, OptionOf
<1>5. Walk(x, 1) = Place(IF k = Len(Options) THEN 0 ELSE k + 1)
  <2>1. CASE k = 0
    <3>1. OptionOf(x) = SearchField
      BY <2>1 DEF Place
    <3>2. x = SearchField
      BY <1>3, <3>1 DEF OptionOf, Element
    <3> QED
      BY <1>1, <2>1, <3>2 DEF Walk, Place
  <2>2. CASE k # 0
    <3>1. k \in 1 .. Len(Options) /\ OptionOf(x) = Options[k]
      BY <1>1, <2>2 DEF Place
    <3>2. x # SearchField
      BY <1>1, <1>3, <3>1
    <3>3. {j \in 1 .. Len(Options) : Options[j] = OptionOf(x)} = {k}
      BY <1>1, <3>1 DEF IsInjective
    <3>4. SelectInSeq(Options, LAMBDA o : o = OptionOf(x)) = Min({k})
      BY <3>3 DEF SelectInSeq
    <3>5. Min({k}) = k
      BY <3>1 DEF Min
    <3>6. Walk(x, 1) = IF k + 1 \in DOMAIN Options THEN Options[k + 1] ELSE SearchField
      BY <3>2, <3>4, <3>5 DEF Walk
    <3>7. CASE k = Len(Options)
      <4>1. k + 1 \notin DOMAIN Options
        BY <1>1, <3>7
      <4> QED
        BY <3>6, <3>7, <4>1 DEF Place
    <3>8. CASE k # Len(Options)
      <4>1. k + 1 \in DOMAIN Options /\ k + 1 # 0
        BY <1>2, <1>1, <3>8
      <4> QED
        BY <3>6, <3>8, <4>1 DEF Place
    <3> QED
      BY <3>7, <3>8
  <2> QED
    BY <2>1, <2>2
<1>6. (IF k = Len(Options) THEN 0 ELSE k + 1) \in 0 .. Len(Options)
  <2>1. CASE k = Len(Options)
    BY <1>1, <2>1
  <2>2. CASE k # Len(Options)
    <3>1. k + 1 \in 0 .. Len(Options)
      BY <1>2, <2>2
    <3> QED
      BY <2>2, <3>1
  <2> QED
    BY <2>1, <2>2
<1> QED
  BY <1>4, <1>5, <1>6

\* An element of the dropdown is in the row of an option, or is the search field.
LEMMA ElementHasPlace ==
    ASSUME TypeOK, ListedOnce, open, at # Lost
    PROVE  \E k \in 0 .. Len(Options) : OptionOf(at) = Place(k)
<1>1. at \in Places(catalogue, search, expanded)
  BY ElementsArePlaces DEF TypeOK
<1>2. Range(Options) = Buttons(catalogue, search, expanded) /\ catalogue \in Catalogues
  BY OptionsParts DEF Options, TypeOK
<1>3. DOMAIN Options = 1 .. Len(Options) /\ Len(Options) \in Nat
  BY PlacesApart
<1>4. CASE at = SearchField
  <2>1. OptionOf(at) = Place(0)
    BY <1>4 DEF OptionOf, Place, SearchField, Element
  <2> QED
    BY <1>3, <2>1
<1>5. CASE at # SearchField
  <2>1. PICK p \in Range(Filtered(catalogue, search)) :
            at \in RowElements(p, search, expanded) \cup {Element("star", p.id, None)}
    BY <1>1, <1>5 DEF Places
  <2>2. OptionOf(at) \in RowElements(p, search, expanded)
    BY <2>1 DEF RowElements, OptionOf, Element
  <2>3. OptionOf(at) \in Range(Options)
    BY <1>2, <2>2 DEF Buttons
  <2>4. PICK k \in 1 .. Len(Options) : OptionOf(at) = Options[k]
    BY <1>3, <2>3 DEF Range
  <2> QED
    BY <1>3, <2>4 DEF Place
<1> QED
  BY <1>4, <1>5

\* The walk of the arrow down, step by step.
Walks(f) == [i \in 0 .. Len(Options) + 1 |-> IF i = 0 THEN at ELSE Walk(f[i - 1], 1)]

\* After i steps down from place k the focus is i places further, around the search field.
LEMMA WalkedIs ==
    ASSUME TypeOK, ListedOnce, NEW k \in 0 .. Len(Options), OptionOf(at) = Place(k)
    PROVE  \E f : /\ f = Walks(f)
                  /\ \A i \in 1 .. Len(Options) + 1 :
                        f[i] = Place(IF k + i <= Len(Options) THEN k + i ELSE k + i - (Len(Options) + 1))
<1> DEFINE L == Len(Options)
           to(i) == IF k + i <= L THEN k + i ELSE k + i - (L + 1)
           f == [i \in 0 .. L + 1 |-> IF i = 0 THEN at ELSE Place(to(i))]
<1>1. L \in Nat
  BY PlacesApart
<1>2. ASSUME NEW i \in 0 .. L + 1, i # 0
      PROVE  f[i] = Walk(f[i - 1], 1)
  <2>1. i - 1 \in 0 .. L + 1 /\ to(i - 1) \in 0 .. L
    BY <1>1, <1>2
  <2>2. to(i) = IF to(i - 1) = L THEN 0 ELSE to(i - 1) + 1
    BY <1>1, <1>2
  <2>3. f[i] = Place(to(i)) /\ f[i - 1] = IF i - 1 = 0 THEN at ELSE Place(to(i - 1))
    BY <1>2, <2>1
  <2>4. OptionOf(f[i - 1]) = Place(to(i - 1))
    <3>1. CASE i - 1 = 0
      <4>1. to(i - 1) = k
        BY <3>1
      <4> HIDE DEF to, f
      <4> QED
        BY <2>3, <3>1, <4>1
    <3>2. CASE i - 1 # 0
      <4> HIDE DEF to, f
      <4>1. \A j \in 0 .. L : OptionOf(Place(j)) = Place(j)
        BY PlacesApart DEF Place, OptionOf, SearchField, Element
      <4> QED
        BY <2>1, <2>3, <3>2, <4>1
    <3> QED
      BY <3>1, <3>2
  <2> HIDE DEF to, f
  <2>5. Walk(f[i - 1], 1) = Place(IF to(i - 1) = L THEN 0 ELSE to(i - 1) + 1)
    BY <2>1, <2>4, WalkDown
  <2> QED
    BY <2>2, <2>3, <2>5
<1>3. f = Walks(f)
  <2>1. f = [i \in 0 .. L + 1 |-> f[i]] /\ f[0] = at
    BY <1>1
  <2> HIDE DEF f
  <2> QED
    BY <1>2, <2>1 DEF Walks
<1>4. \A i \in 1 .. L + 1 : f[i] = Place(IF k + i <= L THEN k + i ELSE k + i - (L + 1))
  BY <1>1
<1> HIDE DEF f
<1> QED
  BY <1>3, <1>4

\* There is one such walk.
LEMMA OneWalk ==
    ASSUME TypeOK, ListedOnce, NEW f, NEW g, f = Walks(f), g = Walks(g)
    PROVE  f = g
<1> DEFINE n == Len(Options) + 1
           S == {i \in 0 .. n : f[i] = g[i]}
<1>1. n \in Nat
  BY PlacesApart
<1> HIDE DEF n
<1>2. /\ f = [i \in 0 .. n |-> f[i]] /\ g = [i \in 0 .. n |-> g[i]]
      /\ f[0] = g[0]
      /\ \A i \in 0 .. n : i + 1 <= n => f[i + 1] = Walk(f[i], 1) /\ g[i + 1] = Walk(g[i], 1)
  <2>1. \A i \in 0 .. n : f[i] = IF i = 0 THEN at ELSE Walk(f[i - 1], 1)
    BY <1>1 DEF Walks, n
  <2>2. \A i \in 0 .. n : g[i] = IF i = 0 THEN at ELSE Walk(g[i - 1], 1)
    BY <1>1 DEF Walks, n
  <2>3. f = [i \in 0 .. n |-> f[i]] /\ g = [i \in 0 .. n |-> g[i]]
    BY DEF Walks, n
  <2>4. 0 \in 0 .. n
    BY <1>1
  <2>5. ASSUME NEW i \in 0 .. n, i + 1 <= n
        PROVE  f[i + 1] = Walk(f[i], 1) /\ g[i + 1] = Walk(g[i], 1)
    <3>1. i + 1 \in 0 .. n /\ i + 1 # 0 /\ i + 1 - 1 = i
      BY <1>1, <2>5
    <3> QED
      BY <2>1, <2>2, <3>1
  <2> QED
    BY <2>1, <2>2, <2>3, <2>4, <2>5
<1>3. 0 \in S
  BY <1>1, <1>2
<1>4. ASSUME NEW i \in 0 .. n, i \in S, i + 1 <= n
      PROVE  i + 1 \in S
  <2>1. i + 1 \in 0 .. n
    BY <1>1, <1>4
  <2>2. f[i] = g[i]
    BY <1>4
  <2>3. f[i + 1] = g[i + 1]
    BY <1>2, <1>4, <2>2
  <2> QED
    BY <2>1, <2>3
<1>5. \A i \in 0 .. n : i \in S
  <2> HIDE DEF S
  <2> QED
    BY <1>1, <1>3, <1>4, Induct
<1> QED
  BY <1>2, <1>5

\* In every state of the right types the arrow down comes to every option and back.
LEMMA ArrowsReach ==
    ASSUME TypeOK, ListedOnce
    PROVE  ArrowsReachEveryOption
<1> SUFFICES ASSUME open, at # Lost
             PROVE  LET n == Len(Options) + 1
                        walked[i \in 0..n] == IF i = 0 THEN at ELSE Walk(walked[i - 1], 1)
                    IN  /\ {walked[i] : i \in 1..n} = {SearchField} \cup Range(Options)
                        /\ walked[n] = OptionOf(at)
  BY DEF ArrowsReachEveryOption
<1> DEFINE L == Len(Options)
           walked == CHOOSE f : f = Walks(f)
           to(k, i) == IF k + i <= L THEN k + i ELSE k + i - (L + 1)
<1>1. L \in Nat /\ DOMAIN Options = 1 .. L
  BY PlacesApart
<1>2. PICK k \in 0 .. L : OptionOf(at) = Place(k)
  BY ElementHasPlace
<1>3. PICK f : f = Walks(f) /\ \A i \in 1 .. L + 1 : f[i] = Place(to(k, i))
  BY <1>2, WalkedIs
<1>4. walked = f
  BY <1>3, OneWalk
<1>5. {f[i] : i \in 1 .. L + 1} = {Place(j) : j \in 0 .. L}
  <2>1. \A i \in 1 .. L + 1 : to(k, i) \in 0 .. L
    BY <1>1
  <2>2. ASSUME NEW j \in 0 .. L
        PROVE  \E i \in 1 .. L + 1 : to(k, i) = j
    <3>1. CASE j > k
      <4>1. j - k \in 1 .. L + 1 /\ to(k, j - k) = j
        BY <1>1, <3>1
      <4> QED
        BY <4>1
    <3>2. CASE j <= k
      <4>1. j - k + L + 1 \in 1 .. L + 1 /\ to(k, j - k + L + 1) = j
        BY <1>1, <3>2
      <4> QED
        BY <4>1
    <3> QED
      BY <1>1, <3>1, <3>2
  <2> HIDE DEF to, L
  <2>3. \A i \in 1 .. L + 1 : f[i] \in {Place(j) : j \in 0 .. L}
    BY <1>3, <2>1
  <2>4. \A j \in 0 .. L : Place(j) \in {f[i] : i \in 1 .. L + 1}
    BY <1>3, <2>2
  <2> QED
    BY <2>3, <2>4
<1>6. {Place(j) : j \in 0 .. L} = {SearchField} \cup Range(Options)
  <2>1. Place(0) = SearchField /\ 0 \in 0 .. L
    BY <1>1 DEF Place
  <2>2. \A j \in 1 .. L : Place(j) = Options[j] /\ j \in 0 .. L
    BY <1>1 DEF Place
  <2>3. \A j \in 0 .. L : j = 0 \/ j \in 1 .. L
    BY <1>1
  <2> HIDE DEF L
  <2> QED
    BY <1>1, <2>1, <2>2, <2>3 DEF Range
<1>7. f[L + 1] = OptionOf(at)
  <2>1. L + 1 \in 1 .. L + 1 /\ to(k, L + 1) = k
    BY <1>1
  <2> HIDE DEF to
  <2> QED
    BY <1>2, <1>3, <2>1
<1>8. {walked[i] : i \in 1 .. L + 1} = {SearchField} \cup Range(Options) /\ walked[L + 1] = OptionOf(at)
  <2> HIDE DEF walked
  <2> QED
    BY <1>4, <1>5, <1>6, <1>7
<1> QED
  BY <1>8 DEF Walks

\* While the focus is in the dropdown the arrow down comes to every option, each once, and
\* back to the search field: for any search, favorites and reloads, and any catalogues that
\* list no project and no task of it twice.
THEOREM ArrowsReachHolds == ListedOnce => (Spec => []ArrowsReachEveryOption)
<1> SUFFICES ASSUME ListedOnce PROVE Spec => []ArrowsReachEveryOption
  OBVIOUS
<1>1. TypeOK => ArrowsReachEveryOption
  BY ArrowsReach
<1> QED
  BY <1>1, TypesHold, PTL
====
