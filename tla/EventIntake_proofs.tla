------------------------ MODULE EventIntake_proofs ------------------------
(***************************************************************************)
(* Proofs about EventIntake, for payloads with any number of categories    *)
(* and points and any retry limits: types, the retries, what a row tells   *)
(* of its payload, what is skipped, and what raises.                       *)
(***************************************************************************)
EXTENDS EventIntake, FiniteSetTheorems, TLAPS

-----------------------------------------------------------------------------
(* Induction on the natural numbers, stated of sets: the theorems of the     *)
(* library that take a predicate cannot be instantiated, but the well-       *)
(* foundedness of the strict subset ordering can.                            *)

\* Every set of natural numbers but the empty one has a least element.
LEMMA NatMin ==
    ASSUME NEW T \in SUBSET Nat, T # {}
    PROVE  \E n \in T : \A m \in T : n <= m
<1> DEFINE R == StrictSubsetOrdering(Nat)
           C == {0..n : n \in T}
<1>1. C \subseteq FiniteSubsetsOf(Nat)
  <2>1. ASSUME NEW n \in T PROVE 0..n \in FiniteSubsetsOf(Nat)
    <3>1. n \in Int /\ 0 \in Int /\ 0..n \in SUBSET Nat
      OBVIOUS
    <3>2. IsFiniteSet(0..n)
      BY <3>1, FS_Interval
    <3> QED BY <3>1, <3>2 DEF FiniteSubsetsOf
  <2> QED BY <2>1
<1>2. C # {}
  OBVIOUS
<1>3. IsWellFoundedOn(R, FiniteSubsetsOf(Nat))
  BY FS_StrictSubsetOrderingWellFounded
<1>4. \E x \in C : \A y \in C : ~(<<y, x>> \in R)
  <2> HIDE DEF C, R
  <2> QED BY <1>1, <1>2, <1>3, WFMin
<1>5. PICK n \in T : \A m \in T : ~(<<0..m, 0..n>> \in R)
  BY <1>4
<1>6. ASSUME NEW m \in T, m < n PROVE FALSE
  <2>1. /\ 0..m \subseteq 0..n /\ n \in 0..n /\ n \notin 0..m
        /\ 0..m \in SUBSET Nat /\ 0..n \in SUBSET Nat
    BY <1>6
  <2>2. <<0..m, 0..n>> \in R
    BY <2>1 DEF StrictSubsetOrdering
  <2> QED BY <2>2, <1>5
<1> QED BY <1>5, <1>6

\* A set with 0 and the successors of its numbers has all natural numbers.
LEMMA NatInd ==
    ASSUME NEW A, 0 \in A, \A n \in Nat : n \in A => n + 1 \in A
    PROVE  Nat \subseteq A
<1>1. SUFFICES ASSUME Nat \ A # {} PROVE FALSE
  OBVIOUS
<1>2. PICK n \in Nat \ A : \A m \in Nat \ A : n <= m
  BY <1>1, NatMin
<1>3. n - 1 \in Nat /\ n - 1 \notin Nat \ A
  BY <1>2
<1> QED BY <1>2, <1>3

-----------------------------------------------------------------------------
(* KeepAt and Latest, the operators that the cleaning and the transformation *)
(* of a payload rest on.                                                     *)

\* A function on 1..n is a sequence of length n.
LEMMA FunctionIsSeq ==
    ASSUME NEW S, NEW n \in Nat, NEW f \in [1..n -> S]
    PROVE  f \in Seq(S) /\ Len(f) = n /\ (f = <<>> <=> n = 0)
<1>1. f \in Seq(S) /\ Len(f) = n
  OBVIOUS
<1> QED BY <1>1

\* What a sequence has at its positions.
LEMMA SeqFacts ==
    ASSUME NEW S, NEW s \in Seq(S)
    PROVE  /\ Len(s) \in Nat
           /\ \A i \in 1..Len(s) : s[i] \in S /\ i \in Nat
           /\ s = <<>> <=> Len(s) = 0
           /\ s # <<>> => 1 \in 1..Len(s)
  OBVIOUS

\* The ranks of the kept positions number them from 1, in order.
LEMMA RankIsBijective ==
    ASSUME NEW n \in Nat, NEW I \in SUBSET (1..n),
           NEW R, R = [i \in I |-> Cardinality({j \in I : j <= i})]
    PROVE  /\ IsFiniteSet(I)
           /\ R \in Bijection(I, 1..Cardinality(I))
           /\ \A i, j \in I : i < j => R[i] < R[j]
<1> DEFINE B(i) == {j \in I : j <= i}
<1>1. IsFiniteSet(I) /\ Cardinality(I) \in Nat
  <2>1. 1 \in Int /\ n \in Int
    OBVIOUS
  <2>2. IsFiniteSet(1..n)
    BY <2>1, FS_Interval
  <2>3. IsFiniteSet(I)
    BY <2>2, FS_Subset
  <2> QED BY <2>3, FS_CardinalityType
<1>2. ASSUME NEW i \in I PROVE IsFiniteSet(B(i)) /\ Cardinality(B(i)) \in 1..Cardinality(I)
  <2>1. B(i) \in SUBSET I /\ i \in B(i)
    OBVIOUS
  <2>2. IsFiniteSet(B(i)) /\ Cardinality(B(i)) <= Cardinality(I)
    BY <1>1, <2>1, FS_Subset
  <2>3. Cardinality(B(i)) \in Nat
    BY <2>2, FS_CardinalityType
  <2>4. Cardinality(B(i)) # 0
    BY <2>1, <2>2, FS_EmptySet
  <2>5. \A c, d \in Nat : c # 0 /\ c <= d => c \in 1..d
    OBVIOUS
  <2> QED BY <2>2, <2>3, <2>4, <2>5, <1>1
<1>3. ASSUME NEW i \in I, NEW j \in I, i < j PROVE Cardinality(B(i)) < Cardinality(B(j))
  <2>1. B(i) \in SUBSET B(j) /\ j \in B(j) /\ j \notin B(i)
    <3>1. i < j /\ i \in Int /\ j \in Int /\ \A k \in I : k \in Int
      BY <1>3
    <3>2. \A k \in I : k <= i => k <= j
      BY <3>1
    <3>3. j <= j /\ ~(j <= i)
      BY <3>1
    <3> QED BY <3>2, <3>3
  <2>2. IsFiniteSet(B(j)) /\ Cardinality(B(j)) \in Nat /\ Cardinality(B(i)) \in Nat
    BY <1>2
  <2>3. Cardinality(B(i)) <= Cardinality(B(j)) /\ (Cardinality(B(j)) = Cardinality(B(i)) => B(j) = B(i))
    BY <2>1, <2>2, FS_Subset
  <2> QED BY <2>1, <2>2, <2>3
<1>4. R \in [I -> 1..Cardinality(I)]
  BY <1>2
<1>5. \A i, j \in I : i < j => R[i] < R[j]
  BY <1>3
<1>6. R \in Injection(I, 1..Cardinality(I))
  <2>1. ASSUME NEW i \in I, NEW j \in I, i # j PROVE R[i] # R[j]
    <3>1. i < j \/ j < i
      BY <2>1
    <3> QED BY <3>1, <1>5, <1>4
  <2> QED BY <1>4, <2>1 DEF Injection, IsInjective
<1>7. IsFiniteSet(1..Cardinality(I)) /\ Cardinality(1..Cardinality(I)) = Cardinality(I)
  <2>1. Cardinality(I) \in Int /\ 1 \in Int /\ Cardinality(I) >= 0
    BY <1>1
  <2>2. IsFiniteSet(1..Cardinality(I)) /\ Cardinality(1..Cardinality(I)) = IF 1 > Cardinality(I) THEN 0 ELSE Cardinality(I) - 1 + 1
    BY <2>1, FS_Interval
  <2> QED BY <2>1, <2>2
<1>8. R \in Surjection(I, 1..Cardinality(I))
  BY <1>6, <1>7, FS_Injection
<1> QED BY <1>1, <1>5, <1>6, <1>8 DEF Bijection
\* KeepAt returns the kept elements and no others, and first of all the one at
\* the first kept position.
LEMMA KeepAtFacts ==
    ASSUME NEW S, NEW s \in Seq(S), NEW I \in SUBSET (1..Len(s))
    PROVE  /\ KeepAt(s, I) \in Seq({s[i] : i \in I})
           /\ Elements(KeepAt(s, I)) = {s[i] : i \in I}
           /\ KeepAt(s, I) = <<>> <=> I = {}
           /\ I # {} => /\ Len(KeepAt(s, I)) > 0
                        /\ \E i \in I : /\ \A j \in I : i <= j
                                        /\ KeepAt(s, I)[1] = s[i]
<1> DEFINE R == [i \in I |-> Cardinality({j \in I : j <= i})]
           N == Cardinality(I)
           At(n) == CHOOSE i \in I : Cardinality({j \in I : j <= i}) = n
           K == [n \in 1..N |-> s[At(n)]]
<1>1. /\ IsFiniteSet(I)
      /\ R \in Bijection(I, 1..N)
      /\ \A i, j \in I : i < j => R[i] < R[j]
  <2>1. Len(s) \in Nat
    OBVIOUS
  <2> QED BY <2>1, RankIsBijective
<1>2. N \in Nat
  BY <1>1, FS_CardinalityType
<1>3. /\ R \in [I -> 1..N]
      /\ \A i, j \in I : R[i] = R[j] => i = j
      /\ \A n \in 1..N : \E i \in I : R[i] = n
  BY <1>1 DEF Bijection, Injection, IsInjective, Surjection
<1>4. \A n \in 1..N : At(n) \in I /\ R[At(n)] = n
  <2>1. ASSUME NEW n \in 1..N PROVE At(n) \in I /\ R[At(n)] = n
    <3>1. \E i \in I : Cardinality({j \in I : j <= i}) = n
      BY <1>3
    <3> QED BY <3>1
  <2> QED BY <2>1
<1>5. KeepAt(s, I) = K
  BY DEF KeepAt
<1>6. \A i \in I : R[i] \in 1..N /\ At(R[i]) = i
  <2> HIDE DEF R, At
  <2> QED BY <1>3, <1>4
<1> HIDE DEF R, At
<1>7. K \in [1..N -> {s[i] : i \in I}]
  BY <1>4
<1>8. K \in Seq({s[i] : i \in I}) /\ Len(K) = N
  BY <1>2, <1>7
<1>9. {K[n] : n \in 1..N} = {s[i] : i \in I}
  <2>1. \A n \in 1..N : K[n] \in {s[i] : i \in I}
    BY <1>7
  <2>2. \A i \in I : K[R[i]] = s[i] /\ R[i] \in 1..N
    BY <1>6
  <2> QED BY <2>1, <2>2
<1>10. Elements(K) = {s[i] : i \in I}
  BY <1>8, <1>9 DEF Elements
<1>11. K = <<>> <=> I = {}
  <2>1. N = 0 <=> I = {}
    BY <1>1, FS_EmptySet
  <2>2. K = <<>> <=> Len(K) = 0
    <3> HIDE DEF K
    <3> QED BY <1>8
  <2> QED BY <2>1, <2>2, <1>8
<1>12. ASSUME I # {}
       PROVE  Len(K) > 0 /\ \E i \in I : (\A j \in I : i <= j) /\ K[1] = s[i]
  <2>1. N > 0 /\ 1 \in 1..N
    BY <1>1, <1>2, <1>12, FS_EmptySet
  <2>2. At(1) \in I /\ R[At(1)] = 1 /\ K[1] = s[At(1)]
    BY <1>4, <2>1
  <2>3. ASSUME NEW j \in I PROVE At(1) <= j
    <3>1. j \in Int /\ At(1) \in Int
      <4>1. \A i \in 1..Len(s) : i \in Int
        OBVIOUS
      <4> QED BY <2>2, <4>1
    <3>2. R[j] \in 1..N
      BY <1>3
    <3>3. j < At(1) => R[j] < 1
      BY <1>1, <2>2
    <3> QED BY <1>2, <3>1, <3>2, <3>3
  <2> QED BY <1>8, <2>1, <2>2, <2>3
<1> QED BY <1>5, <1>8, <1>10, <1>11, <1>12

\* Among finitely many points one is the first of the latest, so Latest has
\* something to choose.
LEMMA LatestFacts ==
    ASSUME NEW gs \in Seq(PointType), gs # <<>>
    PROVE  /\ Latest(gs) \in 1..Len(gs)
           /\ \A j \in 1..Len(gs) : gs[j].date.at <= gs[Latest(gs)].date.at
           /\ \A j \in 1..(Latest(gs) - 1) : gs[j].date.at < gs[Latest(gs)].date.at
<1> DEFINE at(i) == gs[i].date.at
           IsLatest(i, n) == /\ i \in 1..n
                             /\ \A j \in 1..n : at(j) <= at(i)
                             /\ \A j \in 1..(i - 1) : at(j) < at(i)
           A == {n \in Nat : n \in 1..Len(gs) => \E i \in 1..n : IsLatest(i, n)}
<1>1. \A i \in 1..Len(gs) : at(i) \in Nat
  <2>1. \A i \in 1..Len(gs) : gs[i] \in PointType
    OBVIOUS
  <2>2. \A g \in PointType : g.date.at \in Nat
    BY DEF PointType, DateType
  <2> QED BY <2>1, <2>2
<1>2. Len(gs) \in Nat \ {0}
  OBVIOUS
<1> HIDE DEF at
<1>3. 0 \in A
  OBVIOUS
<1>4. ASSUME NEW n \in Nat, n \in A PROVE n + 1 \in A
  <2>1. SUFFICES ASSUME n + 1 \in 1..Len(gs) PROVE \E i \in 1..(n + 1) : IsLatest(i, n + 1)
    OBVIOUS
  <2>2. CASE n = 0
    <3>1. IsLatest(1, 1)
      BY <1>1, <1>2
    <3> QED BY <2>2, <3>1
  <2>3. CASE n # 0
    <3>1. n \in 1..Len(gs)
      BY <2>1, <2>3
    <3>2. PICK i \in 1..n : IsLatest(i, n)
      BY <1>4, <3>1
    <3>3. \A j \in 1..(n + 1) : at(j) \in Nat
      BY <1>1, <2>1
    <3>4. CASE at(n + 1) <= at(i)
      <4>1. IsLatest(i, n + 1)
        BY <3>2, <3>3, <3>4
      <4> QED BY <3>2, <4>1
    <3>5. CASE ~(at(n + 1) <= at(i))
      <4>1. IsLatest(n + 1, n + 1)
        BY <3>2, <3>3, <3>5
      <4> QED BY <4>1
    <3> QED BY <3>4, <3>5
  <2> QED BY <2>2, <2>3
<1>5. Len(gs) \in A
  <2> HIDE DEF A
  <2> QED BY <1>2, <1>3, <1>4, NatInd
<1>6. \E i \in 1..Len(gs) : IsLatest(i, Len(gs))
  BY <1>2, <1>5
<1> QED BY <1>6 DEF Latest, at

\* What CleanGeometry keeps: the points with two coordinates.
LEMMA CleanGeometryFacts ==
    ASSUME NEW gs \in Seq(PointType)
    PROVE  /\ CleanGeometry(gs) \in Seq(PointType)
           /\ Elements(CleanGeometry(gs)) = {g \in Elements(gs) : g.coords # "short"}
           /\ CleanGeometry(gs) = <<>> <=> {g \in Elements(gs) : g.coords # "short"} = {}
<1> DEFINE I == {i \in 1..Len(gs) : gs[i].coords # "short"}
<1>1. /\ CleanGeometry(gs) \in Seq({gs[i] : i \in I})
      /\ Elements(CleanGeometry(gs)) = {gs[i] : i \in I}
      /\ CleanGeometry(gs) = <<>> <=> I = {}
  BY KeepAtFacts DEF CleanGeometry
<1>2. {gs[i] : i \in I} = {g \in Elements(gs) : g.coords # "short"}
  BY DEF Elements
<1>3. \A i \in 1..Len(gs) : gs[i] \in PointType
  OBVIOUS
<1>4. CleanGeometry(gs) \in Seq(PointType)
  <2>1. {gs[i] : i \in I} \subseteq PointType
    BY <1>3
  <2> HIDE DEF I
  <2> QED BY <1>1, <2>1
<1>5. I = {} <=> {gs[i] : i \in I} = {}
  OBVIOUS
<1> QED BY <1>1, <1>2, <1>4, <1>5

\* What CleanCategories keeps: the categories that have a title, stripped.
LEMMA CleanCategoriesFacts ==
    ASSUME NEW cs \in Seq(CategoryTitles)
    PROVE  /\ "broken" \notin Elements(cs) => CleanCategories(cs) \in Seq({"", "text", "long"})
           /\ "long" \in Elements(CleanCategories(cs)) <=> "long" \in Elements(cs)
           /\ CleanCategories(cs) = <<>> <=> Elements(cs) \subseteq {"absent", "empty"}
           /\ CleanCategories(cs) # <<>> =>
                /\ CleanCategories(cs)[1] \in Elements(CleanCategories(cs))
                /\ \E i \in 1..Len(cs) :
                      /\ cs[i] \notin {"absent", "empty"}
                      /\ \A j \in 1..(i - 1) : cs[j] \in {"absent", "empty"}
                      /\ CleanCategories(cs)[1] = IF cs[i] = "blank" THEN "" ELSE cs[i]
<1> DEFINE I == {i \in 1..Len(cs) : cs[i] \notin {"absent", "empty"}}
           kept == KeepAt(cs, I)
           Strip(t) == IF t = "blank" THEN "" ELSE t
           C == [i \in 1..Len(kept) |-> Strip(kept[i])]
<1>1. /\ kept \in Seq({cs[i] : i \in I})
      /\ Elements(kept) = {cs[i] : i \in I}
      /\ kept = <<>> <=> I = {}
      /\ I # {} => Len(kept) > 0 /\ \E i \in I : (\A j \in I : i <= j) /\ kept[1] = cs[i]
  BY KeepAtFacts
<1>2. CleanCategories(cs) = C
  BY DEF CleanCategories
<1>3. {cs[i] : i \in I} = {t \in Elements(cs) : t \notin {"absent", "empty"}}
  BY DEF Elements
<1> HIDE DEF kept
<1>4. Len(kept) \in Nat
  BY <1>1
<1>5. /\ Len(C) = Len(kept)
      /\ C = <<>> <=> kept = <<>>
      /\ Elements(C) = {Strip(t) : t \in Elements(kept)}
  <2>0. C \in [1..Len(kept) -> {Strip(kept[i]) : i \in 1..Len(kept)}]
    OBVIOUS
  <2>1. Len(C) = Len(kept) /\ (C = <<>> <=> Len(kept) = 0)
    <3> HIDE DEF C
    <3> QED BY <1>4, <2>0, FunctionIsSeq
  <2>2. C = <<>> <=> kept = <<>>
    <3> HIDE DEF C
    <3> QED BY <1>1, <2>1, SeqFacts
  <2>3. Elements(C) = {Strip(t) : t \in Elements(kept)}
    <3>1. \A i \in 1..Len(kept) : C[i] = Strip(kept[i])
      OBVIOUS
    <3> HIDE DEF C, Strip
    <3> QED BY <2>1, <3>1 DEF Elements
  <2> QED BY <2>1, <2>2, <2>3
<1>6. ASSUME "broken" \notin Elements(cs) PROVE C \in Seq({"", "text", "long"})
  <2>1. \A i \in 1..Len(cs) : cs[i] \in CategoryTitles /\ cs[i] # "broken"
    BY <1>6 DEF Elements
  <2>2. \A i \in 1..Len(kept) : kept[i] \in {cs[j] : j \in I}
    BY <1>1
  <2>3. \A i \in 1..Len(kept) : Strip(kept[i]) \in {"", "text", "long"}
    BY <2>1, <2>2 DEF CategoryTitles
  <2>4. C \in [1..Len(kept) -> {"", "text", "long"}]
    BY <2>3
  <2> HIDE DEF C
  <2> QED BY <1>4, <2>4, FunctionIsSeq
<1>7. "long" \in Elements(C) <=> "long" \in Elements(cs)
  BY <1>1, <1>3, <1>5
<1>8. C = <<>> <=> Elements(cs) \subseteq {"absent", "empty"}
  <2>1. I = {} <=> {cs[i] : i \in I} = {}
    OBVIOUS
  <2> QED BY <1>1, <1>3, <1>5, <2>1
<1>9. ASSUME C # <<>>
      PROVE  /\ C[1] \in Elements(C)
             /\ \E i \in 1..Len(cs) : /\ cs[i] \notin {"absent", "empty"}
                                      /\ \A j \in 1..(i - 1) : cs[j] \in {"absent", "empty"}
                                      /\ C[1] = Strip(cs[i])
  <2>1. I # {}
    BY <1>1, <1>5, <1>9
  <2>2. PICK i \in I : (\A j \in I : i <= j) /\ kept[1] = cs[i] /\ Len(kept) > 0
    BY <1>1, <2>1
  <2>3. 1 \in 1..Len(kept) /\ C[1] = Strip(cs[i])
    <3>1. 1 \in 1..Len(kept)
      BY <1>4, <2>2
    <3> QED BY <2>2, <3>1
  <2>4. C[1] \in Elements(C)
    BY <1>5, <2>3 DEF Elements
  <2>5. ASSUME NEW j \in 1..(i - 1) PROVE cs[j] \in {"absent", "empty"}
    <3>1. i \in 1..Len(cs) /\ Len(cs) \in Nat
      OBVIOUS
    <3>2. j \in 1..Len(cs) /\ j < i
      BY <3>1
    <3>3. j \notin I
      BY <2>2, <3>1, <3>2
    <3> QED BY <3>2, <3>3
  <2> QED BY <2>3, <2>4, <2>5
<1> QED BY <1>2, <1>6, <1>7, <1>8, <1>9

\* A payload that cleaning does not choke on becomes a cleaned event.
LEMMA CleanType ==
    ASSUME NEW p \in PayloadType, ~CleaningRaises(p)
    PROVE  Clean(p) \in CleanedType
<1>1. CleanCategories(p.categories) \in Seq({"", "text", "long"})
  BY CleanCategoriesFacts DEF PayloadType, CleaningRaises
<1>2. CleanGeometry(p.geometry) \in Seq(PointType)
  BY CleanGeometryFacts DEF PayloadType
<1>3. CleanText(p.id) \in CleanTexts /\ CleanText(p.title) \in CleanTexts
  BY DEF PayloadType, Texts, CleanTexts, CleanText
<1> QED BY <1>1, <1>2, <1>3 DEF Clean, CleanedType, PayloadType

\* A validated event becomes a row that shows one of its latest points.
LEMMA TransformFacts ==
    ASSUME NEW c \in CleanedType, Validates(c)
    PROVE  /\ Transform(c) \in RowType
           /\ Transform(c).point \in Elements(c.geometry)
           /\ \A g \in Elements(c.geometry) : g.date.at <= Transform(c).point.date.at
<1>1. /\ c.geometry \in Seq(PointType) /\ c.geometry # <<>>
      /\ c.categories \in Seq({"", "text", "long"}) /\ c.categories # <<>>
  BY DEF CleanedType, Validates
<1>2. /\ Latest(c.geometry) \in 1..Len(c.geometry)
      /\ \A j \in 1..Len(c.geometry) : c.geometry[j].date.at <= c.geometry[Latest(c.geometry)].date.at
  BY <1>1, LatestFacts
<1>3. c.categories[1] \in {"", "text", "long"}
  BY <1>1, SeqFacts
<1>4. c.geometry[Latest(c.geometry)] \in PointType
  BY <1>1, <1>2, SeqFacts
<1>5. Transform(c) \in RowType
  BY <1>3, <1>4 DEF Transform, RowType, CleanedType
<1>6. Transform(c).point = c.geometry[Latest(c.geometry)]
  BY DEF Transform
<1> QED BY <1>2, <1>5, <1>6 DEF Elements

-----------------------------------------------------------------------------
(* The inductive invariant: what each phase knows of the payload, of the     *)
(* steps before it, and of the requests that were sent.                      *)

Delivered == {"received", "stored", "cleaned", "validated", "row", "skipped", "raised", "rejected"}

Stored == {"stored", "cleaned", "validated", "row", "skipped", "raised"}

PayloadIsKnown ==
    /\ phase \in Delivered => payload \in PayloadType
    /\ phase = "fetch" => source = "nobody"
    /\ phase \in Stored /\ source = "eonet" => Ingestible(payload) /\ payload.id # "long"

StepsSoFar ==
    LET c == Clean(payload)
    IN  /\ phase \in {"cleaned", "validated", "row", "skipped"} => ~CleaningRaises(payload)
        /\ phase \in {"cleaned", "validated"} => work = c
        /\ phase \in {"validated", "row", "skipped"} => ~ValidationRaises(c)
        /\ phase \in {"validated", "row"} => Validates(c)
        /\ phase = "skipped" => ~Validates(c)
        /\ phase = "row" => ~TransformRaises(c) /\ Fits(work) /\ work = Transform(c)
        /\ phase = "raised" =>
              \/ CleaningRaises(payload)
              \/ ValidationRaises(c)
              \/ Validates(c) /\ (TransformRaises(c) \/ ~Fits(Transform(c)))

RetriesSoFar ==
    /\ phase = "fetch" => attempts = 0 \/ attempts < maxRetries
    /\ GivesUpWhenExhausted

IntakeInv == IntakeTypeOK /\ PayloadIsKnown /\ StepsSoFar /\ RetriesSoFar

LEMMA IntakeInit_Inv == IntakeInit => IntakeInv
<1> SUFFICES ASSUME IntakeInit PROVE IntakeInv
  OBVIOUS
<1>1. maxRetries \in Int
  BY RetryLimitsAssumption DEF IntakeInit
<1>2. IntakeTypeOK
  BY DEF IntakeInit, IntakeTypeOK, Responses, Phases
<1>3. PayloadIsKnown /\ StepsSoFar
  BY DEF IntakeInit, PayloadIsKnown, StepsSoFar, Delivered, Stored
<1>4. RetriesSoFar
  BY <1>1 DEF IntakeInit, RetriesSoFar, GivesUpWhenExhausted, Transient
<1> QED BY <1>2, <1>3, <1>4 DEF IntakeInv

\* A request to EONET counts once; one that fails for the last time ends it.
LEMMA Attempt_Inv == IntakeInv /\ Attempt => IntakeInv'
<1> SUFFICES ASSUME IntakeInv, Attempt PROVE IntakeInv'
  OBVIOUS
<1>1. /\ maxRetries \in RetryLimits /\ maxRetries \in Int /\ attempts \in Nat
      /\ attempts = 0 \/ attempts < maxRetries
      /\ source = "nobody"
  BY RetryLimitsAssumption DEF IntakeInv, IntakeTypeOK, RetriesSoFar, PayloadIsKnown, Attempt
<1>2. /\ phase = "fetch" /\ attempts' = attempts + 1 /\ maxRetries' = maxRetries
      /\ phase' \in {"received", "fetch", "upstream_error", "server_error"}
      /\ response' \in Responses
      /\ phase' = "received" => payload' \in PayloadType /\ source' = "eonet"
      /\ phase' # "received" => payload' = payload /\ source' = source
  BY PayloadsAssumption DEF Attempt, Responses, Transient
<1>3. IntakeTypeOK'
  BY <1>1, <1>2 DEF IntakeInv, IntakeTypeOK, Phases
<1>4. PayloadIsKnown'
  BY <1>1, <1>2 DEF PayloadIsKnown, Delivered, Stored
<1>5. StepsSoFar'
  BY <1>2 DEF StepsSoFar
<1>6. RetriesSoFar'
  <2>1. phase' = "fetch" => ~Exhausted /\ response' \in {"transport", "5xx"}
    BY DEF Attempt, Retryable, Transient
  <2>2. phase' = "upstream_error" /\ response' \in {"transport", "5xx"} => Exhausted
    BY DEF Attempt, Retryable, Transient
  <2> QED BY <1>1, <1>2, <2>1, <2>2 DEF RetriesSoFar, GivesUpWhenExhausted, Exhausted
<1> QED BY <1>3, <1>4, <1>5, <1>6 DEF IntakeInv

\* No later step touches the count.
LEMMA RetriesStay ==
    ASSUME RetriesSoFar, phase' \notin {"fetch", "upstream_error"},
           UNCHANGED <<maxRetries, attempts, response>>
    PROVE  RetriesSoFar'
  BY DEF RetriesSoFar, GivesUpWhenExhausted

LEMMA Ingest_Inv == IntakeInv /\ Ingest => IntakeInv'
<1> SUFFICES ASSUME IntakeInv, Ingest PROVE IntakeInv'
  OBVIOUS
<1>1. /\ phase = "received" /\ phase' \in {"rejected", "server_error", "stored"}
      /\ phase' = "stored" => Ingestible(payload) /\ payload.id # "long"
      /\ UNCHANGED <<maxRetries, attempts, response, source, payload, work>>
  BY DEF Ingest
<1>2. IntakeTypeOK'
  BY <1>1 DEF IntakeInv, IntakeTypeOK, Phases
<1>3. PayloadIsKnown'
  BY <1>1 DEF IntakeInv, PayloadIsKnown, Delivered, Stored
<1>4. StepsSoFar'
  BY <1>1 DEF StepsSoFar
<1>5. RetriesSoFar'
  BY <1>1, RetriesStay DEF IntakeInv
<1> QED BY <1>2, <1>3, <1>4, <1>5 DEF IntakeInv

LEMMA CreateRaw_Inv == IntakeInv /\ CreateRaw => IntakeInv'
<1> SUFFICES ASSUME IntakeInv, CreateRaw PROVE IntakeInv'
  OBVIOUS
<1>1. /\ phase' = "stored" /\ source' = "client" /\ payload' \in PayloadType
      /\ UNCHANGED <<maxRetries, attempts, response, work>>
  BY PayloadsAssumption DEF CreateRaw
<1>2. IntakeTypeOK'
  BY <1>1 DEF IntakeInv, IntakeTypeOK, Phases
<1>3. PayloadIsKnown'
  BY <1>1 DEF PayloadIsKnown
<1>4. StepsSoFar'
  BY <1>1 DEF StepsSoFar
<1>5. RetriesSoFar'
  BY <1>1, RetriesStay DEF IntakeInv
<1> QED BY <1>2, <1>3, <1>4, <1>5 DEF IntakeInv

LEMMA CleanRaw_Inv == IntakeInv /\ CleanRaw => IntakeInv'
<1> SUFFICES ASSUME IntakeInv, CleanRaw PROVE IntakeInv'
  OBVIOUS
<1>1. /\ phase = "stored" /\ phase' \in {"raised", "cleaned"}
      /\ phase' = "raised" => CleaningRaises(payload) /\ work' = work
      /\ phase' = "cleaned" => ~CleaningRaises(payload) /\ work' = Clean(payload)
      /\ UNCHANGED <<maxRetries, attempts, response, source, payload>>
  BY DEF CleanRaw
<1>2. payload \in PayloadType
  BY <1>1 DEF IntakeInv, PayloadIsKnown, Delivered
<1>3. IntakeTypeOK'
  <2>1. phase' = "cleaned" => work' \in CleanedType
    BY <1>1, <1>2, CleanType
  <2> QED BY <1>1, <2>1 DEF IntakeInv, IntakeTypeOK, Phases
<1>4. PayloadIsKnown'
  BY <1>1 DEF IntakeInv, PayloadIsKnown, Delivered, Stored
<1>5. StepsSoFar'
  BY <1>1 DEF StepsSoFar
<1>6. RetriesSoFar'
  BY <1>1, RetriesStay DEF IntakeInv
<1> QED BY <1>3, <1>4, <1>5, <1>6 DEF IntakeInv

LEMMA ValidateCleaned_Inv == IntakeInv /\ ValidateCleaned => IntakeInv'
<1> SUFFICES ASSUME IntakeInv, ValidateCleaned PROVE IntakeInv'
  OBVIOUS
<1>1. /\ phase = "cleaned" /\ phase' \in {"raised", "validated", "skipped"}
      /\ phase' = "raised" => ValidationRaises(work)
      /\ phase' = "validated" => ~ValidationRaises(work) /\ Validates(work)
      /\ phase' = "skipped" => ~ValidationRaises(work) /\ ~Validates(work)
      /\ UNCHANGED <<maxRetries, attempts, response, source, payload, work>>
  BY DEF ValidateCleaned
<1>2. ~CleaningRaises(payload) /\ work = Clean(payload)
  BY <1>1 DEF IntakeInv, StepsSoFar
<1>3. IntakeTypeOK'
  BY <1>1 DEF IntakeInv, IntakeTypeOK, Phases
<1>4. PayloadIsKnown'
  BY <1>1 DEF IntakeInv, PayloadIsKnown, Delivered, Stored
<1>5. StepsSoFar'
  BY <1>1, <1>2 DEF StepsSoFar
<1>6. RetriesSoFar'
  BY <1>1, RetriesStay DEF IntakeInv
<1> QED BY <1>3, <1>4, <1>5, <1>6 DEF IntakeInv

LEMMA TransformAndStore_Inv == IntakeInv /\ TransformAndStore => IntakeInv'
<1> SUFFICES ASSUME IntakeInv, TransformAndStore PROVE IntakeInv'
  OBVIOUS
<1>1. /\ phase = "validated" /\ phase' \in {"raised", "row"}
      /\ phase' = "raised" => (TransformRaises(work) \/ ~Fits(Transform(work))) /\ work' = work
      /\ phase' = "row" => /\ ~TransformRaises(work) /\ Fits(Transform(work))
                           /\ work' = Transform(work)
      /\ UNCHANGED <<maxRetries, attempts, response, source, payload>>
  BY DEF TransformAndStore
<1>2. /\ ~CleaningRaises(payload) /\ work = Clean(payload) /\ work \in CleanedType
      /\ ~ValidationRaises(work) /\ Validates(work)
  BY <1>1 DEF IntakeInv, StepsSoFar, IntakeTypeOK
<1>3. IntakeTypeOK'
  <2>1. phase' = "row" => work' \in RowType
    BY <1>1, <1>2, TransformFacts
  <2> QED BY <1>1, <2>1 DEF IntakeInv, IntakeTypeOK, Phases
<1>4. PayloadIsKnown'
  BY <1>1 DEF IntakeInv, PayloadIsKnown, Delivered, Stored
<1>5. StepsSoFar'
  BY <1>1, <1>2 DEF StepsSoFar
<1>6. RetriesSoFar'
  BY <1>1, RetriesStay DEF IntakeInv
<1> QED BY <1>3, <1>4, <1>5, <1>6 DEF IntakeInv

LEMMA IntakeNext_Inv == IntakeInv /\ [IntakeNext]_intakeVars => IntakeInv'
<1> SUFFICES ASSUME IntakeInv, [IntakeNext]_intakeVars PROVE IntakeInv'
  OBVIOUS
<1>1. CASE UNCHANGED intakeVars
  BY <1>1 DEF intakeVars, IntakeInv, IntakeTypeOK, PayloadIsKnown, StepsSoFar, RetriesSoFar,
              GivesUpWhenExhausted
<1> QED BY <1>1, Attempt_Inv, Ingest_Inv, CreateRaw_Inv, CleanRaw_Inv, ValidateCleaned_Inv,
           TransformAndStore_Inv DEF IntakeNext

-----------------------------------------------------------------------------
(* What follows from it. *)

\* The skipped and the stored payloads, as SkippedOnlyIfUnfit describes them.
LEMMA FitIsValid ==
    ASSUME NEW p \in PayloadType
    PROVE  LET located == {g \in Elements(p.geometry) : g.coords # "short"}
           IN  Validates(Clean(p)) <=>
                  /\ {p.id, p.title} \cap {"absent", "blank"} = {}
                  /\ ~(Elements(p.categories) \subseteq {"absent", "empty"})
                  /\ located # {}
                  /\ \A g \in located : g.date.zone # "none" /\ g.coords = "in"
                  /\ p.closed # "junk"
<1>1. /\ p.categories \in Seq(CategoryTitles) /\ p.geometry \in Seq(PointType)
      /\ p.id \in Texts /\ p.title \in Texts
  BY DEF PayloadType
<1>2. \A t \in Texts : CleanText(t) = "" <=> t \in {"absent", "blank"}
  BY DEF Texts, CleanText
<1>3. CleanCategories(p.categories) = <<>> <=> Elements(p.categories) \subseteq {"absent", "empty"}
  BY <1>1, CleanCategoriesFacts
<1>4. /\ CleanGeometry(p.geometry) = <<>> <=> {g \in Elements(p.geometry) : g.coords # "short"} = {}
      /\ Elements(CleanGeometry(p.geometry)) = {g \in Elements(p.geometry) : g.coords # "short"}
  BY <1>1, CleanGeometryFacts
<1>5. /\ Clean(p).id = CleanText(p.id) /\ Clean(p).title = CleanText(p.title)
      /\ Clean(p).categories = CleanCategories(p.categories)
      /\ Clean(p).geometry = CleanGeometry(p.geometry)
      /\ Clean(p).closed = p.closed
  BY DEF Clean
<1> QED BY <1>1, <1>2, <1>3, <1>4, <1>5 DEF Validates

LEMMA InvSkips == IntakeInv => SkippedOnlyIfUnfit
<1> SUFFICES ASSUME IntakeInv PROVE SkippedOnlyIfUnfit
  OBVIOUS
<1>1. phase = "skipped" => payload \in PayloadType /\ ~Validates(Clean(payload))
  BY DEF IntakeInv, PayloadIsKnown, StepsSoFar, Delivered
<1>2. phase = "row" => payload \in PayloadType /\ Validates(Clean(payload))
  BY DEF IntakeInv, PayloadIsKnown, StepsSoFar, Delivered
<1> QED BY <1>1, <1>2, FitIsValid DEF SkippedOnlyIfUnfit, Fit, LocatedPoints

\* A cleaned event that transformation or its columns refuse is that of a
\* payload with dates that do not compare or a text too long, and only such.
LEMMA RefusedFacts ==
    ASSUME payload \in PayloadType, Validates(Clean(payload))
    PROVE  /\ TransformRaises(Clean(payload)) <=> MixedZones
           /\ ~Fits(Transform(Clean(payload))) <=> TooLong
<1> DEFINE c == Clean(payload)
           cs == payload.categories
<1>1. /\ cs \in Seq(CategoryTitles) /\ payload.geometry \in Seq(PointType)
      /\ payload.id \in Texts /\ payload.title \in Texts
      /\ c.id = CleanText(payload.id) /\ c.title = CleanText(payload.title)
      /\ c.categories = CleanCategories(cs)
      /\ c.geometry = CleanGeometry(payload.geometry)
  BY DEF Clean, PayloadType
<1>2. Elements(c.geometry) = LocatedPoints
  BY <1>1, CleanGeometryFacts DEF LocatedPoints
<1>3. TransformRaises(c) <=> MixedZones
  BY <1>2 DEF TransformRaises, MixedZones
<1>4. \A t \in Texts : CleanText(t) = "long" <=> t = "long"
  BY DEF Texts, CleanText
<1>5. c.categories[1] = "long" <=>
         \E i \in 1..Len(cs) : /\ cs[i] = "long"
                              /\ \A j \in 1..(i - 1) : cs[j] \in {"absent", "empty"}
  <2>1. CleanCategories(cs) # <<>>
    BY <1>1 DEF Validates
  <2> HIDE DEF cs
  <2>2. PICK i \in 1..Len(cs) :
           /\ cs[i] \notin {"absent", "empty"}
           /\ \A j \in 1..(i - 1) : cs[j] \in {"absent", "empty"}
           /\ CleanCategories(cs)[1] = IF cs[i] = "blank" THEN "" ELSE cs[i]
    BY <1>1, <2>1, CleanCategoriesFacts
  <2>3. CleanCategories(cs)[1] = "long" <=> cs[i] = "long"
    BY <2>2
  <2>4. ASSUME NEW k \in 1..Len(cs), cs[k] = "long",
               \A j \in 1..(k - 1) : cs[j] \in {"absent", "empty"}
        PROVE  k = i
    <3>1. i \in Int /\ k \in Int /\ i >= 1 /\ k >= 1
      BY <1>1, SeqFacts
    <3>2. ASSUME i < k PROVE FALSE
      <4>1. i \in 1..(k - 1)
        BY <3>1, <3>2
      <4>2. cs[i] \in {"absent", "empty"}
        BY <2>4, <4>1
      <4> QED BY <2>2, <4>2
    <3>3. ASSUME k < i PROVE FALSE
      <4>1. k \in 1..(i - 1)
        BY <3>1, <3>3
      <4>2. cs[k] \in {"absent", "empty"}
        BY <2>2, <4>1
      <4> QED BY <2>4, <4>2
    <3> QED BY <3>1, <3>2, <3>3
  <2> QED BY <1>1, <2>2, <2>3, <2>4
<1>6. /\ Transform(c).external_id = c.id
      /\ Transform(c).title = c.title
      /\ Transform(c).category = c.categories[1]
  BY DEF Transform
<1>7. ~Fits(Transform(c)) <=> TooLong
  BY <1>1, <1>4, <1>5, <1>6 DEF Fits, TooLong
<1> QED BY <1>3, <1>7

LEMMA InvRaises == IntakeInv => RaisesForAReason
<1> SUFFICES ASSUME IntakeInv PROVE RaisesForAReason
  OBVIOUS
<1> DEFINE c == Clean(payload)
<1>1. ASSUME phase \in {"raised", "skipped", "row"}
      PROVE  /\ payload \in PayloadType
             /\ CleaningRaises(payload) <=> Broken
             /\ Validates(c) <=> Fit
             /\ ~ValidationRaises(c)
  <2>1. payload \in PayloadType
    BY <1>1 DEF IntakeInv, PayloadIsKnown, Delivered
  <2>2. Validates(c) <=> Fit
    BY <2>1, FitIsValid DEF Fit, LocatedPoints
  <2>3. \A g \in Elements(c.geometry) : g.coords # "short"
    BY <2>1, CleanGeometryFacts DEF Clean, PayloadType
  <2> QED BY <2>1, <2>2, <2>3 DEF CleaningRaises, Broken, ValidationRaises
<1>2. CASE phase = "raised"
  <2>1. \/ CleaningRaises(payload)
        \/ Validates(c) /\ (TransformRaises(c) \/ ~Fits(Transform(c)))
    <3>1. StepsSoFar /\ ~ValidationRaises(c)
      BY <1>1, <1>2 DEF IntakeInv
    <3> QED BY <1>2, <3>1 DEF StepsSoFar
  <2> QED BY <1>1, <1>2, <2>1, RefusedFacts DEF RaisesForAReason
<1>3. CASE phase = "skipped"
  BY <1>1, <1>3 DEF IntakeInv, StepsSoFar, RaisesForAReason
<1>4. CASE phase = "row"
  <2>1. /\ ~CleaningRaises(payload) /\ Validates(c)
        /\ ~TransformRaises(c) /\ Fits(Transform(c))
    BY <1>4 DEF IntakeInv, StepsSoFar
  <2> QED BY <1>1, <1>4, <2>1, RefusedFacts DEF RaisesForAReason
<1> QED BY <1>2, <1>3, <1>4 DEF RaisesForAReason

LEMMA InvRow == IntakeInv => RowIsFaithful
<1> SUFFICES ASSUME IntakeInv, phase = "row" PROVE RowIsFaithful
  BY DEF RowIsFaithful
<1> DEFINE c == Clean(payload)
<1>1. /\ payload \in PayloadType /\ ~CleaningRaises(payload) /\ Validates(c)
      /\ work = Transform(c)
  BY DEF IntakeInv, PayloadIsKnown, StepsSoFar, Delivered
<1>2. /\ payload.categories \in Seq(CategoryTitles) /\ payload.geometry \in Seq(PointType)
      /\ payload.closed = c.closed
      /\ c.categories = CleanCategories(payload.categories)
      /\ c.geometry = CleanGeometry(payload.geometry)
  BY <1>1 DEF PayloadType, Clean
<1>3. c \in CleanedType
  BY <1>1, CleanType
<1>4. /\ work.point \in LocatedPoints
      /\ \A g \in LocatedPoints : g.date.at <= work.point.date.at
  <2>1. Elements(c.geometry) = LocatedPoints
    BY <1>2, CleanGeometryFacts DEF LocatedPoints
  <2> QED BY <1>1, <1>3, <2>1, TransformFacts
<1>5. \E i \in 1..Len(payload.categories) :
         /\ payload.categories[i] \notin {"absent", "empty"}
         /\ \A j \in 1..(i - 1) : payload.categories[j] \in {"absent", "empty"}
         /\ work.category = "" <=> payload.categories[i] = "blank"
  <2>1. c.categories # <<>>
    BY <1>1 DEF Validates
  <2>2. PICK i \in 1..Len(payload.categories) :
           /\ payload.categories[i] \notin {"absent", "empty"}
           /\ \A j \in 1..(i - 1) : payload.categories[j] \in {"absent", "empty"}
           /\ c.categories[1] = IF payload.categories[i] = "blank" THEN "" ELSE payload.categories[i]
    <3> DEFINE cs == payload.categories
    <3>1. cs \in Seq(CategoryTitles) /\ CleanCategories(cs) # <<>> /\ c.categories = CleanCategories(cs)
      BY <1>2, <2>1
    <3> HIDE DEF cs
    <3>2. \E i \in 1..Len(cs) :
             /\ cs[i] \notin {"absent", "empty"}
             /\ \A j \in 1..(i - 1) : cs[j] \in {"absent", "empty"}
             /\ CleanCategories(cs)[1] = IF cs[i] = "blank" THEN "" ELSE cs[i]
      BY <3>1, CleanCategoriesFacts
    <3> QED BY <3>1, <3>2 DEF cs
  <2>3. work.category = c.categories[1]
    BY <1>1 DEF Transform
  <2>4. payload.categories[i] \in CategoryTitles
    BY <1>2, SeqFacts
  <2>5. work.category = "" <=> payload.categories[i] = "blank"
    BY <2>2, <2>3, <2>4 DEF CategoryTitles
  <2> QED BY <2>2, <2>5
<1>6. work.is_open <=> payload.closed = "null"
  BY <1>1, <1>2 DEF Transform
<1> QED BY <1>4, <1>5, <1>6 DEF RowIsFaithful

LEMMA InvEonet == IntakeInv => EonetEventsSurvive
<1> SUFFICES ASSUME IntakeInv, source = "eonet", phase = "raised",
                    payload.title # "long", "long" \notin Elements(payload.categories)
             PROVE  \E g \in Elements(payload.geometry) : g.date.zone = "naive"
  BY DEF EonetEventsSurvive
<1> DEFINE c == Clean(payload)
<1>1. /\ payload \in PayloadType /\ Ingestible(payload) /\ payload.id # "long"
      /\ \/ CleaningRaises(payload)
         \/ ValidationRaises(c)
         \/ Validates(c) /\ (TransformRaises(c) \/ ~Fits(Transform(c)))
  BY DEF IntakeInv, PayloadIsKnown, StepsSoFar, Delivered, Stored
<1>2. /\ payload.categories \in Seq(CategoryTitles) /\ payload.geometry \in Seq(PointType)
      /\ payload.id \in Texts /\ payload.title \in Texts
  BY <1>1 DEF PayloadType
<1>3. /\ c.id = CleanText(payload.id) /\ c.title = CleanText(payload.title)
      /\ c.categories = CleanCategories(payload.categories)
      /\ c.geometry = CleanGeometry(payload.geometry)
  BY DEF Clean
<1>4. \A g \in Elements(payload.geometry) : g.date.zone # "none" /\ g.coords \in {"in", "out"}
  BY <1>1 DEF Ingestible
<1>5. Elements(c.geometry) \subseteq Elements(payload.geometry)
  BY <1>2, <1>3, CleanGeometryFacts
<1>6. ~CleaningRaises(payload)
  BY <1>1, <1>4 DEF CleaningRaises, Ingestible
<1>7. ~ValidationRaises(c)
  BY <1>4, <1>5 DEF ValidationRaises
<1>8. CASE TransformRaises(c)
  <2>1. PICK g, h \in Elements(c.geometry) : g.date.zone # h.date.zone
    BY <1>8 DEF TransformRaises
  <2>2. g \in PointType /\ h \in PointType
    <3>1. Elements(payload.geometry) \subseteq PointType
      BY <1>2, SeqFacts DEF Elements
    <3> QED BY <1>5, <3>1
  <2>3. /\ g.date.zone \in {"naive", "aware"}
        /\ h.date.zone \in {"naive", "aware"}
    BY <1>4, <1>5, <2>2 DEF PointType, DateType
  <2> QED BY <1>5, <2>1, <2>3
<1>9. CASE Validates(c) /\ ~Fits(Transform(c))
  <2>1. /\ Transform(c).external_id = c.id /\ Transform(c).title = c.title
        /\ Transform(c).category = c.categories[1]
    BY DEF Transform
  <2>2. c.id # "long" /\ c.title # "long"
    BY <1>1, <1>2, <1>3 DEF CleanText
  <2>3. c.categories[1] # "long"
    <3>1. c.categories # <<>>
      BY <1>9 DEF Validates
    <3>2. c.categories[1] \in Elements(c.categories)
      BY <1>2, <1>3, <3>1, CleanCategoriesFacts
    <3>3. "long" \in Elements(c.categories) <=> "long" \in Elements(payload.categories)
      BY <1>2, <1>3, CleanCategoriesFacts
    <3> QED BY <3>2, <3>3
  <2> QED BY <1>9, <2>1, <2>2, <2>3 DEF Fits
<1> QED BY <1>1, <1>6, <1>7, <1>8, <1>9

-----------------------------------------------------------------------------

\* The inductive invariant holds: each phase knows what the steps before it
\* have decided of the payload, and how many requests were sent.
THEOREM IntakeInvariant == IntakeSpec => []IntakeInv
  BY IntakeInit_Inv, IntakeNext_Inv, PTL DEF IntakeSpec

\* Types, for any payloads: what is in hand is a cleaned event after cleaning
\* and a row after transformation.
THEOREM IntakeTyping == IntakeSpec => []IntakeTypeOK
<1>1. IntakeInv => IntakeTypeOK
  BY DEF IntakeInv
<1> QED BY <1>1, IntakeInvariant, PTL

\* However many points and categories an event has, its row shows a latest
\* located point, the first category with a title, and whether it is over.
THEOREM RowsAreFaithful == IntakeSpec => []RowIsFaithful
  BY InvRow, IntakeInvariant, PTL

\* A capture is skipped exactly for the reasons that the domain gives.
THEOREM SkippedWithReason == IntakeSpec => []SkippedOnlyIfUnfit
  BY InvSkips, IntakeInvariant, PTL

\* What passed the ingestion's schema never aborts a batch, but for dates
\* without time zones and texts too long for their columns.
THEOREM IngestedEventsSurvive == IntakeSpec => []EonetEventsSurvive
  BY InvEonet, IntakeInvariant, PTL

\* Any value of the setting, zero and negative ones included: EONET is asked
\* at most that often, and at least once, and never again after a final answer.
THEOREM ClientGivesUp == IntakeSpec => []GivesUpWhenExhausted
<1>1. IntakeInv => GivesUpWhenExhausted
  BY DEF IntakeInv, RetriesSoFar
<1> QED BY <1>1, IntakeInvariant, PTL

\* Whoever delivers a payload, it aborts a batch only by an element of the wrong
\* type or, being otherwise fit, by dates that do not compare or a text too long.
THEOREM AbortsHaveReasons == IntakeSpec => []RaisesForAReason
  BY InvRaises, IntakeInvariant, PTL

=============================================================================
