------------------------- MODULE Dashboard_proofs -------------------------
(***************************************************************************)
(* Proofs about ReadRequests and Dashboard, for tables of any size, any    *)
(* page size, any writes of others and any order of answers: what a walk   *)
(* through the pages, an export, a summary and the page may be told.       *)
(***************************************************************************)
EXTENDS Dashboard, ObservationTables_proofs, FiniteSetTheorems, SequenceTheorems

-----------------------------------------------------------------------------
(* Sums and extremes over finite sets, by the well-foundedness of the strict *)
(* subset ordering: of any finite sets one has none of the others below it.  *)

LEMMA MinimalSet ==
    ASSUME NEW C, C # {}, \A s \in C : IsFiniteSet(s)
    PROVE  \E s \in C : \A t \in C : t \subseteq s => t = s
<1> DEFINE S == UNION C
           R == StrictSubsetOrdering(S)
<1>1. C \subseteq FiniteSubsetsOf(S)
  BY DEF FiniteSubsetsOf
<1>2. IsWellFoundedOn(R, FiniteSubsetsOf(S))
  BY FS_StrictSubsetOrderingWellFounded
<1>3. \E s \in C : \A t \in C : ~(<<t, s>> \in R)
  <2> HIDE DEF R
  <2> QED BY <1>1, <1>2, WFMin
<1>4. PICK s \in C : \A t \in C : ~(<<t, s>> \in R)
  BY <1>3
<1>5. ASSUME NEW t \in C, t \subseteq s PROVE t = s
  <2>1. s \in SUBSET S /\ t \in SUBSET S
    OBVIOUS
  <2> QED BY <1>4, <1>5, <2>1 DEF StrictSubsetOrdering
<1> QED BY <1>4, <1>5

\* Finitely many dates have a first and a last one.
LEMMA FirstAndLast ==
    ASSUME NEW D \in SUBSET Nat, IsFiniteSet(D), D # {}
    PROVE  /\ \E d \in D : \A e \in D : d <= e
           /\ \E d \in D : \A e \in D : d >= e
<1>1. \E d \in D : \A e \in D : d <= e
  <2> DEFINE Beyond(d) == {e \in D : e < d}
             C == {Beyond(d) : d \in D}
  <2>1. \A d \in D : Beyond(d) \in SUBSET D
    OBVIOUS
  <2>2. \A d \in D : IsFiniteSet(Beyond(d))
    <3> HIDE DEF Beyond
    <3> QED BY <2>1, FS_Subset
  <2>3. \E s \in C : \A t \in C : t \subseteq s => t = s
    <3>1. C # {} /\ \A s \in C : IsFiniteSet(s)
      <4> HIDE DEF Beyond
      <4> QED BY <2>1, <2>2
    <3> HIDE DEF C
    <3> QED BY <3>1, MinimalSet
  <2>4. PICK d \in D : \A e \in D : Beyond(e) \subseteq Beyond(d) => Beyond(e) = Beyond(d)
    <3> HIDE DEF Beyond
    <3> QED BY <2>3
  <2>5. ASSUME NEW e \in D, e < d PROVE FALSE
    <3>1. d \in Int /\ e \in Int /\ \A f \in D : f \in Int
      BY <2>4
    <3>2. \A f \in D : f < e => f < d
      BY <2>5, <3>1
    <3>3. ~(e < e)
      BY <3>1
    <3>4. Beyond(e) \subseteq Beyond(d) /\ e \in Beyond(d) /\ e \notin Beyond(e)
      BY <2>5, <3>2, <3>3
    <3> QED BY <2>4, <3>4
  <2>6. \A e \in D : d \in Int /\ e \in Int
    BY <2>4
  <2> QED BY <2>4, <2>5, <2>6
<1>2. \E d \in D : \A e \in D : d >= e
  <2> DEFINE Beyond(d) == {e \in D : e > d}
             C == {Beyond(d) : d \in D}
  <2>1. \A d \in D : Beyond(d) \in SUBSET D
    OBVIOUS
  <2>2. \A d \in D : IsFiniteSet(Beyond(d))
    <3> HIDE DEF Beyond
    <3> QED BY <2>1, FS_Subset
  <2>3. \E s \in C : \A t \in C : t \subseteq s => t = s
    <3>1. C # {} /\ \A s \in C : IsFiniteSet(s)
      <4> HIDE DEF Beyond
      <4> QED BY <2>1, <2>2
    <3> HIDE DEF C
    <3> QED BY <3>1, MinimalSet
  <2>4. PICK d \in D : \A e \in D : Beyond(e) \subseteq Beyond(d) => Beyond(e) = Beyond(d)
    <3> HIDE DEF Beyond
    <3> QED BY <2>3
  <2>5. ASSUME NEW e \in D, e > d PROVE FALSE
    <3>1. d \in Int /\ e \in Int /\ \A f \in D : f \in Int
      BY <2>4
    <3>2. \A f \in D : f > e => f > d
      BY <2>5, <3>1
    <3>3. ~(e > e)
      BY <3>1
    <3>4. Beyond(e) \subseteq Beyond(d) /\ e \in Beyond(d) /\ e \notin Beyond(e)
      BY <2>5, <3>2, <3>3
    <3> QED BY <2>4, <3>4
  <2>6. \A e \in D : d \in Int /\ e \in Int
    BY <2>4
  <2> QED BY <2>4, <2>5, <2>6
<1> QED BY <1>1, <1>2

\* A recursion that sums w over a set computes m, if m grows by w[x] with x.
LEMMA SumIsMeasure ==
    ASSUME NEW S, IsFiniteSet(S), NEW w \in [S -> Nat], NEW m \in [SUBSET S -> Nat], NEW g,
           m[{}] = 0,
           \A s \in SUBSET S : \A x \in s : m[s] = w[x] + m[s \ {x}],
           g[{}] = 0,
           \A s \in SUBSET S : s # {} => \E x \in s : g[s] = w[x] + g[s \ {x}]
    PROVE  g[S] = m[S]
<1> DEFINE C == {s \in SUBSET S : g[s] # m[s]}
<1>1. SUFFICES ASSUME C # {} PROVE FALSE
  OBVIOUS
<1>2. \A s \in C : IsFiniteSet(s)
  BY FS_Subset
<1>3. \E s \in C : \A t \in C : t \subseteq s => t = s
  <2> HIDE DEF C
  <2> QED BY <1>1, <1>2, MinimalSet
<1>4. PICK s \in C : \A t \in C : t \subseteq s => t = s
  BY <1>3
<1>5. s \in SUBSET S /\ g[s] # m[s]
  OBVIOUS
<1>6. s # {}
  BY <1>5
<1>7. PICK x \in s : g[s] = w[x] + g[s \ {x}]
  BY <1>5, <1>6
<1>8. m[s] = w[x] + m[s \ {x}]
  BY <1>5
<1>9. g[s \ {x}] = m[s \ {x}]
  <2>1. s \ {x} \in SUBSET S /\ s \ {x} \subseteq s /\ s \ {x} # s
    BY <1>5
  <2> QED BY <1>4, <2>1
<1> QED BY <1>5, <1>7, <1>8, <1>9

-----------------------------------------------------------------------------
(* Lists: what an ORDER BY returns, and which part of it a page is.          *)

\* A function on 1..n is a sequence of length n.
LEMMA FunctionIsSeq ==
    ASSUME NEW S, NEW n \in Nat, NEW f \in [1..n -> S]
    PROVE  f \in Seq(S) /\ Len(f) = n
  OBVIOUS

\* An ordered list of a set has each of its members once, in order.
LEMMA OrderedFacts ==
    ASSUME NEW F, IsFiniteSet(F), NEW a, NEW s \in Ordered(F, a)
    PROVE  /\ Cardinality(F) \in Nat
           /\ s \in Seq(F) /\ Len(s) = Cardinality(F)
           /\ \A i \in 1..Len(s) : s[i] \in F
           /\ \A i, j \in 1..Len(s) : s[i] = s[j] => i = j
           /\ \A x \in F : \E i \in 1..Len(s) : s[i] = x
           /\ \A i, j \in 1..Len(s) :
                 i < j => IF a.dir = "asc" THEN s[i].at <= s[j].at ELSE s[i].at >= s[j].at
<1> DEFINE N == Cardinality(F)
<1>1. N \in Nat
  BY FS_CardinalityType
<1>2. /\ s \in [1..N -> F]
      /\ \A i, j \in 1..N : i # j => s[i] # s[j]
      /\ \A i, j \in 1..Len(s) :
                 i < j => IF a.dir = "asc" THEN s[i].at <= s[j].at ELSE s[i].at >= s[j].at
  BY DEF Ordered, SetToSeqs
<1> HIDE DEF N
<1>3. s \in Seq(F) /\ Len(s) = N
  BY <1>1, <1>2, FunctionIsSeq
<1>4. IsFiniteSet(1..N) /\ Cardinality(1..N) = N
  <2>1. N \in Int /\ 1 \in Int /\ N >= 0
    BY <1>1
  <2>2. /\ IsFiniteSet(1..N)
        /\ Cardinality(1..N) = IF 1 > N THEN 0 ELSE N - 1 + 1
    BY <2>1, FS_Interval
  <2> QED BY <2>1, <2>2
<1>5. s \in Injection(1..N, F)
  BY <1>2 DEF Injection, IsInjective
<1>6. s \in Surjection(1..N, F)
  BY <1>4, <1>5, FS_Injection DEF N
<1>7. \A x \in F : \E i \in 1..N : s[i] = x
  BY <1>6 DEF Surjection
<1> QED BY <1>1, <1>2, <1>3, <1>7 DEF N

\* How many records of F an ORDER BY cannot put behind x.
NotBehind(F, a, x) == {y \in F : IF a.dir = "asc" THEN y.at <= x.at ELSE y.at >= x.at}

Rank(F, a, x) == Cardinality(NotBehind(F, a, x))

\* The place of a record with a date of its own is its rank, whatever the list.
LEMMA PlaceIsRank ==
    ASSUME NEW F \in SUBSET Record, IsFiniteSet(F), NEW a, NEW s \in Ordered(F, a),
           NEW i \in 1..Len(s), Alone(s[i], F)
    PROVE  Rank(F, a, s[i]) = i
<1> DEFINE B == NotBehind(F, a, s[i])
           f == [j \in 1..i |-> s[j]]
<1>1. /\ s \in Seq(F) /\ Len(s) \in Nat
      /\ \A j \in 1..Len(s) : s[j] \in F
      /\ \A j, k \in 1..Len(s) : s[j] = s[k] => j = k
      /\ \A x \in F : \E j \in 1..Len(s) : s[j] = x
      /\ \A j, k \in 1..Len(s) :
            j < k => IF a.dir = "asc" THEN s[j].at <= s[k].at ELSE s[j].at >= s[k].at
  BY OrderedFacts
<1>2. \A x \in F : x.at \in Nat
  BY DEF Record
<1>3. i \in Nat /\ 1..i \subseteq 1..Len(s) /\ \A j \in 1..Len(s) : j \in 1..i <=> j <= i
  BY <1>1
<1>4. \A j \in 1..i : s[j] \in B
  <2> SUFFICES ASSUME NEW j \in 1..i PROVE s[j] \in B
    OBVIOUS
  <2>1. j \in 1..Len(s) /\ (j < i \/ j = i)
    BY <1>3
  <2>2. IF a.dir = "asc" THEN s[j].at <= s[i].at ELSE s[j].at >= s[i].at
    <3>1. CASE j < i
      BY <1>1, <2>1, <3>1
    <3>2. CASE j = i
      <4>1. s[i].at \in Nat
        BY <1>1, <1>2
      <4> QED BY <3>2, <4>1
    <3> QED BY <2>1, <3>1, <3>2
  <2> QED BY <1>1, <2>1, <2>2 DEF NotBehind
<1>5. \A x \in B : \E j \in 1..i : s[j] = x
  <2> SUFFICES ASSUME NEW x \in B PROVE \E j \in 1..i : s[j] = x
    OBVIOUS
  <2>1. x \in F /\ (IF a.dir = "asc" THEN x.at <= s[i].at ELSE x.at >= s[i].at)
    BY DEF NotBehind
  <2>2. PICK j \in 1..Len(s) : s[j] = x
    BY <1>1, <2>1
  <2>3. ASSUME ~(j <= i) PROVE FALSE
    <3>1. i < j
      BY <1>3, <2>3
    <3>2. IF a.dir = "asc" THEN s[i].at <= s[j].at ELSE s[i].at >= s[j].at
      BY <1>1, <3>1
    <3>3. s[i].at \in Nat /\ s[j].at \in Nat
      BY <1>1, <1>2
    <3>4. s[i].at = s[j].at
      BY <2>1, <2>2, <3>2, <3>3
    <3>5. s[i] = s[j]
      BY <1>1, <3>4 DEF Alone
    <3> QED BY <1>1, <1>3, <3>1, <3>5
  <2> QED BY <1>3, <2>2, <2>3
<1> HIDE DEF B
<1>6. f \in Bijection(1..i, B)
  <2>1. f \in [1..i -> B]
    BY <1>4
  <2>2. f \in Injection(1..i, B)
    BY <1>1, <1>3, <2>1 DEF Injection, IsInjective
  <2>3. f \in Surjection(1..i, B)
    BY <1>5, <2>1 DEF Surjection
  <2> QED BY <2>2, <2>3 DEF Bijection
<1>7. Cardinality(B) = i
  BY <1>3, <1>6, FS_CountingElements DEF ExistsBijection
<1> QED BY <1>7 DEF Rank, B

\* Of two lists of the same records none is behind the other at any place: the
\* records up to it in the one would all have to be before it in the other.
LEMMA NoneIsBehind ==
    ASSUME NEW F \in SUBSET Record, IsFiniteSet(F), NEW a,
           NEW s \in Ordered(F, a), NEW t \in Ordered(F, a), NEW i \in 1..Len(s)
    PROVE  IF a.dir = "asc" THEN s[i].at <= t[i].at ELSE s[i].at >= t[i].at
<1> DEFINE Before(x, y) == IF a.dir = "asc" THEN x.at < y.at ELSE x.at > y.at
           n == i - 1
<1>1. /\ Len(s) \in Nat /\ Len(s) = Len(t)
      /\ \A j \in 1..Len(s) : s[j] \in F /\ t[j] \in F
      /\ \A j, k \in 1..Len(t) : t[j] = t[k] => j = k
      /\ \A x \in F : \E j \in 1..Len(s) : s[j] = x
      /\ \A j, k \in 1..Len(s) :
            j < k => IF a.dir = "asc" THEN s[j].at <= s[k].at ELSE s[j].at >= s[k].at
      /\ \A j, k \in 1..Len(t) :
            j < k => IF a.dir = "asc" THEN t[j].at <= t[k].at ELSE t[j].at >= t[k].at
  <2>1. ASSUME NEW u \in Ordered(F, a)
        PROVE  /\ Cardinality(F) \in Nat
               /\ u \in Seq(F) /\ Len(u) = Cardinality(F)
               /\ \A j \in 1..Len(u) : u[j] \in F
               /\ \A j, k \in 1..Len(u) : u[j] = u[k] => j = k
               /\ \A x \in F : \E j \in 1..Len(u) : u[j] = x
               /\ \A j, k \in 1..Len(u) :
                     j < k => IF a.dir = "asc" THEN u[j].at <= u[k].at ELSE u[j].at >= u[k].at
    <3> HIDE DEF Before, n
    <3> QED BY OrderedFacts
  <2>2. \A j \in 1..Len(s) : j \in 1..Len(t)
    BY <2>1
  <2> QED BY <2>1, <2>2
<1>2. \A x \in F : x.at \in Nat
  BY DEF Record
<1>3. /\ i \in Nat /\ n \in Nat /\ 1..i \subseteq 1..Len(t)
      /\ \A k \in 1..Len(s) : k < i => k \in 1..n
  BY <1>1
<1>4. SUFFICES ASSUME Before(t[i], s[i]) PROVE FALSE
  BY <1>1, <1>2
<1>5. ASSUME NEW j \in 1..i PROVE \E k \in 1..n : s[k] = t[j]
  <2>1. j \in 1..Len(t) /\ t[j] \in F /\ (j < i \/ j = i)
    BY <1>1, <1>3
  <2>2. Before(t[j], s[i])
    <3>1. CASE j = i
      BY <1>4, <3>1
    <3>2. CASE j < i
      <4>1. IF a.dir = "asc" THEN t[j].at <= t[i].at ELSE t[j].at >= t[i].at
        BY <1>1, <2>1, <3>2
      <4>2. t[j].at \in Nat /\ t[i].at \in Nat /\ s[i].at \in Nat
        BY <1>1, <1>2, <2>1
      <4> QED BY <1>4, <4>1, <4>2
    <3> QED BY <2>1, <3>1, <3>2
  <2>3. PICK k \in 1..Len(s) : s[k] = t[j]
    BY <1>1, <2>1
  <2>4. ASSUME ~(k < i) PROVE FALSE
    <3>1. i < k \/ i = k
      BY <1>1, <1>3, <2>4
    <3>2. IF a.dir = "asc" THEN s[i].at <= s[k].at ELSE s[i].at >= s[k].at
      <4>1. s[i].at \in Nat
        BY <1>1, <1>2
      <4> QED BY <1>1, <3>1, <4>1
    <3>3. t[j].at \in Nat /\ s[i].at \in Nat
      BY <1>1, <1>2, <2>1
    <3> QED BY <2>2, <2>3, <3>2, <3>3
  <2> QED BY <1>3, <2>3, <2>4
<1> DEFINE f == [j \in 1..i |-> CHOOSE k \in 1..n : s[k] = t[j]]
<1>6. \A j \in 1..i : f[j] \in 1..n /\ s[f[j]] = t[j]
  BY <1>5
<1>7. f \in [1..i -> 1..n]
  BY <1>6
<1>8. /\ IsFiniteSet(1..i) /\ Cardinality(1..i) = i
      /\ IsFiniteSet(1..n) /\ Cardinality(1..n) = n
  <2>1. \A m \in Nat : IsFiniteSet(1..m) /\ Cardinality(1..m) = m
    <3> SUFFICES ASSUME NEW m \in Nat
                 PROVE  IsFiniteSet(1..m) /\ Cardinality(1..m) = m
      OBVIOUS
    <3>1. m \in Int /\ 1 \in Int /\ m >= 0
      OBVIOUS
    <3>2. IsFiniteSet(1..m) /\ Cardinality(1..m) = IF 1 > m THEN 0 ELSE m - 1 + 1
      BY <3>1, FS_Interval
    <3> QED BY <3>1, <3>2
  <2> HIDE DEF n
  <2> QED BY <1>3, <2>1
<1>9. n < i
  BY <1>3
<1> HIDE DEF f, n
<1>10. PICK j \in 1..i, k \in 1..i : j # k /\ f[j] = f[k]
  BY <1>7, <1>8, <1>9, FS_PigeonHole
<1>11. t[j] = t[k] /\ j \in 1..Len(t) /\ k \in 1..Len(t)
  BY <1>3, <1>6, <1>10
<1> QED BY <1>1, <1>10, <1>11

\* So any two lists have the same dates, though not the same records.
LEMMA SameDates ==
    ASSUME NEW F \in SUBSET Record, IsFiniteSet(F), NEW a,
           NEW s \in Ordered(F, a), NEW t \in Ordered(F, a), NEW i \in 1..Len(s)
    PROVE  s[i].at = t[i].at
<1>1. i \in 1..Len(t) /\ s[i] \in F /\ t[i] \in F
  BY OrderedFacts
<1>2. s[i].at \in Nat /\ t[i].at \in Nat
  BY <1>1 DEF Record
<1>3. IF a.dir = "asc" THEN s[i].at <= t[i].at ELSE s[i].at >= t[i].at
  BY NoneIsBehind
<1>4. IF a.dir = "asc" THEN t[i].at <= s[i].at ELSE t[i].at >= s[i].at
  BY <1>1, NoneIsBehind
<1> QED BY <1>2, <1>3, <1>4

\* A list of as many records with the dates of a sorted one has each record that
\* has a date of its own, and has it once.
LEMMA DatesShowOnce ==
    ASSUME NEW F \in SUBSET Record, IsFiniteSet(F), NEW a, NEW s \in Ordered(F, a),
           NEW l \in Seq(F), Len(l) = Len(s), \A i \in DOMAIN s : l[i].at = s[i].at,
           NEW x \in F, Alone(x, F)
    PROVE  \E i \in DOMAIN l : \A j \in DOMAIN l : l[j] = x <=> j = i
<1>1. /\ s \in Seq(F)
      /\ \A j \in 1..Len(s) : s[j] \in F
      /\ \A j, k \in 1..Len(s) : s[j] = s[k] => j = k
      /\ \A y \in F : \E j \in 1..Len(s) : s[j] = y
  <2>1. ASSUME NEW u \in Ordered(F, a)
        PROVE  /\ Cardinality(F) \in Nat
               /\ u \in Seq(F) /\ Len(u) = Cardinality(F)
               /\ \A j \in 1..Len(u) : u[j] \in F
               /\ \A j, k \in 1..Len(u) : u[j] = u[k] => j = k
               /\ \A y \in F : \E j \in 1..Len(u) : u[j] = y
               /\ \A j, k \in 1..Len(u) :
                     j < k => IF a.dir = "asc" THEN u[j].at <= u[k].at ELSE u[j].at >= u[k].at
    BY OrderedFacts
  <2> QED BY <2>1
<1>2. DOMAIN s = 1..Len(s) /\ DOMAIN l = 1..Len(s) /\ \A j \in 1..Len(s) : l[j] \in F
  BY <1>1
<1>3. PICK i \in 1..Len(s) : s[i] = x
  BY <1>1
<1>4. ASSUME NEW j \in 1..Len(s) PROVE l[j] = x <=> j = i
  <2>1. l[j].at = s[j].at /\ l[j] \in F /\ s[j] \in F
    BY <1>1, <1>2
  <2>2. l[j] = x => s[j] = x
    BY <2>1 DEF Alone
  <2>3. s[j] = x => l[j] = x
    BY <2>1 DEF Alone
  <2> QED BY <1>1, <1>3, <2>2, <2>3
<1> QED BY <1>2, <1>4

\* More records never lower a rank.
LEMMA RankGrows ==
    ASSUME NEW G, IsFiniteSet(G), NEW F \in SUBSET G, NEW a, NEW x
    PROVE  Rank(F, a, x) \in Nat /\ Rank(G, a, x) \in Nat /\ Rank(F, a, x) <= Rank(G, a, x)
<1>1. NotBehind(F, a, x) \in SUBSET NotBehind(G, a, x) /\ NotBehind(G, a, x) \in SUBSET G
  BY DEF NotBehind
<1>2. IsFiniteSet(NotBehind(G, a, x))
  BY <1>1, FS_Subset
<1>3. /\ IsFiniteSet(NotBehind(F, a, x))
      /\ Cardinality(NotBehind(F, a, x)) <= Cardinality(NotBehind(G, a, x))
  BY <1>1, <1>2, FS_Subset
<1> QED BY <1>2, <1>3, FS_CardinalityType DEF Rank

\* A page has the records behind the offset, up to the limit.
LEMMA PageFacts ==
    ASSUME NEW S, NEW s \in Seq(S), NEW o \in Nat, NEW limit \in Nat \ {0}
    PROVE  /\ PageOf(s, o, limit) \in Seq(S)
           /\ Len(PageOf(s, o, limit)) \in Nat
           /\ Len(PageOf(s, o, limit)) <= limit
           /\ Len(PageOf(s, o, limit)) < limit /\ o <= Len(s)
                 => o + Len(PageOf(s, o, limit)) = Len(s)
           /\ o <= Len(s) => o + Len(PageOf(s, o, limit)) <= Len(s)
           /\ o > Len(s) => PageOf(s, o, limit) = <<>>
           /\ \A k \in 1..Len(PageOf(s, o, limit)) : PageOf(s, o, limit)[k] = s[o + k]
<1> DEFINE m == o + 1
           n == IF o + limit <= Len(s) THEN o + limit ELSE Len(s)
           p == SubSeq(s, m, n)
<1>1. Len(s) \in Nat /\ m \in Int /\ n \in Int /\ n <= Len(s) /\ m >= 1
  OBVIOUS
<1>2. PageOf(s, o, limit) = p
  BY DEF PageOf
<1>3. \A i \in m..n : s[i] \in S
  BY <1>1
<1>4. n <= o + limit /\ (n < o + limit => n = Len(s)) /\ (o <= Len(s) => n >= o)
      /\ (o > Len(s) => n < m)
  BY <1>1
<1> HIDE DEF n
<1>5. /\ p \in Seq(S)
      /\ Len(p) = IF m <= n THEN n - m + 1 ELSE 0
      /\ \A i \in 1..(n - m + 1) : p[i] = s[m + i - 1]
  <2> HIDE DEF m
  <2> QED BY <1>1, <1>3, SubSeqProperties
<1>6. o > Len(s) => p = <<>>
  <2> HIDE DEF m
  <2> QED BY <1>1, <1>4, SubSeqEmpty
<1> HIDE DEF p
<1>7. \A k \in 1..Len(p) : p[k] = s[o + k]
  <2> SUFFICES ASSUME NEW k \in 1..Len(p) PROVE p[k] = s[o + k]
    OBVIOUS
  <2>1. m <= n /\ k \in 1..(n - m + 1)
    BY <1>1, <1>5
  <2>2. m + k - 1 = o + k
    BY <1>1
  <2> QED BY <1>5, <2>1, <2>2
<1> QED BY <1>1, <1>2, <1>4, <1>5, <1>6, <1>7

-----------------------------------------------------------------------------
(* The tables, and the records that a request sees of them.                  *)

\* What others commit is an operation of ObservationTables.
LEMMA CommitIsNext ==
    ASSUME TablesInv, Commit
    PROVE  Next
<1>1. CASE \E S \in SUBSET (RawIds \ raws) : AddRaws(S)
  BY <1>1 DEF Next
<1>2. ASSUME NEW r \in Pending(raws, proc), NEW i \in RowIds,
             ProcessBatch({r}, i, [k \in Keys |-> Capture[r].source])
      PROVE  Next
  <2> DEFINE credit == [k \in Keys |-> Capture[r].source]
  <2>1. r \in raws /\ r \in RawIds
    BY <1>2 DEF Pending, TablesInv, TypeOK
  <2>2. credit \in [Keys -> Sources]
    BY <2>1, CaptureAssumption DEF CaptureType
  <2>3. {r} \in SUBSET raws
    BY <2>1
  <2> HIDE DEF credit
  <2> QED BY <1>2, <2>2, <2>3 DEF Next, credit
<1>3. CASE \E r \in raws : RemoveRaw(r)
  BY <1>3 DEF Next, TablesInv, TypeOK
<1>4. CASE \E x \in proc : RemoveRow(x)
  BY <1>4 DEF Next
<1>5. CASE \E x \in proc, p \in Patches : \E C \in SUBSET DOMAIN p : PatchRow(x, p, C)
  BY <1>5 DEF Next
<1> QED BY <1>1, <1>2, <1>3, <1>4, <1>5 DEF Commit

RecordOf(x) ==
    [id |-> x.key, class |-> x.cols["is_open"] = 1, at |-> x.cols["event_date"]]

\* The tables are finite: rows of different events are different.
LEMMA TablesAreFinite ==
    ASSUME TablesInv
    PROVE  IsFiniteSet(raws) /\ IsFiniteSet(proc)
<1>1. IsFiniteSet(raws)
  BY FiniteAssumption, FS_Subset DEF TablesInv, TypeOK
<1> DEFINE f == [x \in proc |-> x.key]
<1>2. f \in Injection(proc, Keys)
  <2>1. \A x \in proc : x.key \in Keys
    BY DEF TablesInv, TypeOK, Row
  <2>2. \A x, y \in proc : x.key = y.key => x = y
    BY DEF TablesInv, UniqueKey, UniqueKeys
  <2> QED BY <2>1, <2>2 DEF Injection, IsInjective
<1>3. IsFiniteSet(proc)
  BY <1>2, FiniteAssumption, FS_Injection
<1> QED BY <1>1, <1>3

\* Rows and their records correspond, one to one.
LEMMA RowsAreRecords ==
    ASSUME TablesInv
    PROVE  /\ \A x \in proc : RecordOf(x) \in Record /\ x.cols["event_date"] \in Nat
           /\ Records("rows") = {RecordOf(x) : x \in proc}
           /\ \A x, y \in proc : RecordOf(x) = RecordOf(y) => x = y
<1>1. ASSUME NEW x \in proc PROVE RecordOf(x) \in Record /\ x.cols["event_date"] \in Nat
  <2>1. x.key \in Keys /\ x.cols \in [Columns -> Values]
    BY DEF TablesInv, TypeOK, Row, Contents
  <2>2. x.cols["event_date"] \in Nat
    BY <2>1, ReadAssumption
  <2> QED BY <2>1, <2>2 DEF RecordOf, Record
<1>2. Records("rows") = {RecordOf(x) : x \in proc}
  BY DEF Records, RecordOf
<1>3. \A x, y \in proc : RecordOf(x) = RecordOf(y) => x = y
  BY DEF RecordOf, TablesInv, UniqueKey, UniqueKeys
<1> QED BY <1>1, <1>2, <1>3

LEMMA RecordsFacts ==
    ASSUME TablesInv, NEW of \in {"rows", "raws"}
    PROVE  Records(of) \in SUBSET Record /\ IsFiniteSet(Records(of))
<1>1. CASE of = "rows"
  <2> DEFINE f == [x \in proc |-> RecordOf(x)]
  <2>1. Records("rows") \in SUBSET Record
    BY RowsAreRecords
  <2>2. f \in Surjection(proc, Records("rows"))
    BY RowsAreRecords DEF Surjection
  <2>3. IsFiniteSet(Records("rows"))
    BY <2>2, TablesAreFinite, FS_Surjection
  <2> QED BY <1>1, <2>1, <2>3
<1>2. CASE of = "raws"
  <2> DEFINE rec(r) == [id |-> r, class |-> Capture[r].source = SourceName, at |-> CreatedAt[r]]
             f == [r \in raws |-> rec(r)]
  <2>1. Records("raws") = {rec(r) : r \in raws}
    BY DEF Records
  <2>2. \A r \in raws : rec(r) \in Record
    BY ReadAssumption DEF Record, TablesInv, TypeOK
  <2>3. f \in Surjection(raws, Records("raws"))
    <3> HIDE DEF rec
    <3> QED BY <2>1 DEF Surjection
  <2>4. IsFiniteSet(Records("raws"))
    BY <2>3, TablesAreFinite, FS_Surjection
  <2> HIDE DEF rec
  <2> QED BY <1>2, <2>1, <2>2, <2>4
<1> QED BY <1>1, <1>2

\* The summary counts rows, and so records.
LEMMA CountsAgree ==
    ASSUME TablesInv
    PROVE  /\ Cardinality(Records("rows")) = Cardinality(proc)
           /\ Cardinality(proc) \in Nat
           /\ Cardinality({x \in proc : IsOpen(x)})
                 = Cardinality({y \in Records("rows") : y.class})
           /\ Cardinality({x \in proc : IsOpen(x)}) \in Nat
           /\ Cardinality({x \in proc : IsOpen(x)}) <= Cardinality(proc)
           /\ {x.cols["event_date"] : x \in proc} = {y.at : y \in Records("rows")}
<1> DEFINE f == [x \in proc |-> RecordOf(x)]
           o == {x \in proc : IsOpen(x)}
           g == [x \in o |-> RecordOf(x)]
           c == {y \in Records("rows") : y.class}
<1>1. f \in Bijection(proc, Records("rows"))
  BY RowsAreRecords DEF Bijection, Injection, IsInjective, Surjection
<1>2. Cardinality(Records("rows")) = Cardinality(proc)
  BY <1>1, TablesAreFinite, FS_Bijection DEF ExistsBijection
<1>3. \A x \in proc : IsOpen(x) <=> RecordOf(x).class
  BY DEF IsOpen, RecordOf
<1>4. g \in Bijection(o, c)
  <2>1. \A x \in o : x \in proc /\ RecordOf(x) \in c
    BY <1>3, RowsAreRecords
  <2>2. \A y \in c : \E x \in o : y = RecordOf(x)
    BY <1>3, RowsAreRecords
  <2> HIDE DEF o, c
  <2> QED BY <2>1, <2>2, RowsAreRecords DEF Bijection, Injection, IsInjective, Surjection
<1>5. o \in SUBSET proc
  OBVIOUS
<1> HIDE DEF o, c
<1>6. IsFiniteSet(o) /\ Cardinality(o) <= Cardinality(proc)
  BY <1>5, TablesAreFinite, FS_Subset
<1>7. Cardinality(c) = Cardinality(o)
  BY <1>4, <1>6, FS_Bijection DEF ExistsBijection
<1>8. Cardinality(o) \in Nat /\ Cardinality(proc) \in Nat
  BY <1>6, TablesAreFinite, FS_CardinalityType
<1>9. {x.cols["event_date"] : x \in proc} = {y.at : y \in Records("rows")}
  <2>1. \A x \in proc : RecordOf(x).at = x.cols["event_date"]
    BY DEF RecordOf
  <2>2. Records("rows") = {RecordOf(x) : x \in proc}
    BY RowsAreRecords
  <2> QED BY <2>1, <2>2
<1> QED BY <1>2, <1>6, <1>7, <1>8, <1>9 DEF o, c

\* c puts each member of P into one of the parts S: w[s] of them are in the part
\* s, m[T] in the parts of T, and a recursion that adds part after part has the
\* value m[S], the size of P.
LEMMA PartsAddUp ==
    ASSUME NEW P, IsFiniteSet(P), NEW S, NEW c \in Surjection(P, S)
    PROVE  \E w \in [S -> Nat], m \in [SUBSET S -> Nat] :
              /\ \A s \in S : w[s] = Cardinality({x \in P : c[x] = s})
              /\ m[{}] = 0
              /\ \A T \in SUBSET S : \A s \in T : m[T] = w[s] + m[T \ {s}]
              /\ \A g : g[{}] = 0 /\ (\A T \in SUBSET S : T # {} =>
                                          \E s \in T : g[T] = w[s] + g[T \ {s}])
                           => g[S] = Cardinality(P)
<1> DEFINE In(T) == {x \in P : c[x] \in T}
           w == [s \in S |-> Cardinality({x \in P : c[x] = s})]
           m == [T \in SUBSET S |-> Cardinality(In(T))]
<1>1. IsFiniteSet(S)
  BY FS_Surjection
<1>2. \A T : IsFiniteSet(In(T)) /\ Cardinality(In(T)) \in Nat
  <2>1. \A T : In(T) \in SUBSET P
    OBVIOUS
  <2> HIDE DEF In
  <2> QED BY <2>1, FS_Subset, FS_CardinalityType
<1>3. \A s \in S : w[s] = Cardinality(In({s}))
  <2> SUFFICES ASSUME NEW s \in S PROVE w[s] = Cardinality(In({s}))
    OBVIOUS
  <2>1. In({s}) = {x \in P : c[x] = s}
    OBVIOUS
  <2>2. w[s] = Cardinality({x \in P : c[x] = s})
    OBVIOUS
  <2> HIDE DEF w, In
  <2> QED BY <2>1, <2>2
<1>4. \A T \in SUBSET S : m[T] = Cardinality(In(T))
  <2> HIDE DEF In
  <2> QED OBVIOUS
<1>5. m \in [SUBSET S -> Nat]
  <2> HIDE DEF In
  <2> QED BY <1>2
<1>6. w \in [S -> Nat]
  <2>1. w = [s \in S |-> w[s]]
    OBVIOUS
  <2> HIDE DEF w, In
  <2> QED BY <1>2, <1>3, <2>1
<1>7. In({}) = {} /\ In(S) = P
  BY DEF Surjection
<1>8. ASSUME NEW T \in SUBSET S, NEW s \in T
      PROVE  m[T] = w[s] + m[T \ {s}]
  <2> DEFINE A == In({s})
             B == In(T \ {s})
  <2>1. In(T) = A \cup B /\ A \cap B = {}
    OBVIOUS
  <2>2. T \ {s} \in SUBSET S /\ s \in S
    OBVIOUS
  <2> HIDE DEF w, m
  <2>3. /\ IsFiniteSet(A) /\ Cardinality(A) \in Nat
        /\ IsFiniteSet(B) /\ Cardinality(B) \in Nat
    <3> HIDE DEF In
    <3> QED BY <1>2
  <2>4. w[s] = Cardinality(A)
    <3> HIDE DEF In
    <3> QED BY <1>3, <2>2
  <2>5. m[T] = Cardinality(In(T)) /\ m[T \ {s}] = Cardinality(B)
    <3> HIDE DEF In
    <3> QED BY <1>4, <2>2
  <2> HIDE DEF In, A, B
  <2>6. Cardinality(A \cup B) = Cardinality(A) + Cardinality(B) - Cardinality({})
    BY <2>1, <2>3, FS_Union
  <2> QED BY <2>1, <2>3, <2>4, <2>5, <2>6, FS_EmptySet
<1>9. m[{}] = 0 /\ m[S] = Cardinality(P)
  <2>1. m[{}] = Cardinality(In({})) /\ m[S] = Cardinality(In(S))
    <3> HIDE DEF In, m
    <3> QED BY <1>4
  <2> HIDE DEF In, m
  <2> QED BY <1>7, <2>1, FS_EmptySet
<1>10. \A s \in S : w[s] = Cardinality({x \in P : c[x] = s})
  OBVIOUS
<1> HIDE DEF w, m
<1>11. ASSUME NEW g, g[{}] = 0,
              \A T \in SUBSET S : T # {} => \E s \in T : g[T] = w[s] + g[T \ {s}]
       PROVE  g[S] = Cardinality(P)
  <2>1. g[S] = m[S]
    BY <1>1, <1>5, <1>6, <1>8, <1>9, <1>11, SumIsMeasure
  <2> QED BY <1>9, <2>1
<1> QED BY <1>5, <1>6, <1>8, <1>9, <1>10, <1>11

\* The groups of a figure partition the rows: their counts add up.
LEMMA GroupsAddUp ==
    ASSUME TablesInv, NEW c, c = [x \in proc |-> c[x]]
    PROVE  GroupSum(c) = Cardinality(proc)
<1> DEFINE S == {c[x] : x \in proc}
           N(s) == Cardinality({x \in proc : c[x] = s})
           Step(h) == [T \in SUBSET S |->
                          IF T = {} THEN 0
                          ELSE N(CHOOSE s \in T : TRUE) + h[T \ {CHOOSE s \in T : TRUE}]]
           g == CHOOSE h : h = Step(h)
<1>1. IsFiniteSet(proc) /\ c \in Surjection(proc, S)
  BY TablesAreFinite DEF Surjection
<1>2. \A s : Cardinality({x \in proc : c[x] = s}) = N(s)
  OBVIOUS
<1> HIDE DEF N, S
<1>3. PICK w \in [S -> Nat], m \in [SUBSET S -> Nat] :
          /\ \A s \in S : w[s] = Cardinality({x \in proc : c[x] = s})
          /\ m[{}] = 0
          /\ \A T \in SUBSET S : \A s \in T : m[T] = w[s] + m[T \ {s}]
          /\ \A h : h[{}] = 0 /\ (\A T \in SUBSET S : T # {} =>
                                     \E s \in T : h[T] = w[s] + h[T \ {s}])
                       => h[S] = Cardinality(proc)
  BY <1>1, PartsAddUp
<1>4. \A s \in S : w[s] = N(s)
  BY <1>2, <1>3
<1>5. \A T \in SUBSET S : T # {} => (CHOOSE s \in T : TRUE) \in T
  OBVIOUS
<1>6. \E h : h = Step(h)
  <2>1. ASSUME NEW T \in SUBSET S, T # {}
        PROVE  m[T] = N(CHOOSE s \in T : TRUE) + m[T \ {CHOOSE s \in T : TRUE}]
    <3> DEFINE z == CHOOSE s \in T : TRUE
    <3>1. z \in T
      BY <1>5, <2>1
    <3> HIDE DEF z
    <3>2. m[T] = w[z] + m[T \ {z}]
      BY <1>3, <3>1
    <3>3. m[T] = N(z) + m[T \ {z}]
      BY <1>4, <3>1, <3>2
    <3> QED BY <3>3 DEF z
  <2>2. m = Step(m)
    BY <1>3, <2>1
  <2> HIDE DEF Step
  <2> QED BY <2>2
<1>7. g = Step(g)
  <2> HIDE DEF Step
  <2> QED BY <1>6
<1> HIDE DEF g
<1>8. g[{}] = 0
  BY <1>7
<1>9. ASSUME NEW T \in SUBSET S, T # {}
      PROVE  \E s \in T : g[T] = w[s] + g[T \ {s}]
  <2>1. g[T] = N(CHOOSE s \in T : TRUE) + g[T \ {CHOOSE s \in T : TRUE}]
    BY <1>7, <1>9
  <2> DEFINE s == CHOOSE s \in T : TRUE
  <2>2. s \in T
    BY <1>9
  <2> HIDE DEF s
  <2>3. g[T] = N(s) + g[T \ {s}]
    BY <2>1 DEF s
  <2> QED BY <1>4, <2>2, <2>3
<1>10. g[S] = Cardinality(proc)
  BY <1>3, <1>8, <1>9
<1> QED BY <1>10 DEF GroupSum, MapThenSumSet, MapThenFoldSet, N, S, g

\* A bucket starts at a date of its own, and ends with the next one.
LEMMA BucketFacts ==
    ASSUME NEW i \in Intervals, NEW d \in Nat
    PROVE  /\ Width[i] \in Nat \ {0}
           /\ Bucket(i, d) \in Nat
           /\ Bucket(i, d) <= d
           /\ d < Bucket(i, d) + Width[i]
<1>1. Width[i] \in Nat \ {0}
  BY DashboardAssumption
<1> DEFINE w == Width[i]
<1> HIDE DEF w
<1>2. /\ (d \div w) * w \in Nat
      /\ (d \div w) * w <= d
      /\ d < (d \div w) * w + w
  <2>1. w \in Nat \ {0}
    BY <1>1 DEF w
  <2> QED BY <2>1
<1> QED BY <1>1, <1>2 DEF Bucket, w

\* The points of a time series partition the rows: they add up to their number.
LEMMA TimeseriesAddsUp ==
    ASSUME TablesInv, NEW i \in Intervals
    PROVE  /\ MapThenSumSet(LAMBDA p : p[2], Timeseries(i)) = Cardinality(proc)
           /\ Timeseries(i) \in SUBSET (Nat \X Nat)
<1> DEFINE b == [x \in proc |-> Bucket(i, x.cols["event_date"])]
           n == [x \in proc |-> Cardinality({y \in proc : b[y] = b[x]})]
           c == [x \in proc |-> <<b[x], n[x]>>]
           S == {c[x] : x \in proc}
           N(p) == p[2]
           Step(h) == [T \in SUBSET S |->
                          IF T = {} THEN 0
                          ELSE N(CHOOSE s \in T : TRUE) + h[T \ {CHOOSE s \in T : TRUE}]]
           g == CHOOSE h : h = Step(h)
<1>1. Timeseries(i) = S
  <2> DEFINE B(x) == Bucket(i, x.cols["event_date"])
             M(d) == Cardinality({y \in proc : B(y) = d})
  <2>1. \A x \in proc : b[x] = B(x)
    OBVIOUS
  <2>2. \A x \in proc : c[x] = <<B(x), M(B(x))>>
    <3> SUFFICES ASSUME NEW x \in proc PROVE c[x] = <<B(x), M(B(x))>>
      OBVIOUS
    <3>1. {y \in proc : b[y] = b[x]} = {y \in proc : B(y) = B(x)}
      <4> HIDE DEF b, B
      <4> QED BY <2>1
    <3>2. n[x] = M(B(x))
      BY <3>1
    <3>3. c[x] = <<b[x], n[x]>>
      OBVIOUS
    <3> HIDE DEF b, n, c, B, M
    <3> QED BY <2>1, <3>2, <3>3
  <2>3. Timeseries(i) = {<<d, M(d)>> : d \in {B(x) : x \in proc}}
    BY DEF Timeseries
  <2> HIDE DEF B, M, c, b, n
  <2>4. {<<d, M(d)>> : d \in {B(x) : x \in proc}} = {<<B(x), M(B(x))>> : x \in proc}
    OBVIOUS
  <2> QED BY <2>2, <2>3, <2>4
<1>2. IsFiniteSet(proc) /\ c \in Surjection(proc, S)
  <2>1. c = [x \in proc |-> c[x]]
    OBVIOUS
  <2> HIDE DEF c
  <2> QED BY <2>1, TablesAreFinite DEF Surjection
<1>3. \A x \in proc : b[x] \in Nat /\ n[x] \in Nat
  <2>1. \A x \in proc : b[x] \in Nat
    BY RowsAreRecords, BucketFacts
  <2>2. \A x \in proc : n[x] = Cardinality({y \in proc : b[y] = b[x]})
    OBVIOUS
  <2>3. \A x \in proc : {y \in proc : b[y] = b[x]} \in SUBSET proc
    OBVIOUS
  <2> HIDE DEF b, n
  <2> QED BY <1>2, <2>1, <2>2, <2>3, FS_Subset, FS_CardinalityType
<1>4. S \in SUBSET (Nat \X Nat)
  <2>1. \A x \in proc : c[x] = <<b[x], n[x]>>
    OBVIOUS
  <2> HIDE DEF b, n, c
  <2> QED BY <1>3, <2>1
<1>5. \A s \in S : Cardinality({x \in proc : c[x] = s}) = N(s)
  <2> SUFFICES ASSUME NEW s \in S PROVE Cardinality({x \in proc : c[x] = s}) = N(s)
    OBVIOUS
  <2>0. PICK z \in proc : s = c[z]
    OBVIOUS
  <2>1. \A x \in proc : b[x] = b[z] => n[x] = n[z]
    <3>1. \A x \in proc : n[x] = Cardinality({y \in proc : b[y] = b[x]})
      OBVIOUS
    <3> HIDE DEF b, n
    <3> QED BY <3>1
  <2>2. \A x \in proc : c[x] = <<b[x], n[x]>>
    OBVIOUS
  <2>3. n[z] = Cardinality({y \in proc : b[y] = b[z]})
    OBVIOUS
  <2> HIDE DEF b, n, c
  <2>4. {x \in proc : c[x] = s} = {y \in proc : b[y] = b[z]}
    BY <2>0, <2>1, <2>2
  <2>5. N(s) = n[z]
    BY <2>0, <2>2
  <2> QED BY <2>3, <2>4, <2>5
<1> HIDE DEF S, c
<1>6. PICK w \in [S -> Nat], m \in [SUBSET S -> Nat] :
          /\ \A s \in S : w[s] = Cardinality({x \in proc : c[x] = s})
          /\ m[{}] = 0
          /\ \A T \in SUBSET S : \A s \in T : m[T] = w[s] + m[T \ {s}]
          /\ \A h : h[{}] = 0 /\ (\A T \in SUBSET S : T # {} =>
                                     \E s \in T : h[T] = w[s] + h[T \ {s}])
                       => h[S] = Cardinality(proc)
  BY <1>2, PartsAddUp
<1> HIDE DEF N
<1>7. \A s \in S : w[s] = N(s)
  BY <1>5, <1>6
<1>8. \A T \in SUBSET S : T # {} => (CHOOSE s \in T : TRUE) \in T
  OBVIOUS
<1>9. \E h : h = Step(h)
  <2>1. \A T \in SUBSET S : T # {} =>
           m[T] = N(CHOOSE s \in T : TRUE) + m[T \ {CHOOSE s \in T : TRUE}]
    BY <1>6, <1>7, <1>8
  <2>2. m = Step(m)
    BY <1>6, <2>1
  <2> HIDE DEF Step
  <2> QED BY <2>2
<1>10. g = Step(g)
  <2> HIDE DEF Step
  <2> QED BY <1>9
<1> HIDE DEF g
<1>11. g[{}] = 0
  BY <1>10
<1>12. ASSUME NEW T \in SUBSET S, T # {}
       PROVE  \E s \in T : g[T] = w[s] + g[T \ {s}]
  <2>1. g[T] = N(CHOOSE s \in T : TRUE) + g[T \ {CHOOSE s \in T : TRUE}]
    BY <1>10, <1>12
  <2> DEFINE s == CHOOSE s \in T : TRUE
  <2>2. s \in T
    BY <1>12
  <2> HIDE DEF s
  <2>3. g[T] = N(s) + g[T \ {s}]
    BY <2>1 DEF s
  <2> QED BY <1>7, <2>2, <2>3
<1>13. g[S] = Cardinality(proc)
  BY <1>6, <1>11, <1>12
<1>14. MapThenSumSet(LAMBDA p : p[2], S) = g[S]
  BY DEF MapThenSumSet, MapThenFoldSet, N, g
<1> QED BY <1>1, <1>4, <1>13, <1>14

\* Closed records are those that are not open.
LEMMA OpenAndClosed ==
    ASSUME NEW F, IsFiniteSet(F)
    PROVE  Cardinality(F) - Cardinality({x \in F : x.class}) = Cardinality({x \in F : ~x.class})
<1> DEFINE A == {x \in F : x.class}
           B == {x \in F : ~x.class}
<1>1. A \in SUBSET F /\ B \in SUBSET F /\ F = A \cup B /\ A \cap B = {}
  OBVIOUS
<1> HIDE DEF A, B
<1>2. /\ IsFiniteSet(A) /\ Cardinality(A) \in Nat
      /\ IsFiniteSet(B) /\ Cardinality(B) \in Nat
  BY <1>1, FS_Subset, FS_CardinalityType
<1>3. Cardinality(A \cup B) = Cardinality(A) + Cardinality(B) - Cardinality({})
  BY <1>1, <1>2, FS_Union
<1>4. Cardinality(F) = Cardinality(A) + Cardinality(B)
  BY <1>1, <1>2, <1>3, FS_EmptySet
<1> QED BY <1>2, <1>4 DEF A, B

-----------------------------------------------------------------------------
(* The inductive invariant of the reading requests.                          *)

\* The records that the request is about, and what its filter lets through.
Now == Records(read.ask.of)

Selected == Filtered(Now, read.ask)

ReadTyping == TablesInv /\ ReadTypeOK

\* The history variables say in which direction the records have moved.
History ==
    /\ IsFiniteSet(begin)
    /\ ~grown => Now \subseteq begin
    /\ ~gone => begin \subseteq Now

Summing == read.step \in {"total", "open", "categories", "sources", "span", "summed"}

AskFits ==
    /\ Summing => read.ask.of = "rows"
    /\ read.step = "export" => read.ask.dir = "asc"

\* A record not yet listed, with a date of its own, is behind the pages so far:
\* its rank, which inserts can only raise, is beyond the offset.  Between the two
\* statements of a page that holds of the next offset, if the page is full.
WalkInv ==
    ~gone =>
        \A x \in Wanted \ ToSet(read.listed) : Alone(x, Selected) =>
            /\ read.step = "page" => Rank(Selected, read.ask, x) > read.offset
            /\ read.step = "count" =>
                  \/ x \in ToSet(read.items)
                  \/ /\ Len(read.items) = PageSize
                     /\ Rank(Selected, read.ask, x) > read.offset + PageSize
            /\ read.step # "walked"

\* l is n records of F with the dates that every sorted list of F begins with.
Begins(l, n, F, a) ==
    /\ l \in Seq(F) /\ Len(l) = n /\ n <= Cardinality(F)
    /\ \A s \in Ordered(F, a) : \A i \in 1..n : l[i].at = s[i].at

\* If nothing is written the pages so far have the dates of the beginning of any
\* sorted list, and the next page is a part of one.
QuietWalk ==
    ~gone /\ ~grown =>
        /\ read.step \in {"page", "count"} =>
              Begins(read.listed, read.offset, Wanted, read.ask)
        /\ read.step = "count" =>
              \E s \in Ordered(Wanted, read.ask) :
                  read.items = PageOf(s, read.offset, PageSize)

\* What the figures say of the records, as far as they have been taken.
Totals ==
    read.step \in {"open", "categories", "sources", "span", "summed"} =>
        /\ ~grown => Cardinality(Now) <= read.total
        /\ ~gone => read.total <= Cardinality(Now)

OpenFits ==
    read.step \in {"categories", "sources", "span", "summed"} =>
        /\ ~grown => read.open <= read.total
        /\ ~grown /\ ~gone => read.total - read.open = Cardinality({x \in begin : ~x.class})

CategoriesFit ==
    read.step \in {"sources", "span", "summed"} =>
        /\ ~grown => read.categories <= read.total
        /\ ~grown /\ ~gone => read.categories = read.total

SourcesFit ==
    read.step \in {"span", "summed"} =>
        /\ ~grown => read.sources <= read.total
        /\ ~grown /\ ~gone => read.sources = read.total

GroupsFit == CategoriesFit /\ SourcesFit

SpanFits ==
    read.step = "summed" /\ ~grown /\ ~gone =>
        /\ read.span \subseteq {x.at : x \in begin}
        /\ \A x \in begin : \E d, e \in read.span : d <= x.at /\ x.at <= e

Figures == Totals /\ OpenFits /\ GroupsFit /\ SpanFits

ReadInv ==
    /\ ReadTyping
    /\ History
    /\ AskFits
    /\ WalkInv
    /\ QuietWalk
    /\ QuietWalkIsExact
    /\ Figures

-----------------------------------------------------------------------------
(* The inductive invariant of the page.                                      *)

\* The points of a load, drawn or not, stand to the summary as TilesMatchChart
\* says.
Counted(points) == MapThenSumSet(LAMBDA p : p[2], points)

PointsFit(points, i) ==
    /\ ~gone => Counted(points) >= read.total
    /\ ~grown => Counted(points) <= read.total
    /\ ~grown /\ ~gone =>
          /\ \A d \in read.span : \E p \in points : p[1] = Bucket(i, d)
          /\ \A p \in points : \E d, e \in read.span : p[1] <= e /\ d < p[1] + Width[i]

PageTyping == page \in PageType /\ loads \subseteq LoadType

\* Before the chart is there, nothing is under way but the first load.
Phases ==
    /\ page.phase \in {"loading", "broken"} => loads = {}
    /\ page.phase \in {"drawing", "ready"} => read.step = "summed"
    /\ page.phase = "drawing" => \A l \in loads : l.n = 0
    /\ page.phase \in {"loading", "drawing"} =>
          /\ page.newest = 0
          /\ page.changes # 0 => "missed" \in page.excuse
          /\ page.changes = 0 => page.selected = First
    /\ page.phase = "drawing" => \A l \in loads : l.interval = First

\* The loads are numbered, and what was answered or drawn fits the summary.
Loads ==
    /\ \A l \in loads : l.n <= page.changes
    /\ \A l, k \in loads : l.n = k.n => l = k
    /\ page.newest <= page.changes
    /\ \A l \in loads : l.answered => PointsFit(l.points, l.interval)
    /\ page.phase = "ready" => PointsFit(page.series, page.shown)

\* The latest change has been drawn, or is under way, or its load has failed.
LatestChange ==
    page.phase = "ready" /\ "missed" \notin page.excuse =>
        /\ \A l \in loads : l.n = page.changes => l.interval = page.selected
        /\ "failed" \notin page.excuse =>
              page.newest = page.changes \/ \E l \in loads : l.n = page.changes
        /\ page.newest = page.changes /\ page.excuse = {} => page.shown = page.selected

PageInv ==
    /\ PageTyping
    /\ Phases
    /\ Loads
    /\ LatestChange

DashInv == ReadInv /\ PageInv

-----------------------------------------------------------------------------
(* The writes of others.  Commit takes a batch one raw at a time, and stops  *)
(* at the bound that keeps TLC's instance small; what is proved is proved    *)
(* among any operations of ObservationTables, as many as there may be.       *)

AnyCommit ==
    /\ UNCHANGED <<read, begin>>
    /\ Next
    /\ grown' = (grown \/ Now' \ Now # {})
    /\ gone' = (gone \/ Now \ Now' # {})

AmongAnyWrites ==
    \/ PageNext
    \/ Reads /\ UNCHANGED <<page, loads>>
    \/ read.step \notin {"walked", "exported"} /\ AnyCommit /\ UNCHANGED <<page, loads>>

AmongAnyWritesSpec == DashInit /\ [][AmongAnyWrites]_dashVars

LEMMA CommitIsAny ==
    ASSUME TablesInv, Commit
    PROVE  AnyCommit
<1>1. Next /\ UNCHANGED <<read, begin>>
  BY CommitIsNext DEF Commit
<1>2. Now' = Records(read.ask.of)'
  BY DEF Now
<1> QED BY <1>1, <1>2 DEF Commit, AnyCommit, Now

LEMMA InvFacts ==
    ASSUME ReadInv
    PROVE  /\ Now \in SUBSET Record /\ IsFiniteSet(Now) /\ Cardinality(Now) \in Nat
           /\ begin \in SUBSET Record /\ IsFiniteSet(begin) /\ Cardinality(begin) \in Nat
           /\ Selected \in SUBSET Now /\ IsFiniteSet(Selected) /\ Cardinality(Selected) \in Nat
           /\ Wanted \in SUBSET begin /\ IsFiniteSet(Wanted)
           /\ ~gone => Wanted \subseteq Selected
           /\ ~gone /\ ~grown => Now = begin /\ Wanted = Selected
           /\ read.ask \in AskType
<1>1. read.ask \in AskType /\ read.ask.of \in {"rows", "raws"} /\ begin \in SUBSET Record
  BY DEF ReadInv, ReadTyping, ReadTypeOK, ReadType, AskType
<1>2. Now \in SUBSET Record /\ IsFiniteSet(Now)
  BY <1>1, RecordsFacts DEF ReadInv, ReadTyping, Now
<1>3. IsFiniteSet(begin)
  BY DEF ReadInv, History
<1>4. Selected \in SUBSET Now /\ Wanted \in SUBSET begin
  BY DEF Selected, Wanted, Filtered
<1>5. /\ IsFiniteSet(Selected) /\ IsFiniteSet(Wanted)
      /\ Cardinality(Selected) \in Nat /\ Cardinality(Now) \in Nat /\ Cardinality(begin) \in Nat
  BY <1>2, <1>3, <1>4, FS_Subset, FS_CardinalityType
<1>6. ~gone => begin \subseteq Now
  BY DEF ReadInv, History
<1>7. ~gone /\ ~grown => Now = begin
  BY DEF ReadInv, History
<1>8. ~gone => Wanted \subseteq Selected
  BY <1>6 DEF Selected, Wanted, Filtered
<1>9. ~gone /\ ~grown => Wanted = Selected
  BY <1>7 DEF Selected, Wanted
<1> QED BY <1>1, <1>2, <1>3, <1>4, <1>5, <1>7, <1>8, <1>9

\* A statement that reads leaves the tables and the history alone.
LEMMA ReadFrame ==
    ASSUME ReadInv, UNCHANGED <<raws, proc, begin, grown, gone>>, read'.ask = read.ask
    PROVE  /\ TablesInv' /\ TypeOK' /\ begin' \subseteq Record /\ {grown', gone'} \subseteq BOOLEAN
           /\ History'
           /\ Now' = Now /\ Selected' = Selected /\ Wanted' = Wanted
<1>1. Now' = Now
  BY DEF Now, Records
<1>2. Selected' = Selected /\ Wanted' = Wanted
  BY <1>1 DEF Selected, Wanted, Filtered
<1>3. TablesInv' /\ TypeOK'
  BY DEF ReadInv, ReadTyping, TablesInv, TypeOK, UniqueKey, ReferentialIntegrity
<1>4. History'
  BY <1>1 DEF ReadInv, History
<1>5. begin' \subseteq Record /\ {grown', gone'} \subseteq BOOLEAN
  BY DEF ReadInv, ReadTyping, ReadTypeOK
<1> QED BY <1>1, <1>2, <1>3, <1>4, <1>5

LEMMA ListPageStep ==
    ASSUME ReadInv, ListPage, UNCHANGED <<raws, proc, begin, grown, gone>>
    PROVE  ReadInv'
<1>1. PICK s \in Ordered(Selected, read.ask) :
         read' = [read EXCEPT !.items = PageOf(s, read.offset, PageSize), !.step = "count"]
  BY DEF ListPage, ListFiltered, Selected, Now
<1> DEFINE p == PageOf(s, read.offset, PageSize)
<1>2. read \in ReadType /\ read.step = "page" /\ read.offset \in Nat /\ PageSize \in Nat \ {0}
  BY ReadAssumption DEF ListPage, ReadInv, ReadTyping, ReadTypeOK, ReadType
<1>3. /\ read'.ask = read.ask /\ read'.offset = read.offset /\ read'.items = p
      /\ read'.listed = read.listed /\ read'.step = "count"
  BY <1>1, <1>2 DEF ReadType
<1>4. /\ Selected \in SUBSET Record /\ IsFiniteSet(Selected)
      /\ Wanted \in SUBSET Record /\ IsFiniteSet(Wanted)
      /\ ~gone => Wanted \subseteq Selected
      /\ ~gone /\ ~grown => Now = begin /\ Wanted = Selected
      /\ Selected \in SUBSET Now
  BY InvFacts
<1>5. /\ s \in Seq(Selected) /\ s \in Seq(Record)
      /\ Len(s) = Cardinality(Selected) /\ Len(s) \in Nat
      /\ \A x \in Selected : \E i \in 1..Len(s) : s[i] = x
  BY <1>4, OrderedFacts
<1>6. /\ p \in Seq(Record) /\ Len(p) \in Nat /\ Len(p) <= PageSize
      /\ Len(p) < PageSize /\ read.offset <= Len(s) => read.offset + Len(p) = Len(s)
      /\ \A k \in 1..Len(p) : p[k] = s[read.offset + k]
  <2> HIDE DEF p
  <2>1. /\ s \in Seq(Record) /\ read.offset \in Nat /\ PageSize \in Nat \ {0}
        /\ p = PageOf(s, read.offset, PageSize)
    BY <1>2, <1>5 DEF p
  <2> QED BY <2>1, PageFacts
<1>7. /\ TablesInv' /\ TypeOK' /\ begin' \subseteq Record /\ {grown', gone'} \subseteq BOOLEAN
      /\ History'
      /\ Now' = Now /\ Selected' = Selected /\ Wanted' = Wanted
  BY <1>3, ReadFrame
<1> HIDE DEF p
<1>8. ReadTyping'
  <2>1. read' \in ReadType
    BY <1>1, <1>2, <1>6 DEF ReadType, p
  <2> QED BY <1>3, <1>6, <1>7, <2>1 DEF ReadTyping, ReadTypeOK
<1>9. AskFits'
  BY <1>3 DEF AskFits, Summing
<1>10. WalkInv'
  <2> SUFFICES ASSUME ~gone, NEW x \in Wanted, x \notin ToSet(read.listed), Alone(x, Selected)
               PROVE  \/ x \in ToSet(p)
                      \/ /\ Len(p) = PageSize
                         /\ Rank(Selected, read.ask, x) > read.offset + PageSize
    BY <1>3, <1>7 DEF WalkInv
  <2>1. x \in Selected /\ Rank(Selected, read.ask, x) > read.offset
    BY <1>2, <1>4 DEF ReadInv, WalkInv
  <2>2. PICK i \in 1..Len(s) : s[i] = x
    BY <1>5, <2>1
  <2>3. Rank(Selected, read.ask, x) = i
    BY <1>4, <2>2, PlaceIsRank
  <2>4. i \in Nat /\ i > read.offset /\ i <= Len(s)
    BY <1>5, <2>1, <2>3
  <2>5. CASE i <= read.offset + Len(p)
    <3> DEFINE k == i - read.offset
    <3>1. k \in 1..Len(p) /\ read.offset + k = i
      BY <1>2, <1>6, <2>4, <2>5
    <3>2. p[k] = x
      BY <1>6, <2>2, <3>1
    <3>3. x \in ToSet(p)
      BY <1>6, <3>1, <3>2 DEF ToSet
    <3> QED BY <3>3
  <2>6. CASE ~(i <= read.offset + Len(p))
    <3>1. Len(p) = PageSize
      BY <1>2, <1>5, <1>6, <2>4, <2>6
    <3> QED BY <1>2, <2>3, <2>4, <2>6, <3>1
  <2> QED BY <2>5, <2>6
<1>11. QuietWalk'
  <2>1. ASSUME ~gone, ~grown
        PROVE  /\ s \in Ordered(Wanted, read.ask)
               /\ Begins(read.listed, read.offset, Wanted, read.ask)
    BY <1>2, <1>4, <2>1 DEF ReadInv, QuietWalk
  <2> QED BY <1>3, <1>7, <2>1 DEF QuietWalk, p
<1>12. QuietWalkIsExact'
  BY <1>3 DEF QuietWalkIsExact
<1>13. Figures'
  BY <1>3 DEF Figures, Totals, OpenFits, GroupsFit,
         CategoriesFit, SourcesFit, SpanFits
<1> QED BY <1>7, <1>8, <1>9, <1>10, <1>11, <1>12, <1>13 DEF ReadInv

LEMMA ConcatHasBoth ==
    ASSUME NEW S, NEW s \in Seq(S), NEW t \in Seq(S)
    PROVE  s \o t \in Seq(S) /\ ToSet(s) \cup ToSet(t) \subseteq ToSet(s \o t)
<1> DEFINE u == s \o t
<1>1. /\ u \in Seq(S)
      /\ Len(u) = Len(s) + Len(t)
      /\ \A i \in 1..(Len(s) + Len(t)) : u[i] = IF i <= Len(s) THEN s[i] ELSE t[i - Len(s)]
  BY ConcatProperties
<1>2. Len(s) \in Nat /\ Len(t) \in Nat /\ DOMAIN s = 1..Len(s) /\ DOMAIN t = 1..Len(t)
  OBVIOUS
<1> HIDE DEF u
<1>3. DOMAIN u = 1..Len(u)
  BY <1>1
<1>4. ASSUME NEW i \in DOMAIN s PROVE s[i] \in ToSet(u)
  <2>1. i \in DOMAIN u /\ u[i] = s[i]
    BY <1>1, <1>2, <1>3
  <2> QED BY <2>1 DEF ToSet
<1>5. ASSUME NEW i \in DOMAIN t PROVE t[i] \in ToSet(u)
  <2> DEFINE j == Len(s) + i
  <2>1. i \in 1..Len(t)
    BY <1>2
  <2>2. j \in 1..(Len(s) + Len(t)) /\ ~(j <= Len(s)) /\ j - Len(s) = i
    BY <1>2, <2>1
  <2> HIDE DEF j
  <2>3. j \in DOMAIN u /\ u[j] = t[i]
    BY <1>1, <1>3, <2>2
  <2> QED BY <2>3 DEF ToSet
<1> QED BY <1>1, <1>4, <1>5 DEF ToSet, u

LEMMA CountPageStep ==
    ASSUME ReadInv, CountPage, UNCHANGED <<raws, proc, begin, grown, gone>>
    PROVE  ReadInv'
<1> DEFINE total == Cardinality(Selected)
           more == read.offset + Len(read.items) < total
           listed == read.listed \o read.items
           offset == IF more THEN read.offset + PageSize ELSE read.offset
<1>1. read' = [read EXCEPT !.total = total, !.listed = listed, !.items = <<>>,
                           !.offset = offset, !.step = IF more THEN "page" ELSE "walked"]
  BY DEF CountPage, HasMore, CountFiltered, Selected, Now
<1>2. /\ read \in ReadType /\ read.step = "count" /\ read.offset \in Nat
      /\ read.items \in Seq(Record) /\ read.listed \in Seq(Record)
      /\ Len(read.items) \in Nat /\ Len(read.items) <= PageSize /\ PageSize \in Nat \ {0}
  BY ReadAssumption DEF CountPage, ReadInv, ReadTyping, ReadTypeOK, ReadType
<1>3. /\ Selected \in SUBSET Record /\ IsFiniteSet(Selected) /\ total \in Nat
      /\ Wanted \in SUBSET Record /\ IsFiniteSet(Wanted)
      /\ ~gone => Wanted \subseteq Selected
      /\ ~gone /\ ~grown => Now = begin /\ Wanted = Selected
  BY InvFacts
<1>4. /\ listed \in Seq(Record)
      /\ ToSet(read.listed) \cup ToSet(read.items) \subseteq ToSet(listed)
  BY <1>2, ConcatHasBoth
<1> HIDE DEF total, listed
<1>5. /\ read'.ask = read.ask /\ read'.items = <<>> /\ read'.listed = listed
      /\ read'.offset = offset /\ read'.total = total
      /\ read'.step = IF more THEN "page" ELSE "walked"
  BY <1>1, <1>2 DEF ReadType
<1>6. /\ TablesInv' /\ TypeOK' /\ begin' \subseteq Record /\ {grown', gone'} \subseteq BOOLEAN
      /\ History'
      /\ Now' = Now /\ Selected' = Selected /\ Wanted' = Wanted
  BY <1>5, ReadFrame
<1>7. offset \in Nat
  BY <1>2
<1>8. ReadTyping'
  <2>1. read' \in ReadType
    <3>1. (IF more THEN "page" ELSE "walked") \in {"page", "walked"}
      OBVIOUS
    <3>2. <<>> \in Seq(Record)
      OBVIOUS
    <3> HIDE DEF offset, more
    <3> QED BY <1>1, <1>2, <1>3, <1>4, <1>7, <3>1, <3>2 DEF ReadType
  <2>2. Len(read'.items) <= PageSize
    BY <1>2, <1>5
  <2> QED BY <1>6, <2>1, <2>2 DEF ReadTyping, ReadTypeOK
<1>9. AskFits'
  BY <1>5 DEF AskFits, Summing
<1>10. WalkInv'
  <2> SUFFICES ASSUME ~gone, NEW x \in Wanted, x \notin ToSet(listed), Alone(x, Selected)
               PROVE  more /\ Rank(Selected, read.ask, x) > offset
    BY <1>5, <1>6 DEF WalkInv
  <2>1. Len(read.items) = PageSize /\ Rank(Selected, read.ask, x) > read.offset + PageSize
    BY <1>2, <1>4 DEF ReadInv, WalkInv
  <2>2. Rank(Selected, read.ask, x) \in Nat /\ Rank(Selected, read.ask, x) <= total
    <3>1. NotBehind(Selected, read.ask, x) \in SUBSET Selected
      BY DEF NotBehind
    <3> QED BY <1>3, <3>1, FS_Subset, FS_CardinalityType DEF Rank, total
  <2> QED BY <1>2, <1>3, <2>1, <2>2
<1>11. ASSUME ~gone, ~grown
       PROVE  /\ Begins(listed, read.offset + Len(read.items), Wanted, read.ask)
              /\ Len(read.items) < PageSize => read.offset + Len(read.items) = total
              /\ Cardinality(Wanted) = total
              /\ \E s \in Ordered(Wanted, read.ask) : Len(s) = total
  <2>1. PICK s \in Ordered(Wanted, read.ask) : read.items = PageOf(s, read.offset, PageSize)
    BY <1>2, <1>11 DEF ReadInv, QuietWalk
  <2>2. /\ read.listed \in Seq(Wanted) /\ Len(read.listed) = read.offset
        /\ read.offset <= Cardinality(Wanted)
        /\ \A t \in Ordered(Wanted, read.ask) :
              \A i \in 1..read.offset : read.listed[i].at = t[i].at
    BY <1>2, <1>11 DEF ReadInv, QuietWalk, Begins
  <2>3. s \in Seq(Wanted) /\ Len(s) = Cardinality(Wanted) /\ Cardinality(Wanted) = total
    BY <1>3, <1>11, OrderedFacts DEF total
  <2>4. /\ read.items \in Seq(Wanted)
        /\ Len(read.items) < PageSize => read.offset + Len(read.items) = total
        /\ read.offset + Len(read.items) <= total
        /\ \A k \in 1..Len(read.items) : read.items[k] = s[read.offset + k]
    <3>1. read.offset <= Len(s)
      BY <2>2, <2>3
    <3> QED BY <1>2, <2>1, <2>3, <3>1, PageFacts
  <2>5. /\ listed \in Seq(Wanted)
        /\ Len(listed) = read.offset + Len(read.items)
        /\ \A i \in 1..(read.offset + Len(read.items)) :
              listed[i] = IF i <= read.offset THEN read.listed[i] ELSE read.items[i - read.offset]
    <3> DEFINE u == read.listed \o read.items
    <3>1. /\ u \in Seq(Wanted)
          /\ Len(u) = Len(read.listed) + Len(read.items)
          /\ \A i \in 1..(Len(read.listed) + Len(read.items)) :
                u[i] = IF i <= Len(read.listed) THEN read.listed[i]
                                                ELSE read.items[i - Len(read.listed)]
      BY <2>2, <2>4, ConcatProperties
    <3> HIDE DEF u
    <3> QED BY <2>2, <3>1 DEF listed, u
  <2>6. ASSUME NEW t \in Ordered(Wanted, read.ask),
               NEW i \in 1..(read.offset + Len(read.items))
        PROVE  listed[i].at = t[i].at
    <3>1. CASE i <= read.offset
      BY <1>2, <2>2, <2>5, <3>1
    <3>2. CASE ~(i <= read.offset)
      <4> DEFINE k == i - read.offset
      <4>1. k \in 1..Len(read.items) /\ read.offset + k = i /\ i \in 1..Len(s)
        BY <1>2, <1>3, <2>3, <2>4, <3>2
      <4>2. listed[i] = s[i]
        BY <2>4, <2>5, <3>2, <4>1
      <4>3. s[i].at = t[i].at
        BY <1>3, <4>1, SameDates
      <4> QED BY <4>2, <4>3
    <3> QED BY <3>1, <3>2
  <2> QED BY <2>3, <2>4, <2>5, <2>6 DEF Begins
<1>12. ASSUME more, ~gone, ~grown
       PROVE  Begins(listed, offset, Wanted, read.ask)
  <2>1. /\ Begins(listed, read.offset + Len(read.items), Wanted, read.ask)
        /\ Len(read.items) < PageSize => read.offset + Len(read.items) = total
    BY <1>11, <1>12
  <2>2. offset = read.offset + Len(read.items)
    BY <1>2, <1>3, <1>12, <2>1
  <2> QED BY <2>1, <2>2
<1>13. QuietWalk'
  <2> HIDE DEF more, offset
  <2> QED BY <1>5, <1>6, <1>12 DEF QuietWalk
<1>14. ASSUME ~more, ~gone, ~grown
       PROVE  /\ total = Cardinality(Wanted) /\ ToSet(listed) \subseteq Wanted
              /\ \E s \in Ordered(Wanted, read.ask) :
                    Len(s) = Len(listed) /\ \A i \in DOMAIN s : listed[i].at = s[i].at
              /\ \A x \in Wanted : Alone(x, Wanted) =>
                    \E i \in DOMAIN listed : \A j \in DOMAIN listed : listed[j] = x <=> j = i
  <2>1. PICK s \in Ordered(Wanted, read.ask) : Len(s) = total
    BY <1>11, <1>14
  <2>2. /\ listed \in Seq(Wanted) /\ Len(listed) = read.offset + Len(read.items)
        /\ read.offset + Len(read.items) <= total /\ total = Cardinality(Wanted)
        /\ \A i \in 1..Len(listed) : listed[i].at = s[i].at
    BY <1>11, <1>14 DEF Begins
  <2>3. Len(listed) = Len(s) /\ DOMAIN s = 1..Len(s)
    <3>1. s \in Seq(Wanted)
      BY <1>3, OrderedFacts
    <3>2. DOMAIN s = 1..Len(s)
      BY <3>1
    <3> QED BY <1>2, <1>3, <1>14, <2>1, <2>2, <3>2
  <2>4. ToSet(listed) \subseteq Wanted
    BY <2>2 DEF ToSet
  <2>5. \A i \in DOMAIN s : listed[i].at = s[i].at
    BY <2>2, <2>3
  <2>6. \A x \in Wanted : Alone(x, Wanted) =>
           \E i \in DOMAIN listed : \A j \in DOMAIN listed : listed[j] = x <=> j = i
    BY <1>3, <2>2, <2>3, <2>5, DatesShowOnce
  <2> QED BY <2>2, <2>3, <2>4, <2>5, <2>6
<1>15. QuietWalkIsExact'
  <2> HIDE DEF more, offset
  <2>1. ASSUME read'.step = "walked", ~gone', ~grown'
        PROVE  ~more /\ ~gone /\ ~grown
    BY <1>5, <2>1
  <2> QED BY <1>5, <1>6, <1>14, <2>1 DEF QuietWalkIsExact
<1>16. Figures'
  BY <1>5 DEF Figures, Totals, OpenFits, GroupsFit,
         CategoriesFit, SourcesFit, SpanFits
<1> QED BY <1>6, <1>8, <1>9, <1>10, <1>13, <1>15, <1>16 DEF ReadInv

LEMMA ExportStep ==
    ASSUME ReadInv, Export, UNCHANGED <<raws, proc, begin, grown, gone>>
    PROVE  ReadInv'
<1>1. PICK s \in Ordered(Selected, read.ask) :
         read' = [read EXCEPT !.listed = PageOf(s, 0, ExportLimit), !.step = "exported"]
  BY DEF Export, ListFiltered, Selected, Now
<1> DEFINE p == PageOf(s, 0, ExportLimit)
<1>2. read \in ReadType /\ read.step = "export" /\ read.ask.dir = "asc"
      /\ ExportLimit \in Nat \ {0}
  BY ReadAssumption DEF Export, ReadInv, ReadTyping, ReadTypeOK, AskFits
<1>3. /\ read'.ask = read.ask /\ read'.items = read.items
      /\ read'.listed = p /\ read'.step = "exported"
  BY <1>1, <1>2 DEF ReadType
<1>4. /\ Selected \in SUBSET Record /\ IsFiniteSet(Selected)
      /\ ~gone /\ ~grown => Wanted = Selected
  BY InvFacts
<1>5. /\ s \in Seq(Record)
      /\ Len(s) = Cardinality(Selected) /\ Len(s) \in Nat
      /\ \A i \in 1..Len(s) : s[i] \in Selected
      /\ \A x \in Selected : \E i \in 1..Len(s) : s[i] = x
      /\ \A i, j \in 1..Len(s) : i < j => s[i].at <= s[j].at
  <2>1. /\ s \in Seq(Selected)
        /\ Len(s) = Cardinality(Selected)
        /\ \A i \in 1..Len(s) : s[i] \in Selected
        /\ \A x \in Selected : \E i \in 1..Len(s) : s[i] = x
        /\ \A i, j \in 1..Len(s) : i < j =>
              IF read.ask.dir = "asc" THEN s[i].at <= s[j].at ELSE s[i].at >= s[j].at
    BY <1>4, OrderedFacts
  <2> QED BY <1>2, <1>4, <2>1
<1>6. /\ p \in Seq(Record) /\ Len(p) \in Nat /\ Len(p) <= ExportLimit
      /\ Len(p) < ExportLimit => Len(p) = Len(s)
      /\ Len(p) <= Len(s)
      /\ \A k \in 1..Len(p) : p[k] = s[k]
  <2> HIDE DEF p
  <2>1. /\ s \in Seq(Record) /\ 0 \in Nat /\ ExportLimit \in Nat \ {0} /\ 0 <= Len(s)
        /\ p = PageOf(s, 0, ExportLimit)
    BY <1>2, <1>5 DEF p
  <2>2. /\ p \in Seq(Record) /\ Len(p) \in Nat /\ Len(p) <= ExportLimit
        /\ Len(p) < ExportLimit => 0 + Len(p) = Len(s)
        /\ 0 + Len(p) <= Len(s)
        /\ \A k \in 1..Len(p) : p[k] = s[0 + k]
    BY <2>1, PageFacts
  <2> QED BY <2>2
<1>7. /\ TablesInv' /\ TypeOK' /\ begin' \subseteq Record /\ {grown', gone'} \subseteq BOOLEAN
      /\ History'
      /\ Now' = Now /\ Selected' = Selected /\ Wanted' = Wanted
  BY <1>3, ReadFrame
<1> HIDE DEF p
<1>8. ReadTyping'
  <2>1. read' \in ReadType
    BY <1>1, <1>2, <1>6 DEF ReadType, p
  <2>2. Len(read'.items) <= PageSize
    BY <1>3 DEF ReadInv, ReadTyping, ReadTypeOK
  <2> QED BY <1>7, <2>1, <2>2 DEF ReadTyping, ReadTypeOK
<1>9. AskFits'
  BY <1>3 DEF AskFits, Summing
<1>10. WalkInv' /\ QuietWalk' /\ Figures'
  BY <1>3 DEF WalkInv, QuietWalk, Figures, Totals, OpenFits, GroupsFit,
         CategoriesFit, SourcesFit, SpanFits
<1>11. QuietWalkIsExact'
  <2> SUFFICES ASSUME ~gone, ~grown
               PROVE  /\ Len(p) = IF Cardinality(Wanted) < ExportLimit
                                  THEN Cardinality(Wanted) ELSE ExportLimit
                      /\ \A i \in DOMAIN p, x \in Wanted \ ToSet(p) : p[i].at <= x.at
    BY <1>3, <1>7 DEF QuietWalkIsExact
  <2>1. Wanted = Selected
    BY <1>4
  <2>2. Len(p) = IF Cardinality(Wanted) < ExportLimit
                 THEN Cardinality(Wanted) ELSE ExportLimit
    BY <1>2, <1>5, <1>6, <2>1
  <2>3. ASSUME NEW i \in DOMAIN p, NEW x \in Wanted \ ToSet(p)
        PROVE  p[i].at <= x.at
    <3>1. i \in 1..Len(p) /\ i \in 1..Len(s) /\ p[i] = s[i]
      BY <1>5, <1>6
    <3>2. PICK j \in 1..Len(s) : s[j] = x
      BY <1>5, <2>1
    <3>3. ~(j \in 1..Len(p))
      BY <1>6, <3>2 DEF ToSet
    <3>4. i < j
      BY <1>5, <1>6, <3>1, <3>2, <3>3
    <3> QED BY <1>5, <3>1, <3>2, <3>4
  <2> QED BY <2>2, <2>3
<1> QED BY <1>7, <1>8, <1>9, <1>10, <1>11 DEF ReadInv

\* While the summary is taken, the records are those of the rows.
LEMMA SummaryFacts ==
    ASSUME ReadInv, Summing
    PROVE  /\ Now = Records("rows")
           /\ Cardinality(Now) = Cardinality(proc) /\ Cardinality(Now) \in Nat
           /\ Cardinality({x \in proc : IsOpen(x)}) = Cardinality({y \in Now : y.class})
           /\ Cardinality({x \in proc : IsOpen(x)}) \in Nat
           /\ Cardinality({x \in proc : IsOpen(x)}) <= Cardinality(Now)
           /\ {x.cols["event_date"] : x \in proc} = {y.at : y \in Now}
           /\ read \in ReadType
           /\ ~gone /\ ~grown => Now = begin
<1>1. Now = Records("rows")
  BY DEF ReadInv, AskFits, Now
<1>2. read \in ReadType /\ TablesInv
  BY DEF ReadInv, ReadTyping, ReadTypeOK
<1>3. ~gone /\ ~grown => Now = begin
  BY InvFacts
<1> QED BY <1>1, <1>2, <1>3, CountsAgree

LEMMA CountTotalStep ==
    ASSUME ReadInv, CountTotal, UNCHANGED <<raws, proc, begin, grown, gone>>
    PROVE  ReadInv'
<1> DEFINE total == Cardinality(proc)
<1>1. read' = [read EXCEPT !.total = total, !.step = "open"] /\ read.step = "total"
  BY DEF CountTotal
<1>2. /\ total = Cardinality(Now) /\ total \in Nat /\ read \in ReadType
  BY <1>1, SummaryFacts DEF Summing
<1> HIDE DEF total
<1>3. /\ read'.ask = read.ask /\ read'.items = read.items /\ read'.total = total
      /\ read'.step = "open"
  BY <1>1, <1>2 DEF ReadType
<1>4. /\ TablesInv' /\ TypeOK' /\ begin' \subseteq Record /\ {grown', gone'} \subseteq BOOLEAN
      /\ History' /\ Now' = Now
  BY <1>3, ReadFrame
<1>5. ReadTyping'
  <2>1. read' \in ReadType
    BY <1>1, <1>2 DEF ReadType
  <2>2. Len(read'.items) <= PageSize
    BY <1>3 DEF ReadInv, ReadTyping, ReadTypeOK
  <2> QED BY <1>4, <2>1, <2>2 DEF ReadTyping, ReadTypeOK
<1>6. AskFits'
  BY <1>1, <1>3 DEF ReadInv, AskFits, Summing
<1>7. WalkInv' /\ QuietWalk' /\ QuietWalkIsExact'
  BY <1>3 DEF WalkInv, QuietWalk, QuietWalkIsExact
<1>8. Figures'
  BY <1>2, <1>3, <1>4 DEF Figures, Totals, OpenFits, GroupsFit,
         CategoriesFit, SourcesFit, SpanFits
<1> QED BY <1>4, <1>5, <1>6, <1>7, <1>8 DEF ReadInv

LEMMA CountOpenStep ==
    ASSUME ReadInv, CountOpen, UNCHANGED <<raws, proc, begin, grown, gone>>
    PROVE  ReadInv'
<1> DEFINE open == Cardinality({x \in proc : IsOpen(x)})
<1>1. read' = [read EXCEPT !.open = open, !.step = "categories"] /\ read.step = "open"
  BY DEF CountOpen
<1>2. /\ open = Cardinality({y \in Now : y.class}) /\ open \in Nat
      /\ Cardinality(Now) \in Nat /\ open <= Cardinality(Now)
      /\ read \in ReadType
      /\ ~gone /\ ~grown => Now = begin
  BY <1>1, SummaryFacts DEF Summing
<1> HIDE DEF open
<1>3. /\ read'.ask = read.ask /\ read'.items = read.items /\ read'.total = read.total
      /\ read'.open = open /\ read'.step = "categories" /\ read.total \in Nat
  BY <1>1, <1>2 DEF ReadType
<1>4. /\ TablesInv' /\ TypeOK' /\ begin' \subseteq Record /\ {grown', gone'} \subseteq BOOLEAN
      /\ History' /\ Now' = Now
  BY <1>3, ReadFrame
<1>5. ReadTyping'
  <2>1. read' \in ReadType
    BY <1>1, <1>2 DEF ReadType
  <2>2. Len(read'.items) <= PageSize
    BY <1>3 DEF ReadInv, ReadTyping, ReadTypeOK
  <2> QED BY <1>4, <2>1, <2>2 DEF ReadTyping, ReadTypeOK
<1>6. AskFits'
  BY <1>1, <1>3 DEF ReadInv, AskFits, Summing
<1>7. WalkInv' /\ QuietWalk' /\ QuietWalkIsExact'
  BY <1>3 DEF WalkInv, QuietWalk, QuietWalkIsExact
<1>8. /\ ~grown => Cardinality(Now) <= read.total
      /\ ~gone => read.total <= Cardinality(Now)
  BY <1>1 DEF ReadInv, Figures, Totals
<1>9. Totals'
  BY <1>3, <1>4, <1>8 DEF Totals
<1>10. OpenFits'
  <2>1. ASSUME ~grown PROVE open <= read.total
    BY <1>2, <1>3, <1>8, <2>1
  <2>2. ASSUME ~grown, ~gone
        PROVE  read.total - open = Cardinality({x \in begin : ~x.class})
    <3>1. read.total = Cardinality(Now)
      BY <1>2, <1>3, <1>8, <2>2
    <3>2. Cardinality(Now) - Cardinality({x \in Now : x.class})
             = Cardinality({x \in Now : ~x.class})
      BY OpenAndClosed, InvFacts
    <3> QED BY <1>2, <2>2, <3>1, <3>2
  <2> QED BY <1>3, <2>1, <2>2 DEF OpenFits
<1>11. GroupsFit' /\ SpanFits'
  BY <1>3 DEF GroupsFit,
         CategoriesFit, SourcesFit, SpanFits
<1> QED BY <1>4, <1>5, <1>6, <1>7, <1>9, <1>10, <1>11 DEF ReadInv, Figures

LEMMA CountCategoriesStep ==
    ASSUME ReadInv, CountCategories, UNCHANGED <<raws, proc, begin, grown, gone>>
    PROVE  ReadInv'
<1> DEFINE n == Cardinality(proc)
<1>1. read' = [read EXCEPT !.categories = n, !.step = "sources"]
      /\ read.step = "categories"
  <2>1. GroupSum([x \in proc |-> x.cols["category"]]) = n
    <3> DEFINE c == [x \in proc |-> x.cols["category"]]
    <3>1. c = [x \in proc |-> c[x]]
      OBVIOUS
    <3> HIDE DEF c
    <3>2. GroupSum(c) = n
      BY <3>1, GroupsAddUp DEF ReadInv, ReadTyping
    <3> QED BY <3>2 DEF c
  <2> QED BY <2>1 DEF CountCategories
<1>2. /\ n = Cardinality(Now) /\ n \in Nat /\ read \in ReadType
  BY <1>1, SummaryFacts DEF Summing
<1> HIDE DEF n
<1>3. /\ read'.ask = read.ask /\ read'.items = read.items /\ read'.total = read.total
      /\ read'.open = read.open /\ read'.categories = n
      /\ read'.step = "sources"
      /\ read.total \in Nat
  BY <1>1, <1>2 DEF ReadType
<1>4. /\ TablesInv' /\ TypeOK' /\ begin' \subseteq Record /\ {grown', gone'} \subseteq BOOLEAN
      /\ History' /\ Now' = Now
  BY <1>3, ReadFrame
<1>5. ReadTyping'
  <2>1. read' \in ReadType
    BY <1>1, <1>2 DEF ReadType
  <2>2. Len(read'.items) <= PageSize
    BY <1>3 DEF ReadInv, ReadTyping, ReadTypeOK
  <2> QED BY <1>4, <2>1, <2>2 DEF ReadTyping, ReadTypeOK
<1>6. AskFits'
  BY <1>1, <1>3 DEF ReadInv, AskFits, Summing
<1>7. WalkInv' /\ QuietWalk' /\ QuietWalkIsExact'
  BY <1>3 DEF WalkInv, QuietWalk, QuietWalkIsExact
<1>8. /\ ~grown => Cardinality(Now) <= read.total
      /\ ~gone => read.total <= Cardinality(Now)
  BY <1>1 DEF ReadInv, Figures, Totals
<1>9. Totals'
  BY <1>3, <1>4, <1>8 DEF Totals
<1>10. OpenFits'
  BY <1>1, <1>3 DEF ReadInv, Figures, OpenFits
<1>11. GroupsFit'
  <2>1. CategoriesFit'
    BY <1>2, <1>3, <1>8 DEF CategoriesFit
  <2>2. SourcesFit'
    BY <1>3 DEF SourcesFit
  <2> QED BY <2>1, <2>2 DEF GroupsFit
<1>12. SpanFits'
  BY <1>3 DEF SpanFits
<1> QED BY <1>4, <1>5, <1>6, <1>7, <1>9, <1>10, <1>11, <1>12 DEF ReadInv, Figures

LEMMA CountSourcesStep ==
    ASSUME ReadInv, CountSources, UNCHANGED <<raws, proc, begin, grown, gone>>
    PROVE  ReadInv'
<1> DEFINE n == Cardinality(proc)
<1>1. read' = [read EXCEPT !.sources = n, !.step = "span"]
      /\ read.step = "sources"
  <2>1. GroupSum([x \in proc |-> x.source]) = n
    <3> DEFINE c == [x \in proc |-> x.source]
    <3>1. c = [x \in proc |-> c[x]]
      OBVIOUS
    <3> HIDE DEF c
    <3>2. GroupSum(c) = n
      BY <3>1, GroupsAddUp DEF ReadInv, ReadTyping
    <3> QED BY <3>2 DEF c
  <2> QED BY <2>1 DEF CountSources
<1>2. /\ n = Cardinality(Now) /\ n \in Nat /\ read \in ReadType
  BY <1>1, SummaryFacts DEF Summing
<1> HIDE DEF n
<1>3. /\ read'.ask = read.ask /\ read'.items = read.items /\ read'.total = read.total
      /\ read'.open = read.open /\ read'.sources = n /\ read'.categories = read.categories
      /\ read'.step = "span"
      /\ read.total \in Nat
  BY <1>1, <1>2 DEF ReadType
<1>4. /\ TablesInv' /\ TypeOK' /\ begin' \subseteq Record /\ {grown', gone'} \subseteq BOOLEAN
      /\ History' /\ Now' = Now
  BY <1>3, ReadFrame
<1>5. ReadTyping'
  <2>1. read' \in ReadType
    BY <1>1, <1>2 DEF ReadType
  <2>2. Len(read'.items) <= PageSize
    BY <1>3 DEF ReadInv, ReadTyping, ReadTypeOK
  <2> QED BY <1>4, <2>1, <2>2 DEF ReadTyping, ReadTypeOK
<1>6. AskFits'
  BY <1>1, <1>3 DEF ReadInv, AskFits, Summing
<1>7. WalkInv' /\ QuietWalk' /\ QuietWalkIsExact'
  BY <1>3 DEF WalkInv, QuietWalk, QuietWalkIsExact
<1>8. /\ ~grown => Cardinality(Now) <= read.total
      /\ ~gone => read.total <= Cardinality(Now)
  BY <1>1 DEF ReadInv, Figures, Totals
<1>9. Totals'
  BY <1>3, <1>4, <1>8 DEF Totals
<1>10. OpenFits'
  BY <1>1, <1>3 DEF ReadInv, Figures, OpenFits
<1>11. GroupsFit'
  <2>1. CategoriesFit'
    BY <1>1, <1>3 DEF ReadInv, Figures, GroupsFit, CategoriesFit
  <2>2. SourcesFit'
    BY <1>2, <1>3, <1>8 DEF SourcesFit
  <2> QED BY <2>1, <2>2 DEF GroupsFit
<1>12. SpanFits'
  BY <1>3 DEF SpanFits
<1> QED BY <1>4, <1>5, <1>6, <1>7, <1>9, <1>10, <1>11, <1>12 DEF ReadInv, Figures

LEMMA DateBoundsStep ==
    ASSUME ReadInv, DateBounds, UNCHANGED <<raws, proc, begin, grown, gone>>
    PROVE  ReadInv'
<1> DEFINE dates == {x.cols["event_date"] : x \in proc}
           span == {d \in dates : \/ \A e \in dates : d <= e
                                  \/ \A e \in dates : d >= e}
<1>1. read' = [read EXCEPT !.span = span, !.step = "summed"] /\ read.step = "span"
  BY DEF DateBounds
<1>2. /\ dates = {y.at : y \in Now} /\ read \in ReadType
      /\ ~gone /\ ~grown => Now = begin
  BY <1>1, SummaryFacts DEF Summing
<1>3. /\ span \in SUBSET Nat /\ span \subseteq dates
      /\ \A x \in Now : \E d, e \in span : d <= x.at /\ x.at <= e
  <2>1. Now \in SUBSET Record /\ IsFiniteSet(Now)
    BY InvFacts
  <2>2. /\ span \in SUBSET dates
        /\ \A d \in dates : (\A e \in dates : d <= e) => d \in span
        /\ \A d \in dates : (\A e \in dates : d >= e) => d \in span
    <3> HIDE DEF dates
    <3> QED OBVIOUS
  <2> HIDE DEF dates, span
  <2>3. dates \in SUBSET Nat
    BY <1>2, <2>1 DEF Record
  <2>4. IsFiniteSet(dates)
    <3> DEFINE f == [x \in Now |-> x.at]
    <3>1. f \in Surjection(Now, dates)
      BY <1>2 DEF Surjection
    <3> QED BY <2>1, <3>1, FS_Surjection
  <2>5. ASSUME NEW x \in Now PROVE \E d, e \in span : d <= x.at /\ x.at <= e
    <3>1. x.at \in dates
      BY <1>2
    <3>2. PICK d \in dates : \A e \in dates : d <= e
      BY <2>3, <2>4, <3>1, FirstAndLast
    <3>3. PICK e \in dates : \A c \in dates : e >= c
      BY <2>3, <2>4, <3>1, FirstAndLast
    <3>4. d \in span /\ e \in span
      BY <2>2, <3>2, <3>3
    <3>5. d <= x.at /\ x.at <= e
      BY <2>3, <3>1, <3>2, <3>3
    <3> QED BY <3>4, <3>5
  <2> QED BY <2>2, <2>3, <2>5
<1> HIDE DEF span, dates
<1>4. /\ read'.ask = read.ask /\ read'.items = read.items /\ read'.total = read.total
      /\ read'.open = read.open
      /\ read'.categories = read.categories /\ read'.sources = read.sources
      /\ read'.span = span /\ read'.step = "summed"
  BY <1>1, <1>2 DEF ReadType
<1>5. /\ TablesInv' /\ TypeOK' /\ begin' \subseteq Record /\ {grown', gone'} \subseteq BOOLEAN
      /\ History' /\ Now' = Now
  BY <1>4, ReadFrame
<1>6. ReadTyping'
  <2>1. read' \in ReadType
    BY <1>1, <1>2, <1>3 DEF ReadType
  <2>2. Len(read'.items) <= PageSize
    BY <1>4 DEF ReadInv, ReadTyping, ReadTypeOK
  <2> QED BY <1>5, <2>1, <2>2 DEF ReadTyping, ReadTypeOK
<1>7. AskFits'
  BY <1>1, <1>4 DEF ReadInv, AskFits, Summing
<1>8. WalkInv' /\ QuietWalk' /\ QuietWalkIsExact'
  BY <1>4 DEF WalkInv, QuietWalk, QuietWalkIsExact
<1>9. Totals'
  BY <1>1, <1>4, <1>5 DEF ReadInv, Figures, Totals
<1>10. OpenFits' /\ GroupsFit'
  BY <1>1, <1>4 DEF ReadInv, Figures, OpenFits, GroupsFit, CategoriesFit, SourcesFit
<1>11. SpanFits'
  BY <1>2, <1>3, <1>4 DEF SpanFits
<1> QED BY <1>5, <1>6, <1>7, <1>8, <1>9, <1>10, <1>11 DEF ReadInv, Figures

LEMMA NowFacts ==
    TablesInv /\ read.ask.of \in {"rows", "raws"} => Now \in SUBSET Record /\ IsFiniteSet(Now)
BY RecordsFacts DEF Now

\* What others commit, while the request goes on or once the summary is there.
LEMMA CommitStep ==
    ASSUME ReadInv, AnyCommit, read.step \notin {"walked", "exported"}
    PROVE  /\ ReadInv' /\ read' = read
           /\ ~grown' => ~grown
           /\ ~gone' => ~gone
<1>1. UNCHANGED <<read, begin>>
  BY DEF AnyCommit
<1>2. /\ grown' = (grown \/ Now' \ Now # {})
      /\ gone' = (gone \/ Now \ Now' # {})
  BY DEF AnyCommit
<1>3. /\ {grown, gone} \subseteq BOOLEAN /\ {grown', gone'} \subseteq BOOLEAN
      /\ ~grown' => ~grown /\ Now' \subseteq Now
      /\ ~gone' => ~gone /\ Now \subseteq Now'
  <2>1. {grown, gone} \subseteq BOOLEAN
    BY DEF ReadInv, ReadTyping, ReadTypeOK
  <2>2. ~grown' => ~grown /\ Now' \subseteq Now
    BY <1>2
  <2>3. ~gone' => ~gone /\ Now \subseteq Now'
    BY <1>2
  <2>4. grown' \in BOOLEAN
    BY <1>2, <2>1
  <2>5. gone' \in BOOLEAN
    BY <1>2, <2>1
  <2> QED BY <2>1, <2>2, <2>3, <2>4, <2>5
<1>4. TablesInv'
  BY TablesStep DEF AnyCommit, ReadInv, ReadTyping
<1>5. ReadTyping'
  BY <1>1, <1>3, <1>4 DEF ReadInv, ReadTyping, ReadTypeOK, TablesInv
<1>6. History'
  BY <1>1, <1>3 DEF ReadInv, History
<1>7. /\ Now' \in SUBSET Record /\ IsFiniteSet(Now') /\ Cardinality(Now') \in Nat
      /\ IsFiniteSet(Now) /\ Cardinality(Now) \in Nat
  <2>1. read.ask.of \in {"rows", "raws"} /\ read'.ask.of = read.ask.of
    BY <1>1 DEF ReadInv, ReadTyping, ReadTypeOK, ReadType, AskType
  <2>2. (TablesInv /\ read.ask.of \in {"rows", "raws"}
           => Now \in SUBSET Record /\ IsFiniteSet(Now))'
    BY NowFacts, PTL
  <2> QED BY <1>4, <2>1, <2>2, InvFacts, FS_CardinalityType
<1>8. AskFits' /\ QuietWalk' /\ QuietWalkIsExact'
  BY <1>1, <1>3 DEF ReadInv, AskFits, Summing, QuietWalk, QuietWalkIsExact, Wanted
<1>9. WalkInv'
  <2> SUFFICES ASSUME ~gone', NEW x \in Wanted, x \notin ToSet(read.listed),
                      Alone(x, Selected')
               PROVE  /\ read.step = "page" => Rank(Selected', read.ask, x) > read.offset
                      /\ read.step = "count" =>
                            \/ x \in ToSet(read.items)
                            \/ /\ Len(read.items) = PageSize
                               /\ Rank(Selected', read.ask, x) > read.offset + PageSize
                      /\ read.step # "walked"
    BY <1>1 DEF WalkInv, Wanted, Rank, NotBehind, Alone
  <2>1. ~gone /\ Alone(x, Selected)
    <3>1. Selected \in SUBSET Selected'
      BY <1>1, <1>3 DEF Selected, Filtered
    <3> QED BY <1>3, <3>1 DEF Alone
  <2>2. /\ read.step = "page" => Rank(Selected, read.ask, x) > read.offset
        /\ read.step = "count" =>
              \/ x \in ToSet(read.items)
              \/ /\ Len(read.items) = PageSize
                 /\ Rank(Selected, read.ask, x) > read.offset + PageSize
        /\ read.step # "walked"
    BY <2>1 DEF ReadInv, WalkInv
  <2>3. Selected \in SUBSET Selected' /\ IsFiniteSet(Selected')
    <3>1. Selected \in SUBSET Selected' /\ Selected' \in SUBSET Now'
      BY <1>1, <1>3 DEF Selected, Filtered
    <3> QED BY <1>7, <3>1, FS_Subset
  <2>4. /\ Rank(Selected, read.ask, x) \in Nat /\ Rank(Selected', read.ask, x) \in Nat
        /\ Rank(Selected, read.ask, x) <= Rank(Selected', read.ask, x)
    BY <2>3, RankGrows
  <2>5. read.offset \in Nat /\ PageSize \in Nat
    BY ReadAssumption DEF ReadInv, ReadTyping, ReadTypeOK, ReadType
  <2> QED BY <2>2, <2>4, <2>5
<1>10. Figures'
  <2>1. Totals'
    <3>1. ~grown' => Cardinality(Now') <= Cardinality(Now)
      BY <1>3, <1>7, FS_Subset
    <3>2. ~gone' => Cardinality(Now) <= Cardinality(Now')
      BY <1>3, <1>7, FS_Subset
    <3>3. read.total \in Nat
      BY DEF ReadInv, ReadTyping, ReadTypeOK, ReadType
    <3> QED BY <1>1, <1>3, <1>7, <3>1, <3>2, <3>3 DEF ReadInv, Figures, Totals
  <2>2. OpenFits' /\ GroupsFit' /\ SpanFits'
    BY <1>1, <1>3 DEF ReadInv, Figures, OpenFits, GroupsFit,
         CategoriesFit, SourcesFit, SpanFits
  <2> QED BY <2>1, <2>2 DEF Figures
<1> QED BY <1>1, <1>3, <1>5, <1>6, <1>8, <1>9, <1>10 DEF ReadInv

LEMMA ReadInitInv == ASSUME ReadInit PROVE ReadInv
<1>1. TablesInv /\ TypeOK
  BY SeedsAssumption DEF ReadInit, Init, TablesInv, TypeOK, UniqueKey, ReferentialIntegrity
<1>2. PICK a \in Asks, s \in {"page", "export", "total"} :
         /\ s # "page" => a.of = "rows"
         /\ s = "export" => a.dir = "asc"
         /\ read = [ask |-> a, offset |-> 0, items |-> <<>>, listed |-> <<>>, total |-> 0,
                    open |-> 0, categories |-> 0, sources |-> 0, span |-> {}, step |-> s]
  BY DEF ReadInit
<1>3. /\ a \in AskType /\ PageSize \in Nat \ {0} /\ read.ask = a /\ read.step = s
      /\ read.listed = <<>> /\ read.items = <<>> /\ read.offset = 0
  BY <1>2, ReadAssumption
<1>4. read \in ReadType
  <2>1. <<>> \in Seq(Record)
    OBVIOUS
  <2> QED BY <1>2, <1>3, <2>1 DEF ReadType
<1>5. Now \in SUBSET Record /\ IsFiniteSet(Now)
  <2>1. read.ask.of \in {"rows", "raws"}
    BY <1>3 DEF AskType
  <2> QED BY <1>1, <2>1, NowFacts
<1>6. begin = Now /\ grown = FALSE /\ gone = FALSE
  BY DEF ReadInit, Now
<1>7. Wanted = Selected /\ Selected \in SUBSET Now
  BY <1>6 DEF Wanted, Selected, Filtered
<1>8. IsFiniteSet(Selected)
  BY <1>5, <1>7, FS_Subset
<1>9. ReadTyping
  <2>1. Len(read.items) <= PageSize
    BY <1>3
  <2>2. {grown, gone} \subseteq BOOLEAN
    BY <1>6
  <2> QED BY <1>1, <1>4, <1>5, <1>6, <2>1, <2>2 DEF ReadTyping, ReadTypeOK
<1>10. History
  BY <1>5, <1>6 DEF History
<1>11. AskFits
  BY <1>2, <1>3 DEF AskFits, Summing
<1>12. WalkInv
  <2> SUFFICES ASSUME NEW x \in Wanted PROVE Rank(Selected, read.ask, x) > 0
    BY <1>2, <1>3 DEF WalkInv
  <2> DEFINE B == NotBehind(Selected, read.ask, x)
  <2>1. x.at \in Nat
    BY <1>5, <1>7 DEF Record
  <2>2. x \in B /\ B \in SUBSET Selected
    BY <1>7, <2>1 DEF NotBehind
  <2> HIDE DEF B
  <2>3. IsFiniteSet(B) /\ Cardinality(B) \in Nat /\ Cardinality(B) # 0
    BY <1>8, <2>2, FS_Subset, FS_CardinalityType, FS_EmptySet
  <2> QED BY <2>3 DEF Rank, B
<1>13. QuietWalk
  <2>1. 0 <= Cardinality(Wanted)
    BY <1>7, <1>8, FS_CardinalityType
  <2>2. <<>> \in Seq(Wanted) /\ Len(<<>>) = 0 /\ 1..0 = {}
    OBVIOUS
  <2>3. Begins(<<>>, 0, Wanted, read.ask)
    BY <2>1, <2>2 DEF Begins
  <2> QED BY <1>2, <1>3, <2>3 DEF QuietWalk
<1>14. QuietWalkIsExact /\ Figures
  BY <1>2, <1>3 DEF QuietWalkIsExact, Figures, Totals, OpenFits, GroupsFit,
         CategoriesFit, SourcesFit, SpanFits
<1> QED BY <1>9, <1>10, <1>11, <1>12, <1>13, <1>14 DEF ReadInv

LEMMA ReadsStep ==
    ASSUME ReadInv, Reads
    PROVE  ReadInv'
<1>1. UNCHANGED <<raws, proc, begin, grown, gone>>
  BY DEF Reads
<1>2. \/ ListPage \/ CountPage \/ Export
      \/ CountTotal \/ CountOpen \/ CountCategories \/ CountSources \/ DateBounds
  BY DEF Reads
<1> QED BY <1>1, <1>2, ListPageStep, CountPageStep, ExportStep, CountTotalStep, CountOpenStep,
           CountCategoriesStep, CountSourcesStep, DateBoundsStep

\* What the page does changes nothing that the requests look at.
LEMMA ReadStays ==
    ASSUME ReadInv, UNCHANGED readVars
    PROVE  ReadInv'
<1> USE DEF readVars
<1>1. ReadTyping'
  BY DEF ReadInv, ReadTyping, ReadTypeOK, TypeOK, TablesInv, UniqueKey, ReferentialIntegrity
<1>2. Now' = Now /\ Selected' = Selected /\ Wanted' = Wanted
  BY DEF Now, Selected, Wanted, Records, Filtered
<1>3. History' /\ AskFits'
  BY <1>2 DEF ReadInv, History, AskFits, Summing
<1>4. WalkInv' /\ QuietWalk' /\ QuietWalkIsExact'
  BY <1>2 DEF ReadInv, WalkInv, QuietWalk, QuietWalkIsExact
<1>5. Figures'
  BY <1>2 DEF ReadInv, Figures, Totals, OpenFits, GroupsFit,
         CategoriesFit, SourcesFit, SpanFits
<1> QED BY <1>1, <1>3, <1>4, <1>5 DEF ReadInv

-----------------------------------------------------------------------------
(* The page.                                                                 *)

\* What the points of a load are once it is answered.
LEMMA ServedPointsFit ==
    ASSUME ReadInv, read.step = "summed", NEW i \in Intervals
    PROVE  Timeseries(i) \in SUBSET (Nat \X Nat) /\ PointsFit(Timeseries(i), i)
<1> DEFINE T == Timeseries(i)
           counted == Counted(T)
<1>1. TablesInv /\ read.total \in Nat
  BY DEF ReadInv, ReadTyping, ReadTypeOK, ReadType
<1>2. /\ Cardinality(Now) = Cardinality(proc) /\ Cardinality(Now) \in Nat
      /\ {x.cols["event_date"] : x \in proc} = {y.at : y \in Now}
      /\ ~gone /\ ~grown => Now = begin
  BY SummaryFacts DEF Summing
<1>3. counted = Cardinality(Now) /\ T \in SUBSET (Nat \X Nat)
  BY <1>1, <1>2, TimeseriesAddsUp DEF Counted
<1>4. /\ ~grown => Cardinality(Now) <= read.total
      /\ ~gone => read.total <= Cardinality(Now)
  BY DEF ReadInv, Figures, Totals
<1>5. ASSUME ~grown, ~gone
      PROVE  /\ \A d \in read.span : \E p \in T : p[1] = Bucket(i, d)
             /\ \A p \in T : \E d, e \in read.span : p[1] <= e /\ d < p[1] + Width[i]
  <2>1. /\ read.span \subseteq {x.at : x \in Now}
        /\ \A x \in Now : \E d, e \in read.span : d <= x.at /\ x.at <= e
    BY <1>2, <1>5 DEF ReadInv, Figures, SpanFits
  <2>2. read.span \subseteq Nat
    BY DEF ReadInv, ReadTyping, ReadTypeOK, ReadType
  <2>3. \A x \in proc : x.cols["event_date"] \in Nat
    BY <1>1, RowsAreRecords
  <2>4. ASSUME NEW d \in read.span PROVE \E p \in T : p[1] = Bucket(i, d)
    <3>1. PICK x \in proc : x.cols["event_date"] = d
      BY <1>2, <2>1
    <3> DEFINE b == Bucket(i, d)
               p == <<b, Cardinality({y \in proc : Bucket(i, y.cols["event_date"]) = b})>>
    <3>2. p \in T
      BY <3>1 DEF Timeseries
    <3>3. p[1] = b
      OBVIOUS
    <3> QED BY <3>2, <3>3
  <2>5. ASSUME NEW p \in T
        PROVE  \E d, e \in read.span : p[1] <= e /\ d < p[1] + Width[i]
    <3> DEFINE Day(x) == Bucket(i, x.cols["event_date"])
               N(b) == Cardinality({x \in proc : Day(x) = b})
    <3>0. T = {<<b, N(b)>> : b \in {Day(x) : x \in proc}}
      BY DEF Timeseries
    <3>1. PICK x \in proc : p[1] = Bucket(i, x.cols["event_date"])
      <4> HIDE DEF N, Day, T
      <4>1. PICK b \in {Day(x) : x \in proc} : p = <<b, N(b)>>
        BY <3>0
      <4> QED BY <4>1 DEF Day
    <3> DEFINE c == x.cols["event_date"]
    <3>2. PICK d \in read.span, e \in read.span : d <= c /\ c <= e
      BY <1>2, <2>1
    <3>3. c \in Nat /\ d \in Nat /\ e \in Nat
      BY <2>2, <2>3
    <3> HIDE DEF c
    <3>4. /\ Bucket(i, c) \in Nat /\ Width[i] \in Nat
          /\ Bucket(i, c) <= c /\ c < Bucket(i, c) + Width[i]
      BY <3>3, BucketFacts
    <3>5. Bucket(i, c) <= e /\ d < Bucket(i, c) + Width[i]
      BY <3>2, <3>3, <3>4
    <3> QED BY <3>1, <3>5 DEF c
  <2> QED BY <2>4, <2>5
<1> HIDE DEF T, counted
<1>6. /\ ~gone => counted >= read.total
      /\ ~grown => counted <= read.total
  BY <1>1, <1>2, <1>3, <1>4
<1>7. PointsFit(T, i)
  BY <1>5, <1>6 DEF PointsFit, counted, T
<1> QED BY <1>3, <1>7 DEF T

\* Commits of others can only make what the points promise weaker.
LEMMA PointsStay ==
    ASSUME read' = read, ~grown' => ~grown, ~gone' => ~gone,
           NEW points, NEW i, PointsFit(points, i)
    PROVE  PointsFit(points, i)'
BY DEF PointsFit, Bucket

\* The parts of the page and of its loads, as numbers and sets.
LEMMA PageFields ==
    ASSUME PageTyping
    PROVE  /\ page \in PageType /\ loads \subseteq LoadType
           /\ page.changes \in Nat /\ page.newest \in Nat /\ MaxChanges \in Nat
           /\ page.changes <= MaxChanges
           /\ \A l \in loads : l.n \in Nat /\ l.n <= MaxChanges /\ l.interval \in Intervals
           /\ First \in Intervals
BY DashboardAssumption DEF PageTyping, PageType, LoadType

LEMMA DrawTilesStep ==
    ASSUME ReadInv, PageInv, DrawTiles
    PROVE  PageInv'
<1>1. /\ read.step = "summed" /\ page.phase = "loading"
      /\ page' = [page EXCEPT !.phase = "drawing"]
      /\ loads' = {NewLoad(0, First)}
      /\ read' = read
  BY DEF DrawTiles, readVars
<1>2. /\ page \in PageType /\ First \in Intervals /\ 0 \in 0..MaxChanges /\ 0 <= page.changes
  BY PageFields DEF PageInv
<1>3. /\ page'.phase = "drawing" /\ page'.selected = page.selected
      /\ page'.changes = page.changes /\ page'.newest = page.newest
      /\ page'.excuse = page.excuse
  BY <1>1, <1>2 DEF PageType
<1>4. \A l \in loads' : l.n = 0 /\ l.interval = First /\ l.answered = FALSE
  BY <1>1 DEF NewLoad
<1>5. PageTyping'
  <2>1. page' \in PageType
    BY <1>1, <1>2 DEF PageType
  <2>2. loads' \subseteq LoadType
    BY <1>1, <1>2 DEF NewLoad, LoadType
  <2> QED BY <2>1, <2>2 DEF PageTyping
<1>6. Phases'
  BY <1>1, <1>3, <1>4 DEF PageInv, Phases
<1>7. Loads'
  <2>1. \A l, k \in loads' : l.n = k.n => l = k
    BY <1>1
  <2> QED BY <1>1, <1>2, <1>3, <1>4, <2>1 DEF PageInv, Loads
<1>8. LatestChange'
  BY <1>3 DEF LatestChange
<1> QED BY <1>5, <1>6, <1>7, <1>8 DEF PageInv

LEMMA SummaryFailsStep ==
    ASSUME ReadInv, PageInv, SummaryFails
    PROVE  PageInv'
<1>1. /\ page.phase = "loading" /\ page' = [page EXCEPT !.phase = "broken"]
      /\ loads' = loads /\ read' = read
  BY DEF SummaryFails, readVars
<1>2. page \in PageType /\ loads = {}
  BY <1>1, PageFields DEF PageInv, Phases
<1>3. /\ page'.phase = "broken" /\ page'.changes = page.changes /\ page'.newest = page.newest
  BY <1>1, <1>2 DEF PageType
<1>4. PageTyping'
  <2>1. page' \in PageType
    BY <1>1, <1>2 DEF PageType
  <2> QED BY <1>1, <1>2, <2>1 DEF PageTyping
<1>5. Phases' /\ LatestChange'
  BY <1>1, <1>2, <1>3 DEF Phases, LatestChange
<1>6. Loads'
  BY <1>1, <1>2, <1>3 DEF PageInv, Loads
<1> QED BY <1>4, <1>5, <1>6 DEF PageInv

LEMMA ChangeStep ==
    ASSUME ReadInv, PageInv, NEW i \in Intervals, Change(i)
    PROVE  PageInv'
<1> DEFINE n == page.changes + 1
<1>1. page.changes < MaxChanges /\ read' = read /\ grown' = grown /\ gone' = gone
  BY DEF Change, readVars
<1>2. /\ page \in PageType /\ loads \subseteq LoadType
      /\ page.changes \in Nat /\ page.newest \in Nat /\ MaxChanges \in Nat
      /\ \A l \in loads : l.n \in Nat
  BY PageFields DEF PageInv
<1>3. n \in 0..MaxChanges /\ n # 0
  BY <1>1, <1>2
<1>4. \A points, j : PointsFit(points, j) => PointsFit(points, j)'
  BY <1>1, PointsStay
<1>5. CASE page.phase = "ready"
  <2>1. /\ page' = [page EXCEPT !.selected = i, !.changes = n, !.excuse = {}]
        /\ loads' = loads \cup {NewLoad(n, i)}
    BY <1>5 DEF Change
  <2> DEFINE new == NewLoad(n, i)
  <2>2. /\ page'.phase = page.phase /\ page'.selected = i /\ page'.changes = n
        /\ page'.excuse = {} /\ page'.newest = page.newest
        /\ page'.shown = page.shown /\ page'.series = page.series
    BY <1>2, <2>1 DEF PageType
  <2>3. new.n = n /\ new.interval = i /\ new.answered = FALSE /\ new \in LoadType
    BY <1>3 DEF NewLoad, LoadType
  <2> HIDE DEF new
  <2>4. loads' = loads \cup {new}
    BY <2>1 DEF new
  <2>5. PageTyping'
    <3>1. page' \in PageType
      BY <1>2, <1>3, <2>1 DEF PageType
    <3> QED BY <1>2, <2>3, <2>4, <3>1 DEF PageTyping
  <2>6. Phases'
    BY <1>1, <1>5, <2>2 DEF PageInv, Phases
  <2>7. \A l \in loads : l.n <= page.changes /\ l.n # n /\ l.n <= n
    BY <1>2 DEF PageInv, Loads
  <2>8. Loads'
    <3>1. \A l \in loads' : l.n <= n
      BY <1>2, <2>3, <2>4, <2>7
    <3>2. \A l, k \in loads' : l.n = k.n => l = k
      BY <2>3, <2>4, <2>7 DEF PageInv, Loads
    <3>3. page.newest <= n
      BY <1>2 DEF PageInv, Loads
    <3>4. \A l \in loads' : l.answered => PointsFit(l.points, l.interval)'
      BY <1>4, <2>3, <2>4 DEF PageInv, Loads
    <3>5. PointsFit(page.series, page.shown)
      BY <1>5 DEF PageInv, Loads
    <3>6. PointsFit(page.series, page.shown)'
      BY <1>1, <2>2, <3>5 DEF PointsFit, Bucket
    <3> HIDE DEF n
    <3> QED BY <2>2, <3>1, <3>2, <3>3, <3>4, <3>6 DEF Loads
  <2>9. LatestChange'
    <3>1. page.newest # n
      BY <1>2 DEF PageInv, Loads
    <3> HIDE DEF n
    <3> QED BY <2>2, <2>3, <2>4, <2>7, <3>1 DEF LatestChange
  <2> QED BY <2>5, <2>6, <2>8, <2>9 DEF PageInv
<1>6. CASE page.phase # "ready"
  <2>1. /\ page' = [page EXCEPT !.selected = i, !.changes = n,
                                !.excuse = page.excuse \cup {"missed"}]
        /\ loads' = loads
    BY <1>6 DEF Change
  <2>2. /\ page'.phase = page.phase /\ page'.selected = i /\ page'.changes = n
        /\ page'.excuse = page.excuse \cup {"missed"} /\ page'.newest = page.newest
    BY <1>2, <2>1 DEF PageType
  <2>3. PageTyping'
    <3>1. page' \in PageType
      BY <1>2, <1>3, <2>1 DEF PageType
    <3> QED BY <1>2, <2>1, <3>1 DEF PageTyping
  <2>4. Phases'
    BY <1>1, <1>3, <2>1, <2>2 DEF PageInv, Phases
  <2>5. Loads'
    <3>1. \A l \in loads : l.n <= n
      BY <1>2 DEF PageInv, Loads
    <3>2. page.newest <= n
      BY <1>2 DEF PageInv, Loads
    <3>3. \A l \in loads : l.answered => PointsFit(l.points, l.interval)'
      BY <1>4 DEF PageInv, Loads
    <3>4. \A l, k \in loads : l.n = k.n => l = k
      BY DEF PageInv, Loads
    <3> HIDE DEF n
    <3> QED BY <1>6, <2>1, <2>2, <3>1, <3>2, <3>3, <3>4 DEF Loads
  <2>6. LatestChange'
    BY <1>6, <2>2 DEF LatestChange
  <2> QED BY <2>3, <2>4, <2>5, <2>6 DEF PageInv
<1> QED BY <1>5, <1>6

LEMMA ServeStep ==
    ASSUME ReadInv, PageInv, NEW l \in loads, Serve(l)
    PROVE  PageInv'
<1> DEFINE m == [l EXCEPT !.answered = TRUE, !.points = Timeseries(l.interval)]
<1>1. /\ loads' = (loads \ {l}) \cup {m}
      /\ page' = page /\ read' = read /\ grown' = grown /\ gone' = gone
  BY DEF Serve, readVars
<1>2. l \in LoadType /\ loads \subseteq LoadType /\ page \in PageType
  BY PageFields DEF PageInv
<1>3. read.step = "summed"
  BY DEF PageInv, Phases, PageTyping, PageType
<1>4. /\ Timeseries(l.interval) \in SUBSET (Nat \X Nat)
      /\ PointsFit(Timeseries(l.interval), l.interval)
  <2>1. l.interval \in Intervals
    BY <1>2 DEF LoadType
  <2> QED BY <1>3, <2>1, ServedPointsFit
<1>5. /\ m.n = l.n /\ m.interval = l.interval /\ m.points = Timeseries(l.interval)
      /\ m \in LoadType
  BY <1>2, <1>4 DEF LoadType
<1> HIDE DEF m
<1>6. \A points, j : PointsFit(points, j) => PointsFit(points, j)'
  BY <1>1, PointsStay
<1>7. PageTyping'
  BY <1>1, <1>2, <1>5 DEF PageTyping
<1>8. Phases'
  BY <1>1, <1>3, <1>5 DEF PageInv, Phases
<1>9. Loads'
  <2>1. \A k \in loads' : k.n <= page.changes
    BY <1>1, <1>5 DEF PageInv, Loads
  <2>2. \A j, k \in loads' : j.n = k.n => j = k
    BY <1>1, <1>5 DEF PageInv, Loads
  <2>3. \A k \in loads' : k.answered => PointsFit(k.points, k.interval)'
    <3>1. PointsFit(m.points, m.interval)
      BY <1>4, <1>5
    <3>2. \A k \in loads : k.answered => PointsFit(k.points, k.interval)
      BY DEF PageInv, Loads
    <3>3. \A k \in loads' : k.answered => PointsFit(k.points, k.interval)
      BY <1>1, <3>1, <3>2
    <3> QED BY <1>6, <3>3
  <2>4. page.phase = "ready" => PointsFit(page.series, page.shown)'
    BY <1>1 DEF PageInv, Loads, PointsFit, Bucket
  <2> QED BY <1>1, <2>1, <2>2, <2>3, <2>4 DEF PageInv, Loads
<1>10. LatestChange'
  BY <1>1, <1>5 DEF PageInv, LatestChange
<1> QED BY <1>7, <1>8, <1>9, <1>10 DEF PageInv

LEMMA DrawStep ==
    ASSUME ReadInv, PageInv, NEW l \in loads, Draw(l)
    PROVE  PageInv'
<1> DEFINE newest == IF l.n > page.newest THEN l.n ELSE page.newest
           excuse == IF l.n < page.newest THEN page.excuse \cup {"overtaken"}
                                          ELSE page.excuse \ {"overtaken"}
<1>1. /\ l.answered /\ loads' = loads \ {l}
      /\ page' = [page EXCEPT !.phase = "ready", !.shown = l.interval, !.series = l.points,
                              !.newest = newest, !.excuse = excuse]
      /\ read' = read /\ grown' = grown /\ gone' = gone
  BY DEF Draw, readVars
<1>2. /\ page \in PageType /\ loads \subseteq LoadType /\ l \in LoadType
      /\ page.changes \in Nat /\ page.newest \in Nat /\ MaxChanges \in Nat
      /\ l.n \in Nat /\ l.n <= page.changes /\ page.newest <= page.changes
      /\ page.changes <= MaxChanges
  BY PageFields DEF PageInv, Loads
<1>3. /\ newest \in Nat /\ newest \in 0..MaxChanges /\ newest <= page.changes
      /\ newest = l.n \/ newest = page.newest
      /\ l.n <= newest
  BY <1>2
<1>4. /\ excuse \in SUBSET {"missed", "failed", "overtaken"}
      /\ "missed" \in excuse <=> "missed" \in page.excuse
      /\ "failed" \in excuse <=> "failed" \in page.excuse
      /\ excuse = {} => l.n >= page.newest
  BY <1>2 DEF PageType
<1>5. excuse = {} => newest = l.n
  BY <1>2, <1>4
<1> HIDE DEF newest, excuse
<1>6. /\ page'.phase = "ready" /\ page'.selected = page.selected
      /\ page'.changes = page.changes /\ page'.newest = newest /\ page'.excuse = excuse
      /\ page'.shown = l.interval /\ page'.series = l.points
  BY <1>1, <1>2 DEF PageType
<1>7. read.step = "summed" /\ page.phase \in {"drawing", "ready"}
  BY <1>2 DEF PageInv, Phases, PageType
<1>8. PageTyping'
  <2>1. l.interval \in Intervals /\ l.points \in SUBSET (Nat \X Nat)
    BY <1>2 DEF LoadType
  <2>2. page' \in PageType
    BY <1>1, <1>2, <1>3, <1>4, <2>1 DEF PageType
  <2> QED BY <1>1, <1>2, <2>2 DEF PageTyping
<1>9. Phases'
  BY <1>1, <1>6, <1>7 DEF Phases
<1>10. Loads'
  <2>1. PointsFit(l.points, l.interval)
    BY <1>1 DEF PageInv, Loads
  <2>2. \A k \in loads : k.answered => PointsFit(k.points, k.interval)'
    <3>1. \A points, j : PointsFit(points, j) => PointsFit(points, j)'
      BY <1>1, PointsStay
    <3> QED BY <3>1 DEF PageInv, Loads
  <2>3. PointsFit(page.series, page.shown)'
    BY <1>1, <1>6, <2>1 DEF PointsFit, Bucket
  <2> QED BY <1>1, <1>3, <1>6, <2>2, <2>3 DEF PageInv, Loads
<1>11. LatestChange'
  <2> SUFFICES ASSUME "missed" \notin page.excuse
               PROVE  /\ \A k \in loads \ {l} : k.n = page.changes => k.interval = page.selected
                      /\ "failed" \notin page.excuse =>
                            newest = page.changes \/ \E k \in loads \ {l} : k.n = page.changes
                      /\ newest = page.changes /\ excuse = {} => l.interval = page.selected
    BY <1>1, <1>4, <1>6 DEF LatestChange
  <2>1. CASE page.phase = "drawing"
    <3>1. /\ page.changes = 0 /\ page.selected = First
          /\ \A k \in loads : k.n = 0 /\ k.interval = First
      BY <2>1 DEF PageInv, Phases
    <3> QED BY <1>2, <1>3, <3>1
  <2>2. CASE page.phase = "ready"
    <3>1. /\ \A k \in loads : k.n = page.changes => k.interval = page.selected
          /\ "failed" \notin page.excuse =>
                page.newest = page.changes \/ \E k \in loads : k.n = page.changes
      BY <2>2 DEF PageInv, LatestChange
    <3>2. newest = page.changes /\ excuse = {} => l.interval = page.selected
      BY <1>5, <3>1
    <3>3. ASSUME "failed" \notin page.excuse
          PROVE  newest = page.changes \/ \E k \in loads \ {l} : k.n = page.changes
      <4>1. CASE page.newest = page.changes
        BY <1>2, <1>3, <4>1 DEF newest
      <4>2. CASE l.n = page.changes
        BY <1>2, <1>3, <4>2
      <4> QED BY <3>1, <3>3, <4>1, <4>2
    <3> QED BY <3>1, <3>2, <3>3
  <2> QED BY <1>7, <2>1, <2>2
<1> QED BY <1>8, <1>9, <1>10, <1>11 DEF PageInv

LEMMA LoadFailsStep ==
    ASSUME ReadInv, PageInv, NEW l \in loads, LoadFails(l)
    PROVE  PageInv'
<1> DEFINE phase == IF page.phase = "drawing" THEN "broken" ELSE page.phase
           excuse == IF l.n = page.changes THEN page.excuse \cup {"failed"} ELSE page.excuse
<1>1. /\ loads' = loads \ {l}
      /\ page' = [page EXCEPT !.phase = phase, !.excuse = excuse]
      /\ read' = read /\ grown' = grown /\ gone' = gone
  BY DEF LoadFails, readVars
<1>2. page \in PageType /\ loads \subseteq LoadType
  BY PageFields DEF PageInv
<1>3. /\ phase \in {"loading", "drawing", "ready", "broken"}
      /\ phase = "ready" <=> page.phase = "ready"
      /\ phase # "drawing"
      /\ excuse \in SUBSET {"missed", "failed", "overtaken"}
      /\ "missed" \in excuse <=> "missed" \in page.excuse
      /\ excuse = {} => page.excuse = {}
      /\ "failed" \notin excuse => "failed" \notin page.excuse /\ l.n # page.changes
  BY <1>2 DEF PageType
<1>4. page.phase \in {"drawing", "ready"} /\ (page.phase = "drawing" => phase = "broken")
  BY <1>2 DEF PageInv, Phases, PageType
<1> HIDE DEF phase, excuse
<1>5. /\ page'.phase = phase /\ page'.selected = page.selected
      /\ page'.changes = page.changes /\ page'.newest = page.newest /\ page'.excuse = excuse
      /\ page'.shown = page.shown /\ page'.series = page.series
  BY <1>1, <1>2 DEF PageType
<1>6. PageTyping'
  <2>1. page' \in PageType
    BY <1>1, <1>2, <1>3 DEF PageType
  <2> QED BY <1>1, <1>2, <2>1 DEF PageTyping
<1>7. Phases'
  <2>1. CASE page.phase = "ready"
    BY <1>1, <1>3, <1>5, <2>1 DEF PageInv, Phases
  <2>2. CASE page.phase = "drawing"
    <3>1. loads' = {}
      BY <1>1, <2>2 DEF PageInv, Phases, Loads
    <3> QED BY <1>1, <1>3, <1>4, <1>5, <2>2, <3>1 DEF Phases
  <2> QED BY <1>4, <2>1, <2>2
<1>8. Loads'
  <2>1. \A k \in loads : k.answered => PointsFit(k.points, k.interval)'
    <3>1. \A points, j : PointsFit(points, j) => PointsFit(points, j)'
      BY <1>1, PointsStay
    <3> QED BY <3>1 DEF PageInv, Loads
  <2>2. phase = "ready" => PointsFit(page.series, page.shown)'
    BY <1>1, <1>3, <1>5 DEF PageInv, Loads, PointsFit, Bucket
  <2> QED BY <1>1, <1>5, <2>1, <2>2 DEF PageInv, Loads
<1>9. LatestChange'
  BY <1>1, <1>3, <1>5 DEF PageInv, LatestChange
<1> QED BY <1>6, <1>7, <1>8, <1>9 DEF PageInv

-----------------------------------------------------------------------------
(* The theorems.                                                             *)

\* What the invariant says to a reader.
LEMMA InvPromises ==
    DashInv => /\ DashboardTypeOK
               /\ StableRowsAreListed /\ QuietWalkIsExact
               /\ SummaryAddsUp
               /\ ChartFollowsSelector /\ TilesMatchChart
<1> SUFFICES ASSUME DashInv
             PROVE  /\ DashboardTypeOK
                    /\ StableRowsAreListed /\ QuietWalkIsExact
                    /\ SummaryAddsUp
                    /\ ChartFollowsSelector /\ TilesMatchChart
  OBVIOUS
<1>1. DashboardTypeOK
  BY DEF DashInv, ReadInv, ReadTyping, PageInv, PageTyping, DashboardTypeOK
<1>2. StableRowsAreListed
  BY DEF DashInv, ReadInv, WalkInv, StableRowsAreListed, Selected, Now
<1>3. QuietWalkIsExact
  BY DEF DashInv, ReadInv
<1>4. SummaryAddsUp
  BY DEF DashInv, ReadInv, Figures, OpenFits, GroupsFit,
         CategoriesFit, SourcesFit, SpanFits, SummaryAddsUp
<1>5. ChartFollowsSelector
  BY DEF DashInv, PageInv, LatestChange, ChartFollowsSelector, AtRest
<1>6. TilesMatchChart
  <2> SUFFICES ASSUME page.phase = "ready" PROVE TilesMatchChart
    BY DEF TilesMatchChart
  <2>1. PointsFit(page.series, page.shown)
    BY DEF DashInv, PageInv, Loads
  <2> QED BY <2>1 DEF PointsFit, Counted, TilesMatchChart
<1> QED BY <1>1, <1>2, <1>3, <1>4, <1>5, <1>6

LEMMA DashInitInv == ASSUME DashInit PROVE DashInv
<1>1. ReadInv
  BY ReadInitInv DEF DashInit
<1>2. page = [phase |-> "loading", selected |-> First, shown |-> First, series |-> {},
              changes |-> 0, newest |-> 0, excuse |-> {}] /\ loads = {}
  BY DEF DashInit
<1>3. PageTyping
  <2>1. First \in Intervals /\ 0 \in 0..MaxChanges
    BY DashboardAssumption
  <2> QED BY <1>2, <2>1 DEF PageTyping, PageType
<1>4. Phases /\ LatestChange
  BY <1>2 DEF Phases, LatestChange
<1>5. Loads
  BY <1>2 DEF Loads
<1> QED BY <1>1, <1>3, <1>4, <1>5 DEF DashInv, PageInv

\* While a statement of the summary is still to run, the page waits.
LEMMA PageWaits ==
    ASSUME ReadInv, PageInv, Reads, UNCHANGED <<page, loads>>
    PROVE  PageInv'
<1>1. read.step # "summed"
  BY DEF Reads, ListPage, CountPage, Export, CountTotal, CountOpen, CountCategories,
         CountSources, DateBounds
<1>2. page.phase \in {"loading", "broken"} /\ loads = {} /\ page' = page /\ loads' = {}
  BY <1>1 DEF PageInv, Phases, PageTyping, PageType
<1>3. PageTyping' /\ Phases' /\ LatestChange'
  BY <1>2 DEF PageInv, PageTyping, Phases, LatestChange
<1>4. Loads'
  BY <1>2 DEF PageInv, Loads
<1> QED BY <1>3, <1>4 DEF PageInv

LEMMA PageThroughCommit ==
    ASSUME PageInv, read' = read, ~grown' => ~grown, ~gone' => ~gone, UNCHANGED <<page, loads>>
    PROVE  PageInv'
<1>1. PageTyping' /\ Phases' /\ LatestChange'
  BY DEF PageInv, PageTyping, Phases, LatestChange
<1>2. \A points, j : PointsFit(points, j) => PointsFit(points, j)'
  BY PointsStay
<1>3. page.phase = "ready" => PointsFit(page.series, page.shown)'
  BY DEF PageInv, Loads, PointsFit, Bucket
<1>4. Loads'
  BY <1>2, <1>3 DEF PageInv, Loads
<1> QED BY <1>1, <1>4 DEF PageInv

LEMMA PageStep ==
    ASSUME ReadInv, PageInv, PageNext
    PROVE  ReadInv' /\ PageInv'
<1>1. \/ DrawTiles \/ SummaryFails
      \/ \E i \in Intervals : Change(i)
      \/ \E l \in loads : Serve(l) \/ Draw(l) \/ LoadFails(l)
  BY DEF PageNext
<1>2. UNCHANGED readVars
  BY <1>1 DEF DrawTiles, SummaryFails, Change, Serve, Draw, LoadFails
<1>3. ReadInv'
  BY <1>2, ReadStays
<1>4. PageInv'
  BY <1>1, DrawTilesStep, SummaryFailsStep, ChangeStep, ServeStep, DrawStep, LoadFailsStep
<1> QED BY <1>3, <1>4

LEMMA DashStep ==
    ASSUME DashInv, [AmongAnyWrites]_dashVars
    PROVE  DashInv'
<1> USE DEF DashInv
<1>1. CASE PageNext
  BY <1>1, PageStep
<1>2. CASE Reads /\ UNCHANGED <<page, loads>>
  BY <1>2, ReadsStep, PageWaits
<1>3. CASE read.step \notin {"walked", "exported"} /\ AnyCommit /\ UNCHANGED <<page, loads>>
  <2>1. ReadInv' /\ read' = read /\ (~grown' => ~grown) /\ (~gone' => ~gone)
    BY <1>3, CommitStep
  <2> QED BY <1>3, <2>1, PageThroughCommit
<1>4. CASE UNCHANGED dashVars
  <2>1. ReadInv'
    BY <1>4, ReadStays DEF dashVars
  <2>2. PageInv'
    <3>1. read' = read /\ grown' = grown /\ gone' = gone /\ page' = page /\ loads' = loads
      BY <1>4 DEF dashVars, readVars
    <3> QED BY <3>1, PageThroughCommit
  <2> QED BY <2>1, <2>2
<1> QED BY <1>1, <1>2, <1>3, <1>4 DEF AmongAnyWrites

\* The invariant, among any operations of the tables: the history variables say
\* in which direction the records moved, ranks put what a walk has not listed
\* behind its offset, the figures bound the records, and the loads are what the
\* chart needs.
THEOREM AmongAnyWritesInvariant == AmongAnyWritesSpec => []DashInv
<1>1. DashInit => DashInv
  BY DashInitInv
<1>2. DashInv /\ [AmongAnyWrites]_dashVars => DashInv'
  BY DashStep
<1> QED BY <1>1, <1>2, PTL DEF AmongAnyWritesSpec

LEMMA DashStepIsAny ==
    ASSUME DashInv, [DashNext]_dashVars
    PROVE  [AmongAnyWrites]_dashVars
<1>1. TablesInv
  BY DEF DashInv, ReadInv, ReadTyping
<1>2. ASSUME Commit, read.step \notin {"walked", "exported"}, UNCHANGED <<page, loads>>
      PROVE  AmongAnyWrites
  BY <1>1, <1>2, CommitIsAny DEF AmongAnyWrites
<1> QED BY <1>2 DEF DashNext, ReadNext, Answered, AmongAnyWrites

\* In particular it holds of Dashboard, whose commits are such operations.
THEOREM DashboardInvariant == DashSpec => []DashInv
<1>1. DashInit => DashInv
  BY DashInitInv
<1>2. DashInv /\ [DashNext]_dashVars => DashInv'
  BY DashStep, DashStepIsAny
<1> QED BY <1>1, <1>2, PTL DEF DashSpec

\* The page and the requests leave the tables alone, and what they are proved
\* among are the tables' own operations: Dashboard composes with whatever
\* implements ObservationTables.
THEOREM DashboardImplementsTables == DashSpec => Spec
<1>1. DashInit => Init
  BY DEF DashInit, ReadInit
<1>2. DashInv /\ [DashNext]_dashVars => [Next]_vars
  <2> SUFFICES ASSUME DashInv, [AmongAnyWrites]_dashVars
               PROVE  [Next]_vars
    BY DashStepIsAny
  <2>1. CASE PageNext
    BY <2>1 DEF PageNext, DrawTiles, SummaryFails, Change, Serve, Draw, LoadFails, readVars, vars
  <2>2. CASE Reads
    BY <2>2 DEF Reads, vars
  <2>3. CASE AnyCommit
    BY <2>3 DEF AnyCommit
  <2>4. CASE UNCHANGED dashVars
    BY <2>4 DEF dashVars, readVars, vars
  <2> QED BY <2>1, <2>2, <2>3, <2>4 DEF AmongAnyWrites
<1> QED BY <1>1, <1>2, DashboardInvariant, PTL DEF DashSpec, Spec

\* The page, its loads and the answers in the making are always of their types;
\* the sums of the groups are numbers because the groups add up.
THEOREM DashboardTyping == DashSpec => []DashboardTypeOK
BY InvPromises, DashboardInvariant, PTL

\* GET /raw-observations and /processed-observations, followed to the end, miss
\* no record that was there all the time, whatever is inserted meanwhile, unless
\* it shares its date (for raws, by default, their ingest) with another.
THEOREM WalkMissesNothing == DashSpec => []StableRowsAreListed
BY InvPromises, DashboardInvariant, PTL

\* Among no writes a walk shows as many records as there are, with the dates of a
\* sorted list and the true total, each that has a date of its own exactly once,
\* and an export shows the first records, up to its limit.
THEOREM QuietWalksAreExact == DashSpec => []QuietWalkIsExact
BY InvPromises, DashboardInvariant, PTL

\* The figures of GET /analytics/summary add up unless a write falls between
\* its statements, and then they are off in a known direction only.
THEOREM SummariesAddUp == DashSpec => []SummaryAddsUp
BY InvPromises, DashboardInvariant, PTL

\* However the answers of the time series overtake each other, the page that
\* rests shows the selected interval unless it has a reason not to.
THEOREM ChartShowsSelection == DashSpec => []ChartFollowsSelector
BY InvPromises, DashboardInvariant, PTL

\* The points of the chart add up to the total of the tiles, unless rows have
\* come or gone in between, and lie within the summary's dates.
THEOREM ChartMatchesTiles == DashSpec => []TilesMatchChart
BY InvPromises, DashboardInvariant, PTL

\* The same promises hold among any operations of the tables, without the
\* bounds of the model: whole batches, manual rows, writes without end.
THEOREM PromisesAmongAnyWrites ==
    AmongAnyWritesSpec => [](/\ DashboardTypeOK
                             /\ StableRowsAreListed /\ QuietWalkIsExact
                             /\ SummaryAddsUp
                             /\ ChartFollowsSelector /\ TilesMatchChart)
BY InvPromises, AmongAnyWritesInvariant, PTL

=============================================================================
