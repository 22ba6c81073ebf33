---------------------------- MODULE RouterProofs ----------------------------
(***************************************************************************)
(* The loop of match_location finds the longest location that matches, for *)
(* all requests and servers.                                               *)
(***************************************************************************)
EXTENDS RouterReference, SequenceLemmas

Inv == TypeOK /\ BestSoFar

\* Cutting off the query string leaves a string.
LEMMA StripQueryType ==
    ASSUME NEW u \in Seq(Char)
    PROVE  StripQuery(u) \in Seq(Char)
<1> DEFINE first(k) == u[k] = Question /\ \A j \in 1..(k - 1) : u[j] # Question
<1>1. CASE \E k \in 1..Len(u) : u[k] = Question
  <2> DEFINE F == {n \in Nat : n \in 1..Len(u) /\ u[n] = Question}
  <2>1. F # {} /\ F \subseteq Nat
    BY <1>1, LenProperties
  <2>2. PICK m \in F : \A n \in F : m <= n
    <3>1. PICK m \in F : \A n \in F : ~ (<<n, m>> \in OpToRel(<, Nat))
      BY <2>1, NatLessThanWellFounded, WFMin
    <3>2. ASSUME NEW n \in F
          PROVE  ~ (n < m)
      <4>1. n < m => <<n, m>> \in OpToRel(<, Nat)
        BY DEF OpToRel
      <4>2. QED
        BY <3>1, <4>1
    <3>3. QED
      BY <3>2
  <2>3. m \in 1..Len(u) /\ first(m)
    BY <2>2, LenProperties
  <2>4. (CHOOSE k \in 1..Len(u) : first(k)) \in 1..Len(u)
    BY <2>3
  <2> DEFINE c == CHOOSE k \in 1..Len(u) : first(k)
  <2>5. StripQuery(u) = SubSeq(u, 1, c - 1)
    BY <1>1 DEF StripQuery
  <2> HIDE DEF c
  <2>6. c \in 1..Len(u)
    BY <2>4 DEF c
  <2>7. SubSeq(u, 1, c - 1) \in Seq(Char)
    BY <2>6, LenProperties, SubSeqProperties
  <2>8. QED
    BY <2>5, <2>7
<1>2. CASE ~ \E k \in 1..Len(u) : u[k] = Question
  BY <1>2 DEF StripQuery
<1>3. QED
  BY <1>1, <1>2

\* Before the loop nothing was considered, and nothing chosen.
LEMMA InitInv == Init => Inv
<1> SUFFICES ASSUME Init
             PROVE  Inv
  OBVIOUS
<1>1. uri \in Seq(Char)
  <2>1. PICK u \in Strings(MaxUri) : uri = StripQuery(u)
    BY DEF Init
  <2>2. u \in Seq(Char)
    BY <2>1, RouterAssumption DEF Strings
  <2>3. QED
    BY <2>1, <2>2, StripQueryType
<1>2. locations \in Seq(Paths)
  BY RouterAssumption DEF Init, Servers
<1>3. QED
  BY <1>1, <1>2, LenProperties DEF Init, Inv, TypeOK, BestSoFar, NoLocation

\* One turn of the loop: the location at the index is the new best, or it does
\* not match, or it is no longer than the best.
LEMMA InvStep == Inv /\ [Next]_vars => Inv'
<1> SUFFICES ASSUME Inv, [Next]_vars
             PROVE  Inv'
  OBVIOUS
<1>1. CASE Consider
  <2>1. /\ i \in 1..Len(locations) /\ i' = i + 1 /\ i \in Nat /\ Len(locations) \in Nat
        /\ UNCHANGED <<uri, locations>>
    BY <1>1, LenProperties DEF Consider, Inv, TypeOK
  <2>2. /\ locations[i] \in Paths /\ Len(locations[i]) \in Nat /\ Len(locations[i]) > 0
        /\ best_loc # NoLocation => best_loc \in 1..Len(locations) /\ Len(locations[best_loc]) \in Nat
    <3>1. \A k \in 1..Len(locations) : locations[k] \in Paths
      BY ElementOfSeq DEF Inv, TypeOK
    <3>2. \A p \in Paths : Len(p) \in Nat /\ Len(p) > 0
      <4>1. \A p \in Paths : p \in Seq(Char)
        BY RouterAssumption DEF Paths, Strings
      <4>2. QED
        BY <4>1, LenProperties DEF Paths
    <3>3. best_loc # NoLocation => best_loc \in 1..Len(locations)
      BY <2>1 DEF Inv, TypeOK, NoLocation
    <3>4. QED
      BY <2>1, <3>1, <3>2, <3>3
  <2>3. CASE Match(uri, locations[i]) /\ Longer(locations[i])
    <3>1. best_loc' = i /\ best_len' = Len(locations[i])
      BY <1>1, <2>3 DEF Consider, TakeIt
    <3>2. TypeOK'
      BY <2>1, <3>1 DEF Inv, TypeOK, NoLocation
    <3>3. ASSUME NEW k \in 1..i, Match(uri, locations[k])
          PROVE  Len(locations[k]) <= Len(locations[i])
      <4>1. CASE k = i
        BY <4>1, <2>2
      <4>2. CASE k # i
        <5>1. best_loc # NoLocation /\ Len(locations[k]) <= Len(locations[best_loc])
          BY <4>2, <3>3, <2>1 DEF Inv, BestSoFar
        <5>2. Len(locations[best_loc]) < Len(locations[i])
          BY <5>1, <2>2, <2>3 DEF Inv, TypeOK, Longer
        <5>3. Len(locations[k]) \in Nat
          BY <2>1, LenProperties, ElementOfSeq, RouterAssumption DEF Inv, TypeOK, Paths, Strings
        <5>4. QED
          BY <5>1, <5>2, <5>3, <2>2
      <4>3. QED
        BY <4>1, <4>2
    <3>4. BestSoFar'
      BY <2>1, <2>3, <3>1, <3>3 DEF BestSoFar, NoLocation, Match, is_prefix, is_segment_boundary
    <3>5. QED
      BY <3>2, <3>4 DEF Inv
  <2>4. CASE ~(Match(uri, locations[i]) /\ Longer(locations[i]))
    <3>1. UNCHANGED <<best_loc, best_len>>
      BY <1>1, <2>4 DEF Consider
    <3>2. TypeOK'
      BY <2>1, <3>1 DEF Inv, TypeOK
    <3>3. Match(uri, locations[i]) => best_loc # NoLocation /\ Len(locations[i]) <= Len(locations[best_loc])
      BY <2>2, <2>4 DEF Inv, TypeOK, Longer
    <3>4. BestSoFar'
      BY <2>1, <3>1, <3>3 DEF Inv, BestSoFar, Match, is_prefix, is_segment_boundary
    <3>5. QED
      BY <3>2, <3>4 DEF Inv
  <2>5. QED
    BY <2>3, <2>4
<1>2. CASE UNCHANGED vars
  BY <1>2 DEF vars, Inv, TypeOK, BestSoFar, Match, is_prefix, is_segment_boundary
<1>3. QED
  BY <1>1, <1>2 DEF Next, Return

-----------------------------------------------------------------------------
\* The index stays in the vector, and best_len is the length of best_loc.
THEOREM TypeCorrect == Spec => []TypeOK
<1>1. Inv => TypeOK
  BY DEF Inv
<1>2. QED
  BY <1>1, InitInv, InvStep, PTL DEF Spec

\* The loop keeps the longest match of the locations it has seen, for every
\* request, every order of the file and every number of locations.
THEOREM LongestMatch == Spec => []BestSoFar
<1>1. Inv => BestSoFar
  BY DEF Inv
<1>2. QED
  BY <1>1, InitInv, InvStep, PTL DEF Spec

-----------------------------------------------------------------------------
(* The segments of a string *)

LEMMA BarsType ==
    ASSUME NEW s \in Seq(Char)
    PROVE  /\ Bars(s) \in SUBSET Nat /\ IsFiniteSet(Bars(s)) /\ Cardinality(Bars(s)) \in Nat
           /\ 0 \in Bars(s) /\ Len(s) + 1 \in Bars(s) /\ \A k \in Bars(s) : k <= Len(s) + 1
           /\ \A k \in 1..Len(s) : k \in Bars(s) <=> s[k] = Slash
<1>1. Len(s) \in Nat /\ DOMAIN s = 1..Len(s)
  BY LenProperties
<1>2. Bars(s) \in SUBSET (0..(Len(s) + 1))
  BY DEF Bars
<1>3. IsFiniteSet(Bars(s))
  <2>1. Bars(s) \in SUBSET Nat /\ Len(s) + 1 \in Nat /\ \A k \in Bars(s) : k <= Len(s) + 1
    BY <1>1, <1>2
  <2>2. QED
    BY <2>1, FS_BoundedSetOfNaturals
<1>4. 0 \in Bars(s) /\ Len(s) + 1 \in Bars(s)
  <2>1. \A k \in {0, Len(s) + 1} : k \in 0..(Len(s) + 1) /\ k \notin DOMAIN s
    BY <1>1
  <2>2. QED
    BY <2>1 DEF Bars
<1>5. \A k \in 1..Len(s) : k \in Bars(s) <=> s[k] = Slash
  BY <1>1 DEF Bars
<1>6. \A k \in Bars(s) : k \in Nat /\ k <= Len(s) + 1
  BY <1>1, <1>2
<1>7. QED
  BY <1>3, <1>4, <1>5, <1>6, FS_CardinalityType

\* Cut(s, j) is the bar with j bars before it, and the only one.
LEMMA CutAt ==
    ASSUME NEW s \in Seq(Char), NEW j \in Nat, j < Cardinality(Bars(s))
    PROVE  /\ Cut(s, j) \in Bars(s) /\ Cut(s, j) \in Nat /\ Rank(Bars(s), Cut(s, j)) = j
           /\ \A k \in Bars(s) : Rank(Bars(s), k) = j => k = Cut(s, j)
<1>1. \E k \in Bars(s) : /\ Rank(Bars(s), k) = j
                        /\ \A l \in Bars(s) : Rank(Bars(s), l) = j => l = k
  BY BarsType, OneOfEachRank
<1>2. Cut(s, j) = CHOOSE k \in Bars(s) : Rank(Bars(s), k) = j
  BY DEF Cut, Rank, Below
<1>3. Cut(s, j) \in Bars(s) /\ Rank(Bars(s), Cut(s, j)) = j
  BY <1>1, <1>2
<1>4. QED
  BY <1>1, <1>3, BarsType

\* The cuts come in their order, from 0 to behind the end.
LEMMA CutOrder ==
    ASSUME NEW s \in Seq(Char)
    PROVE  LET n == Cardinality(Bars(s)) - 1 IN
           /\ n \in Nat \ {0}
           /\ Cut(s, 0) = 0 /\ Cut(s, n) = Len(s) + 1
           /\ Rank(Bars(s), Len(s) + 1) = n
           /\ \A j, k \in 0..n : j < k => Cut(s, j) < Cut(s, k)
<1> DEFINE B == Bars(s)
           n == Cardinality(B) - 1
<1>1. /\ B \in SUBSET Nat /\ IsFiniteSet(B) /\ Cardinality(B) \in Nat /\ Len(s) \in Nat
      /\ 0 \in B /\ Len(s) + 1 \in B /\ \A k \in B : k <= Len(s) + 1
  BY BarsType, LenProperties
<1>2. Rank(B, 0) = 0
  <2>1. Below(B, 0) = {}
    <3>1. \A m \in B : ~(m < 0)
      BY <1>1
    <3>2. QED
      BY <3>1 DEF Below
  <2>2. QED
    BY <2>1, FS_EmptySet DEF Rank
<1>3. Rank(B, Len(s) + 1) = n
  <2>1. \A m \in B : m < Len(s) + 1 <=> m # Len(s) + 1
    BY <1>1
  <2>2. Below(B, Len(s) + 1) = B \ {Len(s) + 1}
    BY <2>1 DEF Below
  <2>3. QED
    BY <1>1, <2>2, FS_RemoveElement DEF Rank
<1> HIDE DEF B
<1>4. n \in Nat \ {0}
  <2>1. Rank(B, 0) + 1 <= Rank(B, Len(s) + 1)
    BY <1>1, RankGrows
  <2>2. QED
    BY <1>1, <1>2, <1>3, <2>1
<1>5. Cut(s, 0) = 0 /\ Cut(s, n) = Len(s) + 1
  BY <1>1, <1>2, <1>3, <1>4, CutAt DEF B
<1>6. ASSUME NEW j \in 0..n, NEW k \in 0..n, j < k
      PROVE  Cut(s, j) < Cut(s, k)
  <2>1. /\ Cut(s, j) \in B /\ Cut(s, j) \in Nat /\ Rank(B, Cut(s, j)) = j
        /\ Cut(s, k) \in B /\ Cut(s, k) \in Nat /\ Rank(B, Cut(s, k)) = k
    <3>1. j \in Nat /\ k \in Nat /\ j < Cardinality(B) /\ k < Cardinality(B)
      BY <1>1, <1>4
    <3>2. QED
      BY <3>1, CutAt DEF B
  <2>2. ASSUME Cut(s, k) < Cut(s, j) PROVE FALSE
    <3>1. Rank(B, Cut(s, k)) + 1 <= Rank(B, Cut(s, j))
      BY <1>1, <2>1, <2>2, RankGrows
    <3>2. QED
      BY <1>6, <2>1, <3>1
  <2>3. Cut(s, k) # Cut(s, j)
    BY <1>6, <2>1
  <2>4. QED
    BY <2>1, <2>2, <2>3
<1>7. QED
  BY <1>3, <1>4, <1>5, <1>6 DEF B

\* The segment j lies between two cuts.
LEMMA SegmentAt ==
    ASSUME NEW s \in Seq(Char)
    PROVE  LET n == Cardinality(Bars(s)) - 1 IN
           /\ Segments(s) \in Seq(Seq(Char)) /\ Len(Segments(s)) = n
           /\ \A j \in 1..n :
                 /\ Segments(s)[j] \in Seq(Char)
                 /\ Len(Segments(s)[j]) = Cut(s, j) - Cut(s, j - 1) - 1
                 /\ \A x \in 1..(Cut(s, j) - Cut(s, j - 1) - 1) :
                       Segments(s)[j][x] = s[Cut(s, j - 1) + x]
<1> DEFINE n == Cardinality(Bars(s)) - 1
<1>1. n \in Nat /\ Len(s) \in Nat
  BY CutOrder, LenProperties
<1>2. ASSUME NEW j \in 1..n
      PROVE  /\ Segments(s)[j] \in Seq(Char)
             /\ Len(Segments(s)[j]) = Cut(s, j) - Cut(s, j - 1) - 1
             /\ \A x \in 1..(Cut(s, j) - Cut(s, j - 1) - 1) :
                   Segments(s)[j][x] = s[Cut(s, j - 1) + x]
  <2>1. PICK a, b : a = Cut(s, j - 1) /\ b = Cut(s, j)
    OBVIOUS
  <2>2. a \in Nat /\ b \in Nat /\ a < b /\ b <= Len(s) + 1
    <3>1. j - 1 \in 0..n /\ j \in 0..n /\ j - 1 < j /\ j < Cardinality(Bars(s)) /\ j - 1 < Cardinality(Bars(s))
      BY <1>1, BarsType
    <3>2. QED
      BY <2>1, <3>1, CutAt, CutOrder, BarsType
  <2>3. \A x \in (a + 1)..(b - 1) : s[x] \in Char
    BY <1>1, <2>2, ElementOfSeq
  <2>4. /\ SubSeq(s, a + 1, b - 1) \in Seq(Char)
        /\ Len(SubSeq(s, a + 1, b - 1)) = b - a - 1
        /\ \A x \in 1..(b - a - 1) : SubSeq(s, a + 1, b - 1)[x] = s[a + x]
    BY <2>2, <2>3, SubSeqProperties
  <2>5. Segments(s)[j] = SubSeq(s, a + 1, b - 1)
    BY <2>1 DEF Segments
  <2>6. QED
    BY <2>1, <2>4, <2>5
<1>3. Segments(s) \in [1..n -> Seq(Char)]
  <2>1. \A j \in 1..n : SubSeq(s, Cut(s, j - 1) + 1, Cut(s, j) - 1) \in Seq(Char)
    BY <1>2 DEF Segments
  <2>2. QED
    BY <2>1 DEF Segments
<1> HIDE DEF n
<1>4. Segments(s) \in Seq(Seq(Char)) /\ Len(Segments(s)) = n
  BY <1>1, <1>3
<1>5. QED
  BY <1>2, <1>4 DEF n

-----------------------------------------------------------------------------
(* Strings that begin alike *)

\* Up to C the strings s and t are the same, and C is no further than behind either.
AlikeTo(s, t, C) ==
    /\ C <= Len(s) + 1 /\ C <= Len(t) + 1
    /\ \A k \in 1..(C - 1) : s[k] = t[k]

\* They have the same bars before C.
LEMMA AlikeBars ==
    ASSUME NEW s \in Seq(Char), NEW t \in Seq(Char), NEW C \in Nat, AlikeTo(s, t, C)
    PROVE  /\ \A k \in Nat : k < C => (k \in Bars(s) <=> k \in Bars(t))
           /\ \A k \in Nat : k <= C => Rank(Bars(s), k) = Rank(Bars(t), k)
<1>1. Len(s) \in Nat /\ Len(t) \in Nat
  BY LenProperties
<1>2. ASSUME NEW k \in Nat, k < C
      PROVE  k \in Bars(s) <=> k \in Bars(t)
  <2>1. CASE k = 0
    BY <2>1, BarsType
  <2>2. CASE k # 0
    <3>1. k \in 1..(C - 1) /\ k \in 1..Len(s) /\ k \in 1..Len(t)
      BY <1>1, <1>2, <2>2 DEF AlikeTo
    <3>2. QED
      BY <3>1, BarsType DEF AlikeTo
  <2>3. QED
    BY <2>1, <2>2
<1>3. ASSUME NEW k \in Nat, k <= C
      PROVE  Rank(Bars(s), k) = Rank(Bars(t), k)
  <2>1. \A m \in Nat : m < k => (m \in Bars(s) <=> m \in Bars(t))
    BY <1>2, <1>3
  <2>2. \A m : m \in Bars(s) \/ m \in Bars(t) => m \in Nat
    BY BarsType
  <2>3. Below(Bars(s), k) = Below(Bars(t), k)
    BY <2>1, <2>2 DEF Below
  <2>4. QED
    BY <2>3 DEF Rank
<1>4. QED
  BY <1>2, <1>3

\* The first m segments of two strings are the same if and only if their m-th cuts
\* are and the strings are alike to there.
LEMMA SameSegments ==
    ASSUME NEW s \in Seq(Char), NEW t \in Seq(Char), NEW m \in Nat,
           m < Cardinality(Bars(s)), m < Cardinality(Bars(t))
    PROVE  (\A j \in 1..m : Segments(s)[j] = Segments(t)[j])
              <=> Cut(s, m) = Cut(t, m) /\ AlikeTo(s, t, Cut(s, m))
<1>1. \A j \in 0..m : /\ j \in Nat /\ j < Cardinality(Bars(s)) /\ j < Cardinality(Bars(t))
                      /\ j \in 0..(Cardinality(Bars(s)) - 1) /\ j \in 0..(Cardinality(Bars(t)) - 1)
  BY BarsType
<1>2. \A j \in 0..m : /\ Cut(s, j) \in Nat /\ Cut(s, j) \in Bars(s) /\ Cut(s, j) <= Len(s) + 1
                      /\ Cut(t, j) \in Nat /\ Cut(t, j) \in Bars(t) /\ Cut(t, j) <= Len(t) + 1
  BY <1>1, CutAt, BarsType
<1>3. \A j, k \in 0..m : j < k => Cut(s, j) < Cut(s, k) /\ Cut(t, j) < Cut(t, k)
  BY <1>1, CutOrder
<1>4. Len(s) \in Nat /\ Len(t) \in Nat
  BY LenProperties
<1>5. ASSUME NEW j \in 1..m
      PROVE  /\ Segments(s)[j] \in Seq(Char)
             /\ Len(Segments(s)[j]) = Cut(s, j) - Cut(s, j - 1) - 1
             /\ \A x \in 1..(Cut(s, j) - Cut(s, j - 1) - 1) :
                   Segments(s)[j][x] = s[Cut(s, j - 1) + x]
             /\ Segments(t)[j] \in Seq(Char)
             /\ Len(Segments(t)[j]) = Cut(t, j) - Cut(t, j - 1) - 1
             /\ \A x \in 1..(Cut(t, j) - Cut(t, j - 1) - 1) :
                   Segments(t)[j][x] = t[Cut(t, j - 1) + x]
  <2>1. j \in 1..(Cardinality(Bars(s)) - 1) /\ j \in 1..(Cardinality(Bars(t)) - 1)
    BY <1>1
  <2>2. QED
    BY <2>1, SegmentAt
<1>6. ASSUME \A j \in 1..m : Segments(s)[j] = Segments(t)[j]
      PROVE  Cut(s, m) = Cut(t, m) /\ AlikeTo(s, t, Cut(s, m))
  <2> DEFINE T == {j \in Nat : j <= m => Cut(s, j) = Cut(t, j) /\ AlikeTo(s, t, Cut(s, j))}
  <2>1. 0 \in T
    BY <1>4, CutOrder DEF AlikeTo
  <2>2. ASSUME NEW j \in Nat, j \in T
        PROVE  j + 1 \in T
    <3> SUFFICES ASSUME j + 1 <= m
                 PROVE  Cut(s, j + 1) = Cut(t, j + 1) /\ AlikeTo(s, t, Cut(s, j + 1))
      OBVIOUS
    <3>1. PICK a, b : a = Cut(s, j) /\ b = Cut(s, j + 1)
      OBVIOUS
    <3>2. Cut(t, j) = a /\ AlikeTo(s, t, a)
      BY <2>2, <3>1
    <3>3. j + 1 \in 1..m /\ j \in 0..m /\ j + 1 \in 0..m /\ (j + 1) - 1 = j /\ j < j + 1
      OBVIOUS
    <3>4. a \in Nat /\ b \in Nat /\ Cut(t, j + 1) \in Nat /\ a < b /\ a < Cut(t, j + 1)
          /\ b <= Len(s) + 1 /\ Cut(t, j + 1) <= Len(t) + 1 /\ a \in Bars(s) /\ a \in Bars(t)
      BY <1>2, <1>3, <3>1, <3>2, <3>3
    <3>5. Cut(t, j + 1) - a - 1 = b - a - 1
      BY <1>5, <1>6, <3>1, <3>2, <3>3
    <3>6. Cut(t, j + 1) = b
      BY <3>4, <3>5
    <3>7. ASSUME NEW k \in 1..(b - 1)
          PROVE  s[k] = t[k]
      <4>1. CASE k < a
        BY <3>2, <3>4, <4>1 DEF AlikeTo
      <4>2. CASE k = a
        <5>1. k \in 1..Len(s) /\ k \in 1..Len(t)
          BY <1>4, <3>4, <3>6
        <5>2. QED
          BY <3>4, <4>2, <5>1, BarsType
      <4>3. CASE a < k
        <5>1. k - a \in 1..(b - a - 1) /\ a + (k - a) = k
          BY <3>4, <4>3
        <5>2. Segments(s)[j + 1][k - a] = s[k] /\ Segments(t)[j + 1][k - a] = t[k]
          BY <1>5, <3>1, <3>2, <3>3, <3>6, <5>1
        <5>3. QED
          BY <1>6, <3>3, <5>2
      <4>4. QED
        BY <3>4, <4>1, <4>2, <4>3
    <3>8. QED
      BY <3>1, <3>4, <3>6, <3>7 DEF AlikeTo
  <2> HIDE DEF T
  <2>3. Nat \subseteq T
    BY <2>1, <2>2, SetInduction
  <2>4. QED
    BY <2>3 DEF T
<1>7. ASSUME Cut(s, m) = Cut(t, m), AlikeTo(s, t, Cut(s, m)), NEW j \in 1..m
      PROVE  Segments(s)[j] = Segments(t)[j]
  <2>1. ASSUME NEW k \in 0..m
        PROVE  Cut(s, k) = Cut(t, k)
    <3>1. CASE k = m
      BY <1>7, <3>1
    <3>2. CASE k # m
      <4>1. k < m /\ m \in 0..m
        BY <3>2
      <4>2. Cut(s, k) < Cut(s, m) /\ Cut(s, k) \in Nat /\ Cut(s, m) \in Nat
        BY <1>2, <1>3, <4>1
      <4>3. Cut(s, k) \in Bars(t) /\ Rank(Bars(t), Cut(s, k)) = Rank(Bars(s), Cut(s, k))
        BY <1>2, <1>7, <4>2, AlikeBars
      <4>4. QED
        BY <1>1, <4>3, CutAt
    <3>3. QED
      BY <3>1, <3>2
  <2>2. PICK a, b : a = Cut(s, j - 1) /\ b = Cut(s, j)
    OBVIOUS
  <2>3. /\ j - 1 \in 0..m /\ j \in 0..m /\ m \in 0..m /\ j - 1 < j
    OBVIOUS
  <2>4. /\ Cut(t, j - 1) = a /\ Cut(t, j) = b
        /\ a \in Nat /\ b \in Nat /\ a < b /\ b <= Cut(s, m) /\ Cut(s, m) \in Nat
    BY <1>2, <1>3, <2>1, <2>2, <2>3
  <2>5. ASSUME NEW x \in 1..(b - a - 1)
        PROVE  s[a + x] = t[a + x]
    <3>1. a + x \in 1..(Cut(s, m) - 1)
      BY <2>4
    <3>2. QED
      BY <1>7, <3>1 DEF AlikeTo
  <2>6. /\ Segments(s)[j] \in Seq(Char) /\ Len(Segments(s)[j]) = b - a - 1
        /\ Segments(t)[j] \in Seq(Char) /\ Len(Segments(t)[j]) = b - a - 1
    BY <1>5, <2>2, <2>4
  <2>7. ASSUME NEW x \in 1..(b - a - 1)
        PROVE  Segments(s)[j][x] = Segments(t)[j][x]
    <3>1. Segments(s)[j][x] = s[a + x]
      BY <1>5, <2>2
    <3>2. Segments(t)[j][x] = t[a + x]
      BY <1>5, <2>4
    <3>3. QED
      BY <2>5, <3>1, <3>2
  <2>8. QED
    BY <2>6, <2>7, SeqEqual
<1>8. QED
  BY <1>6, <1>7

\* The last segment is empty if and only if the string ends with a slash.
LEMMA LastSegment ==
    ASSUME NEW p \in Seq(Char), Len(p) > 0
    PROVE  LET n == Cardinality(Bars(p)) - 1 IN
           /\ Last(Segments(p)) = <<>> <=> p[Len(p)] = Slash
           /\ p[Len(p)] = Slash => Cut(p, n - 1) = Len(p)
<1> DEFINE n == Cardinality(Bars(p)) - 1
<1>1. /\ Len(p) \in Nat /\ n \in Nat \ {0} /\ n - 1 \in Nat /\ Cardinality(Bars(p)) \in Nat
      /\ n - 1 \in 0..n /\ n \in 0..n /\ n \in 1..n /\ n - 1 < n /\ n - 1 < Cardinality(Bars(p))
  BY CutOrder, LenProperties, BarsType
<1>2. Cut(p, n) = Len(p) + 1 /\ Rank(Bars(p), Len(p) + 1) = n
  BY CutOrder
<1>3. Cut(p, n - 1) \in Bars(p) /\ Cut(p, n - 1) \in Nat /\ Cut(p, n - 1) < Len(p) + 1
  BY <1>1, <1>2, CutAt, CutOrder
<1>4. /\ Last(Segments(p)) = Segments(p)[n] /\ Segments(p)[n] \in Seq(Char)
      /\ Len(Segments(p)[n]) = Len(p) - Cut(p, n - 1)
  <2>1. Segments(p)[n] \in Seq(Char) /\ Len(Segments(p)[n]) = Cut(p, n) - Cut(p, n - 1) - 1
        /\ Len(Segments(p)) = n
    BY <1>1, SegmentAt
  <2>2. QED
    BY <1>1, <1>2, <1>3, <2>1 DEF Last
<1> HIDE DEF n
<1>5. Last(Segments(p)) = <<>> <=> Cut(p, n - 1) = Len(p)
  BY <1>1, <1>3, <1>4, EmptySeq
<1>6. Cut(p, n - 1) = Len(p) => p[Len(p)] = Slash
  BY <1>1, <1>3, BarsType
<1>7. ASSUME p[Len(p)] = Slash
      PROVE  Cut(p, n - 1) = Len(p)
  <2>1. Len(p) \in Bars(p)
    BY <1>1, <1>7, BarsType
  <2>2. ASSUME NEW m \in Bars(p), Len(p) < m, m < Len(p) + 1
        PROVE  FALSE
    <3>1. m \in Nat
      BY BarsType
    <3>2. QED
      BY <1>1, <2>2, <3>1
  <2>3. Rank(Bars(p), Len(p) + 1) = Rank(Bars(p), Len(p)) + 1
    <3>1. Len(p) < Len(p) + 1
      BY <1>1
    <3>2. QED
      BY <2>1, <2>2, <3>1, BarsType, RankNext
  <2>4. Rank(Bars(p), Len(p)) = n - 1
    BY <1>1, <1>2, <2>1, <2>3, BarsType, RankType
  <2>5. QED
    BY <1>1, <2>1, <2>4, CutAt
<1>8. QED
  BY <1>5, <1>6, <1>7 DEF n

\* One sequence is a prefix of another if it is no longer and they agree to its end.
LEMMA PrefixIs ==
    ASSUME NEW S, NEW v \in Seq(S), NEW w \in Seq(S)
    PROVE  IsPrefix(v, w) <=> Len(v) <= Len(w) /\ \A j \in 1..Len(v) : v[j] = w[j]
<1>1. Len(v) \in Nat /\ Len(w) \in Nat
  BY LenProperties
<1>2. SubSeq(v, 1, Len(v)) = v
  BY SubSeqFull
<1>3. ASSUME Len(v) <= Len(w)
      PROVE  v = SubSeq(w, 1, Len(v)) <=> \A j \in 1..Len(v) : v[j] = w[j]
  <2>1. \A j \in 1..Len(v) : w[j] \in S
    BY <1>1, <1>3, ElementOfSeq
  <2>2. /\ SubSeq(w, 1, Len(v)) \in Seq(S) /\ Len(SubSeq(w, 1, Len(v))) = Len(v)
        /\ \A j \in 1..Len(v) : SubSeq(w, 1, Len(v))[j] = w[j]
    BY <1>1, <2>1, SubSeqProperties
  <2>3. QED
    BY <2>2, SeqEqual
<1>4. QED
  BY <1>2, <1>3 DEF IsPrefix

\* Said of the characters: p is no longer than u and u begins with it.
LEMMA PrefixAlike ==
    ASSUME NEW p \in Seq(Char), NEW u \in Seq(Char)
    PROVE  is_prefix(u, p) <=> Len(p) <= Len(u) /\ AlikeTo(p, u, Len(p) + 1)
<1>1. Len(p) \in Nat /\ Len(u) \in Nat
  BY LenProperties
<1>2. is_prefix(u, p) <=> IsPrefix(p, u)
  BY SubSeqFull DEF is_prefix, IsPrefix
<1>3. Len(p) + 1 - 1 = Len(p)
  BY <1>1
<1>4. QED
  BY <1>1, <1>2, <1>3, PrefixIs DEF AlikeTo

\* The first m segments of p are those of u: what Covers asks for.
LEMMA CoversIs ==
    ASSUME NEW p \in Seq(Char), Len(p) > 0, NEW u \in Seq(Char)
    PROVE  LET n == Cardinality(Bars(p)) - 1
               m == IF p[Len(p)] = Slash THEN n - 1 ELSE n
           IN  /\ m \in Nat /\ m <= n
               /\ Covers(p, u) <=> /\ n < Cardinality(Bars(u))
                                  /\ Cut(p, m) = Cut(u, m)
                                  /\ AlikeTo(p, u, Cut(p, m))
<1> DEFINE n == Cardinality(Bars(p)) - 1
           m == IF p[Len(p)] = Slash THEN n - 1 ELSE n
           N == Cardinality(Bars(u)) - 1
           P == Segments(p)
           U == Segments(u)
           Q == IF Last(P) = <<>> THEN Front(P) ELSE P
<1>1. /\ n \in Nat \ {0} /\ N \in Nat \ {0}
      /\ Cardinality(Bars(p)) = n + 1 /\ Cardinality(Bars(u)) = N + 1
      /\ P \in Seq(Seq(Char)) /\ Len(P) = n /\ U \in Seq(Seq(Char)) /\ Len(U) = N
  BY CutOrder, SegmentAt, BarsType
<1>2. m \in Nat /\ m <= n
  BY <1>1
<1>3. /\ Q \in Seq(Seq(Char)) /\ Len(Q) = m /\ \A j \in 1..m : Q[j] = P[j]
  <2>1. CASE p[Len(p)] = Slash
    <3>1. Q = SubSeq(P, 1, n - 1) /\ m = n - 1
      BY <1>1, <2>1, LastSegment DEF Front
    <3>2. \A j \in 1..(n - 1) : P[j] \in Seq(Char)
      BY <1>1, ElementOfSeq
    <3>3. /\ SubSeq(P, 1, n - 1) \in Seq(Seq(Char))
          /\ Len(SubSeq(P, 1, n - 1)) = n - 1
          /\ \A j \in 1..(n - 1) : SubSeq(P, 1, n - 1)[j] = P[j]
      <4> HIDE DEF n, P
      <4>1. QED
        BY <1>1, <3>2, SubSeqProperties
    <3>4. QED
      BY <3>1, <3>3
  <2>2. CASE p[Len(p)] # Slash
    BY <1>1, <2>2, LastSegment
  <2>3. QED
    BY <2>1, <2>2
<1>4. Covers(p, u) <=> n <= N /\ IsPrefix(Q, U)
  BY <1>1 DEF Covers
<1> HIDE DEF n, m, N, P, U, Q
<1>5. n <= N => (IsPrefix(Q, U) <=> \A j \in 1..m : P[j] = U[j])
  <2>1. IsPrefix(Q, U) <=> Len(Q) <= Len(U) /\ \A j \in 1..Len(Q) : Q[j] = U[j]
    <3>1. Q \in Seq(Seq(Char)) /\ U \in Seq(Seq(Char))
      BY <1>1, <1>3
    <3>2. QED
      BY <3>1, PrefixIs
  <2>2. n <= N => m <= N
    BY <1>1, <1>2
  <2>3. QED
    BY <1>1, <1>3, <2>1, <2>2
<1>6. n <= N => ((\A j \in 1..m : P[j] = U[j]) <=> Cut(p, m) = Cut(u, m) /\ AlikeTo(p, u, Cut(p, m)))
  <2>1. n <= N => m < Cardinality(Bars(p)) /\ m < Cardinality(Bars(u))
    BY <1>1, <1>2
  <2>2. QED
    BY <1>2, <2>1, SameSegments DEF P, U
<1>7. n <= N <=> n < Cardinality(Bars(u))
  BY <1>1
<1>8. QED
  BY <1>2, <1>4, <1>5, <1>6, <1>7 DEF n, m

-----------------------------------------------------------------------------
(* What match_location compares is what a location means *)

\* The comparison of characters and its check of the boundary say of a path that
\* starts with a slash exactly what the segments say.
LEMMA CoversIffMatch ==
    ASSUME NEW p \in Seq(Char), Len(p) > 0, NEW u \in Seq(Char)
    PROVE  Covers(p, u) <=> Match(u, p)
<1> DEFINE n == Cardinality(Bars(p)) - 1
           N == Cardinality(Bars(u)) - 1
           L == Len(p)
<1>1. /\ L \in Nat \ {0} /\ Len(u) \in Nat /\ n \in Nat \ {0} /\ N \in Nat \ {0}
      /\ Cardinality(Bars(p)) = n + 1 /\ Cardinality(Bars(u)) = N + 1
      /\ n \in 0..n /\ n - 1 \in 0..n /\ n - 1 \in Nat
  BY LenProperties, CutOrder, BarsType
<1>2. /\ Cut(p, n) = L + 1 /\ Rank(Bars(p), L + 1) = n
      /\ Cut(u, N) = Len(u) + 1 /\ Rank(Bars(u), Len(u) + 1) = N
  BY CutOrder
<1>3. /\ IsFiniteSet(Bars(p)) /\ Bars(p) \in SUBSET Nat
      /\ IsFiniteSet(Bars(u)) /\ Bars(u) \in SUBSET Nat /\ Len(u) + 1 \in Bars(u)
  BY BarsType
<1>4. is_prefix(u, p) <=> L <= Len(u) /\ AlikeTo(p, u, L + 1)
  BY PrefixAlike
<1>5. CASE p[L] = Slash
  <2>1. Match(u, p) <=> L <= Len(u) /\ AlikeTo(p, u, L + 1)
    BY <1>4, <1>5 DEF Match, is_segment_boundary
  <2>2. Cut(p, n - 1) = L /\ Rank(Bars(p), L) = n - 1
    BY <1>1, <1>5, LastSegment, CutAt
  <2>3. Covers(p, u) <=> n < Cardinality(Bars(u)) /\ Cut(u, n - 1) = L /\ AlikeTo(p, u, L)
    BY <1>5, <2>2, CoversIs
  <2> HIDE DEF n, N, L
  <2>4. ASSUME n < Cardinality(Bars(u)), Cut(u, n - 1) = L, AlikeTo(p, u, L)
        PROVE  L <= Len(u) /\ AlikeTo(p, u, L + 1)
    <3>1. L \in Bars(u) /\ Cut(u, n - 1) < Cut(u, N)
      <4>1. n - 1 \in 0..N /\ N \in 0..N /\ n - 1 < N /\ n - 1 < Cardinality(Bars(u))
        BY <1>1, <2>4
      <4>2. QED
        BY <1>1, <2>4, <4>1, CutAt, CutOrder DEF N
    <3>2. L <= Len(u) /\ L \in 1..Len(u)
      BY <1>1, <1>2, <2>4, <3>1
    <3>3. u[L] = Slash
      BY <3>1, <3>2, BarsType
    <3>4. \A k \in 1..L : p[k] = u[k]
      <4>1. \A k \in 1..L : k = L \/ k \in 1..(L - 1)
        BY <1>1
      <4>2. QED
        BY <1>5, <2>4, <3>3, <4>1 DEF AlikeTo
    <3>5. (L + 1) - 1 = L /\ L + 1 <= Len(p) + 1 /\ L + 1 <= Len(u) + 1
      BY <1>1, <3>2 DEF L
    <3>6. QED
      BY <3>2, <3>4, <3>5 DEF AlikeTo
  <2>5. ASSUME L <= Len(u), AlikeTo(p, u, L + 1)
        PROVE  n < Cardinality(Bars(u)) /\ Cut(u, n - 1) = L /\ AlikeTo(p, u, L)
    <3>1. L \in Nat /\ L + 1 \in Nat /\ L < L + 1 /\ L <= L + 1 /\ L \in 1..Len(p)
      BY <1>1 DEF L
    <3>2. L \in Bars(u) /\ Rank(Bars(u), L) = n - 1
      <4>1. L \in Bars(p)
        BY <1>5, <3>1, BarsType
      <4>2. QED
        BY <2>2, <2>5, <3>1, <4>1, AlikeBars
    <3>3. (n - 1) + 1 <= N
      <4>1. L < Len(u) + 1 /\ Len(u) + 1 \in Nat
        BY <1>1, <2>5
      <4>2. Rank(Bars(u), L) + 1 <= Rank(Bars(u), Len(u) + 1)
        BY <1>3, <3>2, <4>1, RankGrows
      <4>3. QED
        BY <1>2, <3>2, <4>2
    <3>4. n < Cardinality(Bars(u)) /\ n - 1 < Cardinality(Bars(u))
      BY <1>1, <3>3
    <3>5. Cut(u, n - 1) = L
      BY <1>1, <3>2, <3>4, CutAt
    <3>6. AlikeTo(p, u, L)
      <4>1. /\ L <= Len(p) + 1 /\ L <= Len(u) + 1 /\ (L + 1) - 1 = L
            /\ \A k \in 1..(L - 1) : k \in 1..L
        BY <1>1, <2>5 DEF L
      <4>2. QED
        BY <2>5, <4>1 DEF AlikeTo
    <3>7. QED
      BY <3>4, <3>5, <3>6
  <2>6. QED
    BY <2>1, <2>3, <2>4, <2>5
<1>6. CASE p[L] # Slash
  <2>1. Covers(p, u) <=> n < Cardinality(Bars(u)) /\ Cut(u, n) = L + 1 /\ AlikeTo(p, u, L + 1)
    BY <1>2, <1>6, CoversIs
  <2>2. L <= Len(u) => (is_segment_boundary(u, p) <=> L + 1 \in Bars(u))
    <3>1. p # <<Slash>>
      BY <1>6
    <3>2. Len(u) = L => L + 1 \in Bars(u)
      BY <1>3
    <3>3. L <= Len(u) /\ Len(u) # L => L + 1 \in 1..Len(u)
      BY <1>1
    <3>4. L <= Len(u) /\ Len(u) # L => (L + 1 \in Bars(u) <=> u[L + 1] = Slash)
      BY <3>3, BarsType
    <3>5. QED
      BY <1>6, <3>1, <3>2, <3>4 DEF is_segment_boundary
  <2>3. Match(u, p) <=> L <= Len(u) /\ AlikeTo(p, u, L + 1) /\ L + 1 \in Bars(u)
    BY <1>4, <2>2 DEF Match
  <2> HIDE DEF n, N, L
  <2>4. ASSUME n < Cardinality(Bars(u)), Cut(u, n) = L + 1, AlikeTo(p, u, L + 1)
        PROVE  L <= Len(u) /\ L + 1 \in Bars(u)
    <3>1. L <= Len(u)
      BY <1>1, <2>4 DEF AlikeTo
    <3>2. QED
      BY <1>1, <2>4, <3>1, CutAt
  <2>5. ASSUME L <= Len(u), AlikeTo(p, u, L + 1), L + 1 \in Bars(u)
        PROVE  n < Cardinality(Bars(u)) /\ Cut(u, n) = L + 1
    <3>1. L + 1 \in Nat /\ L + 1 <= L + 1
      BY <1>1
    <3>2. Rank(Bars(u), L + 1) = n
      BY <1>2, <2>5, <3>1, AlikeBars
    <3>3. n < Cardinality(Bars(u))
      BY <1>3, <2>5, <3>2, RankBound
    <3>4. QED
      BY <1>1, <2>5, <3>2, <3>3, CutAt
  <2>6. QED
    BY <2>1, <2>3, <2>4, <2>5
<1>7. QED
  BY <1>5, <1>6

\* Of two locations that match, the longer one is the deeper one.
LEMMA LongerIsDeeper ==
    ASSUME NEW p \in Seq(Char), NEW q \in Seq(Char), NEW u \in Seq(Char),
           Match(u, p), Match(u, q), Len(p) <= Len(q)
    PROVE  Len(Segments(p)) <= Len(Segments(q))
<1>1. Len(p) \in Nat /\ Len(q) \in Nat /\ Len(p) + 1 \in Nat /\ Len(q) + 1 \in Nat
      /\ Len(p) + 1 <= Len(q) + 1 /\ (Len(p) + 1) - 1 = Len(p) /\ (Len(q) + 1) - 1 = Len(q)
  BY LenProperties
<1>2. AlikeTo(p, u, Len(p) + 1) /\ AlikeTo(q, u, Len(q) + 1)
  BY PrefixAlike DEF Match
<1>3. AlikeTo(p, q, Len(p) + 1)
  <2>1. \A k \in 1..Len(p) : p[k] = u[k] /\ k \in 1..Len(q)
    BY <1>1, <1>2 DEF AlikeTo
  <2>2. \A k \in 1..Len(q) : q[k] = u[k]
    BY <1>1, <1>2 DEF AlikeTo
  <2>3. Len(p) + 1 <= Len(p) + 1
    BY <1>1
  <2>4. QED
    BY <1>1, <2>1, <2>2, <2>3 DEF AlikeTo
<1>4. Rank(Bars(p), Len(p) + 1) = Rank(Bars(q), Len(p) + 1)
  <2>1. Len(p) + 1 <= Len(p) + 1
    BY <1>1
  <2>2. QED
    BY <1>1, <1>3, <2>1, AlikeBars
<1>5. Rank(Bars(q), Len(p) + 1) <= Rank(Bars(q), Len(q) + 1)
  BY <1>1, BarsType, RankMonotone
<1>6. /\ Len(Segments(p)) = Rank(Bars(p), Len(p) + 1)
      /\ Len(Segments(q)) = Rank(Bars(q), Len(q) + 1)
  BY CutOrder, SegmentAt
<1>7. QED
  BY <1>4, <1>5, <1>6

\* When the loop is done its answer is the deepest location that covers the request.
LEMMA InvDeepest == Inv => DeepestCovers
<1> SUFFICES ASSUME Inv, Done
             PROVE  LET covering == {k \in DOMAIN locations : Covers(locations[k], uri)}
                    IN  IF covering = {} THEN best_loc = NoLocation
                        ELSE best_loc \in covering /\ \A k \in covering : Depth(k) <= Depth(best_loc)
  BY DEF DeepestCovers
<1>1. uri \in Seq(Char) /\ Len(locations) \in Nat /\ DOMAIN locations = 1..Len(locations)
  BY LenProperties DEF Inv, TypeOK
<1>2. ASSUME NEW k \in DOMAIN locations
      PROVE  /\ locations[k] \in Seq(Char) /\ Len(locations[k]) > 0
             /\ Covers(locations[k], uri) <=> Match(uri, locations[k])
  <2>1. locations[k] \in Paths
    BY <1>1, ElementOfSeq DEF Inv, TypeOK
  <2>2. locations[k] \in Seq(Char) /\ Len(locations[k]) > 0
    BY <2>1, RouterAssumption DEF Paths, Strings
  <2>3. QED
    BY <1>1, <2>2, CoversIffMatch
<1>3. /\ best_loc = NoLocation \/ best_loc \in DOMAIN locations
      /\ i - 1 = Len(locations) /\ NoLocation \notin DOMAIN locations
  BY <1>1 DEF Inv, TypeOK, Done, NoLocation
<1>4. /\ best_loc # NoLocation => Match(uri, locations[best_loc])
      /\ \A k \in DOMAIN locations : Match(uri, locations[k]) =>
            best_loc # NoLocation /\ Len(locations[k]) <= Len(locations[best_loc])
  BY <1>1, <1>3 DEF Inv, BestSoFar
<1>5. ASSUME NEW k \in DOMAIN locations, Covers(locations[k], uri)
      PROVE  best_loc # NoLocation /\ Depth(k) <= Depth(best_loc)
  <2>1. Match(uri, locations[k]) /\ best_loc \in DOMAIN locations
        /\ Match(uri, locations[best_loc]) /\ Len(locations[k]) <= Len(locations[best_loc])
    BY <1>2, <1>3, <1>4, <1>5
  <2>2. QED
    BY <1>1, <1>2, <1>4, <1>5, <2>1, LongerIsDeeper DEF Depth
<1>6. best_loc # NoLocation => best_loc \in DOMAIN locations /\ Covers(locations[best_loc], uri)
  BY <1>2, <1>3, <1>4
<1>7. QED
  BY <1>5, <1>6

\* A request is served by the deepest location that covers it, by none only if none
\* does: for every request, every order of the file and every number of locations.
THEOREM DeepestServes == Spec => []DeepestCovers
<1>1. QED
  BY InvDeepest, InitInv, InvStep, PTL DEF Spec
=============================================================================
