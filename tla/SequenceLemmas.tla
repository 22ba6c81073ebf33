--------------------------- MODULE SequenceLemmas ---------------------------
(***************************************************************************)
(* A vector of the code is a sequence; this is what erase() makes of it.   *)
(* And what counting needs: induction over the natural numbers, and the    *)
(* elements of a finite set of numbers in their order. A text is one too,  *)
(* and is made of pieces: where each stands, and what they make again.     *)
(* At last what the operations on strings return, and what they return for *)
(* the beginning of a text.                                                *)
(***************************************************************************)
EXTENDS Strings, SequenceTheorems, FiniteSetTheorems, WellFoundedInduction, TLAPS

\* vector::erase at a valid index: one entry fewer, those behind it move up.
LEMMA RemoveAtProperties ==
    ASSUME NEW S, NEW s \in Seq(S), NEW k \in 1..Len(s)
    PROVE  /\ RemoveAt(s, k) \in Seq(S)
           /\ Len(RemoveAt(s, k)) = Len(s) - 1
           /\ \A j \in 1..(Len(s) - 1) : RemoveAt(s, k)[j] = IF j < k THEN s[j] ELSE s[j + 1]
<1> DEFINE front == SubSeq(s, 1, k - 1)
           back  == SubSeq(s, k + 1, Len(s))
<1>1. front \in Seq(S) /\ Len(front) = k - 1 /\ \A j \in 1..(k - 1) : front[j] = s[j]
  BY SubSeqProperties
<1>2. /\ back \in Seq(S)
      /\ Len(back) = Len(s) - k
      /\ \A j \in 1..(Len(s) - k) : back[j] = s[k + j]
  BY SubSeqProperties
<1>3. RemoveAt(s, k) = front \o back
  BY DEF RemoveAt
<1> HIDE DEF front, back
<1>4. /\ front \o back \in Seq(S)
      /\ Len(front \o back) = Len(front) + Len(back)
      /\ \A j \in 1..(Len(front) + Len(back)) :
            (front \o back)[j] = IF j <= Len(front) THEN front[j] ELSE back[j - Len(front)]
  BY <1>1, <1>2, ConcatProperties
<1>5. Len(front) + Len(back) = Len(s) - 1
  BY <1>1, <1>2, LenProperties
<1>6. ASSUME NEW j \in 1..(Len(s) - 1)
      PROVE  RemoveAt(s, k)[j] = IF j < k THEN s[j] ELSE s[j + 1]
  <2>1. CASE j < k
    BY <2>1, <1>1, <1>3, <1>4, <1>5
  <2>2. CASE ~(j < k)
    <3>1. j - (k - 1) \in 1..(Len(s) - k) /\ k + (j - (k - 1)) = j + 1
      BY <2>2, LenProperties
    <3>2. RemoveAt(s, k)[j] = back[j - (k - 1)]
      BY <2>2, <1>1, <1>3, <1>4, <1>5, LenProperties
    <3>3. QED
      BY <2>2, <3>1, <3>2, <1>2
  <2>3. QED
    BY <2>1, <2>2
<1>7. QED
  BY <1>3, <1>4, <1>5, <1>6

-----------------------------------------------------------------------------
(* Natural numbers: the least of a set, and induction said of a set *)

LEMMA LeastElement ==
    ASSUME NEW S \in SUBSET Nat, S # {}
    PROVE  \E m \in S : \A n \in S : m <= n
<1>1. PICK m \in S : \A n \in S : ~ (<<n, m>> \in OpToRel(<, Nat))
  BY NatLessThanWellFounded, WFMin
<1>2. ASSUME NEW n \in S
      PROVE  ~ (n < m)
  <2>1. n < m => <<n, m>> \in OpToRel(<, Nat)
    BY DEF OpToRel
  <2>2. QED
    BY <1>1, <2>1
<1>3. QED
  BY <1>2

LEMMA GreatestElement ==
    ASSUME NEW n \in Nat, NEW S \in SUBSET (0..n), S # {}
    PROVE  \E m \in S : \A k \in S : m >= k
<1> DEFINE T == {n - k : k \in S}
<1>1. T \in SUBSET Nat /\ T # {}
  OBVIOUS
<1>2. PICK l \in T : \A k \in T : l <= k
  <2> HIDE DEF T
  <2> QED
    BY <1>1, LeastElement
<1>3. PICK m \in S : l = n - m
  BY <1>2
<1>4. ASSUME NEW k \in S PROVE m >= k
  <2>1. n - k \in T /\ k \in Nat /\ m \in Nat
    OBVIOUS
  <2>2. n - m <= n - k
    BY <1>2, <1>3, <2>1
  <2> QED
    BY <2>1, <2>2
<1> QED
  BY <1>4

\* Induction over numbers; a set stands for what is to be proved of each.
LEMMA SetInduction ==
    ASSUME NEW S, 0 \in S, \A n \in Nat : n \in S => n + 1 \in S
    PROVE  Nat \subseteq S
<1> SUFFICES ASSUME Nat \ S # {} PROVE FALSE
  OBVIOUS
<1>1. PICK m \in Nat \ S : \A n \in Nat \ S : m <= n
  BY LeastElement
<1>2. m - 1 \in Nat /\ m - 1 \in S
  BY <1>1
<1>3. QED
  BY <1>1, <1>2

-----------------------------------------------------------------------------
(* Functions that are defined by recursion *)

\* From the value at 0, each from the one before it
DefinedForward(S, n, a, F) ==
    \E f \in [0..n -> S] : f[0] = a /\ \A k \in 1..n : f[k] = F[k][f[k - 1]]

LEMMA ForwardRecursion ==
    ASSUME NEW S, NEW n \in Nat, NEW a \in S, NEW F \in [1..n -> [S -> S]]
    PROVE  DefinedForward(S, n, a, F)
<1> DEFINE Holds(f, m) == \A k \in 0..m : f[k] = IF k = 0 THEN a ELSE F[k][f[k - 1]]
           T == {m \in Nat : m <= n => \E f \in [0..m -> S] : Holds(f, m)}
<1>1. 0 \in T
  <2>1. [k \in 0..0 |-> a] \in [0..0 -> S] /\ Holds([k \in 0..0 |-> a], 0)
    OBVIOUS
  <2> QED
    BY <2>1
<1>2. ASSUME NEW m \in Nat, m \in T
      PROVE  m + 1 \in T
  <2> SUFFICES ASSUME m + 1 <= n
               PROVE  \E f \in [0..(m + 1) -> S] : Holds(f, m + 1)
    OBVIOUS
  <2>1. PICK f \in [0..m -> S] : Holds(f, m)
    BY <1>2
  <2> DEFINE g == [k \in 0..(m + 1) |-> IF k = m + 1 THEN F[m + 1][f[m]] ELSE f[k]]
  <2>2. m + 1 \in 1..n /\ f[m] \in S
    BY <2>1
  <2>3. F[m + 1][f[m]] \in S
    BY <2>2
  <2>4. g \in [0..(m + 1) -> S]
    BY <2>3
  <2>5. \A k \in 0..m : g[k] = f[k] /\ (k # 0 => g[k - 1] = f[k - 1])
    OBVIOUS
  <2>6. g[m + 1] = F[m + 1][g[m]]
    OBVIOUS
  <2>7. Holds(g, m + 1)
    <3> SUFFICES ASSUME NEW k \in 0..(m + 1)
                 PROVE  g[k] = IF k = 0 THEN a ELSE F[k][g[k - 1]]
      OBVIOUS
    <3>1. CASE k = m + 1
      BY <2>6, <3>1
    <3>2. CASE k \in 0..m
      BY <2>1, <2>5, <3>2
    <3> QED
      BY <3>1, <3>2
  <2> QED
    BY <2>4, <2>7
<1>3. Nat \subseteq T
  <2> HIDE DEF T
  <2> QED
    BY <1>1, <1>2, SetInduction
<1>4. PICK f \in [0..n -> S] : Holds(f, n)
  BY <1>3
<1>5. f[0] = a /\ \A k \in 1..n : f[k] = F[k][f[k - 1]]
  BY <1>4
<1> QED
  BY <1>5 DEF DefinedForward

\* What holds of the first value and is kept from each to the next holds of all.
LEMMA ForwardType ==
    ASSUME NEW S, NEW n \in Nat, NEW g, g[0] \in S,
           \A k \in 1..n : g[k - 1] \in S => g[k] \in S
    PROVE  \A k \in 0..n : g[k] \in S
<1> DEFINE U == {k \in Nat : k <= n => g[k] \in S}
<1>1. 0 \in U
  OBVIOUS
<1>2. ASSUME NEW k \in Nat, k \in U PROVE k + 1 \in U
  <2>1. k + 1 <= n => k + 1 \in 1..n /\ (k + 1) - 1 = k
    OBVIOUS
  <2> QED
    BY <1>2, <2>1
<1>3. Nat \subseteq U
  <2> HIDE DEF U
  <2> QED
    BY <1>1, <1>2, SetInduction
<1> QED
  BY <1>3

\* Given at the places in E, and anywhere else from the one at a place behind
DefinedBackward(S, n, E, a, next, F) ==
    \E f \in [0..n -> S] :
       \A k \in 0..n : f[k] = IF k \in E THEN a[k] ELSE F[k][f[next[k]]]

LEMMA BackwardRecursion ==
    ASSUME NEW S, NEW n \in Nat, NEW E \in SUBSET (0..n), NEW a \in [0..n -> S],
           NEW next, \A k \in (0..n) \ E : next[k] \in (k + 1)..n,
           NEW F \in [0..n -> [S -> S]]
    PROVE  DefinedBackward(S, n, E, a, next, F)
<1> DEFINE Holds(f, m) == \A k \in (n - m)..n : f[k] = IF k \in E THEN a[k] ELSE F[k][f[next[k]]]
           T == {m \in Nat : m <= n => \E f \in [(n - m)..n -> S] : Holds(f, m)}
           Step(f, k) == IF k \in E THEN a[k] ELSE F[k][f[next[k]]]
<1>0. ASSUME NEW k \in 0..n, NEW f, \A j \in (k + 1)..n : f[j] \in S
      PROVE  Step(f, k) \in S
  <2>1. CASE k \in E
    BY <2>1
  <2>2. CASE k \notin E
    <3>1. f[next[k]] \in S
      BY <1>0, <2>2
    <3> QED
      BY <2>2, <3>1
  <2> QED
    BY <2>1, <2>2
<1>1. 0 \in T
  <2> DEFINE f == [k \in n..n |-> a[k]]
  <2>1. n \in E
    <3>1. n \notin E => next[n] \in (n + 1)..n
      OBVIOUS
    <3> QED
      BY <3>1
  <2>2. n - 0 = n /\ \A k \in n..n : k = n
    OBVIOUS
  <2>3. f \in [(n - 0)..n -> S] /\ Holds(f, 0)
    BY <2>1, <2>2
  <2> QED
    BY <2>3
<1>2. ASSUME NEW m \in Nat, m \in T
      PROVE  m + 1 \in T
  <2> SUFFICES ASSUME m + 1 <= n
               PROVE  \E f \in [(n - (m + 1))..n -> S] : Holds(f, m + 1)
    OBVIOUS
  <2>1. PICK f \in [(n - m)..n -> S] : Holds(f, m)
    BY <1>2
  <2> DEFINE j == n - (m + 1)
             g == [k \in j..n |-> IF k = j THEN Step(f, j) ELSE f[k]]
  <2>2. j \in 0..n /\ j + 1 = n - m
    OBVIOUS
  <2>3. Step(f, j) \in S
    BY <1>0, <2>1, <2>2
  <2>4. g \in [j..n -> S]
    <3>1. \A k \in j..n : k # j => k \in (n - m)..n
      BY <2>2
    <3> HIDE DEF Step, j
    <3> QED
      BY <2>1, <2>3, <3>1
  <2>5. \A k \in (n - m)..n : g[k] = f[k]
    BY <2>2
  <2>6. g[j] = Step(f, j)
    BY <2>2
  <2>7. Holds(g, m + 1)
    <3> SUFFICES ASSUME NEW k \in j..n
                 PROVE  g[k] = IF k \in E THEN a[k] ELSE F[k][g[next[k]]]
      OBVIOUS
    <3>1. k \notin E => next[k] \in (k + 1)..n
      BY <2>2
    <3>2. k \notin E => g[next[k]] = f[next[k]]
      BY <2>2, <2>5, <3>1
    <3>3. CASE k = j
      BY <2>6, <3>2, <3>3
    <3>4. CASE k # j
      <4>1. k \in (n - m)..n
        BY <2>2, <3>4
      <4> QED
        BY <2>1, <2>5, <3>2, <4>1
    <3> QED
      BY <3>3, <3>4
  <2> QED
    BY <2>4, <2>7
<1>3. Nat \subseteq T
  <2> HIDE DEF T
  <2> QED
    BY <1>1, <1>2, SetInduction
<1>4. PICK f \in [0..n -> S] : Holds(f, n)
  <2>1. n \in T
    BY <1>3
  <2>2. \E f \in [(n - n)..n -> S] : Holds(f, n)
    BY <2>1
  <2>3. n - n = 0
    OBVIOUS
  <2> QED
    BY <2>2, <2>3
<1>5. \A k \in 0..n : f[k] = IF k \in E THEN a[k] ELSE F[k][f[next[k]]]
  <2>1. n - n = 0
    OBVIOUS
  <2> QED
    BY <1>4, <2>1
<1> QED
  BY <1>5 DEF DefinedBackward

\* What holds of a value if it holds of those behind it holds of all.
LEMMA BackwardType ==
    ASSUME NEW S, NEW n \in Nat, NEW g,
           \A k \in 0..n : (\A j \in (k + 1)..n : g[j] \in S) => g[k] \in S
    PROVE  \A k \in 0..n : g[k] \in S
<1> DEFINE U == {m \in Nat : m <= n => \A k \in (n - m)..n : g[k] \in S}
<1>1. 0 \in U
  <2>1. (\A j \in (n + 1)..n : g[j] \in S) /\ n \in 0..n
    OBVIOUS
  <2>2. g[n] \in S
    BY <2>1
  <2> QED
    BY <2>2
<1>2. ASSUME NEW m \in Nat, m \in U PROVE m + 1 \in U
  <2> SUFFICES ASSUME m + 1 <= n, NEW k \in (n - (m + 1))..n PROVE g[k] \in S
    OBVIOUS
  <2>1. \A i \in (n - m)..n : g[i] \in S
    BY <1>2
  <2>2. CASE k \in (n - m)..n
    BY <2>1, <2>2
  <2>3. CASE k = n - (m + 1)
    <3>1. k \in 0..n /\ \A j \in (k + 1)..n : g[j] \in S
      BY <2>1, <2>3
    <3> QED
      BY <3>1
  <2> QED
    BY <2>2, <2>3
<1>3. Nat \subseteq U
  <2> HIDE DEF U
  <2> QED
    BY <1>1, <1>2, SetInduction
<1> SUFFICES ASSUME NEW k \in 0..n PROVE g[k] \in S
  OBVIOUS
<1>4. n - k \in U /\ n - k <= n
  BY <1>3
<1>5. \A i \in (n - (n - k))..n : g[i] \in S
  BY <1>4
<1> QED
  BY <1>5

-----------------------------------------------------------------------------
(* The elements of a finite set of numbers, counted from the least *)

Below(S, k) == {m \in S : m < k}
Rank(S, k)  == Cardinality(Below(S, k))

LEMMA RankType ==
    ASSUME NEW S \in SUBSET Nat, IsFiniteSet(S), NEW k
    PROVE  IsFiniteSet(Below(S, k)) /\ Rank(S, k) \in 0..Cardinality(S) /\ Cardinality(S) \in Nat
<1>1. Below(S, k) \in SUBSET S
  BY DEF Below
<1>2. QED
  BY <1>1, FS_Subset, FS_CardinalityType DEF Rank

LEMMA BelowIt ==
    ASSUME NEW S \in SUBSET Nat, NEW k \in S, NEW l \in Nat, k < l
    PROVE  /\ Below(S, k) \cup {k} \subseteq Below(S, l)
           /\ k \notin Below(S, k)
<1>1. \A m \in S : m \in Nat
  OBVIOUS
<1>2. k \notin Below(S, k)
  <2>1. ~(k < k)
    BY <1>1
  <2>2. QED
    BY <2>1 DEF Below
<1>3. \A m \in S : m < k => m < l
  BY <1>1
<1>4. QED
  BY <1>2, <1>3 DEF Below

\* Behind an element more are counted.
LEMMA RankGrows ==
    ASSUME NEW S \in SUBSET Nat, IsFiniteSet(S), NEW k \in S, NEW l \in Nat, k < l
    PROVE  Rank(S, k) + 1 <= Rank(S, l)
<1>1. /\ Below(S, k) \cup {k} \in SUBSET Below(S, l)
      /\ k \notin Below(S, k)
  BY BelowIt
<1>2. /\ IsFiniteSet(Below(S, k)) /\ IsFiniteSet(Below(S, l))
      /\ Rank(S, k) \in Nat /\ Rank(S, l) \in Nat
  BY RankType
<1>3. Cardinality(Below(S, k) \cup {k}) = Rank(S, k) + 1
  BY <1>1, <1>2, FS_AddElement DEF Rank
<1>4. Cardinality(Below(S, k) \cup {k}) <= Rank(S, l)
  BY <1>1, <1>2, FS_Subset DEF Rank
<1>5. QED
  BY <1>2, <1>3, <1>4

\* Further on no fewer are counted.
LEMMA RankMonotone ==
    ASSUME NEW S \in SUBSET Nat, IsFiniteSet(S), NEW k \in Nat, NEW l \in Nat, k <= l
    PROVE  Rank(S, k) <= Rank(S, l)
<1>1. \A m \in S : m < k => m < l
  <2>1. \A m \in S : m \in Nat
    OBVIOUS
  <2>2. QED
    BY <2>1
<1>2. Below(S, k) \in SUBSET Below(S, l)
  BY <1>1 DEF Below
<1>3. QED
  BY <1>2, RankType, FS_Subset DEF Rank

\* An element is not counted as one before itself.
LEMMA RankBound ==
    ASSUME NEW S \in SUBSET Nat, IsFiniteSet(S), NEW k \in S
    PROVE  Rank(S, k) < Cardinality(S)
<1>1. Below(S, k) \cup {k} \in SUBSET S /\ k \notin Below(S, k)
  BY BelowIt, k < k + 1 DEF Below
<1>2. Cardinality(Below(S, k) \cup {k}) = Rank(S, k) + 1
  BY <1>1, RankType, FS_AddElement DEF Rank
<1>3. Cardinality(Below(S, k) \cup {k}) <= Cardinality(S)
  BY <1>1, FS_Subset
<1>4. QED
  BY <1>2, <1>3, RankType

\* The next element is one further.
LEMMA RankNext ==
    ASSUME NEW S \in SUBSET Nat, IsFiniteSet(S), NEW k \in S, NEW l \in S, k < l,
           \A m \in S : ~(k < m /\ m < l)
    PROVE  Rank(S, l) = Rank(S, k) + 1
<1>1. /\ Below(S, k) \cup {k} \subseteq Below(S, l)
      /\ k \notin Below(S, k)
  BY BelowIt
<1>2. Below(S, l) \subseteq Below(S, k) \cup {k}
  <2> SUFFICES ASSUME NEW m \in S, m < l PROVE m < k \/ m = k
    BY DEF Below
  <2>1. m \in Nat /\ k \in Nat /\ ~(k < m /\ m < l)
    OBVIOUS
  <2>2. QED
    BY <2>1
<1>3. Below(S, l) = Below(S, k) \cup {k}
  BY <1>1, <1>2
<1>4. QED
  BY <1>1, <1>3, RankType, FS_AddElement DEF Rank

\* There is one element of every rank.
LEMMA OneOfEachRank ==
    ASSUME NEW S \in SUBSET Nat, IsFiniteSet(S), NEW j \in Nat, j < Cardinality(S)
    PROVE  \E k \in S : /\ Rank(S, k) = j
                       /\ \A l \in S : Rank(S, l) = j => l = k
<1> DEFINE n == Cardinality(S)
           T == {r \in Nat : r < n => \E k \in S : Rank(S, k) = r}
<1>0. n \in Nat /\ \A m \in S : m \in Nat
  BY FS_CardinalityType
<1>1. 0 \in T
  <2> SUFFICES ASSUME 0 < n PROVE \E k \in S : Rank(S, k) = 0
    OBVIOUS
  <2>1. S # {}
    BY FS_EmptySet
  <2>2. PICK k \in S : \A l \in S : k <= l
    BY <2>1, LeastElement
  <2>3. Below(S, k) = {}
    <3>1. \A l \in S : ~(l < k)
      BY <1>0, <2>2
    <3>2. QED
      BY <3>1 DEF Below
  <2>4. QED
    BY <2>3, FS_EmptySet DEF Rank
<1>2. ASSUME NEW r \in Nat, r \in T
      PROVE  r + 1 \in T
  <2> SUFFICES ASSUME r + 1 < n PROVE \E k \in S : Rank(S, k) = r + 1
    OBVIOUS
  <2>1. PICK k \in S : Rank(S, k) = r
    BY <1>0, <1>2
  <2>2. k \notin Below(S, k) /\ Cardinality(Below(S, k) \cup {k}) = r + 1
        /\ Below(S, k) \cup {k} \subseteq S
    <3>1. k \notin Below(S, k) /\ Below(S, k) \cup {k} \subseteq S
      BY <1>0, BelowIt, k < k + 1 DEF Below
    <3>2. QED
      BY <2>1, <3>1, RankType, FS_AddElement DEF Rank
  <2>3. Below(S, k) \cup {k} # S
    BY <1>0, <2>2
  <2>4. {l \in S : k < l} # {}
    <3>1. PICK l \in S : ~(l < k) /\ l # k
      BY <2>2, <2>3 DEF Below
    <3>2. k < l
      BY <1>0, <3>1
    <3>3. QED
      BY <3>1, <3>2
  <2>5. PICK l \in {x \in S : k < x} : \A m \in {x \in S : k < x} : l <= m
    BY <2>4, LeastElement
  <2>6. l \in S /\ k < l /\ \A m \in S : ~(k < m /\ m < l)
    BY <2>5
  <2>7. QED
    BY <2>1, <2>6, RankNext
<1> HIDE DEF T
<1>3. Nat \subseteq T
  BY <1>1, <1>2, SetInduction
<1>4. PICK k \in S : Rank(S, k) = j
  BY <1>3 DEF T
<1>5. ASSUME NEW l \in S, Rank(S, l) = j
      PROVE  l = k
  <2>1. l < k \/ k < l \/ l = k
    OBVIOUS
  <2>2. QED
    BY <1>4, <1>5, <2>1, RankGrows
<1>6. QED
  BY <1>4, <1>5

-----------------------------------------------------------------------------

(* Texts that are made of pieces *)

\* The word w is in the text d, behind its first k characters.
Stands(d, k, w) == k + Len(w) <= Len(d) /\ \A i \in 1..Len(w) : d[k + i] = w[i]

LEMMA StandsParts ==
    ASSUME NEW S, NEW d \in Seq(S), NEW k \in Nat, NEW a \in Seq(S), NEW b \in Seq(S),
           Stands(d, k, a \o b)
    PROVE  Stands(d, k, a) /\ Stands(d, k + Len(a), b)
<1> DEFINE ab == a \o b
           la == Len(a)
           lb == Len(b)
<1>1. /\ Len(ab) = la + lb /\ la \in Nat /\ lb \in Nat
      /\ \A i \in 1..(la + lb) : ab[i] = IF i <= la THEN a[i] ELSE b[i - la]
  BY ConcatProperties
<1>2. k + Len(ab) <= Len(d) /\ \A i \in 1..Len(ab) : d[k + i] = ab[i]
  BY DEF Stands
<1>3. Len(d) \in Nat
  OBVIOUS
<1> HIDE DEF ab, la, lb
<1>4. \A i \in 1..la : d[k + i] = a[i]
  BY <1>1, <1>2
<1>5. ASSUME NEW i \in 1..lb PROVE d[(k + la) + i] = b[i]
  <2> DEFINE n == la + i
  <2>1. n \in 1..(la + lb) /\ ~(n <= la) /\ n - la = i /\ k + n = (k + la) + i
    BY <1>1
  <2> HIDE DEF n
  <2>2. ab[n] = b[i] /\ d[k + n] = ab[n]
    BY <1>1, <1>2, <2>1
  <2> QED
    BY <2>1, <2>2
<1>6. k + la <= Len(d) /\ (k + la) + lb <= Len(d)
  BY <1>1, <1>2, <1>3
<1> QED
  BY <1>4, <1>5, <1>6 DEF Stands, la, lb

LEMMA StandsFirst ==
    ASSUME NEW S, NEW w \in Seq(S), NEW c \in Seq(S)
    PROVE  Stands(w \o c, 0, w)
<1> DEFINE d == w \o c
<1>1. d \in Seq(S) /\ Len(d) \in Nat /\ Stands(d, 0, w \o c)
  <2>1. d \in Seq(S) /\ Len(d) \in Nat
    BY ConcatProperties
  <2>2. 0 + Len(d) <= Len(d) /\ \A i \in 1..Len(d) : d[0 + i] = d[i]
    BY <2>1
  <2> QED
    BY <2>1, <2>2 DEF Stands
<1> HIDE DEF d
<1>2. Stands(d, 0, w)
  BY <1>1, StandsParts
<1> QED
  BY <1>2 DEF d

LEMMA PieceStands ==
    ASSUME NEW S, NEW d \in Seq(S), NEW a \in Seq(S), NEW b \in Seq(S), Stands(d, 0, a \o b)
    PROVE  Stands(d, 0, a) /\ Stands(d, Len(a), b) /\ Len(a \o b) = Len(a) + Len(b)
<1>1. 0 \in Nat /\ Len(a) \in Nat /\ 0 + Len(a) = Len(a)
  OBVIOUS
<1>2. Stands(d, 0, a) /\ Stands(d, 0 + Len(a), b)
  BY <1>1, StandsParts
<1> QED
  BY <1>1, <1>2, ConcatProperties

LEMMA NotInEither ==
    ASSUME NEW S, NEW a \in Seq(S), NEW b \in Seq(S), NEW c, c \notin ToSet(a), c \notin ToSet(b)
    PROVE  c \notin ToSet(a \o b)
<1> DEFINE s == a \o b
<1>1. /\ s \in Seq(S) /\ Len(s) = Len(a) + Len(b)
      /\ \A i \in 1..Len(a) : s[i] = a[i]
      /\ \A i \in 1..Len(b) : s[Len(a) + i] = b[i]
  BY ConcatProperties
<1>2. Len(a) \in Nat /\ Len(b) \in Nat
  OBVIOUS
<1> HIDE DEF s
<1>3. (\A i \in 1..Len(a) : a[i] # c) /\ (\A i \in 1..Len(b) : b[i] # c)
  BY DEF ToSet
<1>4. ASSUME NEW i \in 1..Len(s) PROVE s[i] # c
  <2>1. CASE i <= Len(a)
    <3>1. i \in 1..Len(a)
      BY <1>2, <2>1
    <3> QED
      BY <1>1, <1>3, <3>1
  <2>2. CASE ~(i <= Len(a))
    <3>1. i - Len(a) \in 1..Len(b) /\ Len(a) + (i - Len(a)) = i
      BY <1>1, <1>2, <2>2
    <3>2. s[Len(a) + (i - Len(a))] = b[i - Len(a)]
      BY <1>1, <3>1
    <3> QED
      BY <1>3, <3>1, <3>2
  <2> QED
    BY <2>1, <2>2
<1>5. DOMAIN s = 1..Len(s)
  BY <1>1
<1>6. c \notin ToSet(s)
  BY <1>4, <1>5 DEF ToSet
<1> QED
  BY <1>6 DEF s

LEMMA StandsLonger ==
    ASSUME NEW S, NEW d \in Seq(S), NEW c \in Seq(S), NEW k \in Nat, NEW w \in Seq(S), Stands(d, k, w)
    PROVE  Stands(d \o c, k, w)
<1> DEFINE e == d \o c
<1>1. /\ Len(e) = Len(d) + Len(c) /\ Len(c) \in Nat /\ Len(d) \in Nat
      /\ \A i \in 1..Len(d) : e[i] = d[i]
  BY ConcatProperties
<1>2. Len(w) \in Nat /\ k + Len(w) <= Len(d) /\ \A i \in 1..Len(w) : d[k + i] = w[i]
  BY DEF Stands
<1> HIDE DEF e
<1>3. k + Len(w) <= Len(e)
  BY <1>1, <1>2
<1>4. \A i \in 1..Len(w) : e[k + i] = w[i]
  <2> SUFFICES ASSUME NEW i \in 1..Len(w) PROVE e[k + i] = w[i]
    OBVIOUS
  <2>1. k + i \in 1..Len(d)
    BY <1>1, <1>2
  <2> QED
    BY <1>1, <1>2, <2>1
<1> QED
  BY <1>3, <1>4 DEF Stands, e

LEMMA StandsBehind ==
    ASSUME NEW S, NEW d \in Seq(S), NEW c \in Seq(S)
    PROVE  Stands(d \o c, Len(d), c)
<1> DEFINE e == d \o c
           n == Len(d)
<1>1. /\ Len(e) = n + Len(c) /\ Len(c) \in Nat /\ n \in Nat
      /\ \A i \in 1..(n + Len(c)) : e[i] = IF i <= n THEN d[i] ELSE c[i - n]
  BY ConcatProperties
<1> HIDE DEF e, n
<1>2. \A i \in 1..Len(c) : e[n + i] = c[i]
  <2> SUFFICES ASSUME NEW i \in 1..Len(c) PROVE e[n + i] = c[i]
    OBVIOUS
  <2> DEFINE j == n + i
  <2>1. j \in 1..(n + Len(c)) /\ ~(j <= n) /\ j - n = i
    BY <1>1
  <2> HIDE DEF j
  <2>2. e[j] = c[i]
    BY <1>1, <2>1
  <2> QED
    BY <2>2 DEF j
<1>3. n + Len(c) <= Len(e)
  BY <1>1
<1> QED
  BY <1>2, <1>3 DEF Stands, e, n

\* One behind the other, each from where the one before ends
JoinedAt(text, pieces, at) ==
    /\ at[0] = 0 /\ at[Len(pieces)] = Len(text)
    /\ \A k \in 1..Len(pieces) :
          at[k] = at[k - 1] + Len(pieces[k]) /\ Stands(text, at[k - 1], pieces[k])

LEMMA Flattened ==
    ASSUME NEW S, NEW pieces \in Seq(Seq(S))
    PROVE  /\ FlattenSeq(pieces) \in Seq(S)
           /\ \E at \in [0..Len(pieces) -> Nat] : JoinedAt(FlattenSeq(pieces), pieces, at)
<1> DEFINE n == Len(pieces)
           T == Seq(S)
           Is(g) == g = [i \in 1..n |-> IF i = 1 THEN pieces[i] ELSE g[i - 1] \o pieces[i]]
           flatten == CHOOSE g : Is(g)
           F == [k \in 1..n |-> [x \in T |-> x \o pieces[k]]]
           z == 0
<1>1. n \in Nat /\ z \in Nat /\ \A k \in 1..n : pieces[k] \in T
  OBVIOUS
<1>2. <<>> \in T /\ \A x \in T : <<>> \o x = x
  OBVIOUS
<1>3. \E g : Is(g)
  <2>1. F \in [1..n -> [T -> T]]
    <3>1. \A k \in 1..n : \A x \in T : x \o pieces[k] \in T
      BY <1>1, ConcatProperties
    <3> HIDE DEF T, n
    <3> QED
      BY <3>1
  <2>2. DefinedForward(T, n, <<>>, F)
    <3> HIDE DEF F, n, T
    <3> QED
      BY <1>1, <1>2, <2>1, ForwardRecursion
  <2>3. PICK f \in [0..n -> T] : f[0] = <<>> /\ \A k \in 1..n : f[k] = F[k][f[k - 1]]
    BY <2>2 DEF DefinedForward
  <2>4. \A k \in 1..n : f[k] = f[k - 1] \o pieces[k]
    <3> SUFFICES ASSUME NEW k \in 1..n PROVE f[k] = f[k - 1] \o pieces[k]
      OBVIOUS
    <3>1. k - 1 \in 0..n
      BY <1>1
    <3>2. f[k - 1] \in T
      BY <2>3, <3>1
    <3>3. F[k][f[k - 1]] = f[k - 1] \o pieces[k]
      <4> HIDE DEF T, n
      <4> QED
        BY <3>2
    <3> QED
      BY <2>3, <3>3
  <2> DEFINE g == [i \in 1..n |-> f[i]]
  <2>5. \A i \in 1..n : g[i] = IF i = 1 THEN pieces[i] ELSE g[i - 1] \o pieces[i]
    <3> SUFFICES ASSUME NEW i \in 1..n PROVE g[i] = IF i = 1 THEN pieces[i] ELSE g[i - 1] \o pieces[i]
      OBVIOUS
    <3>1. CASE i = 1
      <4>1. f[i] = f[i - 1] \o pieces[i]
        BY <2>4
      <4>2. f[i - 1] = <<>>
        BY <2>3, <3>1
      <4>3. pieces[i] \in T
        BY <1>1
      <4>4. f[i] = pieces[i]
        BY <1>2, <4>1, <4>2, <4>3
      <4> QED
        BY <3>1, <4>4
    <3>2. CASE i # 1
      <4>1. i - 1 \in 1..n
        BY <1>1, <3>2
      <4>2. g[i - 1] = f[i - 1]
        BY <4>1
      <4> QED
        BY <2>4, <3>2, <4>2
    <3> QED
      BY <3>1, <3>2
  <2>6. Is(g)
    <3>1. g = [i \in 1..n |-> g[i]]
      OBVIOUS
    <3> HIDE DEF g, n
    <3> QED
      BY <2>5, <3>1
  <2> QED
    BY <2>6
<1>4. Is(flatten)
  <2> HIDE DEF Is
  <2> QED
    BY <1>3
<1>5. FlattenSeq(pieces) = IF n = 0 THEN pieces ELSE flatten[n]
  BY DEF FlattenSeq
<1> HIDE DEF flatten
<1>6. \A i \in 1..n : flatten[i] = IF i = 1 THEN pieces[i] ELSE flatten[i - 1] \o pieces[i]
  BY <1>4
<1> DEFINE h == [k \in 0..n |-> IF k = 0 THEN <<>> ELSE flatten[k]]
<1>7. h[0] = <<>> /\ \A k \in 1..n : h[k] = h[k - 1] \o pieces[k]
  <2>1. h[0] = <<>>
    BY <1>1
  <2>2. ASSUME NEW k \in 1..n PROVE h[k] = h[k - 1] \o pieces[k]
    <3>1. k \in 0..n /\ k - 1 \in 0..n /\ k # 0
      BY <1>1
    <3>2. h[k] = flatten[k]
      BY <3>1
    <3>3. CASE k = 1
      <4>1. h[k - 1] = <<>>
        BY <3>1, <3>3
      <4> QED
        BY <1>1, <1>2, <1>6, <3>2, <3>3, <4>1
    <3>4. CASE k # 1
      <4>1. h[k - 1] = flatten[k - 1]
        BY <3>1, <3>4
      <4> QED
        BY <1>6, <3>2, <3>4, <4>1
    <3> QED
      BY <3>3, <3>4
  <2> QED
    BY <2>1, <2>2
<1>8. FlattenSeq(pieces) = h[n]
  <2>1. CASE n = 0
    <3>1. pieces = <<>>
      BY <2>1
    <3> QED
      BY <1>5, <2>1, <3>1
  <2>2. CASE n # 0
    BY <1>1, <1>5, <2>2
  <2> QED
    BY <2>1, <2>2
<1> HIDE DEF h
<1>9. \A k \in 0..n : h[k] \in T
  <2>1. h[0] \in T
    BY <1>2, <1>7
  <2>2. \A k \in 1..n : h[k - 1] \in T => h[k] \in T
    BY <1>1, <1>7, ConcatProperties
  <2> HIDE DEF T, n
  <2> QED
    BY <1>1, <2>1, <2>2, ForwardType
<1> DEFINE at == [k \in 0..n |-> Len(h[k])]
<1>10. at \in [0..n -> Nat] /\ at[0] = 0 /\ at[n] = Len(h[n])
  <2>1. \A k \in 0..n : Len(h[k]) \in Nat
    BY <1>9
  <2> QED
    BY <1>1, <1>7, <2>1
<1>11. \A k \in 1..n : at[k] = at[k - 1] + Len(pieces[k])
  <2> SUFFICES ASSUME NEW k \in 1..n PROVE at[k] = at[k - 1] + Len(pieces[k])
    OBVIOUS
  <2>1. k \in 0..n /\ k - 1 \in 0..n
    BY <1>1
  <2>2. at[k] = Len(h[k]) /\ at[k - 1] = Len(h[k - 1])
    BY <2>1
  <2>3. Len(h[k - 1] \o pieces[k]) = Len(h[k - 1]) + Len(pieces[k])
    BY <1>1, <1>9, <2>1, ConcatProperties
  <2> QED
    BY <1>7, <2>2, <2>3
<1>12. \A k \in 0..n : at[k] = Len(h[k]) /\ at[k] \in Nat
  BY <1>10
<1> HIDE DEF at
<1> DEFINE U == {m \in Nat : m <= n => \A k \in 1..m : Stands(h[m], at[k - 1], pieces[k])}
<1>13. 0 \in U
  OBVIOUS
<1>14. ASSUME NEW m \in Nat, m \in U PROVE m + 1 \in U
  <2> SUFFICES ASSUME m + 1 <= n, NEW k \in 1..(m + 1)
               PROVE  Stands(h[m + 1], at[k - 1], pieces[k])
    OBVIOUS
  <2>1. m \in 0..n /\ m + 1 \in 1..n /\ (m + 1) - 1 = m /\ k - 1 \in 0..n /\ k \in 1..n
    BY <1>1
  <2>2. h[m + 1] = h[m] \o pieces[m + 1] /\ h[m] \in T /\ pieces[m + 1] \in T /\ pieces[k] \in T
    BY <1>1, <1>7, <1>9, <2>1
  <2>3. at[k - 1] \in Nat
    BY <1>12, <2>1
  <2>4. CASE k \in 1..m
    <3>1. Stands(h[m], at[k - 1], pieces[k])
      BY <1>14, <2>4
    <3> QED
      BY <2>2, <2>3, <3>1, StandsLonger
  <2>5. CASE k = m + 1
    <3>1. at[k - 1] = Len(h[m])
      BY <1>12, <2>1, <2>5
    <3>2. Stands(h[m] \o pieces[m + 1], Len(h[m]), pieces[m + 1])
      BY <2>2, StandsBehind
    <3> QED
      BY <2>2, <2>5, <3>1, <3>2
  <2> QED
    BY <2>4, <2>5
<1>15. Nat \subseteq U
  <2> HIDE DEF U
  <2> QED
    BY <1>13, <1>14, SetInduction
<1>16. \A k \in 1..n : Stands(h[n], at[k - 1], pieces[k])
  <2> HIDE DEF n
  <2>1. n \in U
    BY <1>1, <1>15
  <2>2. n <= n
    BY <1>1
  <2> QED
    BY <2>1, <2>2
<1>17. h[n] \in T
  BY <1>1, <1>9
<1>18. JoinedAt(h[n], pieces, at)
  BY <1>10, <1>11, <1>16 DEF JoinedAt
<1> QED
  BY <1>8, <1>10, <1>17, <1>18

LEMMA MaxOf ==
    ASSUME NEW n \in Nat, NEW P \in SUBSET (1..n), P # {}
    PROVE  Max(P) \in P /\ \A k \in P : k <= Max(P)
<1>1. P \in SUBSET (0..n)
  OBVIOUS
<1>2. \E m \in P : \A k \in P : m >= k
  BY <1>1, GreatestElement
<1>3. Max(P) \in P /\ \A k \in P : Max(P) >= k
  BY <1>2 DEF Max
<1> QED
  BY <1>3

LEMMA MinOf ==
    ASSUME NEW P \in SUBSET Nat, P # {}
    PROVE  Min(P) \in P /\ \A k \in P : Min(P) <= k
<1>1. \E m \in P : \A k \in P : m <= k
  BY LeastElement
<1> QED
  BY <1>1 DEF Min

LEMMA TwoAreOne == \A x, y : <<x, y>> = <<x>> \o <<y>>
<1> SUFFICES ASSUME NEW x, NEW y PROVE <<x, y>> = <<x>> \o <<y>>
  OBVIOUS
<1> DEFINE T == {x, y}
           a == <<x>>
           b == <<y>>
           c == <<x, y>>
<1>1. a \in Seq(T) /\ b \in Seq(T) /\ Len(a) = 1 /\ Len(b) = 1 /\ a[1] = x /\ b[1] = y
  OBVIOUS
<1>2. c \in Seq(T) /\ Len(c) = 2 /\ c[1] = x /\ c[2] = y
  OBVIOUS
<1> HIDE DEF T, a, b, c
<1>3. /\ a \o b \in Seq(T) /\ Len(a \o b) = 2
      /\ \A i \in 1..2 : (a \o b)[i] = IF i <= 1 THEN a[i] ELSE b[i - 1]
  BY <1>1, ConcatProperties
<1>4. \A i \in 1..2 : c[i] = (a \o b)[i]
  <2>1. (a \o b)[1] = x /\ (a \o b)[2] = y
    BY <1>1, <1>3
  <2>2. \A i \in 1..2 : i = 1 \/ i = 2
    OBVIOUS
  <2> QED
    BY <1>2, <2>1, <2>2
<1>5. c = a \o b
  BY <1>2, <1>3, <1>4, SeqEqual
<1> QED
  BY <1>5 DEF a, b, c

LEMMA OneStands ==
    ASSUME NEW S, NEW d \in Seq(S), Len(d) = 1, NEW x, d[1] = x
    PROVE  d = <<x>>
<1> DEFINE e == <<x>>
<1>1. x \in S
  <2>1. 1 \in 1..Len(d)
    OBVIOUS
  <2> QED
    BY <2>1, ElementOfSeq
<1>2. e \in Seq(S) /\ Len(e) = 1 /\ e[1] = x
  BY <1>1
<1> HIDE DEF e
<1>3. \A i \in 1..1 : d[i] = e[i]
  BY <1>2
<1>4. d = e
  BY <1>2, <1>3, SeqEqual
<1> QED
  BY <1>4 DEF e

\* The line in which a position is
LEMMA InLine ==
    ASSUME NEW n \in Nat, NEW at \in [0..n -> Nat], at[0] = 0, NEW j \in Nat, j < at[n]
    PROVE  \E k \in 1..n : at[k - 1] <= j /\ j < at[k]
<1> DEFINE P == {k \in 0..n : j < at[k]}
<1>1. P \in SUBSET Nat /\ n \in P
  OBVIOUS
<1>2. PICK k \in P : \A m \in P : k <= m
  <2> HIDE DEF P
  <2> QED
    BY <1>1, LeastElement
<1>3. k # 0 /\ k \in 0..n
  BY <1>2
<1>4. k \in 1..n /\ k - 1 \in 0..n /\ k - 1 \notin P
  BY <1>2, <1>3
<1> QED
  BY <1>2, <1>4

LEMMA JoinedIs ==
    ASSUME NEW S, NEW text \in Seq(S), NEW pieces \in Seq(Seq(S)), NEW at \in [0..Len(pieces) -> Nat],
           JoinedAt(text, pieces, at)
    PROVE  FlattenSeq(pieces) = text
<1> DEFINE n == Len(pieces)
           other == FlattenSeq(pieces)
<1>1. other \in Seq(S) /\ \E to \in [0..n -> Nat] : JoinedAt(other, pieces, to)
  BY Flattened
<1> HIDE DEF other
<1>2. PICK to \in [0..n -> Nat] : JoinedAt(other, pieces, to)
  BY <1>1
<1>3. n \in Nat /\ (\A k \in 0..n : at[k] \in Nat) /\ \A k \in 0..n : to[k] \in Nat
  <2>1. n \in Nat
    OBVIOUS
  <2>2. at \in [0..n -> Nat]
    OBVIOUS
  <2>3. to \in [0..n -> Nat]
    BY <1>2
  <2> HIDE DEF n
  <2> QED
    BY <2>1, <2>2, <2>3
<1>4. /\ at[0] = 0 /\ at[n] = Len(text)
      /\ \A k \in 1..n : at[k] = at[k - 1] + Len(pieces[k]) /\ Stands(text, at[k - 1], pieces[k])
  BY DEF JoinedAt
<1>5. /\ to[0] = 0 /\ to[n] = Len(other)
      /\ \A k \in 1..n : to[k] = to[k - 1] + Len(pieces[k]) /\ Stands(other, to[k - 1], pieces[k])
  BY <1>2 DEF JoinedAt
<1>6. \A k \in 1..n : pieces[k] \in Seq(S) /\ Len(pieces[k]) \in Nat /\ k \in 0..n /\ k - 1 \in 0..n
  BY <1>3
<1>7. at \in [0..n -> Nat]
  OBVIOUS
<1> HIDE DEF n
<1>8. \A k \in 0..n : at[k] = to[k]
  <2> DEFINE U == {k \in 0..n : at[k] = to[k]}
             id == [k \in 0..n |-> k]
  <2>1. id[0] \in U
    BY <1>3, <1>4, <1>5
  <2>2. ASSUME NEW k \in 1..n, id[k - 1] \in U PROVE id[k] \in U
    <3>1. id[k - 1] = k - 1 /\ id[k] = k
      BY <1>6
    <3>2. at[k - 1] = to[k - 1]
      BY <2>2, <3>1
    <3>3. at[k] = to[k]
      BY <1>4, <1>5, <3>2
    <3> QED
      BY <1>6, <3>1, <3>3
  <2> HIDE DEF U, id
  <2>3. \A k \in 0..n : id[k] \in U
    BY <1>3, <2>1, <2>2, ForwardType
  <2> QED
    BY <2>3 DEF U, id
<1>9. n \in 0..n
  BY <1>3
<1>10. Len(text) = Len(other) /\ Len(text) \in Nat
  BY <1>4, <1>5, <1>8, <1>9
<1>11. ASSUME NEW i \in 1..Len(text) PROVE text[i] = other[i]
  <2> DEFINE j == i - 1
  <2>1. j \in Nat /\ j < at[n] /\ j + 1 = i
    BY <1>4, <1>10
  <2> HIDE DEF j
  <2>2. PICK k \in 1..n : at[k - 1] <= j /\ j < at[k]
    BY <1>3, <1>4, <1>7, <2>1, InLine
  <2> DEFINE p == at[k - 1]
             w == pieces[k]
             h == i - p
  <2>3. Stands(text, p, w) /\ Stands(other, p, w) /\ at[k] = p + Len(w) /\ p \in Nat /\ Len(w) \in Nat
    <3>1. at[k - 1] = to[k - 1]
      BY <1>6, <1>8
    <3> QED
      BY <1>3, <1>4, <1>5, <1>6, <3>1
  <2>4. h \in 1..Len(w) /\ p + h = i
    <3> DEFINE q == at[k]
    <3>1. p <= j /\ j < q /\ q = p + Len(w)
      BY <2>2, <2>3
    <3> HIDE DEF p, w, q
    <3> QED
      BY <2>1, <2>3, <3>1
  <2> HIDE DEF p, w, h
  <2>5. text[p + h] = w[h] /\ other[p + h] = w[h]
    BY <2>3, <2>4 DEF Stands
  <2> QED
    BY <2>4, <2>5
<1>12. text = other
  BY <1>1, <1>10, <1>11, SeqEqual
<1> QED
  BY <1>12 DEF other

LEMMA FlattenOne ==
    ASSUME NEW S, NEW w \in Seq(S)
    PROVE  FlattenSeq(<<w>>) = w
<1> DEFINE pieces == <<w>>
           at == [k \in 0..1 |-> IF k = 0 THEN 0 ELSE Len(w)]
<1>1. pieces \in Seq(Seq(S)) /\ Len(pieces) = 1 /\ pieces[1] = w /\ Len(w) \in Nat
  OBVIOUS
<1>2. at[0] = 0 /\ at[1] = Len(w) /\ at \in [0..1 -> Nat]
  OBVIOUS
<1> HIDE DEF pieces, at
<1>3. Stands(w, 0, w)
  BY <1>1 DEF Stands
<1>4. JoinedAt(w, pieces, at)
  <2>1. ASSUME NEW k \in 1..1 PROVE at[k] = at[k - 1] + Len(pieces[k]) /\ Stands(w, at[k - 1], pieces[k])
    <3>1. k = 1 /\ k - 1 = 0
      OBVIOUS
    <3> QED
      BY <1>1, <1>2, <1>3, <3>1
  <2> QED
    BY <1>1, <1>2, <2>1 DEF JoinedAt
<1>5. FlattenSeq(pieces) = w
  BY <1>1, <1>2, <1>4, JoinedIs
<1> QED
  BY <1>5 DEF pieces

LEMMA FlattenEmpty == FlattenSeq(<<>>) = <<>>
<1> DEFINE pieces == <<>>
           w == <<>>
<1>1. pieces \in Seq(Seq({})) /\ Len(pieces) = 0
  OBVIOUS
<1> HIDE DEF pieces
<1>2. FlattenSeq(pieces) \in Seq({})
  BY <1>1, Flattened
<1>3. FlattenSeq(pieces) = w
  BY <1>2
<1> QED
  BY <1>3 DEF pieces

LEMMA FlattenConcat ==
    ASSUME NEW S, NEW a \in Seq(Seq(S)), NEW b \in Seq(Seq(S))
    PROVE  FlattenSeq(a \o b) = FlattenSeq(a) \o FlattenSeq(b)
<1> DEFINE m == Len(a)
           n == Len(b)
           c == a \o b
           ta == FlattenSeq(a)
           tb == FlattenSeq(b)
           text == ta \o tb
<1>1. ta \in Seq(S) /\ \E at \in [0..m -> Nat] : JoinedAt(ta, a, at)
  BY Flattened
<1>2. tb \in Seq(S) /\ \E at \in [0..n -> Nat] : JoinedAt(tb, b, at)
  BY Flattened
<1> HIDE DEF ta, tb
<1>3. PICK at \in [0..m -> Nat] : JoinedAt(ta, a, at)
  BY <1>1
<1>4. PICK to \in [0..n -> Nat] : JoinedAt(tb, b, to)
  BY <1>2
<1>5. /\ c \in Seq(Seq(S)) /\ Len(c) = m + n /\ m \in Nat /\ n \in Nat
      /\ \A k \in 1..(m + n) : c[k] = IF k <= m THEN a[k] ELSE b[k - m]
  BY ConcatProperties
<1>6. /\ text \in Seq(S) /\ Len(text) = Len(ta) + Len(tb) /\ Len(ta) \in Nat /\ Len(tb) \in Nat
      /\ Stands(text, Len(ta), tb)
  BY <1>1, <1>2, ConcatProperties, StandsBehind
<1> DEFINE l == Len(ta)
           from == [k \in 0..(m + n) |-> IF k <= m THEN at[k] ELSE l + to[k - m]]
<1>7. /\ at[0] = 0 /\ at[m] = l
      /\ \A k \in 1..m : at[k] = at[k - 1] + Len(a[k]) /\ Stands(ta, at[k - 1], a[k])
      /\ \A k \in 0..m : at[k] \in Nat
  BY <1>3 DEF JoinedAt
<1>8. /\ to[0] = 0 /\ to[n] = Len(tb)
      /\ \A k \in 1..n : to[k] = to[k - 1] + Len(b[k]) /\ Stands(tb, to[k - 1], b[k])
      /\ \A k \in 0..n : to[k] \in Nat
  BY <1>4 DEF JoinedAt
<1>9. \A k \in 1..m : a[k] \in Seq(S)
  OBVIOUS
<1>10. \A k \in 1..n : b[k] \in Seq(S) /\ Len(b[k]) \in Nat
  OBVIOUS
<1>11. \A k \in 0..(m + n) : from[k] = IF k <= m THEN at[k] ELSE l + to[k - m]
  OBVIOUS
<1>12. from \in [0..(m + n) -> Nat]
  <2>1. from = [k \in 0..(m + n) |-> from[k]]
    OBVIOUS
  <2>2. \A k \in 0..(m + n) : from[k] \in Nat
    <3> SUFFICES ASSUME NEW k \in 0..(m + n) PROVE from[k] \in Nat
      OBVIOUS
    <3>1. CASE k <= m
      <4>1. k \in 0..m
        BY <1>5, <3>1
      <4> QED
        BY <1>7, <1>11, <3>1, <4>1
    <3>2. CASE ~(k <= m)
      <4> DEFINE h == k - m
                 p == to[h]
      <4>1. h \in 0..n
        BY <1>5, <3>2
      <4>2. from[k] = l + p
        BY <1>11, <3>2
      <4> HIDE DEF h, from
      <4>3. p \in Nat
        BY <1>8, <4>1
      <4> HIDE DEF p
      <4> QED
        BY <1>6, <4>2, <4>3
    <3> QED
      BY <3>1, <3>2
  <2> HIDE DEF from, m, n
  <2> QED
    BY <2>1, <2>2
<1> HIDE DEF m, n, c, text, from, l
<1>13. ASSUME NEW k \in 1..(m + n)
       PROVE  from[k] = from[k - 1] + Len(c[k]) /\ Stands(text, from[k - 1], c[k])
  <2>1. k \in 0..(m + n) /\ k - 1 \in 0..(m + n)
    BY <1>5
  <2>2. CASE k <= m
    <3>1. k \in 1..m /\ k - 1 <= m /\ k - 1 \in 0..m
      BY <1>5, <2>2
    <3>2. from[k] = at[k] /\ from[k - 1] = at[k - 1] /\ c[k] = a[k]
      BY <1>5, <1>11, <2>1, <2>2, <3>1
    <3> DEFINE p == at[k - 1]
               w == a[k]
    <3>3. p \in Nat /\ w \in Seq(S) /\ Stands(ta, p, w)
      BY <1>7, <1>9, <3>1
    <3> HIDE DEF p, w
    <3>4. Stands(text, p, w)
      BY <1>1, <1>2, <3>3, StandsLonger DEF text
    <3> QED
      BY <1>7, <3>1, <3>2, <3>4 DEF p, w
  <2>3. CASE ~(k <= m)
    <3> DEFINE h == k - m
               p == to[h - 1]
               w == b[h]
    <3>1. h \in 1..n /\ h - 1 \in 0..n /\ (k - 1) - m = h - 1
      BY <1>5, <2>3
    <3>2. c[k] = w /\ from[k] = l + to[h]
      BY <1>5, <1>11, <2>1, <2>3
    <3>3. from[k - 1] = l + p
      <4>1. CASE k - 1 <= m
        <5>1. k - 1 = m /\ h - 1 = 0
          BY <1>5, <2>3, <4>1
        <5>2. from[k - 1] = l
          BY <1>7, <1>11, <2>1, <4>1, <5>1
        <5> QED
          BY <1>6, <1>8, <5>1, <5>2 DEF l
      <4>2. CASE ~(k - 1 <= m)
        BY <1>11, <2>1, <3>1, <4>2
      <4> QED
        BY <4>1, <4>2
    <3>4. p \in Nat /\ w \in Seq(S) /\ Stands(tb, p, w) /\ to[h] = p + Len(w) /\ Len(w) \in Nat
      BY <1>8, <1>10, <3>1
    <3> DEFINE q == to[h]
    <3> HIDE DEF p, w, h, q
    <3>5. Stands(text, l + p, w)
      <4>1. l \in Nat /\ Stands(text, l, tb) /\ p + Len(w) <= Len(tb)
        BY <1>6, <3>4 DEF l, Stands
      <4>2. ASSUME NEW i \in 1..Len(w) PROVE text[(l + p) + i] = w[i]
        <5>1. p + i \in 1..Len(tb) /\ l + (p + i) = (l + p) + i
          BY <1>6, <3>4, <4>1
        <5>2. text[l + (p + i)] = tb[p + i] /\ tb[p + i] = w[i]
          BY <3>4, <4>1, <5>1 DEF Stands
        <5> QED
          BY <5>1, <5>2
      <4>3. (l + p) + Len(w) <= Len(text)
        BY <1>6, <3>4, <4>1 DEF l
      <4> QED
        BY <4>2, <4>3 DEF Stands
    <3>6. l + q = (l + p) + Len(w)
      <4>1. q = p + Len(w)
        BY <3>4 DEF q
      <4> QED
        BY <1>6, <3>4, <4>1 DEF l
    <3> QED
      BY <3>2, <3>3, <3>5, <3>6 DEF q
  <2> QED
    BY <2>2, <2>3
<1>14. JoinedAt(text, c, from)
  <2>1. from[0] = 0
    <3>1. 0 \in 0..(m + n) /\ 0 <= m
      BY <1>5
    <3> QED
      BY <1>7, <1>11, <3>1
  <2>2. from[m + n] = Len(text)
    <3>1. m + n \in 0..(m + n) /\ (m + n) - m = n
      BY <1>5
    <3>2. CASE n = 0
      <4>1. m + n <= m /\ m + n = m
        BY <1>5, <3>2
      <4>2. Len(tb) = 0
        BY <1>8, <3>2
      <4> QED
        BY <1>6, <1>7, <1>11, <3>1, <4>1, <4>2 DEF l
    <3>3. CASE n # 0
      <4>1. ~(m + n <= m)
        BY <1>5, <3>3
      <4> QED
        BY <1>6, <1>8, <1>11, <3>1, <4>1 DEF l
    <3> QED
      BY <3>2, <3>3
  <2> QED
    BY <1>5, <1>13, <2>1, <2>2 DEF JoinedAt
<1>15. FlattenSeq(c) = text
  <2>1. from \in [0..Len(c) -> Nat]
    BY <1>5, <1>12
  <2> QED
    BY <1>5, <1>6, <1>14, <2>1, JoinedIs
<1> QED
  BY <1>15 DEF c, text, ta, tb

LEMMA TailOfOne ==
    ASSUME NEW T, NEW x \in T, NEW r \in Seq(T)
    PROVE  Tail(<<x>> \o r) = r /\ <<x>> \o r # <<>> /\ (<<x>> \o r)[1] = x
<1> DEFINE one == <<x>>
           w == one \o r
           n == Len(r)
<1>1. one \in Seq(T) /\ Len(one) = 1 /\ one[1] = x /\ n \in Nat
  OBVIOUS
<1> HIDE DEF one
<1>2. w \in Seq(T) /\ Len(w) = 1 + n /\ \A k \in 1..(1 + n) : w[k] = IF k <= 1 THEN one[k] ELSE r[k - 1]
  <2>1. w \in Seq(T) /\ Len(w) = Len(one) + n
        /\ \A k \in 1..(Len(one) + n) : w[k] = IF k <= Len(one) THEN one[k] ELSE r[k - Len(one)]
    BY <1>1, ConcatProperties
  <2> HIDE DEF w
  <2> QED
    BY <1>1, <2>1
<1> HIDE DEF w, n
<1>3. w # <<>> /\ w[1] = x
  BY <1>1, <1>2
<1>4. Tail(w) \in Seq(T) /\ Len(Tail(w)) = n
  BY <1>1, <1>2, <1>3
<1>5. \A k \in 1..n : Tail(w)[k] = r[k]
  <2> SUFFICES ASSUME NEW k \in 1..n PROVE Tail(w)[k] = r[k]
    OBVIOUS
  <2> DEFINE h == k + 1
  <2>1. Tail(w)[k] = w[h]
    BY <1>1, <1>2
  <2>2. h \in 1..(1 + n) /\ ~(h <= 1) /\ h - 1 = k
    BY <1>1
  <2> HIDE DEF h
  <2>3. w[h] = r[k]
    BY <1>2, <2>2
  <2> QED
    BY <2>1, <2>3
<1>6. Tail(w) = r
  <2> DEFINE t == Tail(w)
  <2>1. t \in Seq(T) /\ r \in Seq(T) /\ Len(t) = Len(r) /\ \A k \in 1..Len(t) : t[k] = r[k]
    BY <1>4, <1>5 DEF n
  <2> HIDE DEF t
  <2>2. t = r
    BY <2>1, SeqEqual
  <2> QED
    BY <2>2 DEF t
<1> QED
  BY <1>3, <1>6 DEF w, one

LEMMA FourParts ==
    \A S : \A a, b, d \in Seq(S) : (a \o b) \o d = a \o (b \o d)
BY ConcatAssociative

\* A pattern of two characters
LEMMA PairStands ==
    ASSUME NEW S, NEW d \in Seq(S), NEW j \in Nat, NEW a, NEW b
    PROVE  Stands(d, j, <<a, b>>) <=> j + 2 <= Len(d) /\ d[j + 1] = a /\ d[j + 2] = b
<1> DEFINE w == <<a, b>>
<1>1. Len(w) = 2 /\ w[1] = a /\ w[2] = b /\ 1..2 = {1, 2}
  OBVIOUS
<1> HIDE DEF w
<1>2. (\A i \in 1..2 : d[j + i] = w[i]) <=> d[j + 1] = a /\ d[j + 2] = b
  BY <1>1
<1> QED
  BY <1>1, <1>2 DEF Stands, w

\* What is put together stands one behind the other.
LEMMA ThreeStand ==
    ASSUME NEW S, NEW x \in Seq(S), NEW y \in Seq(S), NEW z \in Seq(S), NEW d, d = x \o (y \o z)
    PROVE  /\ d \in Seq(S) /\ Stands(d, 0, x) /\ Stands(d, Len(x), y) /\ Stands(d, Len(x) + Len(y), z)
           /\ Len(d) = Len(x) + Len(y) + Len(z)
<1> DEFINE yz == y \o z
           l == Len(x)
<1>1. yz \in Seq(S) /\ Len(yz) = Len(y) + Len(z) /\ l \in Nat
  BY ConcatProperties
<1>2. d = x \o yz
  OBVIOUS
<1> HIDE DEF yz
<1>3. d \in Seq(S) /\ Len(d) = l + Len(yz) /\ Stands(d, 0, x) /\ Stands(d, l, yz)
  BY <1>1, <1>2, ConcatProperties, StandsFirst, StandsBehind
<1> HIDE DEF l
<1>4. Stands(d, l, y) /\ Stands(d, l + Len(y), z)
  BY <1>1, <1>3, StandsParts DEF yz
<1> QED
  BY <1>1, <1>3, <1>4 DEF l

-----------------------------------------------------------------------------
(* Characters and searches *)

LEMMA FirstIsLeast ==
    ASSUME NEW P \in SUBSET Nat
    PROVE  /\ P = {} => First(P) = npos
           /\ P # {} => First(P) \in P /\ First(P) # npos /\ \A k \in P : First(P) <= k
<1>1. P # {} => \E m \in P : \A n \in P : m <= n
  BY LeastElement
<1>2. P # {} => Min(P) \in P /\ \A k \in P : Min(P) <= k
  BY <1>1 DEF Min
<1>3. npos \notin Nat
  BY DEF npos
<1> QED
  BY <1>2, <1>3 DEF First

LEMMA FirstIs ==
    ASSUME NEW P \in SUBSET Nat, NEW m \in P, \A k \in P : m <= k
    PROVE  First(P) = m
<1>1. First(P) \in P /\ First(P) <= m
  BY FirstIsLeast
<1>2. m <= First(P) /\ First(P) \in Nat /\ m \in Nat
  BY <1>1
<1> QED
  BY <1>1, <1>2

LEMMA CharactersDiffer == CR # LF /\ CR # "null" /\ LF # "null"
  BY DEF CR, LF

LEMMA LineEndInside ==
    ASSUME NEW S, NEW d \in Seq(S), NEW k \in Nat, IsCRLF(d, k)
    PROVE  k + 2 <= Len(d) /\ d[k + 1] = CR /\ d[k + 2] = LF
<1>1. Len(d) \in Nat
  OBVIOUS
<1>2. k + 1 < Len(d)
  BY <1>1, CharactersDiffer DEF IsCRLF, At
<1> QED
  BY <1>1, <1>2 DEF IsCRLF, At

\* The first line end from a position on: at c, or nowhere
LEMMA LineEndFound ==
    ASSUME NEW S, NEW d \in Seq(S), NEW k \in Nat
    PROVE  \/ FindCRLF(d, k) = npos /\ \A j \in Nat : j >= k => ~IsCRLF(d, j)
           \/ /\ FindCRLF(d, k) \in Nat /\ FindCRLF(d, k) # npos
              /\ k <= FindCRLF(d, k) /\ FindCRLF(d, k) + 2 <= Len(d)
              /\ IsCRLF(d, FindCRLF(d, k))
              /\ \A j \in Nat : k <= j /\ j < FindCRLF(d, k) => ~IsCRLF(d, j)
<1> DEFINE P == {j \in Positions(d) : j >= k /\ IsCRLF(d, j)}
<1>1. P \in SUBSET Nat /\ FindCRLF(d, k) = First(P)
  BY DEF FindCRLF, Positions
<1>2. \A j \in Nat : j >= k /\ IsCRLF(d, j) => j \in P
  BY LineEndInside DEF Positions
<1>3. CASE P = {}
  BY <1>1, <1>2, <1>3, FirstIsLeast
<1>4. CASE P # {}
  <2>1. First(P) \in P /\ First(P) # npos /\ \A j \in P : First(P) <= j
    BY <1>1, <1>4, FirstIsLeast
  <2>2. First(P) \in Nat /\ k <= First(P) /\ IsCRLF(d, First(P))
    BY <1>1, <2>1
  <2>3. First(P) + 2 <= Len(d)
    BY <2>2, LineEndInside
  <2> HIDE DEF P
  <2>4. \A j \in Nat : k <= j /\ j < First(P) => ~IsCRLF(d, j)
    BY <1>2, <2>1, <2>2
  <2> QED
    BY <1>1, <2>1, <2>2, <2>3, <2>4
<1> QED
  BY <1>3, <1>4

LEMMA LineEndIs ==
    ASSUME NEW S, NEW d \in Seq(S), NEW k \in Nat, NEW c \in Nat,
           k <= c, IsCRLF(d, c), \A j \in Nat : k <= j /\ j < c => ~IsCRLF(d, j)
    PROVE  FindCRLF(d, k) = c
<1> DEFINE f == FindCRLF(d, k)
<1>1. f # npos
  BY LineEndFound
<1>2. f \in Nat /\ k <= f /\ IsCRLF(d, f) /\ \A j \in Nat : k <= j /\ j < f => ~IsCRLF(d, j)
  BY <1>1, LineEndFound
<1> QED
  BY <1>2

LEMMA SubstrInside ==
    ASSUME NEW S, NEW d \in Seq(S), NEW k \in Nat, NEW n \in Nat, k + n <= Len(d)
    PROVE  /\ Substr(d, k, n) = SubSeq(d, k + 1, k + n)
           /\ Substr(d, k, n) \in Seq(S)
           /\ Len(Substr(d, k, n)) = n
           /\ \A i \in 1..n : Substr(d, k, n)[i] = d[k + i]
<1> DEFINE s == SubSeq(d, k + 1, k + n)
<1>1. Len(d) \in Nat
  OBVIOUS
<1>2. Substr(d, k, n) = s
  BY <1>1 DEF Substr, Min2
<1>3. k + 1 \in 1..(Len(d) + 1) /\ k + n \in ((k + 1) - 1)..Len(d)
  BY <1>1
<1>4. /\ s \in Seq(S) /\ Len(s) = (k + n) - (k + 1) + 1
      /\ \A i \in 1..((k + n) - (k + 1) + 1) : s[i] = d[(k + 1) + i - 1]
  BY <1>3, SubSeqProperties
<1>5. (k + n) - (k + 1) + 1 = n /\ \A i \in 1..n : (k + 1) + i - 1 = k + i
  OBVIOUS
<1> HIDE DEF s
<1>6. Len(s) = n /\ \A i \in 1..n : s[i] = d[k + i]
  BY <1>4, <1>5
<1> QED
  BY <1>2, <1>4, <1>6 DEF s

LEMMA SubstrRest ==
    ASSUME NEW S, NEW d \in Seq(S), NEW k \in 0..Len(d), NEW n \in Nat, Len(d) <= k + n
    PROVE  Substr(d, k, n) = Substr(d, k, Len(d) - k)
  BY DEF Substr, Min2

LEMMA SubstrType ==
    ASSUME NEW S, NEW d \in Seq(S), NEW k \in 0..Len(d), NEW n \in Nat
    PROVE  Substr(d, k, n) \in Seq(S)
<1>1. CASE k + n <= Len(d)
  BY <1>1, SubstrInside
<1>2. CASE Len(d) <= k + n
  <2>1. Len(d) - k \in Nat /\ k + (Len(d) - k) <= Len(d)
    OBVIOUS
  <2>2. Substr(d, k, Len(d) - k) \in Seq(S)
    BY <2>1, SubstrInside
  <2> QED
    BY <1>2, <2>2, SubstrRest
<1> QED
  BY <1>1, <1>2

-----------------------------------------------------------------------------
(* A part of what is sent, from its beginning *)

LEMMA PartSays ==
    ASSUME NEW S, NEW d \in Seq(S), NEW n \in 0..Len(d)
    PROVE  /\ Substr(d, 0, n) \in Seq(S) /\ Len(Substr(d, 0, n)) = n
           /\ \A k \in Nat : k < n => At(Substr(d, 0, n), k) = At(d, k)
           /\ \A k \in Nat : IsCRLF(Substr(d, 0, n), k) <=> k + 2 <= n /\ IsCRLF(d, k)
           /\ \A k, l \in Nat : k + l <= n => Substr(Substr(d, 0, n), k, l) = Substr(d, k, l)
<1> DEFINE p == Substr(d, 0, n)
<1>1. p \in Seq(S) /\ Len(p) = n /\ \A i \in 1..n : p[i] = d[i]
  <2>1. 0 \in Nat /\ n \in Nat /\ 0 + n <= Len(d)
    OBVIOUS
  <2>2. p \in Seq(S) /\ Len(p) = n /\ \A i \in 1..n : p[i] = d[0 + i]
    BY <2>1, SubstrInside
  <2> QED
    BY <2>2
<1> HIDE DEF p
<1>2. \A k \in Nat : k < n => At(p, k) = At(d, k)
  BY <1>1 DEF At
<1>3. \A k \in Nat : IsCRLF(p, k) <=> k + 2 <= n /\ IsCRLF(d, k)
  <2> SUFFICES ASSUME NEW k \in Nat PROVE IsCRLF(p, k) <=> k + 2 <= n /\ IsCRLF(d, k)
    OBVIOUS
  <2>1. IsCRLF(p, k) => k + 2 <= n
    BY <1>1, LineEndInside
  <2>2. k + 2 <= n => At(p, k) = At(d, k) /\ At(p, k + 1) = At(d, k + 1)
    BY <1>2
  <2> QED
    BY <2>1, <2>2 DEF IsCRLF
<1>4. ASSUME NEW k \in Nat, NEW l \in Nat, k + l <= n
      PROVE  Substr(p, k, l) = Substr(d, k, l)
  <2>1. /\ Substr(p, k, l) \in Seq(S) /\ Len(Substr(p, k, l)) = l
        /\ \A i \in 1..l : Substr(p, k, l)[i] = p[k + i]
    <3>1. p \in Seq(S) /\ k + l <= Len(p)
      BY <1>1, <1>4
    <3> QED
      BY <3>1, SubstrInside
  <2>2. /\ Substr(d, k, l) \in Seq(S) /\ Len(Substr(d, k, l)) = l
        /\ \A i \in 1..l : Substr(d, k, l)[i] = d[k + i]
    <3>1. k + l <= Len(d)
      BY <1>4
    <3> QED
      BY <3>1, SubstrInside
  <2>3. \A i \in 1..l : p[k + i] = d[k + i]
    BY <1>1, <1>4
  <2> QED
    BY <2>1, <2>2, <2>3, SeqEqual
<1> QED
  BY <1>1, <1>2, <1>3, <1>4 DEF p

\* A line end is found in a part if it is in it, and nothing else is.
LEMMA LineEndInPart ==
    ASSUME NEW S, NEW d \in Seq(S), NEW n \in 0..Len(d), NEW k \in Nat
    PROVE  FindCRLF(Substr(d, 0, n), k) =
             IF FindCRLF(d, k) # npos /\ FindCRLF(d, k) + 2 <= n THEN FindCRLF(d, k) ELSE npos
<1> DEFINE p == Substr(d, 0, n)
           c == FindCRLF(d, k)
<1>1. p \in Seq(S) /\ \A j \in Nat : IsCRLF(p, j) <=> j + 2 <= n /\ IsCRLF(d, j)
  BY PartSays
<1> HIDE DEF p
<1>2. CASE c # npos /\ c + 2 <= n
  <2>1. c \in Nat /\ k <= c /\ IsCRLF(d, c) /\ \A j \in Nat : k <= j /\ j < c => ~IsCRLF(d, j)
    BY <1>2, LineEndFound
  <2>2. IsCRLF(p, c) /\ \A j \in Nat : k <= j /\ j < c => ~IsCRLF(p, j)
    BY <1>1, <1>2, <2>1
  <2>3. FindCRLF(p, k) = c
    BY <1>1, <2>1, <2>2, LineEndIs
  <2> QED
    BY <1>2, <2>3 DEF p
<1>3. CASE ~(c # npos /\ c + 2 <= n)
  <2>1. \A j \in Nat : j >= k => ~IsCRLF(p, j)
    <3> SUFFICES ASSUME NEW j \in Nat, j >= k, j + 2 <= n, IsCRLF(d, j) PROVE FALSE
      BY <1>1
    <3>1. c # npos
      BY LineEndFound
    <3>2. c \in Nat /\ ~(k <= j /\ j < c)
      BY <3>1, LineEndFound
    <3> QED
      BY <1>3, <3>1, <3>2
  <2>2. FindCRLF(p, k) = npos
    BY <1>1, <2>1, LineEndFound
  <2> QED
    BY <1>3, <2>2 DEF p
<1> QED
  BY <1>2, <1>3

-----------------------------------------------------------------------------
(* Numbers *)

LEMMA StrtoulType ==
    ASSUME NEW S, NEW hex \in Seq(S), ToSet(hex) \subseteq DOMAIN Digit
    PROVE  Strtoul(hex) \in Nat
<1> DEFINE n == Len(hex)
           F == [k \in 1..n |-> [x \in Nat |-> 16 * x + Digit[hex[k]]]]
           Is(f) == f = [k \in 0..n |-> IF k = 0 THEN 0 ELSE 16 * f[k - 1] + Digit[hex[k]]]
           value == CHOOSE f : Is(f)
<1>1. \A k \in 1..n : Digit[hex[k]] \in Nat
  <2>1. \A c \in DOMAIN Digit : Digit[c] \in Nat
    BY DEF Digit
  <2> QED
    BY <2>1 DEF ToSet
<1>2. n \in Nat /\ F \in [1..n -> [Nat -> Nat]]
  BY <1>1
<1>3. \E f : Is(f)
  <2>1. DefinedForward(Nat, n, 0, F)
    <3> HIDE DEF F, n
    <3> QED
      BY <1>2, ForwardRecursion
  <2>2. PICK f \in [0..n -> Nat] : f[0] = 0 /\ \A k \in 1..n : f[k] = F[k][f[k - 1]]
    BY <2>1 DEF DefinedForward
  <2>3. \A k \in 1..n : f[k - 1] \in Nat /\ f[k] = 16 * f[k - 1] + Digit[hex[k]]
    <3>1. \A k \in 1..n : \A x \in Nat : F[k][x] = 16 * x + Digit[hex[k]]
      OBVIOUS
    <3>2. \A k \in 1..n : k - 1 \in 0..n
      BY <1>2
    <3> HIDE DEF F, n
    <3>3. \A k \in 1..n : f[k - 1] \in Nat
      BY <2>2, <3>2
    <3>4. \A k \in 1..n : f[k] = F[k][f[k - 1]]
      BY <2>2
    <3> QED
      BY <3>1, <3>3, <3>4
  <2>4. Is(f)
    <3>1. \A k \in 0..n : f[k] = IF k = 0 THEN 0 ELSE 16 * f[k - 1] + Digit[hex[k]]
      BY <1>2, <2>2, <2>3
    <3> HIDE DEF n
    <3> QED
      BY <3>1
  <2> QED
    BY <2>4
<1>4. Is(value)
  <2> HIDE DEF Is
  <2> QED
    BY <1>3
<1>5. Strtoul(hex) = value[n]
  BY DEF Strtoul
<1> HIDE DEF value
<1>6. value[0] = 0 /\ \A k \in 1..n : value[k] = 16 * value[k - 1] + Digit[hex[k]]
  BY <1>2, <1>4
<1>7. \A k \in 0..n : value[k] \in Nat
  <2>1. \A k \in 1..n : value[k - 1] \in Nat => value[k] \in Nat
    BY <1>1, <1>6
  <2>2. value[0] \in Nat /\ n \in Nat
    BY <1>2, <1>6
  <2> HIDE DEF n
  <2> QED
    BY <2>1, <2>2, ForwardType, Zenon
<1> QED
  BY <1>2, <1>5, <1>7

-----------------------------------------------------------------------------
(* Texts that are cut *)

\* What is cut from each position on: up to the next end of a piece, which has a width
Cutting(text, width, end, from) ==
    \A k \in 0..Len(text) :
       from[k] = IF end[k] = npos THEN <<Substr(text, k, Len(text))>>
                 ELSE <<Substr(text, k, end[k] - k)>> \o from[end[k] + width]
EndsInside(text, width, end) ==
    \A k \in 0..Len(text) :
       end[k] # npos => end[k] \in Nat /\ k <= end[k] /\ end[k] + width <= Len(text)

LEMMA CutsFound ==
    ASSUME NEW S, NEW text \in Seq(S), NEW width \in Nat \ {0}, NEW end, EndsInside(text, width, end)
    PROVE  \E from \in [0..Len(text) -> Seq(Seq(S))] : Cutting(text, width, end, from)
<1> DEFINE n == Len(text)
           T == Seq(Seq(S))
           last(k) == <<Substr(text, k, n)>>
           piece(k) == <<Substr(text, k, end[k] - k)>>
           E == {k \in 0..n : end[k] = npos}
           a == [k \in 0..n |-> last(k)]
           next == [k \in 0..n |-> end[k] + width]
           F == [k \in 0..n |-> [x \in T |-> IF k \in E THEN x ELSE piece(k) \o x]]
<1>1. n \in Nat
  OBVIOUS
<1>2. ASSUME NEW k \in 0..n, end[k] # npos
      PROVE  end[k] - k \in Nat /\ end[k] + width \in (k + 1)..n
  <2>1. end[k] \in Nat /\ k <= end[k] /\ end[k] + width <= n
    BY <1>2 DEF EndsInside
  <2> QED
    BY <1>1, <2>1
<1>3. ASSUME NEW k \in 0..n
      PROVE  last(k) \in T /\ (k \notin E => piece(k) \in T)
  <2>1. Substr(text, k, n) \in Seq(S)
    BY <1>1, SubstrType
  <2>2. k \notin E => Substr(text, k, end[k] - k) \in Seq(S)
    BY <1>2, SubstrType
  <2> QED
    BY <2>1, <2>2
<1>4. /\ E \in SUBSET (0..n)
      /\ a \in [0..n -> T]
      /\ \A k \in (0..n) \ E : next[k] \in (k + 1)..n
      /\ F \in [0..n -> [T -> T]]
  <2>1. E \in SUBSET (0..n)
    OBVIOUS
  <2>2. \A k \in (0..n) \ E : next[k] \in (k + 1)..n
    BY <1>2
  <2> HIDE DEF last
  <2>3. a \in [0..n -> T]
    <3> HIDE DEF T
    <3> QED
      BY <1>3
  <2>4. F \in [0..n -> [T -> T]]
    <3>1. \A k \in 0..n : \A x \in T : k \notin E => piece(k) \o x \in T
      BY <1>3, ConcatProperties
    <3> HIDE DEF T, piece, E
    <3> QED
      BY <3>1
  <2> QED
    BY <2>1, <2>2, <2>3, <2>4
<1>5. DefinedBackward(T, n, E, a, next, F)
  <2> HIDE DEF T, n, E, a, next, F
  <2> QED
    BY <1>1, <1>4, BackwardRecursion
<1>6. PICK f \in [0..n -> T] : \A k \in 0..n : f[k] = IF k \in E THEN a[k] ELSE F[k][f[next[k]]]
  BY <1>5 DEF DefinedBackward
<1>7. ASSUME NEW k \in 0..n
      PROVE  f[k] = IF end[k] = npos THEN last(k) ELSE piece(k) \o f[end[k] + width]
  <2> HIDE DEF last, piece
  <2>1. CASE k \in E
    <3>1. f[k] = a[k]
      BY <1>6, <2>1
    <3> QED
      BY <2>1, <3>1
  <2>2. CASE k \notin E
    <3>1. next[k] \in 0..n /\ next[k] = end[k] + width
      BY <1>1, <1>2, <2>2
    <3>2. f[next[k]] \in T
      BY <3>1
    <3>3. F[k][f[next[k]]] = piece(k) \o f[next[k]]
      <4> HIDE DEF T, E, next
      <4> QED
        BY <2>2, <3>2
    <3>4. f[k] = piece(k) \o f[end[k] + width]
      BY <1>6, <2>2, <3>1, <3>3
    <3> QED
      BY <2>2, <3>4
  <2> QED
    BY <2>1, <2>2
<1>8. Cutting(text, width, end, f)
  BY <1>7 DEF Cutting
<1> QED
  BY <1>8

\* The pieces of a text, each up to the end behind its beginning
NextPiece(text, width, end, pieces, at) ==
    /\ at[0] = 0
    /\ \A k \in 1..Len(pieces) : at[k - 1] \in 0..Len(text)
    /\ \A k \in 1..Len(pieces) : k < Len(pieces) =>
          /\ end[at[k - 1]] # npos
          /\ end[at[k - 1]] - at[k - 1] = Len(pieces[k])
          /\ end[at[k - 1]] + width = at[k]
          /\ Substr(text, at[k - 1], Len(pieces[k])) = pieces[k]
    /\ end[at[Len(pieces) - 1]] = npos
    /\ Substr(text, at[Len(pieces) - 1], Len(text)) = pieces[Len(pieces)]

LEMMA CutsAre ==
    ASSUME NEW S, NEW text \in Seq(S), NEW width, NEW end, NEW from, Cutting(text, width, end, from),
           NEW pieces \in Seq(Seq(S)), pieces # <<>>, NEW at, NextPiece(text, width, end, pieces, at)
    PROVE  from[0] = pieces
<1> DEFINE n == Len(pieces)
           PiecesFrom(k) == SubSeq(pieces, k + 1, n)
<1>1. n \in Nat /\ n > 0 /\ Len(text) \in Nat
  OBVIOUS
<1>2. /\ at[0] = 0
      /\ \A k \in 1..n : at[k - 1] \in 0..Len(text)
      /\ \A k \in 1..n : k < n =>
            /\ end[at[k - 1]] # npos
            /\ end[at[k - 1]] - at[k - 1] = Len(pieces[k])
            /\ end[at[k - 1]] + width = at[k]
            /\ Substr(text, at[k - 1], Len(pieces[k])) = pieces[k]
      /\ end[at[n - 1]] = npos
      /\ Substr(text, at[n - 1], Len(text)) = pieces[n]
  BY DEF NextPiece
<1>3. \A k \in 0..(n - 1) : at[k] \in 0..Len(text)
  <2> SUFFICES ASSUME NEW k \in 0..(n - 1) PROVE at[k] \in 0..Len(text)
    OBVIOUS
  <2>1. k + 1 \in 1..n /\ (k + 1) - 1 = k
    BY <1>1
  <2> QED
    BY <1>2, <2>1
<1>4. from[at[n - 1]] = PiecesFrom(n - 1)
  <2>1. n - 1 \in 0..(n - 1) /\ (n - 1) + 1 = n /\ n \in 1..n
    BY <1>1
  <2>2. from[at[n - 1]] = <<pieces[n]>>
    <3> DEFINE p == at[n - 1]
    <3>1. p \in 0..Len(text) /\ end[p] = npos /\ Substr(text, p, Len(text)) = pieces[n]
      BY <1>2, <1>3, <2>1
    <3> HIDE DEF p, n
    <3>2. from[p] = <<pieces[n]>>
      BY <3>1 DEF Cutting
    <3> QED
      BY <3>2 DEF p
  <2>3. SubSeq(pieces, n, n) = <<pieces[n]>>
    <3>1. n \in 1..Len(pieces) /\ n \in n..Len(pieces) /\ n + 1 \in Int /\ n < n + 1
      BY <1>1
    <3> HIDE DEF n
    <3>2. SubSeq(pieces, n, n) = <<pieces[n]>> \o SubSeq(pieces, n + 1, n)
      BY <3>1, SubSeqRecursiveFirst
    <3>3. SubSeq(pieces, n + 1, n) = <<>>
      BY <1>1, <3>1, SubSeqEmpty
    <3>4. <<pieces[n]>> \in Seq(Seq(S))
      BY <3>1
    <3> QED
      BY <3>2, <3>3, <3>4, ConcatEmptySeq
  <2> QED
    BY <2>1, <2>2, <2>3
<1>5. ASSUME NEW k \in 0..(n - 1), k + 1 <= n - 1, from[at[k + 1]] = PiecesFrom(k + 1)
      PROVE  from[at[k]] = PiecesFrom(k)
  <2> DEFINE p == at[k]
             q == at[k + 1]
             j == k + 1
  <2>1. j \in 1..n /\ j < n /\ j - 1 = k
    BY <1>1, <1>5
  <2>2. /\ end[p] # npos /\ end[p] - p = Len(pieces[j]) /\ end[p] + width = q
        /\ Substr(text, p, Len(pieces[j])) = pieces[j]
    <3> HIDE DEF j
    <3>1. /\ end[at[j - 1]] # npos
          /\ end[at[j - 1]] - at[j - 1] = Len(pieces[j])
          /\ end[at[j - 1]] + width = at[j]
          /\ Substr(text, at[j - 1], Len(pieces[j])) = pieces[j]
      BY <1>2, <2>1
    <3> QED
      BY <2>1, <3>1 DEF j
  <2>3. p \in 0..Len(text)
    BY <1>3
  <2> HIDE DEF p, q
  <2>4. from[p] = <<pieces[j]>> \o from[q]
    BY <2>2, <2>3 DEF Cutting
  <2>5. from[q] = SubSeq(pieces, j + 1, n)
    BY <1>5 DEF q
  <2>6. SubSeq(pieces, j, n) = <<pieces[j]>> \o SubSeq(pieces, j + 1, n)
    <3>1. j \in 1..Len(pieces) /\ n \in j..Len(pieces)
      BY <1>1, <2>1
    <3> HIDE DEF j
    <3> QED
      BY <3>1, SubSeqRecursiveFirst
  <2> QED
    BY <2>4, <2>5, <2>6 DEF p
<1> DEFINE G == {m \in Nat : m <= n - 1 => from[at[n - 1 - m]] = PiecesFrom(n - 1 - m)}
<1>6. 0 \in G
  <2>1. n - 1 - 0 = n - 1
    BY <1>1
  <2> HIDE DEF PiecesFrom
  <2> QED
    BY <1>4, <2>1
<1>7. ASSUME NEW m \in Nat, m \in G PROVE m + 1 \in G
  <2> HIDE DEF PiecesFrom
  <2> SUFFICES ASSUME m + 1 <= n - 1 PROVE from[at[n - 1 - (m + 1)]] = PiecesFrom(n - 1 - (m + 1))
    OBVIOUS
  <2> DEFINE k == n - 1 - (m + 1)
  <2>1. k \in 0..(n - 1) /\ k + 1 = n - 1 - m /\ k + 1 <= n - 1
    BY <1>1
  <2>2. from[at[n - 1 - m]] = PiecesFrom(n - 1 - m)
    BY <1>1, <1>7
  <2> HIDE DEF k
  <2>3. from[at[k + 1]] = PiecesFrom(k + 1)
    BY <2>1, <2>2
  <2>4. from[at[k]] = PiecesFrom(k)
    BY <1>5, <2>1, <2>3
  <2> QED
    BY <2>4 DEF k
<1>8. Nat \subseteq G
  <2> HIDE DEF G
  <2> QED
    BY <1>6, <1>7, SetInduction
<1>9. n - 1 \in G /\ (n - 1) - (n - 1) = 0
  <2>1. n - 1 \in Nat /\ (n - 1) - (n - 1) = 0
    BY <1>1
  <2> HIDE DEF G, n
  <2> QED
    BY <1>8, <2>1
<1>10. from[at[0]] = PiecesFrom(0)
  <2> HIDE DEF PiecesFrom
  <2>1. n - 1 <= n - 1
    BY <1>1
  <2>2. from[at[n - 1 - (n - 1)]] = PiecesFrom(n - 1 - (n - 1))
    BY <1>9, <2>1
  <2> QED
    BY <1>9, <2>2
<1>11. SubSeq(pieces, 1, n) = pieces
  BY SubSeqFull
<1> QED
  BY <1>2, <1>10, <1>11

LEMMA CutsType ==
    ASSUME NEW S, NEW text \in Seq(S), NEW width \in Nat \ {0}, NEW end, EndsInside(text, width, end),
           NEW from, Cutting(text, width, end, from)
    PROVE  \A k \in 0..Len(text) : from[k] \in Seq(Seq(S))
<1> DEFINE n == Len(text)
           T == Seq(Seq(S))
<1>1. n \in Nat
  OBVIOUS
<1>2. \A k \in 0..n : (\A j \in (k + 1)..n : from[j] \in T) => from[k] \in T
  <2> SUFFICES ASSUME NEW k \in 0..n, \A j \in (k + 1)..n : from[j] \in T
               PROVE  from[k] \in T
    OBVIOUS
  <2>1. CASE end[k] = npos
    <3>1. Substr(text, k, Len(text)) \in Seq(S)
      BY <1>1, SubstrType
    <3>2. from[k] = <<Substr(text, k, Len(text))>>
      BY <2>1 DEF Cutting
    <3> QED
      BY <3>1, <3>2
  <2>2. CASE end[k] # npos
    <3>1. end[k] \in Nat /\ k <= end[k] /\ end[k] + width <= n
      BY <2>2 DEF EndsInside
    <3>2. end[k] - k \in Nat /\ end[k] + width \in (k + 1)..n
      BY <1>1, <3>1
    <3>3. Substr(text, k, end[k] - k) \in Seq(S)
      BY <3>2, SubstrType
    <3>4. <<Substr(text, k, end[k] - k)>> \in T /\ from[end[k] + width] \in T
      BY <3>2, <3>3
    <3>5. from[k] = <<Substr(text, k, end[k] - k)>> \o from[end[k] + width]
      BY <2>2 DEF Cutting
    <3> DEFINE a == <<Substr(text, k, end[k] - k)>>
               b == from[end[k] + width]
    <3> HIDE DEF a, b
    <3>6. a \o b \in T
      BY <3>4, ConcatProperties DEF a, b
    <3> QED
      BY <3>5, <3>6 DEF a, b
  <2> QED
    BY <2>1, <2>2
<1> HIDE DEF T, n
<1> QED
  BY <1>1, <1>2, BackwardType DEF T, n

\* Where each line ends
LineEnds(text) == [k \in 0..Len(text) |-> FindCRLF(text, k)]

LEMMA LinesFound ==
    ASSUME NEW S, NEW text \in Seq(S)
    PROVE  \E from \in [0..Len(text) -> Seq(Seq(S))] :
              Lines(text) = from[0] /\ Cutting(text, 2, LineEnds(text), from)
<1> DEFINE n == Len(text)
           Step(f, k) == LET crlf == FindCRLF(text, k)
                         IN  IF crlf = npos THEN <<Substr(text, k, Len(text))>>
                             ELSE <<Substr(text, k, crlf - k)>> \o f[crlf + 2]
           Is(f) == f = [k \in 0..n |-> Step(f, k)]
           from == CHOOSE f : Is(f)
           end == LineEnds(text)
           T == Seq(Seq(S))
<1>1. n \in Nat /\ \A k \in 0..n : end[k] = FindCRLF(text, k)
  BY DEF LineEnds
<1>2. EndsInside(text, 2, end)
  <2> SUFFICES ASSUME NEW k \in 0..n, end[k] # npos
               PROVE  end[k] \in Nat /\ k <= end[k] /\ end[k] + 2 <= n
    BY DEF EndsInside
  <2>1. k \in Nat /\ end[k] = FindCRLF(text, k)
    BY <1>1
  <2> HIDE DEF end
  <2> QED
    BY <2>1, LineEndFound
<1> HIDE DEF end
<1>3. \A f : Is(f) <=> f = [k \in 0..n |-> f[k]] /\ Cutting(text, 2, end, f)
  <2> SUFFICES ASSUME NEW f PROVE Is(f) <=> f = [k \in 0..n |-> f[k]] /\ Cutting(text, 2, end, f)
    OBVIOUS
  <2>1. Cutting(text, 2, end, f) <=> \A k \in 0..n : f[k] = Step(f, k)
    BY <1>1 DEF Cutting
  <2>2. Is(f) <=> f = [k \in 0..n |-> f[k]] /\ \A k \in 0..n : f[k] = Step(f, k)
    <3> HIDE DEF Step, n
    <3> QED
      OBVIOUS
  <2> HIDE DEF Is, Step, n
  <2> QED
    BY <2>1, <2>2
<1>4. \E f : Is(f)
  <2>1. PICK f \in [0..n -> T] : Cutting(text, 2, end, f)
    <3>1. 2 \in Nat \ {0}
      OBVIOUS
    <3> QED
      BY <1>2, <3>1, CutsFound
  <2>2. f = [k \in 0..n |-> f[k]]
    <3> HIDE DEF T
    <3> QED
      OBVIOUS
  <2> HIDE DEF Is, n
  <2> QED
    BY <1>3, <2>1, <2>2
<1>5. Is(from)
  <2> HIDE DEF Is
  <2> QED
    BY <1>4
<1>6. Lines(text) = from[0]
  BY DEF Lines
<1> HIDE DEF from, Is
<1>7. from = [k \in 0..n |-> from[k]] /\ Cutting(text, 2, end, from)
  BY <1>3, <1>5
<1>8. \A k \in 0..n : from[k] \in T
  <2>1. 2 \in Nat \ {0}
    OBVIOUS
  <2> QED
    BY <1>2, <1>7, <2>1, CutsType
<1>9. from \in [0..n -> T]
  <2> HIDE DEF T, n
  <2> QED
    BY <1>7, <1>8
<1> QED
  BY <1>6, <1>7, <1>9 DEF end

LEMMA LinesType ==
    ASSUME NEW S, NEW text \in Seq(S)
    PROVE  Lines(text) \in Seq(Seq(S))
<1>1. Len(text) \in Nat
  OBVIOUS
<1>2. 0 \in 0..Len(text)
  BY <1>1
<1> QED
  BY <1>2, LinesFound

=============================================================================
