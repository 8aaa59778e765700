---------------------------- MODULE ConfigFile_proofs ----------------------------
(***************************************************************************)
(* config.yaml, proved for any files in the layout of the repository's own,   *)
(* any number of saves, failed writes and restarts.                           *)
(***************************************************************************)
EXTENDS ConfigFile, TLAPS, SequenceTheorems, FiniteSetTheorems, WellFoundedInduction

-----------------------------------------------------------------------------
(* Least and greatest numbers *)

(* The natural numbers are well ordered. *)
LEMMA LeastExists ==
  ASSUME NEW S \in SUBSET Nat, S # {}
  PROVE  \E x \in S : \A y \in S : x <= y
<1> DEFINE T == {0 .. n : n \in S}
<1>1. \A n \in Nat : 0 .. n \in FiniteSubsetsOf(Nat)
  BY FS_Interval DEF FiniteSubsetsOf
<1>2. T \subseteq FiniteSubsetsOf(Nat) /\ T # {}
  BY <1>1
<1>3. PICK t \in T : \A u \in T : ~ (<<u, t>> \in StrictSubsetOrdering(Nat))
  BY <1>2, FS_StrictSubsetOrderingWellFounded, WFMin
<1>4. PICK x \in S : t = 0 .. x
  BY <1>3
<1>5. ASSUME NEW y \in S, y < x
      PROVE  FALSE
  <2>1. 0 .. y \in T /\ 0 .. y \subseteq t /\ x \in t /\ x \notin 0 .. y
    BY <1>4, <1>5
  <2>2. 0 .. y \in SUBSET Nat /\ t \in SUBSET Nat
    BY <1>4, <1>5
  <2>3. QED
    BY <1>3, <2>1, <2>2 DEF StrictSubsetOrdering
<1>6. QED
  BY <1>5

LEMMA GreatestExists ==
  ASSUME NEW S \in SUBSET Nat, S # {}, NEW n \in Nat, \A y \in S : y <= n
  PROVE  \E x \in S : \A y \in S : y <= x
<1> DEFINE T == {m \in Nat : \A y \in S : y <= m}
<1>1. T \in SUBSET Nat /\ n \in T
  OBVIOUS
<1>2. PICK x \in T : \A u \in T : x <= u
  BY <1>1, LeastExists
<1>3. ASSUME x \notin S
      PROVE  FALSE
  <2>1. PICK y \in S : TRUE
    OBVIOUS
  <2>2. x \in Nat /\ \A z \in S : z \in Nat /\ z <= x /\ z # x
    BY <1>2, <1>3
  <2>3. x - 1 \in Nat /\ \A z \in S : z <= x - 1
    BY <2>1, <2>2
  <2>4. x - 1 \in T
    BY <2>3
  <2>5. QED
    BY <1>2, <2>2, <2>4
<1>4. QED
  BY <1>2, <1>3

LEMMA LeastOf ==
  ASSUME NEW S \in SUBSET Nat, NEW d
  PROVE  /\ S = {} => Least(S, d) = d
         /\ S # {} => Least(S, d) \in S /\ \A y \in S : Least(S, d) <= y
  BY LeastExists DEF Least, Min

LEMMA GreatestOf ==
  ASSUME NEW S \in SUBSET Nat, NEW d, NEW n \in Nat, \A y \in S : y <= n
  PROVE  /\ S = {} => Greatest(S, d) = d
         /\ S # {} => Greatest(S, d) \in S /\ \A y \in S : y <= Greatest(S, d)
  BY GreatestExists DEF Greatest, Max

-----------------------------------------------------------------------------
(* Numbers in their order *)

Rank(S, i) == Cardinality({j \in S : j <= i})

LEMMA RankIncreases ==
  ASSUME NEW S \in SUBSET Nat, IsFiniteSet(S), NEW i \in S, NEW j \in S, i < j
  PROVE  Rank(S, i) < Rank(S, j)
<1> DEFINE I == {k \in S : k <= i}
           J == {k \in S : k <= j}
<1>0. i \in Nat /\ j \in Nat /\ \A k \in S : k \in Nat
  OBVIOUS
<1>1. I \subseteq J /\ J \subseteq S
  <2>1. \A k \in S : k <= i => k <= j
    BY <1>0
  <2>2. QED
    BY <2>1
<1>a. IsFiniteSet(J)
  BY <1>1, FS_Subset
<1>2. IsFiniteSet(I) /\ Cardinality(I) <= Cardinality(J) /\ (Cardinality(I) = Cardinality(J) => J = I)
  BY <1>1, <1>a, FS_Subset
<1>3. j \in J /\ j \notin I
  OBVIOUS
<1>4. Cardinality(I) \in Nat /\ Cardinality(J) \in Nat
  BY <1>a, <1>2, FS_CardinalityType
<1>5. QED
  BY <1>2, <1>3, <1>4 DEF Rank

LEMMA PairOf ==
  ASSUME NEW a, NEW b, NEW p, p = <<a, b>>
  PROVE  p[1] = a /\ p[2] = b
OBVIOUS

(* Each place is that of exactly one of the numbers. *)
LEMMA RankIsBijective ==
  ASSUME NEW S \in SUBSET Nat, IsFiniteSet(S)
  PROVE  /\ Cardinality(S) \in Nat
         /\ \A i \in S : Rank(S, i) \in 1 .. Cardinality(S)
         /\ \A i, j \in S : Rank(S, i) = Rank(S, j) => i = j
         /\ \A k \in 1 .. Cardinality(S) : \E i \in S : Rank(S, i) = k
<1> DEFINE f == [i \in S |-> Rank(S, i)]
           n == Cardinality(S)
<1>1. n \in Nat
  BY FS_CardinalityType
<1>2. ASSUME NEW i \in S
      PROVE  Rank(S, i) \in 1 .. n
  <2> DEFINE I == {k \in S : k <= i}
  <2>1. IsFiniteSet(I) /\ Cardinality(I) <= n /\ Cardinality(I) \in Nat
    BY FS_Subset, FS_CardinalityType
  <2>2. i \in I
    OBVIOUS
  <2>3. Cardinality(I) # 0
    BY <2>1, <2>2, FS_EmptySet
  <2>4. QED
    BY <1>1, <2>1, <2>3 DEF Rank
<1>3. \A i, j \in S : Rank(S, i) = Rank(S, j) => i = j
  <2> SUFFICES ASSUME NEW i \in S, NEW j \in S, i # j
               PROVE  Rank(S, i) # Rank(S, j)
    OBVIOUS
  <2>1. Rank(S, i) \in Nat /\ Rank(S, j) \in Nat
    BY <1>1, <1>2
  <2>2. i < j \/ j < i
    OBVIOUS
  <2>3. QED
    BY <2>1, <2>2, RankIncreases
<1>4. f \in Injection(S, 1 .. n)
  BY <1>2, <1>3 DEF Injection, IsInjective
<1>5. IsFiniteSet(1 .. n) /\ Cardinality(1 .. n) = n
  BY <1>1, FS_Interval
<1>6. f \in Surjection(S, 1 .. n)
  BY <1>4, <1>5, FS_Injection
<1>7. QED
  BY <1>1, <1>2, <1>3, <1>6 DEF Surjection

LEMMA OrderOf ==
  ASSUME NEW S \in SUBSET Nat, IsFiniteSet(S)
  PROVE  /\ Cardinality(S) \in Nat
         /\ InOrder(S) \in [1 .. Cardinality(S) -> S]
         /\ \A k \in 1 .. Cardinality(S), i \in S : InOrder(S)[k] = i <=> Rank(S, i) = k
<1> DEFINE ranked == {<<Rank(S, i), i>> : i \in S}
<1>1. InOrder(S) = [k \in 1 .. Cardinality(S) |-> (CHOOSE p \in ranked : p[1] = k)[2]]
  BY DEF InOrder, Rank
<1>2. ASSUME NEW k \in 1 .. Cardinality(S), NEW i \in S, Rank(S, i) = k
      PROVE  (CHOOSE p \in ranked : p[1] = k)[2] = i
  <2>1. <<Rank(S, i), i>> \in ranked
    OBVIOUS
  <2>2. <<Rank(S, i), i>>[1] = k
    BY <1>2, PairOf
  <2>3. PICK p : p = (CHOOSE q \in ranked : q[1] = k) /\ p \in ranked /\ p[1] = k
    BY <2>1, <2>2
  <2>4. PICK j \in S : p = <<Rank(S, j), j>>
    BY <2>3
  <2>5. p[1] = Rank(S, j) /\ p[2] = j
    BY <2>4, PairOf
  <2>6. j = i
    BY <1>2, <2>3, <2>5, RankIsBijective
  <2>7. QED
    BY <2>3, <2>5, <2>6
<1> HIDE DEF ranked
<1>3. QED
  BY <1>1, <1>2, RankIsBijective

(* Numbers that are moved without overtaking keep their order. *)
LEMMA OrderMoved ==
  ASSUME NEW S \in SUBSET Nat, IsFiniteSet(S), NEW T \in SUBSET Nat, NEW f \in [S -> T],
         \A i, j \in S : i < j => f[i] < f[j], \A t \in T : \E i \in S : f[i] = t
  PROVE  /\ IsFiniteSet(T) /\ Cardinality(T) = Cardinality(S)
         /\ InOrder(T) = [k \in 1 .. Cardinality(S) |-> f[InOrder(S)[k]]]
<1>0. \A i, j \in S : /\ i \in Nat /\ j \in Nat /\ f[i] \in Nat /\ f[j] \in Nat
                      /\ i <= j <=> f[i] <= f[j]
                      /\ f[i] = f[j] => i = j
  <2> SUFFICES ASSUME NEW i \in S, NEW j \in S
               PROVE  /\ i \in Nat /\ j \in Nat /\ f[i] \in Nat /\ f[j] \in Nat
                      /\ i <= j <=> f[i] <= f[j]
                      /\ f[i] = f[j] => i = j
    OBVIOUS
  <2>1. i \in Nat /\ j \in Nat /\ f[i] \in Nat /\ f[j] \in Nat
    OBVIOUS
  <2>2. i < j \/ i = j \/ j < i
    BY <2>1
  <2>3. QED
    BY <2>1, <2>2
<1>1. f \in Bijection(S, T)
  BY <1>0 DEF Bijection, Injection, Surjection, IsInjective
<1>2. IsFiniteSet(T) /\ Cardinality(T) = Cardinality(S)
  BY <1>1, FS_Bijection DEF ExistsBijection
<1>3. ASSUME NEW i \in S
      PROVE  Rank(T, f[i]) = Rank(S, i)
  <2> DEFINE I == {j \in S : j <= i}
             J == {t \in T : t <= f[i]}
             g == [j \in I |-> f[j]]
  <2>1. \A j \in I : g[j] \in J
    BY <1>0
  <2>2. \A t \in J : \E j \in I : g[j] = t
    BY <1>0
  <2>3. \A j, k \in I : g[j] = g[k] => j = k
    BY <1>0
  <2>4. g \in Bijection(I, J)
    BY <2>1, <2>2, <2>3 DEF Bijection, Injection, Surjection, IsInjective
  <2>5. IsFiniteSet(I)
    BY FS_Subset
  <2>6. Cardinality(J) = Cardinality(I)
    BY <2>4, <2>5, FS_Bijection DEF ExistsBijection
  <2>7. QED
    BY <2>6 DEF Rank
<1>4. ASSUME NEW k \in 1 .. Cardinality(S)
      PROVE  InOrder(T)[k] = f[InOrder(S)[k]]
  <2>1. InOrder(S)[k] \in S
    BY OrderOf
  <2>2. Rank(S, InOrder(S)[k]) = k
    BY <2>1, OrderOf
  <2>3. Rank(T, f[InOrder(S)[k]]) = k /\ f[InOrder(S)[k]] \in T
    BY <1>3, <2>1, <2>2
  <2>4. k \in 1 .. Cardinality(T)
    BY <1>2
  <2>5. \A l \in 1 .. Cardinality(T), t \in T : InOrder(T)[l] = t <=> Rank(T, t) = l
    BY <1>2, OrderOf
  <2>6. QED
    BY <2>3, <2>4, <2>5
<1>5. InOrder(T) \in [1 .. Cardinality(S) -> T]
  BY <1>2, OrderOf
<1>6. InOrder(T) = [k \in 1 .. Cardinality(S) |-> InOrder(T)[k]]
  BY <1>5
<1>7. QED
  BY <1>2, <1>4, <1>6

LEMMA NoneInOrder == InOrder({}) = <<>>
<1>1. Cardinality({}) = 0 /\ IsFiniteSet({})
  BY FS_EmptySet
<1>2. InOrder({}) = [k \in 1 .. 0 |-> InOrder({})[k]]
  BY <1>1, OrderOf
<1>3. QED
  BY <1>2

LEMMA IntervalInOrder ==
  ASSUME NEW a \in Nat, NEW n \in Nat
  PROVE  InOrder(a + 1 .. a + n) = [k \in 1 .. n |-> a + k]
<1> DEFINE S == a + 1 .. a + n
<1>1. IsFiniteSet(S) /\ Cardinality(S) = n /\ S \in SUBSET Nat
  BY FS_Interval
<1>2. ASSUME NEW k \in 1 .. n
      PROVE  Rank(S, a + k) = k
  <2>1. {j \in S : j <= a + k} = a + 1 .. a + k
    OBVIOUS
  <2>2. Cardinality(a + 1 .. a + k) = IF a + 1 > a + k THEN 0 ELSE (a + k) - (a + 1) + 1
    BY FS_Interval
  <2>3. Rank(S, a + k) = Cardinality(a + 1 .. a + k)
    BY <2>1 DEF Rank
  <2>4. QED
    BY <2>2, <2>3
<1>3. ASSUME NEW k \in 1 .. n
      PROVE  InOrder(S)[k] = a + k
  BY <1>1, <1>2, OrderOf
<1>4. InOrder(S) = [k \in 1 .. n |-> InOrder(S)[k]]
  BY <1>1, OrderOf
<1>5. QED
  BY <1>3, <1>4

(* The least of numbers that are moved without overtaking moves with them. *)
LEMMA LeastMoved ==
  ASSUME NEW S \in SUBSET Nat, NEW T \in SUBSET Nat, NEW f,
         \A i \in S : f[i] \in T, \A i, j \in S : i < j => f[i] < f[j],
         \A t \in T : \E i \in S : f[i] = t
  PROVE  Least(T, 0) = IF S = {} THEN 0 ELSE f[Least(S, 0)]
<1>1. CASE S = {}
  <2>1. T = {}
    BY <1>1
  <2>2. QED
    BY <1>1, <2>1 DEF Least
<1>2. CASE S # {}
  <2> DEFINE s == Least(S, 0)
             t == Least(T, 0)
  <2>1. s \in S /\ \A i \in S : s <= i
    BY <1>2, LeastOf
  <2>2. f[s] \in T
    BY <2>1
  <2>3. t \in T /\ t <= f[s]
    BY <2>2, LeastOf
  <2>4. PICK i \in S : f[i] = t
    BY <2>3
  <2>a. s \in Nat /\ i \in Nat /\ s <= i
    BY <2>1
  <2>5. s = i \/ s < i
    BY <2>a
  <2>6. s < i => f[s] < f[i]
    BY <2>1
  <2>7. f[s] \in Nat /\ t \in Nat
    BY <2>2, <2>3
  <2> HIDE DEF s, t
  <2>8. t = f[s]
    BY <2>3, <2>4, <2>5, <2>6, <2>7
  <2>9. QED
    BY <1>2, <2>8 DEF s, t
<1>3. QED
  BY <1>1, <1>2

-----------------------------------------------------------------------------
(* The line that a line belongs to *)

LEMMA LinesOf ==
  ASSUME NEW lines \in Seq(Line)
  PROVE  /\ DOMAIN lines = 1 .. Len(lines) /\ Len(lines) \in Nat
         /\ \A i \in DOMAIN lines : /\ lines[i] \in Line
                                    /\ lines[i].ind \in Nat /\ Depth(lines[i]) \in Nat
         /\ Content(lines) \subseteq DOMAIN lines /\ Content(lines) \in SUBSET Nat
         /\ IsFiniteSet(DOMAIN lines) /\ IsFiniteSet(Content(lines))
<1>1. DOMAIN lines = 1 .. Len(lines) /\ Len(lines) \in Nat
  OBVIOUS
<1>2. \A i \in DOMAIN lines : lines[i] \in Line
  BY <1>1
<1>3. \A i \in DOMAIN lines : lines[i].ind \in Nat
  BY <1>2 DEF Line
<1>4. \A i \in DOMAIN lines : Depth(lines[i]) \in Nat
  BY <1>3 DEF Depth
<1>5. Content(lines) \subseteq DOMAIN lines
  BY DEF Content
<1>6. IsFiniteSet(DOMAIN lines)
  BY <1>1, FS_Interval
<1>7. IsFiniteSet(Content(lines))
  BY <1>5, <1>6, FS_Subset
<1>8. QED
  BY <1>1, <1>2, <1>3, <1>4, <1>5, <1>6, <1>7

(* p is the line that line i belongs to. *)
IsParent(lines, i, p) ==
  /\ p \in 0 .. i - 1
  /\ p # 0 => HasContent(lines[p]) /\ Depth(lines[p]) < Depth(lines[i])
  /\ \A j \in p + 1 .. i - 1 : HasContent(lines[j]) => Depth(lines[i]) <= Depth(lines[j])

LEMMA ParentIs ==
  ASSUME NEW lines \in Seq(Line), NEW i \in DOMAIN lines
  PROVE  /\ Parents(lines)[i] = Parent(lines, i)
         /\ IsParent(lines, i, Parents(lines)[i])
         /\ \A p : IsParent(lines, i, p) => p = Parents(lines)[i]
<1> DEFINE above == {j \in 1 .. i - 1 : HasContent(lines[j]) /\ Depth(lines[j]) < Depth(lines[i])}
           g == Greatest(above, 0)
<1>0. i \in Nat /\ i >= 1 /\ i <= Len(lines) /\ Len(lines) \in Nat /\ DOMAIN lines = 1 .. Len(lines)
      /\ \A j \in 1 .. i : Depth(lines[j]) \in Nat
  BY LinesOf
<1>1. Parents(lines)[i] = Parent(lines, i)
  <2> DEFINE f == [j \in DOMAIN lines |-> Parent(lines, j)]
  <2>1. SubSeq(f, 1, Len(lines)) = [j \in 1 .. (Len(lines) - 1 + 1) |-> f[j + 1 - 1]]
    OBVIOUS
  <2>2. i \in 1 .. (Len(lines) - 1 + 1) /\ i + 1 - 1 = i
    BY <1>0
  <2>3. QED
    BY <2>1, <2>2 DEF Parents
<1>2. Parent(lines, i) = g
  BY DEF Parent
<1>3. above \in SUBSET Nat /\ \A y \in above : y <= i - 1
  BY <1>0
<1>4. /\ above = {} => g = 0
      /\ above # {} => g \in above /\ \A y \in above : y <= g
  <2> HIDE DEF above
  <2>1. i - 1 \in Nat
    BY <1>0
  <2>2. QED
    BY <1>3, <2>1, GreatestOf
<1>5. IsParent(lines, i, g)
  <2> HIDE DEF g
  <2>1. g \in 0 .. i - 1
    BY <1>0, <1>4
  <2>2. \A j \in g + 1 .. i - 1 : j \in 1 .. i - 1 /\ j \notin above
    <3> HIDE DEF above
    <3>1. QED
      BY <1>0, <1>3, <1>4, <2>1
  <2>3. \A j \in g + 1 .. i - 1 : HasContent(lines[j]) => Depth(lines[i]) <= Depth(lines[j])
    BY <1>0, <2>2
  <2>4. g # 0 => HasContent(lines[g]) /\ Depth(lines[g]) < Depth(lines[i])
    BY <1>4
  <2>5. QED
    BY <2>1, <2>3, <2>4 DEF IsParent
<1>6. ASSUME NEW p, IsParent(lines, i, p)
      PROVE  p = g
  <2> HIDE DEF g
  <2>1. p \in Nat /\ g \in Nat /\ p < i /\ g < i
    BY <1>0, <1>5, <1>6 DEF IsParent
  <2>2. ~ (p < g) /\ ~ (g < p)
    BY <1>0, <1>5, <1>6, <2>1 DEF IsParent
  <2>3. QED
    BY <2>1, <2>2
<1>7. QED
  BY <1>1, <1>2, <1>5, <1>6

-----------------------------------------------------------------------------
(* Lines of one text that stand in another *)

(* The lines D of text A stand in text B, line i at m[i], in their order and    *)
(* with the same lines below them, and no others.                             *)
Carries(A, B, m, D) ==
  /\ D \subseteq Content(A)
  /\ \A i \in D : m[i] \in DOMAIN B /\ B[m[i]] = A[i]
  /\ \A i, j \in D : i < j => m[i] < m[j]
  /\ \A i \in D, j \in Content(A) :
       Parents(A)[j] = i => j \in D /\ Parents(B)[m[j]] = m[i]
  /\ \A i \in D, k \in Content(B) :
       Parents(B)[k] = m[i] => \E j \in D : m[j] = k /\ Parents(A)[j] = i

LEMMA ChildCarried ==
  ASSUME NEW A \in Seq(Line), NEW B \in Seq(Line), NEW m, NEW D, Carries(A, B, m, D),
         NEW p \in D, NEW key
  PROVE  /\ At(A, Parents(A), p, key) \in D \cup {0}
         /\ At(B, Parents(B), m[p], key) =
              IF At(A, Parents(A), p, key) = 0 THEN 0 ELSE m[At(A, Parents(A), p, key)]
<1> DEFINE S == {i \in DOMAIN A : IsKey(A[i], {key}) /\ Parents(A)[i] = p}
           T == {i \in DOMAIN B : IsKey(B[i], {key}) /\ Parents(B)[i] = m[p]}
<1>0. /\ DOMAIN A \subseteq Nat \ {0} /\ DOMAIN B \subseteq Nat
      /\ \A i \in DOMAIN A : IsKey(A[i], {key}) => i \in Content(A)
      /\ \A i \in DOMAIN B : IsKey(B[i], {key}) => i \in Content(B)
  BY LinesOf DEF IsKey, Content, HasContent
<1>1. S \in SUBSET Nat /\ T \in SUBSET Nat /\ S \subseteq D
  BY <1>0 DEF Carries
<1>2. \A i \in S : m[i] \in T
  BY <1>0, <1>1 DEF Carries
<1>3. \A i, j \in S : i < j => m[i] < m[j]
  BY <1>1 DEF Carries
<1>4. \A t \in T : \E i \in S : m[i] = t
  <2> SUFFICES ASSUME NEW t \in T PROVE \E i \in S : m[i] = t
    OBVIOUS
  <2>1. t \in Content(B) /\ Parents(B)[t] = m[p] /\ IsKey(B[t], {key})
    BY <1>0
  <2>2. PICK j \in D : m[j] = t /\ Parents(A)[j] = p
    BY <2>1 DEF Carries
  <2>3. j \in DOMAIN A /\ A[j] = B[t]
    BY <2>2, LinesOf DEF Carries
  <2>4. QED
    BY <2>1, <2>2, <2>3
<1>5. Least(T, 0) = IF S = {} THEN 0 ELSE m[Least(S, 0)]
  <2> HIDE DEF S, T
  <2>1. QED
    BY <1>1, <1>2, <1>3, <1>4, LeastMoved
<1>6. (S = {} => Least(S, 0) = 0) /\ (S # {} => Least(S, 0) \in S)
  BY <1>1, LeastOf
<1>7. At(A, Parents(A), p, key) = Least(S, 0) /\ At(B, Parents(B), m[p], key) = Least(T, 0)
  BY DEF At
<1>8. S # {} => Least(S, 0) # 0 /\ Least(S, 0) \in D
  BY <1>0, <1>1, <1>6
<1> HIDE DEF S, T
<1>9. QED
  BY <1>5, <1>6, <1>7, <1>8

LEMMA ItemsCarried ==
  ASSUME NEW A \in Seq(Line), NEW B \in Seq(Line), NEW m, NEW D, Carries(A, B, m, D), NEW p \in D, 0 \notin DOMAIN B
  PROVE  LET a == ItemsBelow(A, Parents(A), p)
             b == ItemsBelow(B, Parents(B), m[p])
         IN /\ DOMAIN b = DOMAIN a
            /\ \A k \in DOMAIN a : a[k] \in D /\ b[k] = m[a[k]]
            /\ \E n \in Nat : DOMAIN a = 1 .. n
<1> DEFINE S == {j \in DOMAIN A : A[j].kind = "item" /\ Parents(A)[j] = p}
           T == {j \in DOMAIN B : B[j].kind = "item" /\ Parents(B)[j] = m[p]}
           f == [i \in S |-> m[i]]
<1>0. /\ DOMAIN A \subseteq Nat \ {0} /\ DOMAIN B \subseteq Nat
      /\ \A i \in DOMAIN A : A[i].kind = "item" => i \in Content(A)
      /\ \A i \in DOMAIN B : B[i].kind = "item" => i \in Content(B)
  BY LinesOf DEF Content, HasContent
<1>1. S \in SUBSET Nat /\ T \in SUBSET Nat /\ S \subseteq D
  BY <1>0 DEF Carries
<1>a. IsFiniteSet(S)
  BY LinesOf, FS_Subset
<1>2. \A i \in S : m[i] \in T
  BY <1>0, <1>1 DEF Carries
<1>3. \A i, j \in S : i < j => m[i] < m[j]
  BY <1>1 DEF Carries
<1>4. \A t \in T : \E i \in S : m[i] = t
  <2> SUFFICES ASSUME NEW t \in T PROVE \E i \in S : m[i] = t
    OBVIOUS
  <2>1. t \in Content(B) /\ Parents(B)[t] = m[p] /\ B[t].kind = "item"
    BY <1>0
  <2>2. PICK j \in D : m[j] = t /\ Parents(A)[j] = p
    BY <2>1 DEF Carries
  <2>3. j \in DOMAIN A /\ A[j] = B[t]
    BY <2>2, LinesOf DEF Carries
  <2>4. QED
    BY <2>1, <2>2, <2>3
<1>5. m[p] # 0 /\ p # 0
  BY <1>0, LinesOf DEF Carries
<1>6. ItemsBelow(A, Parents(A), p) = InOrder(S) /\ ItemsBelow(B, Parents(B), m[p]) = InOrder(T)
  BY <1>5 DEF ItemsBelow
<1> HIDE DEF S, T
<1>7. f \in [S -> T] /\ (\A i, j \in S : i < j => f[i] < f[j]) /\ (\A t \in T : \E i \in S : f[i] = t)
  BY <1>2, <1>3, <1>4
<1>8. InOrder(T) = [k \in 1 .. Cardinality(S) |-> f[InOrder(S)[k]]]
  <2> HIDE DEF f
  <2>1. QED
    BY <1>1, <1>a, <1>7, OrderMoved
<1>9. InOrder(S) \in [1 .. Cardinality(S) -> S] /\ Cardinality(S) \in Nat
  BY <1>1, <1>a, OrderOf
<1>10. QED
  BY <1>1, <1>6, <1>8, <1>9

(* The empty text, by a name: the provers take it for one. *)
Blank == ""

(* What the program reads below a line. *)
Meaning(lines, f) ==
  LET parent   == Parents(lines)
      networks == ItemsBelow(lines, parent, Child(lines, parent, f, "networks"))
      items    == ItemsBelow(lines, parent, f)
  IN [found    |-> f # 0,
      val      |-> Scalar(lines, f, Blank),
      vals     |-> Values(lines, items),
      mode     |-> Scalar(lines, Child(lines, parent, f, "mode"), Blank),
      networks |-> Values(lines, networks),
      rules    |-> [k \in DOMAIN items |->
                      [name |-> lines[items[k]].val,
                       size |-> Scalar(lines, Child(lines, parent, items[k], "max_size"), Blank)]]]

LEMMA MeaningCarried ==
  ASSUME NEW A \in Seq(Line), NEW B \in Seq(Line), NEW m, NEW D, Carries(A, B, m, D), NEW f \in D
  PROVE  Meaning(B, m[f]) = Meaning(A, f)
<1> DEFINE PA == Parents(A)
           PB == Parents(B)
<1>0. 0 \notin DOMAIN A /\ 0 \notin DOMAIN B
  BY LinesOf
<1>1. \A i \in D : i # 0 /\ m[i] # 0 /\ B[m[i]] = A[i]
  BY <1>0, LinesOf DEF Carries
<1>2. ASSUME NEW p \in D, NEW key
      PROVE  /\ Child(A, PA, p, key) \in D \cup {0}
             /\ Child(B, PB, m[p], key) =
                  IF Child(A, PA, p, key) = 0 THEN 0 ELSE m[Child(A, PA, p, key)]
             /\ Scalar(B, Child(B, PB, m[p], key), Blank) = Scalar(A, Child(A, PA, p, key), Blank)
  <2>1. Child(A, PA, p, key) = At(A, PA, p, key) /\ Child(B, PB, m[p], key) = At(B, PB, m[p], key)
    BY <1>1 DEF Child
  <2>a. /\ At(A, PA, p, key) \in D \cup {0}
        /\ At(B, PB, m[p], key) = IF At(A, PA, p, key) = 0 THEN 0 ELSE m[At(A, PA, p, key)]
    BY ChildCarried
  <2> HIDE DEF PA, PB
  <2>2. /\ Child(A, PA, p, key) \in D \cup {0}
        /\ Child(B, PB, m[p], key) =
             IF Child(A, PA, p, key) = 0 THEN 0 ELSE m[Child(A, PA, p, key)]
    BY <2>1, <2>a
  <2>3. QED
    BY <1>1, <2>2 DEF Scalar
<1>3. ASSUME NEW p \in D
      PROVE  LET a == ItemsBelow(A, PA, p)
                 b == ItemsBelow(B, PB, m[p])
             IN /\ DOMAIN b = DOMAIN a /\ \A k \in DOMAIN a : a[k] \in D /\ b[k] = m[a[k]]
                /\ Values(B, b) = Values(A, a)
  <2> DEFINE a == ItemsBelow(A, PA, p)
             b == ItemsBelow(B, PB, m[p])
  <2>1. DOMAIN b = DOMAIN a /\ \A k \in DOMAIN a : a[k] \in D /\ b[k] = m[a[k]]
    BY <1>0, ItemsCarried
  <2> HIDE DEF a, b
  <2>2. Values(B, b) = Values(A, a)
    BY <1>1, <2>1 DEF Values
  <2>3. QED
    BY <2>1, <2>2 DEF a, b
<1> HIDE DEF PA, PB
<1>4. Scalar(B, m[f], Blank) = Scalar(A, f, Blank)
  BY <1>1 DEF Scalar
<1>5. Values(B, ItemsBelow(B, PB, Child(B, PB, m[f], "networks")))
        = Values(A, ItemsBelow(A, PA, Child(A, PA, f, "networks")))
  <2> DEFINE c == Child(A, PA, f, "networks")
             d == Child(B, PB, m[f], "networks")
  <2>1. c \in D \cup {0} /\ d = IF c = 0 THEN 0 ELSE m[c]
    BY <1>2
  <2> HIDE DEF c, d
  <2>2. CASE c = 0
    <3>1. ItemsBelow(A, PA, c) = <<>> /\ ItemsBelow(B, PB, d) = <<>>
      BY <2>1, <2>2 DEF ItemsBelow
    <3>2. QED
      BY <3>1 DEF Values, c, d
  <2>3. CASE c # 0
    <3>1. c \in D /\ d = m[c]
      BY <2>1, <2>3
    <3>2. Values(B, ItemsBelow(B, PB, d)) = Values(A, ItemsBelow(A, PA, c))
      BY <1>3, <3>1
    <3>3. QED
      BY <3>2 DEF c, d
  <2>4. QED
    BY <2>2, <2>3
<1>6. LET a == ItemsBelow(A, PA, f)
          b == ItemsBelow(B, PB, m[f])
      IN [k \in DOMAIN b |->
            [name |-> B[b[k]].val, size |-> Scalar(B, Child(B, PB, b[k], "max_size"), Blank)]]
         = [k \in DOMAIN a |->
            [name |-> A[a[k]].val, size |-> Scalar(A, Child(A, PA, a[k], "max_size"), Blank)]]
  <2> DEFINE a == ItemsBelow(A, PA, f)
             b == ItemsBelow(B, PB, m[f])
  <2>1. DOMAIN b = DOMAIN a /\ \A k \in DOMAIN a : a[k] \in D /\ b[k] = m[a[k]]
    BY <1>3
  <2> HIDE DEF a, b
  <2>2. ASSUME NEW k \in DOMAIN a
        PROVE  /\ B[b[k]].val = A[a[k]].val
               /\ Scalar(B, Child(B, PB, b[k], "max_size"), Blank) = Scalar(A, Child(A, PA, a[k], "max_size"), Blank)
    <3>1. a[k] \in D /\ b[k] = m[a[k]]
      BY <2>1
    <3>2. B[b[k]].val = A[a[k]].val
      BY <1>1, <3>1
    <3>3. Scalar(B, Child(B, PB, b[k], "max_size"), Blank) = Scalar(A, Child(A, PA, a[k], "max_size"), Blank)
      BY <1>2, <3>1
    <3>4. QED
      BY <3>2, <3>3
  <2>3. QED
    BY <2>1, <2>2 DEF a, b
<1>7. Scalar(B, Child(B, PB, m[f], "mode"), Blank) = Scalar(A, Child(A, PA, f, "mode"), Blank)
  BY <1>2
<1>8. Values(B, ItemsBelow(B, PB, m[f])) = Values(A, ItemsBelow(A, PA, f))
  BY <1>3
<1>9. m[f] # 0 /\ f # 0
  BY <1>1
<1>10. QED
  BY <1>4, <1>5, <1>6, <1>7, <1>8, <1>9 DEF Meaning, PA, PB

-----------------------------------------------------------------------------
(* Tidy texts *)

(* The lines stand as Tidy has it, the outermost ones at this indentation. *)
Shape(lines, base) ==
  \A i \in Content(lines) :
    LET p == Parents(lines)[i] IN
    /\ lines[i].kind \in {"key", "item"}
    /\ p = 0 => lines[i].kind = "key" /\ lines[i].ind = base
    /\ p # 0 => /\ lines[i].ind = lines[p].ind + 1
                /\ lines[p].kind = "item" => lines[i].kind = "key"
                /\ lines[p].kind = "key" => Bare(lines[p])
                /\ IsKey(lines[p], Sections) => lines[i].kind = "key"
    /\ IsKey(lines[i], Sections) => lines[i].ind = 0
    /\ IsKey(lines[i], {"enable"}) => lines[i].ind = 1
    /\ IsKey(lines[i], EditedInPlace) => ~Bare(lines[i])
    /\ \A j \in Content(lines) :
         j < i /\ Parents(lines)[j] = p =>
           lines[i].kind = lines[j].kind /\ (lines[i].kind = "key" => lines[i].key # lines[j].key)

LEMMA ContentOf ==
  ASSUME NEW lines \in Seq(Line), NEW i \in Content(lines)
  PROVE  /\ i \in DOMAIN lines /\ i \in Nat /\ HasContent(lines[i])
         /\ lines[i].kind \notin {"comment", "blank"} /\ lines[i].kind \in Kinds
         /\ Parents(lines)[i] = 0 \/ Parents(lines)[i] \in Content(lines)
         /\ Parents(lines)[i] \in 0 .. i - 1
         /\ lines[i].ind \in Nat
         /\ lines[i].kind = "item" => Depth(lines[i]) = 2 * lines[i].ind + 1
         /\ lines[i].kind # "item" => Depth(lines[i]) = 2 * lines[i].ind
<1>1. i \in DOMAIN lines /\ i \in Nat /\ HasContent(lines[i]) /\ lines[i].kind \notin {"comment", "blank"}
      /\ lines[i].kind \in Kinds /\ lines[i].ind \in Nat /\ DOMAIN lines = 1 .. Len(lines) /\ Len(lines) \in Nat
  BY LinesOf DEF Content, HasContent, Line
<1>2. IsParent(lines, i, Parents(lines)[i])
  BY <1>1, ParentIs
<1>3. Parents(lines)[i] \in 0 .. i - 1
  BY <1>2 DEF IsParent
<1>4. Parents(lines)[i] # 0 => Parents(lines)[i] \in Content(lines)
  BY <1>1, <1>2, <1>3 DEF IsParent, Content
<1>5. QED
  BY <1>1, <1>3, <1>4 DEF Depth

LEMMA ShapeOf ==
  ASSUME NEW lines, NEW base \in Nat, Shape(lines, base), NEW i \in Content(lines)
  PROVE  /\ lines[i].kind \in {"key", "item"}
         /\ Parents(lines)[i] = 0 => lines[i].kind = "key" /\ lines[i].ind = base
         /\ Parents(lines)[i] # 0 =>
              /\ lines[i].ind = lines[Parents(lines)[i]].ind + 1
              /\ lines[Parents(lines)[i]].kind = "item" => lines[i].kind = "key"
              /\ lines[Parents(lines)[i]].kind = "key" => Bare(lines[Parents(lines)[i]])
              /\ IsKey(lines[Parents(lines)[i]], Sections) => lines[i].kind = "key"
         /\ IsKey(lines[i], Sections) => lines[i].ind = 0
         /\ IsKey(lines[i], {"enable"}) => lines[i].ind = 1
         /\ IsKey(lines[i], EditedInPlace) => ~Bare(lines[i])
         /\ \A j \in Content(lines) :
              j < i /\ Parents(lines)[j] = Parents(lines)[i] =>
                lines[i].kind = lines[j].kind /\ (lines[i].kind = "key" => lines[i].key # lines[j].key)
  BY DEF Shape

LEMMA TidyIs ==
  ASSUME NEW lines \in Seq(Line)
  PROVE  Tidy(lines) <=> Shape(lines, 0) /\ \A i \in DOMAIN lines : lines[i].nl
<1> DEFINE P == Parents(lines)
<1>1. ASSUME Tidy(lines)
      PROVE  Shape(lines, 0)
  <2> SUFFICES ASSUME NEW i \in Content(lines)
               PROVE  LET p == Parents(lines)[i] IN
                      /\ lines[i].kind \in {"key", "item"}
                      /\ p = 0 => lines[i].kind = "key" /\ lines[i].ind = 0
                      /\ p # 0 => /\ lines[i].ind = lines[p].ind + 1
                                  /\ lines[p].kind = "item" => lines[i].kind = "key"
                                  /\ lines[p].kind = "key" => Bare(lines[p])
                                  /\ IsKey(lines[p], Sections) => lines[i].kind = "key"
                      /\ IsKey(lines[i], Sections) => lines[i].ind = 0
                      /\ IsKey(lines[i], {"enable"}) => lines[i].ind = 1
                      /\ IsKey(lines[i], EditedInPlace) => ~Bare(lines[i])
                      /\ \A j \in Content(lines) :
                           j < i /\ Parents(lines)[j] = p =>
                             lines[i].kind = lines[j].kind /\ (lines[i].kind = "key" => lines[i].key # lines[j].key)
    BY DEF Shape
  <2>1. Parses(lines)
    BY <1>1 DEF Tidy
  <2>2. lines[i].kind # "garbled"
    BY <2>1 DEF Parses
  <2>3. lines[i].kind \in {"key", "item"}
    BY <2>2, ContentOf DEF Kinds
  <2>4. P[i] = 0 => lines[i].kind = "key"
    BY <2>1 DEF Parses
  <2>5. P[i] # 0 => /\ lines[P[i]].kind = "item" => lines[i].kind = "key"
                    /\ lines[P[i]].kind = "key" => Bare(lines[P[i]])
    BY <2>1 DEF Parses
  <2>6. /\ lines[i].ind = IF P[i] = 0 THEN 0 ELSE lines[P[i]].ind + 1
        /\ P[i] # 0 /\ IsKey(lines[P[i]], Sections) => lines[i].kind = "key"
        /\ IsKey(lines[i], Sections) => lines[i].ind = 0
        /\ IsKey(lines[i], {"enable"}) => lines[i].ind = 1
        /\ IsKey(lines[i], EditedInPlace) => ~Bare(lines[i])
    BY <1>1 DEF Tidy
  <2>7. ASSUME NEW j \in Content(lines), j < i, P[j] = P[i]
        PROVE  lines[i].kind = lines[j].kind /\ (lines[i].kind = "key" => lines[i].key # lines[j].key)
    <3>1. Depth(lines[i]) = Depth(lines[j]) /\ (lines[i].kind = "key" => lines[i].key # lines[j].key)
      BY <2>1, <2>7 DEF Parses
    <3>2. lines[j].kind # "garbled"
      BY <2>1 DEF Parses
    <3>3. lines[j].kind \in {"key", "item"}
      BY <3>2, ContentOf DEF Kinds
    <3>4. /\ lines[i].ind \in Nat /\ lines[j].ind \in Nat
          /\ lines[i].kind = "item" => Depth(lines[i]) = 2 * lines[i].ind + 1
          /\ lines[i].kind # "item" => Depth(lines[i]) = 2 * lines[i].ind
          /\ lines[j].kind = "item" => Depth(lines[j]) = 2 * lines[j].ind + 1
          /\ lines[j].kind # "item" => Depth(lines[j]) = 2 * lines[j].ind
      BY ContentOf
    <3>5. \A x, y \in Nat : 2 * x + 1 # 2 * y
      OBVIOUS
    <3>6. lines[i].kind = "item" <=> lines[j].kind = "item"
      BY <3>1, <3>4, <3>5
    <3>7. QED
      BY <2>3, <3>1, <3>3, <3>6
  <2>8. QED
    BY <2>3, <2>4, <2>5, <2>6, <2>7
<1>2. ASSUME Shape(lines, 0), \A i \in DOMAIN lines : lines[i].nl
      PROVE  Tidy(lines)
  <2>1. ASSUME NEW i \in Content(lines)
        PROVE  /\ lines[i].kind \in {"key", "item"}
               /\ P[i] = 0 => lines[i].kind = "key" /\ lines[i].ind = 0
               /\ P[i] # 0 => /\ lines[i].ind = lines[P[i]].ind + 1
                              /\ lines[P[i]].kind = "item" => lines[i].kind = "key"
                              /\ lines[P[i]].kind = "key" => Bare(lines[P[i]])
                              /\ IsKey(lines[P[i]], Sections) => lines[i].kind = "key"
               /\ IsKey(lines[i], Sections) => lines[i].ind = 0
               /\ IsKey(lines[i], {"enable"}) => lines[i].ind = 1
               /\ IsKey(lines[i], EditedInPlace) => ~Bare(lines[i])
    BY <1>2 DEF Shape
  <2>2. ASSUME NEW i \in Content(lines), NEW j \in Content(lines), j < i, P[i] = P[j]
        PROVE  Depth(lines[i]) = Depth(lines[j]) /\ (lines[i].kind = "key" => lines[i].key # lines[j].key)
    <3>1. lines[i].kind = lines[j].kind /\ (lines[i].kind = "key" => lines[i].key # lines[j].key)
      BY <1>2, <2>2 DEF Shape
    <3>2. lines[i].ind = lines[j].ind
      <4>1. CASE P[i] = 0
        BY <2>1, <2>2, <4>1
      <4>2. CASE P[i] # 0
        <5>1. lines[i].ind = lines[P[i]].ind + 1
          BY <2>1, <4>2
        <5>2. lines[j].ind = lines[P[j]].ind + 1
          BY <2>1, <2>2, <4>2
        <5>3. QED
          BY <2>2, <5>1, <5>2
      <4>3. QED
        BY <4>1, <4>2
    <3>3. QED
      BY <3>1, <3>2 DEF Depth
  <2>3. \A i \in Content(lines) : P[i] # 0 => lines[P[i]].kind \in {"key", "item"}
    BY <2>1, ContentOf
  <2>4. ASSUME NEW i \in Content(lines), P[i] # 0, lines[P[i]].kind = "item"
        PROVE  lines[i].kind = "key" /\ lines[i].ind = lines[P[i]].ind + 1
    BY <2>1, <2>4
  <2>5. Parses(lines)
    BY <2>1, <2>2, <2>3, <2>4 DEF Parses
  <2>6. QED
    BY <1>2, <2>1, <2>5 DEF Tidy
<1>3. ASSUME Tidy(lines)
      PROVE  \A i \in DOMAIN lines : lines[i].nl
  BY <1>3 DEF Tidy
<1>4. QED
  BY <1>1, <1>2, <1>3

-----------------------------------------------------------------------------
(* Cutting lines out of a section and putting others in their place *)

Spliced(L, R, a, b) == SubSeq(L, 1, a - 1) \o R \o SubSeq(L, b + 1, Len(L))

(* Where a line that stays ends up, and where a new one does. *)
MovedTo(R, a, b, i) == IF i < a THEN i ELSE i + Len(R) - (b - a + 1)
PutAt(a, k) == a - 1 + k

(* The spliced lines are the lines that stay and the new ones, in this order.  *)
Places(L, R, a, b) ==
  LET N == Spliced(L, R, a, b)
      m(i) == MovedTo(R, a, b, i)
      stay == DOMAIN L \ (a .. b)
  IN /\ N \in Seq(Line) /\ Len(N) = Len(L) - (b - a + 1) + Len(R)
     /\ \A i \in stay : m(i) \in DOMAIN N /\ N[m(i)] = L[i]
     /\ \A k \in DOMAIN R : PutAt(a, k) \in DOMAIN N /\ N[PutAt(a, k)] = R[k]
     /\ \A j \in DOMAIN N : \/ \E i \in stay : j = m(i)
                            \/ \E k \in DOMAIN R : j = PutAt(a, k)
     /\ \A i, j \in stay : i < j <=> m(i) < m(j)
     /\ \A i \in stay, k \in DOMAIN R : /\ i < a => m(i) < PutAt(a, k)
                                        /\ i > b => PutAt(a, k) < m(i)

LEMMA SplicedLines ==
  ASSUME NEW L \in Seq(Line), NEW R \in Seq(Line), NEW a \in 1 .. Len(L) + 1, NEW b \in a - 1 .. Len(L)
  PROVE  Places(L, R, a, b)
<1> DEFINE n == Len(L)
           r == Len(R)
           A == SubSeq(L, 1, a - 1)
           C == SubSeq(L, b + 1, n)
           N == A \o R \o C
<1>0. n \in Nat /\ r \in Nat /\ a \in Nat /\ b \in Nat /\ a >= 1 /\ a <= n + 1 /\ b >= a - 1 /\ b <= n
      /\ DOMAIN L = 1 .. n /\ DOMAIN R = 1 .. r
  OBVIOUS
<1>1. A \in Seq(Line) /\ Len(A) = a - 1 /\ \A i \in 1 .. a - 1 : A[i] = L[i]
  <2>1. 1 .. a - 1 \subseteq 1 .. n
    BY <1>0
  <2>2. QED
    BY <1>0, <2>1, SubSeqProperties
<1>2. C \in Seq(Line) /\ Len(C) = n - b /\ \A i \in 1 .. n - b : C[i] = L[b + i]
  <2>1. b + 1 .. n \subseteq 1 .. n
    BY <1>0
  <2>2. /\ C \in Seq(Line) /\ Len(C) = IF b + 1 <= n THEN n - (b + 1) + 1 ELSE 0
        /\ \A i \in 1 .. n - (b + 1) + 1 : C[i] = L[b + 1 + i - 1]
    <3>1. b + 1 \in Int /\ n \in Int /\ \A i \in b + 1 .. n : L[i] \in Line
      BY <1>0, <2>1
    <3> HIDE DEF n
    <3>2. QED
      BY <3>1, SubSeqProperties
  <2>3. n - (b + 1) + 1 = n - b /\ \A i \in 1 .. n - b : b + 1 + i - 1 = b + i
    BY <1>0
  <2> HIDE DEF C, n
  <2>4. (IF b + 1 <= n THEN n - (b + 1) + 1 ELSE 0) = n - b
    BY <1>0
  <2>5. \A i \in 1 .. n - b : C[i] = L[b + i]
    <3>1. 1 .. n - b = 1 .. n - (b + 1) + 1
      BY <2>3
    <3>2. QED
      BY <2>2, <2>3, <3>1
  <2>6. QED
    BY <2>2, <2>4, <2>5
<1> HIDE DEF A, C, n, r
<1>3. A \o R \in Seq(Line) /\ Len(A \o R) = a - 1 + r
      /\ \A i \in 1 .. a - 1 + r : (A \o R)[i] = IF i <= a - 1 THEN A[i] ELSE R[i - (a - 1)]
  <2>1. /\ A \o R \in Seq(Line) /\ Len(A \o R) = Len(A) + Len(R)
        /\ \A i \in 1 .. Len(A) + Len(R) : (A \o R)[i] = IF i <= Len(A) THEN A[i] ELSE R[i - Len(A)]
    BY <1>1, ConcatProperties
  <2>2. Len(A) = a - 1 /\ Len(R) = r
    BY <1>1 DEF r
  <2>3. QED
    BY <2>1, <2>2
<1>4. N \in Seq(Line) /\ Len(N) = a - 1 + r + (n - b)
      /\ \A i \in 1 .. a - 1 + r + (n - b) :
            N[i] = IF i <= a - 1 + r THEN (A \o R)[i] ELSE C[i - (a - 1 + r)]
  <2> DEFINE B == A \o R
  <2>1. B \in Seq(Line) /\ Len(B) = a - 1 + r
    BY <1>3
  <2> HIDE DEF B
  <2>2. /\ B \o C \in Seq(Line) /\ Len(B \o C) = Len(B) + Len(C)
        /\ \A i \in 1 .. Len(B) + Len(C) : (B \o C)[i] = IF i <= Len(B) THEN B[i] ELSE C[i - Len(B)]
    BY <1>2, <2>1, ConcatProperties
  <2>3. /\ B \o C \in Seq(Line) /\ Len(B \o C) = a - 1 + r + (n - b)
        /\ \A i \in 1 .. a - 1 + r + (n - b) : (B \o C)[i] = IF i <= a - 1 + r THEN B[i] ELSE C[i - (a - 1 + r)]
    BY <1>2, <2>1, <2>2
  <2>4. N = B \o C
    BY DEF B
  <2> HIDE DEF N
  <2>5. QED
    BY <2>3, <2>4 DEF B
<1>5. DOMAIN N = 1 .. a - 1 + r + (n - b)
  BY <1>4
<1>6. N = Spliced(L, R, a, b)
  BY DEF Spliced, A, C, n
<1> DEFINE m(i) == MovedTo(R, a, b, i)
           stay == DOMAIN L \ (a .. b)
<1> HIDE DEF N
<1>7. \A i : m(i) = IF i < a THEN i ELSE i + r - (b - a + 1)
  BY DEF MovedTo, r
<1>8. \A i \in stay : i \in Nat /\ i >= 1 /\ i <= n /\ (i < a \/ i > b)
  BY <1>0
<1> HIDE DEF m
<1>9. ASSUME NEW i \in stay
      PROVE  m(i) \in DOMAIN N /\ N[m(i)] = L[i]
  <2>1. CASE i < a
    <3>1. m(i) = i /\ i \in 1 .. a - 1 /\ i \in 1 .. a - 1 + r /\ i <= a - 1 + r /\ i \in 1 .. a - 1 + r + (n - b)
      BY <1>0, <1>7, <1>8, <2>1
    <3>2. QED
      BY <1>1, <1>3, <1>4, <1>5, <3>1
  <2>2. CASE i > b
    <3>1. m(i) = i + r - (b - a + 1) /\ m(i) \in Int /\ m(i) > a - 1 + r
          /\ m(i) \in 1 .. a - 1 + r + (n - b) /\ m(i) - (a - 1 + r) = i - b /\ i - b \in 1 .. n - b /\ b + (i - b) = i
      BY <1>0, <1>7, <1>8, <2>2
    <3>2. N[m(i)] = C[m(i) - (a - 1 + r)]
      <4> DEFINE x == m(i)
      <4>1. x \in 1 .. a - 1 + r + (n - b) /\ ~ (x <= a - 1 + r)
        BY <1>0, <3>1
      <4> HIDE DEF x
      <4>2. N[x] = C[x - (a - 1 + r)]
        BY <1>4, <4>1
      <4>3. QED
        BY <4>2 DEF x
    <3>3. QED
      BY <1>2, <1>5, <3>1, <3>2
  <2>3. QED
    BY <1>8, <2>1, <2>2
<1>10. ASSUME NEW k \in DOMAIN R
       PROVE  PutAt(a, k) \in DOMAIN N /\ N[PutAt(a, k)] = R[k]
  <2>1. k \in Nat /\ k >= 1 /\ k <= r /\ PutAt(a, k) = a - 1 + k
    BY <1>0 DEF PutAt
  <2>2. a - 1 + k \in 1 .. a - 1 + r /\ a - 1 + k \in 1 .. a - 1 + r + (n - b) /\ ~ (a - 1 + k <= a - 1)
        /\ a - 1 + k - (a - 1) = k /\ a - 1 + k <= a - 1 + r
    BY <1>0, <2>1
  <2> DEFINE x == a - 1 + k
  <2>3. x \in 1 .. a - 1 + r /\ x \in 1 .. a - 1 + r + (n - b) /\ ~ (x <= a - 1)
        /\ x - (a - 1) = k /\ x <= a - 1 + r /\ PutAt(a, k) = x
    BY <2>1, <2>2
  <2> HIDE DEF x
  <2>4. N[x] = (A \o R)[x]
    BY <1>4, <2>3
  <2>5. (A \o R)[x] = R[k]
    BY <1>3, <2>3
  <2>6. QED
    BY <1>5, <2>3, <2>4, <2>5
<1>11. ASSUME NEW j \in DOMAIN N
       PROVE  \/ \E i \in stay : j = m(i)
              \/ \E k \in DOMAIN R : j = PutAt(a, k)
  <2>0. j \in Nat /\ j >= 1 /\ j <= a - 1 + r + (n - b)
    BY <1>0, <1>5
  <2>1. CASE j < a
    <3>1. j \in stay /\ m(j) = j
      BY <1>0, <1>7, <2>0, <2>1
    <3>2. QED
      BY <3>1
  <2>2. CASE j >= a /\ j <= a - 1 + r
    <3>1. j - (a - 1) \in DOMAIN R /\ PutAt(a, j - (a - 1)) = j
      BY <1>0, <2>0, <2>2 DEF PutAt
    <3>2. QED
      BY <3>1
  <2>3. CASE j > a - 1 + r
    <3>1. j - r + (b - a + 1) \in stay /\ ~ (j - r + (b - a + 1) < a)
      BY <1>0, <2>0, <2>3
    <3>2. m(j - r + (b - a + 1)) = j
      BY <1>0, <1>7, <2>0, <3>1
    <3>3. QED
      BY <3>1, <3>2
  <2>4. QED
    BY <1>0, <2>0, <2>1, <2>2, <2>3
<1>12. \A i, j \in stay : i < j <=> m(i) < m(j)
  BY <1>0, <1>7, <1>8
<1>13. \A i \in stay, k \in DOMAIN R : /\ i < a => m(i) < PutAt(a, k)
                                       /\ i > b => PutAt(a, k) < m(i)
  BY <1>0, <1>7, <1>8 DEF PutAt
<1>14. Len(N) = n - (b - a + 1) + r
  BY <1>0, <1>4
<1>15. QED
  BY <1>4, <1>6, <1>9, <1>10, <1>11, <1>12, <1>13, <1>14 DEF Places, MovedTo, Spliced, m, n, r

(* R may replace the lines a to b, in the section below the line h. *)
Fits(L, R, h, a, b) ==
  /\ Shape(L, 0) /\ Shape(R, 1)
  /\ h \in Content(L) /\ IsKey(L[h], Sections) /\ Bare(L[h])
  /\ a \in h + 1 .. Len(L) + 1 /\ b \in a - 1 .. Len(L)
  /\ \A i \in Content(L) : h < i /\ i <= b => L[i].ind >= 1
  /\ a <= b => a \in Content(L) /\ L[a].ind = 1
  /\ \A i \in Content(L) : a < i /\ i <= b => L[i].ind >= 2
  /\ b < Len(L) => b + 1 \in Content(L) /\ L[b + 1].ind <= 1
  /\ \A k \in DOMAIN R : HasContent(R[k])

(* Lines at the first step of a section belong to its header. *)
LEMMA BelowHeader ==
  ASSUME NEW L \in Seq(Line), Shape(L, 0), NEW h \in Content(L), IsKey(L[h], Sections), NEW i \in Content(L), h < i,
         L[i].ind = 1, \A j \in Content(L) : h < j /\ j < i => L[j].ind >= 1
  PROVE  Parents(L)[i] = h /\ L[i].kind = "key" /\ Depth(L[i]) = 2
<1> DEFINE p == Parents(L)[i]
<1>1. L[h].ind = 0 /\ L[h].kind = "key" /\ Depth(L[h]) = 0
  <2>1. L[h].ind = 0 /\ L[h].kind = "key"
    BY ShapeOf DEF IsKey
  <2>2. QED
    BY <2>1, ContentOf
<1>2. p # 0 /\ p \in Content(L) /\ p \in 0 .. i - 1 /\ L[i].ind = L[p].ind + 1
  <2>a. p = 0 => L[i].ind = 0
    BY DEF Shape
  <2>1. p # 0
    BY <2>a
  <2>2. L[i].ind = L[p].ind + 1
    BY <2>1, ShapeOf
  <2>3. QED
    BY <2>1, <2>2, ContentOf
<1>3. L[p].ind = 0 /\ p \in Nat /\ h \in Nat
  BY <1>2, ContentOf
<1>4. ~ (h < p)
  <2>1. SUFFICES ASSUME h < p PROVE FALSE
    OBVIOUS
  <2>2. i \in Nat
    BY ContentOf
  <2>3. p < i
    BY <1>2, <1>3, <2>2
  <2>4. L[p].ind >= 1
    BY <1>2, <2>1, <2>3
  <2>5. QED
    BY <1>3, <2>4
<1>5. IsParent(L, i, p)
  BY ContentOf, ParentIs
<1>6. Depth(L[i]) >= 2 /\ i \in Nat
  <2>1. Depth(L[i]) = 3 \/ Depth(L[i]) = 2
    BY ContentOf
  <2>2. QED
    BY <2>1, ContentOf
<1>7. ~ (p < h)
  <2>1. SUFFICES ASSUME p < h PROVE FALSE
    OBVIOUS
  <2>2. h \in p + 1 .. i - 1 /\ HasContent(L[h])
    BY <1>3, <1>6, <2>1, ContentOf
  <2>3. Depth(L[i]) <= Depth(L[h])
    BY <1>5, <2>2 DEF IsParent
  <2>4. Depth(L[i]) \in Nat
    BY LinesOf, ContentOf
  <2>5. QED
    BY <1>1, <1>6, <2>3, <2>4
<1>8. p = h
  BY <1>3, <1>4, <1>7
<1>9. L[i].kind = "key"
  BY <1>2, <1>8 DEF Shape
<1>10. QED
  BY <1>8, <1>9, ContentOf

LEMMA FitsDepths ==
  ASSUME NEW L \in Seq(Line), NEW R \in Seq(Line), NEW h, NEW a, NEW b, Fits(L, R, h, a, b)
  PROVE  /\ h \in Nat \ {0} /\ a \in 1 .. Len(L) + 1 /\ a \in Nat /\ h < a /\ b \in a - 1 .. Len(L) /\ b \in Nat
         /\ Depth(L[h]) = 0 /\ Parents(L)[h] = 0
         /\ b < Len(L) => b + 1 \in Content(L) /\ Depth(L[b + 1]) <= 2
         /\ \A i \in Content(L) : h < i /\ i <= b => Depth(L[i]) >= 2
         /\ a <= b => Parents(L)[a] = h /\ L[a].kind = "key"
         /\ \A i \in Content(L) : a < i /\ i <= b => Depth(L[i]) > 2 /\ Parents(L)[i] >= a
         /\ \A k \in DOMAIN R : /\ k \in Content(R) /\ Depth(R[k]) >= 2 /\ R[k].ind >= 1
                                /\ Parents(R)[k] = 0 => Depth(R[k]) = 2 /\ R[k].kind = "key"
<1>1. h \in Nat \ {0} /\ Len(L) \in Nat /\ h \in DOMAIN L /\ h \in Content(L)
  <2>1. h \in Content(L)
    BY DEF Fits
  <2>2. DOMAIN L = 1 .. Len(L) /\ Len(L) \in Nat /\ h \in DOMAIN L
    BY <2>1, LinesOf
  <2>3. QED
    BY <2>1, <2>2
<1>2. a \in 1 .. Len(L) + 1 /\ a \in Nat /\ h < a /\ b \in a - 1 .. Len(L) /\ b \in Nat
  <2>1. a \in h + 1 .. Len(L) + 1 /\ b \in a - 1 .. Len(L)
    BY DEF Fits
  <2>2. QED
    BY <1>1, <2>1
<1>3. L[h].ind = 0 /\ L[h].kind = "key"
  BY <1>1 DEF Fits, Shape, IsKey
<1>4. Depth(L[h]) = 0
  BY <1>1, <1>3, ContentOf
<1>5. Parents(L)[h] = 0
  <2>1. SUFFICES ASSUME Parents(L)[h] # 0 PROVE FALSE
    OBVIOUS
  <2>2. L[h].ind = L[Parents(L)[h]].ind + 1 /\ Parents(L)[h] \in Content(L)
    BY <1>1, <2>1, ContentOf DEF Fits, Shape
  <2>3. L[Parents(L)[h]].ind \in Nat
    BY <2>2, ContentOf
  <2>4. QED
    BY <1>3, <2>2, <2>3
<1>6. \A i \in Content(L) : h < i /\ i <= b => Depth(L[i]) >= 2
  <2> SUFFICES ASSUME NEW i \in Content(L), h < i, i <= b PROVE Depth(L[i]) >= 2
    OBVIOUS
  <2>1. L[i].ind >= 1 /\ L[i].ind \in Nat
    BY ContentOf DEF Fits
  <2>2. QED
    BY <2>1, ContentOf
<1>7. \A i \in Content(L) : a < i /\ i <= b => Depth(L[i]) > 2
  <2> SUFFICES ASSUME NEW i \in Content(L), a < i, i <= b PROVE Depth(L[i]) > 2
    OBVIOUS
  <2>1. L[i].ind >= 2 /\ L[i].ind \in Nat
    BY ContentOf DEF Fits
  <2>2. QED
    BY <2>1, ContentOf
<1>8. ASSUME a <= b
      PROVE  Parents(L)[a] = h /\ L[a].kind = "key" /\ a \in Content(L) /\ Depth(L[a]) = 2
  <2>1. a \in Content(L) /\ L[a].ind = 1 /\ IsKey(L[h], Sections) /\ Shape(L, 0)
    BY <1>8 DEF Fits
  <2>2. \A j \in Content(L) : h < j /\ j < a => L[j].ind >= 1
    <3>1. \A j \in Content(L) : j \in Nat /\ (j < a => j <= b)
      BY <1>2, <1>8, LinesOf
    <3>2. QED
      BY <3>1 DEF Fits
  <2>3. QED
    BY <1>1, <1>2, <2>1, <2>2, BelowHeader
<1>9. ASSUME b < Len(L)
      PROVE  b + 1 \in Content(L) /\ Depth(L[b + 1]) <= 2
  <2>1. b + 1 \in Content(L) /\ L[b + 1].ind <= 1 /\ L[b + 1].ind \in Nat /\ IsKey(L[h], Sections) /\ Shape(L, 0)
    BY <1>9, ContentOf DEF Fits
  <2>2. CASE L[b + 1].ind = 1
    <3>a. \A j \in Content(L) : j \in Nat /\ (j < b + 1 => j <= b)
      BY <1>2, LinesOf
    <3>1. \A j \in Content(L) : h < j /\ j < b + 1 => L[j].ind >= 1
      BY <3>a DEF Fits
    <3>2. h < b + 1
      BY <1>1, <1>2
    <3>3. QED
      BY <1>1, <2>1, <2>2, <3>1, <3>2, BelowHeader
  <2>3. CASE L[b + 1].ind = 0
    BY <2>1, <2>3, ContentOf
  <2>4. QED
    BY <2>1, <2>2, <2>3
<1>10. ASSUME NEW i \in Content(L), a < i, i <= b
       PROVE  Parents(L)[i] >= a
  <2>a. a <= b
    BY <1>2, <1>10, LinesOf
  <2>1. a \in Content(L) /\ Depth(L[a]) = 2 /\ HasContent(L[a])
    BY <1>8, <2>a, ContentOf
  <2>2. IsParent(L, i, Parents(L)[i]) /\ i \in Nat /\ Parents(L)[i] \in 0 .. i - 1
    BY ParentIs, ContentOf
  <2>3. SUFFICES ASSUME Parents(L)[i] < a PROVE FALSE
    BY <1>2, <2>2
  <2>4. a \in Parents(L)[i] + 1 .. i - 1
    BY <1>2, <1>10, <2>2, <2>3
  <2>5. Depth(L[i]) <= Depth(L[a])
    BY <2>1, <2>2, <2>4 DEF IsParent
  <2>6. Depth(L[i]) > 2 /\ Depth(L[i]) \in Nat
    BY <1>7, <1>10, LinesOf, ContentOf
  <2>7. QED
    BY <2>1, <2>5, <2>6
<1>11. ASSUME NEW k \in DOMAIN R
       PROVE  /\ k \in Content(R) /\ Depth(R[k]) >= 2 /\ R[k].ind >= 1
              /\ Parents(R)[k] = 0 => Depth(R[k]) = 2 /\ R[k].kind = "key"
  <2>1. k \in Content(R)
    BY DEF Fits, Content
  <2>2. Parents(R)[k] = 0 => R[k].kind = "key" /\ R[k].ind = 1
    BY <2>1 DEF Fits, Shape
  <2>3. Parents(R)[k] # 0 => R[k].ind = R[Parents(R)[k]].ind + 1 /\ R[Parents(R)[k]].ind \in Nat
    BY <2>1, ContentOf DEF Fits, Shape
  <2>4. R[k].ind >= 1 /\ R[k].ind \in Nat
    BY <2>1, <2>2, <2>3, ContentOf
  <2>5. QED
    BY <2>1, <2>2, <2>4, ContentOf
<1>12. QED
  BY <1>1, <1>2, <1>4, <1>5, <1>6, <1>7, <1>8, <1>9, <1>10, <1>11

(* What stays keeps the lines it belongs to, and what is put in belongs to the   *)
(* header or to what is put in.                                              *)
LEMMA ParentsSpliced ==
  ASSUME NEW L \in Seq(Line), NEW R \in Seq(Line), NEW h, NEW a, NEW b, Fits(L, R, h, a, b)
  PROVE  LET N == Spliced(L, R, a, b)
             m(i) == MovedTo(R, a, b, i)
             stay == Content(L) \ (a .. b)
         IN /\ \A i \in stay : /\ m(i) \in Content(N) /\ N[m(i)] = L[i]
                               /\ Parents(L)[i] \in {0} \cup stay
                               /\ Parents(N)[m(i)] = m(Parents(L)[i])
            /\ \A k \in DOMAIN R :
                 /\ PutAt(a, k) \in Content(N) /\ N[PutAt(a, k)] = R[k]
                 /\ Parents(N)[PutAt(a, k)] =
                      IF Parents(R)[k] = 0 THEN h ELSE PutAt(a, Parents(R)[k])
            /\ \A j \in Content(N) : \/ \E i \in stay : j = m(i)
                                     \/ \E k \in DOMAIN R : j = PutAt(a, k)
            /\ m(0) = 0 /\ m(h) = h /\ h \in stay
<1> DEFINE N == Spliced(L, R, a, b)
           m(i) == MovedTo(R, a, b, i)
           PL == Parents(L)
           stay == Content(L) \ (a .. b)
           put(k) == PutAt(a, k)
           rest == DOMAIN L \ (a .. b)
<1>1. /\ h \in Nat \ {0} /\ a \in 1 .. Len(L) + 1 /\ a \in Nat /\ h < a /\ b \in a - 1 .. Len(L) /\ b \in Nat
      /\ Depth(L[h]) = 0
      /\ b < Len(L) => b + 1 \in Content(L) /\ Depth(L[b + 1]) <= 2
      /\ \A i \in Content(L) : h < i /\ i <= b => Depth(L[i]) >= 2
      /\ \A k \in DOMAIN R : /\ k \in Content(R) /\ Depth(R[k]) >= 2
                             /\ Parents(R)[k] = 0 => Depth(R[k]) = 2
  BY FitsDepths
<1>2. /\ N \in Seq(Line)
      /\ \A i \in rest : m(i) \in DOMAIN N /\ N[m(i)] = L[i]
      /\ \A k \in DOMAIN R : put(k) \in DOMAIN N /\ N[put(k)] = R[k]
      /\ \A j \in DOMAIN N : \/ \E i \in rest : j = m(i)
                             \/ \E k \in DOMAIN R : j = put(k)
      /\ \A i, j \in rest : i < j <=> m(i) < m(j)
      /\ \A i \in rest, k \in DOMAIN R : /\ i < a => m(i) < put(k)
                                         /\ i > b => put(k) < m(i)
  <2>1. a \in 1 .. Len(L) + 1 /\ b \in a - 1 .. Len(L)
    BY <1>1
  <2>2. Places(L, R, a, b)
    BY <2>1, SplicedLines
  <2>3. QED
    BY <2>2 DEF Places
<1>3. /\ m(0) = 0 /\ m(h) = h
      /\ h \in Content(L) /\ h \in stay
  <2>1. h \in Content(L)
    BY DEF Fits
  <2>2. h < a /\ 0 < a /\ h \notin a .. b
    BY <1>1
  <2>3. m(0) = 0 /\ m(h) = h
    BY <2>2 DEF MovedTo
  <2>4. QED
    BY <2>1, <2>2, <2>3
<1>4. /\ stay \subseteq rest /\ rest \subseteq Nat \ {0} /\ \A i \in rest : i < a \/ i > b
      /\ DOMAIN N \subseteq Nat \ {0} /\ Len(L) \in Nat /\ \A i \in rest : i <= Len(L)
      /\ DOMAIN R \subseteq Nat \ {0}
  <2>1. DOMAIN N \subseteq Nat \ {0} /\ DOMAIN R \subseteq Nat \ {0}
    BY <1>2, LinesOf
  <2>2. DOMAIN L = 1 .. Len(L) /\ Len(L) \in Nat /\ Content(L) \subseteq DOMAIN L
    BY LinesOf
  <2>3. QED
    BY <1>1, <2>1, <2>2
<1>5. \A k, l \in DOMAIN R : k < l <=> put(k) < put(l)
  BY <1>1, <1>4 DEF PutAt
<1> HIDE DEF N, m, put
<1>6. ASSUME NEW i \in rest
      PROVE  m(i) \in Content(N) <=> i \in Content(L)
  BY <1>2 DEF Content
<1>7. \A k \in DOMAIN R : put(k) \in Content(N)
  BY <1>1, <1>2 DEF Content
<1>8. ASSUME NEW i \in stay
      PROVE  PL[i] \in {0} \cup stay /\ Parents(N)[m(i)] = m(PL[i])
  <2> DEFINE p == PL[i]
  <2>1. /\ IsParent(L, i, p) /\ i \in Content(L) /\ i \in Nat /\ p \in 0 .. i - 1 /\ p \in Nat /\ i # 0
        /\ p = 0 \/ p \in Content(L)
    BY ParentIs, ContentOf
  <2>2. i > b => b < Len(L) /\ b + 1 \in Content(L) /\ Depth(L[b + 1]) <= 2
    BY <1>1, <1>4
  <2>3. i \in DOMAIN L /\ Depth(L[i]) \in Nat /\ \A j \in Content(L) : Depth(L[j]) \in Nat /\ HasContent(L[j])
    BY LinesOf, ContentOf
  <2> HIDE DEF p, PL
  <2>4. ASSUME i > b, p < b + 1
        PROVE  Depth(L[i]) <= 2
    <3>1. CASE i = b + 1
      BY <2>2, <2>4, <3>1
    <3>2. CASE i > b + 1
      <4>1. b + 1 \in p + 1 .. i - 1
        BY <1>1, <2>1, <2>4, <3>2
      <4>2. HasContent(L[b + 1]) /\ Depth(L[b + 1]) \in Nat
        BY <2>2, <2>3, <2>4
      <4>3. Depth(L[i]) <= Depth(L[b + 1])
        BY <2>1, <4>1, <4>2 DEF IsParent
      <4>4. QED
        BY <2>2, <2>3, <2>4, <4>2, <4>3
    <3>3. QED
      BY <1>1, <2>1, <2>4, <3>1, <3>2
  <2>5. p \in {0} \cup stay
    <3>1. SUFFICES ASSUME p \in Content(L), p \in a .. b PROVE FALSE
      BY <2>1
    <3>2. i > b
      BY <1>1, <1>4, <2>1, <3>1
    <3>3. Depth(L[i]) <= 2 /\ Depth(L[p]) >= 2 /\ Depth(L[p]) \in Nat
      BY <1>1, <2>1, <2>3, <2>4, <3>1, <3>2
    <3>4. Depth(L[p]) < Depth(L[i])
      BY <1>1, <2>1, <3>1 DEF IsParent
    <3>5. QED
      BY <2>3, <3>3, <3>4
  <2>6. m(p) \in Nat /\ m(p) < m(i) /\ m(i) \in Nat
    <3>1. m(i) \in Nat \ {0}
      BY <1>2, <1>4
    <3>2. CASE p = 0
      BY <1>3, <3>1, <3>2
    <3>3. CASE p \in stay
      <4>1. p < i
        BY <2>1
      <4>2. m(p) < m(i) /\ m(p) \in Nat
        BY <1>2, <1>4, <3>3, <4>1
      <4>3. QED
        BY <3>1, <4>2
    <3>4. QED
      BY <2>5, <3>2, <3>3
  <2>7. ASSUME m(p) # 0
        PROVE  HasContent(N[m(p)]) /\ Depth(N[m(p)]) < Depth(N[m(i)])
    <3>1. p \in stay
      BY <1>3, <2>5, <2>7
    <3>2. HasContent(L[p]) /\ Depth(L[p]) < Depth(L[i])
      BY <1>4, <2>1, <3>1 DEF IsParent
    <3>3. QED
      BY <1>2, <1>4, <3>1, <3>2
  <2>8. ASSUME NEW j \in m(p) + 1 .. m(i) - 1, HasContent(N[j])
        PROVE  Depth(N[m(i)]) <= Depth(N[j])
    <3>0. j \in Nat /\ m(p) < j /\ j < m(i)
      BY <2>6, <2>8
    <3>1. j \in DOMAIN N
      <4>1. DOMAIN N = 1 .. Len(N) /\ m(i) \in 1 .. Len(N) /\ Len(N) \in Nat
        BY <1>2, <1>4, LinesOf
      <4>2. QED
        BY <2>6, <3>0, <4>1
    <3>2. N[m(i)] = L[i]
      BY <1>2, <1>4
    <3>3. CASE \E k \in rest : j = m(k)
      <4>1. PICK k \in rest : j = m(k)
        BY <3>3
      <4>2. k \in Content(L) /\ N[j] = L[k]
        BY <1>2, <1>6, <2>8, <3>1, <4>1 DEF Content
      <4>3. k < i
        BY <1>2, <1>4, <3>0, <4>1
      <4>4. p < k
        <5>1. CASE p = 0
          BY <1>4, <4>1, <5>1
        <5>2. CASE p \in stay
          BY <1>2, <1>4, <3>0, <4>1, <5>2
        <5>3. QED
          BY <2>5, <5>1, <5>2
      <4>5. k \in p + 1 .. i - 1 /\ HasContent(L[k])
        BY <1>4, <2>1, <2>3, <4>2, <4>3, <4>4
      <4>6. Depth(L[i]) <= Depth(L[k])
        BY <2>1, <4>5 DEF IsParent
      <4>7. QED
        BY <3>2, <4>2, <4>6
    <3>4. CASE \E k \in DOMAIN R : j = put(k)
      <4>1. PICK k \in DOMAIN R : j = put(k)
        BY <3>4
      <4>2. N[j] = R[k] /\ Depth(R[k]) >= 2 /\ Depth(R[k]) \in Nat
        BY <1>1, <1>2, <4>1, LinesOf
      <4>3. i > b
        <5>1. SUFFICES ASSUME i < a PROVE FALSE
          BY <1>4
        <5>2. m(i) < put(k)
          BY <1>2, <1>4, <4>1, <5>1
        <5>3. QED
          BY <2>6, <3>0, <4>1, <5>2
      <4>4. p < b + 1
        <5>1. SUFFICES ASSUME p \in stay, p > b PROVE FALSE
          BY <1>1, <2>1, <2>5
        <5>2. put(k) < m(p)
          BY <1>2, <1>4, <4>1, <5>1
        <5>3. QED
          BY <2>6, <3>0, <4>1, <5>2
      <4>5. Depth(L[i]) <= 2
        BY <2>4, <4>3, <4>4
      <4>6. QED
        BY <2>3, <3>2, <4>2, <4>5
    <3>5. QED
      BY <1>2, <3>1, <3>3, <3>4
  <2>9. IsParent(N, m(i), m(p))
    BY <2>6, <2>7, <2>8 DEF IsParent
  <2>10. Parents(N)[m(i)] = m(p)
    BY <1>2, <1>4, <2>9, ParentIs
  <2>11. QED
    BY <2>5, <2>10 DEF p
<1>9. ASSUME NEW k \in DOMAIN R
      PROVE  Parents(N)[put(k)] = IF Parents(R)[k] = 0 THEN h ELSE put(Parents(R)[k])
  <2> DEFINE p == Parents(R)[k]
             q == IF p = 0 THEN h ELSE put(p)
  <2>1. /\ IsParent(R, k, p) /\ k \in Content(R) /\ k \in Nat /\ p \in 0 .. k - 1 /\ p \in Nat
        /\ p = 0 \/ p \in DOMAIN R
    BY <1>1, ParentIs, ContentOf
  <2>2. \A l \in DOMAIN R : Depth(R[l]) \in Nat /\ HasContent(R[l])
    BY <1>1, LinesOf, ContentOf
  <2>3. p = 0 => Depth(R[k]) = 2
    BY <1>1
  <2> HIDE DEF p
  <2>4. h \in rest /\ h < a
    BY <1>1, <1>3, <1>4
  <2>5. q \in Nat \ {0} /\ q < put(k) /\ put(k) \in Nat
    <3>1. put(k) \in Nat
      BY <1>2, <1>4
    <3>2. CASE p = 0
      <4>1. m(h) < put(k)
        BY <1>2, <2>4
      <4>2. QED
        BY <1>1, <1>3, <3>1, <3>2, <4>1
    <3>3. CASE p # 0
      <4>1. p \in DOMAIN R /\ p < k
        BY <2>1, <3>3
      <4>2. put(p) < put(k) /\ put(p) \in Nat \ {0}
        BY <1>2, <1>4, <1>5, <4>1
      <4>3. QED
        BY <3>1, <3>3, <4>2
    <3>4. QED
      BY <3>2, <3>3
  <2>6. HasContent(N[q]) /\ Depth(N[q]) < Depth(N[put(k)])
    <3>1. N[put(k)] = R[k]
      BY <1>2
    <3>2. CASE p = 0
      <4>1. N[q] = L[h] /\ HasContent(L[h])
        BY <1>2, <1>3, <2>4, <3>2, ContentOf
      <4>2. QED
        BY <1>1, <2>3, <3>1, <3>2, <4>1
    <3>3. CASE p # 0
      <4>1. p \in DOMAIN R /\ N[q] = R[p]
        BY <1>2, <2>1, <3>3
      <4>2. QED
        BY <2>1, <2>2, <3>1, <3>3, <4>1 DEF IsParent
    <3>4. QED
      BY <3>2, <3>3
  <2>7. ASSUME NEW j \in q + 1 .. put(k) - 1, HasContent(N[j])
        PROVE  Depth(N[put(k)]) <= Depth(N[j])
    <3> HIDE DEF q
    <3>0. j \in Nat /\ q < j /\ j < put(k)
      BY <2>5, <2>7
    <3>1. j \in DOMAIN N
      <4>1. DOMAIN N = 1 .. Len(N) /\ put(k) \in 1 .. Len(N) /\ Len(N) \in Nat
        BY <1>2, LinesOf
      <4>2. QED
        BY <2>5, <3>0, <4>1
    <3>2. N[put(k)] = R[k]
      BY <1>2
    <3>3. CASE \E i \in rest : j = m(i)
      <4>1. PICK i \in rest : j = m(i)
        BY <3>3
      <4>2. i \in Content(L) /\ N[j] = L[i]
        BY <1>2, <1>6, <2>7, <3>1, <4>1 DEF Content
      <4>3. i < a
        <5>1. i > b => put(k) < m(i)
          BY <1>2, <4>1
        <5>2. QED
          BY <1>4, <2>5, <3>0, <4>1, <5>1
      <4>4. p = 0
        <5>1. SUFFICES ASSUME p # 0 PROVE FALSE
          OBVIOUS
        <5>2. p \in DOMAIN R /\ q = put(p)
          BY <2>1, <5>1 DEF q
        <5>3. m(i) < put(p)
          BY <1>2, <4>1, <4>3, <5>2
        <5>4. QED
          BY <2>5, <3>0, <4>1, <5>2, <5>3
      <4>5. m(h) < m(i)
        BY <1>3, <3>0, <4>1, <4>4 DEF q
      <4>6. h < i
        BY <1>2, <2>4, <4>1, <4>5
      <4>7. Depth(L[i]) >= 2
        BY <1>1, <1>4, <4>1, <4>2, <4>3, <4>6
      <4>8. QED
        BY <2>3, <3>2, <4>2, <4>4, <4>7
    <3>4. CASE \E l \in DOMAIN R : j = put(l)
      <4>1. PICK l \in DOMAIN R : j = put(l)
        BY <3>4
      <4>2. N[j] = R[l] /\ HasContent(R[l]) /\ Depth(R[l]) >= 2
        BY <1>1, <1>2, <2>2, <4>1
      <4>3. l < k /\ l \in Nat \ {0}
        BY <1>4, <1>5, <3>0, <4>1
      <4>4. p < l
        <5>1. CASE p = 0
          BY <4>3, <5>1
        <5>2. CASE p # 0
          <6>1. p \in DOMAIN R /\ q = put(p)
            BY <2>1, <5>2 DEF q
          <6>2. QED
            BY <1>5, <3>0, <4>1, <6>1
        <5>3. QED
          BY <5>1, <5>2
      <4>5. l \in p + 1 .. k - 1
        BY <2>1, <4>3, <4>4
      <4>6. Depth(R[k]) <= Depth(R[l])
        BY <2>1, <4>2, <4>5 DEF IsParent
      <4>7. QED
        BY <3>2, <4>2, <4>6
    <3>5. QED
      BY <1>2, <3>1, <3>3, <3>4
  <2>8. IsParent(N, put(k), q)
    <3> HIDE DEF q
    <3>1. QED
      BY <2>5, <2>6, <2>7 DEF IsParent
  <2>9. Parents(N)[put(k)] = q
    BY <1>2, <2>8, ParentIs
  <2>10. QED
    BY <2>9 DEF p
<1>10. \A i \in stay : m(i) \in Content(N) /\ N[m(i)] = L[i]
  BY <1>2, <1>4, <1>6
<1>11. ASSUME NEW j \in Content(N)
       PROVE  \/ \E i \in stay : j = m(i)
              \/ \E k \in DOMAIN R : j = put(k)
  <2>1. j \in DOMAIN N
    BY DEF Content
  <2>2. ASSUME NEW i \in rest, j = m(i)
        PROVE  i \in stay
    BY <1>6, <2>2
  <2>3. QED
    BY <1>2, <2>1, <2>2
<1>12. QED
  BY <1>2, <1>3, <1>7, <1>8, <1>9, <1>10, <1>11 DEF N, m, put

(* Both kinds of lines keep their order, and no two end up at one place. *)
(* The lines stay in order, the new ones where lines were cut out.             *)
LEMMA LinesSpliced ==
  ASSUME NEW L \in Seq(Line), NEW R \in Seq(Line), NEW h, NEW a, NEW b, Fits(L, R, h, a, b)
  PROVE  LET m(i) == MovedTo(R, a, b, i)
             stay == DOMAIN L \ (a .. b)
         IN /\ \A i \in stay : i \in Nat \ {0} /\ m(i) \in Nat \ {0}
            /\ \A i, j \in stay : i < j <=> m(i) < m(j)
            /\ \A i, j \in stay \cup {0} : m(i) = m(j) => i = j
            /\ \A i \in stay, k \in DOMAIN R : /\ i < a => m(i) < PutAt(a, k)
                                               /\ i > b => PutAt(a, k) < m(i)
                                               /\ m(i) # PutAt(a, k)
            /\ \A k, l \in DOMAIN R : k < l <=> PutAt(a, k) < PutAt(a, l)
            /\ \A k \in DOMAIN R : k \in Nat \ {0} /\ PutAt(a, k) \in Nat \ {0} /\ h # PutAt(a, k)
            /\ \A i \in stay : i < a \/ i > b
            /\ \A i \in stay : m(i) \in DOMAIN Spliced(L, R, a, b) /\ Spliced(L, R, a, b)[m(i)] = L[i]
            /\ \A j \in DOMAIN Spliced(L, R, a, b) : \/ \E i \in stay : j = m(i)
                                                 \/ \E k \in DOMAIN R : j = PutAt(a, k)
<1> DEFINE m(i) == MovedTo(R, a, b, i)
           stay == DOMAIN L \ (a .. b)
<1>1. h \in Nat \ {0} /\ a \in 1 .. Len(L) + 1 /\ a \in Nat /\ h < a /\ b \in a - 1 .. Len(L) /\ b \in Nat
  BY FitsDepths
<1>2. /\ \A i \in stay : m(i) \in DOMAIN Spliced(L, R, a, b) /\ Spliced(L, R, a, b)[m(i)] = L[i]
      /\ \A j \in DOMAIN Spliced(L, R, a, b) : \/ \E i \in stay : j = m(i)
                                           \/ \E k \in DOMAIN R : j = PutAt(a, k)
      /\ \A i, j \in stay : i < j <=> m(i) < m(j)
      /\ \A i \in stay, k \in DOMAIN R : /\ i < a => m(i) < PutAt(a, k)
                                         /\ i > b => PutAt(a, k) < m(i)
      /\ Spliced(L, R, a, b) \in Seq(Line)
  <2>1. a \in 1 .. Len(L) + 1 /\ b \in a - 1 .. Len(L)
    BY <1>1
  <2>2. Places(L, R, a, b)
    BY <2>1, SplicedLines
  <2>3. QED
    BY <2>2 DEF Places
<1>3. /\ stay \subseteq Nat \ {0} /\ \A i \in stay : i < a \/ i > b
      /\ DOMAIN R \subseteq Nat \ {0} /\ DOMAIN Spliced(L, R, a, b) \subseteq Nat \ {0}
  <2>1. DOMAIN R \subseteq Nat \ {0} /\ DOMAIN Spliced(L, R, a, b) \subseteq Nat \ {0}
    BY <1>2, LinesOf
  <2>2. DOMAIN L = 1 .. Len(L) /\ Len(L) \in Nat /\ Content(L) \subseteq DOMAIN L
    BY LinesOf
  <2>3. QED
    BY <1>1, <2>1, <2>2
<1>4. m(0) = 0
  BY <1>1 DEF MovedTo
<1>5. \A k, l \in DOMAIN R : k < l <=> PutAt(a, k) < PutAt(a, l)
  BY <1>1, <1>3 DEF PutAt
<1>6. \A k \in DOMAIN R : PutAt(a, k) \in Nat \ {0} /\ h # PutAt(a, k)
  BY <1>1, <1>3 DEF PutAt
<1> HIDE DEF m
<1>7. \A i, j \in stay : m(i) = m(j) => i = j
  <2> SUFFICES ASSUME NEW i \in stay, NEW j \in stay, m(i) = m(j) PROVE i = j
    OBVIOUS
  <2>1. i \in Nat /\ j \in Nat /\ m(i) \in Nat
    BY <1>2, <1>3
  <2>2. ~ (i < j) /\ ~ (j < i)
    BY <1>2, <2>1
  <2>3. QED
    BY <2>1, <2>2
<1>8. \A i \in stay : m(i) \in Nat \ {0}
  BY <1>2, <1>3
<1>9. \A i, j \in stay \cup {0} : m(i) = m(j) => i = j
  BY <1>4, <1>7, <1>8
<1>10. \A i \in stay, k \in DOMAIN R : m(i) # PutAt(a, k)
  <2> SUFFICES ASSUME NEW i \in stay, NEW k \in DOMAIN R PROVE m(i) # PutAt(a, k)
    OBVIOUS
  <2>1. m(i) \in Nat /\ PutAt(a, k) \in Nat /\ (m(i) < PutAt(a, k) \/ PutAt(a, k) < m(i))
    BY <1>2, <1>3, <1>6, <1>8
  <2>2. QED
    BY <2>1
<1>11. QED
  BY <1>2, <1>3, <1>5, <1>6, <1>8, <1>9, <1>10 DEF m

LEMMA OrderSpliced ==
  ASSUME NEW L \in Seq(Line), NEW R \in Seq(Line), NEW h, NEW a, NEW b, Fits(L, R, h, a, b)
  PROVE  LET m(i) == MovedTo(R, a, b, i)
             stay == Content(L) \ (a .. b)
         IN /\ \A i \in stay : i \in Nat \ {0} /\ m(i) \in Nat \ {0}
            /\ \A i, j \in stay : i < j <=> m(i) < m(j)
            /\ \A i, j \in stay \cup {0} : m(i) = m(j) => i = j
            /\ \A i \in stay, k \in DOMAIN R : /\ i < a => m(i) < PutAt(a, k)
                                               /\ i > b => PutAt(a, k) < m(i)
                                               /\ m(i) # PutAt(a, k)
            /\ \A k, l \in DOMAIN R : k < l <=> PutAt(a, k) < PutAt(a, l)
            /\ \A k \in DOMAIN R : k \in Nat \ {0} /\ PutAt(a, k) \in Nat \ {0} /\ h # PutAt(a, k)
            /\ \A i \in stay : i < a \/ i > b
            /\ Spliced(L, R, a, b) \in Seq(Line)
<1>1. Content(L) \subseteq DOMAIN L
  BY LinesOf
<1>2. a \in 1 .. Len(L) + 1 /\ b \in a - 1 .. Len(L)
  BY FitsDepths
<1>3. Spliced(L, R, a, b) \in Seq(Line)
  BY <1>2, SplicedLines DEF Places
<1>4. QED
  BY <1>1, <1>3, LinesSpliced

(* The whole text is tidy again when no key comes twice. *)
LEMMA ShapeSpliced ==
  ASSUME NEW L \in Seq(Line), NEW R \in Seq(Line), NEW h, NEW a, NEW b, Fits(L, R, h, a, b),
         \A k \in DOMAIN R, i \in Content(L) \ (a .. b) :
           Parents(R)[k] = 0 /\ Parents(L)[i] = h => L[i].key # R[k].key
  PROVE  Shape(Spliced(L, R, a, b), 0)
<1> DEFINE N == Spliced(L, R, a, b)
           m(i) == MovedTo(R, a, b, i)
           put(k) == PutAt(a, k)
           PL == Parents(L)
           PR == Parents(R)
           PN == Parents(N)
           stay == Content(L) \ (a .. b)
<1>1. /\ \A i \in stay : /\ m(i) \in Content(N) /\ N[m(i)] = L[i]
                         /\ PL[i] \in {0} \cup stay /\ PN[m(i)] = m(PL[i])
      /\ \A k \in DOMAIN R : /\ put(k) \in Content(N) /\ N[put(k)] = R[k]
                             /\ PN[put(k)] = IF PR[k] = 0 THEN h ELSE put(PR[k])
      /\ \A j \in Content(N) : \/ \E i \in stay : j = m(i)
                               \/ \E k \in DOMAIN R : j = put(k)
      /\ m(0) = 0 /\ m(h) = h /\ h \in stay
  BY ParentsSpliced
<1>2. /\ \A i \in stay : i \in Nat \ {0} /\ m(i) \in Nat \ {0}
      /\ \A i, j \in stay : i < j <=> m(i) < m(j)
      /\ \A i, j \in stay \cup {0} : m(i) = m(j) => i = j
      /\ \A i \in stay, k \in DOMAIN R : m(i) # put(k)
      /\ \A k, l \in DOMAIN R : k < l <=> put(k) < put(l)
      /\ \A k \in DOMAIN R : k \in Nat \ {0} /\ put(k) \in Nat \ {0} /\ h # put(k)
  BY OrderSpliced
<1>3. /\ Shape(L, 0) /\ Shape(R, 1) /\ h \in Content(L) /\ IsKey(L[h], Sections) /\ Bare(L[h])
      /\ \A k \in DOMAIN R : HasContent(R[k])
  BY DEF Fits
<1>4. \A k \in DOMAIN R : k \in Content(R) /\ (PR[k] = 0 \/ PR[k] \in DOMAIN R)
  BY <1>3, ContentOf DEF Content
<1>5. L[h].ind = 0 /\ L[h].kind = "key"
  BY <1>3, ShapeOf DEF IsKey
<1>6. \A k, l \in DOMAIN R : put(k) = put(l) => k = l
  <2> SUFFICES ASSUME NEW k \in DOMAIN R, NEW l \in DOMAIN R, put(k) = put(l) PROVE k = l
    OBVIOUS
  <2>1. k \in Nat /\ l \in Nat /\ put(k) \in Nat /\ ~ (k < l) /\ ~ (l < k)
    BY <1>2
  <2>2. QED
    BY <2>1
<1> DEFINE Stands(x) ==
             LET p == PN[x] IN
             /\ N[x].kind \in {"key", "item"}
             /\ p = 0 => N[x].kind = "key" /\ N[x].ind = 0
             /\ p # 0 => /\ N[x].ind = N[p].ind + 1
                         /\ N[p].kind = "item" => N[x].kind = "key"
                         /\ N[p].kind = "key" => Bare(N[p])
                         /\ IsKey(N[p], Sections) => N[x].kind = "key"
             /\ IsKey(N[x], Sections) => N[x].ind = 0
             /\ IsKey(N[x], {"enable"}) => N[x].ind = 1
             /\ IsKey(N[x], EditedInPlace) => ~Bare(N[x])
           Differs(x, y) ==
             y < x /\ PN[y] = PN[x] =>
               N[x].kind = N[y].kind /\ (N[x].kind = "key" => N[x].key # N[y].key)
<1> HIDE DEF N, m, put, PL, PR, PN
<1>7. ASSUME NEW i \in stay
      PROVE  Stands(m(i))
  <2>1. i \in Content(L) /\ N[m(i)] = L[i] /\ PN[m(i)] = m(PL[i]) /\ PL[i] \in {0} \cup stay
    BY <1>1
  <2>2. /\ L[i].kind \in {"key", "item"}
        /\ PL[i] = 0 => L[i].kind = "key" /\ L[i].ind = 0
        /\ PL[i] # 0 => /\ L[i].ind = L[PL[i]].ind + 1
                        /\ L[PL[i]].kind = "item" => L[i].kind = "key"
                        /\ L[PL[i]].kind = "key" => Bare(L[PL[i]])
                        /\ IsKey(L[PL[i]], Sections) => L[i].kind = "key"
        /\ IsKey(L[i], Sections) => L[i].ind = 0
        /\ IsKey(L[i], {"enable"}) => L[i].ind = 1
        /\ IsKey(L[i], EditedInPlace) => ~Bare(L[i])
    BY <1>3, <2>1 DEF Shape, PL
  <2>3. CASE PL[i] = 0
    BY <1>1, <2>1, <2>2, <2>3
  <2>4. CASE PL[i] # 0
    <3>1. PL[i] \in stay /\ N[m(PL[i])] = L[PL[i]] /\ m(PL[i]) # 0
      BY <1>1, <1>2, <2>1, <2>4
    <3>2. QED
      BY <2>1, <2>2, <2>4, <3>1
  <2>5. QED
    BY <2>3, <2>4
<1>8. ASSUME NEW k \in DOMAIN R
      PROVE  Stands(put(k))
  <2>1. k \in Content(R) /\ N[put(k)] = R[k] /\ PN[put(k)] = IF PR[k] = 0 THEN h ELSE put(PR[k])
    BY <1>1, <1>4
  <2>2. /\ R[k].kind \in {"key", "item"}
        /\ PR[k] = 0 => R[k].kind = "key" /\ R[k].ind = 1
        /\ PR[k] # 0 => /\ R[k].ind = R[PR[k]].ind + 1
                        /\ R[PR[k]].kind = "item" => R[k].kind = "key"
                        /\ R[PR[k]].kind = "key" => Bare(R[PR[k]])
                        /\ IsKey(R[PR[k]], Sections) => R[k].kind = "key"
        /\ IsKey(R[k], Sections) => R[k].ind = 0
        /\ IsKey(R[k], {"enable"}) => R[k].ind = 1
        /\ IsKey(R[k], EditedInPlace) => ~Bare(R[k])
    BY <1>3, <2>1 DEF Shape, PR
  <2>3. CASE PR[k] = 0
    <3>1. PN[put(k)] = h /\ N[h] = L[h] /\ h # 0
      BY <1>1, <1>2, <2>1, <2>3
    <3>2. R[k].kind = "key" /\ R[k].ind = N[h].ind + 1 /\ N[h].kind = "key" /\ Bare(N[h])
      <4>1. R[k].kind = "key" /\ R[k].ind = 1
        BY <2>2, <2>3
      <4>2. N[h].kind = "key" /\ Bare(N[h]) /\ N[h].ind = 0
        BY <1>3, <1>5, <3>1
      <4>3. 1 = 0 + 1
        OBVIOUS
      <4>4. R[k].ind = N[h].ind + 1
        BY <4>1, <4>2, <4>3, Zenon
      <4>5. QED
        BY <4>1, <4>2, <4>4
    <3>3. QED
      BY <2>1, <2>2, <3>1, <3>2
  <2>4. CASE PR[k] # 0
    <3>1. PN[put(k)] = put(PR[k]) /\ N[put(PR[k])] = R[PR[k]] /\ put(PR[k]) # 0
      BY <1>1, <1>2, <1>4, <2>1, <2>4
    <3>2. QED
      BY <2>1, <2>2, <2>4, <3>1
  <2>5. QED
    BY <2>3, <2>4
<1>9. ASSUME NEW i \in stay, NEW j \in stay
      PROVE  Differs(m(i), m(j))
  <2>1. SUFFICES ASSUME m(j) < m(i), PN[m(j)] = PN[m(i)]
                 PROVE  N[m(i)].kind = N[m(j)].kind /\ (N[m(i)].kind = "key" => N[m(i)].key # N[m(j)].key)
    OBVIOUS
  <2>2. j < i /\ PL[j] = PL[i] /\ i \in Content(L) /\ j \in Content(L)
    BY <1>1, <1>2, <2>1
  <2>3. L[i].kind = L[j].kind /\ (L[i].kind = "key" => L[i].key # L[j].key)
    BY <1>3, <2>2, ShapeOf DEF PL
  <2>4. QED
    BY <1>1, <2>3
<1>10. ASSUME NEW k \in DOMAIN R, NEW l \in DOMAIN R
       PROVE  Differs(put(k), put(l))
  <2>1. SUFFICES ASSUME put(l) < put(k), PN[put(l)] = PN[put(k)]
                 PROVE  N[put(k)].kind = N[put(l)].kind /\ (N[put(k)].kind = "key" => N[put(k)].key # N[put(l)].key)
    OBVIOUS
  <2>2. l < k /\ PR[l] = PR[k] /\ k \in Content(R) /\ l \in Content(R)
    BY <1>1, <1>2, <1>4, <1>6, <2>1
  <2>3. R[k].kind = R[l].kind /\ (R[k].kind = "key" => R[k].key # R[l].key)
    BY <1>3, <2>2, ShapeOf DEF PR
  <2>4. QED
    BY <1>1, <2>3
<1>11. ASSUME NEW k \in DOMAIN R, NEW i \in stay, PN[put(k)] = PN[m(i)]
       PROVE  /\ N[put(k)].kind = "key" /\ N[m(i)].kind = "key"
              /\ N[put(k)].key # N[m(i)].key
  <2>1. PN[m(i)] = m(PL[i]) /\ PL[i] \in {0} \cup stay /\ N[m(i)] = L[i] /\ N[put(k)] = R[k]
    BY <1>1
  <2>2. PR[k] = 0
    <3>1. SUFFICES ASSUME PR[k] # 0 PROVE FALSE
      OBVIOUS
    <3>2. PR[k] \in DOMAIN R /\ put(PR[k]) = m(PL[i])
      BY <1>1, <1>4, <1>11, <2>1, <3>1
    <3>3. QED
      BY <1>1, <1>2, <2>1, <3>2
  <2>3. m(PL[i]) = h
    BY <1>1, <1>11, <2>1, <2>2
  <2>4. PL[i] = h
    BY <1>1, <1>2, <2>1, <2>3
  <2>5. L[i].kind = "key"
    <3>1. PL[i] # 0 /\ IsKey(L[PL[i]], Sections)
      BY <1>2, <1>1, <1>3, <2>4
    <3>2. QED
      BY <1>3, <3>1 DEF Shape, PL
  <2>6. R[k].kind = "key"
    BY <1>3, <1>4, <2>2 DEF Shape, PR
  <2>7. L[i].key # R[k].key
    BY <2>2, <2>4 DEF PR, PL
  <2>8. QED
    BY <2>1, <2>5, <2>6, <2>7
<1>12. ASSUME NEW x \in Content(N)
       PROVE  Stands(x)
  <2> HIDE DEF Stands
  <2>1. QED
    BY <1>1, <1>7, <1>8
<1>13. ASSUME NEW x \in Content(N), NEW y \in Content(N)
       PROVE  Differs(x, y)
  <2>1. CASE \E i \in stay : x = m(i)
    <3>1. PICK i \in stay : x = m(i)
      BY <2>1
    <3>2. CASE \E j \in stay : y = m(j)
      BY <1>9, <3>1, <3>2
    <3>3. CASE \E l \in DOMAIN R : y = put(l)
      BY <1>11, <3>1, <3>3
    <3>4. QED
      BY <1>1, <3>2, <3>3
  <2>2. CASE \E k \in DOMAIN R : x = put(k)
    <3>1. PICK k \in DOMAIN R : x = put(k)
      BY <2>2
    <3>2. CASE \E j \in stay : y = m(j)
      BY <1>11, <3>1, <3>2
    <3>3. CASE \E l \in DOMAIN R : y = put(l)
      BY <1>10, <3>1, <3>3
    <3>4. QED
      BY <1>1, <3>2, <3>3
  <2>3. QED
    BY <1>1, <2>1, <2>2
<1>14. QED
  BY <1>12, <1>13 DEF Shape, N, PN

LEMMA SplicedCarries ==
  ASSUME NEW L \in Seq(Line), NEW R \in Seq(Line), NEW h, NEW a, NEW b, Fits(L, R, h, a, b)
  PROVE  LET N == Spliced(L, R, a, b)
         IN /\ Carries(L, N, [i \in Content(L) |-> MovedTo(R, a, b, i)], (Content(L) \ (a .. b)) \ {h})
            /\ Carries(R, N, [k \in DOMAIN R |-> PutAt(a, k)], DOMAIN R)
<1> DEFINE N == Spliced(L, R, a, b)
           m(i) == MovedTo(R, a, b, i)
           put(k) == PutAt(a, k)
           PL == Parents(L)
           PR == Parents(R)
           PN == Parents(N)
           stay == Content(L) \ (a .. b)
           D == stay \ {h}
           mf == [i \in Content(L) |-> m(i)]
           pf == [k \in DOMAIN R |-> put(k)]
<1>1. /\ \A i \in stay : /\ m(i) \in Content(N) /\ N[m(i)] = L[i]
                         /\ PL[i] \in {0} \cup stay /\ PN[m(i)] = m(PL[i])
      /\ \A k \in DOMAIN R : /\ put(k) \in Content(N) /\ N[put(k)] = R[k]
                             /\ PN[put(k)] = IF PR[k] = 0 THEN h ELSE put(PR[k])
      /\ \A j \in Content(N) : \/ \E i \in stay : j = m(i)
                               \/ \E k \in DOMAIN R : j = put(k)
      /\ m(0) = 0 /\ m(h) = h /\ h \in stay
  BY ParentsSpliced
<1>2. /\ \A i \in stay : i \in Nat \ {0} /\ m(i) \in Nat \ {0}
      /\ \A i, j \in stay : i < j <=> m(i) < m(j)
      /\ \A i, j \in stay \cup {0} : m(i) = m(j) => i = j
      /\ \A i \in stay, k \in DOMAIN R : m(i) # put(k)
      /\ \A k, l \in DOMAIN R : k < l <=> put(k) < put(l)
      /\ \A k \in DOMAIN R : k \in Nat \ {0} /\ put(k) \in Nat \ {0} /\ h # put(k)
      /\ N \in Seq(Line)
  BY OrderSpliced
<1>3. /\ h \in Nat \ {0} /\ a \in Nat /\ h < a /\ b \in Nat /\ PL[h] = 0
      /\ a <= b => PL[a] = h
      /\ \A i \in Content(L) : a < i /\ i <= b => PL[i] >= a
      /\ \A k \in DOMAIN R : k \in Content(R)
  BY FitsDepths
<1>4. \A i \in Content(L) : PL[i] \in 0 .. i - 1 /\ i \in Nat
  BY ContentOf
<1>5. \A k \in DOMAIN R : PR[k] = 0 \/ PR[k] \in DOMAIN R
  BY <1>3, ContentOf DEF Content
<1>6. \A i \in Content(L) : mf[i] = m(i)
  OBVIOUS
<1>7. \A k \in DOMAIN R : pf[k] = put(k)
  OBVIOUS
<1>8. Content(N) \subseteq DOMAIN N
  BY DEF Content
<1> HIDE DEF N, m, put, PL, PR, PN, mf, pf
<1>9. \A k, l \in DOMAIN R : put(k) = put(l) => k = l
  <2> SUFFICES ASSUME NEW k \in DOMAIN R, NEW l \in DOMAIN R, put(k) = put(l) PROVE k = l
    OBVIOUS
  <2>1. k \in Nat /\ l \in Nat /\ put(k) \in Nat /\ ~ (k < l) /\ ~ (l < k)
    BY <1>2
  <2>2. QED
    BY <2>1
<1>10. ASSUME NEW i \in D, NEW j \in Content(L), PL[j] = i
       PROVE  j \in D /\ PN[mf[j]] = mf[i]
  <2>1. j \notin a .. b
    <3>1. SUFFICES ASSUME j \in a .. b PROVE FALSE
      OBVIOUS
    <3>2. CASE j = a
      BY <1>3, <1>10, <3>1, <3>2
    <3>3. CASE j # a
      <4>1. a < j /\ j <= b
        BY <1>3, <1>4, <3>1, <3>3
      <4>2. PL[j] >= a /\ PL[j] \in 0 .. j - 1
        BY <1>3, <1>4, <4>1
      <4>3. i \in a .. b
        BY <1>3, <1>4, <1>10, <4>1, <4>2
      <4>4. QED
        BY <4>3
    <3>4. QED
      BY <3>2, <3>3
  <2>2. j # h
    BY <1>2, <1>3, <1>10
  <2>3. QED
    BY <1>1, <1>6, <1>10, <2>1, <2>2
<1>11. ASSUME NEW i \in D, NEW x \in Content(N), PN[x] = mf[i]
       PROVE  \E j \in D : mf[j] = x /\ PL[j] = i
  <2>0. mf[i] = m(i)
    BY <1>6
  <2>1. CASE \E j \in stay : x = m(j)
    <3>1. PICK j \in stay : x = m(j)
      BY <2>1
    <3>2. m(PL[j]) = m(i) /\ PL[j] \in {0} \cup stay
      BY <1>1, <1>11, <2>0, <3>1
    <3>3. PL[j] = i
      BY <1>2, <3>2
    <3>4. j \in D
      BY <1>10, <3>3
    <3>5. QED
      BY <1>6, <3>1, <3>3, <3>4
  <2>2. CASE \E k \in DOMAIN R : x = put(k)
    <3>1. PICK k \in DOMAIN R : x = put(k)
      BY <2>2
    <3>2. CASE PR[k] = 0
      <4>1. m(h) = m(i)
        BY <1>1, <1>11, <2>0, <3>1, <3>2
      <4>2. QED
        BY <1>1, <1>2, <4>1
    <3>3. CASE PR[k] # 0
      BY <1>1, <1>2, <1>5, <1>11, <2>0, <3>1, <3>3
    <3>4. QED
      BY <3>2, <3>3
  <2>3. QED
    BY <1>1, <2>1, <2>2
<1>12. Carries(L, N, mf, D)
  <2>1. \A i \in D : mf[i] \in DOMAIN N /\ N[mf[i]] = L[i]
    BY <1>1, <1>6, <1>8
  <2>2. \A i, j \in D : i < j => mf[i] < mf[j]
    BY <1>2, <1>6
  <2>3. QED
    BY <1>10, <1>11, <2>1, <2>2 DEF Carries, PL, PN
<1>13. Carries(R, N, pf, DOMAIN R)
  <2>1. \A k \in DOMAIN R : k \in Content(R) /\ pf[k] \in DOMAIN N /\ N[pf[k]] = R[k]
    BY <1>1, <1>3, <1>7, <1>8
  <2>2. \A k, l \in DOMAIN R : k < l => pf[k] < pf[l]
    BY <1>2, <1>7
  <2>3. ASSUME NEW k \in DOMAIN R, NEW l \in Content(R), PR[l] = k
        PROVE  l \in DOMAIN R /\ PN[pf[l]] = pf[k]
    <3>1. l \in DOMAIN R /\ k # 0
      BY <1>2 DEF Content
    <3>2. QED
      BY <1>1, <1>7, <2>3, <3>1
  <2>4. ASSUME NEW k \in DOMAIN R, NEW x \in Content(N), PN[x] = pf[k]
        PROVE  \E l \in DOMAIN R : pf[l] = x /\ PR[l] = k
    <3>0. PN[x] = put(k)
      BY <1>7, <2>4
    <3>1. CASE \E j \in stay : x = m(j)
      <4>1. PICK j \in stay : x = m(j)
        BY <3>1
      <4>2. m(PL[j]) = put(k) /\ PL[j] \in {0} \cup stay
        BY <1>1, <3>0, <4>1
      <4>3. QED
        BY <1>1, <1>2, <4>2
    <3>2. CASE \E l \in DOMAIN R : x = put(l)
      <4>1. PICK l \in DOMAIN R : x = put(l)
        BY <3>2
      <4>2. PR[l] # 0
        BY <1>1, <1>2, <3>0, <4>1
      <4>3. put(PR[l]) = put(k) /\ PR[l] \in DOMAIN R
        BY <1>1, <1>5, <3>0, <4>1, <4>2
      <4>4. QED
        BY <1>7, <1>9, <4>1, <4>3
    <3>3. QED
      BY <1>1, <3>1, <3>2
  <2>5. DOMAIN R \subseteq Content(R)
    BY <2>1
  <2>6. QED
    BY <2>1, <2>2, <2>3, <2>4, <2>5 DEF Carries, PR, PN
<1>14. QED
  BY <1>12, <1>13 DEF N, m, put, mf, pf

-----------------------------------------------------------------------------
(* What the program reads from a text that was spliced *)

(* In a tidy text a key leads to the line that has it. *)
LEMMA AtIn ==
  ASSUME NEW lines \in Seq(Line), NEW base \in Nat, Shape(lines, base), NEW p, NEW key
  PROVE  LET at == At(lines, Parents(lines), p, key)
         IN /\ \A i \in Content(lines) : IsKey(lines[i], {key}) /\ Parents(lines)[i] = p => at = i
            /\ at # 0 => at \in Content(lines) /\ IsKey(lines[at], {key}) /\ Parents(lines)[at] = p
<1> DEFINE S == {i \in DOMAIN lines : IsKey(lines[i], {key}) /\ Parents(lines)[i] = p}
           at == Least(S, 0)
<1>1. S \in SUBSET Nat /\ S \subseteq Content(lines)
  BY LinesOf DEF IsKey, Content, HasContent
<1>2. (S = {} => at = 0) /\ (S # {} => at \in S)
  BY <1>1, LeastOf
<1>3. At(lines, Parents(lines), p, key) = at
  BY DEF At
<1> HIDE DEF at
<1>4. ASSUME NEW i \in Content(lines), IsKey(lines[i], {key}), Parents(lines)[i] = p
      PROVE  at = i
  <2>1. i \in S
    BY <1>4 DEF Content
  <2>2. at \in S /\ at \in Content(lines)
    BY <1>1, <1>2, <2>1
  <2>3. /\ lines[i].kind = "key" /\ lines[at].kind = "key" /\ lines[i].key = lines[at].key
        /\ Parents(lines)[i] = Parents(lines)[at]
    BY <1>4, <2>2 DEF IsKey
  <2>4. ~ (at < i)
    BY <2>2, <2>3 DEF Shape
  <2>5. ~ (i < at)
    BY <2>2, <2>3 DEF Shape
  <2>6. i \in Nat /\ at \in Nat
    BY <1>1, <2>1, <2>2
  <2>7. QED
    BY <2>4, <2>5, <2>6
<1>5. at # 0 => at \in Content(lines) /\ IsKey(lines[at], {key}) /\ Parents(lines)[at] = p
  BY <1>1, <1>2
<1>6. QED
  BY <1>3, <1>4, <1>5

LEMMA AtIs ==
  ASSUME NEW lines \in Seq(Line), Shape(lines, 0), NEW p, NEW key
  PROVE  LET at == At(lines, Parents(lines), p, key)
         IN /\ \A i \in Content(lines) : IsKey(lines[i], {key}) /\ Parents(lines)[i] = p => at = i
            /\ at # 0 => at \in Content(lines) /\ IsKey(lines[at], {key}) /\ Parents(lines)[at] = p
  BY AtIn

Read(lines, section, key) == Meaning(lines, Field(lines, Parents(lines), section, key))

Nothing == [found |-> FALSE, val |-> Blank, vals |-> <<>>, mode |-> Blank, networks |-> <<>>, rules |-> <<>>]

LEMMA MeaningOfNone ==
  ASSUME NEW lines PROVE Meaning(lines, 0) = Nothing
<1>1. ItemsBelow(lines, Parents(lines), 0) = <<>>
  BY DEF ItemsBelow
<1>2. \A key : Child(lines, Parents(lines), 0, key) = 0
  BY DEF Child
<1>3. Values(lines, <<>>) = <<>>
  BY DEF Values
<1>4. Scalar(lines, 0, Blank) = Blank
  BY DEF Scalar
<1> DEFINE P == Parents(lines)
           items == ItemsBelow(lines, P, 0)
           rules == [k \in DOMAIN items |->
                      [name |-> lines[items[k]].val,
                       size |-> Scalar(lines, Child(lines, P, items[k], "max_size"), Blank)]]
<1>5. rules = <<>>
  <2> HIDE DEF P
  <2>1. DOMAIN items = {}
    BY <1>1 DEF P
  <2> HIDE DEF items
  <2>2. rules = [k \in {} |-> 0]
    BY <2>1
  <2>3. QED
    BY <2>2
<1>6. Meaning(lines, 0) =
        [found |-> FALSE, val |-> Scalar(lines, 0, Blank), vals |-> Values(lines, items),
         mode |-> Scalar(lines, Child(lines, P, 0, "mode"), Blank),
         networks |-> Values(lines, ItemsBelow(lines, P, Child(lines, P, 0, "networks"))), rules |-> rules]
  BY DEF Meaning
<1>7. Child(lines, P, 0, "mode") = 0 /\ Child(lines, P, 0, "networks") = 0 /\ items = <<>>
  BY <1>1, <1>2
<1> HIDE DEF rules, items, P
<1>8. ItemsBelow(lines, P, Child(lines, P, 0, "networks")) = <<>>
  BY <1>1, <1>7 DEF P
<1>9. QED
  BY <1>3, <1>4, <1>5, <1>6, <1>7, <1>8 DEF Nothing

(* Outside what was cut and what was put in, the same is read; below a key that   *)
(* was put in, what the new lines say; and nothing below one that was cut.      *)
LEMMA ReadSpliced ==
  ASSUME NEW L \in Seq(Line), NEW R \in Seq(Line), NEW h, NEW a, NEW b, Fits(L, R, h, a, b),
         \A k \in DOMAIN R, i \in Content(L) \ (a .. b) :
           Parents(R)[k] = 0 /\ Parents(L)[i] = h => L[i].key # R[k].key,
         NEW section, NEW key
  PROVE  LET N == Spliced(L, R, a, b)
             cut == a <= b /\ L[a].key = key
             new == \E k \in DOMAIN R : Parents(R)[k] = 0 /\ R[k].key = key
         IN /\ section # L[h].key \/ (~cut /\ ~new) => Read(N, section, key) = Read(L, section, key)
            /\ section = L[h].key => \A k \in DOMAIN R : Parents(R)[k] = 0 /\ R[k].key = key =>
                                        Read(N, section, key) = Meaning(R, k)
            /\ section = L[h].key /\ cut /\ ~new => Read(N, section, key) = Nothing
<1> DEFINE N == Spliced(L, R, a, b)
           m(i) == MovedTo(R, a, b, i)
           put(k) == PutAt(a, k)
           PL == Parents(L)
           PR == Parents(R)
           PN == Parents(N)
           stay == Content(L) \ (a .. b)
           D == stay \ {h}
           mf == [i \in Content(L) |-> m(i)]
           pf == [k \in DOMAIN R |-> put(k)]
           cut == a <= b /\ L[a].key = key
           new == \E k \in DOMAIN R : PR[k] = 0 /\ R[k].key = key
           t == At(L, PL, 0, section)
           c == Child(L, PL, t, key)
           tN == At(N, PN, 0, section)
           cN == Child(N, PN, tN, key)
<1>1. /\ \A i \in stay : /\ m(i) \in Content(N) /\ N[m(i)] = L[i]
                         /\ PL[i] \in {0} \cup stay /\ PN[m(i)] = m(PL[i])
      /\ \A k \in DOMAIN R : /\ put(k) \in Content(N) /\ N[put(k)] = R[k]
                             /\ PN[put(k)] = IF PR[k] = 0 THEN h ELSE put(PR[k])
      /\ \A j \in Content(N) : \/ \E i \in stay : j = m(i)
                               \/ \E k \in DOMAIN R : j = put(k)
      /\ m(0) = 0 /\ m(h) = h /\ h \in stay
  BY ParentsSpliced
<1>2. /\ \A i \in stay : i \in Nat \ {0} /\ m(i) \in Nat \ {0}
      /\ \A i, j \in stay \cup {0} : m(i) = m(j) => i = j
      /\ \A i \in stay, k \in DOMAIN R : m(i) # put(k)
      /\ \A k \in DOMAIN R : k \in Nat \ {0} /\ put(k) \in Nat \ {0} /\ h # put(k)
      /\ N \in Seq(Line)
  BY OrderSpliced
<1>3. /\ h \in Nat \ {0} /\ a \in Nat /\ h < a /\ b \in Nat /\ PL[h] = 0
      /\ a <= b => PL[a] = h /\ L[a].kind = "key"
      /\ \A i \in Content(L) : a < i /\ i <= b => PL[i] >= a
      /\ \A k \in DOMAIN R : k \in Content(R) /\ (PR[k] = 0 => R[k].kind = "key")
  BY FitsDepths
<1>4. Carries(L, N, mf, D) /\ Carries(R, N, pf, DOMAIN R)
  BY SplicedCarries
<1>5. Shape(L, 0) /\ Shape(N, 0) /\ IsKey(L[h], Sections) /\ h \in Content(L)
  <2>1. Shape(L, 0) /\ IsKey(L[h], Sections) /\ h \in Content(L)
    BY DEF Fits
  <2>2. Shape(N, 0)
    BY ShapeSpliced
  <2>3. QED
    BY <2>1, <2>2
<1>6. /\ \A i \in Content(L) : mf[i] = m(i)
      /\ \A k \in DOMAIN R : pf[k] = put(k)
      /\ stay \subseteq Content(L)
  OBVIOUS
<1>7. Read(L, section, key) = Meaning(L, c) /\ Read(N, section, key) = Meaning(N, cN)
  BY DEF Read, Field
<1>8. \A i \in a .. b : i \in Content(L) => i # 0 /\ PL[i] # 0 /\ (PL[i] = h => i = a)
  <2> SUFFICES ASSUME NEW i \in a .. b, i \in Content(L)
               PROVE  i # 0 /\ PL[i] # 0 /\ (PL[i] = h => i = a)
    OBVIOUS
  <2>1. i \in Nat /\ PL[i] \in Nat
    BY ContentOf
  <2>2. CASE i = a
    BY <1>3, <2>1, <2>2
  <2>3. CASE i # a
    <3>1. a < i /\ i <= b
      BY <1>3, <2>1, <2>3
    <3>2. PL[i] >= a
      BY <1>3, <3>1
    <3>3. QED
      BY <1>3, <2>1, <3>1, <3>2
  <2>4. QED
    BY <2>2, <2>3
<1> HIDE DEF N, m, put, PL, PR, PN, mf, pf
<1>9. \A p, k, i : i \in Content(L) /\ IsKey(L[i], {k}) /\ PL[i] = p => At(L, PL, p, k) = i
  BY <1>5, AtIs DEF PL
<1>10. \A p, k : At(L, PL, p, k) # 0 => /\ At(L, PL, p, k) \in Content(L)
                                        /\ IsKey(L[At(L, PL, p, k)], {k}) /\ PL[At(L, PL, p, k)] = p
  BY <1>5, AtIs DEF PL
<1>11. \A p, k, i : i \in Content(N) /\ IsKey(N[i], {k}) /\ PN[i] = p => At(N, PN, p, k) = i
  BY <1>2, <1>5, AtIs DEF PN
<1>12. \A p, k : At(N, PN, p, k) # 0 => /\ At(N, PN, p, k) \in Content(N)
                                        /\ IsKey(N[At(N, PN, p, k)], {k}) /\ PN[At(N, PN, p, k)] = p
  BY <1>2, <1>5, AtIs DEF PN
<1>13. t \in {0} \cup stay /\ tN = m(t)
  <2>1. CASE t # 0
    <3>1. t \in Content(L) /\ IsKey(L[t], {section}) /\ PL[t] = 0
      BY <1>10, <2>1
    <3>2. t \in stay
      BY <1>8, <3>1
    <3>3. m(t) \in Content(N) /\ N[m(t)] = L[t] /\ PN[m(t)] = 0
      BY <1>1, <3>1, <3>2
    <3>4. tN = m(t)
      BY <1>11, <3>1, <3>3
    <3>5. QED
      BY <3>2, <3>4
  <2>2. CASE t = 0
    <3>1. SUFFICES ASSUME tN # 0 PROVE FALSE
      BY <1>1, <2>2
    <3>2. tN \in Content(N) /\ IsKey(N[tN], {section}) /\ PN[tN] = 0
      BY <1>12, <3>1
    <3>3. \A k \in DOMAIN R : PR[k] = 0 \/ PR[k] \in DOMAIN R
      BY <1>3, ContentOf DEF Content, PR
    <3>4. ~ \E k \in DOMAIN R : tN = put(k)
      BY <1>1, <1>2, <1>3, <3>2, <3>3
    <3>5. PICK i \in stay : tN = m(i)
      BY <1>1, <3>2, <3>4
    <3>6. IsKey(L[i], {section}) /\ m(PL[i]) = 0 /\ PL[i] \in {0} \cup stay
      BY <1>1, <3>2, <3>5
    <3>7. PL[i] = 0
      BY <1>2, <3>6
    <3>8. QED
      BY <1>2, <1>9, <2>2, <3>5, <3>6, <3>7
  <2>3. QED
    BY <2>1, <2>2
<1>14. t = h <=> section = L[h].key
  <2>1. IsKey(L[h], {L[h].key}) /\ PL[h] = 0
    BY <1>3, <1>5 DEF IsKey
  <2>2. section = L[h].key => t = h
    BY <1>5, <1>9, <2>1
  <2>3. t = h => section = L[h].key
    BY <1>3, <1>10 DEF IsKey
  <2>4. QED
    BY <2>2, <2>3
<1> HIDE DEF t, tN
<1>15. ASSUME NEW i \in D
       PROVE  Meaning(N, m(i)) = Meaning(L, i)
  <2>1. mf[i] = m(i)
    BY <1>6
  <2>2. Meaning(N, mf[i]) = Meaning(L, i)
    BY <1>2, <1>4, MeaningCarried
  <2>3. QED
    BY <2>1, <2>2
<1>16. ASSUME t # h
       PROVE  Read(N, section, key) = Read(L, section, key)
  <2>1. CASE t = 0
    <3>1. tN = 0 /\ c = 0 /\ cN = 0
      BY <1>1, <1>13, <2>1 DEF Child
    <3>2. QED
      BY <1>7, <3>1, MeaningOfNone
  <2>2. CASE t # 0
    <3>1. t \in D /\ tN = mf[t] /\ m(t) # 0
      BY <1>2, <1>6, <1>13, <1>16, <2>2
    <3>2. /\ At(L, PL, t, key) \in D \cup {0}
          /\ At(N, PN, mf[t], key) = IF At(L, PL, t, key) = 0 THEN 0 ELSE mf[At(L, PL, t, key)]
      BY <1>2, <1>4, <3>1, ChildCarried DEF PL, PN
    <3>3. c = At(L, PL, t, key) /\ cN = At(N, PN, mf[t], key)
      BY <1>6, <1>13, <2>2, <3>1 DEF Child
    <3> HIDE DEF c, cN
    <3>4. CASE c = 0
      BY <1>7, <3>2, <3>3, <3>4, MeaningOfNone
    <3>5. CASE c # 0
      <4>1. c \in D /\ cN = m(c)
        BY <1>6, <3>2, <3>3, <3>5
      <4>2. QED
        BY <1>7, <1>15, <4>1
    <3>6. QED
      BY <3>4, <3>5
  <2>3. QED
    BY <2>1, <2>2
<1>17. ASSUME t = h
       PROVE  c = At(L, PL, h, key) /\ cN = At(N, PN, h, key)
  BY <1>1, <1>3, <1>13, <1>17 DEF Child
<1>18. ASSUME t = h, NEW k \in DOMAIN R, PR[k] = 0, R[k].key = key
       PROVE  Read(N, section, key) = Meaning(R, k)
  <2>1. IsKey(N[put(k)], {key}) /\ PN[put(k)] = h /\ put(k) \in Content(N)
    BY <1>1, <1>3, <1>18 DEF IsKey
  <2>2. cN = put(k)
    BY <1>11, <1>17, <1>18, <2>1
  <2>3. Meaning(N, pf[k]) = Meaning(R, k)
    BY <1>2, <1>4, MeaningCarried
  <2>4. QED
    BY <1>6, <1>7, <2>2, <2>3
<1>19. ASSUME t = h, ~new, cN # 0
       PROVE  c # 0 /\ c \in D /\ cN = m(c)
  <2>1. cN \in Content(N) /\ IsKey(N[cN], {key}) /\ PN[cN] = h
    <3>1. cN = At(N, PN, h, key)
      BY <1>17, <1>19
    <3> HIDE DEF cN
    <3>2. QED
      BY <1>12, <1>19, <3>1
  <2> HIDE DEF cN
  <2>2. \A k \in DOMAIN R : PR[k] = 0 \/ PR[k] \in DOMAIN R
    BY <1>3, ContentOf DEF Content, PR
  <2>3. ~ \E k \in DOMAIN R : cN = put(k)
    <3>1. SUFFICES ASSUME NEW k \in DOMAIN R, cN = put(k) PROVE FALSE
      OBVIOUS
    <3>2. PR[k] = 0
      BY <1>1, <1>2, <2>1, <2>2, <3>1
    <3>3. R[k].key = key
      BY <1>1, <2>1, <3>1 DEF IsKey
    <3>4. QED
      BY <1>19, <3>2, <3>3
  <2>4. PICK i \in stay : cN = m(i)
    BY <1>1, <2>1, <2>3
  <2>5. IsKey(L[i], {key}) /\ m(PL[i]) = m(h) /\ PL[i] \in {0} \cup stay
    BY <1>1, <2>1, <2>4
  <2>6. PL[i] = h
    BY <1>1, <1>2, <2>5
  <2>7. c = i
    BY <1>9, <1>17, <1>19, <2>5, <2>6
  <2>8. i # h /\ i # 0
    BY <1>2, <1>3, <2>6
  <2>9. QED
    BY <2>4, <2>7, <2>8
<1>20. ASSUME t = h, c # 0
       PROVE  /\ c \in Content(L) /\ IsKey(L[c], {key}) /\ PL[c] = h
              /\ c \in stay => c \in D /\ cN = m(c)
  <2>1. c \in Content(L) /\ IsKey(L[c], {key}) /\ PL[c] = h
    BY <1>10, <1>17, <1>20
  <2>2. ASSUME c \in stay
        PROVE  c \in D /\ cN = m(c)
    <3>1. c # h
      BY <1>3, <2>1
    <3>2. IsKey(N[m(c)], {key}) /\ PN[m(c)] = h /\ m(c) \in Content(N)
      BY <1>1, <2>1, <2>2
    <3>3. cN = m(c)
      BY <1>11, <1>17, <1>20, <3>2
    <3>4. QED
      BY <2>2, <3>1, <3>3
  <2>3. QED
    BY <2>1, <2>2
<1>21. ASSUME t = h, ~new, ~cut
       PROVE  Read(N, section, key) = Read(L, section, key)
  <2>1. CASE c = 0
    <3>1. cN = 0
      BY <1>19, <1>21, <2>1
    <3>2. QED
      BY <1>7, <2>1, <3>1, MeaningOfNone
  <2>2. CASE c # 0
    <3>1. c \in Content(L) /\ IsKey(L[c], {key}) /\ PL[c] = h
      BY <1>20, <1>21, <2>2
    <3> HIDE DEF c, cN
    <3>2. L[c].key = key
      BY <3>1 DEF IsKey
    <3>3. c \notin a .. b
      <4>1. SUFFICES ASSUME c \in a .. b PROVE FALSE
        OBVIOUS
      <4>2. c = a /\ a <= b
        BY <1>3, <1>8, <3>1, <4>1
      <4>3. QED
        BY <1>21, <3>2, <4>2
    <3>4. c \in D /\ cN = m(c)
      BY <1>20, <1>21, <2>2, <3>1, <3>3
    <3>5. QED
      BY <1>7, <1>15, <3>4
  <2>3. QED
    BY <2>1, <2>2
<1>22. ASSUME t = h, ~new, cut
       PROVE  Read(N, section, key) = Nothing
  <2>1. cN = 0
    <3>1. SUFFICES ASSUME cN # 0 PROVE FALSE
      OBVIOUS
    <3>2. c \in stay
      BY <1>19, <1>22, <3>1
    <3>3. a \in Content(L) /\ PL[a] = h /\ IsKey(L[a], {key})
      <4>1. a \in Content(L)
        BY <1>22 DEF Fits
      <4>2. QED
        BY <1>3, <1>22, <4>1 DEF IsKey
    <3>4. c = a
      BY <1>9, <1>17, <1>22, <3>3
    <3>5. QED
      BY <1>3, <1>22, <3>2, <3>4
  <2>2. QED
    BY <1>7, <2>1, MeaningOfNone
<1>23. QED
  BY <1>14, <1>16, <1>18, <1>21, <1>22 DEF N, PR

(* When what was cut and what was put in is about settings, the rest of the text  *)
(* is as it was.                                                             *)
LEMMA RestSpliced ==
  ASSUME NEW L \in Seq(Line), NEW R \in Seq(Line), NEW h, NEW a, NEW b, Fits(L, R, h, a, b),
         a <= b => L[a].key \in SettingKeys(L[h].key),
         \A k \in DOMAIN R : \E r \in 1 .. k :
           /\ Parents(R)[r] = 0 /\ R[r].key \in SettingKeys(L[h].key)
           /\ \A l \in r + 1 .. k : Depth(R[l]) > Depth(R[r])
  PROVE  Rest(Spliced(L, R, a, b)) = Rest(L)
<1> DEFINE N == Spliced(L, R, a, b)
           m(i) == MovedTo(R, a, b, i)
           put(k) == PutAt(a, k)
           PL == Parents(L)
           PR == Parents(R)
           PN == Parents(N)
           kept == Content(L) \ (a .. b)
           stay == DOMAIN L \ (a .. b)
<1>1. /\ \A i \in kept : /\ m(i) \in Content(N) /\ N[m(i)] = L[i]
                         /\ PL[i] \in {0} \cup kept /\ PN[m(i)] = m(PL[i])
      /\ \A k \in DOMAIN R : /\ put(k) \in Content(N) /\ N[put(k)] = R[k]
                             /\ PN[put(k)] = IF PR[k] = 0 THEN h ELSE put(PR[k])
      /\ \A j \in Content(N) : \/ \E i \in kept : j = m(i)
                               \/ \E k \in DOMAIN R : j = put(k)
      /\ m(0) = 0 /\ m(h) = h /\ h \in kept
  BY ParentsSpliced
<1>2. /\ \A i \in stay : i \in Nat \ {0} /\ m(i) \in Nat \ {0}
      /\ \A i, j \in stay : i < j <=> m(i) < m(j)
      /\ \A i, j \in stay \cup {0} : m(i) = m(j) => i = j
      /\ \A i \in stay, k \in DOMAIN R : /\ i < a => m(i) < put(k)
                                         /\ i > b => put(k) < m(i)
      /\ \A k, l \in DOMAIN R : k < l <=> put(k) < put(l)
      /\ \A k \in DOMAIN R : k \in Nat \ {0} /\ put(k) \in Nat \ {0} /\ h # put(k)
      /\ \A i \in stay : i < a \/ i > b
      /\ \A i \in stay : m(i) \in DOMAIN N /\ N[m(i)] = L[i]
      /\ \A j \in DOMAIN N : \/ \E i \in stay : j = m(i)
                             \/ \E k \in DOMAIN R : j = put(k)
  BY LinesSpliced
<1>a. N \in Seq(Line)
  BY OrderSpliced
<1>3. /\ h \in Nat \ {0} /\ a \in Nat /\ h < a /\ b \in a - 1 .. Len(L) /\ b \in Nat
      /\ b < Len(L) => b + 1 \in Content(L) /\ Depth(L[b + 1]) <= 2
      /\ a <= b => PL[a] = h
      /\ \A i \in Content(L) : h < i /\ i <= b => Depth(L[i]) >= 2
      /\ \A i \in Content(L) : a < i /\ i <= b => Depth(L[i]) > 2
      /\ \A k \in DOMAIN R : k \in Content(R) /\ Depth(R[k]) >= 2
  BY FitsDepths
<1>4. a <= b => a \in Content(L) /\ Depth(L[a]) = 2
  <2> SUFFICES ASSUME a <= b PROVE a \in Content(L) /\ Depth(L[a]) = 2
    OBVIOUS
  <2>1. a \in Content(L) /\ L[a].ind = 1
    BY DEF Fits
  <2>2. L[a].kind = "key"
    BY FitsDepths
  <2>3. QED
    BY <2>1, <2>2, ContentOf
<1>5. /\ Len(L) \in Nat /\ \A i \in Content(L) : i \in Nat /\ i >= 1 /\ i <= Len(L) /\ Depth(L[i]) \in Nat /\ HasContent(L[i])
      /\ kept \subseteq stay /\ \A i \in stay : i <= Len(L)
      /\ \A i \in DOMAIN L : HasContent(L[i]) => i \in Content(L)
      /\ \A i \in DOMAIN N : HasContent(N[i]) => i \in Content(N)
      /\ \A i \in Content(N) : HasContent(N[i])
      /\ \A k \in DOMAIN R : Depth(R[k]) \in Nat
      /\ DOMAIN R = 1 .. Len(R) /\ Len(R) \in Nat /\ DOMAIN L = 1 .. Len(L)
      /\ DOMAIN N = 1 .. Len(N) /\ Len(N) \in Nat /\ Content(N) \subseteq 1 .. Len(N)
  <2>1. \A i \in Content(L) : i \in DOMAIN L /\ HasContent(L[i]) /\ Depth(L[i]) \in Nat
    BY ContentOf, LinesOf
  <2>2. DOMAIN L = 1 .. Len(L) /\ Len(L) \in Nat /\ DOMAIN R = 1 .. Len(R) /\ Len(R) \in Nat
        /\ \A k \in DOMAIN R : Depth(R[k]) \in Nat
    BY LinesOf
  <2>3. DOMAIN N = 1 .. Len(N) /\ Len(N) \in Nat /\ Content(N) \subseteq DOMAIN N
    BY <1>a, LinesOf
  <2> HIDE DEF N
  <2>4. /\ \A i \in DOMAIN L : HasContent(L[i]) => i \in Content(L)
        /\ \A i \in DOMAIN N : HasContent(N[i]) => i \in Content(N)
        /\ \A i \in Content(N) : HasContent(N[i])
    BY DEF Content
  <2>5. QED
    BY <2>1, <2>2, <2>3, <2>4
<1>6. \A i \in stay : i > b => b + 1 \in stay /\ b + 1 \in kept /\ b + 1 <= i /\ Depth(L[b + 1]) <= 2
  BY <1>3, <1>5
<1> DEFINE SetsL(i) == IsSetting(L, PL, i)
           SetsN(i) == IsSetting(N, PN, i)
           UL == {i \in DOMAIN L : \A j \in 1 .. i : SetsL(j) => ~GoesWith(L, i, j)}
           UN == {i \in DOMAIN N : \A j \in 1 .. i : SetsN(j) => ~GoesWith(N, i, j)}
<1>7. /\ \A i : SetsL(i) <=> HasContent(L[i]) /\ PL[i] # 0 /\ L[i].key \in SettingKeys(L[PL[i]].key)
      /\ \A i : SetsN(i) <=> HasContent(N[i]) /\ PN[i] # 0 /\ N[i].key \in SettingKeys(N[PN[i]].key)
      /\ \A i, j : GoesWith(L, i, j) <=> \A k \in j + 1 .. i : HasContent(L[k]) => Depth(L[k]) > Depth(L[j])
      /\ \A i, j : GoesWith(N, i, j) <=> \A k \in j + 1 .. i : HasContent(N[k]) => Depth(N[k]) > Depth(N[j])
  BY DEF IsSetting, GoesWith
<1>8. Unowned(L) = UL /\ Unowned(N) = UN
  BY DEF Unowned
<1> HIDE DEF N, m, put, PL, PR, PN, SetsL, SetsN
<1>9. UL \subseteq stay
  <2> SUFFICES ASSUME NEW i \in UL, i \in a .. b PROVE FALSE
    OBVIOUS
  <2>1. a <= b /\ i \in DOMAIN L /\ a <= i /\ i <= b
    BY <1>3, <1>5
  <2>2. SetsL(a)
    BY <1>3, <1>4, <1>5, <1>7, <2>1
  <2>3. GoesWith(L, i, a)
    <3> SUFFICES ASSUME NEW k \in a + 1 .. i, HasContent(L[k]) PROVE Depth(L[k]) > Depth(L[a])
      BY <1>7
    <3>1. k \in Content(L) /\ a < k /\ k <= b
      BY <1>3, <1>5, <2>1
    <3>2. QED
      BY <1>3, <1>4, <2>1, <3>1
  <2>4. a \in 1 .. i
    BY <1>3, <2>1
  <2>5. QED
    BY <2>2, <2>3, <2>4
<1>10. \A k \in DOMAIN R : put(k) \notin UN
  <2> SUFFICES ASSUME NEW k \in DOMAIN R, put(k) \in UN PROVE FALSE
    OBVIOUS
  <2>1. PICK r \in 1 .. k : /\ PR[r] = 0 /\ R[r].key \in SettingKeys(L[h].key)
                            /\ \A l \in r + 1 .. k : Depth(R[l]) > Depth(R[r])
    BY DEF PR
  <2>2. r \in DOMAIN R /\ r <= k /\ r \in Nat /\ k \in Nat
    BY <1>5
  <2>3. SetsN(put(r))
    <3>1. HasContent(N[put(r)]) /\ PN[put(r)] = h /\ h # 0 /\ N[put(r)].key = R[r].key /\ N[h] = L[h]
      BY <1>1, <1>2, <1>5, <2>1, <2>2
    <3>2. QED
      BY <1>7, <2>1, <3>1
  <2>4. put(r) \in 1 .. put(k)
    <3>1. put(r) = put(k) \/ put(r) < put(k)
      BY <1>2, <2>2
    <3>2. QED
      BY <1>2, <2>2, <3>1
  <2>5. GoesWith(N, put(k), put(r))
    <3> SUFFICES ASSUME NEW x \in put(r) + 1 .. put(k), HasContent(N[x]) PROVE Depth(N[x]) > Depth(N[put(r)])
      BY <1>7
    <3>1. x \in Nat /\ put(r) < x /\ x <= put(k) /\ put(r) \in Nat /\ put(k) \in Nat
      BY <1>2, <2>2
    <3>2. x \in Content(N)
      <4>1. put(k) \in 1 .. Len(N)
        BY <1>1, <1>5
      <4>2. QED
        BY <1>5, <3>1, <4>1
    <3>3. ~ \E i \in kept : x = m(i)
      <4> SUFFICES ASSUME NEW i \in kept, x = m(i) PROVE FALSE
        OBVIOUS
      <4>0. i \in stay
        BY <1>5
      <4>1. (i < a => m(i) < put(r)) /\ (i > b => put(k) < m(i)) /\ (i < a \/ i > b)
        BY <1>2, <2>2, <4>0
      <4>2. QED
        BY <3>1, <4>1
    <3>4. PICK l \in DOMAIN R : x = put(l)
      BY <1>1, <3>2, <3>3
    <3>5. r < l /\ ~ (k < l) /\ l \in Nat
      BY <1>2, <2>2, <3>1, <3>4
    <3>6. l \in r + 1 .. k
      BY <2>2, <3>5
    <3>7. QED
      BY <1>1, <2>1, <2>2, <3>4, <3>6
  <2>6. QED
    BY <2>3, <2>4, <2>5
<1>11. ASSUME NEW j \in kept
       PROVE  SetsL(j) <=> SetsN(m(j))
  <2>1. N[m(j)] = L[j] /\ PN[m(j)] = m(PL[j]) /\ PL[j] \in {0} \cup kept
    BY <1>1
  <2>2. PL[j] # 0 => m(PL[j]) # 0 /\ N[m(PL[j])] = L[PL[j]]
    BY <1>1, <1>2, <1>5, <2>1
  <2>3. PL[j] = 0 => m(PL[j]) = 0
    BY <1>1
  <2>4. QED
    BY <1>7, <2>1, <2>2, <2>3
<1>12. ASSUME NEW i \in stay, NEW j \in kept, j <= i
       PROVE  GoesWith(L, i, j) <=> GoesWith(N, m(i), m(j))
  <2>1. /\ N[m(i)] = L[i] /\ N[m(j)] = L[j] /\ i \in Nat /\ j \in Nat /\ m(i) \in Nat /\ m(j) \in Nat
        /\ m(i) \in DOMAIN N /\ j \in stay /\ j \in Content(L) /\ Depth(L[j]) \in Nat
    BY <1>2, <1>5
  <2>2. ASSUME GoesWith(L, i, j)
        PROVE  GoesWith(N, m(i), m(j))
    <3> SUFFICES ASSUME NEW x \in m(j) + 1 .. m(i), HasContent(N[x]) PROVE Depth(N[x]) > Depth(N[m(j)])
      BY <1>7
    <3>1. x \in Nat /\ m(j) < x /\ x <= m(i)
      BY <2>1
    <3>2. x \in Content(N)
      <4>1. m(i) \in 1 .. Len(N)
        BY <1>5, <2>1
      <4>2. QED
        BY <1>5, <2>1, <3>1, <4>1
    <3>3. CASE \E k \in kept : x = m(k)
      <4>1. PICK k \in kept : x = m(k)
        BY <3>3
      <4>a. k \in stay /\ k \in Content(L)
        BY <1>5
      <4>2. j < k /\ ~ (i < k) /\ k \in Nat /\ k \in Content(L)
        BY <1>2, <2>1, <3>1, <4>1, <4>a
      <4>3. k \in j + 1 .. i /\ HasContent(L[k])
        BY <1>5, <2>1, <4>2
      <4>4. Depth(L[k]) > Depth(L[j])
        BY <1>7, <2>2, <4>3
      <4>5. QED
        BY <1>1, <2>1, <4>1, <4>4
    <3>4. CASE \E l \in DOMAIN R : x = put(l)
      <4>1. PICK l \in DOMAIN R : x = put(l)
        BY <3>4
      <4>2. j < a
        BY <1>2, <3>1, <2>1, <4>1
      <4>3. i > b
        BY <1>2, <3>1, <2>1, <4>1
      <4>4. b + 1 \in j + 1 .. i /\ b + 1 \in Content(L) /\ Depth(L[b + 1]) <= 2
        BY <1>3, <1>6, <2>1, <4>2, <4>3
      <4>5. Depth(L[b + 1]) > Depth(L[j]) /\ Depth(L[b + 1]) \in Nat
        BY <1>5, <1>7, <2>2, <4>4
      <4>6. N[x] = R[l] /\ Depth(R[l]) >= 2 /\ Depth(R[l]) \in Nat
        BY <1>1, <1>3, <1>5, <4>1
      <4>7. QED
        BY <2>1, <4>4, <4>5, <4>6
    <3>5. QED
      BY <1>1, <3>2, <3>3, <3>4
  <2>3. ASSUME GoesWith(N, m(i), m(j))
        PROVE  GoesWith(L, i, j)
    <3> SUFFICES ASSUME NEW k \in j + 1 .. i, HasContent(L[k]) PROVE Depth(L[k]) > Depth(L[j])
      BY <1>7
    <3>1. k \in Content(L) /\ k \in Nat /\ j < k /\ k <= i /\ Depth(L[k]) \in Nat
      BY <1>5, <2>1
    <3>2. CASE k \in kept
      <4>a. k \in stay
        BY <1>5, <3>2
      <4>1. m(j) < m(k) /\ (m(k) < m(i) \/ k = i) /\ m(k) \in Nat
        BY <1>2, <2>1, <3>1, <4>a
      <4>2. m(k) \in m(j) + 1 .. m(i) /\ HasContent(N[m(k)])
        BY <1>1, <1>5, <2>1, <3>2, <4>1
      <4>3. Depth(N[m(k)]) > Depth(N[m(j)])
        BY <1>7, <2>3, <4>2
      <4>4. QED
        BY <1>1, <2>1, <3>2, <4>3
    <3>3. CASE k \in a .. b
      <4>1. j < a /\ i > b /\ a <= k /\ k <= b
        BY <1>2, <1>3, <2>1, <3>1, <3>3
      <4>2. b + 1 \in stay /\ b + 1 <= i /\ Depth(L[b + 1]) <= 2 /\ j < b + 1
        BY <1>3, <1>6, <2>1, <4>1
      <4>3. m(j) < m(b + 1) /\ (m(b + 1) < m(i) \/ b + 1 = i) /\ m(b + 1) \in Nat
        <5>1. m(j) < m(b + 1) /\ m(b + 1) \in Nat
          BY <1>2, <2>1, <4>2
        <5>2. b + 1 < i => m(b + 1) < m(i)
          BY <1>2, <4>2
        <5>3. b + 1 < i \/ b + 1 = i
          <6>1. b \in Nat /\ i \in Nat /\ b < i
            BY <1>3, <2>1, <4>1
          <6>2. QED
            BY <6>1
        <5>4. QED
          BY <5>1, <5>2, <5>3
      <4>4. m(b + 1) \in m(j) + 1 .. m(i) /\ HasContent(N[m(b + 1)]) /\ N[m(b + 1)] = L[b + 1]
        <5>1. m(b + 1) <= m(i)
          BY <2>1, <4>3
        <5>2. m(b + 1) \in m(j) + 1 .. m(i)
          BY <2>1, <4>3, <5>1
        <5>3. N[m(b + 1)] = L[b + 1] /\ HasContent(L[b + 1])
          BY <1>1, <1>5, <1>6, <4>1
        <5>4. QED
          BY <5>2, <5>3
      <4>5. Depth(L[b + 1]) > Depth(L[j]) /\ Depth(L[b + 1]) \in Nat
        BY <1>5, <1>6, <1>7, <2>1, <2>3, <4>1, <4>2, <4>4
      <4>6. Depth(L[k]) >= 2
        BY <1>3, <3>1, <4>1
      <4>7. QED
        BY <2>1, <3>1, <4>2, <4>5, <4>6
    <3>4. QED
      BY <3>1, <3>2, <3>3
  <2>4. QED
    BY <2>2, <2>3
<1>13. ASSUME NEW i \in stay
       PROVE  i \in UL <=> m(i) \in UN
  <2>1. i \in DOMAIN L /\ m(i) \in DOMAIN N /\ i \in Nat /\ m(i) \in Nat /\ i <= Len(L)
    BY <1>2, <1>5
  <2>2. ASSUME m(i) \in UN, NEW j \in 1 .. i, SetsL(j), GoesWith(L, i, j)
        PROVE  FALSE
    <3>1. j \in Content(L) /\ j \in Nat /\ j <= i /\ Depth(L[j]) \in Nat
      BY <1>5, <1>7, <2>1, <2>2
    <3>2. CASE j \in kept
      <4>1. SetsN(m(j)) /\ GoesWith(N, m(i), m(j))
        BY <1>11, <1>12, <2>2, <3>1, <3>2
      <4>2. m(j) \in 1 .. m(i)
        <5>1. j = i \/ m(j) < m(i)
          BY <1>2, <1>5, <2>1, <3>1, <3>2
        <5>2. m(j) \in Nat \ {0}
          BY <1>2, <1>5, <3>2
        <5>3. QED
          BY <2>1, <5>1, <5>2
      <4>3. QED
        BY <2>2, <4>1, <4>2
    <3>3. CASE j \in a .. b
      <4>1. i > b /\ h < j /\ j <= b /\ a <= j
        BY <1>2, <1>3, <2>1, <3>1, <3>3
      <4>2. b + 1 \in stay /\ b + 1 <= i /\ Depth(L[b + 1]) <= 2 /\ b + 1 \in Content(L)
        BY <1>6, <4>1
      <4>3. b + 1 \in j + 1 .. i /\ HasContent(L[b + 1]) /\ Depth(L[b + 1]) \in Nat
        BY <1>3, <1>5, <2>1, <3>1, <4>1, <4>2
      <4>4. Depth(L[b + 1]) > Depth(L[j])
        BY <1>7, <2>2, <4>3
      <4>5. Depth(L[j]) >= 2
        BY <1>3, <3>1, <4>1
      <4>6. QED
        BY <3>1, <4>2, <4>3, <4>4, <4>5
    <3>4. QED
      BY <3>1, <3>2, <3>3
  <2>3. ASSUME i \in UL, NEW y \in 1 .. m(i), SetsN(y), GoesWith(N, m(i), y)
        PROVE  FALSE
    <3>1. y \in Content(N) /\ y \in Nat /\ y <= m(i)
      <4>1. m(i) \in 1 .. Len(N)
        BY <1>5, <2>1
      <4>2. y \in 1 .. Len(N)
        BY <1>5, <4>1
      <4>3. QED
        BY <1>5, <1>7, <2>1, <2>3, <4>2
    <3>2. CASE \E j \in kept : y = m(j)
      <4>1. PICK j \in kept : y = m(j)
        BY <3>2
      <4>2. ~ (i < j) /\ j \in Nat \ {0}
        BY <1>2, <1>5, <2>1, <3>1, <4>1
      <4>3. j \in 1 .. i /\ j <= i
        BY <2>1, <4>2
      <4>4. SetsL(j) /\ GoesWith(L, i, j)
        BY <1>11, <1>12, <2>3, <4>1, <4>3
      <4>5. QED
        BY <2>3, <4>3, <4>4
    <3>3. CASE \E r \in DOMAIN R : y = put(r)
      <4>1. PICK r \in DOMAIN R : y = put(r)
        BY <3>3
      <4>2. i > b
        BY <1>2, <2>1, <3>1, <4>1
      <4>3. b + 1 \in stay /\ b + 1 <= i /\ Depth(L[b + 1]) <= 2 /\ b + 1 \in Content(L)
        BY <1>6, <4>2
      <4>4. put(r) < m(b + 1) /\ (m(b + 1) < m(i) \/ b + 1 = i) /\ m(b + 1) \in Nat /\ put(r) \in Nat
        <5>1. put(r) < m(b + 1) /\ m(b + 1) \in Nat /\ put(r) \in Nat
          BY <1>2, <1>3, <4>1, <4>3
        <5>2. b + 1 < i => m(b + 1) < m(i)
          BY <1>2, <2>1, <4>3
        <5>3. b + 1 < i \/ b + 1 = i
          <6>1. b \in Nat /\ i \in Nat /\ b < i
            BY <1>3, <2>1, <4>2
          <6>2. QED
            BY <6>1
        <5>4. QED
          BY <5>1, <5>2, <5>3
      <4>5. m(b + 1) \in y + 1 .. m(i) /\ HasContent(N[m(b + 1)]) /\ N[m(b + 1)] = L[b + 1]
        <5>1. m(b + 1) <= m(i)
          BY <2>1, <4>4
        <5>2. m(b + 1) \in y + 1 .. m(i)
          BY <2>1, <3>1, <4>1, <4>4, <5>1
        <5>3. N[m(b + 1)] = L[b + 1] /\ HasContent(L[b + 1])
          BY <1>1, <1>5, <4>3
        <5>4. QED
          BY <5>2, <5>3
      <4>6. Depth(L[b + 1]) > Depth(N[y]) /\ Depth(L[b + 1]) \in Nat
        BY <1>5, <1>7, <2>3, <4>3, <4>5
      <4>7. N[y] = R[r] /\ Depth(R[r]) >= 2 /\ Depth(R[r]) \in Nat
        BY <1>1, <1>3, <1>5, <4>1
      <4>8. QED
        BY <4>3, <4>6, <4>7
    <3>4. QED
      BY <1>1, <3>1, <3>2, <3>3
  <2>4. QED
    BY <2>1, <2>2, <2>3
<1> DEFINE f == [i \in UL |-> m(i)]
<1>14. UL \in SUBSET Nat /\ UN \in SUBSET Nat /\ IsFiniteSet(UL)
  <2>1. UL \subseteq DOMAIN L /\ UN \subseteq DOMAIN N
    OBVIOUS
  <2>2. DOMAIN L \in SUBSET Nat /\ IsFiniteSet(DOMAIN L) /\ DOMAIN N \in SUBSET Nat
    <3>1. IsFiniteSet(1 .. Len(L))
      BY <1>5, FS_Interval
    <3>2. QED
      BY <1>5, <3>1
  <2> HIDE DEF UL, UN
  <2>3. QED
    BY <2>1, <2>2, FS_Subset
<1> HIDE DEF UL, UN
<1>15. /\ f \in [UL -> UN] /\ \A i, j \in UL : i < j => f[i] < f[j]
       /\ \A t \in UN : \E i \in UL : f[i] = t
  <2>1. \A i \in UL : i \in stay /\ f[i] = m(i) /\ m(i) \in UN
    BY <1>9, <1>13
  <2>2. ASSUME NEW t \in UN
        PROVE  \E i \in UL : f[i] = t
    <3>1. t \in DOMAIN N
      BY DEF UN
    <3>2. PICK i \in stay : t = m(i)
      BY <1>2, <1>10, <3>1
    <3>3. i \in UL
      BY <1>13, <3>2
    <3>4. QED
      BY <2>1, <3>2, <3>3
  <2>3. QED
    BY <1>2, <2>1, <2>2
<1>16. InOrder(UN) = [k \in 1 .. Cardinality(UL) |-> f[InOrder(UL)[k]]]
  <2> HIDE DEF f
  <2>1. QED
    BY <1>14, <1>15, OrderMoved
<1>17. InOrder(UL) \in [1 .. Cardinality(UL) -> UL]
  BY <1>14, OrderOf
<1>18. \A k \in 1 .. Cardinality(UL) : N[InOrder(UN)[k]] = L[InOrder(UL)[k]]
  BY <1>2, <1>9, <1>16, <1>17
<1>19. Rest(N) = Rest(L)
  BY <1>8, <1>16, <1>17, <1>18 DEF Rest
<1>20. QED
  BY <1>19 DEF N

-----------------------------------------------------------------------------
(* The edits *)

LEMMA EndIs ==
  ASSUME NEW lines \in Seq(Line), NEW first \in DOMAIN lines, NEW limit \in first + 1 .. Len(lines) + 1
  PROVE  LET e == EndOfBlock(lines, first, limit)
         IN /\ e \in first + 1 .. limit
            /\ \A i \in Content(lines) : first < i /\ i < e => lines[i].ind > lines[first].ind
            /\ e < limit => e \in Content(lines) /\ lines[e].ind <= lines[first].ind
<1> DEFINE S == {i \in first + 1 .. limit - 1 : HasContent(lines[i]) /\ lines[i].ind <= lines[first].ind}
           e == Least(S, limit)
<1>1. first \in Nat /\ limit \in Nat /\ Len(lines) \in Nat /\ first < limit /\ limit <= Len(lines) + 1
      /\ DOMAIN lines = 1 .. Len(lines)
  BY LinesOf
<1>2. S \in SUBSET Nat
  BY <1>1
<1>3. (S = {} => e = limit) /\ (S # {} => e \in S /\ \A y \in S : e <= y)
  <2> HIDE DEF S
  <2>1. QED
    BY <1>2, LeastOf
<1>4. EndOfBlock(lines, first, limit) = e
  BY DEF EndOfBlock
<1> HIDE DEF e
<1>5. e \in first + 1 .. limit /\ (e < limit => e \in S)
  BY <1>1, <1>3
<1>6. ASSUME NEW i \in Content(lines), first < i, i < e
      PROVE  lines[i].ind > lines[first].ind
  <2>1. i \in Nat /\ HasContent(lines[i]) /\ lines[i].ind \in Nat /\ lines[first].ind \in Nat
    BY ContentOf, LinesOf
  <2>2. i \in first + 1 .. limit - 1
    BY <1>1, <1>5, <1>6, <2>1
  <2>3. i \notin S
    BY <1>1, <1>3, <1>5, <1>6, <2>1
  <2>4. ~ (lines[i].ind <= lines[first].ind)
    BY <2>1, <2>2, <2>3
  <2>5. QED
    BY <2>1, <2>4
<1>7. e < limit => e \in Content(lines) /\ lines[e].ind <= lines[first].ind
  BY <1>1, <1>5 DEF Content
<1>8. QED
  BY <1>4, <1>5, <1>6, <1>7

LEMMA HeaderIs ==
  ASSUME NEW lines \in Seq(Line), NEW section, HeaderOf(lines, section) # 0
  PROVE  LET h == HeaderOf(lines, section)
         IN /\ h \in Content(lines) /\ lines[h].kind = "key" /\ lines[h].key = section /\ Bare(lines[h])
<1> DEFINE S == {i \in DOMAIN lines : IsHeader(lines[i], section)}
<1>1. S \in SUBSET Nat
  BY LinesOf
<1>2. HeaderOf(lines, section) \in S
  BY <1>1, LeastOf DEF HeaderOf
<1>3. QED
  BY <1>2 DEF IsHeader, Content, HasContent

(* The lines of a section and what reads them. *)
LEMMA SectionIs ==
  ASSUME NEW L \in Seq(Line), Shape(L, 0), NEW section \in Sections, HeaderOf(L, section) # 0
  PROVE  LET h == HeaderOf(L, section)
             e == SectionEnd(L, h)
         IN /\ h \in Content(L) /\ h \in DOMAIN L /\ IsKey(L[h], Sections) /\ L[h].key = section /\ Bare(L[h]) /\ L[h].ind = 0
            /\ e \in h + 1 .. Len(L) + 1
            /\ \A i \in Content(L) : h < i /\ i < e => L[i].ind >= 1
            /\ e <= Len(L) => e \in Content(L) /\ L[e].ind = 0
            /\ \A i \in Content(L) : Parents(L)[i] = h <=> h < i /\ i < e /\ L[i].ind = 1
            /\ \A key : Field(L, Parents(L), section, key) = At(L, Parents(L), h, key)
<1>0. PICK h : h = HeaderOf(L, section)
  OBVIOUS
<1> DEFINE e == SectionEnd(L, h)
<1>1. h \in Content(L) /\ h \in DOMAIN L /\ IsKey(L[h], Sections) /\ L[h].key = section /\ Bare(L[h]) /\ h \in Nat
      /\ L[h].kind = "key" /\ h # 0
  <2>1. h \in Content(L) /\ L[h].kind = "key" /\ L[h].key = section /\ Bare(L[h])
    BY <1>0, HeaderIs
  <2>2. h # 0
    BY <1>0
  <2>3. QED
    BY <2>1, <2>2, ContentOf DEF IsKey
<1>2. L[h].ind = 0 /\ Depth(L[h]) = 0
  <2>1. L[h].ind = 0
    BY <1>1 DEF Shape
  <2>2. QED
    BY <1>1, <2>1, ContentOf
<1>3. Len(L) \in Nat /\ DOMAIN L = 1 .. Len(L) /\ \A i \in Content(L) : i \in Nat /\ L[i].ind \in Nat /\ i \in 1 .. Len(L)
  BY LinesOf
<1>4. /\ e \in h + 1 .. Len(L) + 1
      /\ \A i \in Content(L) : h < i /\ i < e => L[i].ind > L[h].ind
      /\ e < Len(L) + 1 => e \in Content(L) /\ L[e].ind <= L[h].ind
  <2>1. Len(L) + 1 \in h + 1 .. Len(L) + 1
    BY <1>1, <1>3
  <2>2. QED
    BY <1>1, <2>1, EndIs DEF SectionEnd
<1> HIDE DEF e
<1>5. \A i \in Content(L) : h < i /\ i < e => L[i].ind >= 1
  <2> SUFFICES ASSUME NEW i \in Content(L), h < i, i < e PROVE L[i].ind >= 1
    OBVIOUS
  <2>1. L[i].ind > L[h].ind /\ L[i].ind \in Nat
    BY <1>3, <1>4
  <2>2. QED
    BY <1>2, <2>1
<1>6. e <= Len(L) => e \in Content(L) /\ L[e].ind = 0
  <2> SUFFICES ASSUME e <= Len(L) PROVE e \in Content(L) /\ L[e].ind = 0
    OBVIOUS
  <2>1. e < Len(L) + 1
    BY <1>1, <1>3, <1>4
  <2>2. e \in Content(L) /\ L[e].ind <= L[h].ind
    BY <1>4, <2>1
  <2>3. L[e].ind \in Nat
    BY <1>3, <2>2
  <2>4. QED
    BY <1>2, <2>2, <2>3
<1>7. ASSUME NEW i \in Content(L), h < i, i < e, L[i].ind = 1
      PROVE  Parents(L)[i] = h
  <2>1. \A j \in Content(L) : h < j /\ j < i => L[j].ind >= 1
    BY <1>1, <1>3, <1>4, <1>5, <1>7
  <2>2. QED
    BY <1>1, <1>7, <2>1, BelowHeader
<1>8. ASSUME NEW i \in Content(L), Parents(L)[i] = h
      PROVE  h < i /\ i < e /\ L[i].ind = 1
  <2>1. L[i].ind = L[h].ind + 1
    BY <1>1, <1>8 DEF Shape
  <2>2. L[i].ind = 1
    BY <1>2, <2>1
  <2>3. h \in 0 .. i - 1 /\ i \in Nat
    BY <1>8, ContentOf
  <2>4. h < i
    BY <1>1, <2>3
  <2>5. SUFFICES ASSUME ~ (i < e) PROVE FALSE
    BY <2>2, <2>4
  <2>6. e <= i /\ e <= Len(L) /\ e \in Content(L) /\ L[e].ind = 0 /\ e \in Nat
    BY <1>1, <1>3, <1>4, <1>6, <2>3, <2>5
  <2>7. e # i
    BY <2>2, <2>6
  <2>8. Depth(L[e]) = 0 \/ Depth(L[e]) = 1
    BY <2>6, ContentOf
  <2>9. Depth(L[i]) = 2 \/ Depth(L[i]) = 3
    BY <2>2, ContentOf
  <2>10. IsParent(L, i, h) /\ HasContent(L[e])
    BY <1>8, <2>6, ContentOf, ParentIs
  <2>11. e \in h + 1 .. i - 1
    BY <1>1, <1>4, <2>3, <2>6, <2>7
  <2>12. Depth(L[i]) <= Depth(L[e])
    BY <2>10, <2>11 DEF IsParent
  <2>13. QED
    BY <2>8, <2>9, <2>12
<1>9. Parents(L)[h] = 0
  <2>1. SUFFICES ASSUME Parents(L)[h] # 0 PROVE FALSE
    OBVIOUS
  <2>2. L[h].ind = L[Parents(L)[h]].ind + 1 /\ Parents(L)[h] \in Content(L)
    BY <1>1, <2>1, ContentOf DEF Shape
  <2>3. L[Parents(L)[h]].ind \in Nat
    BY <2>2, ContentOf
  <2>4. QED
    BY <1>2, <2>2, <2>3
<1>10. At(L, Parents(L), 0, section) = h
  <2>1. IsKey(L[h], {section})
    BY <1>1 DEF IsKey
  <2>2. QED
    BY <1>1, <1>9, <2>1, AtIs
<1>11. \A key : Field(L, Parents(L), section, key) = At(L, Parents(L), h, key)
  BY <1>1, <1>10 DEF Field, Child
<1>12. QED
  BY <1>1, <1>2, <1>4, <1>5, <1>6, <1>7, <1>8, <1>11, <1>0 DEF e

LEMMA SplicedNl ==
  ASSUME NEW L \in Seq(Line), NEW R \in Seq(Line), NEW a \in 1 .. Len(L) + 1, NEW b \in a - 1 .. Len(L)
  PROVE  (\A i \in DOMAIN L : L[i].nl) /\ (\A k \in DOMAIN R : R[k].nl)
           => \A j \in DOMAIN Spliced(L, R, a, b) : Spliced(L, R, a, b)[j].nl
<1> DEFINE N == Spliced(L, R, a, b)
           m(i) == MovedTo(R, a, b, i)
           stay == DOMAIN L \ (a .. b)
<1>1. /\ \A i \in stay : m(i) \in DOMAIN N /\ N[m(i)] = L[i]
      /\ \A k \in DOMAIN R : PutAt(a, k) \in DOMAIN N /\ N[PutAt(a, k)] = R[k]
      /\ \A j \in DOMAIN N : \/ \E i \in stay : j = m(i)
                             \/ \E k \in DOMAIN R : j = PutAt(a, k)
  <2>1. Places(L, R, a, b)
    BY SplicedLines
  <2>2. QED
    BY <2>1 DEF Places
<1> HIDE DEF N, m
<1>2. QED
  BY <1>1 DEF N

(* Cutting and adding lines leave a tidy text tidy. *)
LEMMA TidySpliced ==
  ASSUME NEW L \in Seq(Line), NEW R \in Seq(Line), NEW h, NEW a, NEW b, Fits(L, R, h, a, b),
         \A i \in DOMAIN L : L[i].nl, \A k \in DOMAIN R : R[k].nl,
         \A k \in DOMAIN R, i \in Content(L) \ (a .. b) :
           Parents(R)[k] = 0 /\ Parents(L)[i] = h => L[i].key # R[k].key
  PROVE  Spliced(L, R, a, b) \in Seq(Line) /\ Tidy(Spliced(L, R, a, b))
<1> DEFINE N == Spliced(L, R, a, b)
<1>1. a \in 1 .. Len(L) + 1 /\ b \in a - 1 .. Len(L)
  <2>1. h \in Nat /\ a \in h + 1 .. Len(L) + 1 /\ b \in a - 1 .. Len(L) /\ Len(L) \in Nat
    BY LinesOf, ContentOf DEF Fits
  <2>2. QED
    BY <2>1
<1>2. N \in Seq(Line)
  BY OrderSpliced
<1>3. Shape(N, 0)
  BY ShapeSpliced
<1> HIDE DEF N
<1>4. \A j \in DOMAIN N : N[j].nl
  BY <1>1, SplicedNl DEF N
<1>5. Tidy(N)
  BY <1>2, <1>3, <1>4, TidyIs
<1>6. QED
  BY <1>2, <1>5 DEF N

LEMMA WithoutIs ==
  ASSUME NEW L \in Seq(Line), Tidy(L), NEW section \in Sections, NEW key
  PROVE  LET N == Without(L, section, key)
         IN /\ N \in Seq(Line) /\ Tidy(N)
            /\ \A s, k : s # section \/ k # key => Read(N, s, k) = Read(L, s, k)
            /\ HeaderOf(N, section) # 0 => ~Read(N, section, key).found
            /\ key \in SettingKeys(section) => Rest(N) = Rest(L)
<1>0. Shape(L, 0) /\ \A i \in DOMAIN L : L[i].nl
  BY TidyIs
<1>1. PICK h : h = HeaderOf(L, section)
  OBVIOUS
<1>2. PICK e : e = SectionEnd(L, h)
  OBVIOUS
<1>3. CASE h = 0
  <2>1. Without(L, section, key) = L
    BY <1>1, <1>3 DEF Without
  <2>2. QED
    BY <1>1, <1>3, <2>1
<1>4. CASE h # 0
  <2>1. /\ h \in Content(L) /\ h \in DOMAIN L /\ IsKey(L[h], Sections) /\ L[h].key = section /\ Bare(L[h]) /\ L[h].ind = 0
        /\ e \in h + 1 .. Len(L) + 1
        /\ \A i \in Content(L) : h < i /\ i < e => L[i].ind >= 1
        /\ e <= Len(L) => e \in Content(L) /\ L[e].ind = 0
        /\ \A i \in Content(L) : Parents(L)[i] = h <=> h < i /\ i < e /\ L[i].ind = 1
        /\ \A k : Field(L, Parents(L), section, k) = At(L, Parents(L), h, k)
    BY <1>0, <1>1, <1>2, <1>4, SectionIs
  <2>2. Len(L) \in Nat /\ DOMAIN L = 1 .. Len(L) /\ h \in Nat /\ h # 0 /\ e \in Nat
        /\ \A i \in Content(L) : i \in 1 .. Len(L) /\ L[i].ind \in Nat
    BY <1>4, <2>1, LinesOf
  <2> DEFINE found == DirectChildren(L, h, key)
  <2>3. found = {i \in h + 1 .. e - 1 : IsKey(L[i], {key}) /\ L[i].ind = L[h].ind + 1}
    BY <1>2 DEF DirectChildren
  <2>4. found \in SUBSET Nat
    BY <2>2, <2>3
  <2>5. L[h].ind + 1 = 1
    BY <2>1
  <2>6. \A i \in found : i \in Content(L) /\ L[i].ind = 1 /\ h < i /\ i < e /\ IsKey(L[i], {key}) /\ i \in Nat
    <3> SUFFICES ASSUME NEW i \in found
                 PROVE  i \in Content(L) /\ L[i].ind = 1 /\ h < i /\ i < e /\ IsKey(L[i], {key}) /\ i \in Nat
      OBVIOUS
    <3>1. i \in h + 1 .. e - 1 /\ IsKey(L[i], {key}) /\ L[i].ind = 1
      BY <2>3, <2>5
    <3>2. i \in Nat /\ h < i /\ i < e
      BY <2>2, <3>1
    <3>3. i \in DOMAIN L
      BY <2>1, <2>2, <3>2
    <3>4. i \in Content(L)
      BY <3>1, <3>3 DEF Content, IsKey, HasContent
    <3>5. QED
      BY <3>1, <3>2, <3>4
  <2>7. \A i \in Content(L) : Parents(L)[i] = h /\ IsKey(L[i], {key}) => i \in found
    <3> SUFFICES ASSUME NEW i \in Content(L), Parents(L)[i] = h, IsKey(L[i], {key}) PROVE i \in found
      OBVIOUS
    <3>1. h < i /\ i < e /\ L[i].ind = 1
      BY <2>1
    <3>2. i \in h + 1 .. e - 1
      BY <2>2, <3>1
    <3>3. QED
      BY <2>3, <2>5, <3>1, <3>2
  <2> HIDE DEF found
  <2>8. CASE found = {}
    <3>1. Without(L, section, key) = L
      BY <1>1, <2>8 DEF Without, found
    <3>2. At(L, Parents(L), h, key) = 0
      <4> SUFFICES ASSUME At(L, Parents(L), h, key) # 0 PROVE FALSE
        OBVIOUS
      <4>1. PICK i : i = At(L, Parents(L), h, key)
        OBVIOUS
      <4>2. i \in Content(L) /\ IsKey(L[i], {key}) /\ Parents(L)[i] = h
        BY <1>0, <4>1, AtIs
      <4>3. QED
        BY <2>7, <2>8, <4>2
    <3>3. Read(L, section, key) = Nothing
      BY <2>1, <3>2, MeaningOfNone DEF Read
    <3>4. ~Read(L, section, key).found
      BY <3>3 DEF Nothing
    <3>5. QED
      BY <3>1, <3>4
  <2>9. CASE found # {}
    <3>1. PICK a : a = Least(found, 0)
      OBVIOUS
    <3>2. a \in found /\ Min(found) = a
      BY <2>4, <2>9, <3>1, LeastOf DEF Least
    <3>3. PICK c : c = EndOfBlock(L, a, e)
      OBVIOUS
    <3>4. a \in Content(L) /\ L[a].ind = 1 /\ h < a /\ a < e /\ IsKey(L[a], {key}) /\ a \in Nat /\ a \in DOMAIN L
      BY <2>6, <3>2, LinesOf
    <3>5. /\ c \in a + 1 .. e
          /\ \A i \in Content(L) : a < i /\ i < c => L[i].ind > L[a].ind
          /\ c < e => c \in Content(L) /\ L[c].ind <= L[a].ind
      <4>1. e \in a + 1 .. Len(L) + 1
        BY <2>1, <2>2, <3>4
      <4>2. QED
        BY <3>3, <3>4, <4>1, EndIs
    <3>6. c \in Nat /\ a < c /\ c <= e /\ c <= Len(L) + 1 /\ e <= Len(L) + 1
      BY <2>1, <2>2, <3>4, <3>5
    <3>7. PICK b : b = c - 1
      OBVIOUS
    <3>8. b \in Nat /\ a <= b /\ b <= Len(L) /\ b + 1 = c /\ b < c /\ a - 1 \in Nat
      BY <2>2, <3>4, <3>6, <3>7
    <3>9. PICK R : R = << >>
      OBVIOUS
    <3>9a. Without(L, section, key) = Spliced(L, R, a, b)
      <4>1. Without(L, section, key) = SubSeq(L, 1, a - 1) \o SubSeq(L, SkipBlock(L, a, e) + 1, Len(L))
        BY <1>1, <1>2, <1>4, <2>9, <3>2 DEF Without, found
      <4>2. SkipBlock(L, a, e) = b
        BY <3>3, <3>7 DEF SkipBlock
      <4>3. SubSeq(L, 1, a - 1) \in Seq(Line)
        <5>1. \A i \in 1 .. a - 1 : L[i] \in Line
          BY <2>2, <3>4, <3>6, LinesOf
        <5>2. QED
          BY <3>4, <5>1, SubSeqProperties
      <4>4. SubSeq(L, 1, a - 1) \o <<>> = SubSeq(L, 1, a - 1)
        BY <4>3, ConcatEmptySeq
      <4>5. QED
        BY <3>9, <4>1, <4>2, <4>4 DEF Spliced
    <3>10. R \in Seq(Line) /\ DOMAIN R = {}
      BY <3>9
    <3>11. Shape(R, 1)
      BY <3>10 DEF Shape, Content
    <3>12. Fits(L, R, h, a, b)
      <4>1. a \in h + 1 .. Len(L) + 1 /\ b \in a - 1 .. Len(L)
        BY <2>2, <3>4, <3>6, <3>8
      <4>2. \A i \in Content(L) : h < i /\ i <= b => L[i].ind >= 1
        BY <2>1, <2>2, <3>6, <3>8
      <4>3. \A i \in Content(L) : a < i /\ i <= b => L[i].ind >= 2
        <5> SUFFICES ASSUME NEW i \in Content(L), a < i, i <= b PROVE L[i].ind >= 2
          OBVIOUS
        <5>1. L[i].ind > L[a].ind /\ L[i].ind \in Nat
          BY <2>2, <3>5, <3>8
        <5>2. QED
          BY <3>4, <5>1
      <4>4. b < Len(L) => b + 1 \in Content(L) /\ L[b + 1].ind <= 1
        <5> SUFFICES ASSUME b < Len(L) PROVE c \in Content(L) /\ L[c].ind <= 1
          BY <3>8
        <5>1. CASE c < e
          BY <3>4, <3>5, <5>1
        <5>2. CASE c = e
          <6>1. e <= Len(L)
            BY <2>2, <3>8, <5>2
          <6>2. c \in Content(L) /\ L[c].ind = 0
            BY <2>1, <5>2, <6>1
          <6>3. QED
            BY <6>2
        <5>3. QED
          BY <2>2, <3>6, <5>1, <5>2
      <4>5. QED
        BY <1>0, <2>1, <3>4, <3>10, <3>11, <4>1, <4>2, <4>3, <4>4 DEF Fits
    <3>13. Spliced(L, R, a, b) \in Seq(Line) /\ Tidy(Spliced(L, R, a, b))
      BY <1>0, <3>10, <3>12, TidySpliced
    <3>14. L[a].key = key
      BY <3>4 DEF IsKey
    <3>15. ASSUME NEW s, NEW k
           PROVE  /\ s # section \/ k # key => Read(Spliced(L, R, a, b), s, k) = Read(L, s, k)
                  /\ s = section /\ k = key => Read(Spliced(L, R, a, b), s, k) = Nothing
      <4>1. \A l \in DOMAIN R, i \in Content(L) \ (a .. b) :
               Parents(R)[l] = 0 /\ Parents(L)[i] = h => L[i].key # R[l].key
        BY <3>10
      <4>2. ~ \E l \in DOMAIN R : Parents(R)[l] = 0 /\ R[l].key = k
        BY <3>10
      <4>3. /\ s # L[h].key \/ ~ (a <= b /\ L[a].key = k) =>
                 Read(Spliced(L, R, a, b), s, k) = Read(L, s, k)
            /\ s = L[h].key /\ a <= b /\ L[a].key = k => Read(Spliced(L, R, a, b), s, k) = Nothing
        <5>1. R \in Seq(Line)
          BY <3>10
        <5>2. /\ s # L[h].key \/ (~ (a <= b /\ L[a].key = k) /\ ~ (\E l \in DOMAIN R : Parents(R)[l] = 0 /\ R[l].key = k)) =>
                   Read(Spliced(L, R, a, b), s, k) = Read(L, s, k)
              /\ s = L[h].key /\ (a <= b /\ L[a].key = k) /\ ~ (\E l \in DOMAIN R : Parents(R)[l] = 0 /\ R[l].key = k) =>
                   Read(Spliced(L, R, a, b), s, k) = Nothing
          BY <3>12, <4>1, <5>1, ReadSpliced
        <5>3. QED
          BY <4>2, <5>2
      <4>4. QED
        BY <2>1, <3>8, <3>14, <4>3
    <3>16. key \in SettingKeys(section) => Rest(Spliced(L, R, a, b)) = Rest(L)
      <4>1. \A k \in DOMAIN R : \E r \in 1 .. k :
               /\ Parents(R)[r] = 0 /\ R[r].key \in SettingKeys(L[h].key)
               /\ \A l \in r + 1 .. k : Depth(R[l]) > Depth(R[r])
        BY <3>10
      <4>2. key \in SettingKeys(section) => (a <= b => L[a].key \in SettingKeys(L[h].key))
        BY <2>1, <3>14
      <4>3. QED
        <5>1. R \in Seq(Line)
          BY <3>10
        <5>2. (a <= b => L[a].key \in SettingKeys(L[h].key)) => Rest(Spliced(L, R, a, b)) = Rest(L)
          BY <3>12, <4>1, <5>1, RestSpliced
        <5>3. QED
          BY <4>2, <5>2
    <3>17. ~Read(Spliced(L, R, a, b), section, key).found
      <4>1. Read(Spliced(L, R, a, b), section, key) = Nothing
        BY <3>15
      <4>2. QED
        BY <4>1 DEF Nothing
    <3>18. QED
      BY <3>9a, <3>13, <3>15, <3>16, <3>17
  <2>10. QED
    BY <2>8, <2>9
<1>5. QED
  BY <1>3, <1>4

(* Every line of a rendered block belongs to one of its outermost lines. *)
LEMMA RootAbove ==
  ASSUME NEW R \in Seq(Line), Shape(R, 1), \A k \in DOMAIN R : HasContent(R[k]), NEW k \in DOMAIN R
  PROVE  \E r \in 1 .. k : /\ r \in DOMAIN R /\ Parents(R)[r] = 0
                           /\ \A l \in r + 1 .. k : Depth(R[l]) > Depth(R[r])
<1> DEFINE S == {r \in 1 .. k : Parents(R)[r] = 0}
           g == Greatest(S, 0)
<1>1. k \in Nat /\ k >= 1 /\ \A l \in 1 .. k : l \in DOMAIN R /\ l \in Content(R)
  BY LinesOf DEF Content
<1>2. S \in SUBSET Nat /\ \A r \in S : r <= k
  BY <1>1
<1>3. 1 \in S
  <2>1. 1 \in Content(R)
    BY <1>1
  <2>2. Parents(R)[1] \in 0 .. 1 - 1
    BY <2>1, ContentOf
  <2>3. QED
    BY <1>1, <2>2
<1>4. g \in S /\ \A r \in S : r <= g
  <2> HIDE DEF S
  <2>1. QED
    BY <1>1, <1>2, <1>3, GreatestOf
<1> HIDE DEF g
<1>5. Depth(R[g]) = 2
  <2>1. g \in Content(R) /\ Parents(R)[g] = 0
    BY <1>1, <1>4
  <2>2. R[g].kind = "key" /\ R[g].ind = 1
    BY <2>1, ShapeOf
  <2>3. QED
    BY <2>1, <2>2, ContentOf
<1>6. ASSUME NEW l \in g + 1 .. k
      PROVE  Depth(R[l]) > 2
  <2>1. l \in 1 .. k /\ l > g
    BY <1>1, <1>2, <1>4
  <2>2. l \in Content(R) /\ Parents(R)[l] # 0
    BY <1>1, <1>2, <1>4, <2>1
  <2>3. R[l].ind = R[Parents(R)[l]].ind + 1 /\ Parents(R)[l] \in Content(R)
    BY <2>2, ContentOf, ShapeOf
  <2>4. R[Parents(R)[l]].ind \in Nat /\ R[Parents(R)[l]].ind # 0
    <3>1. PICK p : p = Parents(R)[l]
      OBVIOUS
    <3>2. p \in Content(R) /\ R[p].ind \in Nat /\ Parents(R)[p] \in {0} \cup Content(R)
      BY <2>3, <3>1, ContentOf
    <3>3. Parents(R)[p] = 0 => R[p].ind = 1
      BY <3>2, ShapeOf
    <3>4. Parents(R)[p] # 0 => R[p].ind = R[Parents(R)[p]].ind + 1 /\ R[Parents(R)[p]].ind \in Nat
      BY <3>2, ContentOf, ShapeOf
    <3>5. QED
      BY <3>1, <3>2, <3>3, <3>4
  <2>5. Depth(R[l]) = 2 * R[l].ind \/ Depth(R[l]) = 2 * R[l].ind + 1
    BY <2>2, ContentOf
  <2>6. R[l].ind >= 2 /\ R[l].ind \in Nat
    BY <2>3, <2>4
  <2>7. QED
    BY <2>5, <2>6
<1>7. QED
  BY <1>1, <1>4, <1>5, <1>6

(* Rendered lines at the end of a section are read as what they mean, and       *)
(* nothing else is read differently.                                          *)
LEMMA AddIs ==
  ASSUME NEW L \in Seq(Line), Tidy(L), NEW section \in Sections, HeaderOf(L, section) # 0,
         NEW R \in Seq(Line), Shape(R, 1), \A k \in DOMAIN R : HasContent(R[k]) /\ R[k].nl,
         \A k \in DOMAIN R : Parents(R)[k] = 0 =>
           R[k].key \in SettingKeys(section) /\ ~Read(L, section, R[k].key).found
  PROVE  LET N == AddTo(L, section, R).lines
         IN /\ AddTo(L, section, R).ok /\ N \in Seq(Line) /\ Tidy(N)
            /\ \A s, key : s # section \/ ~ (\E k \in DOMAIN R : Parents(R)[k] = 0 /\ R[k].key = key)
                             => Read(N, s, key) = Read(L, s, key)
            /\ \A k \in DOMAIN R : Parents(R)[k] = 0 => Read(N, section, R[k].key) = Meaning(R, k)
            /\ Rest(N) = Rest(L)
<1>0. Shape(L, 0) /\ \A i \in DOMAIN L : L[i].nl
  BY TidyIs
<1>1. PICK h : h = HeaderOf(L, section)
  OBVIOUS
<1>2. PICK e : e = SectionEnd(L, h)
  OBVIOUS
<1>3. /\ h \in Content(L) /\ h \in DOMAIN L /\ IsKey(L[h], Sections) /\ L[h].key = section /\ Bare(L[h]) /\ L[h].ind = 0
      /\ e \in h + 1 .. Len(L) + 1
      /\ \A i \in Content(L) : h < i /\ i < e => L[i].ind >= 1
      /\ e <= Len(L) => e \in Content(L) /\ L[e].ind = 0
      /\ \A k : Field(L, Parents(L), section, k) = At(L, Parents(L), h, k)
  BY <1>0, <1>1, <1>2, SectionIs
<1>4. Len(L) \in Nat /\ DOMAIN L = 1 .. Len(L) /\ h \in Nat /\ h # 0 /\ e \in Nat /\ h < e /\ e <= Len(L) + 1
      /\ \A i \in Content(L) : i \in 1 .. Len(L)
  BY <1>1, <1>3, LinesOf
<1>5. PICK b : b = e - 1
  OBVIOUS
<1>6. b \in Nat /\ b + 1 = e /\ b \in e - 1 .. Len(L) /\ b # 0 /\ b < e /\ b \in DOMAIN L
  BY <1>4, <1>5
<1>7. AddTo(L, section, R).ok /\ AddTo(L, section, R).lines = Spliced(L, R, e, b)
  <2>1. SubSeq(L, 1, b) \in Seq(Line) /\ Len(SubSeq(L, 1, b)) = b /\ SubSeq(L, 1, b)[b] = L[b]
    <3>1. \A i \in 1 .. b : L[i] \in Line
      BY <1>4, <1>6, LinesOf
    <3>2. QED
      BY <1>6, <3>1, SubSeqProperties
  <2>2. Last(SubSeq(L, 1, b)).nl
    BY <1>0, <1>6, <2>1 DEF Last
  <2>3. Joined(SubSeq(L, 1, b), R) = SubSeq(L, 1, b) \o R
    BY <2>2 DEF Joined
  <2>4. AddTo(L, section, R) = Edited(SubSeq(L, 1, b) \o R \o SubSeq(L, e, Len(L)))
    BY <1>1, <1>2, <1>5, <2>3, HeaderOf(L, section) # 0 DEF AddTo
  <2>5. Spliced(L, R, e, b) = SubSeq(L, 1, b) \o R \o SubSeq(L, e, Len(L))
    BY <1>5, <1>6 DEF Spliced
  <2>6. AddTo(L, section, R) = Edited(Spliced(L, R, e, b))
    BY <2>4, <2>5
  <2>7. QED
    BY <2>6 DEF Edited
<1>8. Fits(L, R, h, e, b)
  BY <1>0, <1>3, <1>4, <1>6 DEF Fits
<1>9. \A k \in DOMAIN R, i \in Content(L) \ (e .. b) :
        Parents(R)[k] = 0 /\ Parents(L)[i] = h => L[i].key # R[k].key
  <2> SUFFICES ASSUME NEW k \in DOMAIN R, NEW i \in Content(L),
                      Parents(R)[k] = 0, Parents(L)[i] = h, L[i].key = R[k].key
               PROVE  FALSE
    OBVIOUS
  <2>1. L[i].kind = "key"
    BY <1>0, <1>3, <1>4, ShapeOf
  <2>2. PICK key : key = R[k].key
    OBVIOUS
  <2>3. At(L, Parents(L), h, R[k].key) = i
    <3>1. IsKey(L[i], {key})
      BY <2>1, <2>2 DEF IsKey
    <3>2. Shape(L, 0)
      BY <1>0
    <3>3. \A j \in Content(L) : IsKey(L[j], {key}) /\ Parents(L)[j] = h => At(L, Parents(L), h, key) = j
      BY <3>2, AtIs
    <3>4. QED
      BY <2>2, <3>1, <3>3
  <2>4. i # 0
    BY <1>4
  <2>5. Read(L, section, R[k].key).found
    BY <1>3, <2>3, <2>4 DEF Read, Meaning
  <2>6. QED
    BY <2>5
<1>10. Spliced(L, R, e, b) \in Seq(Line) /\ Tidy(Spliced(L, R, e, b))
  BY <1>0, <1>8, <1>9, TidySpliced
<1>11. ~ (e <= b)
  BY <1>4, <1>6
<1>12. ASSUME NEW s, NEW key
       PROVE  /\ s # section \/ ~ (\E k \in DOMAIN R : Parents(R)[k] = 0 /\ R[k].key = key)
                   => Read(Spliced(L, R, e, b), s, key) = Read(L, s, key)
              /\ s = section => \A k \in DOMAIN R : Parents(R)[k] = 0 /\ R[k].key = key =>
                                  Read(Spliced(L, R, e, b), s, key) = Meaning(R, k)
  <2>1. /\ s # L[h].key \/ (~ (e <= b /\ L[e].key = key) /\ ~ (\E k \in DOMAIN R : Parents(R)[k] = 0 /\ R[k].key = key))
             => Read(Spliced(L, R, e, b), s, key) = Read(L, s, key)
        /\ s = L[h].key => \A k \in DOMAIN R : Parents(R)[k] = 0 /\ R[k].key = key =>
                             Read(Spliced(L, R, e, b), s, key) = Meaning(R, k)
    BY <1>8, <1>9, ReadSpliced
  <2>2. QED
    BY <1>3, <1>11, <2>1
<1>13. \A k \in DOMAIN R : Parents(R)[k] = 0 => Read(Spliced(L, R, e, b), section, R[k].key) = Meaning(R, k)
  BY <1>12
<1>14. Rest(Spliced(L, R, e, b)) = Rest(L)
  <2>1. \A k \in DOMAIN R : \E r \in 1 .. k :
          /\ Parents(R)[r] = 0 /\ R[r].key \in SettingKeys(L[h].key)
          /\ \A l \in r + 1 .. k : Depth(R[l]) > Depth(R[r])
    BY <1>3, RootAbove
  <2>2. (e <= b => L[e].key \in SettingKeys(L[h].key)) => Rest(Spliced(L, R, e, b)) = Rest(L)
    BY <1>8, <2>1, RestSpliced
  <2>3. QED
    BY <1>11, <2>2
<1>15. QED
  BY <1>7, <1>10, <1>12, <1>13, <1>14

-----------------------------------------------------------------------------
(* The lines that the edits render *)

LEMMA SpokenWords ==
  /\ SectionWords \subseteq Words /\ SettingWords \subseteq Words /\ TypedWords \subseteq Words
  /\ Modes \subseteq Words /\ {"[]", "true", "false", "3128", "9000", "captures", "ca", "cut"} \subseteq Words
  /\ Blank \in Words
<1>1. SectionWords \subseteq Words /\ SettingWords \subseteq Words /\ ValueWords \subseteq Words /\ TypedWords \subseteq Words
  BY Zenon, ConfigFileAssumption
<1>2. Modes \subseteq Words /\ "[]" \in Words /\ "true" \in Words /\ "false" \in Words
  BY Zenon, <1>1 DEF ValueWords
<1>3. "3128" \in Words /\ "9000" \in Words /\ "captures" \in Words /\ "ca" \in Words /\ "cut" \in Words /\ Blank \in Words
  BY Zenon, <1>1 DEF ValueWords, Blank
<1>4. QED
  BY <1>1, <1>2, <1>3

LEMMA KeyIs ==
  ASSUME NEW ind \in Nat, NEW key \in Words, NEW val \in Words
  PROVE  LET line == Key(ind, key, val)
         IN /\ line \in Line /\ line.ind = ind /\ line.kind = "key" /\ line.key = key /\ line.val = val /\ line.nl
            /\ HasContent(line) /\ Depth(line) = 2 * ind /\ (Bare(line) <=> val = Blank)
<1>1. /\ Key(ind, key, val) \in Line /\ Key(ind, key, val).ind = ind /\ Key(ind, key, val).kind = "key"
      /\ Key(ind, key, val).key = key /\ Key(ind, key, val).val = val /\ Key(ind, key, val).nl
  BY DEF Key, Line, Kinds
<1>2. HasContent(Key(ind, key, val)) /\ Depth(Key(ind, key, val)) = 2 * ind
  BY <1>1 DEF HasContent, Depth
<1>3. Bare(Key(ind, key, val)) <=> val = Blank
  BY <1>1, Zenon DEF Bare, Blank
<1>4. QED
  BY <1>1, <1>2, <1>3

LEMMA ItemIs ==
  ASSUME NEW ind \in Nat, NEW val \in Words
  PROVE  LET line == Item(ind, val)
         IN /\ line \in Line /\ line.ind = ind /\ line.kind = "item" /\ line.val = val /\ line.nl
            /\ HasContent(line) /\ Depth(line) = 2 * ind + 1 /\ \A keys : ~IsKey(line, keys)
<1>1. Item(ind, val) = [Key(ind, Blank, val) EXCEPT !.kind = "item"]
  BY Zenon DEF Item, Blank
<1>2. Blank \in Words
  BY SpokenWords
<1>3. /\ Item(ind, val) \in Line /\ Item(ind, val).ind = ind /\ Item(ind, val).kind = "item"
      /\ Item(ind, val).val = val /\ Item(ind, val).nl
  BY <1>1, <1>2 DEF Key, Line, Kinds
<1>4. QED
  BY <1>3 DEF HasContent, Depth, IsKey

(* Items that stand one after the other are found in their order. *)
LEMMA ItemsAre ==
  ASSUME NEW R \in Seq(Line), NEW q \in Nat \ {0}, NEW n \in Nat, q + n = Len(R),
         \A k \in DOMAIN R : R[k].kind = "item" /\ Parents(R)[k] = q <=> k > q
  PROVE  ItemsBelow(R, Parents(R), q) = [k \in 1 .. n |-> q + k]
<1>1. {j \in DOMAIN R : R[j].kind = "item" /\ Parents(R)[j] = q} = q + 1 .. q + n
  <2>1. DOMAIN R = 1 .. q + n
    BY LinesOf
  <2>2. QED
    BY <2>1
<1>2. InOrder(q + 1 .. q + n) = [k \in 1 .. n |-> q + k]
  BY IntervalInOrder
<1>3. QED
  BY <1>1, <1>2 DEF ItemsBelow

(* Lines with a list at their end. *)
EndsWithList(R, head, line, ind, vals) ==
  LET q == Len(head) + 1
  IN /\ R \in Seq(Line) /\ Len(R) = q + Len(vals) /\ DOMAIN R = 1 .. q + Len(vals)
     /\ \A i \in 1 .. Len(head) : R[i] = head[i]
     /\ R[q] = line
     /\ \A k \in DOMAIN R : k > q => k - q \in DOMAIN vals /\ R[k] = Item(ind, vals[k - q])

LEMMA ItemsIn ==
  ASSUME NEW ind \in Nat, NEW vals \in Seq(Words)
  PROVE  /\ Items(ind, vals) \in Seq(Line) /\ Len(Items(ind, vals)) = Len(vals)
         /\ \A i \in 1 .. Len(vals) : Items(ind, vals)[i] = Item(ind, vals[i])
         /\ vals = <<>> => Items(ind, vals) = <<>>
<1>1. \A i \in DOMAIN vals : Item(ind, vals[i]) \in Line
  <2> SUFFICES ASSUME NEW i \in DOMAIN vals PROVE Item(ind, vals[i]) \in Line
    OBVIOUS
  <2>1. vals[i] \in Words
    OBVIOUS
  <2>2. QED
    BY <2>1, ItemIs
<1>2. Items(ind, vals) = [i \in 1 .. Len(vals) |-> Item(ind, vals[i])]
  BY DEF Items
<1>3. Items(ind, vals) \in Seq(Line) /\ Len(Items(ind, vals)) = Len(vals)
  BY <1>1, <1>2
<1>4. QED
  BY <1>2, <1>3

LEMMA ListAtEnd ==
  ASSUME NEW head \in Seq(Line), NEW line \in Line, NEW ind \in Nat, NEW vals \in Seq(Words)
  PROVE  EndsWithList(head \o <<line>> \o Items(ind, vals), head, line, ind, vals)
<1>1. PICK C \in Seq(Line) : /\ C = Items(ind, vals) /\ Len(C) = Len(vals)
                             /\ \A i \in 1 .. Len(vals) : C[i] = Item(ind, vals[i])
  BY ItemsIn
<1>2. PICK A : A = head \o <<line>>
  OBVIOUS
<1>3. PICK q : q = Len(head) + 1
  OBVIOUS
<1>4. A \in Seq(Line) /\ Len(A) = q /\ A[q] = line /\ (\A i \in 1 .. Len(head) : A[i] = head[i]) /\ q \in Nat
  BY <1>2, <1>3
<1>5. PICK R : R = A \o C
  OBVIOUS
<1>6. R \in Seq(Line) /\ Len(R) = q + Len(vals)
      /\ \A i \in 1 .. Len(A) + Len(C) : R[i] = IF i <= Len(A) THEN A[i] ELSE C[i - Len(A)]
  <2>1. /\ A \o C \in Seq(Line) /\ Len(A \o C) = Len(A) + Len(C)
        /\ \A i \in 1 .. Len(A) + Len(C) : (A \o C)[i] = IF i <= Len(A) THEN A[i] ELSE C[i - Len(A)]
    BY <1>4, ConcatProperties
  <2>2. QED
    BY <1>1, <1>4, <1>5, <2>1
<1>7. DOMAIN R = 1 .. q + Len(vals) /\ Len(vals) \in Nat /\ Len(head) \in Nat /\ DOMAIN vals = 1 .. Len(vals)
  BY <1>6
<1>8. R[q] = line /\ \A i \in 1 .. Len(head) : R[i] = head[i]
  BY <1>1, <1>3, <1>4, <1>6, <1>7
<1>9. ASSUME NEW k \in DOMAIN R, k > q
      PROVE  k - q \in DOMAIN vals /\ R[k] = Item(ind, vals[k - q])
  <2>1. k \in 1 .. q + Len(vals) /\ k \in Nat
    BY <1>4, <1>7
  <2>2. k - q \in 1 .. Len(vals)
    BY <1>4, <1>7, <1>9, <2>1
  <2>3. R[k] = C[k - q]
    BY <1>1, <1>4, <1>6, <1>9, <2>1
  <2>4. QED
    BY <1>1, <1>7, <2>2, <2>3
<1>10. EndsWithList(R, head, line, ind, vals)
  BY <1>3, <1>6, <1>7, <1>8, <1>9 DEF EndsWithList
<1>11. QED
  BY <1>1, <1>2, <1>5, <1>10

(* A key with a list, as the edits render it. *)
RendersList(R, head, ind, key, vals) ==
  LET q == Len(head) + 1
  IN /\ R \in Seq(Line) /\ DOMAIN R = 1 .. q + Len(vals) /\ q + Len(vals) = Len(R)
     /\ \A i \in 1 .. Len(head) : R[i] = head[i]
     /\ R[q].ind = ind /\ R[q].kind = "key" /\ R[q].key = key /\ R[q].nl /\ HasContent(R[q]) /\ Depth(R[q]) = 2 * ind
     /\ Len(vals) > 0 => Bare(R[q])
     /\ \A k \in DOMAIN R : k > q =>
          /\ k - q \in DOMAIN vals /\ R[k].ind = ind + 1 /\ R[k].kind = "item" /\ R[k].val = vals[k - q] /\ R[k].nl
          /\ HasContent(R[k]) /\ Depth(R[k]) = 2 * (ind + 1) + 1 /\ \A keys : ~IsKey(R[k], keys)

LEMMA ListRendered ==
  ASSUME NEW head \in Seq(Line), NEW ind \in Nat, NEW key \in Words, NEW vals \in Seq(Words)
  PROVE  RendersList(head \o (IF vals = <<>> THEN <<Key(ind, key, "[]")>>
                              ELSE <<Key(ind, key, Blank)>> \o Items(ind + 1, vals)),
                     head, ind, key, vals)
<1> DEFINE R == head \o (IF vals = <<>> THEN <<Key(ind, key, "[]")>>
                         ELSE <<Key(ind, key, Blank)>> \o Items(ind + 1, vals))
           q == Len(head) + 1
<1>1. PICK val : val = IF vals = <<>> THEN "[]" ELSE Blank
  OBVIOUS
<1>2. val \in Words
  BY <1>1, SpokenWords
<1>3. PICK line : line = Key(ind, key, val)
  OBVIOUS
<1>4. /\ line \in Line /\ line.ind = ind /\ line.kind = "key" /\ line.key = key /\ line.nl
      /\ HasContent(line) /\ Depth(line) = 2 * ind /\ (Bare(line) <=> val = Blank)
  <2>1. /\ Key(ind, key, val) \in Line /\ Key(ind, key, val).ind = ind /\ Key(ind, key, val).kind = "key"
        /\ Key(ind, key, val).key = key /\ Key(ind, key, val).val = val /\ Key(ind, key, val).nl
        /\ HasContent(Key(ind, key, val)) /\ Depth(Key(ind, key, val)) = 2 * ind
        /\ (Bare(Key(ind, key, val)) <=> val = Blank)
    BY <1>2, KeyIs
  <2>2. QED
    BY <1>3, <2>1
<1>5. Items(ind + 1, vals) \in Seq(Line) /\ (vals = <<>> => Items(ind + 1, vals) = <<>>)
  <2>1. ind + 1 \in Nat
    OBVIOUS
  <2>2. QED
    BY <2>1, ItemsIn
<1>6. R = head \o <<line>> \o Items(ind + 1, vals)
  <2>1. <<line>> \in Seq(Line)
    BY <1>4
  <2>2. CASE vals = <<>>
    <3>1. R = head \o <<line>>
      BY <1>1, <1>3, <2>2
    <3>2. head \o <<line>> \in Seq(Line)
      BY <2>1
    <3>3. QED
      BY <1>5, <2>2, <3>1, <3>2, ConcatEmptySeq
  <2>3. CASE vals # <<>>
    <3>1. R = head \o (<<line>> \o Items(ind + 1, vals))
      BY <1>1, <1>3, <2>3
    <3>2. QED
      BY <1>5, <2>1, <3>1, ConcatAssociative
  <2>4. QED
    BY <2>2, <2>3
<1> HIDE DEF R
<1>7. /\ R \in Seq(Line) /\ Len(R) = q + Len(vals) /\ DOMAIN R = 1 .. q + Len(vals)
      /\ \A i \in 1 .. Len(head) : R[i] = head[i]
      /\ R[q] = line
      /\ \A k \in DOMAIN R : k > q => k - q \in DOMAIN vals /\ R[k] = Item(ind + 1, vals[k - q])
  <2>1. PICK d : d = ind + 1
    OBVIOUS
  <2>2. d \in Nat /\ R = head \o <<line>> \o Items(d, vals)
    BY <1>6, <2>1
  <2>3. line \in Line
    BY <1>4
  <2>4. /\ R \in Seq(Line) /\ Len(R) = q + Len(vals) /\ DOMAIN R = 1 .. q + Len(vals)
        /\ \A i \in 1 .. Len(head) : R[i] = head[i]
        /\ R[q] = line
        /\ \A k \in DOMAIN R : k > q => k - q \in DOMAIN vals /\ R[k] = Item(d, vals[k - q])
    <3>1. EndsWithList(R, head, line, d, vals)
      BY <2>2, <2>3, ListAtEnd
    <3>2. QED
      BY <3>1 DEF EndsWithList
  <2> HIDE DEF q
  <2>5. QED
    BY <2>1, <2>4
<1>8. Len(vals) > 0 => Bare(R[q])
  <2>1. Len(vals) > 0 => vals # <<>>
    OBVIOUS
  <2>2. QED
    BY <1>1, <1>4, <1>7, <2>1
<1>9. ASSUME NEW k \in DOMAIN R, k > q
      PROVE  /\ k - q \in DOMAIN vals /\ R[k].ind = ind + 1 /\ R[k].kind = "item" /\ R[k].val = vals[k - q] /\ R[k].nl
             /\ HasContent(R[k]) /\ Depth(R[k]) = 2 * (ind + 1) + 1 /\ \A keys : ~IsKey(R[k], keys)
  <2>1. PICK w : w = vals[k - q]
    OBVIOUS
  <2>2. PICK d : d = ind + 1
    OBVIOUS
  <2>3. k - q \in DOMAIN vals /\ R[k] = Item(d, w)
    BY <1>7, <1>9, <2>1, <2>2
  <2>4. w \in Words /\ d \in Nat
    BY <2>1, <2>2, <2>3
  <2>5. /\ Item(d, w).ind = d /\ Item(d, w).kind = "item" /\ Item(d, w).val = w /\ Item(d, w).nl
        /\ HasContent(Item(d, w)) /\ Depth(Item(d, w)) = 2 * d + 1 /\ \A keys : ~IsKey(Item(d, w), keys)
    BY <2>4, ItemIs
  <2>6. QED
    BY <2>1, <2>2, <2>3, <2>5
<1> HIDE DEF q
<1>10. /\ R[q].ind = ind /\ R[q].kind = "key" /\ R[q].key = key /\ R[q].nl /\ HasContent(R[q]) /\ Depth(R[q]) = 2 * ind
  BY <1>4, <1>7
<1>11. QED
  <2>1. RendersList(R, head, ind, key, vals)
    BY <1>7, <1>8, <1>9, <1>10 DEF RendersList, q
  <2>2. QED
    BY <2>1 DEF R

(* The value of a key in a line of its own. *)
LEMMA ValueOf ==
  ASSUME NEW R, NEW k \in Nat \ {0}, NEW val, R[k].val = val, Bare(R[k]) <=> val = Blank
  PROVE  Meaning(R, k).val = val
<1>1. Scalar(R, k, Blank) = val
  BY DEF Scalar
<1>2. QED
  BY <1>1 DEF Meaning

(* What the edits add to a section. *)
Block(R) == R \in Seq(Line) /\ Shape(R, 1) /\ \A k \in DOMAIN R : HasContent(R[k]) /\ R[k].nl

LEMMA UpstreamBlock ==
  ASSUME NEW s, s.uri \in Words, s.auth \in Words, s.noProxy \in Seq(Words)
  PROVE  LET R == RenderUpstream(1, s)
         IN /\ Block(R)
            /\ 1 \in DOMAIN R /\ 2 \in DOMAIN R /\ 3 \in DOMAIN R
            /\ \A k \in DOMAIN R : Parents(R)[k] = 0 <=> k \in {1, 2, 3}
            /\ R[1].key = "output_proxy_uri" /\ R[2].key = "add_windows_authentication" /\ R[3].key = "no_proxy"
            /\ Meaning(R, 1).val = s.uri /\ Meaning(R, 2).val = s.auth /\ Meaning(R, 3).vals = s.noProxy
<1> DEFINE R == RenderUpstream(1, s)
<1>1. PICK vals \in Seq(Words) : vals = s.noProxy
  OBVIOUS
<1>2. PICK k1 : k1 = Key(1, "output_proxy_uri", s.uri)
  OBVIOUS
<1>3. PICK k2 : k2 = Key(1, "add_windows_authentication", s.auth)
  OBVIOUS
<1>4. PICK head : head = <<k1, k2>>
  OBVIOUS
<1>5. "output_proxy_uri" \in Words /\ "add_windows_authentication" \in Words /\ "no_proxy" \in Words
  BY SpokenWords DEF SettingWords
<1>6. /\ k1 \in Line /\ k1.ind = 1 /\ k1.kind = "key" /\ k1.key = "output_proxy_uri" /\ k1.val = s.uri /\ k1.nl
      /\ HasContent(k1) /\ Depth(k1) = 2 * 1 /\ (Bare(k1) <=> s.uri = Blank)
  <2>1. 1 \in Nat /\ s.uri \in Words
    OBVIOUS
  <2>2. QED
    BY <1>2, <1>5, <2>1, KeyIs
<1>7. /\ k2 \in Line /\ k2.ind = 1 /\ k2.kind = "key" /\ k2.key = "add_windows_authentication" /\ k2.val = s.auth /\ k2.nl
      /\ HasContent(k2) /\ Depth(k2) = 2 * 1 /\ (Bare(k2) <=> s.auth = Blank)
  <2>1. 1 \in Nat /\ s.auth \in Words
    OBVIOUS
  <2>2. QED
    BY <1>3, <1>5, <2>1, KeyIs
<1>8. head \in Seq(Line) /\ Len(head) = 2 /\ head[1] = k1 /\ head[2] = k2
  BY <1>4, <1>6, <1>7
<1>9. R = head \o (IF vals = <<>> THEN <<Key(1, "no_proxy", "[]")>>
                   ELSE <<Key(1, "no_proxy", Blank)>> \o Items(1 + 1, vals))
  BY <1>1, <1>2, <1>3, <1>4, Zenon DEF RenderUpstream, Blank
<1>10. RendersList(R, head, 1, "no_proxy", vals)
  <2>1. RendersList(head \o (IF vals = <<>> THEN <<Key(1, "no_proxy", "[]")>>
                    ELSE <<Key(1, "no_proxy", Blank)>> \o Items(1 + 1, vals)), head, 1, "no_proxy", vals)
    BY <1>5, <1>8, ListRendered
  <2>2. QED
    BY <1>9, <2>1, Zenon
<1> HIDE DEF R
<1>11. /\ R \in Seq(Line) /\ DOMAIN R = 1 .. 3 + Len(vals) /\ 3 + Len(vals) = Len(R) /\ Len(vals) \in Nat
       /\ R[1] = k1 /\ R[2] = k2
       /\ R[3].ind = 1 /\ R[3].kind = "key" /\ R[3].key = "no_proxy" /\ R[3].nl /\ HasContent(R[3]) /\ Depth(R[3]) = 2
       /\ Len(vals) > 0 => Bare(R[3])
       /\ \A k \in DOMAIN R : k > 3 =>
            /\ k - 3 \in DOMAIN vals /\ R[k].ind = 2 /\ R[k].kind = "item" /\ R[k].val = vals[k - 3] /\ R[k].nl
            /\ HasContent(R[k]) /\ Depth(R[k]) = 5 /\ \A keys : ~IsKey(R[k], keys)
  BY <1>8, <1>10 DEF RendersList
<1>12. DOMAIN R \subseteq Nat \ {0} /\ 1 \in DOMAIN R /\ 2 \in DOMAIN R /\ 3 \in DOMAIN R
       /\ \A k \in DOMAIN R : k = 1 \/ k = 2 \/ k = 3 \/ k > 3
  BY <1>11
<1>13. Depth(R[1]) = 2 /\ Depth(R[2]) = 2 /\ HasContent(R[1]) /\ HasContent(R[2])
  BY <1>6, <1>7, <1>11
<1>14. \A k \in DOMAIN R : HasContent(R[k]) /\ R[k].nl
  BY <1>6, <1>7, <1>11, <1>12
<1>15. Parents(R)[1] = 0 /\ Parents(R)[2] = 0 /\ Parents(R)[3] = 0
  <2>1. IsParent(R, 1, 0) /\ IsParent(R, 2, 0) /\ IsParent(R, 3, 0)
    BY <1>11, <1>13 DEF IsParent
  <2>2. \A k \in DOMAIN R : \A p : IsParent(R, k, p) => p = Parents(R)[k]
    BY <1>11, ParentIs
  <2>3. QED
    BY <1>12, <2>1, <2>2
<1>16. ASSUME NEW k \in DOMAIN R, k > 3
       PROVE  Parents(R)[k] = 3
  <2>1. IsParent(R, k, 3)
    <3>1. \A j \in 4 .. k - 1 : Depth(R[j]) = 5
      BY <1>11, <1>12
    <3>2. QED
      BY <1>11, <1>12, <1>16, <3>1 DEF IsParent
  <2>2. QED
    BY <1>11, <2>1, ParentIs
<1>17. Shape(R, 1)
  <2>1. R[1].kind = "key" /\ R[1].ind = 1 /\ R[1].key = "output_proxy_uri"
        /\ R[2].kind = "key" /\ R[2].ind = 1 /\ R[2].key = "add_windows_authentication"
    BY <1>6, <1>7, <1>11
  <2>2. /\ \A keys : IsKey(R[1], keys) => "output_proxy_uri" \in keys
        /\ \A keys : IsKey(R[2], keys) => "add_windows_authentication" \in keys
        /\ \A keys : IsKey(R[3], keys) => "no_proxy" \in keys
    BY <1>11, <2>1 DEF IsKey
  <2>3. /\ ~IsKey(R[1], Sections) /\ ~IsKey(R[1], {"enable"}) /\ ~IsKey(R[1], EditedInPlace)
        /\ ~IsKey(R[2], Sections) /\ ~IsKey(R[2], {"enable"}) /\ ~IsKey(R[2], EditedInPlace)
        /\ ~IsKey(R[3], Sections) /\ ~IsKey(R[3], {"enable"}) /\ ~IsKey(R[3], EditedInPlace)
    BY <2>2 DEF Sections, EditedInPlace
  <2>4. Content(R) = DOMAIN R
    BY <1>14 DEF Content
  <2>5. \A k \in DOMAIN R : k > 3 => Len(vals) > 0
    BY <1>11
  <2> SUFFICES ASSUME NEW i \in DOMAIN R
               PROVE  LET p == Parents(R)[i] IN
                      /\ R[i].kind \in {"key", "item"}
                      /\ p = 0 => R[i].kind = "key" /\ R[i].ind = 1
                      /\ p # 0 => /\ R[i].ind = R[p].ind + 1
                                  /\ R[p].kind = "item" => R[i].kind = "key"
                                  /\ R[p].kind = "key" => Bare(R[p])
                                  /\ IsKey(R[p], Sections) => R[i].kind = "key"
                      /\ IsKey(R[i], Sections) => R[i].ind = 0
                      /\ IsKey(R[i], {"enable"}) => R[i].ind = 1
                      /\ IsKey(R[i], EditedInPlace) => ~Bare(R[i])
                      /\ \A j \in DOMAIN R :
                           j < i /\ Parents(R)[j] = p =>
                             R[i].kind = R[j].kind /\ (R[i].kind = "key" => R[i].key # R[j].key)
    BY <2>4 DEF Shape
  <2>6. CASE i > 3
    <3>1. Parents(R)[i] = 3 /\ R[i].ind = 1 + 1 /\ R[i].kind = "item" /\ (\A keys : ~IsKey(R[i], keys))
          /\ R[3].ind = 1 /\ R[3].kind = "key" /\ Bare(R[3]) /\ ~IsKey(R[3], Sections)
      BY <1>11, <1>16, <2>3, <2>5, <2>6
    <3>2. \A j \in DOMAIN R : Parents(R)[j] = 3 => R[j].kind = "item"
      BY <1>11, <1>12, <1>15
    <3>3. QED
      BY <3>1, <3>2
  <2>7. CASE i = 1
    BY <1>12, <1>15, <2>1, <2>3, <2>7
  <2>8. CASE i = 2
    BY <1>12, <1>15, <2>1, <2>3, <2>8
  <2>9. CASE i = 3
    <3>1. \A j \in DOMAIN R : j < 3 => j = 1 \/ j = 2
      BY <1>12
    <3>2. R[3].key # R[1].key /\ R[3].key # R[2].key /\ R[3].kind = "key" /\ R[3].ind = 1 /\ Parents(R)[3] = 0
      BY <1>11, <1>15, <2>1
    <3>3. QED
      BY <2>1, <2>3, <2>9, <3>1, <3>2
  <2>10. QED
    BY <1>12, <2>6, <2>7, <2>8, <2>9
<1>18. ItemsBelow(R, Parents(R), 3) = [k \in 1 .. Len(vals) |-> 3 + k]
  <2>1. \A k \in DOMAIN R : R[k].kind = "item" /\ Parents(R)[k] = 3 <=> k > 3
    BY <1>6, <1>7, <1>11, <1>12, <1>16
  <2>2. PICK q \in Nat \ {0} : q = 3
    OBVIOUS
  <2>3. PICK n \in Nat : n = Len(vals)
    BY <1>11
  <2>4. R \in Seq(Line) /\ q + n = Len(R) /\ \A k \in DOMAIN R : R[k].kind = "item" /\ Parents(R)[k] = q <=> k > q
    BY <1>11, <2>1, <2>2, <2>3
  <2>5. ItemsBelow(R, Parents(R), q) = [k \in 1 .. n |-> q + k]
    BY <2>4, ItemsAre
  <2>6. QED
    BY <2>2, <2>3, <2>5
<1>19. Meaning(R, 3).vals = vals
  <2>1. vals = [k \in 1 .. Len(vals) |-> vals[k]]
    OBVIOUS
  <2>2. ASSUME NEW k \in 1 .. Len(vals)
        PROVE  R[3 + k].val = vals[k]
    <3>1. 3 + k \in DOMAIN R /\ 3 + k > 3 /\ (3 + k) - 3 = k
      BY <1>11
    <3>2. R[3 + k].val = vals[(3 + k) - 3]
      BY <1>11, <3>1
    <3>3. QED
      BY <3>1, <3>2
  <2>3. Values(R, [k \in 1 .. Len(vals) |-> 3 + k]) = [k \in 1 .. Len(vals) |-> R[3 + k].val]
    BY DEF Values
  <2>4. [k \in 1 .. Len(vals) |-> R[3 + k].val] = vals
    BY <2>1, <2>2
  <2>5. QED
    BY <1>18, <2>3, <2>4 DEF Meaning
<1>20. Meaning(R, 1).val = s.uri /\ Meaning(R, 2).val = s.auth
  BY <1>6, <1>7, <1>11, ValueOf
<1>21. \A k \in DOMAIN R : Parents(R)[k] = 0 <=> k \in {1, 2, 3}
  BY <1>12, <1>15, <1>16
<1>22. R[1].key = "output_proxy_uri" /\ R[2].key = "add_windows_authentication" /\ R[3].key = "no_proxy"
  BY <1>6, <1>7, <1>11
<1>23. QED
  BY <1>1, <1>11, <1>12, <1>14, <1>17, <1>19, <1>20, <1>21, <1>22 DEF Block, R

LEMMA AccessBlock ==
  ASSUME NEW access, access.mode \in Words, access.networks \in Seq(Words)
  PROVE  LET R == RenderAccess(1, access)
         IN /\ Block(R) /\ 1 \in DOMAIN R
            /\ \A k \in DOMAIN R : Parents(R)[k] = 0 <=> k = 1
            /\ R[1].key = "access_control"
            /\ Meaning(R, 1).mode = access.mode /\ Meaning(R, 1).networks = access.networks
<1> DEFINE R == RenderAccess(1, access)
<1>1. PICK vals \in Seq(Words) : vals = access.networks
  OBVIOUS
<1>2. PICK k1 : k1 = Key(1, "access_control", Blank)
  OBVIOUS
<1>3. PICK k2 : k2 = Key(2, "mode", access.mode)
  OBVIOUS
<1>4. PICK head : head = <<k1, k2>>
  OBVIOUS
<1>5. "access_control" \in Words /\ "mode" \in Words /\ "networks" \in Words /\ Blank \in Words
  BY SpokenWords DEF SettingWords
<1>6. /\ k1 \in Line /\ k1.ind = 1 /\ k1.kind = "key" /\ k1.key = "access_control" /\ k1.nl
      /\ HasContent(k1) /\ Depth(k1) = 2 * 1 /\ Bare(k1)
  <2>1. 1 \in Nat
    OBVIOUS
  <2>2. /\ k1 \in Line /\ k1.ind = 1 /\ k1.kind = "key" /\ k1.key = "access_control" /\ k1.nl
        /\ HasContent(k1) /\ Depth(k1) = 2 * 1 /\ (Bare(k1) <=> Blank = Blank)
    BY <1>2, <1>5, <2>1, KeyIs
  <2>3. QED
    BY <2>2
<1>7. /\ k2 \in Line /\ k2.ind = 2 /\ k2.kind = "key" /\ k2.key = "mode" /\ k2.val = access.mode /\ k2.nl
      /\ HasContent(k2) /\ Depth(k2) = 2 * 2 /\ (Bare(k2) <=> access.mode = Blank)
  <2>1. 2 \in Nat /\ access.mode \in Words
    OBVIOUS
  <2>2. QED
    BY <1>3, <1>5, <2>1, KeyIs
<1>8. head \in Seq(Line) /\ Len(head) = 2 /\ head[1] = k1 /\ head[2] = k2
  BY <1>4, <1>6, <1>7
<1>9. R = head \o (IF vals = <<>> THEN <<Key(2, "networks", "[]")>>
                   ELSE <<Key(2, "networks", Blank)>> \o Items(2 + 1, vals))
  <2>1. 1 + 1 = 2 /\ 1 + 2 = 2 + 1
    OBVIOUS
  <2>2. R = <<Key(1, "access_control", Blank), Key(1 + 1, "mode", access.mode)>>
            \o (IF vals = <<>> THEN <<Key(1 + 1, "networks", "[]")>>
                ELSE <<Key(1 + 1, "networks", Blank)>> \o Items(1 + 2, vals))
    BY <1>1, Zenon DEF RenderAccess, Blank
  <2> HIDE DEF R
  <2>3. QED
    BY <1>2, <1>3, <1>4, <2>1, <2>2, Zenon
<1>10. RendersList(R, head, 2, "networks", vals)
  <2>1. RendersList(head \o (IF vals = <<>> THEN <<Key(2, "networks", "[]")>>
                    ELSE <<Key(2, "networks", Blank)>> \o Items(2 + 1, vals)), head, 2, "networks", vals)
    BY <1>5, <1>8, ListRendered
  <2>2. QED
    BY <1>9, <2>1, Zenon
<1> HIDE DEF R
<1>11. /\ R \in Seq(Line) /\ DOMAIN R = 1 .. 3 + Len(vals) /\ 3 + Len(vals) = Len(R) /\ Len(vals) \in Nat
       /\ R[1] = k1 /\ R[2] = k2
       /\ R[3].ind = 2 /\ R[3].kind = "key" /\ R[3].key = "networks" /\ R[3].nl /\ HasContent(R[3]) /\ Depth(R[3]) = 4
       /\ Len(vals) > 0 => Bare(R[3])
       /\ \A k \in DOMAIN R : k > 3 =>
            /\ k - 3 \in DOMAIN vals /\ R[k].ind = 3 /\ R[k].kind = "item" /\ R[k].val = vals[k - 3] /\ R[k].nl
            /\ HasContent(R[k]) /\ Depth(R[k]) = 7 /\ \A keys : ~IsKey(R[k], keys)
  BY <1>8, <1>10 DEF RendersList
<1>12. DOMAIN R \subseteq Nat \ {0} /\ 1 \in DOMAIN R /\ 2 \in DOMAIN R /\ 3 \in DOMAIN R
       /\ \A k \in DOMAIN R : k = 1 \/ k = 2 \/ k = 3 \/ k > 3
  BY <1>11
<1>13. Depth(R[1]) = 2 /\ Depth(R[2]) = 4 /\ HasContent(R[1]) /\ HasContent(R[2])
  BY <1>6, <1>7, <1>11
<1>14. \A k \in DOMAIN R : HasContent(R[k]) /\ R[k].nl
  BY <1>6, <1>7, <1>11, <1>12
<1>15. Parents(R)[1] = 0 /\ Parents(R)[2] = 1 /\ Parents(R)[3] = 1
  <2>1. IsParent(R, 1, 0) /\ IsParent(R, 2, 1) /\ IsParent(R, 3, 1)
    BY <1>11, <1>13 DEF IsParent
  <2>2. \A k \in DOMAIN R : \A p : IsParent(R, k, p) => p = Parents(R)[k]
    BY <1>11, ParentIs
  <2>3. QED
    BY <1>12, <2>1, <2>2
<1>16. ASSUME NEW k \in DOMAIN R, k > 3
       PROVE  Parents(R)[k] = 3
  <2>1. IsParent(R, k, 3)
    <3>1. \A j \in 4 .. k - 1 : Depth(R[j]) = 7
      <4> SUFFICES ASSUME NEW j \in 4 .. k - 1 PROVE Depth(R[j]) = 7
        OBVIOUS
      <4>1. j \in DOMAIN R /\ j > 3
        BY <1>11
      <4>2. QED
        BY <1>11, <4>1
    <3>2. QED
      BY <1>11, <1>12, <1>16, <3>1 DEF IsParent
  <2>2. QED
    BY <1>11, <2>1, ParentIs
<1>17. Shape(R, 1)
  <2>1. R[1].kind = "key" /\ R[1].ind = 1 /\ R[1].key = "access_control" /\ Bare(R[1])
        /\ R[2].kind = "key" /\ R[2].ind = 2 /\ R[2].key = "mode"
    BY <1>6, <1>7, <1>11
  <2>2. /\ \A keys : IsKey(R[1], keys) => "access_control" \in keys
        /\ \A keys : IsKey(R[2], keys) => "mode" \in keys
        /\ \A keys : IsKey(R[3], keys) => "networks" \in keys
    BY <1>11, <2>1 DEF IsKey
  <2>3. /\ ~IsKey(R[1], Sections) /\ ~IsKey(R[1], {"enable"}) /\ ~IsKey(R[1], EditedInPlace)
        /\ ~IsKey(R[2], Sections) /\ ~IsKey(R[2], {"enable"}) /\ ~IsKey(R[2], EditedInPlace)
        /\ ~IsKey(R[3], Sections) /\ ~IsKey(R[3], {"enable"}) /\ ~IsKey(R[3], EditedInPlace)
    BY <2>2 DEF Sections, EditedInPlace
  <2>4. Content(R) = DOMAIN R
    BY <1>14 DEF Content
  <2>5. \A k \in DOMAIN R : k > 3 => Len(vals) > 0
    BY <1>11
  <2> SUFFICES ASSUME NEW i \in DOMAIN R
               PROVE  LET p == Parents(R)[i] IN
                      /\ R[i].kind \in {"key", "item"}
                      /\ p = 0 => R[i].kind = "key" /\ R[i].ind = 1
                      /\ p # 0 => /\ R[i].ind = R[p].ind + 1
                                  /\ R[p].kind = "item" => R[i].kind = "key"
                                  /\ R[p].kind = "key" => Bare(R[p])
                                  /\ IsKey(R[p], Sections) => R[i].kind = "key"
                      /\ IsKey(R[i], Sections) => R[i].ind = 0
                      /\ IsKey(R[i], {"enable"}) => R[i].ind = 1
                      /\ IsKey(R[i], EditedInPlace) => ~Bare(R[i])
                      /\ \A j \in DOMAIN R :
                           j < i /\ Parents(R)[j] = p =>
                             R[i].kind = R[j].kind /\ (R[i].kind = "key" => R[i].key # R[j].key)
    BY <2>4 DEF Shape
  <2>6. CASE i > 3
    <3>1. Parents(R)[i] = 3 /\ R[i].ind = 2 + 1 /\ R[i].kind = "item" /\ (\A keys : ~IsKey(R[i], keys))
          /\ R[3].ind = 2 /\ R[3].kind = "key" /\ Bare(R[3]) /\ ~IsKey(R[3], Sections)
      BY <1>11, <1>16, <2>3, <2>5, <2>6
    <3>2. \A j \in DOMAIN R : Parents(R)[j] = 3 => R[j].kind = "item"
      BY <1>11, <1>12, <1>15
    <3>3. QED
      BY <3>1, <3>2
  <2>7. CASE i = 1
    BY <1>12, <1>15, <2>1, <2>3, <2>7
  <2>8. CASE i = 2
    <3>1. \A j \in DOMAIN R : j < 2 => j = 1
      BY <1>12
    <3>2. QED
      BY <1>15, <2>1, <2>3, <2>8, <3>1
  <2>9. CASE i = 3
    <3>1. \A j \in DOMAIN R : j < 3 => j = 1 \/ j = 2
      BY <1>12
    <3>2. R[3].key # R[2].key /\ R[3].kind = "key" /\ R[3].ind = 1 + 1 /\ Parents(R)[3] = 1
      BY <1>11, <1>15, <2>1
    <3>3. QED
      BY <1>15, <2>1, <2>3, <2>9, <3>1, <3>2
  <2>10. QED
    BY <1>12, <2>6, <2>7, <2>8, <2>9
<1>18. Child(R, Parents(R), 1, "mode") = 2 /\ Child(R, Parents(R), 1, "networks") = 3
  <2>1. 2 \in Content(R) /\ 3 \in Content(R) /\ IsKey(R[2], {"mode"}) /\ IsKey(R[3], {"networks"})
    BY <1>7, <1>11, <1>12, <1>14 DEF Content, IsKey
  <2>2. 1 \in Nat /\ Shape(R, 1) /\ R \in Seq(Line)
    BY <1>11, <1>17
  <2>3. \A i \in Content(R) : IsKey(R[i], {"mode"}) /\ Parents(R)[i] = 1 => At(R, Parents(R), 1, "mode") = i
    BY <2>2, AtIn
  <2>4. \A i \in Content(R) : IsKey(R[i], {"networks"}) /\ Parents(R)[i] = 1 => At(R, Parents(R), 1, "networks") = i
    BY <2>2, AtIn
  <2>5. QED
    BY <1>15, <2>1, <2>3, <2>4 DEF Child
<1>19. Meaning(R, 1).mode = access.mode
  <2>1. R[2].val = access.mode /\ (Bare(R[2]) <=> access.mode = Blank)
    BY <1>7, <1>11
  <2>2. Scalar(R, 2, Blank) = access.mode
    BY <2>1 DEF Scalar
  <2>3. QED
    BY <1>18, <2>2 DEF Meaning
<1>20. ItemsBelow(R, Parents(R), 3) = [k \in 1 .. Len(vals) |-> 3 + k]
  <2>1. \A k \in DOMAIN R : R[k].kind = "item" /\ Parents(R)[k] = 3 <=> k > 3
    BY <1>6, <1>7, <1>11, <1>12, <1>16
  <2>2. PICK q \in Nat \ {0} : q = 3
    OBVIOUS
  <2>3. PICK n \in Nat : n = Len(vals)
    BY <1>11
  <2>4. R \in Seq(Line) /\ q + n = Len(R) /\ \A k \in DOMAIN R : R[k].kind = "item" /\ Parents(R)[k] = q <=> k > q
    BY <1>11, <2>1, <2>2, <2>3
  <2>5. ItemsBelow(R, Parents(R), q) = [k \in 1 .. n |-> q + k]
    BY <2>4, ItemsAre
  <2>6. QED
    BY <2>2, <2>3, <2>5
<1>21. Meaning(R, 1).networks = vals
  <2>1. vals = [k \in 1 .. Len(vals) |-> vals[k]]
    OBVIOUS
  <2>2. ASSUME NEW k \in 1 .. Len(vals)
        PROVE  R[3 + k].val = vals[k]
    <3>1. 3 + k \in DOMAIN R /\ 3 + k > 3 /\ (3 + k) - 3 = k
      BY <1>11
    <3>2. R[3 + k].val = vals[(3 + k) - 3]
      BY <1>11, <3>1
    <3>3. QED
      BY <3>1, <3>2
  <2>3. Values(R, [k \in 1 .. Len(vals) |-> 3 + k]) = [k \in 1 .. Len(vals) |-> R[3 + k].val]
    BY DEF Values
  <2>4. [k \in 1 .. Len(vals) |-> R[3 + k].val] = vals
    BY <2>1, <2>2
  <2>5. QED
    BY <1>18, <1>20, <2>3, <2>4 DEF Meaning
<1>22. \A k \in DOMAIN R : Parents(R)[k] = 0 <=> k = 1
  BY <1>12, <1>15, <1>16
<1>23. R[1].key = "access_control"
  BY <1>6, <1>11
<1>24. QED
  BY <1>1, <1>11, <1>12, <1>14, <1>17, <1>19, <1>21, <1>22, <1>23 DEF Block, R

(* The part of a rules block that is read back. *)
IsRulesBlock(R, limit, rules) ==
  /\ Block(R)
  /\ \A k \in DOMAIN R : Parents(R)[k] = 0 => R[k].key \in {"default_max_bytes", "mime_types"}
  /\ \E k \in DOMAIN R : Parents(R)[k] = 0 /\ R[k].key = "mime_types" /\ Meaning(R, k).rules = rules
  /\ limit # Blank => \E k \in DOMAIN R : /\ Parents(R)[k] = 0 /\ R[k].key = "default_max_bytes"
                                          /\ Meaning(R, k).val = limit
  /\ limit = Blank => ~ \E k \in DOMAIN R : Parents(R)[k] = 0 /\ R[k].key = "default_max_bytes"

LEMMA NoRulesBlock ==
  IsRulesBlock(<<Key(1, "mime_types", Blank)>>, Blank, <<>>)
<1>1. PICK R : R = <<Key(1, "mime_types", Blank)>>
  OBVIOUS
<1>2. PICK k1 : k1 = Key(1, "mime_types", Blank)
  OBVIOUS
<1>3. /\ k1 \in Line /\ k1.ind = 1 /\ k1.kind = "key" /\ k1.key = "mime_types" /\ k1.nl
      /\ HasContent(k1) /\ Depth(k1) = 2 * 1 /\ (Bare(k1) <=> Blank = Blank)
  <2>1. "mime_types" \in Words /\ Blank \in Words /\ 1 \in Nat
    BY SpokenWords DEF SettingWords
  <2>2. QED
    BY <1>2, <2>1, KeyIs
<1>4. R \in Seq(Line) /\ DOMAIN R = {1} /\ R[1] = k1
  BY <1>1, <1>2, <1>3
<1>5. Parents(R)[1] = 0
  <2>1. IsParent(R, 1, 0)
    BY DEF IsParent
  <2>2. QED
    BY <1>4, <2>1, ParentIs
<1>6. Shape(R, 1)
  <2>1. \A keys : IsKey(R[1], keys) => "mime_types" \in keys
    BY <1>3, <1>4 DEF IsKey
  <2>2. ~IsKey(R[1], Sections) /\ ~IsKey(R[1], {"enable"}) /\ ~IsKey(R[1], EditedInPlace)
    BY <2>1 DEF Sections, EditedInPlace
  <2>3. Content(R) = {1}
    BY <1>3, <1>4 DEF Content
  <2>4. \A j \in Content(R) : ~ (j < 1)
    BY <2>3
  <2>5. QED
    BY <1>3, <1>4, <1>5, <2>2, <2>3, <2>4 DEF Shape
<1>7. Block(R)
  BY <1>3, <1>4, <1>6 DEF Block
<1>8. Meaning(R, 1).rules = <<>>
  <2>1. ItemsBelow(R, Parents(R), 1) = <<>>
    <3>1. {j \in DOMAIN R : R[j].kind = "item" /\ Parents(R)[j] = 1} = {}
      BY <1>4, <1>5
    <3>2. QED
      BY <3>1, NoneInOrder DEF ItemsBelow
  <2> DEFINE items == ItemsBelow(R, Parents(R), 1)
             rules == [k \in DOMAIN items |->
                        [name |-> R[items[k]].val,
                         size |-> Scalar(R, Child(R, Parents(R), items[k], "max_size"), Blank)]]
  <2>2. Meaning(R, 1).rules = rules
    BY DEF Meaning
  <2>3. DOMAIN items = {}
    BY <2>1
  <2> HIDE DEF items
  <2>4. rules = [k \in {} |-> 0]
    BY <2>3
  <2>5. QED
    BY <2>2, <2>4
<1>9. R[1].key = "mime_types" /\ 1 \in DOMAIN R /\ \A k \in DOMAIN R : k = 1
  BY <1>3, <1>4
<1>10. \A k \in DOMAIN R : R[k].key = "mime_types"
  BY <1>9
<1>11. IsRulesBlock(R, Blank, <<>>)
  BY <1>5, <1>7, <1>8, <1>9, <1>10 DEF IsRulesBlock
<1>12. QED
  BY <1>1, <1>11

LEMMA FlattenTwo ==
  ASSUME NEW s, NEW t
  PROVE  FlattenSeq(<<s, t>>) = s \o t
<1> DEFINE seqs == <<s, t>>
           F(f) == [i \in 1 .. Len(seqs) |-> IF i = 1 THEN seqs[i] ELSE f[i - 1] \o seqs[i]]
           g == [i \in 1 .. 2 |-> IF i = 1 THEN s ELSE s \o t]
           f == CHOOSE h : h = F(h)
<1>1. Len(seqs) = 2 /\ seqs[1] = s /\ seqs[2] = t
  OBVIOUS
<1>2. FlattenSeq(seqs) = f[Len(seqs)]
  BY <1>1 DEF FlattenSeq
<1> HIDE DEF seqs
<1>3. g = F(g)
  BY <1>1
<1>4. f = F(f)
  <2> HIDE DEF g, F
  <2>1. QED
    BY <1>3
<1> HIDE DEF f
<1>5. f[1] = s /\ f[2] = f[1] \o t
  BY <1>1, <1>4
<1>6. QED
  BY <1>1, <1>2, <1>5 DEF seqs

LEMMA TwoRulesBlock ==
  ASSUME NEW limit \in Words, limit # Blank, NEW one \in Words, NEW size \in Words, NEW two \in Words
  PROVE  IsRulesBlock(<<Key(1, "default_max_bytes", limit), Key(1, "mime_types", Blank),
                        Item(2, one), Key(3, "max_size", size), Item(2, two)>>,
                      limit, <<[name |-> one, size |-> size], [name |-> two, size |-> Blank]>>)
<1>1. PICK k1 : k1 = Key(1, "default_max_bytes", limit)
  OBVIOUS
<1>2. PICK k2 : k2 = Key(1, "mime_types", Blank)
  OBVIOUS
<1>3. PICK k3 : k3 = Item(2, one)
  OBVIOUS
<1>4. PICK k4 : k4 = Key(3, "max_size", size)
  OBVIOUS
<1>5. PICK k5 : k5 = Item(2, two)
  OBVIOUS
<1>6. PICK R : R = <<k1, k2, k3, k4, k5>>
  OBVIOUS
<1>7. "default_max_bytes" \in Words /\ "mime_types" \in Words /\ "max_size" \in Words /\ Blank \in Words
      /\ 1 \in Nat /\ 2 \in Nat /\ 3 \in Nat
  BY SpokenWords DEF SettingWords
<1>8. /\ k1 \in Line /\ k1.ind = 1 /\ k1.kind = "key" /\ k1.key = "default_max_bytes" /\ k1.val = limit /\ k1.nl
      /\ HasContent(k1) /\ Depth(k1) = 2 * 1 /\ (Bare(k1) <=> limit = Blank)
  BY <1>1, <1>7, KeyIs
<1>9. /\ k2 \in Line /\ k2.ind = 1 /\ k2.kind = "key" /\ k2.key = "mime_types" /\ k2.nl
      /\ HasContent(k2) /\ Depth(k2) = 2 * 1 /\ (Bare(k2) <=> Blank = Blank)
  BY <1>2, <1>7, KeyIs
<1>10. /\ k3 \in Line /\ k3.ind = 2 /\ k3.kind = "item" /\ k3.val = one /\ k3.nl
       /\ HasContent(k3) /\ Depth(k3) = 2 * 2 + 1 /\ \A keys : ~IsKey(k3, keys)
  BY <1>3, <1>7, ItemIs
<1>11. /\ k4 \in Line /\ k4.ind = 3 /\ k4.kind = "key" /\ k4.key = "max_size" /\ k4.val = size /\ k4.nl
       /\ HasContent(k4) /\ Depth(k4) = 2 * 3 /\ (Bare(k4) <=> size = Blank)
  BY <1>4, <1>7, KeyIs
<1>12. /\ k5 \in Line /\ k5.ind = 2 /\ k5.kind = "item" /\ k5.val = two /\ k5.nl
       /\ HasContent(k5) /\ Depth(k5) = 2 * 2 + 1 /\ \A keys : ~IsKey(k5, keys)
  BY <1>5, <1>7, ItemIs
<1>13. R \in Seq(Line) /\ DOMAIN R = {1, 2, 3, 4, 5} /\ DOMAIN R = 1 .. 5
       /\ R[1] = k1 /\ R[2] = k2 /\ R[3] = k3 /\ R[4] = k4 /\ R[5] = k5
  <2>1. R \in Seq(Line)
    BY <1>6, <1>8, <1>9, <1>10, <1>11, <1>12
  <2>2. DOMAIN R = 1 .. 5 /\ R[1] = k1 /\ R[2] = k2 /\ R[3] = k3 /\ R[4] = k4 /\ R[5] = k5
    BY <1>6
  <2>3. QED
    BY <2>1, <2>2
<1>14. /\ Depth(R[1]) = 2 /\ Depth(R[2]) = 2 /\ Depth(R[3]) = 5 /\ Depth(R[4]) = 6 /\ Depth(R[5]) = 5
       /\ \A k \in DOMAIN R : HasContent(R[k]) /\ R[k].nl
  BY <1>8, <1>9, <1>10, <1>11, <1>12, <1>13
<1>15. Parents(R)[1] = 0 /\ Parents(R)[2] = 0 /\ Parents(R)[3] = 2 /\ Parents(R)[4] = 3 /\ Parents(R)[5] = 2
  <2>1. IsParent(R, 1, 0)
    BY DEF IsParent
  <2>2. IsParent(R, 2, 0)
    <3>1. \A j \in 0 + 1 .. 2 - 1 : j = 1
      OBVIOUS
    <3>2. QED
      BY <1>14, <3>1 DEF IsParent
  <2>3. IsParent(R, 3, 2)
    <3>1. \A j \in 2 + 1 .. 3 - 1 : FALSE
      OBVIOUS
    <3>2. QED
      BY <1>13, <1>14, <3>1 DEF IsParent
  <2>4. IsParent(R, 4, 3)
    <3>1. \A j \in 3 + 1 .. 4 - 1 : FALSE
      OBVIOUS
    <3>2. QED
      BY <1>13, <1>14, <3>1 DEF IsParent
  <2>5. IsParent(R, 5, 2)
    <3>1. \A j \in 2 + 1 .. 5 - 1 : j = 3 \/ j = 4
      OBVIOUS
    <3>2. QED
      BY <1>13, <1>14, <3>1 DEF IsParent
  <2>6. \A k \in DOMAIN R : \A p : IsParent(R, k, p) => p = Parents(R)[k]
    BY <1>13, ParentIs
  <2>7. QED
    BY <1>13, <2>1, <2>2, <2>3, <2>4, <2>5, <2>6
<1>16. Content(R) = {1, 2, 3, 4, 5}
  BY <1>13, <1>14 DEF Content
<1>17. Shape(R, 1)
  <2>1. /\ R[1].kind = "key" /\ R[1].ind = 1 /\ R[1].key = "default_max_bytes"
        /\ R[2].kind = "key" /\ R[2].ind = 1 /\ R[2].key = "mime_types" /\ Bare(R[2])
        /\ R[3].kind = "item" /\ R[3].ind = 1 + 1
        /\ R[4].kind = "key" /\ R[4].ind = 2 + 1 /\ R[4].key = "max_size"
        /\ R[5].kind = "item" /\ R[5].ind = 1 + 1 /\ R[3].ind = 2
    BY <1>8, <1>9, <1>10, <1>11, <1>12, <1>13
  <2>2. /\ \A keys : IsKey(R[1], keys) => "default_max_bytes" \in keys
        /\ \A keys : IsKey(R[2], keys) => "mime_types" \in keys
        /\ \A keys : IsKey(R[4], keys) => "max_size" \in keys
        /\ \A keys : ~IsKey(R[3], keys) /\ ~IsKey(R[5], keys)
    BY <1>10, <1>12, <1>13, <2>1 DEF IsKey
  <2>3. \A i \in {1, 2, 3, 4, 5} : ~IsKey(R[i], Sections) /\ ~IsKey(R[i], {"enable"}) /\ ~IsKey(R[i], EditedInPlace)
    BY <2>2 DEF Sections, EditedInPlace
  <2> SUFFICES ASSUME NEW i \in {1, 2, 3, 4, 5}
               PROVE  LET p == Parents(R)[i] IN
                      /\ R[i].kind \in {"key", "item"}
                      /\ p = 0 => R[i].kind = "key" /\ R[i].ind = 1
                      /\ p # 0 => /\ R[i].ind = R[p].ind + 1
                                  /\ R[p].kind = "item" => R[i].kind = "key"
                                  /\ R[p].kind = "key" => Bare(R[p])
                                  /\ IsKey(R[p], Sections) => R[i].kind = "key"
                      /\ IsKey(R[i], Sections) => R[i].ind = 0
                      /\ IsKey(R[i], {"enable"}) => R[i].ind = 1
                      /\ IsKey(R[i], EditedInPlace) => ~Bare(R[i])
                      /\ \A j \in {1, 2, 3, 4, 5} :
                           j < i /\ Parents(R)[j] = p =>
                             R[i].kind = R[j].kind /\ (R[i].kind = "key" => R[i].key # R[j].key)
    BY <1>16 DEF Shape
  <2>4. CASE i = 1
    BY <1>15, <2>1, <2>3, <2>4
  <2>5. CASE i = 2
    BY <1>15, <2>1, <2>3, <2>5
  <2>6. CASE i = 3
    BY <1>15, <2>1, <2>3, <2>6
  <2>7. CASE i = 4
    BY <1>15, <2>1, <2>3, <2>7
  <2>8. CASE i = 5
    BY <1>15, <2>1, <2>3, <2>8
  <2>9. QED
    BY <2>4, <2>5, <2>6, <2>7, <2>8
<1>18. Block(R)
  BY <1>13, <1>14, <1>17 DEF Block
<1>19. ItemsBelow(R, Parents(R), 2) = [k \in 1 .. 2 |-> IF k = 1 THEN 3 ELSE 5]
  <2> DEFINE T == {j \in DOMAIN R : R[j].kind = "item" /\ Parents(R)[j] = 2}
             f == [i \in 0 + 1 .. 0 + 2 |-> IF i = 1 THEN 3 ELSE 5]
  <2>1. T = {3, 5}
    BY <1>8, <1>9, <1>10, <1>11, <1>12, <1>13, <1>15
  <2> HIDE DEF T
  <2>2. PICK S : S = 0 + 1 .. 0 + 2
    OBVIOUS
  <2>3. S \in SUBSET Nat /\ IsFiniteSet(S) /\ Cardinality(S) = 2
    <3>1. PICK x \in Int : x = 1
      OBVIOUS
    <3>2. PICK y \in Int : y = 2
      OBVIOUS
    <3>3. IsFiniteSet(x .. y) /\ Cardinality(x .. y) = IF x > y THEN 0 ELSE y - x + 1
      BY FS_Interval
    <3>4. S = x .. y /\ (IF x > y THEN 0 ELSE y - x + 1) = 2
      BY <2>2, <3>1, <3>2
    <3>5. S \in SUBSET Nat
      BY <2>2
    <3>6. QED
      BY <3>3, <3>4, <3>5
  <2>4. T \in SUBSET Nat /\ f \in [S -> T] /\ (\A i, j \in S : i < j => f[i] < f[j]) /\ \A t \in T : \E i \in S : f[i] = t
    BY <2>1, <2>2
  <2>5. InOrder(S) = [k \in 1 .. 2 |-> 0 + k]
    BY <2>2, IntervalInOrder
  <2>6. InOrder(T) = [k \in 1 .. Cardinality(S) |-> f[InOrder(S)[k]]]
    <3> HIDE DEF f
    <3>1. QED
      BY <2>3, <2>4, OrderMoved
  <2>7. InOrder(T) = [k \in 1 .. 2 |-> IF k = 1 THEN 3 ELSE 5]
    BY <2>3, <2>5, <2>6
  <2>8. QED
    BY <2>7 DEF ItemsBelow, T
<1>20. Child(R, Parents(R), 3, "max_size") = 4 /\ Child(R, Parents(R), 5, "max_size") = 0
  <2>1. IsKey(R[4], {"max_size"}) /\ 4 \in Content(R) /\ 5 \in Content(R)
    BY <1>11, <1>13, <1>16 DEF IsKey
  <2>2. 1 \in Nat /\ Shape(R, 1) /\ R \in Seq(Line)
    BY <1>13, <1>17
  <2>3. \A i \in Content(R) : IsKey(R[i], {"max_size"}) /\ Parents(R)[i] = 3 => At(R, Parents(R), 3, "max_size") = i
    BY <2>2, AtIn
  <2>4. At(R, Parents(R), 5, "max_size") # 0 => /\ At(R, Parents(R), 5, "max_size") \in Content(R)
                                               /\ Parents(R)[At(R, Parents(R), 5, "max_size")] = 5
    <3>1. PICK five : five = 5
      OBVIOUS
    <3>2. PICK key : key = "max_size"
      OBVIOUS
    <3>3. At(R, Parents(R), five, key) # 0 => /\ At(R, Parents(R), five, key) \in Content(R)
                                              /\ Parents(R)[At(R, Parents(R), five, key)] = five
      BY <2>2, AtIn
    <3>4. QED
      BY <3>1, <3>2, <3>3
  <2>5. \A i \in Content(R) : Parents(R)[i] # 5
    BY <1>15, <1>16
  <2>6. QED
    BY <1>15, <2>1, <2>3, <2>4, <2>5 DEF Child
<1>21. Scalar(R, 4, Blank) = size /\ Scalar(R, 0, Blank) = Blank
  BY <1>11, <1>13 DEF Scalar
<1>22. Meaning(R, 2).rules = <<[name |-> one, size |-> size], [name |-> two, size |-> Blank]>>
  <2> DEFINE items == ItemsBelow(R, Parents(R), 2)
             P == Parents(R)
  <2>1. Meaning(R, 2).rules = [k \in DOMAIN items |->
                        [name |-> R[items[k]].val,
                         size |-> Scalar(R, Child(R, P, items[k], "max_size"), Blank)]]
    BY DEF Meaning
  <2>2. DOMAIN items = 1 .. 2 /\ items[1] = 3 /\ items[2] = 5
    BY <1>19
  <2>3. /\ [name |-> R[items[1]].val, size |-> Scalar(R, Child(R, P, items[1], "max_size"), Blank)]
             = [name |-> one, size |-> size]
        /\ [name |-> R[items[2]].val, size |-> Scalar(R, Child(R, P, items[2], "max_size"), Blank)]
             = [name |-> two, size |-> Blank]
    <3> HIDE DEF items
    <3>1. R[3].val = one /\ R[5].val = two
      BY <1>10, <1>12, <1>13
    <3>2. QED
      BY <1>20, <1>21, <2>2, <3>1
  <2> HIDE DEF items, P
  <2>4. QED
    BY <2>1, <2>2, <2>3
<1>23. Meaning(R, 1).val = limit
  BY <1>8, <1>13, ValueOf
<1>24. \A k \in DOMAIN R : Parents(R)[k] = 0 => k = 1 \/ k = 2
  BY <1>13, <1>15
<1>25. 1 \in DOMAIN R /\ 2 \in DOMAIN R /\ R[1].key = "default_max_bytes" /\ R[2].key = "mime_types"
  BY <1>8, <1>9, <1>13
<1>26. IsRulesBlock(R, limit, <<[name |-> one, size |-> size], [name |-> two, size |-> Blank]>>)
  BY <1>15, <1>18, <1>22, <1>23, <1>24, <1>25 DEF IsRulesBlock
<1>27. QED
  BY <1>1, <1>2, <1>3, <1>4, <1>5, <1>6, <1>26, Zenon

LEMMA RulesRequestsAre ==
  ASSUME NEW s \in RulesRequests
  PROVE  /\ s.set = "rules"
         /\ \/ s.limit = Blank /\ s.rules = <<>>
            \/ /\ s.limit = "0"
               /\ s.rules = <<[name |-> "text/*", size |-> "0"], [name |-> "*/*", size |-> Blank]>>
<1>1. \/ s = [set |-> "rules", limit |-> Blank, rules |-> <<>>]
      \/ s = [set |-> "rules", limit |-> "0",
              rules |-> <<[name |-> "text/*", size |-> "0"], [name |-> "*/*", size |-> Blank]>>]
  BY Zenon DEF RulesRequests, Blank
<1>2. QED
  BY <1>1

LEMMA ZeroIsSaid == "0" # Blank /\ "0" \in Words /\ "text/*" \in Words /\ "*/*" \in Words
<1>1. "0" # Blank
  BY Zenon DEF Blank
<1>2. QED
  BY <1>1, SpokenWords DEF TypedWords

LEMMA PairIs ==
  ASSUME NEW x, NEW y
  PROVE  <<x>> \o <<y>> = <<x, y>>
<1>1. PICK A, C, S : A = <<x>> /\ C = <<y>> /\ S = {x, y}
  OBVIOUS
<1>2. A \in Seq(S) /\ Len(A) = 1 /\ A[1] = x /\ C \in Seq(S) /\ Len(C) = 1 /\ C[1] = y
  BY <1>1
<1>3. PICK N : N = A \o C
  OBVIOUS
<1>4. N \in Seq(S) /\ Len(N) = 2 /\ N[1] = x /\ N[2] = y
  <2>1. /\ A \o C \in Seq(S) /\ Len(A \o C) = Len(A) + Len(C)
        /\ \A i \in 1 .. Len(A) + Len(C) : (A \o C)[i] = IF i <= Len(A) THEN A[i] ELSE C[i - Len(A)]
    BY <1>2, ConcatProperties
  <2>2. Len(A) = 1 /\ Len(A) + Len(C) = 2 /\ 1 \in 1 .. 2 /\ 2 \in 1 .. 2
    BY <1>2
  <2>3. QED
    BY <1>2, <1>3, <2>1, <2>2
<1>5. N = [i \in 1 .. 2 |-> N[i]]
  BY <1>4
<1>6. N = <<x, y>>
  BY <1>4, <1>5
<1>7. QED
  BY <1>1, <1>3, <1>6

LEMMA RulesRendered ==
  ASSUME NEW s \in RulesRequests
  PROVE  \/ s.limit = Blank /\ s.rules = <<>> /\ RenderRules(1, s) = <<Key(1, "mime_types", Blank)>>
         \/ /\ s.limit = "0"
            /\ s.rules = <<[name |-> "text/*", size |-> "0"], [name |-> "*/*", size |-> Blank]>>
            /\ RenderRules(1, s) = <<Key(1, "default_max_bytes", "0"), Key(1, "mime_types", Blank),
                                     Item(2, "text/*"), Key(3, "max_size", "0"), Item(2, "*/*")>>
<1>1. RenderRules(1, s) = (IF s.limit = Blank THEN <<>> ELSE <<Key(1, "default_max_bytes", s.limit)>>)
                          \o <<Key(1, "mime_types", Blank)>>
                          \o FlattenSeq([i \in DOMAIN s.rules |-> RenderRule(1 + 1, s.rules[i])])
  BY Zenon DEF RenderRules, Blank
<1>2. CASE s.limit = Blank /\ s.rules = <<>>
  <2>1. [i \in DOMAIN s.rules |-> RenderRule(1 + 1, s.rules[i])] = <<>>
    <3>1. DOMAIN s.rules = {}
      BY <1>2
    <3>2. [i \in DOMAIN s.rules |-> RenderRule(1 + 1, s.rules[i])] = [i \in {} |-> 0]
      BY <3>1
    <3>3. QED
      BY <3>2
  <2>2. FlattenSeq(<<>>) = <<>>
    BY DEF FlattenSeq
  <2>3. PICK k2 : k2 = Key(1, "mime_types", Blank)
    OBVIOUS
  <2>4. RenderRules(1, s) = <<>> \o <<k2>> \o <<>>
    BY <1>1, <1>2, <2>1, <2>2, <2>3
  <2>5. <<>> \o <<k2>> \o <<>> = <<k2>>
    OBVIOUS
  <2>6. QED
    BY <1>2, <2>3, <2>4, <2>5
<1>3. CASE /\ s.limit = "0"
           /\ s.rules = <<[name |-> "text/*", size |-> "0"], [name |-> "*/*", size |-> Blank]>>
  <2>1. PICK k1, k2, k3, k4, k5 :
          /\ k1 = Key(1, "default_max_bytes", "0") /\ k2 = Key(1, "mime_types", Blank)
          /\ k3 = Item(2, "text/*") /\ k4 = Key(3, "max_size", "0") /\ k5 = Item(2, "*/*")
    OBVIOUS
  <2>2. ASSUME NEW rule
        PROVE  RenderRule(2, rule) = <<Item(2, rule.name)>>
                 \o IF rule.size = Blank THEN <<>> ELSE <<Key(2 + 1, "max_size", rule.size)>>
    BY Zenon DEF RenderRule, Blank
  <2>3. RenderRule(2, [name |-> "text/*", size |-> "0"]) = <<k3, k4>>
    <3>1. PICK rule : rule = [name |-> "text/*", size |-> "0"]
      OBVIOUS
    <3>2. rule.name = "text/*" /\ rule.size = "0"
      BY <3>1
    <3>3. RenderRule(2, rule) = <<Item(2, rule.name)>> \o <<Key(2 + 1, "max_size", rule.size)>>
      BY <2>2, <3>2, ZeroIsSaid
    <3>4. 2 + 1 = 3
      OBVIOUS
    <3>5. RenderRule(2, rule) = <<k3>> \o <<k4>>
      BY <2>1, <3>2, <3>3, <3>4, Zenon
    <3>6. <<k3>> \o <<k4>> = <<k3, k4>>
      BY PairIs
    <3>7. QED
      BY <3>1, <3>5, <3>6
  <2>4. RenderRule(2, [name |-> "*/*", size |-> Blank]) = <<k5>>
    <3>1. PICK rule : rule = [name |-> "*/*", size |-> Blank]
      OBVIOUS
    <3>2. rule.name = "*/*" /\ rule.size = Blank
      BY <3>1
    <3>3. RenderRule(2, rule) = <<k5>> \o <<>>
      BY <2>1, <2>2, <3>2
    <3>4. QED
      BY <3>1, <3>3
  <2>5. [i \in DOMAIN s.rules |-> RenderRule(1 + 1, s.rules[i])] = <<<<k3, k4>>, <<k5>>>>
    <3>1. PICK r1, r2 : r1 = [name |-> "text/*", size |-> "0"] /\ r2 = [name |-> "*/*", size |-> Blank]
      OBVIOUS
    <3>2. s.rules = <<r1, r2>>
      BY <1>3, <3>1
    <3>3. RenderRule(2, r1) = <<k3, k4>> /\ RenderRule(2, r2) = <<k5>>
      BY <2>3, <2>4, <3>1
    <3>4. QED
      BY <3>2, <3>3
  <2>6. FlattenSeq(<<<<k3, k4>>, <<k5>>>>) = <<k3, k4, k5>>
    <3>1. PICK x, y : x = <<k3, k4>> /\ y = <<k5>>
      OBVIOUS
    <3>2. FlattenSeq(<<x, y>>) = x \o y
      BY FlattenTwo
    <3>3. QED
      BY <3>1, <3>2
  <2>7. RenderRules(1, s) = <<k1>> \o <<k2>> \o <<k3, k4, k5>>
    BY <1>1, <1>3, <2>1, <2>5, <2>6, ZeroIsSaid
  <2>8. <<k1>> \o <<k2>> \o <<k3, k4, k5>> = <<k1, k2, k3, k4, k5>>
    <3>1. PICK S : S = {k1, k2, k3, k4, k5}
      OBVIOUS
    <3>2. PICK A : A = <<k1>> \o <<k2>>
      OBVIOUS
    <3>3. A \in Seq(S) /\ Len(A) = 2 /\ A[1] = k1 /\ A[2] = k2
      BY <3>1, <3>2
    <3>4. PICK C : C = <<k3, k4, k5>>
      OBVIOUS
    <3>5. C \in Seq(S) /\ Len(C) = 3 /\ C[1] = k3 /\ C[2] = k4 /\ C[3] = k5
      BY <3>1, <3>4
    <3>6. /\ A \o C \in Seq(S) /\ Len(A \o C) = 5
          /\ \A i \in 1 .. 5 : (A \o C)[i] = IF i <= 2 THEN A[i] ELSE C[i - 2]
      <4>1. /\ A \o C \in Seq(S) /\ Len(A \o C) = Len(A) + Len(C)
            /\ \A i \in 1 .. Len(A) + Len(C) : (A \o C)[i] = IF i <= Len(A) THEN A[i] ELSE C[i - Len(A)]
        BY <3>3, <3>5, ConcatProperties
      <4>2. Len(A) = 2 /\ Len(C) = 3 /\ Len(A) + Len(C) = 5
        BY <3>3, <3>5
      <4>3. QED
        BY <4>1, <4>2, Zenon
    <3>7. PICK N : N = A \o C
      OBVIOUS
    <3>8. N \in Seq(S) /\ Len(N) = 5 /\ N[1] = k1 /\ N[2] = k2 /\ N[3] = k3 /\ N[4] = k4 /\ N[5] = k5
      BY <3>3, <3>5, <3>6, <3>7
    <3>9. N = [i \in 1 .. 5 |-> N[i]]
      BY <3>8
    <3>10. N = <<k1, k2, k3, k4, k5>>
      BY <3>8, <3>9
    <3>11. QED
      BY <3>2, <3>4, <3>7, <3>10
  <2>9. QED
    BY <1>3, <2>1, <2>7, <2>8
<1>4. QED
  BY <1>2, <1>3, RulesRequestsAre

LEMMA RulesBlock ==
  ASSUME NEW s \in RulesRequests
  PROVE  IsRulesBlock(RenderRules(1, s), s.limit, s.rules)
<1>1. CASE s.limit = Blank /\ s.rules = <<>> /\ RenderRules(1, s) = <<Key(1, "mime_types", Blank)>>
  BY <1>1, NoRulesBlock
<1>2. CASE /\ s.limit = "0"
           /\ s.rules = <<[name |-> "text/*", size |-> "0"], [name |-> "*/*", size |-> Blank]>>
           /\ RenderRules(1, s) = <<Key(1, "default_max_bytes", "0"), Key(1, "mime_types", Blank),
                                    Item(2, "text/*"), Key(3, "max_size", "0"), Item(2, "*/*")>>
  <2>1. IsRulesBlock(<<Key(1, "default_max_bytes", "0"), Key(1, "mime_types", Blank),
                       Item(2, "text/*"), Key(3, "max_size", "0"), Item(2, "*/*")>>, "0",
                     <<[name |-> "text/*", size |-> "0"], [name |-> "*/*", size |-> Blank]>>)
    BY ZeroIsSaid, TwoRulesBlock
  <2>2. QED
    BY <1>2, <2>1
<1>3. QED
  BY <1>1, <1>2, RulesRendered

-----------------------------------------------------------------------------
(* A value that is rewritten in its place *)

LEMMA BlankedIs ==
  ASSUME NEW line
  PROVE  Blanked(line) = IF IsKey(line, EditedInPlace) THEN [line EXCEPT !.val = Blank] ELSE line
  BY Zenon DEF Blanked, Blank

(* The texts that differ in the value of line x, a switch below the line h. *)
Rewrites(L, N, h, x, value) ==
  /\ Shape(L, 0) /\ \A i \in DOMAIN L : L[i].nl
  /\ h \in Content(L) /\ h # 0 /\ x \in Content(L) /\ Parents(L)[h] = 0 /\ Parents(L)[x] = h
  /\ IsKey(L[x], EditedInPlace)
  /\ value \in Words /\ value # Blank
  /\ N = [L EXCEPT ![x].val = value]

SameButValue(L, N, x, value) ==
  /\ N \in Seq(Line) /\ DOMAIN N = DOMAIN L /\ Content(N) = Content(L) /\ Parents(N) = Parents(L)
  /\ \A i \in DOMAIN L : /\ i # x => N[i] = L[i]
                         /\ N[i].ind = L[i].ind /\ N[i].kind = L[i].kind /\ N[i].key = L[i].key
                         /\ N[i].nl = L[i].nl /\ Depth(N[i]) = Depth(L[i])
                         /\ \A keys : IsKey(N[i], keys) <=> IsKey(L[i], keys)
  /\ N[x].val = value /\ ~Bare(N[x]) /\ N[x] = [L[x] EXCEPT !.val = value]
  /\ \A i \in Content(L) : Parents(L)[i] # x

LEMMA RewrittenLines ==
  ASSUME NEW L \in Seq(Line), NEW N, NEW h, NEW x, NEW value, Rewrites(L, N, h, x, value)
  PROVE  SameButValue(L, N, x, value)
<1>1. /\ DOMAIN L = 1 .. Len(L) /\ Len(L) \in Nat /\ x \in DOMAIN L /\ x # 0 /\ x \in Content(L)
      /\ \A i \in DOMAIN L : L[i] \in Line
  BY LinesOf, ContentOf DEF Rewrites
<1>2. N \in Seq(Line) /\ DOMAIN N = DOMAIN L /\ (\A i \in DOMAIN L : i # x => N[i] = L[i])
      /\ N[x] = [L[x] EXCEPT !.val = value]
  <2>1. N = [L EXCEPT ![x] = [L[x] EXCEPT !.val = value]] /\ value \in Words
    BY <1>1 DEF Rewrites
  <2>2. [L[x] EXCEPT !.val = value] \in Line
    BY <1>1, <2>1 DEF Line
  <2>3. QED
    BY <1>1, <2>1, <2>2
<1>3. /\ N[x].ind = L[x].ind /\ N[x].kind = L[x].kind /\ N[x].key = L[x].key /\ N[x].nl = L[x].nl
      /\ N[x].val = value
  BY <1>1, <1>2 DEF Line
<1>4. \A i \in DOMAIN L : /\ N[i].ind = L[i].ind /\ N[i].kind = L[i].kind /\ N[i].key = L[i].key
                          /\ N[i].nl = L[i].nl
  BY <1>2, <1>3
<1>5. \A i \in DOMAIN L : /\ Depth(N[i]) = Depth(L[i]) /\ (HasContent(N[i]) <=> HasContent(L[i]))
                          /\ \A keys : IsKey(N[i], keys) <=> IsKey(L[i], keys)
  BY <1>4 DEF Depth, HasContent, IsKey
<1>6. Content(N) = Content(L)
  BY <1>2, <1>5 DEF Content
<1>7. ASSUME NEW i \in DOMAIN L
      PROVE  Parents(N)[i] = Parents(L)[i]
  <2>1. PICK p : p = Parents(L)[i]
    OBVIOUS
  <2>2. IsParent(L, i, p)
    BY <2>1, ParentIs
  <2>3. p \in 0 .. i - 1 /\ i \in Nat /\ i <= Len(L)
    BY <1>1, <2>2 DEF IsParent
  <2>4. p # 0 => p \in DOMAIN L
    BY <1>1, <2>3
  <2>5. \A j \in p + 1 .. i - 1 : j \in DOMAIN L
    BY <1>1, <2>3
  <2>6. IsParent(N, i, p)
    BY <1>5, <2>2, <2>4, <2>5 DEF IsParent
  <2>7. N \in Seq(Line) /\ i \in DOMAIN N
    BY <1>2
  <2>8. p = Parents(N)[i]
    BY <2>6, <2>7, ParentIs
  <2>9. QED
    BY <2>1, <2>8
<1>8. Parents(N) = Parents(L)
  <2>1. Parents(N) = [i \in DOMAIN L |-> Parents(N)[i]] /\ Parents(L) = [i \in DOMAIN L |-> Parents(L)[i]]
    <3>1. ASSUME NEW A \in Seq(Line)
          PROVE  Parents(A) = [i \in DOMAIN A |-> Parents(A)[i]]
      <4> DEFINE f == [j \in DOMAIN A |-> Parent(A, j)]
      <4>1. f \in [1 .. Len(A) -> {Parent(A, j) : j \in DOMAIN A}] /\ Len(A) \in Nat
        OBVIOUS
      <4>2. f \in Seq({Parent(A, j) : j \in DOMAIN A}) /\ Len(f) = Len(A)
        BY <4>1
      <4> HIDE DEF f
      <4>3. SubSeq(f, 1, Len(A)) = f
        BY <4>2
      <4>4. Parents(A) = f
        BY <4>3 DEF Parents, f
      <4>5. QED
        BY <4>4 DEF f
    <3>2. QED
      BY <1>2, <3>1
  <2>2. QED
    BY <1>7, <2>1
<1>9. ~Bare(N[x])
  <2>1. N[x].val # Blank
    BY <1>3 DEF Rewrites
  <2>2. QED
    BY <2>1, Zenon DEF Bare, Blank
<1>10. ASSUME NEW i \in Content(L), Parents(L)[i] = x
       PROVE  FALSE
  <2>1. L[x].kind = "key" /\ Shape(L, 0) /\ IsKey(L[x], EditedInPlace)
    BY DEF IsKey, Rewrites
  <2>2. Bare(L[x])
    BY <1>1, <1>10, <2>1, ShapeOf
  <2>3. ~Bare(L[x])
    BY <1>1, <2>1 DEF Shape
  <2>4. QED
    BY <2>2, <2>3
<1>11. QED
  BY <1>2, <1>3, <1>4, <1>5, <1>6, <1>8, <1>9, <1>10 DEF SameButValue

LEMMA TidyRewritten ==
  ASSUME NEW L \in Seq(Line), NEW N, NEW h, NEW x, NEW value, Rewrites(L, N, h, x, value)
  PROVE  Tidy(N)
<1>1. /\ N \in Seq(Line) /\ DOMAIN N = DOMAIN L /\ Content(N) = Content(L) /\ Parents(N) = Parents(L)
      /\ \A i \in DOMAIN L : /\ i # x => N[i] = L[i]
                             /\ N[i].ind = L[i].ind /\ N[i].kind = L[i].kind /\ N[i].key = L[i].key
                             /\ N[i].nl = L[i].nl
                             /\ \A keys : IsKey(N[i], keys) <=> IsKey(L[i], keys)
      /\ ~Bare(N[x])
      /\ \A i \in Content(L) : Parents(L)[i] # x
  <2>1. SameButValue(L, N, x, value)
    BY RewrittenLines
  <2>2. QED
    BY <2>1 DEF SameButValue
<1>2. Shape(L, 0) /\ \A i \in DOMAIN L : L[i].nl
  BY DEF Rewrites
<1>3. \A i \in Content(L) : i \in DOMAIN L
  BY DEF Content
<1>4. Shape(N, 0)
  <2> SUFFICES ASSUME NEW i \in Content(L)
               PROVE  LET p == Parents(L)[i] IN
                      /\ N[i].kind \in {"key", "item"}
                      /\ p = 0 => N[i].kind = "key" /\ N[i].ind = 0
                      /\ p # 0 => /\ N[i].ind = N[p].ind + 1
                                  /\ N[p].kind = "item" => N[i].kind = "key"
                                  /\ N[p].kind = "key" => Bare(N[p])
                                  /\ IsKey(N[p], Sections) => N[i].kind = "key"
                      /\ IsKey(N[i], Sections) => N[i].ind = 0
                      /\ IsKey(N[i], {"enable"}) => N[i].ind = 1
                      /\ IsKey(N[i], EditedInPlace) => ~Bare(N[i])
                      /\ \A j \in Content(L) :
                           j < i /\ Parents(L)[j] = p =>
                             N[i].kind = N[j].kind /\ (N[i].kind = "key" => N[i].key # N[j].key)
    BY <1>1 DEF Shape
  <2>1. PICK p : p = Parents(L)[i]
    OBVIOUS
  <2>2. p = 0 \/ p \in Content(L)
    BY <2>1, ContentOf
  <2>3. p # 0 => N[p] = L[p]
    BY <1>1, <1>3, <2>1, <2>2
  <2>4. /\ L[i].kind \in {"key", "item"}
        /\ p = 0 => L[i].kind = "key" /\ L[i].ind = 0
        /\ p # 0 => /\ L[i].ind = L[p].ind + 1
                    /\ L[p].kind = "item" => L[i].kind = "key"
                    /\ L[p].kind = "key" => Bare(L[p])
                    /\ IsKey(L[p], Sections) => L[i].kind = "key"
        /\ IsKey(L[i], Sections) => L[i].ind = 0
        /\ IsKey(L[i], {"enable"}) => L[i].ind = 1
        /\ IsKey(L[i], EditedInPlace) => ~Bare(L[i])
        /\ \A j \in Content(L) :
             j < i /\ Parents(L)[j] = p =>
               L[i].kind = L[j].kind /\ (L[i].kind = "key" => L[i].key # L[j].key)
    BY <1>2, <2>1 DEF Shape
  <2>5. /\ N[i].ind = L[i].ind /\ N[i].kind = L[i].kind /\ N[i].key = L[i].key
        /\ \A keys : IsKey(N[i], keys) <=> IsKey(L[i], keys)
    BY <1>1, <1>3
  <2>6. IsKey(N[i], EditedInPlace) => ~Bare(N[i])
    BY <1>1, <1>3, <2>4
  <2>7. \A j \in Content(L) : N[j].kind = L[j].kind /\ N[j].key = L[j].key
    BY <1>1, <1>3
  <2>8. p # 0 => /\ N[i].ind = N[p].ind + 1
                 /\ N[p].kind = "item" => N[i].kind = "key"
                 /\ N[p].kind = "key" => Bare(N[p])
                 /\ IsKey(N[p], Sections) => N[i].kind = "key"
    BY <2>3, <2>4, <2>5
  <2>9. \A j \in Content(L) :
           j < i /\ Parents(L)[j] = p =>
             N[i].kind = N[j].kind /\ (N[i].kind = "key" => N[i].key # N[j].key)
    BY <2>4, <2>5, <2>7
  <2>10. QED
    BY <2>1, <2>4, <2>5, <2>6, <2>8, <2>9
<1>5. \A i \in DOMAIN N : N[i].nl
  BY <1>1, <1>2
<1>6. QED
  BY <1>1, <1>4, <1>5, TidyIs

LEMMA RestRewritten ==
  ASSUME NEW L \in Seq(Line), NEW N, NEW h, NEW x, NEW value, Rewrites(L, N, h, x, value)
  PROVE  Rest(N) = Rest(L)
<1>1. /\ DOMAIN N = DOMAIN L /\ Content(N) = Content(L) /\ Parents(N) = Parents(L)
      /\ \A i \in DOMAIN L : /\ i # x => N[i] = L[i]
                             /\ N[i].kind = L[i].kind /\ N[i].key = L[i].key
                             /\ Depth(N[i]) = Depth(L[i])
                             /\ \A keys : IsKey(N[i], keys) <=> IsKey(L[i], keys)
      /\ N[x] = [L[x] EXCEPT !.val = value]
  <2>1. SameButValue(L, N, x, value)
    BY RewrittenLines
  <2>2. QED
    BY <2>1 DEF SameButValue
<1>2. /\ DOMAIN L = 1 .. Len(L) /\ Len(L) \in Nat /\ x \in DOMAIN L /\ L[x] \in Line /\ Content(L) \subseteq DOMAIN L
  BY LinesOf, ContentOf DEF Rewrites
<1>3. \A i \in DOMAIN L : HasContent(N[i]) <=> HasContent(L[i])
  BY <1>1 DEF HasContent
<1> DEFINE P == Parents(L)
<1>4. ASSUME NEW i \in DOMAIN L
      PROVE  (\A j \in 1 .. i : IsSetting(N, P, j) => ~GoesWith(N, i, j))
               <=> (\A j \in 1 .. i : IsSetting(L, P, j) => ~GoesWith(L, i, j))
  <2>1. i \in DOMAIN L /\ i \in Nat /\ i <= Len(L)
    BY <1>2
  <2>2. ASSUME NEW j \in 1 .. i
        PROVE  IsSetting(N, P, j) <=> IsSetting(L, P, j)
    <3>1. j \in DOMAIN L
      BY <1>2, <2>1
    <3>2. P[j] # 0 => P[j] \in DOMAIN L
      <4>1. IsParent(L, j, P[j])
        BY <3>1, ParentIs
      <4>2. P[j] \in 0 .. j - 1 /\ j \in Nat /\ j <= Len(L)
        BY <1>2, <3>1, <4>1 DEF IsParent
      <4> HIDE DEF P
      <4>3. QED
        BY <1>2, <4>2
    <3> HIDE DEF P
    <3>3. QED
      BY <1>1, <1>3, <3>1, <3>2 DEF IsSetting
  <2>3. ASSUME NEW j \in 1 .. i
        PROVE  GoesWith(N, i, j) <=> GoesWith(L, i, j)
    <3>1. j \in DOMAIN L /\ \A k \in j + 1 .. i : k \in DOMAIN L
      BY <1>2, <2>1
    <3>2. QED
      BY <1>1, <1>3, <3>1 DEF GoesWith
  <2>4. QED
    BY <2>2, <2>3
<1>5. Unowned(N) = Unowned(L)
  <2> HIDE DEF P
  <2>1. Unowned(N) = {i \in DOMAIN N : \A j \in 1 .. i : IsSetting(N, Parents(N), j) => ~GoesWith(N, i, j)}
    BY DEF Unowned
  <2>2. Unowned(L) = {i \in DOMAIN L : \A j \in 1 .. i : IsSetting(L, Parents(L), j) => ~GoesWith(L, i, j)}
    BY DEF Unowned
  <2>3. Unowned(N) = {i \in DOMAIN L : \A j \in 1 .. i : IsSetting(N, P, j) => ~GoesWith(N, i, j)}
    BY <1>1, <2>1 DEF P
  <2>4. QED
    BY <1>4, <2>2, <2>3 DEF P
<1>6. \A i \in DOMAIN L : Blanked(N[i]) = Blanked(L[i])
  <2>1. IsKey(L[x], EditedInPlace) /\ IsKey(N[x], EditedInPlace)
    BY <1>1, <1>2 DEF Rewrites
  <2>2. [N[x] EXCEPT !.val = Blank] = [L[x] EXCEPT !.val = Blank]
    BY <1>1, <1>2 DEF Line
  <2>3. Blanked(N[x]) = Blanked(L[x])
    BY <2>1, <2>2, BlankedIs
  <2>4. QED
    BY <1>1, <2>3
<1>7. Unowned(L) \in SUBSET Nat /\ IsFiniteSet(Unowned(L)) /\ Unowned(L) \subseteq DOMAIN L
  <2>1. Unowned(L) \subseteq DOMAIN L
    BY DEF Unowned
  <2>2. DOMAIN L \in SUBSET Nat /\ IsFiniteSet(DOMAIN L)
    BY <1>2, FS_Interval
  <2>3. QED
    BY <2>1, <2>2, FS_Subset
<1>8. InOrder(Unowned(L)) \in [1 .. Cardinality(Unowned(L)) -> Unowned(L)]
  BY <1>7, OrderOf
<1>9. QED
  BY <1>5, <1>6, <1>7, <1>8 DEF Rest

LEMMA ReadRewritten ==
  ASSUME NEW L \in Seq(Line), NEW N, NEW h, NEW x, NEW value, Rewrites(L, N, h, x, value),
         NEW section, NEW key
  PROVE  /\ section # L[h].key \/ key # L[x].key => Read(N, section, key) = Read(L, section, key)
         /\ section = L[h].key /\ key = L[x].key /\ At(L, Parents(L), 0, section) = h =>
              Read(N, section, key).val = value
<1> DEFINE P == Parents(L)
<1>1. /\ N \in Seq(Line) /\ DOMAIN N = DOMAIN L /\ Content(N) = Content(L) /\ Parents(N) = P
      /\ \A i \in DOMAIN L : /\ i # x => N[i] = L[i]
                             /\ \A keys : IsKey(N[i], keys) <=> IsKey(L[i], keys)
      /\ N[x].val = value /\ ~Bare(N[x])
      /\ \A i \in Content(L) : P[i] # x
  <2>1. SameButValue(L, N, x, value)
    BY RewrittenLines
  <2>2. QED
    BY <2>1 DEF SameButValue
<1>2. Shape(L, 0) /\ h \in Content(L) /\ h # 0 /\ x \in Content(L) /\ P[h] = 0 /\ P[x] = h /\ IsKey(L[x], EditedInPlace)
  BY DEF Rewrites
<1>3. \A i \in Content(L) : i \in DOMAIN L /\ i # 0
  BY LinesOf, ContentOf
<1>4. ASSUME NEW p, NEW k
      PROVE  At(N, P, p, k) = At(L, P, p, k)
  <2>1. {i \in DOMAIN N : IsKey(N[i], {k}) /\ P[i] = p} = {i \in DOMAIN L : IsKey(L[i], {k}) /\ P[i] = p}
    BY <1>1
  <2>2. QED
    BY <2>1 DEF At
<1>5. Field(N, P, section, key) = Field(L, P, section, key)
  BY <1>4 DEF Field, Child
<1>6. PICK t : t = At(L, P, 0, section)
  OBVIOUS
<1>7. PICK f : f = Field(L, P, section, key)
  OBVIOUS
<1>8. f # 0 => /\ t # 0 /\ f \in Content(L) /\ IsKey(L[f], {key}) /\ P[f] = t
               /\ t \in Content(L) /\ IsKey(L[t], {section})
  <2> SUFFICES ASSUME f # 0
               PROVE  /\ t # 0 /\ f \in Content(L) /\ IsKey(L[f], {key}) /\ P[f] = t
                      /\ t \in Content(L) /\ IsKey(L[t], {section})
    OBVIOUS
  <2>1. t # 0 /\ f = At(L, P, t, key)
    BY <1>6, <1>7 DEF Field, Child
  <2>2. f \in Content(L) /\ IsKey(L[f], {key}) /\ P[f] = t
    BY <1>2, <2>1, AtIs
  <2>3. t \in Content(L) /\ IsKey(L[t], {section})
    <3>1. PICK z : z = 0
      OBVIOUS
    <3>2. At(L, P, z, section) # 0 => At(L, P, z, section) \in Content(L) /\ IsKey(L[At(L, P, z, section)], {section})
      BY <1>2, AtIs
    <3>3. QED
      BY <1>6, <2>1, <3>1, <3>2
  <2>4. QED
    BY <2>1, <2>2, <2>3
<1>9. ASSUME section # L[h].key \/ key # L[x].key
      PROVE  Read(N, section, key) = Read(L, section, key)
  <2>1. CASE f = 0
    <3>1. Read(N, section, key) = Nothing /\ Read(L, section, key) = Nothing
      BY <1>1, <1>5, <1>7, <2>1, MeaningOfNone DEF Read
    <3>2. QED
      BY <3>1
  <2>2. CASE f # 0
    <3> DEFINE D == Content(L) \ {x, h}
               m == [i \in Content(L) |-> i]
    <3>1. f # h
      BY <1>2, <1>8, <2>2
    <3>2. f # x
      <4> SUFFICES ASSUME f = x PROVE FALSE
        OBVIOUS
      <4>1. t = h
        BY <1>2, <1>8, <2>2
      <4>2. L[x].key = key /\ L[h].key = section
        BY <1>8, <2>2, <4>1 DEF IsKey
      <4>3. QED
        BY <1>9, <4>2
    <3>3. f \in D
      BY <1>8, <2>2, <3>1, <3>2
    <3>4. Carries(L, N, m, D)
      <4>1. \A i \in D : m[i] = i /\ i \in DOMAIN N /\ N[i] = L[i] /\ i # 0
        BY <1>1, <1>3
      <4>2. \A i \in D, j \in Content(L) : P[j] = i => j \in D
        BY <1>2, <1>3
      <4>3. \A i \in D, j \in Content(L) : P[j] = i => j \in D /\ P[m[j]] = m[i]
        BY <4>1, <4>2
      <4>4. \A i \in D, k \in Content(N) : P[k] = m[i] => \E j \in D : m[j] = k /\ P[j] = i
        BY <1>1, <4>1, <4>2
      <4>5. \A i, j \in D : i < j => m[i] < m[j]
        BY <4>1
      <4>6. D \subseteq Content(L)
        OBVIOUS
      <4> HIDE DEF D, m
      <4>7. QED
        BY <1>1, <4>1, <4>3, <4>4, <4>5, <4>6 DEF Carries
    <3>5. m[f] = f
      BY <1>8, <2>2
    <3> HIDE DEF D, m
    <3>6. Meaning(N, m[f]) = Meaning(L, f)
      BY <1>1, <3>3, <3>4, MeaningCarried
    <3>7. QED
      BY <1>1, <1>5, <1>7, <3>5, <3>6 DEF Read
  <2>3. QED
    BY <2>1, <2>2
<1>10. ASSUME section = L[h].key, key = L[x].key, At(L, P, 0, section) = h
       PROVE  Read(N, section, key).val = value
  <2>1. IsKey(L[x], {key})
    BY <1>2, <1>10 DEF IsKey
  <2>2. At(L, P, h, key) = x
    BY <1>2, <2>1, AtIs
  <2>3. Field(L, P, section, key) = x
    BY <1>2, <1>10, <2>2 DEF Field, Child
  <2>4. Scalar(N, x, Blank) = value
    BY <1>1, <1>2, <1>3 DEF Scalar
  <2>5. Read(N, section, key) = Meaning(N, x)
    BY <1>1, <1>5, <2>3 DEF Read
  <2>6. QED
    BY <2>4, <2>5 DEF Meaning
<1>11. QED
  BY <1>9, <1>10

(* persistStorageEnabled and persistDecryptHttpsEnabled: the switch is read as it  *)
(* was set, and nothing else is read differently.                              *)
LEMMA SetScalarIs ==
  ASSUME NEW L \in Seq(Line), Tidy(L), NEW section \in Sections, NEW key \in EditedInPlace, NEW direct \in BOOLEAN,
         direct \/ key = "enable", NEW value \in Words, value # Blank,
         SetScalar(L, section, key, direct, value).ok
  PROVE  LET N == SetScalar(L, section, key, direct, value).lines
         IN /\ N \in Seq(Line) /\ Tidy(N)
            /\ \A s, k : s # section \/ k # key => Read(N, s, k) = Read(L, s, k)
            /\ Read(N, section, key).val = value
            /\ Rest(N) = Rest(L)
<1>0. Shape(L, 0) /\ \A i \in DOMAIN L : L[i].nl
  BY TidyIs
<1>1. PICK h : h = HeaderOf(L, section)
  OBVIOUS
<1>2. PICK e : e = SectionEnd(L, h)
  OBVIOUS
<1> DEFINE found == {i \in h + 1 .. e - 1 : IsKey(L[i], {key}) /\ (direct => L[i].ind = L[h].ind + 1)}
<1>3. SetScalar(L, section, key, direct, value)
        = IF h = 0 \/ found = {} THEN Refused ELSE Edited([L EXCEPT ![Min(found)].val = value])
  BY <1>1, <1>2 DEF SetScalar
<1> HIDE DEF found
<1>4. h # 0 /\ found # {}
  BY <1>3 DEF Refused
<1>5. /\ h \in Content(L) /\ h \in DOMAIN L /\ IsKey(L[h], Sections) /\ L[h].key = section /\ Bare(L[h]) /\ L[h].ind = 0
      /\ e \in h + 1 .. Len(L) + 1
      /\ \A i \in Content(L) : Parents(L)[i] = h <=> h < i /\ i < e /\ L[i].ind = 1
  BY <1>0, <1>1, <1>2, <1>4, SectionIs
<1>6. Len(L) \in Nat /\ DOMAIN L = 1 .. Len(L) /\ h \in Nat /\ e \in Nat
  BY <1>5, LinesOf
<1>7. PICK x : x = Min(found)
  OBVIOUS
<1>8. x \in found
  <2>1. found \in SUBSET Nat
    BY <1>6 DEF found
  <2>2. Least(found, 0) \in found
    BY <1>4, <2>1, LeastOf
  <2>3. QED
    BY <1>4, <1>7, <2>2 DEF Least
<1>9. x \in Content(L) /\ IsKey(L[x], {key}) /\ L[x].ind = 1 /\ h < x /\ x < e
  <2>1. x \in h + 1 .. e - 1 /\ IsKey(L[x], {key}) /\ (direct => L[x].ind = 0 + 1)
    BY <1>5, <1>8 DEF found
  <2>2. x \in DOMAIN L /\ h < x /\ x < e
    BY <1>5, <1>6, <2>1
  <2>3. x \in Content(L)
    BY <2>1, <2>2 DEF Content, IsKey, HasContent
  <2>4. key = "enable" => L[x].ind = 1
    BY <1>0, <2>1, <2>3 DEF Shape
  <2>5. direct => L[x].ind = 1
    BY <2>1
  <2>6. QED
    BY <2>1, <2>2, <2>3, <2>4, <2>5
<1>10. Parents(L)[x] = h
  BY <1>5, <1>9
<1>11. Parents(L)[h] = 0
  <2> SUFFICES ASSUME Parents(L)[h] # 0 PROVE FALSE
    OBVIOUS
  <2>1. L[h].ind = L[Parents(L)[h]].ind + 1 /\ Parents(L)[h] \in Content(L)
    BY <1>0, <1>5, ContentOf, ShapeOf
  <2>2. L[Parents(L)[h]].ind \in Nat
    BY <2>1, ContentOf
  <2>3. QED
    BY <1>5, <2>1, <2>2
<1>12. PICK N : N = [L EXCEPT ![x].val = value]
  OBVIOUS
<1>13. SetScalar(L, section, key, direct, value).lines = N
  BY <1>3, <1>4, <1>7, <1>12 DEF Edited
<1>14. L[x].key = key /\ IsKey(L[x], EditedInPlace)
  BY <1>9 DEF IsKey
<1>15. Rewrites(L, N, h, x, value)
  BY <1>0, <1>4, <1>5, <1>9, <1>10, <1>11, <1>12, <1>14 DEF Rewrites
<1>16. N \in Seq(Line)
  BY <1>15, RewrittenLines DEF SameButValue
<1>17. Tidy(N) /\ Rest(N) = Rest(L)
  BY <1>15, TidyRewritten, RestRewritten
<1>18. ASSUME NEW s, NEW k, s # section \/ k # key
       PROVE  Read(N, s, k) = Read(L, s, k)
  BY <1>5, <1>14, <1>15, <1>18, ReadRewritten
<1>19. At(L, Parents(L), 0, section) = h
  <2>1. IsKey(L[h], {section})
    BY <1>5 DEF IsKey
  <2>2. PICK p : p = 0
    OBVIOUS
  <2>3. Shape(L, 0)
    BY <1>0
  <2>4. \A j \in Content(L) : IsKey(L[j], {section}) /\ Parents(L)[j] = p => At(L, Parents(L), p, section) = j
    BY <2>3, AtIs
  <2>5. QED
    BY <1>5, <1>11, <2>1, <2>2, <2>4
<1>20. Read(N, section, key).val = value
  BY <1>5, <1>14, <1>15, <1>19, ReadRewritten
<1>21. QED
  BY <1>13, <1>16, <1>17, <1>18, <1>20

-----------------------------------------------------------------------------
(* The settings that are read from a text *)

Switch(val) == IF val = Blank THEN "false" ELSE val

AccessRead(L, section) ==
  NormalizeAccessControl(
    [mode     |-> Read(L, section, "access_control").mode,
     networks |-> Read(L, section, "access_control").networks],
    Switch(Read(L, section, "enable_remote_connection").val) = "true")

IsConf(c) ==
  c = [uri |-> c.uri, auth |-> c.auth, noProxy |-> c.noProxy, proxy |-> c.proxy, webui |-> c.webui,
       storage |-> c.storage, decrypt |-> c.decrypt, limit |-> c.limit, rules |-> c.rules]

LEMMA SwitchIs ==
  ASSUME NEW L, NEW f
  PROVE  Scalar(L, f, "false") = Switch(Scalar(L, f, Blank))
<1>1. Bare(L[f]) <=> L[f].val = Blank
  BY Zenon DEF Bare, Blank
<1>2. QED
  BY <1>1 DEF Scalar, Switch

LEMMA AccessIs ==
  ASSUME NEW L, NEW section
  PROVE  LoadAccess(L, Parents(L), section) = AccessRead(L, section)
<1> DEFINE P == Parents(L)
           block == Field(L, P, section, "access_control")
           items == ItemsBelow(L, P, Child(L, P, block, "networks"))
           flag == Field(L, P, section, "enable_remote_connection")
<1>1. LoadAccess(L, P, section)
        = NormalizeAccessControl([mode |-> Scalar(L, Child(L, P, block, "mode"), Blank), networks |-> Values(L, items)],
                                 Scalar(L, flag, "false") = "true")
  BY Zenon DEF LoadAccess, Blank
<1>2. Read(L, section, "access_control").mode = Scalar(L, Child(L, P, block, "mode"), Blank)
  BY DEF Read, Meaning
<1>3. Read(L, section, "access_control").networks = Values(L, items)
  BY DEF Read, Meaning
<1>4. Read(L, section, "enable_remote_connection").val = Scalar(L, flag, Blank)
  BY DEF Read, Meaning
<1>5. Scalar(L, flag, "false") = Switch(Read(L, section, "enable_remote_connection").val)
  BY <1>4, SwitchIs
<1> HIDE DEF block, items, flag, P
<1>6. QED
  BY <1>1, <1>2, <1>3, <1>5, Zenon DEF AccessRead, P

LEMMA LoadIs ==
  ASSUME NEW L
  PROVE  Load(L) = [uri     |-> Read(L, "proxy", "output_proxy_uri").val,
                    auth    |-> Switch(Read(L, "proxy", "add_windows_authentication").val),
                    noProxy |-> Read(L, "proxy", "no_proxy").vals,
                    proxy   |-> AccessRead(L, "proxy"),
                    webui   |-> AccessRead(L, "webui"),
                    storage |-> Switch(Read(L, "storage", "enable").val),
                    decrypt |-> Switch(Read(L, "decrypt_https", "enabled").val),
                    limit   |-> Read(L, "decrypt_https", "default_max_bytes").val,
                    rules   |-> Read(L, "decrypt_https", "mime_types").rules]
<1> DEFINE P == Parents(L)
           V(section, key) == Scalar(L, Field(L, P, section, key), Blank)
           W(section, key) == Scalar(L, Field(L, P, section, key), "false")
<1>1. Load(L) = [uri     |-> V("proxy", "output_proxy_uri"),
                 auth    |-> W("proxy", "add_windows_authentication"),
                 noProxy |-> Values(L, ItemsBelow(L, P, Field(L, P, "proxy", "no_proxy"))),
                 proxy   |-> LoadAccess(L, P, "proxy"),
                 webui   |-> LoadAccess(L, P, "webui"),
                 storage |-> W("storage", "enable"),
                 decrypt |-> W("decrypt_https", "enabled"),
                 limit   |-> V("decrypt_https", "default_max_bytes"),
                 rules   |-> LoadRules(L, P)]
  BY Zenon DEF Load, Blank
<1>2. ASSUME NEW section, NEW key
      PROVE  /\ V(section, key) = Read(L, section, key).val
             /\ W(section, key) = Switch(Read(L, section, key).val)
  <2>1. V(section, key) = Read(L, section, key).val
    BY DEF Read, Meaning
  <2>2. W(section, key) = Switch(V(section, key))
    BY SwitchIs
  <2> HIDE DEF V, W
  <2>3. QED
    BY <2>1, <2>2
<1>3. Values(L, ItemsBelow(L, P, Field(L, P, "proxy", "no_proxy"))) = Read(L, "proxy", "no_proxy").vals
  BY DEF Read, Meaning
<1>4. LoadRules(L, P) = Read(L, "decrypt_https", "mime_types").rules
  <2> DEFINE items == ItemsBelow(L, P, Field(L, P, "decrypt_https", "mime_types"))
  <2>1. LoadRules(L, P) = [k \in DOMAIN items |->
          [name |-> L[items[k]].val, size |-> Scalar(L, Child(L, P, items[k], "max_size"), Blank)]]
    BY Zenon DEF LoadRules, Blank
  <2>2. QED
    BY <2>1 DEF Read, Meaning
<1>5. LoadAccess(L, P, "proxy") = AccessRead(L, "proxy") /\ LoadAccess(L, P, "webui") = AccessRead(L, "webui")
  BY AccessIs
<1> HIDE DEF P, V, W
<1>6. QED
  BY <1>1, <1>2, <1>3, <1>4, <1>5

(* Normalized access control is not normalized further. *)
LEMMA CleanOnce ==
  ASSUME NEW networks
  PROVE  CleanNetworks(CleanNetworks(networks)) = CleanNetworks(networks)
<1>1. \A e : CleanEntry(CleanEntry(e)) = CleanEntry(e)
  BY DEF CleanEntry
<1>2. QED
  BY <1>1 DEF CleanNetworks

LEMMA NormalIs ==
  ASSUME NEW access, NEW remote
  PROVE  /\ NormalizeAccessControl(NormalizeAccessControl(access, remote), FALSE)
              = NormalizeAccessControl(access, remote)
         /\ NormalizeAccessControl(access, remote).networks = CleanNetworks(access.networks)
         /\ access.mode # Blank => NormalizeAccessControl(access, remote).mode = access.mode
<1>1. \A a, r : NormalizeAccessControl(a, r) =
        [mode |-> IF a.mode # Blank THEN a.mode ELSE IF r THEN "open" ELSE "loopback",
         networks |-> CleanNetworks(a.networks)]
  BY Zenon DEF NormalizeAccessControl, Blank
<1>2. "open" # Blank /\ "loopback" # Blank
  BY Zenon DEF Blank
<1>3. PICK n : n = NormalizeAccessControl(access, remote)
  OBVIOUS
<1>4. n.networks = CleanNetworks(access.networks) /\ n.mode # Blank /\ (access.mode # Blank => n.mode = access.mode)
      /\ n = [mode |-> n.mode, networks |-> CleanNetworks(access.networks)]
  BY <1>1, <1>2, <1>3
<1>5. NormalizeAccessControl(n, FALSE) = [mode |-> n.mode, networks |-> CleanNetworks(n.networks)]
  BY <1>1, <1>4
<1>6. NormalizeAccessControl(n, FALSE) = n
  BY <1>4, <1>5, CleanOnce
<1>7. QED
  BY <1>3, <1>4, <1>6

(* c is what the program reads back of the settings d. *)
Agrees(c, d) ==
  /\ IsConf(c) /\ IsConf(d)
  /\ c.uri = d.uri /\ c.auth = d.auth /\ c.noProxy = d.noProxy
  /\ c.proxy = NormalizeAccessControl(d.proxy, FALSE) /\ c.webui = NormalizeAccessControl(d.webui, FALSE)
  /\ c.storage = d.storage /\ c.decrypt = d.decrypt /\ c.limit = d.limit /\ c.rules = d.rules

LEMMA LoadAgrees ==
  ASSUME NEW L
  PROVE  IsConf(Load(L)) /\ Agrees(Load(L), Load(L))
<1>1. IsConf(Load(L)) /\ Load(L).proxy = AccessRead(L, "proxy") /\ Load(L).webui = AccessRead(L, "webui")
  BY LoadIs DEF IsConf
<1>2. \A section : NormalizeAccessControl(AccessRead(L, section), FALSE) = AccessRead(L, section)
  BY NormalIs DEF AccessRead
<1>3. QED
  BY <1>1, <1>2 DEF Agrees

LEMMA ApplyIs ==
  ASSUME NEW c, IsConf(c), NEW s, s.set \in {"storage", "decrypt", "rules", "upstream", "access"}
  PROVE  /\ IsConf(Apply(c, s))
         /\ Apply(c, s).storage = IF s.set = "storage" THEN s.enabled ELSE c.storage
         /\ Apply(c, s).decrypt = IF s.set = "decrypt" THEN s.enabled ELSE c.decrypt
         /\ Apply(c, s).rules = IF s.set = "rules" THEN s.rules ELSE c.rules
         /\ Apply(c, s).limit = IF s.set = "rules" THEN s.limit ELSE c.limit
         /\ Apply(c, s).uri = IF s.set = "upstream" THEN s.uri ELSE c.uri
         /\ Apply(c, s).auth = IF s.set = "upstream" THEN s.auth ELSE c.auth
         /\ Apply(c, s).noProxy = IF s.set = "upstream" THEN s.noProxy ELSE c.noProxy
         /\ Apply(c, s).proxy = IF s.set = "access" THEN s.proxy ELSE c.proxy
         /\ Apply(c, s).webui = IF s.set = "access" THEN s.webui ELSE c.webui
<1>1. CASE s.set = "storage"
  <2>1. Apply(c, s) = [c EXCEPT !.storage = s.enabled]
    BY <1>1 DEF Apply
  <2>2. QED
    BY <1>1, <2>1 DEF IsConf
<1>2. CASE s.set = "decrypt"
  <2>1. Apply(c, s) = [c EXCEPT !.decrypt = s.enabled]
    BY <1>2 DEF Apply
  <2>2. QED
    BY <1>2, <2>1 DEF IsConf
<1>3. CASE s.set = "rules"
  <2>1. Apply(c, s) = [c EXCEPT !.rules = s.rules, !.limit = s.limit]
    BY <1>3 DEF Apply
  <2>2. QED
    BY <1>3, <2>1 DEF IsConf
<1>4. CASE s.set = "upstream"
  <2>1. Apply(c, s) = [c EXCEPT !.uri = s.uri, !.auth = s.auth, !.noProxy = s.noProxy]
    BY <1>4 DEF Apply
  <2>2. QED
    BY <1>4, <2>1 DEF IsConf
<1>5. CASE s.set = "access"
  <2>1. Apply(c, s) = [c EXCEPT !.proxy = s.proxy, !.webui = s.webui]
    BY <1>5 DEF Apply
  <2>2. QED
    BY <1>5, <2>1 DEF IsConf
<1>6. QED
  BY <1>1, <1>2, <1>3, <1>4, <1>5

-----------------------------------------------------------------------------
(* The edits that replace settings *)

Keeps(L, N) == N \in Seq(Line) /\ Tidy(N) /\ Rest(N) = Rest(L)
SameElsewhere(L, N, section, keys) ==
  \A s, k : s # section \/ k \notin keys => Read(N, s, k) = Read(L, s, k)

(* N is L without these keys of a section. *)
Dropped(L, N, section, keys) ==
  /\ Keeps(L, N) /\ SameElsewhere(L, N, section, keys)
  /\ HeaderOf(N, section) # 0 => \A key \in keys : ~Read(N, section, key).found

LEMMA DroppedNone ==
  ASSUME NEW L \in Seq(Line), Tidy(L), NEW section
  PROVE  Dropped(L, L, section, {})
  BY DEF Dropped, Keeps, SameElsewhere

LEMMA DroppedOneMore ==
  ASSUME NEW L, NEW M, NEW section \in Sections, NEW keys, Dropped(L, M, section, keys),
         NEW key \in SettingKeys(section)
  PROVE  Dropped(L, Without(M, section, key), section, keys \cup {key})
<1>1. PICK N : N = Without(M, section, key)
  OBVIOUS
<1>2. M \in Seq(Line) /\ Tidy(M) /\ Rest(M) = Rest(L) /\ SameElsewhere(L, M, section, keys)
      /\ (HeaderOf(M, section) # 0 => \A k \in keys : ~Read(M, section, k).found)
  BY DEF Dropped, Keeps
<1>3. /\ N \in Seq(Line) /\ Tidy(N)
      /\ \A s, k : s # section \/ k # key => Read(N, s, k) = Read(M, s, k)
      /\ HeaderOf(N, section) # 0 => ~Read(N, section, key).found
      /\ Rest(N) = Rest(M)
  BY <1>1, <1>2, WithoutIs
<1>4. Keeps(L, N)
  BY <1>2, <1>3 DEF Keeps
<1>5. SameElsewhere(L, N, section, keys \cup {key})
  BY <1>2, <1>3 DEF SameElsewhere
<1>6. HeaderOf(M, section) = 0 => N = M
  BY <1>1 DEF Without
<1>7. ASSUME HeaderOf(N, section) # 0, NEW k \in keys \cup {key}
      PROVE  ~Read(N, section, k).found
  <2>1. HeaderOf(M, section) # 0
    BY <1>6, <1>7
  <2>2. QED
    BY <1>2, <1>3, <1>7, <2>1
<1>8. QED
  BY <1>1, <1>4, <1>5, <1>7 DEF Dropped

(* N is L with these lines for these keys of a section. *)
Replaced(L, N, section, keys, R) ==
  /\ Keeps(L, N) /\ SameElsewhere(L, N, section, keys)
  /\ \A k \in DOMAIN R : Parents(R)[k] = 0 => Read(N, section, R[k].key) = Meaning(R, k)
  /\ \A key \in keys : (\E k \in DOMAIN R : Parents(R)[k] = 0 /\ R[k].key = key) \/ ~Read(N, section, key).found

LEMMA ReplacedIs ==
  ASSUME NEW L, NEW M, NEW section \in Sections, NEW keys, Dropped(L, M, section, keys),
         keys \subseteq SettingKeys(section),
         NEW R, Block(R), \A k \in DOMAIN R : Parents(R)[k] = 0 => R[k].key \in keys,
         AddTo(M, section, R).ok
  PROVE  Replaced(L, AddTo(M, section, R).lines, section, keys, R)
<1>1. PICK N : N = AddTo(M, section, R).lines
  OBVIOUS
<1>2. M \in Seq(Line) /\ Tidy(M) /\ Rest(M) = Rest(L) /\ SameElsewhere(L, M, section, keys)
      /\ (HeaderOf(M, section) # 0 => \A k \in keys : ~Read(M, section, k).found)
  BY DEF Dropped, Keeps
<1>3. HeaderOf(M, section) # 0
  BY DEF AddTo, Refused
<1>4. R \in Seq(Line) /\ Shape(R, 1) /\ \A k \in DOMAIN R : HasContent(R[k]) /\ R[k].nl
  BY DEF Block
<1>5. \A k \in DOMAIN R : Parents(R)[k] = 0 =>
        R[k].key \in SettingKeys(section) /\ ~Read(M, section, R[k].key).found
  BY <1>2, <1>3
<1>6. /\ N \in Seq(Line) /\ Tidy(N)
      /\ \A s, key : s # section \/ ~ (\E k \in DOMAIN R : Parents(R)[k] = 0 /\ R[k].key = key)
                       => Read(N, s, key) = Read(M, s, key)
      /\ \A k \in DOMAIN R : Parents(R)[k] = 0 => Read(N, section, R[k].key) = Meaning(R, k)
      /\ Rest(N) = Rest(M)
  BY <1>1, <1>2, <1>3, <1>4, <1>5, AddIs
<1>7. Keeps(L, N)
  BY <1>2, <1>6 DEF Keeps
<1>8. SameElsewhere(L, N, section, keys)
  <2> SUFFICES ASSUME NEW s, NEW key, s # section \/ key \notin keys
               PROVE  Read(N, s, key) = Read(L, s, key)
    BY DEF SameElsewhere
  <2>1. Read(N, s, key) = Read(M, s, key)
    BY <1>6
  <2>2. Read(M, s, key) = Read(L, s, key)
    BY <1>2 DEF SameElsewhere
  <2>3. QED
    BY <2>1, <2>2
<1>9. \A key \in keys : (\E k \in DOMAIN R : Parents(R)[k] = 0 /\ R[k].key = key) \/ ~Read(N, section, key).found
  BY <1>2, <1>3, <1>6
<1>10. QED
  BY <1>1, <1>6, <1>7, <1>8, <1>9 DEF Replaced

LEMMA NotFound ==
  ASSUME NEW L, NEW section, NEW key, ~Read(L, section, key).found
  PROVE  Read(L, section, key) = Nothing
<1>1. PICK f : f = Field(L, Parents(L), section, key)
  OBVIOUS
<1>2. Read(L, section, key) = Meaning(L, f)
  BY <1>1 DEF Read
<1>3. Meaning(L, f).found <=> f # 0
  BY DEF Meaning
<1>4. QED
  BY <1>2, <1>3, MeaningOfNone

LEMMA UpstreamRequestsAre ==
  ASSUME NEW s \in UpstreamRequests
  PROVE  /\ s.set = "upstream" /\ s.uri \in Words /\ s.auth \in Words /\ s.noProxy \in Seq(Words)
         /\ s.auth = Switch(s.auth)
<1>1. \/ s = [set |-> "upstream", uri |-> Blank, auth |-> "false", noProxy |-> <<>>]
      \/ s = [set |-> "upstream", uri |-> "http://gw", auth |-> "true", noProxy |-> <<"10/8", ".corp">>]
  BY Zenon DEF UpstreamRequests, Blank
<1>2. "http://gw" \in Words /\ "10/8" \in Words /\ ".corp" \in Words
  BY SpokenWords DEF TypedWords
<1>3. "true" \in Words /\ "false" \in Words /\ Blank \in Words
  BY SpokenWords
<1>4. "true" # Blank /\ "false" # Blank
  BY Zenon DEF Blank
<1>5. CASE s = [set |-> "upstream", uri |-> Blank, auth |-> "false", noProxy |-> <<>>]
  <2>0. <<>> \in Seq(Words)
    OBVIOUS
  <2>1. PICK none \in Seq(Words) : none = <<>>
    BY <2>0, Zenon
  <2>2. s = [set |-> "upstream", uri |-> Blank, auth |-> "false", noProxy |-> none]
    BY <1>5, <2>1
  <2>3. QED
    BY <1>3, <1>4, <2>2 DEF Switch
<1>6. CASE s = [set |-> "upstream", uri |-> "http://gw", auth |-> "true", noProxy |-> <<"10/8", ".corp">>]
  <2>0. <<"10/8", ".corp">> \in Seq(Words)
    BY <1>2
  <2>1. PICK hosts \in Seq(Words) : hosts = <<"10/8", ".corp">>
    BY <2>0, Zenon
  <2>2. s = [set |-> "upstream", uri |-> "http://gw", auth |-> "true", noProxy |-> hosts]
    BY <1>6, <2>1
  <2>3. QED
    BY <1>2, <1>3, <1>4, <2>2 DEF Switch
<1>7. QED
  BY <1>1, <1>5, <1>6

UpstreamKeys == {"output_proxy_uri", "add_windows_authentication", "no_proxy"}

LEMMA UpstreamIs ==
  ASSUME NEW L \in Seq(Line), Tidy(L), NEW s \in UpstreamRequests, EditUpstream(L, s).ok
  PROVE  LET N == EditUpstream(L, s).lines
         IN /\ Keeps(L, N) /\ SameElsewhere(L, N, "proxy", UpstreamKeys)
            /\ Read(N, "proxy", "output_proxy_uri").val = s.uri
            /\ Read(N, "proxy", "add_windows_authentication").val = s.auth
            /\ Read(N, "proxy", "no_proxy").vals = s.noProxy
<1>1. PICK M1 : M1 = Without(L, "proxy", "output_proxy_uri")
  OBVIOUS
<1>2. PICK M2 : M2 = Without(M1, "proxy", "add_windows_authentication")
  OBVIOUS
<1>3. PICK M : M = Without(M2, "proxy", "no_proxy")
  OBVIOUS
<1>4. "proxy" \in Sections /\ UpstreamKeys \subseteq SettingKeys("proxy")
  BY DEF Sections, SettingKeys, UpstreamKeys
<1>5. Dropped(L, L, "proxy", {})
  BY DroppedNone
<1>6. Dropped(L, M1, "proxy", {} \cup {"output_proxy_uri"})
  BY <1>1, <1>4, <1>5, DroppedOneMore DEF UpstreamKeys
<1>7. Dropped(L, M2, "proxy", ({} \cup {"output_proxy_uri"}) \cup {"add_windows_authentication"})
  BY <1>2, <1>4, <1>6, DroppedOneMore DEF UpstreamKeys
<1>8. Dropped(L, M, "proxy", (({} \cup {"output_proxy_uri"}) \cup {"add_windows_authentication"}) \cup {"no_proxy"})
  BY <1>3, <1>4, <1>7, DroppedOneMore DEF UpstreamKeys
<1>9. (({} \cup {"output_proxy_uri"}) \cup {"add_windows_authentication"}) \cup {"no_proxy"} = UpstreamKeys
  BY DEF UpstreamKeys
<1>10. PICK R : R = RenderUpstream(1, s)
  OBVIOUS
<1>11. WithoutUpstream(L) = M
  BY <1>1, <1>2, <1>3 DEF WithoutUpstream
<1>12. EditUpstream(L, s) = AddTo(M, "proxy", R)
  BY <1>10, <1>11 DEF EditUpstream
<1>13. s.uri \in Words /\ s.auth \in Words /\ s.noProxy \in Seq(Words)
  BY UpstreamRequestsAre
<1>14. /\ Block(R)
       /\ 1 \in DOMAIN R /\ 2 \in DOMAIN R /\ 3 \in DOMAIN R
       /\ \A k \in DOMAIN R : Parents(R)[k] = 0 <=> k \in {1, 2, 3}
       /\ R[1].key = "output_proxy_uri" /\ R[2].key = "add_windows_authentication" /\ R[3].key = "no_proxy"
       /\ Meaning(R, 1).val = s.uri /\ Meaning(R, 2).val = s.auth /\ Meaning(R, 3).vals = s.noProxy
  BY <1>10, <1>13, UpstreamBlock
<1>15. \A k \in DOMAIN R : Parents(R)[k] = 0 => R[k].key \in UpstreamKeys
  BY <1>14 DEF UpstreamKeys
<1>16. PICK N : N = EditUpstream(L, s).lines
  OBVIOUS
<1>17. Dropped(L, M, "proxy", UpstreamKeys)
  BY <1>8, <1>9
<1>18. Replaced(L, N, "proxy", UpstreamKeys, R)
  BY <1>4, <1>12, <1>14, <1>15, <1>16, <1>17, ReplacedIs
<1>19. /\ Keeps(L, N) /\ SameElsewhere(L, N, "proxy", UpstreamKeys)
       /\ \A k \in DOMAIN R : Parents(R)[k] = 0 => Read(N, "proxy", R[k].key) = Meaning(R, k)
  BY <1>18 DEF Replaced
<1>20. /\ Read(N, "proxy", "output_proxy_uri") = Meaning(R, 1)
       /\ Read(N, "proxy", "add_windows_authentication") = Meaning(R, 2)
       /\ Read(N, "proxy", "no_proxy") = Meaning(R, 3)
  BY <1>14, <1>19
<1>21. QED
  BY <1>14, <1>16, <1>19, <1>20

RulesKeys == {"default_max_bytes", "mime_types"}

LEMMA RulesIs ==
  ASSUME NEW L \in Seq(Line), Tidy(L), NEW s \in RulesRequests, EditRules(L, s).ok
  PROVE  LET N == EditRules(L, s).lines
         IN /\ Keeps(L, N) /\ SameElsewhere(L, N, "decrypt_https", RulesKeys)
            /\ Read(N, "decrypt_https", "default_max_bytes").val = s.limit
            /\ Read(N, "decrypt_https", "mime_types").rules = s.rules
<1>1. PICK M1 : M1 = Without(L, "decrypt_https", "default_max_bytes")
  OBVIOUS
<1>2. PICK M : M = Without(M1, "decrypt_https", "mime_types")
  OBVIOUS
<1>4. "decrypt_https" \in Sections /\ RulesKeys \subseteq SettingKeys("decrypt_https")
  BY DEF Sections, SettingKeys, RulesKeys
<1>5. Dropped(L, L, "decrypt_https", {})
  BY DroppedNone
<1>6. Dropped(L, M1, "decrypt_https", {} \cup {"default_max_bytes"})
  BY <1>1, <1>4, <1>5, DroppedOneMore DEF RulesKeys
<1>7. Dropped(L, M, "decrypt_https", ({} \cup {"default_max_bytes"}) \cup {"mime_types"})
  BY <1>2, <1>4, <1>6, DroppedOneMore DEF RulesKeys
<1>9. ({} \cup {"default_max_bytes"}) \cup {"mime_types"} = RulesKeys
  BY DEF RulesKeys
<1>10. PICK R : R = RenderRules(1, s)
  OBVIOUS
<1>11. WithoutRules(L) = M
  BY <1>1, <1>2 DEF WithoutRules
<1>12. EditRules(L, s) = AddTo(M, "decrypt_https", R)
  BY <1>10, <1>11 DEF EditRules
<1>13. IsRulesBlock(R, s.limit, s.rules)
  BY <1>10, RulesBlock
<1>14. /\ Block(R)
       /\ \A k \in DOMAIN R : Parents(R)[k] = 0 => R[k].key \in RulesKeys
       /\ \E k \in DOMAIN R : Parents(R)[k] = 0 /\ R[k].key = "mime_types" /\ Meaning(R, k).rules = s.rules
       /\ s.limit # Blank => \E k \in DOMAIN R : /\ Parents(R)[k] = 0 /\ R[k].key = "default_max_bytes"
                                                 /\ Meaning(R, k).val = s.limit
       /\ s.limit = Blank => ~ \E k \in DOMAIN R : Parents(R)[k] = 0 /\ R[k].key = "default_max_bytes"
  BY <1>13 DEF IsRulesBlock, RulesKeys
<1>16. PICK N : N = EditRules(L, s).lines
  OBVIOUS
<1>17. Dropped(L, M, "decrypt_https", RulesKeys)
  BY <1>7, <1>9
<1>18. Replaced(L, N, "decrypt_https", RulesKeys, R)
  BY <1>4, <1>12, <1>14, <1>16, <1>17, ReplacedIs
<1>19. /\ Keeps(L, N) /\ SameElsewhere(L, N, "decrypt_https", RulesKeys)
       /\ \A k \in DOMAIN R : Parents(R)[k] = 0 => Read(N, "decrypt_https", R[k].key) = Meaning(R, k)
       /\ \A key \in RulesKeys : (\E k \in DOMAIN R : Parents(R)[k] = 0 /\ R[k].key = key)
                                 \/ ~Read(N, "decrypt_https", key).found
  BY <1>18 DEF Replaced
<1>20. Read(N, "decrypt_https", "mime_types").rules = s.rules
  BY <1>14, <1>19
<1>21. CASE s.limit # Blank
  <2>1. Read(N, "decrypt_https", "default_max_bytes").val = s.limit
    BY <1>14, <1>19, <1>21
  <2>2. QED
    BY <1>16, <1>19, <1>20, <2>1
<1>22. CASE s.limit = Blank
  <2>1. ~Read(N, "decrypt_https", "default_max_bytes").found
    BY <1>14, <1>19, <1>22 DEF RulesKeys
  <2>2. Read(N, "decrypt_https", "default_max_bytes") = Nothing
    BY <2>1, NotFound
  <2>3. Read(N, "decrypt_https", "default_max_bytes").val = s.limit
    BY <1>22, <2>2 DEF Nothing
  <2>4. QED
    BY <1>16, <1>19, <1>20, <2>3
<1>23. QED
  BY <1>21, <1>22

LEMMA ModesAreWords ==
  ASSUME NEW mode \in Modes
  PROVE  mode \in Words /\ mode # Blank
<1>1. mode # Blank
  BY Zenon DEF Modes, Blank
<1>2. QED
  BY <1>1, SpokenWords

LEMMA CleanWords ==
  ASSUME NEW networks \in Seq(Words)
  PROVE  CleanNetworks(networks) \in Seq(Words)
<1>1. "one/32" \in Words /\ "six/128" \in Words /\ "mapped/128" \in Words
  BY SpokenWords DEF TypedWords, Entries
<1>2. \A i \in DOMAIN networks : CleanEntry(networks[i]) \in Words
  BY <1>1 DEF CleanEntry
<1>3. QED
  BY <1>2 DEF CleanNetworks

(* Access control as it was typed. *)
IsTyped(access) ==
  /\ access.mode \in Modes /\ access.networks \in Seq(Words)
  /\ access = [mode |-> access.mode, networks |-> access.networks]

LEMMA NormalOfTyped ==
  ASSUME NEW access, IsTyped(access)
  PROVE  /\ NormalizeAccessControl(access, FALSE) = [mode |-> access.mode, networks |-> CleanNetworks(access.networks)]
         /\ IsTyped(NormalizeAccessControl(access, FALSE))
         /\ ValidateAccessControl(access).access = NormalizeAccessControl(access, FALSE)
<1>1. access.mode # Blank /\ access.mode \in Modes /\ access.networks \in Seq(Words)
      /\ access = [mode |-> access.mode, networks |-> access.networks]
  BY ModesAreWords DEF IsTyped
<1>2. NormalizeAccessControl(access, FALSE)
        = [mode |-> IF access.mode # Blank THEN access.mode ELSE IF FALSE THEN "open" ELSE "loopback",
           networks |-> CleanNetworks(access.networks)]
  BY Zenon DEF NormalizeAccessControl, Blank
<1>3. NormalizeAccessControl(access, FALSE) = [mode |-> access.mode, networks |-> CleanNetworks(access.networks)]
  BY <1>1, <1>2
<1>4. CleanNetworks(access.networks) \in Seq(Words)
  BY <1>1, CleanWords
<1>5. ValidateAccessControl(access).access = [access EXCEPT !.networks = CleanNetworks(access.networks)]
  BY DEF ValidateAccessControl
<1>6. [access EXCEPT !.networks = CleanNetworks(access.networks)]
        = [mode |-> access.mode, networks |-> CleanNetworks(access.networks)]
  BY <1>1
<1>7. QED
  BY <1>1, <1>3, <1>4, <1>5, <1>6 DEF IsTyped

AccessKeys == {"enable_remote_connection", "access_control"}

EditSection(L, section, access) == AddTo(WithoutAccess(L, section), section, RenderAccess(1, access))

LEMMA SectionEditIs ==
  ASSUME NEW L \in Seq(Line), Tidy(L), NEW section \in {"proxy", "webui"}, NEW access, IsTyped(access),
         EditSection(L, section, access).ok
  PROVE  LET N == EditSection(L, section, access).lines
         IN /\ Keeps(L, N) /\ SameElsewhere(L, N, section, AccessKeys)
            /\ AccessRead(N, section) = NormalizeAccessControl(access, FALSE)
<1>1. PICK M1 : M1 = Without(L, section, "enable_remote_connection")
  OBVIOUS
<1>2. PICK M : M = Without(M1, section, "access_control")
  OBVIOUS
<1>4. section \in Sections /\ AccessKeys \subseteq SettingKeys(section)
  BY DEF Sections, SettingKeys, AccessKeys
<1>5. Dropped(L, L, section, {})
  BY DroppedNone
<1>6. Dropped(L, M1, section, {} \cup {"enable_remote_connection"})
  BY <1>1, <1>4, <1>5, DroppedOneMore DEF AccessKeys
<1>7. Dropped(L, M, section, ({} \cup {"enable_remote_connection"}) \cup {"access_control"})
  BY <1>2, <1>4, <1>6, DroppedOneMore DEF AccessKeys
<1>9. ({} \cup {"enable_remote_connection"}) \cup {"access_control"} = AccessKeys
  BY DEF AccessKeys
<1>10. PICK R : R = RenderAccess(1, access)
  OBVIOUS
<1>11. WithoutAccess(L, section) = M
  BY <1>1, <1>2 DEF WithoutAccess
<1>12. EditSection(L, section, access) = AddTo(M, section, R)
  BY <1>10, <1>11 DEF EditSection
<1>13. access.mode \in Modes /\ access.mode \in Words /\ access.mode # Blank /\ access.networks \in Seq(Words)
       /\ access = [mode |-> access.mode, networks |-> access.networks]
  BY ModesAreWords DEF IsTyped
<1>14. /\ Block(R) /\ 1 \in DOMAIN R
       /\ \A k \in DOMAIN R : Parents(R)[k] = 0 <=> k = 1
       /\ R[1].key = "access_control"
       /\ Meaning(R, 1).mode = access.mode /\ Meaning(R, 1).networks = access.networks
  BY <1>10, <1>13, AccessBlock
<1>15. \A k \in DOMAIN R : Parents(R)[k] = 0 => R[k].key \in AccessKeys
  BY <1>14 DEF AccessKeys
<1>16. PICK N : N = EditSection(L, section, access).lines
  OBVIOUS
<1>17. Dropped(L, M, section, AccessKeys)
  BY <1>7, <1>9
<1>18. Replaced(L, N, section, AccessKeys, R)
  BY <1>4, <1>12, <1>14, <1>15, <1>16, <1>17, ReplacedIs
<1>19. /\ Keeps(L, N) /\ SameElsewhere(L, N, section, AccessKeys)
       /\ \A k \in DOMAIN R : Parents(R)[k] = 0 => Read(N, section, R[k].key) = Meaning(R, k)
  BY <1>18 DEF Replaced
<1>20. Read(N, section, "access_control") = Meaning(R, 1)
  BY <1>14, <1>19
<1>21. PICK read : read = [mode |-> Read(N, section, "access_control").mode,
                           networks |-> Read(N, section, "access_control").networks]
  OBVIOUS
<1>22. read = access
  BY <1>13, <1>14, <1>20, <1>21
<1>23. PICK remote : remote = (Switch(Read(N, section, "enable_remote_connection").val) = "true")
  OBVIOUS
<1>24. AccessRead(N, section) = NormalizeAccessControl(read, remote)
  BY <1>21, <1>23, Zenon DEF AccessRead
<1>25. NormalizeAccessControl(access, remote) = NormalizeAccessControl(access, FALSE)
  BY <1>13, Zenon DEF NormalizeAccessControl, Blank
<1>26. QED
  BY <1>16, <1>19, <1>22, <1>24, <1>25

LEMMA AccessElsewhere ==
  ASSUME NEW L, NEW N, NEW section, NEW keys, SameElsewhere(L, N, section, keys),
         NEW other, other # section \/ AccessKeys \cap keys = {}
  PROVE  AccessRead(N, other) = AccessRead(L, other)
<1>1. Read(N, other, "access_control") = Read(L, other, "access_control")
  BY DEF SameElsewhere, AccessKeys
<1>2. Read(N, other, "enable_remote_connection") = Read(L, other, "enable_remote_connection")
  BY DEF SameElsewhere, AccessKeys
<1>3. QED
  BY <1>1, <1>2, Zenon DEF AccessRead

LEMMA AccessRequestsAre ==
  ASSUME NEW s \in AccessRequests
  PROVE  s.set = "access" /\ IsTyped(s.proxy) /\ IsTyped(s.webui)
         /\ s = [set |-> s.set, proxy |-> s.proxy, webui |-> s.webui]
<1>1. s.set = "access" /\ s.proxy \in AccessTyped /\ s.webui = [mode |-> "open", networks |-> <<>>]
      /\ s = [set |-> s.set, proxy |-> s.proxy, webui |-> s.webui]
  BY DEF AccessRequests
<1>2. "one" \in Words /\ "six" \in Words /\ "mapped" \in Words /\ "one/32" \in Words /\ "junk" \in Words
  BY SpokenWords DEF TypedWords, Entries
<1>3. <<>> \in Seq(Words) /\ <<"one", "six", "mapped">> \in Seq(Words) /\ <<"one/32", "junk">> \in Seq(Words)
  BY <1>2
<1>4. PICK none, one, two : none = <<>> /\ one = <<"one", "six", "mapped">> /\ two = <<"one/32", "junk">>
  OBVIOUS
<1>5. none \in Seq(Words) /\ one \in Seq(Words) /\ two \in Seq(Words)
  BY <1>3, <1>4
<1>6. \A access : access \in AccessTyped =>
        \/ access = [mode |-> "loopback", networks |-> none] \/ access = [mode |-> "interfaces", networks |-> none]
        \/ access = [mode |-> "allowlist", networks |-> one] \/ access = [mode |-> "lan", networks |-> two]
  BY <1>4, Zenon DEF AccessTyped
<1>7. \A mode \in Modes, networks \in Seq(Words) : IsTyped([mode |-> mode, networks |-> networks])
  BY DEF IsTyped
<1>8. IsTyped(s.webui)
  BY <1>1, <1>4, <1>5, <1>7 DEF Modes
<1>9. IsTyped(s.proxy)
  BY <1>1, <1>5, <1>6, <1>7 DEF Modes
<1>10. QED
  BY <1>1, <1>8, <1>9

AccessSetTo(L, N, proxy, webui) ==
  /\ Keeps(L, N)
  /\ \A section, key : key \notin AccessKeys => Read(N, section, key) = Read(L, section, key)
  /\ AccessRead(N, "proxy") = NormalizeAccessControl(proxy, FALSE)
  /\ AccessRead(N, "webui") = NormalizeAccessControl(webui, FALSE)

LEMMA AccessEditIs ==
  ASSUME NEW L \in Seq(Line), Tidy(L), NEW s, IsTyped(s.proxy), IsTyped(s.webui),
         NEW edit, edit = EditAccess(L, s), edit.ok
  PROVE  AccessSetTo(L, edit.lines, s.proxy, s.webui)
<1>1. PICK proxy : proxy = EditSection(L, "proxy", s.proxy)
  OBVIOUS
<1>2. PICK M : M = proxy.lines
  OBVIOUS
<1>3. PICK web : web = EditSection(M, "webui", s.webui)
  OBVIOUS
<1>4. EditAccess(L, s) = IF proxy.ok THEN web ELSE Refused
  BY <1>1, <1>2, <1>3 DEF EditAccess, EditSection
<1>5. proxy.ok /\ EditAccess(L, s) = web
  BY <1>4 DEF Refused
<1>6. /\ Keeps(L, M) /\ SameElsewhere(L, M, "proxy", AccessKeys)
      /\ AccessRead(M, "proxy") = NormalizeAccessControl(s.proxy, FALSE)
  BY <1>1, <1>2, <1>5, SectionEditIs
<1>7. M \in Seq(Line) /\ Tidy(M) /\ Rest(M) = Rest(L)
  BY <1>6 DEF Keeps
<1>8. PICK N : N = web.lines
  OBVIOUS
<1>9. /\ Keeps(M, N) /\ SameElsewhere(M, N, "webui", AccessKeys)
      /\ AccessRead(N, "webui") = NormalizeAccessControl(s.webui, FALSE)
  BY <1>3, <1>5, <1>7, <1>8, SectionEditIs
<1>10. Keeps(L, N)
  BY <1>7, <1>9 DEF Keeps
<1>11. AccessRead(N, "proxy") = AccessRead(M, "proxy")
  BY <1>9, AccessElsewhere
<1>12. \A section, key : key \notin AccessKeys => Read(N, section, key) = Read(L, section, key)
  BY <1>6, <1>9 DEF SameElsewhere
<1>13. edit.lines = N
  BY <1>5, <1>8
<1>14. QED
  BY <1>6, <1>9, <1>10, <1>11, <1>12, <1>13 DEF AccessSetTo

LEMMA SwitchRequestsAre ==
  ASSUME NEW s \in SwitchRequests
  PROVE  /\ s.set \in {"storage", "decrypt"}
         /\ s.enabled \in Words /\ s.enabled # Blank /\ Switch(s.enabled) = s.enabled
<1>1. s.set \in {"storage", "decrypt"} /\ s.enabled \in {"true", "false"}
  BY DEF SwitchRequests, Booleans
<1>2. "true" # Blank /\ "false" # Blank
  BY Zenon DEF Blank
<1>3. "true" \in Words /\ "false" \in Words
  BY SpokenWords
<1>4. QED
  BY <1>1, <1>2, <1>3 DEF Switch

LEMMA CheckedIs ==
  ASSUME NEW s \in Requests
  PROVE  /\ s.set # "access" => Checked(s) = s
         /\ s.set = "access" =>
              Checked(s) = [set |-> "access", proxy |-> NormalizeAccessControl(s.proxy, FALSE),
                            webui |-> NormalizeAccessControl(s.webui, FALSE)]
<1>1. s.set # "access" => Checked(s) = s
  BY DEF Checked
<1>2. ASSUME s.set = "access"
      PROVE  Checked(s) = [set |-> "access", proxy |-> NormalizeAccessControl(s.proxy, FALSE),
                            webui |-> NormalizeAccessControl(s.webui, FALSE)]
  <2>1. s \notin SwitchRequests /\ s \notin RulesRequests /\ s \notin UpstreamRequests
    BY <1>2, SwitchRequestsAre, RulesRequestsAre, UpstreamRequestsAre
  <2>2. s \in AccessRequests
    BY <2>1 DEF Requests
  <2>3. s.set = "access" /\ IsTyped(s.proxy) /\ IsTyped(s.webui)
        /\ s = [set |-> s.set, proxy |-> s.proxy, webui |-> s.webui]
    BY <2>2, AccessRequestsAre
  <2>4. PICK p, w : p = ValidateAccessControl(s.proxy).access /\ w = ValidateAccessControl(s.webui).access
    OBVIOUS
  <2>5. Checked(s) = [s EXCEPT !.proxy = p, !.webui = w]
    BY <1>2, <2>4 DEF Checked
  <2>6. [s EXCEPT !.proxy = p, !.webui = w] = [set |-> "access", proxy |-> p, webui |-> w]
    <3>1. PICK a, b : s = [set |-> "access", proxy |-> a, webui |-> b]
      BY <2>3
    <3>2. PICK t : t = [s EXCEPT !.proxy = p]
      OBVIOUS
    <3>3. t = [set |-> "access", proxy |-> p, webui |-> b]
      BY <3>1, <3>2
    <3>4. [t EXCEPT !.webui = w] = [set |-> "access", proxy |-> p, webui |-> w]
      BY <3>3
    <3>5. QED
      BY <3>2, <3>4
  <2>7. p = NormalizeAccessControl(s.proxy, FALSE) /\ w = NormalizeAccessControl(s.webui, FALSE)
    BY <2>3, <2>4, NormalOfTyped
  <2>8. QED
    BY <2>5, <2>6, <2>7
<1>3. QED
  BY <1>1, <1>2

LEMMA RequestsAre ==
  ASSUME NEW s \in Requests
  PROVE  /\ s.set \in {"storage", "decrypt", "rules", "upstream", "access"}
         /\ s.set \in {"storage", "decrypt"} => s \in SwitchRequests
         /\ s.set = "rules" => s \in RulesRequests
         /\ s.set = "upstream" => s \in UpstreamRequests
         /\ s.set = "access" => s \in AccessRequests
<1>1. s \in SwitchRequests \/ s \in RulesRequests \/ s \in UpstreamRequests \/ s \in AccessRequests
  BY DEF Requests
<1>2. QED
  BY <1>1, SwitchRequestsAre, RulesRequestsAre, UpstreamRequestsAre, AccessRequestsAre

LEMMA LoadReads ==
  ASSUME NEW L
  PROVE  /\ IsConf(Load(L))
         /\ Load(L).uri = Read(L, "proxy", "output_proxy_uri").val
         /\ Load(L).auth = Switch(Read(L, "proxy", "add_windows_authentication").val)
         /\ Load(L).noProxy = Read(L, "proxy", "no_proxy").vals
         /\ Load(L).proxy = AccessRead(L, "proxy") /\ Load(L).webui = AccessRead(L, "webui")
         /\ Load(L).storage = Switch(Read(L, "storage", "enable").val)
         /\ Load(L).decrypt = Switch(Read(L, "decrypt_https", "enabled").val)
         /\ Load(L).limit = Read(L, "decrypt_https", "default_max_bytes").val
         /\ Load(L).rules = Read(L, "decrypt_https", "mime_types").rules
  BY LoadIs DEF IsConf

LEMMA SameReads ==
  ASSUME NEW L, NEW N,
         \A k \in {"output_proxy_uri", "add_windows_authentication", "no_proxy"} :
           Read(N, "proxy", k) = Read(L, "proxy", k)
  PROVE  Load(N).uri = Load(L).uri /\ Load(N).auth = Load(L).auth /\ Load(N).noProxy = Load(L).noProxy
<1>1. /\ Read(N, "proxy", "output_proxy_uri") = Read(L, "proxy", "output_proxy_uri")
      /\ Read(N, "proxy", "add_windows_authentication") = Read(L, "proxy", "add_windows_authentication")
      /\ Read(N, "proxy", "no_proxy") = Read(L, "proxy", "no_proxy")
  OBVIOUS
<1>2. QED
  BY <1>1, LoadReads

SetTo(L, N, section, key, value) ==
  /\ N \in Seq(Line) /\ Tidy(N) /\ Rest(N) = Rest(L)
  /\ \A s, k : s # section \/ k # key => Read(N, s, k) = Read(L, s, k)
  /\ Read(N, section, key).val = value

LEMMA ScalarEdit ==
  ASSUME NEW L \in Seq(Line), Tidy(L), NEW section \in Sections, NEW key \in EditedInPlace, NEW direct \in BOOLEAN,
         direct \/ key = "enable", NEW value \in Words, value # Blank,
         NEW edit, edit = SetScalar(L, section, key, direct, value), edit.ok
  PROVE  SetTo(L, edit.lines, section, key, value)
<1>1. SetScalar(L, section, key, direct, value).ok
  OBVIOUS
<1>2. PICK N : N = SetScalar(L, section, key, direct, value).lines
  OBVIOUS
<1>3. /\ N \in Seq(Line) /\ Tidy(N) /\ Rest(N) = Rest(L)
      /\ \A s, k : s # section \/ k # key => Read(N, s, k) = Read(L, s, k)
      /\ Read(N, section, key).val = value
  BY <1>1, <1>2, SetScalarIs
<1>4. QED
  BY <1>2, <1>3 DEF SetTo

(* An accepted edit of a file in the tidy layout keeps the layout and what no edit *)
(* owns, and the program reads back the settings as the edit changes them.      *)
LEMMA EditIsApplied ==
  ASSUME NEW L \in Seq(Line), Tidy(L), NEW s \in Requests, NEW c, Agrees(Load(L), c),
         Edit(L, Checked(s)).ok
  PROVE  LET N == Edit(L, Checked(s)).lines
         IN Keeps(L, N) /\ Agrees(Load(N), Apply(c, s))
<1>1. /\ IsConf(c) /\ Load(L).uri = c.uri /\ Load(L).auth = c.auth /\ Load(L).noProxy = c.noProxy
      /\ Load(L).proxy = NormalizeAccessControl(c.proxy, FALSE)
      /\ Load(L).webui = NormalizeAccessControl(c.webui, FALSE)
      /\ Load(L).storage = c.storage /\ Load(L).decrypt = c.decrypt
      /\ Load(L).limit = c.limit /\ Load(L).rules = c.rules
  BY DEF Agrees
<1>2. PICK d : d = Apply(c, s)
  OBVIOUS
<1>3. PICK N : N = Edit(L, Checked(s)).lines
  OBVIOUS
<1>4. s.set \in {"storage", "decrypt", "rules", "upstream", "access"}
  BY RequestsAre
<1>5. /\ IsConf(d)
      /\ d.storage = IF s.set = "storage" THEN s.enabled ELSE c.storage
      /\ d.decrypt = IF s.set = "decrypt" THEN s.enabled ELSE c.decrypt
      /\ d.rules = IF s.set = "rules" THEN s.rules ELSE c.rules
      /\ d.limit = IF s.set = "rules" THEN s.limit ELSE c.limit
      /\ d.uri = IF s.set = "upstream" THEN s.uri ELSE c.uri
      /\ d.auth = IF s.set = "upstream" THEN s.auth ELSE c.auth
      /\ d.noProxy = IF s.set = "upstream" THEN s.noProxy ELSE c.noProxy
      /\ d.proxy = IF s.set = "access" THEN s.proxy ELSE c.proxy
      /\ d.webui = IF s.set = "access" THEN s.webui ELSE c.webui
  BY <1>1, <1>2, <1>4, ApplyIs
<1>6. IsConf(Load(N))
  BY LoadReads
<1>7. CASE s.set = "storage"
  <2>1. s \in SwitchRequests /\ s.enabled \in Words /\ s.enabled # Blank /\ Switch(s.enabled) = s.enabled
    BY <1>7, RequestsAre, SwitchRequestsAre
  <2>2. Edit(L, Checked(s)) = SetScalar(L, "storage", "enable", FALSE, s.enabled)
    BY <1>7, CheckedIs DEF Edit, EditStorage
  <2>3. "storage" \in Sections /\ "enable" \in EditedInPlace
    BY DEF Sections, EditedInPlace
  <2>4. /\ N \in Seq(Line) /\ Tidy(N) /\ Rest(N) = Rest(L)
        /\ \A section, k : section # "storage" \/ k # "enable" => Read(N, section, k) = Read(L, section, k)
        /\ Read(N, "storage", "enable").val = s.enabled
    <3>1. PICK value : value = s.enabled
      OBVIOUS
    <3>2. PICK direct \in BOOLEAN : direct = FALSE
      OBVIOUS
    <3>3. PICK edit : edit = SetScalar(L, "storage", "enable", direct, value)
      OBVIOUS
    <3>4. edit = Edit(L, Checked(s))
      BY <2>2, <3>1, <3>2, <3>3
    <3>5. edit.ok /\ N = edit.lines
      BY <1>3, <3>4
    <3>6. value \in Words /\ value # Blank
      BY <2>1, <3>1
    <3>7. direct \/ "enable" = "enable"
      BY <3>2
    <3>8. SetTo(L, edit.lines, "storage", "enable", value)
      BY <2>3, <3>3, <3>5, <3>6, <3>7, ScalarEdit
    <3>9. QED
      BY <3>1, <3>5, <3>8 DEF SetTo
  <2>5. AccessRead(N, "proxy") = AccessRead(L, "proxy") /\ AccessRead(N, "webui") = AccessRead(L, "webui")
    <3>1. SameElsewhere(L, N, "storage", {"enable"})
      BY <2>4 DEF SameElsewhere
    <3>2. QED
      BY <3>1, AccessElsewhere
  <2>6. Load(N).uri = Load(L).uri /\ Load(N).auth = Load(L).auth /\ Load(N).noProxy = Load(L).noProxy
    BY <2>4, SameReads
  <2>7. Load(N).storage = s.enabled
    BY <2>1, <2>4, LoadReads
  <2>8. Load(N).decrypt = Load(L).decrypt /\ Load(N).limit = Load(L).limit /\ Load(N).rules = Load(L).rules
    <3>1. /\ Read(N, "decrypt_https", "enabled") = Read(L, "decrypt_https", "enabled")
          /\ Read(N, "decrypt_https", "default_max_bytes") = Read(L, "decrypt_https", "default_max_bytes")
          /\ Read(N, "decrypt_https", "mime_types") = Read(L, "decrypt_https", "mime_types")
      BY <2>4
    <3>2. QED
      BY <3>1, LoadReads
  <2>9. Load(N).proxy = Load(L).proxy /\ Load(N).webui = Load(L).webui
    BY <2>5, LoadReads
  <2>10. Agrees(Load(N), d)
    BY <1>1, <1>5, <1>6, <1>7, <2>6, <2>7, <2>8, <2>9 DEF Agrees
  <2>11. QED
    BY <1>2, <1>3, <2>4, <2>10 DEF Keeps
<1>8. CASE s.set = "decrypt"
  <2>1. s \in SwitchRequests /\ s.enabled \in Words /\ s.enabled # Blank /\ Switch(s.enabled) = s.enabled
    BY <1>8, RequestsAre, SwitchRequestsAre
  <2>2. Edit(L, Checked(s)) = SetScalar(L, "decrypt_https", "enabled", TRUE, s.enabled)
    BY <1>8, CheckedIs DEF Edit, EditDecrypt
  <2>3. "decrypt_https" \in Sections /\ "enabled" \in EditedInPlace
    BY DEF Sections, EditedInPlace
  <2>4. /\ N \in Seq(Line) /\ Tidy(N) /\ Rest(N) = Rest(L)
        /\ \A section, k : section # "decrypt_https" \/ k # "enabled" => Read(N, section, k) = Read(L, section, k)
        /\ Read(N, "decrypt_https", "enabled").val = s.enabled
    <3>1. PICK value : value = s.enabled
      OBVIOUS
    <3>2. PICK direct \in BOOLEAN : direct = TRUE
      OBVIOUS
    <3>3. PICK edit : edit = SetScalar(L, "decrypt_https", "enabled", direct, value)
      OBVIOUS
    <3>4. edit = Edit(L, Checked(s))
      BY <2>2, <3>1, <3>2, <3>3
    <3>5. edit.ok /\ N = edit.lines
      BY <1>3, <3>4
    <3>6. value \in Words /\ value # Blank
      BY <2>1, <3>1
    <3>7. direct \/ "enabled" = "enable"
      BY <3>2
    <3>8. SetTo(L, edit.lines, "decrypt_https", "enabled", value)
      BY <2>3, <3>3, <3>5, <3>6, <3>7, ScalarEdit
    <3>9. QED
      BY <3>1, <3>5, <3>8 DEF SetTo
  <2>5. AccessRead(N, "proxy") = AccessRead(L, "proxy") /\ AccessRead(N, "webui") = AccessRead(L, "webui")
    <3>1. SameElsewhere(L, N, "decrypt_https", {"enabled"})
      BY <2>4 DEF SameElsewhere
    <3>2. QED
      BY <3>1, AccessElsewhere
  <2>6. Load(N).uri = Load(L).uri /\ Load(N).auth = Load(L).auth /\ Load(N).noProxy = Load(L).noProxy
    BY <2>4, SameReads
  <2>7. Load(N).decrypt = s.enabled
    BY <2>1, <2>4, LoadReads
  <2>8. Load(N).storage = Load(L).storage /\ Load(N).limit = Load(L).limit /\ Load(N).rules = Load(L).rules
    <3>1. /\ Read(N, "storage", "enable") = Read(L, "storage", "enable")
          /\ Read(N, "decrypt_https", "default_max_bytes") = Read(L, "decrypt_https", "default_max_bytes")
          /\ Read(N, "decrypt_https", "mime_types") = Read(L, "decrypt_https", "mime_types")
      BY <2>4
    <3>2. QED
      BY <3>1, LoadReads
  <2>9. Load(N).proxy = Load(L).proxy /\ Load(N).webui = Load(L).webui
    BY <2>5, LoadReads
  <2>10. Agrees(Load(N), d)
    BY <1>1, <1>5, <1>6, <1>8, <2>6, <2>7, <2>8, <2>9 DEF Agrees
  <2>11. QED
    BY <1>2, <1>3, <2>4, <2>10 DEF Keeps
<1>9. CASE s.set = "rules"
  <2>1. s \in RulesRequests
    BY <1>9, RequestsAre
  <2>2. Edit(L, Checked(s)) = EditRules(L, s)
    BY <1>9, CheckedIs DEF Edit
  <2>4. /\ Keeps(L, N) /\ SameElsewhere(L, N, "decrypt_https", RulesKeys)
        /\ Read(N, "decrypt_https", "default_max_bytes").val = s.limit
        /\ Read(N, "decrypt_https", "mime_types").rules = s.rules
    BY <1>3, <2>1, <2>2, RulesIs
  <2>5. AccessRead(N, "proxy") = AccessRead(L, "proxy") /\ AccessRead(N, "webui") = AccessRead(L, "webui")
    BY <2>4, AccessElsewhere
  <2>6. Load(N).uri = Load(L).uri /\ Load(N).auth = Load(L).auth /\ Load(N).noProxy = Load(L).noProxy
    BY <2>4, SameReads DEF SameElsewhere
  <2>7. Load(N).rules = s.rules /\ Load(N).limit = s.limit
    BY <2>4, LoadReads
  <2>8. Load(N).storage = Load(L).storage /\ Load(N).decrypt = Load(L).decrypt
    <3>1. /\ Read(N, "storage", "enable") = Read(L, "storage", "enable")
          /\ Read(N, "decrypt_https", "enabled") = Read(L, "decrypt_https", "enabled")
      BY <2>4 DEF SameElsewhere, RulesKeys
    <3>2. QED
      BY <3>1, LoadReads
  <2>9. Load(N).proxy = Load(L).proxy /\ Load(N).webui = Load(L).webui
    BY <2>5, LoadReads
  <2>10. Agrees(Load(N), d)
    BY <1>1, <1>5, <1>6, <1>9, <2>6, <2>7, <2>8, <2>9 DEF Agrees
  <2>11. QED
    BY <1>2, <1>3, <2>4, <2>10
<1>10. CASE s.set = "upstream"
  <2>1. s \in UpstreamRequests /\ Switch(s.auth) = s.auth
    BY <1>10, RequestsAre, UpstreamRequestsAre
  <2>2. Edit(L, Checked(s)) = EditUpstream(L, s)
    BY <1>10, CheckedIs DEF Edit
  <2>4. /\ Keeps(L, N) /\ SameElsewhere(L, N, "proxy", UpstreamKeys)
        /\ Read(N, "proxy", "output_proxy_uri").val = s.uri
        /\ Read(N, "proxy", "add_windows_authentication").val = s.auth
        /\ Read(N, "proxy", "no_proxy").vals = s.noProxy
    BY <1>3, <2>1, <2>2, UpstreamIs
  <2>5. AccessRead(N, "proxy") = AccessRead(L, "proxy") /\ AccessRead(N, "webui") = AccessRead(L, "webui")
    <3>1. AccessKeys \cap UpstreamKeys = {}
      BY DEF AccessKeys, UpstreamKeys
    <3>2. QED
      BY <2>4, <3>1, AccessElsewhere
  <2>6. Load(N).uri = s.uri /\ Load(N).auth = s.auth /\ Load(N).noProxy = s.noProxy
    BY <2>1, <2>4, LoadReads
  <2>8. /\ Load(N).storage = Load(L).storage /\ Load(N).decrypt = Load(L).decrypt
        /\ Load(N).rules = Load(L).rules /\ Load(N).limit = Load(L).limit
    <3>1. /\ Read(N, "storage", "enable") = Read(L, "storage", "enable")
          /\ Read(N, "decrypt_https", "enabled") = Read(L, "decrypt_https", "enabled")
          /\ Read(N, "decrypt_https", "default_max_bytes") = Read(L, "decrypt_https", "default_max_bytes")
          /\ Read(N, "decrypt_https", "mime_types") = Read(L, "decrypt_https", "mime_types")
      BY <2>4 DEF SameElsewhere
    <3>2. QED
      BY <3>1, LoadReads
  <2>9. Load(N).proxy = Load(L).proxy /\ Load(N).webui = Load(L).webui
    BY <2>5, LoadReads
  <2>10. Agrees(Load(N), d)
    BY <1>1, <1>5, <1>6, <1>10, <2>6, <2>8, <2>9 DEF Agrees
  <2>11. QED
    BY <1>2, <1>3, <2>4, <2>10
<1>11. CASE s.set = "access"
  <2>1. IsTyped(s.proxy) /\ IsTyped(s.webui)
    BY <1>11, RequestsAre, AccessRequestsAre
  <2>2. PICK t : t = Checked(s)
    OBVIOUS
  <2>3. t.set = "access" /\ t.proxy = NormalizeAccessControl(s.proxy, FALSE)
        /\ t.webui = NormalizeAccessControl(s.webui, FALSE)
    <3>1. PICK p, w : p = NormalizeAccessControl(s.proxy, FALSE) /\ w = NormalizeAccessControl(s.webui, FALSE)
      OBVIOUS
    <3>2. Checked(s) = [set |-> "access", proxy |-> p, webui |-> w]
      BY <1>11, <3>1, CheckedIs
    <3>3. QED
      BY <2>2, <3>1, <3>2
  <2>4. IsTyped(t.proxy) /\ IsTyped(t.webui)
    BY <2>1, <2>3, NormalOfTyped
  <2>5. Edit(L, t) = EditAccess(L, t)
    BY <2>3 DEF Edit
  <2>6. /\ Keeps(L, N)
        /\ \A section, key : key \notin AccessKeys => Read(N, section, key) = Read(L, section, key)
        /\ AccessRead(N, "proxy") = NormalizeAccessControl(t.proxy, FALSE)
        /\ AccessRead(N, "webui") = NormalizeAccessControl(t.webui, FALSE)
    <3>1. PICK edit : edit = EditAccess(L, t)
      OBVIOUS
    <3>2. edit.ok /\ N = edit.lines
      BY <1>3, <2>2, <2>5, <3>1
    <3>3. AccessSetTo(L, edit.lines, t.proxy, t.webui)
      BY <2>4, <3>1, <3>2, AccessEditIs
    <3>4. QED
      BY <3>2, <3>3 DEF AccessSetTo
  <2>7. Load(N).uri = Load(L).uri /\ Load(N).auth = Load(L).auth /\ Load(N).noProxy = Load(L).noProxy
    BY <2>6, SameReads DEF AccessKeys
  <2>8. /\ Load(N).storage = Load(L).storage /\ Load(N).decrypt = Load(L).decrypt
        /\ Load(N).rules = Load(L).rules /\ Load(N).limit = Load(L).limit
    <3>1. /\ Read(N, "storage", "enable") = Read(L, "storage", "enable")
          /\ Read(N, "decrypt_https", "enabled") = Read(L, "decrypt_https", "enabled")
          /\ Read(N, "decrypt_https", "default_max_bytes") = Read(L, "decrypt_https", "default_max_bytes")
          /\ Read(N, "decrypt_https", "mime_types") = Read(L, "decrypt_https", "mime_types")
      BY <2>6 DEF AccessKeys
    <3>2. QED
      BY <3>1, LoadReads
  <2>9. Load(N).proxy = NormalizeAccessControl(s.proxy, FALSE) /\ Load(N).webui = NormalizeAccessControl(s.webui, FALSE)
    BY <2>3, <2>6, NormalIs, LoadReads
  <2>10. Agrees(Load(N), d)
    BY <1>1, <1>5, <1>6, <1>11, <2>7, <2>8, <2>9 DEF Agrees
  <2>11. QED
    BY <1>2, <1>3, <2>6, <2>10
<1>12. QED
  BY <1>4, <1>7, <1>8, <1>9, <1>10, <1>11

-----------------------------------------------------------------------------
(* The file with the default settings *)

PlainLine(line, ind, key, bare) ==
  /\ line \in Line /\ line.ind = ind /\ line.kind = "key" /\ line.key = key /\ line.nl
  /\ HasContent(line) /\ Depth(line) = 2 * ind /\ (Bare(line) <=> bare)

LEMMA PlainIs ==
  ASSUME NEW ind \in Nat, NEW key \in SectionWords \cup SettingWords,
         NEW val \in {"[]", "true", "false", "3128", "9000", "captures", "ca"} \cup Modes \cup {Blank}
  PROVE  PlainLine(Key(ind, key, val), ind, key, val = Blank)
<1>1. key \in Words /\ val \in Words
  BY SpokenWords
<1>2. QED
  BY <1>1, KeyIs DEF PlainLine

LEMMA DefaultLines ==
  /\ DefaultFile \in Seq(Line) /\ DOMAIN DefaultFile = 1 .. 24
  /\ PlainLine(DefaultFile[1], 0, "proxy", TRUE)
  /\ PlainLine(DefaultFile[2], 1, "port", FALSE)
  /\ PlainLine(DefaultFile[3], 1, "enable_remote_connection", FALSE)
  /\ PlainLine(DefaultFile[4], 1, "access_control", TRUE)
  /\ PlainLine(DefaultFile[5], 2, "mode", FALSE)
  /\ PlainLine(DefaultFile[6], 2, "networks", FALSE)
  /\ PlainLine(DefaultFile[7], 1, "output_proxy_uri", TRUE)
  /\ PlainLine(DefaultFile[8], 1, "add_windows_authentication", FALSE)
  /\ PlainLine(DefaultFile[9], 1, "no_proxy", FALSE)
  /\ PlainLine(DefaultFile[10], 0, "webui", TRUE)
  /\ PlainLine(DefaultFile[11], 1, "port", FALSE)
  /\ PlainLine(DefaultFile[12], 1, "enable_remote_connection", FALSE)
  /\ PlainLine(DefaultFile[13], 1, "access_control", TRUE)
  /\ PlainLine(DefaultFile[14], 2, "mode", FALSE)
  /\ PlainLine(DefaultFile[15], 2, "networks", FALSE)
  /\ PlainLine(DefaultFile[16], 0, "storage", TRUE)
  /\ PlainLine(DefaultFile[17], 1, "enable", FALSE)
  /\ PlainLine(DefaultFile[18], 1, "folder", FALSE)
  /\ PlainLine(DefaultFile[19], 0, "decrypt_https", TRUE)
  /\ PlainLine(DefaultFile[20], 1, "enabled", FALSE)
  /\ PlainLine(DefaultFile[21], 1, "cert_manager", TRUE)
  /\ PlainLine(DefaultFile[22], 2, "ca_cert_file", FALSE)
  /\ PlainLine(DefaultFile[23], 1, "mime_types", FALSE)
  /\ PlainLine(DefaultFile[24], 1, "default_max_bytes", TRUE)
  /\ DefaultFile[5].val = "loopback" /\ DefaultFile[14].val = "loopback"
<1>1. DefaultFile = <<Key(0, "proxy", Blank), Key(1, "port", "3128"), Key(1, "enable_remote_connection", "false"),
        Key(1, "access_control", Blank), Key(2, "mode", "loopback"), Key(2, "networks", "[]"),
        Key(1, "output_proxy_uri", Blank), Key(1, "add_windows_authentication", "false"), Key(1, "no_proxy", "[]"),
        Key(0, "webui", Blank), Key(1, "port", "9000"), Key(1, "enable_remote_connection", "false"),
        Key(1, "access_control", Blank), Key(2, "mode", "loopback"), Key(2, "networks", "[]"),
        Key(0, "storage", Blank), Key(1, "enable", "false"), Key(1, "folder", "captures"),
        Key(0, "decrypt_https", Blank), Key(1, "enabled", "false"), Key(1, "cert_manager", Blank),
        Key(2, "ca_cert_file", "ca"), Key(1, "mime_types", "[]"), Key(1, "default_max_bytes", Blank)>>
  BY Zenon DEF DefaultFile, Blank
<1>2. PICK k1, k2, k3, k4, k5, k6, k7, k8, k9, k10, k11, k12, k13, k14, k15, k16, k17, k18, k19, k20, k21, k22, k23, k24 :
        /\ k1 = Key(0, "proxy", Blank)
        /\ k2 = Key(1, "port", "3128")
        /\ k3 = Key(1, "enable_remote_connection", "false")
        /\ k4 = Key(1, "access_control", Blank)
        /\ k5 = Key(2, "mode", "loopback")
        /\ k6 = Key(2, "networks", "[]")
        /\ k7 = Key(1, "output_proxy_uri", Blank)
        /\ k8 = Key(1, "add_windows_authentication", "false")
        /\ k9 = Key(1, "no_proxy", "[]")
        /\ k10 = Key(0, "webui", Blank)
        /\ k11 = Key(1, "port", "9000")
        /\ k12 = Key(1, "enable_remote_connection", "false")
        /\ k13 = Key(1, "access_control", Blank)
        /\ k14 = Key(2, "mode", "loopback")
        /\ k15 = Key(2, "networks", "[]")
        /\ k16 = Key(0, "storage", Blank)
        /\ k17 = Key(1, "enable", "false")
        /\ k18 = Key(1, "folder", "captures")
        /\ k19 = Key(0, "decrypt_https", Blank)
        /\ k20 = Key(1, "enabled", "false")
        /\ k21 = Key(1, "cert_manager", Blank)
        /\ k22 = Key(2, "ca_cert_file", "ca")
        /\ k23 = Key(1, "mime_types", "[]")
        /\ k24 = Key(1, "default_max_bytes", Blank)
  OBVIOUS
<1>3. DefaultFile = <<k1, k2, k3, k4, k5, k6, k7, k8, k9, k10, k11, k12, k13, k14, k15, k16, k17, k18, k19, k20, k21, k22, k23, k24>>
  BY <1>1, <1>2, Zenon
<1>4. /\ "[]" # Blank /\ "false" # Blank /\ "3128" # Blank /\ "9000" # Blank /\ "captures" # Blank
      /\ "ca" # Blank /\ "loopback" # Blank
  BY Zenon DEF Blank
<1>5. "loopback" \in Modes
  BY DEF Modes
<1>6. PlainLine(k1, 0, "proxy", TRUE)
  <2>1. PlainLine(k1, 0, "proxy", Blank = Blank)
    BY <1>2, <1>5, PlainIs DEF SectionWords, SettingWords
  <2>2. QED
    BY <2>1, <1>4
<1>7. PlainLine(k2, 1, "port", FALSE)
  <2>1. PlainLine(k2, 1, "port", "3128" = Blank)
    BY <1>2, <1>5, PlainIs DEF SectionWords, SettingWords
  <2>2. QED
    BY <2>1, <1>4
<1>8. PlainLine(k3, 1, "enable_remote_connection", FALSE)
  <2>1. PlainLine(k3, 1, "enable_remote_connection", "false" = Blank)
    BY <1>2, <1>5, PlainIs DEF SectionWords, SettingWords
  <2>2. QED
    BY <2>1, <1>4
<1>9. PlainLine(k4, 1, "access_control", TRUE)
  <2>1. PlainLine(k4, 1, "access_control", Blank = Blank)
    BY <1>2, <1>5, PlainIs DEF SectionWords, SettingWords
  <2>2. QED
    BY <2>1, <1>4
<1>10. PlainLine(k5, 2, "mode", FALSE)
  <2>1. PlainLine(k5, 2, "mode", "loopback" = Blank)
    BY <1>2, <1>5, PlainIs DEF SectionWords, SettingWords
  <2>2. QED
    BY <2>1, <1>4
<1>11. PlainLine(k6, 2, "networks", FALSE)
  <2>1. PlainLine(k6, 2, "networks", "[]" = Blank)
    BY <1>2, <1>5, PlainIs DEF SectionWords, SettingWords
  <2>2. QED
    BY <2>1, <1>4
<1>12. PlainLine(k7, 1, "output_proxy_uri", TRUE)
  <2>1. PlainLine(k7, 1, "output_proxy_uri", Blank = Blank)
    BY <1>2, <1>5, PlainIs DEF SectionWords, SettingWords
  <2>2. QED
    BY <2>1, <1>4
<1>13. PlainLine(k8, 1, "add_windows_authentication", FALSE)
  <2>1. PlainLine(k8, 1, "add_windows_authentication", "false" = Blank)
    BY <1>2, <1>5, PlainIs DEF SectionWords, SettingWords
  <2>2. QED
    BY <2>1, <1>4
<1>14. PlainLine(k9, 1, "no_proxy", FALSE)
  <2>1. PlainLine(k9, 1, "no_proxy", "[]" = Blank)
    BY <1>2, <1>5, PlainIs DEF SectionWords, SettingWords
  <2>2. QED
    BY <2>1, <1>4
<1>15. PlainLine(k10, 0, "webui", TRUE)
  <2>1. PlainLine(k10, 0, "webui", Blank = Blank)
    BY <1>2, <1>5, PlainIs DEF SectionWords, SettingWords
  <2>2. QED
    BY <2>1, <1>4
<1>16. PlainLine(k11, 1, "port", FALSE)
  <2>1. PlainLine(k11, 1, "port", "9000" = Blank)
    BY <1>2, <1>5, PlainIs DEF SectionWords, SettingWords
  <2>2. QED
    BY <2>1, <1>4
<1>17. PlainLine(k12, 1, "enable_remote_connection", FALSE)
  <2>1. PlainLine(k12, 1, "enable_remote_connection", "false" = Blank)
    BY <1>2, <1>5, PlainIs DEF SectionWords, SettingWords
  <2>2. QED
    BY <2>1, <1>4
<1>18. PlainLine(k13, 1, "access_control", TRUE)
  <2>1. PlainLine(k13, 1, "access_control", Blank = Blank)
    BY <1>2, <1>5, PlainIs DEF SectionWords, SettingWords
  <2>2. QED
    BY <2>1, <1>4
<1>19. PlainLine(k14, 2, "mode", FALSE)
  <2>1. PlainLine(k14, 2, "mode", "loopback" = Blank)
    BY <1>2, <1>5, PlainIs DEF SectionWords, SettingWords
  <2>2. QED
    BY <2>1, <1>4
<1>20. PlainLine(k15, 2, "networks", FALSE)
  <2>1. PlainLine(k15, 2, "networks", "[]" = Blank)
    BY <1>2, <1>5, PlainIs DEF SectionWords, SettingWords
  <2>2. QED
    BY <2>1, <1>4
<1>21. PlainLine(k16, 0, "storage", TRUE)
  <2>1. PlainLine(k16, 0, "storage", Blank = Blank)
    BY <1>2, <1>5, PlainIs DEF SectionWords, SettingWords
  <2>2. QED
    BY <2>1, <1>4
<1>22. PlainLine(k17, 1, "enable", FALSE)
  <2>1. PlainLine(k17, 1, "enable", "false" = Blank)
    BY <1>2, <1>5, PlainIs DEF SectionWords, SettingWords
  <2>2. QED
    BY <2>1, <1>4
<1>23. PlainLine(k18, 1, "folder", FALSE)
  <2>1. PlainLine(k18, 1, "folder", "captures" = Blank)
    BY <1>2, <1>5, PlainIs DEF SectionWords, SettingWords
  <2>2. QED
    BY <2>1, <1>4
<1>24. PlainLine(k19, 0, "decrypt_https", TRUE)
  <2>1. PlainLine(k19, 0, "decrypt_https", Blank = Blank)
    BY <1>2, <1>5, PlainIs DEF SectionWords, SettingWords
  <2>2. QED
    BY <2>1, <1>4
<1>25. PlainLine(k20, 1, "enabled", FALSE)
  <2>1. PlainLine(k20, 1, "enabled", "false" = Blank)
    BY <1>2, <1>5, PlainIs DEF SectionWords, SettingWords
  <2>2. QED
    BY <2>1, <1>4
<1>26. PlainLine(k21, 1, "cert_manager", TRUE)
  <2>1. PlainLine(k21, 1, "cert_manager", Blank = Blank)
    BY <1>2, <1>5, PlainIs DEF SectionWords, SettingWords
  <2>2. QED
    BY <2>1, <1>4
<1>27. PlainLine(k22, 2, "ca_cert_file", FALSE)
  <2>1. PlainLine(k22, 2, "ca_cert_file", "ca" = Blank)
    BY <1>2, <1>5, PlainIs DEF SectionWords, SettingWords
  <2>2. QED
    BY <2>1, <1>4
<1>28. PlainLine(k23, 1, "mime_types", FALSE)
  <2>1. PlainLine(k23, 1, "mime_types", "[]" = Blank)
    BY <1>2, <1>5, PlainIs DEF SectionWords, SettingWords
  <2>2. QED
    BY <2>1, <1>4
<1>29. PlainLine(k24, 1, "default_max_bytes", TRUE)
  <2>1. PlainLine(k24, 1, "default_max_bytes", Blank = Blank)
    BY <1>2, <1>5, PlainIs DEF SectionWords, SettingWords
  <2>2. QED
    BY <2>1, <1>4
<1>30. /\ k1 \in Line /\ k2 \in Line /\ k3 \in Line /\ k4 \in Line /\ k5 \in Line /\ k6 \in Line
      /\ k7 \in Line /\ k8 \in Line /\ k9 \in Line /\ k10 \in Line /\ k11 \in Line /\ k12 \in Line
      /\ k13 \in Line /\ k14 \in Line /\ k15 \in Line /\ k16 \in Line /\ k17 \in Line /\ k18 \in Line
      /\ k19 \in Line /\ k20 \in Line /\ k21 \in Line /\ k22 \in Line /\ k23 \in Line /\ k24 \in Line
  BY <1>6, <1>7, <1>8, <1>9, <1>10, <1>11, <1>12, <1>13, <1>14, <1>15, <1>16, <1>17, <1>18, <1>19, <1>20, <1>21, <1>22, <1>23, <1>24, <1>25, <1>26, <1>27, <1>28, <1>29 DEF PlainLine
<1>31. DefaultFile \in Seq(Line)
  BY <1>3, <1>30
<1>32. DOMAIN DefaultFile = 1 .. 24
  BY <1>3
<1>33. /\ DefaultFile[1] = k1 /\ DefaultFile[2] = k2 /\ DefaultFile[3] = k3 /\ DefaultFile[4] = k4 /\ DefaultFile[5] = k5 /\ DefaultFile[6] = k6
      /\ DefaultFile[7] = k7 /\ DefaultFile[8] = k8 /\ DefaultFile[9] = k9 /\ DefaultFile[10] = k10 /\ DefaultFile[11] = k11 /\ DefaultFile[12] = k12
      /\ DefaultFile[13] = k13 /\ DefaultFile[14] = k14 /\ DefaultFile[15] = k15 /\ DefaultFile[16] = k16 /\ DefaultFile[17] = k17 /\ DefaultFile[18] = k18
      /\ DefaultFile[19] = k19 /\ DefaultFile[20] = k20 /\ DefaultFile[21] = k21 /\ DefaultFile[22] = k22 /\ DefaultFile[23] = k23 /\ DefaultFile[24] = k24
  BY <1>3
<1>34. k5.val = "loopback" /\ k14.val = "loopback"
  BY <1>2 DEF Key
<1>35. QED
  BY <1>34, <1>31, <1>32, <1>33, <1>6, <1>7, <1>8, <1>9, <1>10, <1>11, <1>12, <1>13, <1>14, <1>15, <1>16, <1>17, <1>18, <1>19, <1>20, <1>21, <1>22, <1>23, <1>24, <1>25, <1>26, <1>27, <1>28, <1>29

LEMMA DefaultParents ==
  /\ Parents(DefaultFile)[1] = 0
  /\ Parents(DefaultFile)[2] = 1
  /\ Parents(DefaultFile)[3] = 1
  /\ Parents(DefaultFile)[4] = 1
  /\ Parents(DefaultFile)[5] = 4
  /\ Parents(DefaultFile)[6] = 4
  /\ Parents(DefaultFile)[7] = 1
  /\ Parents(DefaultFile)[8] = 1
  /\ Parents(DefaultFile)[9] = 1
  /\ Parents(DefaultFile)[10] = 0
  /\ Parents(DefaultFile)[11] = 10
  /\ Parents(DefaultFile)[12] = 10
  /\ Parents(DefaultFile)[13] = 10
  /\ Parents(DefaultFile)[14] = 13
  /\ Parents(DefaultFile)[15] = 13
  /\ Parents(DefaultFile)[16] = 0
  /\ Parents(DefaultFile)[17] = 16
  /\ Parents(DefaultFile)[18] = 16
  /\ Parents(DefaultFile)[19] = 0
  /\ Parents(DefaultFile)[20] = 19
  /\ Parents(DefaultFile)[21] = 19
  /\ Parents(DefaultFile)[22] = 21
  /\ Parents(DefaultFile)[23] = 19
  /\ Parents(DefaultFile)[24] = 19
<1>1. PICK D : D = DefaultFile
  OBVIOUS
<1>2. D \in Seq(Line) /\ DOMAIN D = 1 .. 24
  BY <1>1, DefaultLines
<1>3. /\ Depth(D[1]) = 0 /\ Depth(D[2]) = 2 /\ Depth(D[3]) = 2 /\ Depth(D[4]) = 2 /\ Depth(D[5]) = 4 /\ Depth(D[6]) = 4
      /\ Depth(D[7]) = 2 /\ Depth(D[8]) = 2 /\ Depth(D[9]) = 2 /\ Depth(D[10]) = 0 /\ Depth(D[11]) = 2 /\ Depth(D[12]) = 2
      /\ Depth(D[13]) = 2 /\ Depth(D[14]) = 4 /\ Depth(D[15]) = 4 /\ Depth(D[16]) = 0 /\ Depth(D[17]) = 2 /\ Depth(D[18]) = 2
      /\ Depth(D[19]) = 0 /\ Depth(D[20]) = 2 /\ Depth(D[21]) = 2 /\ Depth(D[22]) = 4 /\ Depth(D[23]) = 2 /\ Depth(D[24]) = 2
  BY <1>1, DefaultLines DEF PlainLine
<1>4. /\ HasContent(D[1]) /\ HasContent(D[2]) /\ HasContent(D[3]) /\ HasContent(D[4]) /\ HasContent(D[5]) /\ HasContent(D[6])
      /\ HasContent(D[7]) /\ HasContent(D[8]) /\ HasContent(D[9]) /\ HasContent(D[10]) /\ HasContent(D[11]) /\ HasContent(D[12])
      /\ HasContent(D[13]) /\ HasContent(D[14]) /\ HasContent(D[15]) /\ HasContent(D[16]) /\ HasContent(D[17]) /\ HasContent(D[18])
      /\ HasContent(D[19]) /\ HasContent(D[20]) /\ HasContent(D[21]) /\ HasContent(D[22]) /\ HasContent(D[23]) /\ HasContent(D[24])
  BY <1>1, DefaultLines DEF PlainLine
<1>5. IsParent(D, 1, 0)
  BY <1>3, <1>4 DEF IsParent
<1>6. IsParent(D, 2, 1)
  BY <1>3, <1>4 DEF IsParent
<1>7. IsParent(D, 3, 1)
  BY <1>3, <1>4 DEF IsParent
<1>8. IsParent(D, 4, 1)
  BY <1>3, <1>4 DEF IsParent
<1>9. IsParent(D, 5, 4)
  BY <1>3, <1>4 DEF IsParent
<1>10. IsParent(D, 6, 4)
  BY <1>3, <1>4 DEF IsParent
<1>11. IsParent(D, 7, 1)
  BY <1>3, <1>4 DEF IsParent
<1>12. IsParent(D, 8, 1)
  BY <1>3, <1>4 DEF IsParent
<1>13. IsParent(D, 9, 1)
  BY <1>3, <1>4 DEF IsParent
<1>14. IsParent(D, 10, 0)
  BY <1>3, <1>4 DEF IsParent
<1>15. IsParent(D, 11, 10)
  BY <1>3, <1>4 DEF IsParent
<1>16. IsParent(D, 12, 10)
  BY <1>3, <1>4 DEF IsParent
<1>17. IsParent(D, 13, 10)
  BY <1>3, <1>4 DEF IsParent
<1>18. IsParent(D, 14, 13)
  BY <1>3, <1>4 DEF IsParent
<1>19. IsParent(D, 15, 13)
  BY <1>3, <1>4 DEF IsParent
<1>20. IsParent(D, 16, 0)
  BY <1>3, <1>4 DEF IsParent
<1>21. IsParent(D, 17, 16)
  BY <1>3, <1>4 DEF IsParent
<1>22. IsParent(D, 18, 16)
  BY <1>3, <1>4 DEF IsParent
<1>23. IsParent(D, 19, 0)
  BY <1>3, <1>4 DEF IsParent
<1>24. IsParent(D, 20, 19)
  BY <1>3, <1>4 DEF IsParent
<1>25. IsParent(D, 21, 19)
  BY <1>3, <1>4 DEF IsParent
<1>26. IsParent(D, 22, 21)
  BY <1>3, <1>4 DEF IsParent
<1>27. IsParent(D, 23, 19)
  BY <1>3, <1>4 DEF IsParent
<1>28. IsParent(D, 24, 19)
  BY <1>3, <1>4 DEF IsParent
<1>29. Parents(D)[1] = 0
  BY <1>2, <1>5, ParentIs
<1>30. Parents(D)[2] = 1
  BY <1>2, <1>6, ParentIs
<1>31. Parents(D)[3] = 1
  BY <1>2, <1>7, ParentIs
<1>32. Parents(D)[4] = 1
  BY <1>2, <1>8, ParentIs
<1>33. Parents(D)[5] = 4
  BY <1>2, <1>9, ParentIs
<1>34. Parents(D)[6] = 4
  BY <1>2, <1>10, ParentIs
<1>35. Parents(D)[7] = 1
  BY <1>2, <1>11, ParentIs
<1>36. Parents(D)[8] = 1
  BY <1>2, <1>12, ParentIs
<1>37. Parents(D)[9] = 1
  BY <1>2, <1>13, ParentIs
<1>38. Parents(D)[10] = 0
  BY <1>2, <1>14, ParentIs
<1>39. Parents(D)[11] = 10
  BY <1>2, <1>15, ParentIs
<1>40. Parents(D)[12] = 10
  BY <1>2, <1>16, ParentIs
<1>41. Parents(D)[13] = 10
  BY <1>2, <1>17, ParentIs
<1>42. Parents(D)[14] = 13
  BY <1>2, <1>18, ParentIs
<1>43. Parents(D)[15] = 13
  BY <1>2, <1>19, ParentIs
<1>44. Parents(D)[16] = 0
  BY <1>2, <1>20, ParentIs
<1>45. Parents(D)[17] = 16
  BY <1>2, <1>21, ParentIs
<1>46. Parents(D)[18] = 16
  BY <1>2, <1>22, ParentIs
<1>47. Parents(D)[19] = 0
  BY <1>2, <1>23, ParentIs
<1>48. Parents(D)[20] = 19
  BY <1>2, <1>24, ParentIs
<1>49. Parents(D)[21] = 19
  BY <1>2, <1>25, ParentIs
<1>50. Parents(D)[22] = 21
  BY <1>2, <1>26, ParentIs
<1>51. Parents(D)[23] = 19
  BY <1>2, <1>27, ParentIs
<1>52. Parents(D)[24] = 19
  BY <1>2, <1>28, ParentIs
<1>53. QED
  BY <1>1, <1>29, <1>30, <1>31, <1>32, <1>33, <1>34, <1>35, <1>36, <1>37, <1>38, <1>39, <1>40, <1>41, <1>42, <1>43, <1>44, <1>45, <1>46, <1>47, <1>48, <1>49, <1>50, <1>51, <1>52

LEMMA DefaultIsTidy == DefaultFile \in Seq(Line) /\ Tidy(DefaultFile)
<1>1. PICK D : D = DefaultFile
  OBVIOUS
<1>2. D \in Seq(Line) /\ DOMAIN D = 1 .. 24
  BY <1>1, DefaultLines
<1>3. PICK P : P = Parents(D)
  OBVIOUS
<1>4. /\ P[1] = 0 /\ P[2] = 1 /\ P[3] = 1 /\ P[4] = 1 /\ P[5] = 4 /\ P[6] = 4 /\ P[7] = 1 /\ P[8] = 1
      /\ P[9] = 1 /\ P[10] = 0 /\ P[11] = 10 /\ P[12] = 10 /\ P[13] = 10 /\ P[14] = 13 /\ P[15] = 13 /\ P[16] = 0
      /\ P[17] = 16 /\ P[18] = 16 /\ P[19] = 0 /\ P[20] = 19 /\ P[21] = 19 /\ P[22] = 21 /\ P[23] = 19 /\ P[24] = 19
  BY <1>1, <1>3, DefaultParents
<1>5. /\ D[1].key = "proxy" /\ D[2].key = "port" /\ D[3].key = "enable_remote_connection"
      /\ D[4].key = "access_control" /\ D[5].key = "mode" /\ D[6].key = "networks"
      /\ D[7].key = "output_proxy_uri" /\ D[8].key = "add_windows_authentication" /\ D[9].key = "no_proxy"
      /\ D[10].key = "webui" /\ D[11].key = "port" /\ D[12].key = "enable_remote_connection"
      /\ D[13].key = "access_control" /\ D[14].key = "mode" /\ D[15].key = "networks"
      /\ D[16].key = "storage" /\ D[17].key = "enable" /\ D[18].key = "folder"
      /\ D[19].key = "decrypt_https" /\ D[20].key = "enabled" /\ D[21].key = "cert_manager"
      /\ D[22].key = "ca_cert_file" /\ D[23].key = "mime_types" /\ D[24].key = "default_max_bytes"
  BY <1>1, DefaultLines DEF PlainLine
<1>6. /\ D[1].ind = 0 /\ D[2].ind = 1 /\ D[3].ind = 1 /\ D[4].ind = 1 /\ D[5].ind = 2 /\ D[6].ind = 2
      /\ D[7].ind = 1 /\ D[8].ind = 1 /\ D[9].ind = 1 /\ D[10].ind = 0 /\ D[11].ind = 1 /\ D[12].ind = 1
      /\ D[13].ind = 1 /\ D[14].ind = 2 /\ D[15].ind = 2 /\ D[16].ind = 0 /\ D[17].ind = 1 /\ D[18].ind = 1
      /\ D[19].ind = 0 /\ D[20].ind = 1 /\ D[21].ind = 1 /\ D[22].ind = 2 /\ D[23].ind = 1 /\ D[24].ind = 1
  BY <1>1, DefaultLines DEF PlainLine
<1>7. /\ D[1].kind = "key" /\ D[2].kind = "key" /\ D[3].kind = "key" /\ D[4].kind = "key" /\ D[5].kind = "key" /\ D[6].kind = "key"
      /\ D[7].kind = "key" /\ D[8].kind = "key" /\ D[9].kind = "key" /\ D[10].kind = "key" /\ D[11].kind = "key" /\ D[12].kind = "key"
      /\ D[13].kind = "key" /\ D[14].kind = "key" /\ D[15].kind = "key" /\ D[16].kind = "key" /\ D[17].kind = "key" /\ D[18].kind = "key"
      /\ D[19].kind = "key" /\ D[20].kind = "key" /\ D[21].kind = "key" /\ D[22].kind = "key" /\ D[23].kind = "key" /\ D[24].kind = "key"
  BY <1>1, DefaultLines DEF PlainLine
<1>8. /\ D[1].nl /\ D[2].nl /\ D[3].nl /\ D[4].nl /\ D[5].nl /\ D[6].nl
      /\ D[7].nl /\ D[8].nl /\ D[9].nl /\ D[10].nl /\ D[11].nl /\ D[12].nl
      /\ D[13].nl /\ D[14].nl /\ D[15].nl /\ D[16].nl /\ D[17].nl /\ D[18].nl
      /\ D[19].nl /\ D[20].nl /\ D[21].nl /\ D[22].nl /\ D[23].nl /\ D[24].nl
  BY <1>1, DefaultLines DEF PlainLine
<1>9. Bare(D[1]) /\ Bare(D[4]) /\ Bare(D[10]) /\ Bare(D[13]) /\ Bare(D[16]) /\ Bare(D[19]) /\ Bare(D[21])
      /\ ~Bare(D[17]) /\ ~Bare(D[20])
  BY <1>1, DefaultLines DEF PlainLine
<1>10. \A i \in 1 .. 24 : D[i].kind = "key" /\ D[i].nl
  BY <1>7, <1>8
<1>11. \A i \in 1 .. 24 : P[i] = 0 => D[i].ind = 0
  BY <1>4, <1>6
<1>12. \A i \in 1 .. 24 : P[i] # 0 => D[i].ind = D[P[i]].ind + 1 /\ P[i] \in 1 .. 24 /\ Bare(D[P[i]])
  BY <1>4, <1>6, <1>9
<1>13. \A i \in 1 .. 24 : D[i].key \in Sections => D[i].ind = 0
  BY <1>5, <1>6 DEF Sections
<1>14. \A i \in 1 .. 24 : /\ D[i].key = "enable" => D[i].ind = 1
                          /\ D[i].key \in {"enable", "enabled"} => ~Bare(D[i])
  BY <1>5, <1>6, <1>9
<1>15. \A i \in 1 .. 24, j \in 1 .. 24 : j < i /\ P[j] = P[i] => D[i].key # D[j].key
  BY <1>4, <1>5
<1>16. Shape(D, 0)
  <2> SUFFICES ASSUME NEW i \in Content(D)
               PROVE  LET p == Parents(D)[i] IN
                      /\ D[i].kind \in {"key", "item"}
                      /\ p = 0 => D[i].kind = "key" /\ D[i].ind = 0
                      /\ p # 0 => /\ D[i].ind = D[p].ind + 1
                                  /\ D[p].kind = "item" => D[i].kind = "key"
                                  /\ D[p].kind = "key" => Bare(D[p])
                                  /\ IsKey(D[p], Sections) => D[i].kind = "key"
                      /\ IsKey(D[i], Sections) => D[i].ind = 0
                      /\ IsKey(D[i], {"enable"}) => D[i].ind = 1
                      /\ IsKey(D[i], EditedInPlace) => ~Bare(D[i])
                      /\ \A j \in Content(D) :
                           j < i /\ Parents(D)[j] = p =>
                             D[i].kind = D[j].kind /\ (D[i].kind = "key" => D[i].key # D[j].key)
    BY DEF Shape
  <2>1. i \in 1 .. 24 /\ Content(D) \subseteq 1 .. 24
    BY <1>2, LinesOf
  <2>2. D[i].kind = "key" /\ (P[i] = 0 => D[i].ind = 0)
        /\ (P[i] # 0 => D[i].ind = D[P[i]].ind + 1 /\ Bare(D[P[i]]))
    BY <1>10, <1>11, <1>12, <2>1
  <2>3. /\ IsKey(D[i], Sections) => D[i].ind = 0
        /\ IsKey(D[i], {"enable"}) => D[i].ind = 1
        /\ IsKey(D[i], EditedInPlace) => ~Bare(D[i])
    BY <1>13, <1>14, <2>1 DEF IsKey, EditedInPlace
  <2>4. \A j \in Content(D) : j < i /\ P[j] = P[i] =>
          D[i].kind = D[j].kind /\ (D[i].kind = "key" => D[i].key # D[j].key)
    BY <1>10, <1>15, <2>1
  <2>5. QED
    BY <1>3, <2>2, <2>3, <2>4
<1>17. QED
  BY <1>1, <1>2, <1>10, <1>16, TidyIs

-----------------------------------------------------------------------------
(* Any text, also one that a full disk cut off *)

EndedLines == {line \in Line : line.nl}

LEMMA TextIs ==
  ASSUME NEW lines, IsText(lines)
  PROVE  /\ lines \in Seq(Line)
         /\ \A i \in DOMAIN lines : lines[i] \in Line
         /\ \A i \in 1 .. Len(lines) - 1 : lines[i].nl
  BY DEF IsText

LEMMA EndedIsText ==
  ASSUME NEW lines \in Seq(EndedLines)
  PROVE  IsText(lines) /\ lines \in Seq(Line)
<1>1. \A i \in DOMAIN lines : lines[i] \in EndedLines
  OBVIOUS
<1>2. \A i \in DOMAIN lines : lines[i] \in Line /\ lines[i].nl
  BY <1>1 DEF EndedLines
<1>3. lines = [i \in 1 .. Len(lines) |-> lines[i]] /\ Len(lines) \in Nat /\ DOMAIN lines = 1 .. Len(lines)
  OBVIOUS
<1>4. lines \in Seq(Line)
  BY <1>2, <1>3
<1>5. IsText(lines)
  BY <1>2, <1>3, <1>4 DEF IsText
<1>6. QED
  BY <1>5, TextIs

LEMMA PrefixIsText ==
  ASSUME NEW lines, IsText(lines), NEW n \in Nat, n <= Len(lines)
  PROVE  IsText(SubSeq(lines, 1, n))
<1>1. lines \in Seq(Line) /\ Len(lines) \in Nat /\ \A i \in 1 .. Len(lines) - 1 : lines[i].nl
  BY DEF IsText
<1>2. SubSeq(lines, 1, n) \in Seq(Line) /\ Len(SubSeq(lines, 1, n)) = n
      /\ \A i \in 1 .. n : SubSeq(lines, 1, n)[i] = lines[i]
  BY <1>1
<1>3. QED
  BY <1>1, <1>2 DEF IsText

LEMMA SplicedIsText ==
  ASSUME NEW L \in Seq(Line), IsText(L), NEW R \in Seq(Line), R \in Seq(EndedLines), NEW a \in 1 .. Len(L) + 1, NEW b \in a - 1 .. Len(L),
         a <= Len(L) \/ \A i \in DOMAIN L : L[i].nl
  PROVE  IsText(Spliced(L, R, a, b))
<1>1. L \in Seq(Line) /\ R \in Seq(Line) /\ Len(L) \in Nat /\ DOMAIN L = 1 .. Len(L)
      /\ (\A i \in DOMAIN L : L[i] \in Line) /\ (\A i \in 1 .. Len(L) - 1 : L[i].nl)
  BY TextIs, EndedIsText
<1>1a. Len(L) \in Nat
  OBVIOUS
<1>2. \A k \in DOMAIN R : R[k] \in Line /\ R[k].nl
  <2>1. \A k \in DOMAIN R : R[k] \in EndedLines
    OBVIOUS
  <2>2. QED
    BY <2>1 DEF EndedLines
<1> DEFINE N == Spliced(L, R, a, b)
           m(i) == MovedTo(R, a, b, i)
           stay == DOMAIN L \ (a .. b)
<1>3a. N \in Seq(Line) /\ Len(N) = Len(L) - (b - a + 1) + Len(R)
  <2>1. Places(L, R, a, b)
    BY SplicedLines
  <2>2. QED
    BY <2>1 DEF Places
<1>3. /\ \A i \in stay : m(i) \in DOMAIN N /\ N[m(i)] = L[i]
      /\ \A k \in DOMAIN R : PutAt(a, k) \in DOMAIN N /\ N[PutAt(a, k)] = R[k]
      /\ \A j \in DOMAIN N : \/ \E i \in stay : j = m(i)
                             \/ \E k \in DOMAIN R : j = PutAt(a, k)
  <2>1. Places(L, R, a, b)
    BY SplicedLines
  <2>2. QED
    BY <2>1 DEF Places
<1>4. \A j \in DOMAIN N : N[j] \in Line
  <2> HIDE DEF N, m
  <2>1. QED
    BY <1>1, <1>2, <1>3
<1>5. \A i \in stay : m(i) < Len(N) => L[i].nl
  <2> SUFFICES ASSUME NEW i \in stay, m(i) < Len(N) PROVE L[i].nl
    OBVIOUS
  <2>1. i \in 1 .. Len(L) /\ (i < a \/ i > b) /\ i \in Nat /\ a \in Nat /\ b \in Nat /\ Len(R) \in Nat
    BY <1>1
  <2>2. CASE a <= Len(L)
    <3>1. i # Len(L)
      <4> SUFFICES ASSUME i = Len(L) PROVE FALSE
        OBVIOUS
      <4>1. i >= a
        BY <1>1, <2>1, <2>2
      <4>2. m(i) = i + Len(R) - (b - a + 1)
        BY <2>1, <4>1 DEF MovedTo
      <4>3. QED
        BY <1>1, <1>3a, <2>1, <4>2
    <3>2. i \in 1 .. Len(L) - 1
      BY <1>1a, <2>1, <3>1
    <3>3. QED
      BY <1>1, <3>2
  <2>3. QED
    BY <1>1, <2>1, <2>2
<1>6. \A j \in 1 .. Len(N) - 1 : N[j].nl
  <2>1. \A j \in 1 .. Len(N) - 1 : j \in DOMAIN N /\ j < Len(N)
    <3>1. DOMAIN N = 1 .. Len(N) /\ Len(N) \in Nat
      BY <1>3a
    <3>2. QED
      BY <3>1
  <2> HIDE DEF N, m
  <2>2. QED
    BY <1>2, <1>3, <1>5, <2>1
<1>7. N \in Seq(Line)
  <2>1. N = [i \in 1 .. Len(N) |-> N[i]] /\ Len(N) \in Nat /\ DOMAIN N = 1 .. Len(N)
    BY <1>3a
  <2> HIDE DEF N
  <2>2. QED
    BY <1>4, <2>1
<1>8. QED
  BY <1>6, <1>7 DEF IsText

LEMMA SectionEndIs ==
  ASSUME NEW L \in Seq(Line), NEW section, HeaderOf(L, section) # 0
  PROVE  /\ HeaderOf(L, section) \in DOMAIN L
         /\ SectionEnd(L, HeaderOf(L, section)) \in HeaderOf(L, section) + 1 .. Len(L) + 1
<1>1. PICK h : h = HeaderOf(L, section)
  OBVIOUS
<1>2. h \in Content(L)
  BY <1>1, HeaderIs
<1>3. h \in DOMAIN L /\ h \in 1 .. Len(L) /\ Len(L) \in Nat
  BY <1>2, LinesOf
<1>4. Len(L) + 1 \in h + 1 .. Len(L) + 1
  BY <1>3
<1>5. EndOfBlock(L, h, Len(L) + 1) \in h + 1 .. Len(L) + 1
  BY <1>3, <1>4, EndIs
<1>6. QED
  BY <1>1, <1>3, <1>5 DEF SectionEnd

LEMMA WithoutIsText ==
  ASSUME NEW L, IsText(L), NEW section, NEW key
  PROVE  IsText(Without(L, section, key))
<1>1. L \in Seq(Line) /\ Len(L) \in Nat /\ DOMAIN L = 1 .. Len(L)
  BY TextIs
<1>2. PICK h, e : h = HeaderOf(L, section) /\ e = SectionEnd(L, h)
  OBVIOUS
<1>3. PICK found : found = DirectChildren(L, h, key)
  OBVIOUS
<1>4. CASE h = 0 \/ found = {}
  <2>1. Without(L, section, key) = L
    BY <1>2, <1>3, <1>4 DEF Without
  <2>2. QED
    BY <2>1
<1>5. CASE h # 0 /\ found # {}
  <2>1. h \in DOMAIN L /\ e \in h + 1 .. Len(L) + 1
    BY <1>1, <1>2, <1>5, SectionEndIs
  <2>2. h \in Nat /\ e \in Nat
    BY <1>1, <2>1
  <2>3. found \subseteq h + 1 .. e - 1
    BY <1>2, <1>3 DEF DirectChildren
  <2>4. found \in SUBSET Nat
    BY <2>2, <2>3
  <2>5. PICK a : a = Least(found, 0)
    OBVIOUS
  <2>6. a \in found /\ Min(found) = a
    BY <1>5, <2>4, <2>5, LeastOf DEF Least
  <2>7. a \in Nat /\ h < a /\ a < e /\ a \in DOMAIN L /\ a <= Len(L) /\ a >= 1
    BY <1>1, <2>1, <2>2, <2>3, <2>6
  <2>8. PICK c : c = EndOfBlock(L, a, e)
    OBVIOUS
  <2>9. e \in a + 1 .. Len(L) + 1
    BY <1>1, <2>1, <2>2, <2>7
  <2>10. c \in a + 1 .. e
    BY <1>1, <2>7, <2>8, <2>9, EndIs
  <2>11. PICK b : b = c - 1
    OBVIOUS
  <2>12. b \in a - 1 .. Len(L) /\ a \in 1 .. Len(L) + 1
    BY <1>1, <2>1, <2>2, <2>7, <2>10, <2>11
  <2>13. PICK R : R = <<>>
    OBVIOUS
  <2>14. R \in Seq(EndedLines) /\ R \in Seq(Line)
    BY <2>13
  <2>15. Without(L, section, key) = SubSeq(L, 1, a - 1) \o SubSeq(L, SkipBlock(L, a, e) + 1, Len(L))
    BY <1>2, <1>3, <1>5, <2>6 DEF Without
  <2>16. SkipBlock(L, a, e) = b
    BY <2>8, <2>11 DEF SkipBlock
  <2>17. SubSeq(L, 1, a - 1) \in Seq(Line)
    BY <1>1, <2>7
  <2>18. SubSeq(L, 1, a - 1) \o <<>> = SubSeq(L, 1, a - 1)
    BY <2>17
  <2>19. Without(L, section, key) = Spliced(L, R, a, b)
    BY <2>13, <2>15, <2>16, <2>18 DEF Spliced
  <2>20. IsText(Spliced(L, R, a, b))
    BY <1>1, <2>7, <2>12, <2>14, SplicedIsText
  <2>21. QED
    BY <2>19, <2>20
<1>6. QED
  BY <1>4, <1>5

LEMMA AddIsText ==
  ASSUME NEW L, IsText(L), NEW section, NEW R, R \in Seq(EndedLines), Len(R) > 0, AddTo(L, section, R).ok
  PROVE  IsText(AddTo(L, section, R).lines)
<1>1. L \in Seq(Line) /\ Len(L) \in Nat /\ DOMAIN L = 1 .. Len(L)
      /\ (\A i \in DOMAIN L : L[i] \in Line) /\ (\A i \in 1 .. Len(L) - 1 : L[i].nl)
  BY TextIs
<1>1a. PICK m \in Nat : m = Len(L)
  BY <1>1, Zenon
<1>2. PICK h, e : h = HeaderOf(L, section) /\ e = SectionEnd(L, h)
  OBVIOUS
<1>3. h # 0
  BY <1>2 DEF AddTo, Refused
<1>4. h \in DOMAIN L /\ e \in h + 1 .. Len(L) + 1
  BY <1>1, <1>2, <1>3, SectionEndIs
<1>5. h \in Nat /\ e \in Nat /\ h >= 1 /\ h < e /\ e <= Len(L) + 1
  BY <1>1, <1>4
<1>6. PICK head : head = SubSeq(L, 1, e - 1)
  OBVIOUS
<1>7. AddTo(L, section, R).lines = Joined(head, R) \o SubSeq(L, e, Len(L))
  BY <1>2, <1>3, <1>6 DEF AddTo, Edited
<1>8. PICK b : b = e - 1
  OBVIOUS
<1>9. b \in Nat /\ b \in DOMAIN L /\ b >= 1 /\ b + 1 = e /\ b <= Len(L)
  BY <1>1, <1>5, <1>8
<1>10. head \in Seq(Line) /\ Len(head) = b /\ head[b] = L[b] /\ Last(head) = L[b]
  <2>1. head = SubSeq(L, 1, b)
    BY <1>6, <1>8
  <2>2. SubSeq(L, 1, b) \in Seq(Line) /\ Len(SubSeq(L, 1, b)) = b /\ SubSeq(L, 1, b)[b] = L[b]
    BY <1>1, <1>9
  <2>3. QED
    BY <2>1, <2>2 DEF Last
<1>11. R \in Seq(Line)
  BY EndedIsText
<1>12. head # <<>> /\ R # <<>>
  <2>1. PICK none : none = <<>>
    OBVIOUS
  <2>2. Len(none) = 0
    BY <2>1
  <2>3. head # none /\ R # none
    BY <1>9, <1>10, <2>2
  <2>4. QED
    BY <2>1, <2>3
<1>13. Joined(head, R) = IF L[b].nl THEN head \o R
                        ELSE Front(head) \o <<Glue(L[b], Head(R))>> \o Tail(R)
  BY <1>10, <1>12 DEF Joined
<1>14. CASE L[b].nl
  <2>1. AddTo(L, section, R).lines = Spliced(L, R, e, b)
    BY <1>6, <1>7, <1>9, <1>13, <1>14 DEF Spliced
  <2>2. e <= Len(L) \/ \A i \in DOMAIN L : L[i].nl
    <3> SUFFICES ASSUME ~(e <= Len(L)), NEW i \in DOMAIN L PROVE L[i].nl
      OBVIOUS
    <3>1. b = Len(L)
      BY <1>1a, <1>5, <1>9
    <3>2. i = b \/ i \in 1 .. Len(L) - 1
      BY <1>1, <3>1
    <3>3. QED
      BY <1>1, <1>14, <3>2
  <2>3. e \in 1 .. Len(L) + 1 /\ b \in e - 1 .. Len(L)
    BY <1>1, <1>5, <1>9
  <2>4. IsText(Spliced(L, R, e, b))
    BY <1>1, <1>11, <2>2, <2>3, SplicedIsText
  <2>5. QED
    BY <2>1, <2>4
<1>15. CASE ~L[b].nl
  <2>1. b = Len(L) /\ e = Len(L) + 1
    <3>1. b \notin 1 .. Len(L) - 1
      BY <1>1, <1>15
    <3>2. QED
      BY <1>1a, <1>9, <3>1
  <2>2. PICK last : last = Glue(L[b], Head(R))
    OBVIOUS
  <2>3. Head(R) \in EndedLines /\ Tail(R) \in Seq(EndedLines)
    <3>1. Head(R) = R[1] /\ R[1] \in EndedLines
      OBVIOUS
    <3>2. Tail(R) \in Seq(EndedLines)
      BY <1>12
    <3>3. QED
      BY <3>1, <3>2
  <2>4. last \in EndedLines
    <3>1. L[b] \in Line /\ Head(R).nl = TRUE
      <4>1. Head(R).nl /\ Head(R) \in Line
        BY <2>3 DEF EndedLines
      <4>2. Head(R).nl \in BOOLEAN
        BY <4>1 DEF Line
      <4>3. QED
        BY <1>1, <1>9, <4>1, <4>2
    <3>2. \/ last = [L[b] EXCEPT !.nl = TRUE] \/ last = [L[b] EXCEPT !.kind = "garbled", !.nl = TRUE]
          \/ last = [Head(R) EXCEPT !.ind = L[b].ind + Head(R).ind]
      BY <2>2, <3>1 DEF Glue
    <3>a. Head(R) \in Line /\ L[b].ind + Head(R).ind \in Nat
      BY <2>3, <3>1 DEF EndedLines, Line
    <3>3. QED
      BY <3>1, <3>2, <3>a DEF EndedLines, Line, Kinds
  <2>5. Front(head) \in Seq(EndedLines)
    <3>1. Front(head) = SubSeq(head, 1, b - 1)
      BY <1>10 DEF Front
    <3>2. \A i \in 1 .. b - 1 : head[i] = L[i]
      BY <1>1, <1>6, <1>8, <1>9
    <3>3. \A i \in 1 .. b - 1 : L[i] \in Line /\ L[i].nl
      BY <1>1, <1>9, <2>1
    <3>4. \A i \in 1 .. b - 1 : head[i] \in EndedLines
      BY <3>2, <3>3 DEF EndedLines
    <3>5. SubSeq(head, 1, b - 1) = [i \in 1 .. b - 1 |-> head[i]]
      BY <1>9, <1>10
    <3>6. b - 1 \in Nat
      BY <1>9
    <3>7. QED
      BY <3>1, <3>4, <3>5, <3>6
  <2>6. SubSeq(L, e, Len(L)) = <<>>
    BY <1>1, <2>1
  <2>7. PICK A : A = Front(head) \o <<last>> \o Tail(R)
    OBVIOUS
  <2>8. A \in Seq(EndedLines)
    BY <2>3, <2>4, <2>5, <2>7
  <2>9. AddTo(L, section, R).lines = A
    <3>1. Joined(head, R) = A
      BY <1>13, <1>15, <2>2, <2>7
    <3>2. A \o <<>> = A
      BY <2>8
    <3>3. QED
      BY <1>7, <2>6, <3>1, <3>2
  <2>10. QED
    BY <2>8, <2>9, EndedIsText
<1>16. QED
  BY <1>14, <1>15

LEMMA KeyEnded ==
  ASSUME NEW ind \in Nat, NEW key \in Words, NEW val \in Words
  PROVE  Key(ind, key, val) \in EndedLines
<1>1. PICK line : line = Key(ind, key, val)
  OBVIOUS
<1>2. line \in Line /\ line.key = key /\ line.val = val /\ line.nl
  BY <1>1, KeyIs
<1>3. QED
  BY <1>1, <1>2 DEF EndedLines

LEMMA ItemEnded ==
  ASSUME NEW ind \in Nat, NEW val \in Words
  PROVE  Item(ind, val) \in EndedLines
<1>1. PICK line : line = Item(ind, val)
  OBVIOUS
<1>2. line \in Line /\ line.nl
  BY <1>1, ItemIs
<1>3. QED
  BY <1>1, <1>2 DEF EndedLines

LEMMA ItemsEnded ==
  ASSUME NEW ind \in Nat, NEW vals \in Seq(Words)
  PROVE  Items(ind, vals) \in Seq(EndedLines)
<1>1. \A i \in 1 .. Len(vals) : Item(ind, vals[i]) \in EndedLines
  <2> SUFFICES ASSUME NEW i \in 1 .. Len(vals) PROVE Item(ind, vals[i]) \in EndedLines
    OBVIOUS
  <2>1. vals[i] \in Words
    OBVIOUS
  <2>2. QED
    BY <2>1, ItemEnded
<1>2. Items(ind, vals) = [i \in 1 .. Len(vals) |-> Item(ind, vals[i])]
  BY DEF Items
<1>3. QED
  BY <1>1, <1>2

(* A key with a list, as the edits render it. *)
LEMMA ListEnded ==
  ASSUME NEW head \in Seq(EndedLines), NEW ind \in Nat, NEW key \in Words, NEW vals \in Seq(Words),
         NEW R, R = head \o (IF vals = <<>> THEN <<Key(ind, key, "[]")>>
                             ELSE <<Key(ind, key, Blank)>> \o Items(ind + 1, vals))
  PROVE  R \in Seq(EndedLines) /\ Len(R) > 0
<1>1. "[]" \in Words /\ Blank \in Words
  BY SpokenWords
<1>2. PICK k1, k2 : k1 = Key(ind, key, "[]") /\ k2 = Key(ind, key, Blank)
  OBVIOUS
<1>3. k1 \in EndedLines /\ k2 \in EndedLines
  BY <1>1, <1>2, KeyEnded
<1>4. PICK items \in Seq(EndedLines) : items = Items(ind + 1, vals)
  <2>1. ind + 1 \in Nat
    OBVIOUS
  <2>2. QED
    BY <2>1, ItemsEnded
<1>5. PICK more : more = <<k2>> \o items
  OBVIOUS
<1>6. more \in Seq(EndedLines) /\ Len(more) > 0
  BY <1>3, <1>5
<1>7. PICK one : one = <<k1>>
  OBVIOUS
<1>8. one \in Seq(EndedLines) /\ Len(one) > 0
  BY <1>3, <1>7
<1>9. R = head \o one \/ R = head \o more
  BY <1>2, <1>4, <1>5, <1>7
<1>10. ASSUME NEW tail \in Seq(EndedLines), Len(tail) > 0
       PROVE  head \o tail \in Seq(EndedLines) /\ Len(head \o tail) > 0
  <2>1. head \o tail \in Seq(EndedLines) /\ Len(head \o tail) = Len(head) + Len(tail)
    BY ConcatProperties
  <2>2. Len(head) \in Nat /\ Len(tail) \in Nat
    OBVIOUS
  <2>3. QED
    BY <1>10, <2>1, <2>2
<1>11. PICK tail \in Seq(EndedLines) : R = head \o tail /\ Len(tail) > 0
  BY <1>6, <1>8, <1>9
<1>12. QED
  BY <1>10, <1>11

LEMMA UpstreamEnded ==
  ASSUME NEW s, s.uri \in Words, s.auth \in Words, s.noProxy \in Seq(Words)
  PROVE  RenderUpstream(1, s) \in Seq(EndedLines) /\ Len(RenderUpstream(1, s)) > 0
<1>1. PICK vals \in Seq(Words) : vals = s.noProxy
  OBVIOUS
<1>2. PICK k1, k2 : k1 = Key(1, "output_proxy_uri", s.uri) /\ k2 = Key(1, "add_windows_authentication", s.auth)
  OBVIOUS
<1>3. "output_proxy_uri" \in Words /\ "add_windows_authentication" \in Words /\ "no_proxy" \in Words
  BY SpokenWords DEF SettingWords
<1>4. k1 \in EndedLines /\ k2 \in EndedLines
  BY <1>2, <1>3, KeyEnded
<1>5. PICK head : head = <<k1, k2>>
  OBVIOUS
<1>6. head \in Seq(EndedLines)
  BY <1>4, <1>5
<1>7. PICK R : R = RenderUpstream(1, s)
  OBVIOUS
<1>8. R = head \o (IF vals = <<>> THEN <<Key(1, "no_proxy", "[]")>>
                   ELSE <<Key(1, "no_proxy", Blank)>> \o Items(1 + 1, vals))
  BY <1>1, <1>2, <1>5, <1>7, Zenon DEF RenderUpstream, Blank
<1>9. R \in Seq(EndedLines) /\ Len(R) > 0
  <2>1. PICK ind \in Nat : ind = 1
    OBVIOUS
  <2>2. R = head \o (IF vals = <<>> THEN <<Key(ind, "no_proxy", "[]")>>
                     ELSE <<Key(ind, "no_proxy", Blank)>> \o Items(ind + 1, vals))
    BY <1>8, <2>1
  <2>3. QED
    BY <1>3, <1>6, <2>2, ListEnded
<1>10. QED
  BY <1>7, <1>9

LEMMA AccessEnded ==
  ASSUME NEW access, IsTyped(access)
  PROVE  RenderAccess(1, access) \in Seq(EndedLines) /\ Len(RenderAccess(1, access)) > 0
<1>0. access.mode \in Modes /\ access.mode \in Words /\ access.networks \in Seq(Words)
  BY ModesAreWords DEF IsTyped
<1>1. PICK vals \in Seq(Words) : vals = access.networks
  BY <1>0
<1>2. PICK k1, k2 : k1 = Key(1, "access_control", Blank) /\ k2 = Key(2, "mode", access.mode)
  OBVIOUS
<1>3. "access_control" \in Words /\ "mode" \in Words /\ "networks" \in Words /\ Blank \in Words
  BY SpokenWords DEF SettingWords
<1>4. k1 \in EndedLines /\ k2 \in EndedLines
  BY <1>0, <1>2, <1>3, KeyEnded
<1>5. PICK head : head = <<k1, k2>>
  OBVIOUS
<1>6. head \in Seq(EndedLines)
  BY <1>4, <1>5
<1>7. PICK R : R = RenderAccess(1, access)
  OBVIOUS
<1>8. R = head \o (IF vals = <<>> THEN <<Key(1 + 1, "networks", "[]")>>
                   ELSE <<Key(1 + 1, "networks", Blank)>> \o Items(1 + 2, vals))
  <2>1. RenderAccess(1, access) =
          <<Key(1, "access_control", Blank), Key(1 + 1, "mode", access.mode)>>
          \o (IF vals = <<>> THEN <<Key(1 + 1, "networks", "[]")>>
                   ELSE <<Key(1 + 1, "networks", Blank)>> \o Items(1 + 2, vals))
    BY <1>1, Zenon DEF RenderAccess, Blank
  <2>2. 1 + 1 = 2
    OBVIOUS
  <2>3. QED
    BY <1>2, <1>5, <1>7, <2>1, <2>2
<1>9. R = head \o (IF vals = <<>> THEN <<Key(2, "networks", "[]")>>
                   ELSE <<Key(2, "networks", Blank)>> \o Items(2 + 1, vals))
  <2>1. 1 + 1 = 2 /\ 1 + 2 = 2 + 1
    OBVIOUS
  <2>2. QED
    BY <1>8, <2>1
<1>10. R \in Seq(EndedLines) /\ Len(R) > 0
  BY <1>3, <1>6, <1>9, ListEnded
<1>11. QED
  BY <1>7, <1>10

LEMMA RulesEnded ==
  ASSUME NEW s \in RulesRequests
  PROVE  RenderRules(1, s) \in Seq(EndedLines) /\ Len(RenderRules(1, s)) > 0
<1>1. PICK k1, k2, k3, k4, k5 :
        /\ k1 = Key(1, "default_max_bytes", "0") /\ k2 = Key(1, "mime_types", Blank)
        /\ k3 = Item(2, "text/*") /\ k4 = Key(3, "max_size", "0") /\ k5 = Item(2, "*/*")
  OBVIOUS
<1>2. "default_max_bytes" \in Words /\ "mime_types" \in Words /\ "max_size" \in Words /\ Blank \in Words
  BY SpokenWords DEF SettingWords
<1>3. k1 \in EndedLines /\ k2 \in EndedLines /\ k4 \in EndedLines
  BY <1>1, <1>2, ZeroIsSaid, KeyEnded
<1>4. k3 \in EndedLines /\ k5 \in EndedLines
  BY <1>1, ZeroIsSaid, ItemEnded
<1>5. PICK A, C : A = <<k2>> /\ C = <<k1, k2, k3, k4, k5>>
  OBVIOUS
<1>6. A \in Seq(EndedLines) /\ Len(A) > 0 /\ C \in Seq(EndedLines) /\ Len(C) > 0
  BY <1>3, <1>4, <1>5
<1>7. RenderRules(1, s) = A \/ RenderRules(1, s) = C
  BY <1>1, <1>5, RulesRendered
<1>8. QED
  BY <1>6, <1>7

LEMMA ScalarIsText ==
  ASSUME NEW L, IsText(L), NEW section, NEW key \in EditedInPlace, NEW direct, NEW value \in Words,
         SetScalar(L, section, key, direct, value).ok
  PROVE  IsText(SetScalar(L, section, key, direct, value).lines)
<1>1. L \in Seq(Line) /\ Len(L) \in Nat /\ DOMAIN L = 1 .. Len(L)
      /\ (\A i \in DOMAIN L : L[i] \in Line) /\ (\A i \in 1 .. Len(L) - 1 : L[i].nl)
  BY TextIs
<1>2. PICK h, e : h = HeaderOf(L, section) /\ e = SectionEnd(L, h)
  OBVIOUS
<1> DEFINE found == {i \in h + 1 .. e - 1 : IsKey(L[i], {key}) /\ (direct => L[i].ind = L[h].ind + 1)}
<1>3. SetScalar(L, section, key, direct, value)
        = IF h = 0 \/ found = {} THEN Refused ELSE Edited([L EXCEPT ![Min(found)].val = value])
  BY <1>2 DEF SetScalar
<1> HIDE DEF found
<1>4. h # 0 /\ found # {}
  BY <1>3 DEF Refused
<1>5. h \in DOMAIN L /\ e \in h + 1 .. Len(L) + 1
  BY <1>1, <1>2, <1>4, SectionEndIs
<1>6. h \in Nat /\ e \in Nat /\ h >= 1 /\ e <= Len(L) + 1
  BY <1>1, <1>5
<1>7. PICK x : x = Least(found, 0)
  OBVIOUS
<1>8. x \in found /\ Min(found) = x
  <2>1. found \in SUBSET Nat
    BY <1>6 DEF found
  <2>2. QED
    BY <1>4, <1>7, <2>1, LeastOf DEF Least
<1>9. x \in DOMAIN L /\ L[x].key = key
  BY <1>1, <1>6, <1>8 DEF found, IsKey
<1>10. PICK line : line = [L[x] EXCEPT !.val = value]
  OBVIOUS
<1>11. line \in Line /\ line.nl = L[x].nl
  <2>1. L[x] \in Line
    BY <1>1, <1>9
  <2>2. line \in Line /\ line.key = L[x].key /\ line.nl = L[x].nl
    BY <1>10, <2>1 DEF Line
  <2>3. QED
    BY <2>2
<1>12. PICK N : N = [L EXCEPT ![x] = line]
  OBVIOUS
<1>13. SetScalar(L, section, key, direct, value).lines = N
  BY <1>3, <1>4, <1>8, <1>10, <1>12 DEF Edited
<1>14. N \in Seq(Line) /\ Len(N) = Len(L) /\ \A i \in DOMAIN L : N[i] = IF i = x THEN line ELSE L[i]
  BY <1>1, <1>9, <1>11, <1>12
<1>15. \A i \in 1 .. Len(N) - 1 : N[i].nl
  BY <1>1, <1>11, <1>14
<1>16. QED
  BY <1>13, <1>14, <1>15 DEF IsText

(* An edit, of a tidy text or not, leaves a text. *)
LEMMA EditIsText ==
  ASSUME NEW L, IsText(L), NEW s \in Requests, Edit(L, Checked(s)).ok
  PROVE  IsText(Edit(L, Checked(s)).lines)
<1>1. s.set \in {"storage", "decrypt", "rules", "upstream", "access"}
  BY RequestsAre
<1>2. PICK edit : edit = Edit(L, Checked(s))
  OBVIOUS
<1>3. CASE s.set \in {"storage", "decrypt"}
  <2>1. s.enabled \in Words
    BY <1>3, RequestsAre, SwitchRequestsAre
  <2>2. edit = SetScalar(L, "storage", "enable", FALSE, s.enabled)
        \/ edit = SetScalar(L, "decrypt_https", "enabled", TRUE, s.enabled)
    BY <1>2, <1>3, CheckedIs DEF Edit, EditStorage, EditDecrypt
  <2>3. "enable" \in EditedInPlace /\ "enabled" \in EditedInPlace
    BY DEF EditedInPlace
  <2>4. ASSUME NEW section, NEW key \in EditedInPlace, NEW direct, edit = SetScalar(L, section, key, direct, s.enabled)
        PROVE  IsText(edit.lines)
    <3>1. SetScalar(L, section, key, direct, s.enabled).ok
      BY <1>2, <2>4
    <3>2. IsText(SetScalar(L, section, key, direct, s.enabled).lines)
      BY <2>1, <3>1, ScalarIsText
    <3>3. QED
      BY <2>4, <3>2
  <2>5. QED
    BY <1>2, <2>2, <2>3, <2>4
<1>4. CASE s.set = "rules"
  <2>1. s \in RulesRequests
    BY <1>4, RequestsAre
  <2>2. PICK M, R : M = WithoutRules(L) /\ R = RenderRules(1, s)
    OBVIOUS
  <2>3. edit = AddTo(M, "decrypt_https", R)
    BY <1>2, <1>4, <2>2, CheckedIs DEF Edit, EditRules
  <2>4. IsText(M)
    BY <2>2, WithoutIsText DEF WithoutRules
  <2>5. R \in Seq(EndedLines) /\ Len(R) > 0
    BY <2>1, <2>2, RulesEnded
  <2>6. QED
    BY <1>2, <2>3, <2>4, <2>5, AddIsText
<1>5. CASE s.set = "upstream"
  <2>1. s \in UpstreamRequests
    BY <1>5, RequestsAre
  <2>2. PICK M, R : M = WithoutUpstream(L) /\ R = RenderUpstream(1, s)
    OBVIOUS
  <2>3. edit = AddTo(M, "proxy", R)
    BY <1>2, <1>5, <2>2, CheckedIs DEF Edit, EditUpstream
  <2>4. IsText(M)
    <3>1. PICK M1 : M1 = Without(L, "proxy", "output_proxy_uri")
      OBVIOUS
    <3>2. PICK M2 : M2 = Without(M1, "proxy", "add_windows_authentication")
      OBVIOUS
    <3>3. IsText(M1)
      BY <3>1, WithoutIsText
    <3>4. IsText(M2)
      BY <3>2, <3>3, WithoutIsText
    <3>5. M = Without(M2, "proxy", "no_proxy")
      BY <2>2, <3>1, <3>2 DEF WithoutUpstream
    <3>6. QED
      BY <3>4, <3>5, WithoutIsText
  <2>5. R \in Seq(EndedLines) /\ Len(R) > 0
    BY <2>1, <2>2, UpstreamRequestsAre, UpstreamEnded
  <2>6. QED
    BY <1>2, <2>3, <2>4, <2>5, AddIsText
<1>6. CASE s.set = "access"
  <2>1. IsTyped(s.proxy) /\ IsTyped(s.webui)
    BY <1>6, RequestsAre, AccessRequestsAre
  <2>2. PICK p, w : p = NormalizeAccessControl(s.proxy, FALSE) /\ w = NormalizeAccessControl(s.webui, FALSE)
    OBVIOUS
  <2>3. IsTyped(p) /\ IsTyped(w)
    BY <2>1, <2>2, NormalOfTyped
  <2>4. PICK t : t = [set |-> "access", proxy |-> p, webui |-> w]
    OBVIOUS
  <2>5. edit = EditAccess(L, t)
    <3>1. Checked(s) = t
      BY <1>6, <2>2, <2>4, CheckedIs
    <3>2. t.set = "access"
      BY <2>4
    <3>3. QED
      BY <1>2, <3>1, <3>2 DEF Edit
  <2>6. PICK proxy : proxy = EditSection(L, "proxy", p)
    OBVIOUS
  <2>7. PICK M : M = proxy.lines
    OBVIOUS
  <2>8. PICK web : web = EditSection(M, "webui", w)
    OBVIOUS
  <2>9. EditAccess(L, t) = IF proxy.ok THEN web ELSE Refused
    BY <2>4, <2>6, <2>7, <2>8 DEF EditAccess, EditSection
  <2>10. proxy.ok /\ edit = web /\ web.ok
    BY <1>2, <2>5, <2>9 DEF Refused
  <2>11. ASSUME NEW T, IsText(T), NEW section, NEW access, IsTyped(access), EditSection(T, section, access).ok
         PROVE  IsText(EditSection(T, section, access).lines)
    <3>1. PICK A, R : A = WithoutAccess(T, section) /\ R = RenderAccess(1, access)
      OBVIOUS
    <3>2. IsText(A)
      BY <2>11, <3>1, WithoutIsText DEF WithoutAccess
    <3>3. R \in Seq(EndedLines) /\ Len(R) > 0
      BY <2>11, <3>1, AccessEnded
    <3>4. AddTo(A, section, R).ok
      BY <2>11, <3>1 DEF EditSection
    <3>5. IsText(AddTo(A, section, R).lines)
      BY <3>2, <3>3, <3>4, AddIsText
    <3>6. QED
      BY <3>1, <3>5 DEF EditSection
  <2>12. IsText(M)
    BY <2>3, <2>6, <2>7, <2>10, <2>11
  <2>13. IsText(web.lines)
    BY <2>3, <2>8, <2>10, <2>11, <2>12
  <2>14. QED
    BY <1>2, <2>10, <2>13
<1>7. QED
  BY <1>1, <1>3, <1>4, <1>5, <1>6

LEMMA ValuesRead ==
  ASSUME NEW L, IsText(L), NEW i
  PROVE  Values(L, ItemsBelow(L, Parents(L), i)) \in Seq(Words)
<1>1. L \in Seq(Line) /\ DOMAIN L \in SUBSET Nat /\ IsFiniteSet(DOMAIN L)
      /\ \A j \in DOMAIN L : L[j] \in Line
  <2>1. L \in Seq(Line)
    BY TextIs
  <2>2. DOMAIN L = 1 .. Len(L) /\ Len(L) \in Nat /\ (\A j \in DOMAIN L : L[j] \in Line) /\ IsFiniteSet(DOMAIN L)
    BY <2>1, LinesOf
  <2>3. QED
    BY <2>1, <2>2
<1>2. \A j \in DOMAIN L : L[j].val \in Words
  BY <1>1 DEF Line
<1>3. PICK items : items = ItemsBelow(L, Parents(L), i)
  OBVIOUS
<1>4. PICK n \in Nat : items \in [1 .. n -> DOMAIN L]
  <2>1. CASE i = 0
    <3>1. items = <<>>
      BY <1>3, <2>1 DEF ItemsBelow
    <3>2. items \in [1 .. 0 -> DOMAIN L]
      BY <3>1
    <3>3. QED
      BY <3>2
  <2>2. CASE i # 0
    <3>1. PICK S : S = {j \in DOMAIN L : L[j].kind = "item" /\ Parents(L)[j] = i}
      OBVIOUS
    <3>2. S \in SUBSET Nat /\ S \subseteq DOMAIN L /\ IsFiniteSet(S)
      BY <1>1, <3>1, FS_Subset
    <3>3. Cardinality(S) \in Nat /\ InOrder(S) \in [1 .. Cardinality(S) -> S]
      BY <3>2, OrderOf
    <3>4. items = InOrder(S)
      BY <1>3, <2>2, <3>1 DEF ItemsBelow
    <3>5. QED
      BY <3>2, <3>3, <3>4
  <2>3. QED
    BY <2>1, <2>2
<1>5. Values(L, items) = [k \in 1 .. n |-> L[items[k]].val]
  BY <1>4 DEF Values
<1>6. \A k \in 1 .. n : L[items[k]].val \in Words
  BY <1>2, <1>4
<1>7. QED
  BY <1>3, <1>5, <1>6

LEMMA ModeRead ==
  ASSUME NEW L, IsText(L), NEW above
  PROVE  Scalar(L, Child(L, Parents(L), above, "mode"), Blank) \in Words
<1>1. PICK i : i = Child(L, Parents(L), above, "mode")
  OBVIOUS
<1>2. L \in Seq(Line) /\ \A j \in DOMAIN L : L[j].val \in Words
  BY TextIs DEF Line
<1>3. i # 0 => i \in DOMAIN L
  <2> SUFFICES ASSUME i # 0 PROVE i \in DOMAIN L
    OBVIOUS
  <2>1. PICK S : S = {j \in DOMAIN L : IsKey(L[j], {"mode"}) /\ Parents(L)[j] = above}
    OBVIOUS
  <2>2. i = Least(S, 0)
    BY <1>1, <2>1 DEF Child, At
  <2>3. S \in SUBSET Nat
    BY <1>2, <2>1, LinesOf
  <2>4. i \in S
    BY <2>2, <2>3, LeastOf
  <2>5. QED
    BY <2>1, <2>4
<1>4. Blank \in Words
  BY SpokenWords
<1>5. QED
  BY <1>1, <1>2, <1>3, <1>4 DEF Scalar

LEMMA AccessIsNormal ==
  ASSUME NEW access
  PROVE  access \in Access <=> access \in [mode : Words \ {Blank}, networks : Seq(Words)]
  BY Zenon DEF Access, Blank

LEMMA NormalInAccess ==
  ASSUME NEW mode \in Words, NEW networks \in Seq(Words), NEW remote
  PROVE  NormalizeAccessControl([mode |-> mode, networks |-> networks], remote) \in Access
<1>1. PICK access : access = [mode |-> mode, networks |-> networks]
  OBVIOUS
<1>2. access.mode = mode /\ access.networks = networks
  BY <1>1
<1>3. NormalizeAccessControl(access, remote)
        = [mode |-> IF access.mode # Blank THEN access.mode ELSE IF remote THEN "open" ELSE "loopback",
           networks |-> CleanNetworks(access.networks)]
  BY Zenon DEF NormalizeAccessControl, Blank
<1>4. CleanNetworks(networks) \in Seq(Words)
  BY CleanWords
<1>5. "open" \in Words /\ "loopback" \in Words /\ "open" # Blank /\ "loopback" # Blank
  BY ModesAreWords DEF Modes
<1>6. QED
  BY <1>1, <1>2, <1>3, <1>4, <1>5, AccessIsNormal

LEMMA LoadInAccess ==
  ASSUME NEW L, IsText(L)
  PROVE  Load(L).proxy \in Access /\ Load(L).webui \in Access
<1>1. ASSUME NEW section
      PROVE  AccessRead(L, section) \in Access
  <2>1. PICK read : read = Read(L, section, "access_control")
    OBVIOUS
  <2>2. PICK block : block = Field(L, Parents(L), section, "access_control")
    OBVIOUS
  <2>3. /\ read.mode = Scalar(L, Child(L, Parents(L), block, "mode"), Blank)
        /\ read.networks = Values(L, ItemsBelow(L, Parents(L), Child(L, Parents(L), block, "networks")))
    BY <2>1, <2>2 DEF Read, Meaning
  <2>4. read.mode \in Words /\ read.networks \in Seq(Words)
    BY <2>3, ModeRead, ValuesRead
  <2>5. PICK remote : remote = (Switch(Read(L, section, "enable_remote_connection").val) = "true")
    OBVIOUS
  <2>6. AccessRead(L, section) = NormalizeAccessControl([mode |-> read.mode, networks |-> read.networks], remote)
    BY <2>1, <2>5, Zenon DEF AccessRead
  <2>7. QED
    BY <2>4, <2>6, NormalInAccess
<1>2. QED
  BY <1>1, LoadReads

LEMMA DefaultIsText == IsText(DefaultFile)
<1>1. PICK D : D = DefaultFile
  OBVIOUS
<1>2. D \in Seq(Line) /\ DOMAIN D = 1 .. 24 /\ \A i \in 1 .. 24 : D[i].nl
  <2>1. D \in Seq(Line) /\ DOMAIN D = 1 .. 24 /\ \A i \in DOMAIN D : D[i].nl
    BY <1>1, DefaultIsTidy, DefaultLines, TidyIs
  <2>2. QED
    BY <2>1
<1>5. \A i \in 1 .. 24 : D[i] \in Line
  BY <1>2, LinesOf
<1>6. \A i \in 1 .. 24 : D[i] \in EndedLines
  BY <1>2, <1>5 DEF EndedLines
<1>7. D = [i \in 1 .. 24 |-> D[i]]
  BY <1>2
<1>8. D \in Seq(EndedLines)
  BY <1>6, <1>7
<1>9. QED
  BY <1>1, <1>8, EndedIsText

-----------------------------------------------------------------------------
(* The types, for every text the program may find *)

TypeInv ==
  /\ IsText(file) /\ IsText(original) /\ IsText(output)
  /\ present \in BOOLEAN /\ running \in BOOLEAN /\ torn \in BOOLEAN
  /\ IsConf(conf) /\ conf.proxy \in Access /\ conf.webui \in Access
  /\ writing \in Requests \cup {Idle}
  /\ saves \in 0 .. MaxSaves
  /\ faults \in 0 .. MaxFaults

LEMMA EmptyIsText == IsText(<<>>)
<1>1. <<>> \in Seq(EndedLines)
  OBVIOUS
<1>2. QED
  BY <1>1, EndedIsText

LEMMA IdleIs == Idle \notin Requests
<1>1. Idle.set = "idle"
  BY DEF Idle
<1>2. QED
  BY <1>1, RequestsAre

LEMMA SettingsAdopted ==
  ASSUME IsConf(conf), conf.proxy \in Access, conf.webui \in Access, NEW s \in Requests
  PROVE  LET c == Apply(conf, Checked(s))
         IN IsConf(c) /\ c.proxy \in Access /\ c.webui \in Access
<1>1. PICK t : t = Checked(s)
  OBVIOUS
<1>2. s.set \in {"storage", "decrypt", "rules", "upstream", "access"}
  BY RequestsAre
<1>3. CASE s.set # "access"
  <2>1. t = s
    BY <1>1, <1>3, CheckedIs
  <2>2. /\ IsConf(Apply(conf, t)) /\ Apply(conf, t).proxy = conf.proxy /\ Apply(conf, t).webui = conf.webui
    BY <1>2, <1>3, <2>1, ApplyIs
  <2>3. QED
    BY <1>1, <2>2
<1>4. CASE s.set = "access"
  <2>1. IsTyped(s.proxy) /\ IsTyped(s.webui)
    BY <1>4, RequestsAre, AccessRequestsAre
  <2>2. PICK p, w : p = NormalizeAccessControl(s.proxy, FALSE) /\ w = NormalizeAccessControl(s.webui, FALSE)
    OBVIOUS
  <2>3. IsTyped(p) /\ IsTyped(w)
    BY <2>1, <2>2, NormalOfTyped
  <2>4. p \in Access /\ w \in Access
    BY <2>3, ModesAreWords, AccessIsNormal DEF IsTyped
  <2>5. t = [set |-> "access", proxy |-> p, webui |-> w]
    BY <1>1, <1>4, <2>2, CheckedIs
  <2>6. t.set = "access" /\ t.proxy = p /\ t.webui = w
    BY <2>5
  <2>7. IsConf(Apply(conf, t)) /\ Apply(conf, t).proxy = p /\ Apply(conf, t).webui = w
    BY <2>6, ApplyIs
  <2>8. QED
    BY <1>1, <2>4, <2>7
<1>5. QED
  BY <1>3, <1>4

LEMMA TypeInit == Init => TypeInv
<1> SUFFICES ASSUME Init PROVE TypeInv
  OBVIOUS
<1>1. IsText(file)
  <2>1. CASE present = FALSE /\ file = <<>>
    BY <2>1, EmptyIsText
  <2>2. CASE file \in Texts
    BY <2>2, ConfigFileAssumption
  <2>3. QED
    BY <2>1, <2>2 DEF Init
<1>2. original = file /\ output = <<>> /\ present \in BOOLEAN /\ running = FALSE /\ torn = FALSE /\ writing = Idle
      /\ conf = NoSettings /\ saves = 0 /\ faults = 0
  BY DEF Init
<1>3. MaxSaves \in Nat /\ MaxFaults \in Nat
  BY ConfigFileAssumption
<1>4. IsConf(NoSettings) /\ NoSettings.proxy \in Access /\ NoSettings.webui \in Access
  <2>1. NoAccess \in Access
    <3>1. NoAccess = [mode |-> "loopback", networks |-> <<>>]
      BY DEF NoAccess
    <3>2. "loopback" \in Words /\ "loopback" # Blank /\ <<>> \in Seq(Words)
      BY ModesAreWords DEF Modes
    <3>3. PICK none \in Seq(Words) : none = <<>>
      BY <3>2, Zenon
    <3>4. QED
      BY <3>1, <3>2, <3>3, AccessIsNormal
  <2>2. PICK none : none = <<>>
    OBVIOUS
  <2>3. NoSettings = [uri |-> Blank, auth |-> "false", noProxy |-> none, proxy |-> NoAccess, webui |-> NoAccess,
                      storage |-> "false", decrypt |-> "false", limit |-> Blank, rules |-> none]
    BY <2>2, Zenon DEF NoSettings, Blank
  <2>4. PICK a : a = NoAccess
    OBVIOUS
  <2>5. NoSettings = [uri |-> Blank, auth |-> "false", noProxy |-> none, proxy |-> a, webui |-> a,
                      storage |-> "false", decrypt |-> "false", limit |-> Blank, rules |-> none]
    BY <2>3, <2>4, Zenon
  <2>6. QED
    BY <2>1, <2>4, <2>5 DEF IsConf
<1>5. IsText(output)
  BY <1>2, EmptyIsText
<1>6. saves \in 0 .. MaxSaves /\ faults \in 0 .. MaxFaults
  BY <1>2, <1>3
<1>7. QED
  BY <1>1, <1>2, <1>4, <1>5, <1>6 DEF TypeInv

LEMMA TypeBegin == ASSUME TypeInv, NEW s \in Requests, BeginSave(s) PROVE TypeInv'
<1>1. /\ output' = Edit(file, Checked(s)).lines /\ Edit(file, Checked(s)).ok
      /\ writing' = s /\ original' = file /\ file' = <<>> /\ saves < MaxSaves /\ saves' = saves + 1
      /\ present' = present /\ running' = running /\ conf' = conf /\ torn' = torn /\ faults' = faults
  BY DEF BeginSave
<1>2. IsText(output')
  BY <1>1, EditIsText DEF TypeInv
<1>3. IsText(file')
  BY <1>1, EmptyIsText
<1>4. saves' \in 0 .. MaxSaves
  BY <1>1, ConfigFileAssumption DEF TypeInv
<1>5. QED
  BY <1>1, <1>2, <1>3, <1>4 DEF TypeInv

LEMMA TypeEnd == TypeInv /\ EndSave => TypeInv'
<1> SUFFICES ASSUME TypeInv, EndSave PROVE TypeInv'
  OBVIOUS
<1>1. /\ writing \in Requests /\ file' = output /\ conf' = Apply(conf, Checked(writing)) /\ writing' = Idle
      /\ output' = <<>> /\ present' = present /\ original' = original /\ running' = running /\ torn' = torn
      /\ saves' = saves /\ faults' = faults
  BY DEF EndSave, TypeInv
<1>2. IsConf(conf') /\ conf'.proxy \in Access /\ conf'.webui \in Access
  BY <1>1, SettingsAdopted DEF TypeInv
<1>3. IsText(output')
  BY <1>1, EmptyIsText
<1>4. QED
  BY <1>1, <1>2, <1>3 DEF TypeInv

LEMMA PieceIsLine ==
  ASSUME NEW line \in Line, NEW piece \in Pieces(line)
  PROVE  piece \in Line
<1>1. "cut" \in Words /\ Blank \in Words
  BY SpokenWords
<1>2. PICK gap : gap = BlankLine(line.ind)
  OBVIOUS
<1>3. gap \in Line
  <2>1. gap = [Key(line.ind, Blank, Blank) EXCEPT !.kind = "blank"]
    BY <1>2, Zenon DEF BlankLine, Blank
  <2>2. line.ind \in Nat
    BY DEF Line
  <2>3. QED
    BY <1>1, <2>1, <2>2 DEF Key, Line, Kinds
<1>4. PICK vals : vals = CutValues(line)
  OBVIOUS
<1>5. vals \subseteq Words
  <2>1. vals \subseteq {Blank, line.val, "cut"}
    BY <1>4, Zenon DEF CutValues, Blank
  <2>2. line.val \in Words
    BY DEF Line
  <2>3. QED
    BY <1>1, <2>1, <2>2
<1>6. \/ piece = [gap EXCEPT !.nl = FALSE] \/ piece = [line EXCEPT !.nl = FALSE]
      \/ piece = [line EXCEPT !.kind = "garbled", !.nl = FALSE]
      \/ \E val \in vals : piece = [line EXCEPT !.val = val, !.note = FALSE, !.nl = FALSE]
  BY <1>2, <1>4, Zenon DEF Pieces
<1>7. QED
  BY <1>3, <1>5, <1>6 DEF Line, Kinds

LEMMA EndedBy ==
  ASSUME NEW S, NEW lines \in Seq(S), NEW more \in Seq(S), NEW n \in Nat, Len(lines) = n, Len(more) <= 1
  PROVE  /\ lines \o more \in Seq(S) /\ Len(lines \o more) - 1 <= n
         /\ \A i \in 1 .. n : (lines \o more)[i] = lines[i]
OBVIOUS

LEMMA CutIsText ==
  ASSUME NEW lines, IsText(lines), NEW left \in CutsOf(lines)
  PROVE  IsText(left)
<1>1. PICK n \in {c \in Cuts : c < Len(lines)} : left \in CutAfter(lines, n)
  BY DEF CutsOf
<1>2. n \in Nat /\ lines \in Seq(Line) /\ Len(lines) \in Nat /\ n < Len(lines)
  BY <1>1, ConfigFileAssumption, TextIs
<1>3. PICK head : head = SubSeq(lines, 1, n)
  OBVIOUS
<1>4. /\ head \in Seq(Line) /\ Len(head) = n
      /\ \A i \in 1 .. n : head[i] = lines[i]
  BY <1>2, <1>3
<1>5. PICK more : left = head \o more /\ (more = <<>> \/ \E piece \in Pieces(lines[n + 1]) : more = <<piece>>)
  BY <1>1, <1>3, Zenon DEF CutAfter
<1>6. n + 1 \in 1 .. Len(lines) /\ lines[n + 1] \in Line
  BY <1>2
<1>7. more \in Seq(Line) /\ Len(more) <= 1
  <2>1. CASE more = <<>>
    BY <2>1
  <2>2. CASE \E piece \in Pieces(lines[n + 1]) : more = <<piece>>
    <3>1. PICK piece : more = <<piece>> /\ piece \in Line
      BY <1>6, <2>2, PieceIsLine
    <3>2. QED
      BY <3>1
  <2>3. QED
    BY <1>5, <2>1, <2>2
<1>8. /\ left \in Seq(Line) /\ Len(left) - 1 <= n
      /\ \A i \in 1 .. n : left[i] = lines[i]
  BY <1>2, <1>4, <1>5, <1>7, EndedBy
<1>9. \A i \in 1 .. Len(left) - 1 : i \in 1 .. n /\ i \in 1 .. Len(lines) - 1
  BY <1>2, <1>8
<1>10. \A i \in 1 .. Len(left) - 1 : left[i].nl
  BY <1>8, <1>9, TextIs
<1>11. QED
  BY <1>8, <1>10 DEF IsText

LEMMA TypeDefaults == TypeInv /\ UseDefaults =>
  /\ IsConf(conf') /\ conf'.proxy \in Access /\ conf'.webui \in Access
  /\ IsText(file') /\ IsText(original') /\ present' \in BOOLEAN /\ torn' \in BOOLEAN
<1> SUFFICES ASSUME TypeInv, UseDefaults
             PROVE  /\ IsConf(conf') /\ conf'.proxy \in Access /\ conf'.webui \in Access
                    /\ IsText(file') /\ IsText(original') /\ present' \in BOOLEAN /\ torn' \in BOOLEAN
  OBVIOUS
<1>1. conf' = Load(DefaultFile)
  BY DEF UseDefaults, DefaultConfig
<1>2. IsConf(conf') /\ conf'.proxy \in Access /\ conf'.webui \in Access
  BY <1>1, DefaultIsText, LoadReads, LoadInAccess
<1>3. \/ file' = DefaultFile /\ original' = DefaultFile /\ present' = TRUE /\ torn' = FALSE
      \/ file' \in CutsOf(DefaultFile) /\ original' = original /\ present' = TRUE /\ torn' = TRUE
      \/ file' = file /\ original' = original /\ present' = present /\ torn' = TRUE
  BY DEF UseDefaults
<1>4. QED
  BY <1>2, <1>3, DefaultIsText, CutIsText DEF TypeInv

LEMMA TypeStart == TypeInv /\ (Start \/ StartUnread) => TypeInv'
<1> SUFFICES ASSUME TypeInv, Start \/ StartUnread PROVE TypeInv'
  OBVIOUS
<1>1. /\ running' = TRUE /\ writing' = writing /\ output' = output /\ saves' = saves
      /\ faults' = faults \/ (faults < MaxFaults /\ faults' = faults + 1)
      /\ UseFile \/ UseDefaults
  BY DEF Start, StartUnread
<1>2. faults' \in 0 .. MaxFaults
  BY <1>1, ConfigFileAssumption DEF TypeInv
<1>3. CASE UseFile
  <2>1. conf' = Load(file) /\ file' = file /\ present' = present /\ original' = original /\ torn' = torn
    BY <1>3 DEF UseFile
  <2>2. IsConf(Load(file)) /\ Load(file).proxy \in Access /\ Load(file).webui \in Access
    BY LoadReads, LoadInAccess DEF TypeInv
  <2>3. QED
    BY <1>1, <1>2, <2>1, <2>2 DEF TypeInv
<1>4. CASE UseDefaults
  BY <1>1, <1>2, <1>4, TypeDefaults DEF TypeInv
<1>5. QED
  BY <1>1, <1>3, <1>4

LEMMA TypeCut == TypeInv /\ (FailSave \/ Crash) => TypeInv'
<1> SUFFICES ASSUME TypeInv, FailSave \/ Crash PROVE TypeInv'
  OBVIOUS
<1>1. /\ file' \in CutsOf(output)
      /\ writing' = Idle /\ output' = <<>> /\ torn' = TRUE /\ faults < MaxFaults /\ faults' = faults + 1
      /\ present' = present /\ original' = original /\ conf' = conf /\ saves' = saves
      /\ running' = running \/ running' = FALSE
  BY DEF FailSave, Crash
<1>2. IsText(file')
  BY <1>1, CutIsText DEF TypeInv
<1>3. IsText(output')
  BY <1>1, EmptyIsText
<1>4. faults' \in 0 .. MaxFaults
  BY <1>1, ConfigFileAssumption DEF TypeInv
<1>5. QED
  BY <1>1, <1>2, <1>3, <1>4 DEF TypeInv

LEMMA TypeNext == TypeInv /\ [Next]_vars => TypeInv'
<1> SUFFICES ASSUME TypeInv, [Next]_vars PROVE TypeInv'
  OBVIOUS
<1>1. CASE Start \/ StartUnread
  BY <1>1, TypeStart
<1>2. CASE \E s \in Requests : BeginSave(s)
  BY <1>2, TypeBegin
<1>3. CASE EndSave
  BY <1>3, TypeEnd
<1>4. CASE FailSave \/ Crash
  BY <1>4, TypeCut
<1>5. CASE Stop
  BY <1>5 DEF Stop, TypeInv
<1>6. CASE UNCHANGED vars
  BY <1>6 DEF vars, TypeInv
<1>7. QED
  BY <1>1, <1>2, <1>3, <1>4, <1>5, <1>6 DEF Next

LEMMA TypeHolds == Spec => []TypeInv
<1>1. QED
  BY TypeInit, TypeNext, PTL DEF Spec

(* Whatever texts the program finds, also those outside the layout the edits are  *)
(* made for, and wherever a full disk or a crash cuts its own, within a line too, *)
(* the lines it writes are lines of a text and the access control it uses has a   *)
(* mode, if perhaps not one that exists (config_persistence.go,                  *)
(* access_control.go).                                                       *)
THEOREM ConfigTypes == Spec => []TypeOK
<1>1. TypeInv => TypeOK
  <2> SUFFICES ASSUME TypeInv PROVE TypeOK
    OBVIOUS
  <2>1. IsText(file) /\ IsText(original) /\ IsText(output)
    BY DEF TypeInv
  <2>2. {present, running, torn} \subseteq BOOLEAN
    BY DEF TypeInv
  <2>3. QED
    BY <2>1, <2>2 DEF TypeInv, TypeOK
<1>2. QED
  BY <1>1, TypeHolds, PTL

LEMMA AdmittedIs ==
  ASSUME NEW access \in Access
  PROVE  /\ \A h \in Hosts : AllowsIP(access, <<h, "plain">>) = AllowsIP(access, <<h, "in6">>)
         /\ \A a \in Addresses :
              /\ access.mode \in Modes /\ a[1] \in LoopbackHosts => AllowsIP(access, a)
              /\ AllowsIP(access, a) /\ a[1] \notin LoopbackHosts => Reaches(a, ListenHost(access))
<1>1. access.mode # Blank
  BY AccessIsNormal
<1>2. PICK mode : mode = NormalizeAccessControl(access, FALSE).mode
  OBVIOUS
<1>3. mode = access.mode
  BY <1>1, <1>2, NormalIs
<1>4. \A a : Unmap(a)[1] = a[1]
  BY DEF Unmap
<1>5. \A h : Unmap(<<h, "in6">>) = Unmap(<<h, "plain">>)
  BY DEF Unmap
<1>6. ASSUME NEW a, NEW c, Unmap(a) = Unmap(c)
      PROVE  AllowsIP(access, a) = AllowsIP(access, c)
  BY <1>6, Zenon DEF AllowsIP
<1>7. ASSUME NEW h \in Hosts
      PROVE  AllowsIP(access, <<h, "plain">>) = AllowsIP(access, <<h, "in6">>)
  BY <1>5, <1>6
<1>8. ASSUME NEW a \in Addresses, mode \in Modes, a[1] \in LoopbackHosts
      PROVE  AllowsIP(access, a)
  BY <1>2, <1>4, <1>8 DEF AllowsIP, Modes
<1>9. ASSUME NEW a \in Addresses, AllowsIP(access, a), a[1] \notin LoopbackHosts
      PROVE  Reaches(a, ListenHost(access))
  <2>1. mode \in {"lan", "interfaces", "allowlist", "open"}
    BY <1>2, <1>4, <1>9 DEF AllowsIP
  <2>2. ListenHost(access) = "0.0.0.0"
    BY <1>2, <2>1 DEF ListenHost
  <2>3. QED
    BY <2>2 DEF Reaches
<1>10. QED
  BY <1>3, <1>7, <1>8, <1>9

(* The settings in use, whatever mode the file names, judge a client alike in both *)
(* forms of its IPv4 address, admit this machine over both families when the mode  *)
(* exists, and listen where the others they admit can reach them                 *)
(* (access_control.go:137-166, 208-215).                                       *)
THEOREM PolicyEffective == Spec => []PolicyTakesEffect
<1>1. TypeInv => PolicyTakesEffect
  <2> SUFFICES ASSUME TypeInv, NEW access \in {conf.proxy, conf.webui}
               PROVE  /\ \A h \in Hosts : AllowsIP(access, <<h, "plain">>) = AllowsIP(access, <<h, "in6">>)
                      /\ \A a \in Addresses :
                           /\ access.mode \in Modes /\ a[1] \in LoopbackHosts => AllowsIP(access, a)
                           /\ AllowsIP(access, a) /\ a[1] \notin LoopbackHosts => Reaches(a, ListenHost(access))
    BY DEF PolicyTakesEffect
  <2>1. access \in Access
    BY DEF TypeInv
  <2>2. QED
    BY <2>1, AdmittedIs
<1>2. QED
  BY <1>1, TypeHolds, PTL

-----------------------------------------------------------------------------
(* What survives a save *)

TextsAreTidy == \A text \in Texts : Tidy(text)

(* A text with these settings and, outside the settings, the lines of another.   *)
Holds(text, c, other) == Tidy(text) /\ Agrees(Load(text), c) /\ Rest(text) = Rest(other)

SaveInv ==
  /\ writing # Idle => running
  /\ IsConf(want)
  /\ ~torn => /\ writing = Idle /\ present => Holds(file, want, original)
              /\ writing # Idle => Holds(output, Apply(want, writing), original)

LEMMA SaveInit == TextsAreTidy /\ Init => SaveInv
<1> SUFFICES ASSUME TextsAreTidy, Init PROVE SaveInv
  OBVIOUS
<1>1. writing = Idle /\ original = file /\ want = IF present THEN Load(file) ELSE DefaultConfig
  BY DEF Init
<1>2. IsConf(want)
  BY <1>1, LoadReads DEF DefaultConfig
<1>3. present => Tidy(file)
  BY DEF Init, TextsAreTidy
<1>4. present => Agrees(Load(file), want)
  BY <1>1, LoadAgrees
<1>5. QED
  BY <1>1, <1>2, <1>3, <1>4 DEF SaveInv, Holds

LEMMA SaveStart == SaveInv /\ (Start \/ StartUnread) => SaveInv'
<1> SUFFICES ASSUME SaveInv, Start \/ StartUnread PROVE SaveInv'
  OBVIOUS
<1>1. ~running /\ running' = TRUE /\ writing' = writing /\ output' = output /\ (UseFile \/ UseDefaults)
  BY DEF Start, StartUnread
<1>2. writing = Idle
  BY <1>1 DEF SaveInv
<1>3. CASE UseFile
  BY <1>1, <1>2, <1>3 DEF UseFile, SaveInv
<1>4. CASE UseDefaults
  <2>1. want' = Load(DefaultFile)
    BY <1>4 DEF UseDefaults, DefaultConfig
  <2>2. IsConf(want')
    BY <2>1, LoadReads
  <2>3. torn' = TRUE \/ (file' = DefaultFile /\ original' = DefaultFile)
    BY <1>4 DEF UseDefaults
  <2>4. Holds(DefaultFile, Load(DefaultFile), DefaultFile)
    BY DefaultIsTidy, LoadAgrees DEF Holds
  <2>5. QED
    BY <1>1, <1>2, <2>1, <2>2, <2>3, <2>4 DEF SaveInv
<1>5. QED
  BY <1>1, <1>3, <1>4

LEMMA SaveBegin == ASSUME TypeInv, SaveInv, NEW s \in Requests, BeginSave(s) PROVE SaveInv'
<1>1. /\ running /\ writing = Idle /\ present
      /\ output' = Edit(file, Checked(s)).lines /\ Edit(file, Checked(s)).ok
      /\ writing' = s /\ original' = file
      /\ present' = present /\ running' = running /\ torn' = torn /\ want' = want
  BY DEF BeginSave
<1>2. ~torn => Holds(output', Apply(want, s), file)
  <2> SUFFICES ASSUME ~torn PROVE Holds(output', Apply(want, s), file)
    OBVIOUS
  <2>1. Tidy(file) /\ Agrees(Load(file), want)
    BY <1>1 DEF SaveInv, Holds
  <2>2. file \in Seq(Line)
    BY TextIs DEF TypeInv
  <2>3. Keeps(file, output') /\ Agrees(Load(output'), Apply(want, s))
    BY <1>1, <2>1, <2>2, EditIsApplied
  <2>4. QED
    BY <2>3 DEF Keeps, Holds
<1>3. writing' # Idle
  BY <1>1, IdleIs
<1>4. QED
  BY <1>1, <1>2, <1>3 DEF SaveInv

LEMMA SaveEnd == TypeInv /\ SaveInv /\ EndSave => SaveInv'
<1> SUFFICES ASSUME TypeInv, SaveInv, EndSave PROVE SaveInv'
  OBVIOUS
<1>1. /\ writing \in Requests /\ file' = output /\ want' = Apply(want, writing) /\ writing' = Idle
      /\ present' = present /\ original' = original /\ torn' = torn /\ writing # Idle
  BY DEF EndSave, TypeInv
<1>2. IsConf(want')
  <2>1. writing.set \in {"storage", "decrypt", "rules", "upstream", "access"}
    BY <1>1, RequestsAre
  <2>2. QED
    BY <1>1, <2>1, ApplyIs DEF SaveInv
<1>3. QED
  BY <1>1, <1>2 DEF SaveInv

LEMMA SaveNext == TypeInv /\ SaveInv /\ [Next]_vars => SaveInv'
<1> SUFFICES ASSUME TypeInv, SaveInv, [Next]_vars PROVE SaveInv'
  OBVIOUS
<1>1. CASE Start \/ StartUnread
  BY <1>1, SaveStart
<1>2. CASE \E s \in Requests : BeginSave(s)
  BY <1>2, SaveBegin
<1>3. CASE EndSave
  BY <1>3, SaveEnd
<1>4. CASE FailSave \/ Crash
  BY <1>4 DEF FailSave, Crash, SaveInv
<1>5. CASE Stop
  BY <1>5 DEF Stop, SaveInv
<1>6. CASE UNCHANGED vars
  BY <1>6 DEF vars, SaveInv
<1>7. QED
  BY <1>1, <1>2, <1>3, <1>4, <1>5, <1>6 DEF Next

LEMMA SaveHolds == ASSUME TextsAreTidy PROVE Spec => [](TypeInv /\ SaveInv)
<1>1. Init => TypeInv /\ SaveInv
  BY TypeInit, SaveInit
<1>2. TypeInv /\ SaveInv /\ [Next]_vars => TypeInv' /\ SaveInv'
  BY TypeNext, SaveNext
<1>3. QED
  BY <1>1, <1>2, PTL DEF Spec

LEMMA AgreesMeansSame ==
  ASSUME NEW c, NEW d, Agrees(c, d)
  PROVE  SameMeaning(c, d)
<1>1. /\ c.uri = d.uri /\ c.auth = d.auth /\ c.noProxy = d.noProxy
      /\ c.proxy = NormalizeAccessControl(d.proxy, FALSE) /\ c.webui = NormalizeAccessControl(d.webui, FALSE)
      /\ c.storage = d.storage /\ c.decrypt = d.decrypt /\ c.limit = d.limit /\ c.rules = d.rules
  BY DEF Agrees
<1>2. ASSUME NEW access, NEW address
      PROVE  AllowsIP(NormalizeAccessControl(access, FALSE), address) = AllowsIP(access, address)
  <2>1. PICK n : n = NormalizeAccessControl(access, FALSE)
    OBVIOUS
  <2>2. NormalizeAccessControl(n, FALSE) = NormalizeAccessControl(access, FALSE)
    BY <2>1, NormalIs
  <2>3. PolicyPrefixes(n) = PolicyPrefixes(access)
    BY <2>2, Zenon DEF PolicyPrefixes
  <2>4. AllowsIP(n, address) = AllowsIP(access, address)
    BY <2>2, <2>3, Zenon DEF AllowsIP
  <2>5. QED
    BY <2>1, <2>4
<1>3. \A a \in Addresses : /\ AllowsIP(c.proxy, a) = AllowsIP(d.proxy, a)
                           /\ AllowsIP(c.webui, a) = AllowsIP(d.webui, a)
  BY <1>1, <1>2
<1>4. <<c.uri, c.auth, c.storage, c.decrypt>> = <<d.uri, d.auth, d.storage, d.decrypt>>
  BY <1>1
<1>5. \A t \in Targets : MatchesNoProxy(t, c.noProxy) = MatchesNoProxy(t, d.noProxy)
  BY <1>1
<1>6. \A t \in ContentTypes :
        LimitForContentType(c.rules, c.limit, t) = LimitForContentType(d.rules, d.limit, t)
  BY <1>1
<1>7. QED
  BY <1>3, <1>4, <1>5, <1>6 DEF SameMeaning

(* Whatever tidy file the program finds and whatever is saved, however often and    *)
(* in whatever order: while no write was cut, the file can be parsed and gives     *)
(* back every setting as it was last typed (the Persist functions,               *)
(* config_persistence.go:60-89).                                               *)
THEOREM SettingsSurvive == ASSUME TextsAreTidy PROVE Spec => []SavedSettingsSurvive
<1>1. TypeInv /\ SaveInv => SavedSettingsSurvive
  <2> SUFFICES ASSUME SaveInv, writing = Idle, present, ~torn
               PROVE  Parses(file) /\ SameMeaning(Load(file), want)
    BY DEF SavedSettingsSurvive
  <2>1. Tidy(file) /\ Agrees(Load(file), want)
    BY DEF SaveInv, Holds
  <2>2. Parses(file)
    BY <2>1 DEF Tidy
  <2>3. QED
    BY <2>1, <2>2, AgreesMeansSame
<1>2. QED
  BY <1>1, SaveHolds, PTL

(* No save loses, adds, moves or changes a line of a tidy file, comments and blank  *)
(* lines included, that is not about the settings saved; those that follow the     *)
(* block of a setting, up to the next line with content, go with it                *)
(* (config_persistence.go:60-62, 71-72, 278-290).                              *)
THEOREM RestSurvives == ASSUME TextsAreTidy PROVE Spec => []RestPreserved
<1>1. TypeInv /\ SaveInv => RestPreserved
  BY DEF SaveInv, Holds, RestPreserved
<1>2. QED
  BY <1>1, SaveHolds, PTL

(* A start falls back to the defaults, and replaces the file, only after a cut     *)
(* write, without a file, or when reading it fails: no save makes a file that the   *)
(* program cannot read back (config_persistence.go:25-58).                       *)
THEOREM ResetsFollowDamage == ASSUME TextsAreTidy PROVE Spec => OnlyDamageResets
<1>1. ASSUME TypeInv, SaveInv, [Next]_vars, ~running, running', file' # file
      PROVE  torn \/ ~present \/ faults' > faults
  <2> SUFFICES ASSUME ~torn, present, ~(faults' > faults) PROVE FALSE
    OBVIOUS
  <2>a. ~StartUnread
    BY <1>1 DEF StartUnread, TypeInv
  <2>1. Start
    BY <1>1, <2>a DEF Next, BeginSave, EndSave, FailSave, Stop, Crash, vars, SaveInv
  <2>2. writing = Idle
    BY <1>1 DEF SaveInv
  <2>3. Tidy(file)
    BY <1>1, <2>2 DEF SaveInv, Holds
  <2>4. Readable
    BY <2>3 DEF Readable, Tidy
  <2>5. file' = file
    BY <2>1, <2>4 DEF Start, UseFile
  <2>6. QED
    BY <1>1, <2>5
<1>2. TypeInv /\ SaveInv /\ [Next]_vars
        => [~running /\ running' /\ file' # file => torn \/ ~present \/ faults' > faults]_vars
  BY <1>1
<1>3. QED
  BY <1>2, SaveHolds, PTL DEF Spec, OnlyDamageResets
=============================================================================
