------------------------- MODULE Membership_proofs -------------------------
(***************************************************************************)
(* Proofs about Membership, for any nodes, neighbours and bounds: its      *)
(* types, and with them that every membership list stays in the order of   *)
(* the peer ids, from which the neighbours of a node are counted, and that *)
(* a node never has more than two pings of a peer unanswered.              *)
(***************************************************************************)
EXTENDS Membership, TLAPS, SequenceTheorems, FiniteSetTheorems, WellFoundedInduction

-----------------------------------------------------------------------------
(***************************************************************************)
(* Sets of naturals and finite sets.                                       *)
(***************************************************************************)
\* A set of naturals has a least element.
LEMMA LeastOf ==
  ASSUME NEW T, T \subseteq Nat, T # {}
  PROVE  Min(T) \in T /\ \A y \in T : Min(T) <= y
<1>. DEFINE R == {ss \in Nat \X Nat : ss[1] < ss[2]}
<1>1. IsWellFoundedOn(R, Nat)
  BY NatLessThanWellFounded DEF OpToRel
<1>2. \A x, y \in Nat : <<y, x>> \in R <=> y < x
  OBVIOUS
<1>. HIDE DEF R
<1>3. PICK x \in T : \A y \in T : <<y, x>> \notin R
  BY <1>1, WFMin
<1>4. ASSUME NEW y \in T PROVE x <= y
  <2>1. x \in Nat /\ y \in Nat
    OBVIOUS
  <2>2. ~ (y < x)
    BY <1>2, <1>3, <2>1
  <2>. QED  BY <2>1, <2>2
<1>. QED  BY <1>4 DEF Min

\* Induction over the subsets of a finite set, for a set G of those it holds for: the
\* smallest that was not in G would be.
LEMMA SubsetInduction ==
  ASSUME NEW S, IsFiniteSet(S), NEW G, {} \in G,
         \A s \in SUBSET S : s # {} /\ (\A x \in s : s \ {x} \in G) => s \in G
  PROVE  SUBSET S \subseteq G
<1>. DEFINE T == {k \in Nat : \E s \in SUBSET S : s \notin G /\ Cardinality(s) = k}
<1>1. SUFFICES ASSUME NEW b \in SUBSET S, b \notin G PROVE FALSE
  OBVIOUS
<1>2. \A s \in SUBSET S : IsFiniteSet(s) /\ Cardinality(s) \in Nat
  BY FS_Subset, FS_CardinalityType
<1>3. Cardinality(b) \in T
  BY <1>1, <1>2
<1>4. PICK k \in T : \A j \in T : k <= j
  BY <1>3, LeastOf
<1>5. PICK s \in SUBSET S : s \notin G /\ Cardinality(s) = k
  BY <1>4
<1>6. ASSUME NEW x \in s PROVE s \ {x} \in G
  <2>1. s \ {x} \in SUBSET S /\ Cardinality(s \ {x}) = k - 1
    BY <1>2, <1>5, FS_RemoveElement
  <2>2. Cardinality(s \ {x}) \in Nat
    BY <1>2, <2>1
  <2>3. k - 1 \notin T
    BY <1>4
  <2>. QED  BY <2>1, <2>2, <2>3
<1>. QED  BY <1>5, <1>6

-----------------------------------------------------------------------------
(***************************************************************************)
(* Lists in order.                                                         *)
(***************************************************************************)
\* The list of a set of peers is in order: each is at the place of its rank.
LEMMA SortedOf ==
  ASSUME NEW S, S \subseteq Nat, IsFiniteSet(S)
  PROVE  Sorted(S) \in Seq(S) /\ Ordered(Sorted(S))
<1>. DEFINE n == Cardinality(S)
            Below(x) == {y \in S : y <= x}
            rank == [x \in S |-> Cardinality(Below(x))]
<1>1. n \in Nat /\ IsFiniteSet(1 .. n) /\ Cardinality(1 .. n) = n
  <2>1. n \in Nat
    BY FS_CardinalityType
  <2>2. 1 \in Int /\ n \in Int
    BY <2>1
  <2>3. IsFiniteSet(1 .. n) /\ Cardinality(1 .. n) = IF 1 > n THEN 0 ELSE n - 1 + 1
    BY <2>2, FS_Interval
  <2>. QED  BY <2>1, <2>3
<1>2. \A x \in S : /\ IsFiniteSet(Below(x)) /\ Cardinality(Below(x)) \in Nat
                   /\ Cardinality(Below(x)) <= n
  BY FS_Subset, FS_CardinalityType
<1>3. \A x \in S : rank[x] \in 1 .. n
  <2>1. ASSUME NEW x \in S PROVE Cardinality(Below(x)) # 0
    <3>1. x \in Below(x)
      OBVIOUS
    <3>. QED  BY <1>2, <3>1, FS_EmptySet
  <2>. QED  BY <1>1, <1>2, <2>1
<1>4. ASSUME NEW x \in S, NEW y \in S, x < y PROVE rank[x] < rank[y]
  <2>1. Below(x) \in SUBSET Below(y) /\ y \in Below(y) \ Below(x)
    <3>1. x \in Nat /\ y \in Nat /\ \A z \in S : z \in Nat
      OBVIOUS
    <3>2. \A z \in S : z <= x => z <= y
      BY <1>4, <3>1
    <3>3. y <= y /\ ~ (y <= x)
      BY <1>4, <3>1
    <3>. HIDE DEF rank, n
    <3>. QED  BY <3>2, <3>3
  <2>2. Cardinality(Below(x)) <= Cardinality(Below(y)) /\ Cardinality(Below(x)) # Cardinality(Below(y))
    BY <1>2, <2>1, FS_Subset
  <2>. QED  BY <1>2, <2>2
<1>5. rank \in [S -> 1 .. n]
  BY <1>3
<1>. HIDE DEF rank, n
<1>6. rank \in Injection(S, 1 .. n)
  BY <1>4, <1>5 DEF Injection, IsInjective
<1>7. rank \in Surjection(S, 1 .. n)
  BY <1>1, <1>6, FS_Injection DEF n
<1>. DEFINE at == [i \in 1 .. n |-> CHOOSE x \in S : rank[x] = i]
<1>8. \A i \in 1 .. n : at[i] \in S /\ rank[at[i]] = i
  BY <1>7 DEF Surjection
<1>9. at \in [1 .. n -> S] /\ at \in Seq(S) /\ Len(at) = n
  BY <1>1, <1>8
<1>. HIDE DEF at
<1>10. at \in SetToSeqs(S)
  BY <1>8, <1>9 DEF SetToSeqs, n
<1>11. Ordered(at)
  <2>1. SUFFICES ASSUME NEW i \in 1 .. n, NEW j \in 1 .. n, i <= j PROVE at[i] <= at[j]
    BY <1>9 DEF Ordered
  <2>2. at[i] \in S /\ at[j] \in S /\ rank[at[i]] = i /\ rank[at[j]] = j
    BY <1>8
  <2>3. ~ (at[j] < at[i])
    <3>1. at[j] < at[i] => j < i
      BY <1>4, <2>2
    <3>. QED  BY <1>1, <2>1, <3>1
  <2>4. at[i] \in Nat /\ at[j] \in Nat
    BY <2>2
  <2>. HIDE DEF Below
  <2>. QED  BY <2>3, <2>4
<1>12. Sorted(S) \in SetToSeqs(S) /\ Ordered(Sorted(S))
  BY <1>10, <1>11 DEF Sorted
<1>13. SetToSeqs(S) \subseteq Seq(S)
  BY <1>1 DEF SetToSeqs, n
<1>. QED  BY <1>12, <1>13

\* A list without the first entry of a node.
LEMMA RemoveAtOf ==
  ASSUME NEW S, NEW s \in Seq(S), NEW i \in 1 .. Len(s)
  PROVE  /\ RemoveAt(s, i) \in Seq(S) /\ Len(RemoveAt(s, i)) = Len(s) - 1
         /\ \A j \in 1 .. Len(s) - 1 : RemoveAt(s, i)[j] = IF j < i THEN s[j] ELSE s[j + 1]
<1>. DEFINE a == SubSeq(s, 1, i - 1)
            b == SubSeq(s, i + 1, Len(s))
            c == a \o b
<1>1. a \in Seq(S) /\ Len(a) = i - 1 /\ \A j \in 1 .. i - 1 : a[j] = s[j]
  BY SMT
<1>2. b \in Seq(S) /\ Len(b) = Len(s) - i /\ \A j \in 1 .. Len(s) - i : b[j] = s[i + j]
  <2>1. i + 1 \in Int /\ Len(s) \in Int /\ \A j \in i + 1 .. Len(s) : s[j] \in S
    OBVIOUS
  <2>2. /\ b \in Seq(S) /\ Len(b) = IF i + 1 <= Len(s) THEN Len(s) - (i + 1) + 1 ELSE 0
        /\ \A j \in 1 .. Len(s) - (i + 1) + 1 : b[j] = s[i + 1 + j - 1]
    BY <2>1, SubSeqProperties
  <2>3. \A j \in 1 .. Len(s) - i : i + 1 + j - 1 = i + j
    OBVIOUS
  <2>. QED  BY <2>1, <2>2, <2>3
<1>. HIDE DEF a, b
<1>3. c \in Seq(S) /\ Len(c) = Len(s) - 1
  <2>1. c \in Seq(S) /\ Len(c) = Len(a) + Len(b)
    BY <1>1, <1>2, ConcatProperties
  <2>. QED  BY <1>1, <1>2, <2>1
<1>4. \A j \in 1 .. Len(s) - 1 : c[j] = IF j < i THEN s[j] ELSE s[j + 1]
  BY <1>1, <1>2, SMT
<1>5. RemoveAt(s, i) = c
  BY DEF RemoveAt, a, b
<1>. HIDE DEF c
<1>. QED  BY <1>3, <1>4, <1>5

\* The lists that there are.
Lists == {l \in Seq(Nodes) : Ordered(l)}

LEMMA ListsAre ==
  ASSUME NEW l \in Lists
  PROVE  /\ l \in Seq(Nodes) /\ Len(l) \in Nat
         /\ \A i \in 1 .. Len(l) : l[i] \in Nodes /\ l[i] \in Nat
         /\ \A i, j \in 1 .. Len(l) : i <= j => l[i] <= l[j]
<1>1. l \in Seq(Nodes) /\ Ordered(l)
  BY DEF Lists
<1>2. Len(l) \in Nat /\ \A i \in 1 .. Len(l) : l[i] \in Nodes
  BY <1>1, LenProperties, ElementOfSeq
<1>3. Nodes \subseteq Nat
  BY MembershipAssumption DEF MembershipAssumption
<1>. QED  BY <1>1, <1>2, <1>3 DEF Ordered

\* Remove leaves a list in order (membershipList.go:121-131).
LEMMA RemoveFirstOf ==
  ASSUME NEW l \in Lists, NEW m
  PROVE  RemoveFirst(l, m) \in Lists
<1>. DEFINE I == {i \in 1 .. Len(l) : l[i] = m}
<1>1. CASE I = {}
  BY <1>1 DEF RemoveFirst
<1>2. CASE I # {}
  <2>. DEFINE i == Min(I)
  <2>1. I \subseteq Nat
    OBVIOUS
  <2>2. i \in I
    BY <1>2, <2>1, LeastOf
  <2>3. RemoveFirst(l, m) = RemoveAt(l, i)
    BY <1>2 DEF RemoveFirst, SelectInSeq
  <2>4. i \in 1 .. Len(l)
    BY <2>2
  <2>. HIDE DEF i, I
  <2>. DEFINE r == RemoveAt(l, i)
  <2>5. /\ r \in Seq(Nodes) /\ Len(r) = Len(l) - 1
        /\ \A j \in 1 .. Len(l) - 1 : r[j] = IF j < i THEN l[j] ELSE l[j + 1]
    BY <2>4, ListsAre, RemoveAtOf
  <2>. HIDE DEF r
  <2>6. ASSUME NEW j \in 1 .. Len(r), NEW k \in 1 .. Len(r), j <= k PROVE r[j] <= r[k]
    <3>1. PICK a \in 1 .. Len(l) : r[j] = l[a] /\ (a = IF j < i THEN j ELSE j + 1)
      BY <2>4, <2>5, ListsAre
    <3>2. PICK b \in 1 .. Len(l) : r[k] = l[b] /\ (b = IF k < i THEN k ELSE k + 1)
      BY <2>4, <2>5, ListsAre
    <3>3. a <= b
      BY <2>4, <2>6, <3>1, <3>2
    <3>. QED  BY <3>1, <3>2, <3>3, ListsAre
  <2>. QED  BY <2>3, <2>5, <2>6 DEF Lists, Ordered, r
<1>. QED  BY <1>1, <1>2

\* The entries of a list up to a number are its first ones.
LEMMA PrefixOf ==
  ASSUME NEW l \in Lists, NEW m \in Nat
  PROVE  LET k == Cardinality({i \in 1 .. Len(l) : l[i] <= m})
         IN  /\ k \in 0 .. Len(l)
             /\ \A i \in 1 .. Len(l) : l[i] <= m <=> i <= k
<1>. DEFINE I == {i \in 1 .. Len(l) : l[i] <= m}
            T == {i \in 1 .. Len(l) + 1 : i \notin I}
<1>1. Len(l) \in Nat /\ Len(l) + 1 \in T /\ T \subseteq Nat
  BY ListsAre
<1>2. PICK a \in T : \A j \in T : a <= j
  BY <1>1, LeastOf
<1>3. a \in Nat /\ 1 <= a /\ a <= Len(l) + 1
  BY <1>1, <1>2
<1>4. \A i \in 1 .. Len(l) : i < a => i \in I
  BY <1>1, <1>2, <1>3
<1>5. ASSUME NEW i \in 1 .. Len(l), i >= a PROVE i \notin I
  <2>1. a \in 1 .. Len(l)
    BY <1>1, <1>3, <1>5
  <2>2. l[a] \in Nat /\ l[i] \in Nat /\ l[a] <= l[i] /\ ~ (l[a] <= m)
    BY <1>2, <1>5, <2>1, ListsAre
  <2>. QED  BY <2>2
<1>6. I = 1 .. a - 1
  BY <1>1, <1>3, <1>4, <1>5
<1>7. Cardinality(1 .. a - 1) = a - 1
  <2>1. 1 \in Int /\ a - 1 \in Int
    BY <1>3
  <2>2. Cardinality(1 .. a - 1) = IF 1 > a - 1 THEN 0 ELSE a - 1 - 1 + 1
    BY <2>1, FS_Interval
  <2>. QED  BY <1>3, <2>2
<1>8. Cardinality(I) = a - 1
  BY <1>6, <1>7
<1>9. \A i \in 1 .. Len(l) : l[i] <= m <=> i <= a - 1
  <2>1. SUFFICES ASSUME NEW i \in 1 .. Len(l) PROVE l[i] <= m <=> i <= a - 1
    OBVIOUS
  <2>2. (l[i] <= m) <=> i \in 1 .. a - 1
    BY <1>6
  <2>3. i \in Nat /\ 1 <= i
    BY <1>1, <2>1
  <2>4. i \in 1 .. a - 1 <=> i <= a - 1
    BY <1>3, <2>3
  <2>. HIDE DEF I
  <2>. QED  BY <2>2, <2>4
<1>10. a - 1 \in 0 .. Len(l)
  BY <1>1, <1>3
<1>. QED  BY <1>8, <1>9, <1>10

\* Add leaves a list in order (membershipList.go:82-90).
LEMMA AddOf ==
  ASSUME NEW l \in Lists, NEW m \in Nodes
  PROVE  Add(l, m) \in Lists
<1>. DEFINE k == Cardinality({i \in 1 .. Len(l) : l[i] <= m})
            a == SubSeq(l, 1, k)
            b == SubSeq(l, k + 1, Len(l))
            t == a \o <<m>>
            c == t \o b
<1>0. l \in Seq(Nodes) /\ Len(l) \in Nat /\ m \in Nat
  BY ListsAre, MembershipAssumption DEF MembershipAssumption
<1>1. k \in 0 .. Len(l) /\ \A i \in 1 .. Len(l) : l[i] <= m <=> i <= k
  BY <1>0, PrefixOf
<1>. HIDE DEF k
<1>2. Add(l, m) = c
  <2>1. PICK j : j = k + 1
    OBVIOUS
  <2>2. j - 1 = k
    BY <1>0, <1>1, <2>1
  <2>3. Add(l, m) = InsertAt(l, j, m)
    BY <2>1 DEF Add, k
  <2>4. InsertAt(l, j, m) = SubSeq(l, 1, j - 1) \o <<m>> \o SubSeq(l, j, Len(l))
    BY DEF InsertAt
  <2>. QED  BY <2>1, <2>2, <2>3, <2>4
<1>3. a \in Seq(Nodes) /\ Len(a) = k /\ \A i \in 1 .. k : a[i] = l[i]
  BY <1>0, <1>1, SMT
<1>4. b \in Seq(Nodes) /\ Len(b) = Len(l) - k /\ \A i \in 1 .. Len(l) - k : b[i] = l[k + i]
  <2>1. k + 1 \in Int /\ Len(l) \in Int /\ \A j \in k + 1 .. Len(l) : l[j] \in Nodes
    BY <1>0, <1>1
  <2>2. /\ b \in Seq(Nodes) /\ Len(b) = IF k + 1 <= Len(l) THEN Len(l) - (k + 1) + 1 ELSE 0
        /\ \A j \in 1 .. Len(l) - (k + 1) + 1 : b[j] = l[k + 1 + j - 1]
    BY <2>1, SubSeqProperties
  <2>3. \A j \in 1 .. Len(l) - k : k + 1 + j - 1 = k + j
    BY <1>0, <1>1
  <2>. QED  BY <1>0, <1>1, <2>1, <2>2, <2>3
<1>. HIDE DEF a, b
<1>5. t \in Seq(Nodes) /\ Len(t) = k + 1 /\ (\A i \in 1 .. k : t[i] = l[i]) /\ t[k + 1] = m
  BY <1>1, <1>3
<1>. HIDE DEF t
<1>6. /\ c \in Seq(Nodes) /\ Len(c) = Len(l) + 1
      /\ \A i \in 1 .. Len(l) + 1 : c[i] = IF i <= k + 1 THEN t[i] ELSE b[i - (k + 1)]
  <2>1. /\ c \in Seq(Nodes) /\ Len(c) = Len(t) + Len(b)
        /\ \A i \in 1 .. Len(t) + Len(b) : c[i] = IF i <= Len(t) THEN t[i] ELSE b[i - Len(t)]
    BY <1>4, <1>5, ConcatProperties
  <2>2. Len(t) + Len(b) = Len(l) + 1
    BY <1>0, <1>1, <1>4, <1>5
  <2>. QED  BY <1>5, <2>1, <2>2
<1>. HIDE DEF c
<1>7. ASSUME NEW i \in 1 .. Len(l) + 1
      PROVE  \/ i <= k /\ i \in 1 .. Len(l) /\ c[i] = l[i] /\ l[i] <= m
             \/ i = k + 1 /\ c[i] = m
             \/ i > k + 1 /\ i - 1 \in 1 .. Len(l) /\ c[i] = l[i - 1] /\ m <= l[i - 1]
  <2>1. CASE i <= k
    BY <1>0, <1>1, <1>5, <1>6, <2>1
  <2>2. CASE i = k + 1
    BY <1>0, <1>1, <1>5, <1>6, <2>2
  <2>3. CASE i > k + 1
    <3>1. i - 1 \in 1 .. Len(l) /\ ~ (i - 1 <= k) /\ i - (k + 1) \in 1 .. Len(l) - k
          /\ k + (i - (k + 1)) = i - 1 /\ ~ (i <= k + 1)
      BY <1>0, <1>1, <2>3
    <3>2. c[i] = l[i - 1]
      BY <1>4, <1>6, <3>1
    <3>3. l[i - 1] \in Nat /\ ~ (l[i - 1] <= m)
      BY <1>1, <3>1, ListsAre
    <3>. QED  BY <1>0, <2>3, <3>1, <3>2, <3>3
  <2>. QED  BY <1>0, <1>1, <2>1, <2>2, <2>3
<1>8. ASSUME NEW i \in 1 .. Len(c), NEW j \in 1 .. Len(c), i <= j PROVE c[i] <= c[j]
  <2>1. i \in 1 .. Len(l) + 1 /\ j \in 1 .. Len(l) + 1 /\ k \in Nat
    BY <1>1, <1>6
  <2>2. \A x, y \in 1 .. Len(l) : x <= y => l[x] <= l[y]
    BY ListsAre
  <2>3. \A x \in 1 .. Len(l) : l[x] \in Nat
    BY ListsAre
  <2>4. CASE i <= k
    BY <1>0, <1>7, <1>8, <2>1, <2>2, <2>3, <2>4
  <2>5. CASE i = k + 1
    BY <1>0, <1>7, <1>8, <2>1, <2>2, <2>3, <2>5
  <2>6. CASE i > k + 1
    BY <1>0, <1>7, <1>8, <2>1, <2>2, <2>3, <2>6
  <2>. QED  BY <2>1, <2>4, <2>5, <2>6
<1>. QED  BY <1>2, <1>6, <1>8 DEF Lists, Ordered


-----------------------------------------------------------------------------
(***************************************************************************)
(* Folds over finite sets.  MapThenFoldSet is a recursive function on the  *)
(* subsets, chosen among those that satisfy its equation: there is one.    *)
(***************************************************************************)
Pick(s) == CHOOSE x \in s : TRUE

LEMMA PickOf ==
  ASSUME NEW S, IsFiniteSet(S), NEW s \in SUBSET S, s # {}
  PROVE  /\ Pick(s) \in s /\ Pick(s) \in S /\ s \ {Pick(s)} \in SUBSET S
         /\ Cardinality(s) \in Nat /\ Cardinality(s \ {Pick(s)}) \in Nat
         /\ Cardinality(s \ {Pick(s)}) = Cardinality(s) - 1
<1>1. Pick(s) \in s
  BY DEF Pick
<1>2. IsFiniteSet(s) /\ IsFiniteSet(s \ {Pick(s)})
  BY FS_Subset
<1>3. Cardinality(s \ {Pick(s)}) = Cardinality(s) - 1
  BY <1>1, <1>2, FS_RemoveElement
<1>. QED  BY <1>1, <1>2, <1>3, FS_CardinalityType

Folds(g, S, b, h) ==
  \A s \in SUBSET S : g[s] = IF s = {} THEN b ELSE h[Pick(s)][g[s \ {Pick(s)}]]

\* There is a function that folds with h, by stages: it is right for sets of up to k
\* elements.
LEMMA FoldExists ==
  ASSUME NEW S, IsFiniteSet(S), NEW L, NEW b \in L, NEW h \in [S -> [L -> L]]
  PROVE  \E g \in [SUBSET S -> L] : Folds(g, S, b, h)
<1>. DEFINE Right(g, s) == g[s] = IF s = {} THEN b ELSE h[Pick(s)][g[s \ {Pick(s)}]]
            UpTo(g, k) == \A s \in SUBSET S : Cardinality(s) <= k => Right(g, s)
            T == {k \in Nat : ~ \E g \in [SUBSET S -> L] : UpTo(g, k)}
<1>1. \A s \in SUBSET S : IsFiniteSet(s) /\ Cardinality(s) \in Nat /\ Cardinality(s) <= Cardinality(S)
  BY FS_Subset, FS_CardinalityType
<1>2. ASSUME T # {} PROVE FALSE
  <2>1. PICK k \in T : \A j \in T : k <= j
    BY <1>2, LeastOf
  <2>2. CASE k = 0
    <3>. DEFINE g == [s \in SUBSET S |-> b]
    <3>1. g \in [SUBSET S -> L]
      OBVIOUS
    <3>2. ASSUME NEW s \in SUBSET S, Cardinality(s) <= 0 PROVE Right(g, s)
      <4>1. s = {}
        BY <1>1, <3>2, FS_EmptySet
      <4>. QED  BY <4>1
    <3>. HIDE DEF g
    <3>3. UpTo(g, 0)
      BY <3>2
    <3>. QED  BY <2>1, <2>2, <3>1, <3>3
  <2>3. CASE k # 0
    <3>1. k \in Nat /\ k - 1 \in Nat /\ k - 1 \notin T
      <4>1. k \in Nat /\ k - 1 \in Nat
        BY <2>1, <2>3
      <4>. HIDE DEF T
      <4>. QED  BY <2>1, <4>1
    <3>2. PICK f \in [SUBSET S -> L] : UpTo(f, k - 1)
      BY <3>1
    <3>. DEFINE Next1(s) == IF s = {} THEN b ELSE h[Pick(s)][f[s \ {Pick(s)}]]
                g == [s \in SUBSET S |-> Next1(s)]
    <3>3. ASSUME NEW s \in SUBSET S PROVE Next1(s) \in L
      <4>1. CASE s # {}
        <5>1. Pick(s) \in S /\ s \ {Pick(s)} \in SUBSET S
          BY <4>1, PickOf
        <5>. QED  BY <4>1, <5>1
      <4>. QED  BY <4>1
    <3>4. g \in [SUBSET S -> L] /\ \A s \in SUBSET S : g[s] = Next1(s)
      BY <3>3
    <3>. HIDE DEF g
    <3>5. ASSUME NEW s \in SUBSET S, Cardinality(s) <= k - 1 PROVE g[s] = f[s]
      BY <3>2, <3>4, <3>5
    <3>6. ASSUME NEW s \in SUBSET S, Cardinality(s) <= k PROVE Right(g, s)
      <4>1. CASE s = {}
        BY <3>4, <4>1
      <4>2. CASE s # {}
        <5>. DEFINE r == s \ {Pick(s)}
        <5>1. r \in SUBSET S /\ Cardinality(r) <= k - 1
          BY <3>1, <3>6, <4>2, PickOf
        <5>. HIDE DEF r
        <5>2. g[r] = f[r]
          BY <3>5, <5>1
        <5>3. g[s] = h[Pick(s)][f[r]]
          BY <3>4, <4>2 DEF r
        <5>4. g[s] = h[Pick(s)][g[r]]
          BY <5>2, <5>3
        <5>. QED  BY <4>2, <5>4 DEF r
      <4>. QED  BY <4>1, <4>2
    <3>7. UpTo(g, k)
      BY <3>6
    <3>. QED  BY <2>1, <3>4, <3>7
  <2>. QED  BY <2>2, <2>3
<1>3. Cardinality(S) \in Nat \ T
  BY <1>2, FS_CardinalityType
<1>4. PICK g \in [SUBSET S -> L] : UpTo(g, Cardinality(S))
  BY <1>3
<1>. QED  BY <1>1, <1>4 DEF Folds

\* Removing the nodes of a set one after the other leaves a list in order.
Removals(g, l, S) ==
  g = [s \in SUBSET S |-> IF s = {} THEN l ELSE RemoveFirst(g[s \ {Pick(s)}], Pick(s))]

LEMMA RemovalsOf ==
  ASSUME NEW l \in Lists, NEW S, IsFiniteSet(S)
  PROVE  FoldSet(LAMBDA m, x : RemoveFirst(x, m), l, S) \in Lists
<1>. DEFINE h == [m \in S |-> [x \in Lists |-> RemoveFirst(x, m)]]
            g == CHOOSE f : Removals(f, l, S)
<1>1. FoldSet(LAMBDA m, x : RemoveFirst(x, m), l, S) = g[S]
  BY DEF FoldSet, MapThenFoldSet, Removals, Pick
<1>2. h \in [S -> [Lists -> Lists]]
  BY RemoveFirstOf
<1>3. \A m \in S, x \in Lists : h[m][x] = RemoveFirst(x, m)
  OBVIOUS
<1>. HIDE DEF h, g
<1>4. PICK f \in [SUBSET S -> Lists] : Folds(f, S, l, h)
  BY <1>2, FoldExists
<1>5. \A s \in SUBSET S : f[s] = IF s = {} THEN l ELSE RemoveFirst(f[s \ {Pick(s)}], Pick(s))
  BY <1>3, <1>4, PickOf DEF Folds
<1>6. Removals(f, l, S)
  BY <1>5 DEF Removals
<1>7. Removals(g, l, S)
  BY <1>6 DEF g
<1>8. \A s \in SUBSET S : g[s] = IF s = {} THEN l ELSE RemoveFirst(g[s \ {Pick(s)}], Pick(s))
  BY <1>7 DEF Removals
<1>. DEFINE G == {s \in SUBSET S : g[s] \in Lists}
<1>9. {} \in G
  BY <1>8
<1>10. ASSUME NEW s \in SUBSET S, s # {}, \A x \in s : s \ {x} \in G PROVE s \in G
  <2>1. Pick(s) \in s
    BY <1>10, PickOf
  <2>2. g[s \ {Pick(s)}] \in Lists
    BY <1>10, <2>1
  <2>3. g[s] \in Lists
    BY <1>8, <1>10, <2>2, RemoveFirstOf
  <2>. QED  BY <2>3
<1>. HIDE DEF G
<1>11. S \in G
  BY <1>9, <1>10, SubsetInduction
<1>. QED  BY <1>1, <1>11 DEF G


\* So does adding them.
Additions(g, l, S) ==
  g = [s \in SUBSET S |-> IF s = {} THEN l ELSE AddOrUpdate(Pick(s), g[s \ {Pick(s)}])]

LEMMA AddOrUpdateOf ==
  ASSUME NEW l \in Lists, NEW m \in Nodes
  PROVE  AddOrUpdate(m, l) \in Lists
BY AddOf DEF AddOrUpdate

LEMMA AdditionsOf ==
  ASSUME NEW l \in Lists, NEW S, S \subseteq Nodes, IsFiniteSet(S)
  PROVE  FoldSet(AddOrUpdate, l, S) \in Lists
<1>. DEFINE h == [m \in S |-> [x \in Lists |-> AddOrUpdate(m, x)]]
            g == CHOOSE f : Additions(f, l, S)
<1>1. FoldSet(AddOrUpdate, l, S) = g[S]
  BY DEF FoldSet, MapThenFoldSet, Additions, Pick
<1>2. h \in [S -> [Lists -> Lists]]
  BY AddOrUpdateOf
<1>3. \A m \in S, x \in Lists : h[m][x] = AddOrUpdate(m, x)
  OBVIOUS
<1>. HIDE DEF h, g
<1>4. PICK f \in [SUBSET S -> Lists] : Folds(f, S, l, h)
  BY <1>2, FoldExists
<1>5. \A s \in SUBSET S : f[s] = IF s = {} THEN l ELSE AddOrUpdate(Pick(s), f[s \ {Pick(s)}])
  BY <1>3, <1>4, PickOf DEF Folds
<1>6. Additions(f, l, S)
  BY <1>5 DEF Additions
<1>7. Additions(g, l, S)
  BY <1>6 DEF g
<1>8. \A s \in SUBSET S : g[s] = IF s = {} THEN l ELSE AddOrUpdate(Pick(s), g[s \ {Pick(s)}])
  BY <1>7 DEF Additions
<1>. DEFINE G == {s \in SUBSET S : g[s] \in Lists}
<1>9. {} \in G
  BY <1>8
<1>10. ASSUME NEW s \in SUBSET S, s # {}, \A x \in s : s \ {x} \in G PROVE s \in G
  <2>1. Pick(s) \in s /\ Pick(s) \in Nodes
    BY <1>10, PickOf
  <2>2. g[s \ {Pick(s)}] \in Lists
    BY <1>10, <2>1
  <2>3. g[s] = AddOrUpdate(Pick(s), g[s \ {Pick(s)}])
    BY <1>8, <1>10
  <2>4. g[s] \in Lists
    BY <2>1, <2>2, <2>3, AddOrUpdateOf
  <2>. QED  BY <2>4
<1>. HIDE DEF G
<1>11. S \in G
  BY <1>9, <1>10, SubsetInduction
<1>. QED  BY <1>1, <1>11 DEF G

\* What the buffer says leaves a list in order.
LEMMA PerformOf ==
  ASSUME NEW l \in Lists, NEW msgs, msgs \subseteq MessageRec
  PROVE  Perform(l, msgs) \in Lists
<1>. DEFINE gone == {msg.node : msg \in {x \in msgs : x.type \in {"FAILED", "LEFT"}}}
            new == {msg.node : msg \in {x \in msgs : x.type = "JOIN"}}
<1>1. \A msg \in msgs : msg.node \in Nodes
  BY DEF MessageRec
<1>2. gone \subseteq Nodes /\ new \subseteq Nodes
  BY <1>1
<1>3. IsFiniteSet(gone) /\ IsFiniteSet(new)
  BY <1>2, FS_Subset, MembershipAssumption DEF MembershipAssumption
<1>. HIDE DEF gone, new
<1>4. FoldSet(LAMBDA m, x : RemoveFirst(x, m), l, gone) \in Lists
  BY <1>3, RemovalsOf
<1>5. FoldSet(AddOrUpdate, FoldSet(LAMBDA m, x : RemoveFirst(x, m), l, gone), new) \in Lists
  BY <1>2, <1>3, <1>4, AdditionsOf
<1>. QED  BY <1>5 DEF Perform, gone, new

\* A sum is no less than what is summed.
Sums(g, f, S) ==
  g = [s \in SUBSET S |-> IF s = {} THEN 0 ELSE f[Pick(s)] + g[s \ {Pick(s)}]]

LEMMA SumOf ==
  ASSUME NEW S, IsFiniteSet(S), NEW f \in [S -> Nat]
  PROVE  SumFunction(f) \in Nat /\ \A m \in S : f[m] <= SumFunction(f)
<1>. DEFINE h == [m \in S |-> [x \in Nat |-> f[m] + x]]
            g == CHOOSE e : Sums(e, f, S)
<1>0. DOMAIN f = S
  OBVIOUS
<1>1. SumFunction(f) = g[S]
  BY <1>0 DEF SumFunction, SumFunctionOnSet, FoldFunctionOnSet, MapThenFoldSet, Sums, Pick
<1>2. h \in [S -> [Nat -> Nat]]
  OBVIOUS
<1>3. \A m \in S, x \in Nat : h[m][x] = f[m] + x
  OBVIOUS
<1>. HIDE DEF h, g
<1>4. PICK e \in [SUBSET S -> Nat] : Folds(e, S, 0, h)
  BY <1>2, FoldExists
<1>5. \A s \in SUBSET S : e[s] = IF s = {} THEN 0 ELSE f[Pick(s)] + e[s \ {Pick(s)}]
  BY <1>3, <1>4, PickOf DEF Folds
<1>6. Sums(e, f, S)
  BY <1>5 DEF Sums
<1>7. Sums(g, f, S)
  BY <1>6 DEF g
<1>8. \A s \in SUBSET S : g[s] = IF s = {} THEN 0 ELSE f[Pick(s)] + g[s \ {Pick(s)}]
  BY <1>7 DEF Sums
<1>. DEFINE G == {s \in SUBSET S : g[s] \in Nat /\ \A m \in s : f[m] <= g[s]}
<1>9. {} \in G
  BY <1>8
<1>10. ASSUME NEW s \in SUBSET S, s # {}, \A x \in s : s \ {x} \in G PROVE s \in G
  <2>1. Pick(s) \in s /\ f[Pick(s)] \in Nat
    BY <1>10, PickOf
  <2>2. g[s \ {Pick(s)}] \in Nat /\ \A m \in s \ {Pick(s)} : f[m] <= g[s \ {Pick(s)}]
    BY <1>10, <2>1
  <2>3. g[s] = f[Pick(s)] + g[s \ {Pick(s)}]
    BY <1>8, <1>10
  <2>4. ASSUME NEW m \in s PROVE f[m] <= g[s]
    <3>1. CASE m = Pick(s)
      BY <2>1, <2>2, <2>3, <3>1
    <3>2. CASE m # Pick(s)
      <4>1. f[m] \in Nat /\ f[m] <= g[s \ {Pick(s)}]
        BY <2>2, <3>2
      <4>. QED  BY <2>1, <2>2, <2>3, <4>1
    <3>. QED  BY <3>1, <3>2
  <2>5. g[s] \in Nat
    BY <2>1, <2>2, <2>3
  <2>. QED  BY <2>4, <2>5
<1>. HIDE DEF G
<1>11. S \in G
  BY <1>9, <1>10, SubsetInduction
<1>. QED  BY <1>1, <1>11 DEF G

\* The neighbours of a node are peers (membershipList.go:133-147).
LEMMA NeighboursOf ==
  ASSUME NEW l \in Lists, NEW n
  PROVE  Neighbours(n, l) \subseteq Nodes
<1>1. CASE ~ In(n, l)
  BY <1>1 DEF Neighbours
<1>2. CASE In(n, l)
  <2>. DEFINE I == {i \in 1 .. Len(l) : l[i] = n}
              a == SelectInSeq(l, LAMBDA x : x = n)
  <2>1. l \in Seq(Nodes) /\ Len(l) \in Nat /\ DOMAIN l = 1 .. Len(l)
    BY ListsAre
  <2>2. I # {} /\ I \subseteq Nat
    BY <1>2, <2>1 DEF In, Range
  <2>3. a = Min(I)
    BY <2>2 DEF SelectInSeq
  <2>4. a \in 1 .. Len(l)
    BY <2>2, <2>3, LeastOf
  <2>. HIDE DEF a, I
  <2>5. ASSUME NEW j \in 1 .. KNeighbors
        PROVE  l[((a + j - 1) % Len(l)) + 1] \in Nodes
    <3>1. KNeighbors \in Nat
      BY MembershipAssumption DEF MembershipAssumption
    <3>2. PICK b \in Nat : b = Len(l)
      BY <2>1
    <3>3. a \in 1 .. b
      BY <2>4, <3>2
    <3>4. b \in Nat \ {0} /\ a + j - 1 \in Nat
      BY <3>1, <3>2, <3>3
    <3>5. (a + j - 1) % b \in 0 .. b - 1
      BY <3>4
    <3>6. ((a + j - 1) % Len(l)) + 1 \in 1 .. Len(l)
      BY <3>2, <3>5
    <3>. QED  BY <3>6, ListsAre
  <2>. QED  BY <1>2, <2>5 DEF Neighbours, a
<1>. QED  BY <1>1, <1>2


-----------------------------------------------------------------------------
(***************************************************************************)
(* The inductive invariant.  A ping adds to those unanswered after its     *)
(* round began, so a node that pings m still has room for one more.        *)
(***************************************************************************)
PacketRec == [to : SUBSET Nodes, msgs : SUBSET MessageRec]
Waits == [Nodes -> 0 .. 2]

ListType == list \in [Nodes -> Lists] /\ buf \in [Nodes -> SUBSET MessageRec]
CopyType == copied \in [Nodes -> SUBSET SUBSET MessageRec]
CountType ==
  /\ joined \in [Nodes -> 0 .. MaxJoins] /\ crashes \in 0 .. MaxCrashes
  /\ leaves \in 0 .. MaxLeaves /\ faults \in 0 .. MaxFaults /\ slow \in 0 .. MaxSlow
PingType == packet \in [Nodes -> PacketRec] /\ waiting \in [Nodes -> Waits]
PingInv == \A n \in Nodes : \A m \in packet[n].to : waiting[n][m] < 2

IInv ==
  /\ up \in [Nodes -> BOOLEAN] /\ odd \subseteq Nodes /\ swept \subseteq Nodes
  /\ ListType /\ CopyType /\ CountType /\ PingType /\ PingInv

LEMMA InvTypes == IInv => TypeOK
<1>. SUFFICES ASSUME IInv PROVE TypeOK
  OBVIOUS
<1>1. list \in [Nodes -> Seq(Nodes)] /\ \A n \in Nodes : Ordered(list[n])
  BY DEF IInv, ListType, Lists
<1>. QED  BY <1>1 DEF IInv, TypeOK, ListType, CopyType, CountType, PingType, PacketRec, Waits

LEMMA Bounds ==
  /\ Nodes \subseteq Nat /\ IsFiniteSet(Nodes) /\ Introducer \in Nodes /\ Members \subseteq Nodes
  /\ MaxJoins \in Nat /\ MaxCrashes \in Nat /\ MaxLeaves \in Nat /\ MaxFaults \in Nat /\ MaxSlow \in Nat
BY MembershipAssumption DEF MembershipAssumption

LEMMA AloneOf == Alone \in Lists
<1>1. <<Introducer>> \in Seq(Nodes) /\ Len(<<Introducer>>) = 1
  BY Bounds
<1>2. Introducer <= Introducer
  BY Bounds
<1>. QED  BY <1>1, <1>2 DEF Alone, Lists, Ordered

LEMMA InitInv == Init => IInv
<1>. SUFFICES ASSUME Init PROVE IInv
  OBVIOUS
<1>1. Sorted(Members) \in Lists
  <2>1. Members \subseteq Nat /\ IsFiniteSet(Members)
    BY Bounds, FS_Subset
  <2>2. Sorted(Members) \in Seq(Members) /\ Ordered(Sorted(Members))
    BY <2>1, SortedOf
  <2>. QED  BY <2>2, Bounds, SeqMonotonic DEF Lists
<1>2. ListType
  BY <1>1, AloneOf DEF Init, ListType
<1>3. CountType
  BY Bounds DEF Init, CountType
<1>4. PingType /\ PingInv /\ CopyType
  BY DEF Init, PingType, PingInv, CopyType, PacketRec, Waits, NoPacket, NoneWaiting
<1>. QED  BY <1>2, <1>3, <1>4 DEF Init, IInv

\* Parts of steps.
LEMMA FaultOf ==
  ASSUME CountType, Fault \/ NoFault
  PROVE  faults' \in 0 .. MaxFaults
BY Bounds DEF CountType, Fault, NoFault

LEMMA ProcessOf ==
  ASSUME ListType, NEW m \in Nodes, NEW msgs, msgs \subseteq MessageRec, Process(m, msgs)
  PROVE  ListType'
<1>. DEFINE heard == buf[m] \cup {msg \in msgs : Needed(msg, list[m])}
<1>1. PICK kept \in Resolved(heard) : /\ buf' = [buf EXCEPT ![m] = kept]
                                      /\ list' = [list EXCEPT ![m] = Perform(@, kept)]
  BY DEF Process
<1>2. heard \subseteq MessageRec
  BY DEF ListType
<1>. HIDE DEF heard
<1>3. kept \subseteq MessageRec
  BY <1>2 DEF Resolved
<1>4. Perform(list[m], kept) \in Lists
  BY <1>3, PerformOf DEF ListType
<1>. QED  BY <1>1, <1>3, <1>4 DEF ListType

LEMMA DeliveredOf ==
  ASSUME packet \in [Nodes -> PacketRec], NEW n \in Nodes, NEW m, Delivered(n, m)
  PROVE  /\ packet' \in [Nodes -> PacketRec]
         /\ packet'[n].to = packet[n].to \ {m}
         /\ \A k \in Nodes : k # n => packet'[k] = packet[k]
<1>. DEFINE to == packet[n].to \ {m}
<1>1. packet[n] \in PacketRec
  OBVIOUS
<1>2. PICK p : p = IF to = {} THEN NoPacket ELSE [packet[n] EXCEPT !.to = to]
  OBVIOUS
<1>3. p \in PacketRec /\ p.to = to
  BY <1>1, <1>2 DEF PacketRec, NoPacket
<1>4. packet' = [packet EXCEPT ![n] = p]
  BY <1>2 DEF Delivered
<1>. QED  BY <1>3, <1>4

LEMMA AwaitsOf ==
  ASSUME waiting \in [Nodes -> Waits], NEW n \in Nodes, NEW m \in Nodes, waiting[n][m] < 2,
         Awaits(n, m)
  PROVE  /\ waiting' \in [Nodes -> Waits]
         /\ \A k, j \in Nodes : k # n \/ j # m => waiting'[k][j] = waiting[k][j]
<1>1. waiting[n] \in [Nodes -> 0 .. 2]
  BY DEF Waits
<1>2. PICK w : w = [waiting[n] EXCEPT ![m] = @ + 1]
  OBVIOUS
<1>3. waiting[n][m] + 1 \in 0 .. 2
  BY <1>1
<1>4. w \in Waits /\ \A j \in Nodes : j # m => w[j] = waiting[n][j]
  BY <1>1, <1>2, <1>3 DEF Waits
<1>5. waiting' = [waiting EXCEPT ![n] = w]
  BY <1>2 DEF Awaits
<1>. QED  BY <1>4, <1>5

\* A ping that has come to an end in one way or the other.
LEMMA PingEnds ==
  ASSUME IInv, NEW n \in Nodes, NEW m \in packet[n].to, Delivered(n, m),
         UNCHANGED waiting \/ Awaits(n, m)
  PROVE  m \in Nodes /\ PingType' /\ PingInv'
<1>1. m \in Nodes /\ waiting[n][m] < 2
  BY DEF IInv, PingType, PacketRec, PingInv
<1>2. /\ packet' \in [Nodes -> PacketRec] /\ packet'[n].to = packet[n].to \ {m}
      /\ \A k \in Nodes : k # n => packet'[k] = packet[k]
  BY DeliveredOf DEF IInv, PingType
<1>3. /\ waiting' \in [Nodes -> Waits]
      /\ \A k, j \in Nodes : k # n \/ j # m => waiting'[k][j] = waiting[k][j]
  BY <1>1, AwaitsOf DEF IInv, PingType
<1>4. PingInv'
  <2>1. SUFFICES ASSUME NEW k \in Nodes, NEW j \in packet'[k].to PROVE waiting'[k][j] < 2
    BY DEF PingInv
  <2>2. j \in packet[k].to /\ (k # n \/ j # m)
    BY <1>2, <2>1
  <2>3. j \in Nodes /\ waiting[k][j] < 2
    BY <2>2 DEF IInv, PingType, PacketRec, PingInv
  <2>. QED  BY <1>3, <2>2, <2>3
<1>. QED  BY <1>1, <1>2, <1>3, <1>4 DEF PingType


-----------------------------------------------------------------------------
(* Every step keeps it. *)

\* A round asks for at most one more answer of each neighbour.
LEMMA RoundInv ==
  ASSUME IInv, NEW n \in Nodes, Round(n)
  PROVE  IInv'
<1>. DEFINE to == Neighbours(n, list[n])
            down == {m \in to : ~up[m]}
            w == [m \in Nodes |-> IF m \in down THEN waiting[n][m] + 1 ELSE waiting[n][m]]
<1>1. to \subseteq Nodes
  BY NeighboursOf DEF IInv, ListType
<1>2. /\ \A m \in Nodes : waiting[n][m] < 2
      /\ waiting' = [waiting EXCEPT ![n] = w]
      /\ UNCHANGED <<up, list, joined, crashes, leaves, faults, odd, swept>>
  BY DEF Round
<1>2a. /\ buf' = [buf EXCEPT ![n] = {}] \/ UNCHANGED buf
       /\ UNCHANGED copied \/ copied' = [copied EXCEPT ![n] = {buf[n]}]
       /\ UNCHANGED slow \/ (slow < MaxSlow /\ slow' = slow + 1)
  BY DEF Round
<1>3. PICK p : /\ p = IF buf[n] = {} \/ to \subseteq down THEN NoPacket
                        ELSE [to |-> to \ down, msgs |-> buf[n]]
               /\ packet' = [packet EXCEPT ![n] = p]
  BY DEF Round
<1>4. p \in PacketRec /\ p.to \subseteq to \ down
  BY <1>1, <1>3 DEF IInv, ListType, PacketRec, NoPacket
<1>5. waiting \in [Nodes -> Waits] /\ waiting[n] \in [Nodes -> 0 .. 2]
  BY DEF IInv, PingType, Waits
<1>. HIDE DEF to, down
<1>6. w \in Waits /\ \A m \in Nodes \ down : w[m] < 2
  <2>1. \A m \in Nodes : waiting[n][m] \in 0 .. 1
    BY <1>2, <1>5
  <2>2. \A m \in Nodes : w[m] \in 0 .. 2 /\ (m \notin down => w[m] < 2)
    BY <2>1
  <2>. HIDE DEF w
  <2>3. w = [m \in Nodes |-> w[m]]
    BY DEF w
  <2>. QED  BY <2>2, <2>3 DEF Waits
<1>. HIDE DEF w
<1>7. PingType'
  BY <1>2, <1>3, <1>4, <1>5, <1>6 DEF IInv, PingType
<1>8. PingInv'
  <2>1. SUFFICES ASSUME NEW k \in Nodes, NEW m \in packet'[k].to PROVE waiting'[k][m] < 2
    BY DEF PingInv
  <2>2. CASE k = n
    <3>1. packet'[k] = p /\ waiting'[k] = w
      BY <1>2, <1>3, <1>5, <2>2 DEF IInv, PingType
    <3>. QED  BY <1>1, <1>4, <1>6, <2>1, <3>1
  <2>3. CASE k # n
    <3>1. packet'[k] = packet[k] /\ waiting'[k] = waiting[k]
      BY <1>2, <1>3, <2>3 DEF IInv, PingType
    <3>. QED  BY <2>1, <3>1 DEF IInv, PingInv
  <2>. QED  BY <2>2, <2>3
<1>9. ListType' /\ CopyType'
  BY <1>2, <1>2a DEF IInv, ListType, CopyType
<1>10. CountType'
  BY <1>2, <1>2a, Bounds DEF IInv, CountType
<1>. QED  BY <1>2, <1>7, <1>8, <1>9, <1>10 DEF IInv

\* The messages swept are of the buffer and about nodes.
LEMMA RoundEndInv ==
  ASSUME IInv, NEW n \in Nodes, RoundEnd(n)
  PROVE  IInv'
<1>1. /\ copied' = [copied EXCEPT ![n] = {}] /\ buf' = [buf EXCEPT ![n] = {}]
      /\ swept' = swept \cup {msg.node : msg \in buf[n] \ UNION copied[n]}
      /\ UNCHANGED <<up, list, packet, waiting, joined, crashes, leaves, faults, slow, odd>>
  BY DEF RoundEnd, budget
<1>2. ListType' /\ CopyType'
  BY <1>1 DEF IInv, ListType, CopyType
<1>3. swept' \subseteq Nodes
  BY <1>1 DEF IInv, ListType, MessageRec
<1>. QED  BY <1>1, <1>2, <1>3 DEF IInv, CountType, PingType, PingInv

LEMMA ReceiveInv ==
  ASSUME IInv, NEW n \in Nodes, NEW m \in Nodes, Receive(n, m)
  PROVE  IInv'
<1>1. /\ m \in packet[n].to /\ Delivered(n, m) /\ Process(m, packet[n].msgs)
      /\ UNCHANGED waiting \/ Awaits(n, m)
      /\ Fault \/ NoFault
      /\ odd' \subseteq odd \cup {m}
      /\ UNCHANGED <<up, copied, joined, crashes, leaves, slow, swept>>
  BY DEF Receive, Unheard
<1>2. PingType' /\ PingInv'
  BY <1>1, PingEnds
<1>3. packet[n].msgs \subseteq MessageRec
  BY DEF IInv, PingType, PacketRec
<1>4. ListType'
  BY <1>1, <1>3, ProcessOf DEF IInv
<1>5. CountType'
  BY <1>1, FaultOf DEF IInv, CountType
<1>. QED  BY <1>1, <1>2, <1>4, <1>5 DEF IInv, CopyType

LEMMA UnansweredInv ==
  ASSUME IInv, NEW n \in Nodes, NEW m \in Nodes, Unanswered(n, m)
  PROVE  IInv'
<1>1. /\ m \in packet[n].to /\ Delivered(n, m) /\ Awaits(n, m) /\ (Fault \/ NoFault)
      /\ odd' \subseteq odd \cup {m}
      /\ UNCHANGED <<up, list, buf, copied, joined, crashes, leaves, slow, swept>>
  BY DEF Unanswered, Unheard
<1>2. PingType' /\ PingInv'
  BY <1>1, PingEnds
<1>3. CountType'
  BY <1>1, FaultOf DEF IInv, CountType
<1>. QED  BY <1>1, <1>2, <1>3 DEF IInv, ListType, CopyType

LEMMA LostInv ==
  ASSUME IInv, NEW n \in Nodes, NEW m \in Nodes, Lost(n, m)
  PROVE  IInv'
<1>1. /\ packet[n].to = {} /\ waiting[n][m] < 2 /\ Awaits(n, m) /\ Fault
      /\ odd' = odd \cup {m}
      /\ UNCHANGED <<up, list, buf, copied, packet, joined, crashes, leaves, slow, swept>>
  BY DEF Lost, Unheard
<1>2. /\ waiting' \in [Nodes -> Waits]
      /\ \A k, j \in Nodes : k # n \/ j # m => waiting'[k][j] = waiting[k][j]
  BY <1>1, AwaitsOf DEF IInv, PingType
<1>3. PingInv'
  <2>1. SUFFICES ASSUME NEW k \in Nodes, NEW j \in packet[k].to PROVE waiting'[k][j] < 2
    BY <1>1 DEF PingInv
  <2>2. k # n /\ j \in Nodes /\ waiting[k][j] < 2
    BY <1>1, <2>1 DEF IInv, PingType, PacketRec, PingInv
  <2>. QED  BY <1>2, <2>2
<1>4. CountType'
  BY <1>1, FaultOf DEF IInv, CountType
<1>. QED  BY <1>1, <1>2, <1>3, <1>4 DEF IInv, ListType, CopyType, PingType

LEMMA ActOnBufferInv ==
  ASSUME IInv, NEW n \in Nodes, ActOnBuffer(n)
  PROVE  IInv'
<1>1. Process(n, {}) /\ UNCHANGED <<up, copied, packet, waiting, joined, crashes, leaves, faults, slow, odd, swept>>
  BY DEF ActOnBuffer, budget
<1>2. ListType'
  BY <1>1, ProcessOf DEF IInv
<1>. QED  BY <1>1, <1>2 DEF IInv, CopyType, CountType, PingType, PingInv

LEMMA MessageOf ==
  ASSUME CountType, NEW m \in Nodes
  PROVE  \A type \in {"JOIN", "LEFT", "FAILED"} : Message(type, m) \in MessageRec
<1>1. joined[m] \in Nat
  BY Bounds DEF CountType
<1>. QED  BY <1>1 DEF Message, MessageRec

\* A time-out frees a place.
LEMMA TimeOutInv ==
  ASSUME IInv, NEW n \in Nodes, NEW m \in Nodes, TimeOut(n, m)
  PROVE  IInv'
<1>1. /\ waiting[n][m] > 0 /\ waiting' = [waiting EXCEPT ![n][m] = @ - 1]
      /\ list' = [list EXCEPT ![n] = RemoveFirst(@, m)]
      /\ buf' = [buf EXCEPT ![n] = @ \cup {Message("FAILED", m)}]
      /\ UNCHANGED <<up, copied, packet, joined, crashes, leaves, faults, slow, odd, swept>>
  BY DEF TimeOut, budget
<1>2. ListType'
  <2>1. Message("FAILED", m) \in MessageRec
    BY MessageOf DEF IInv
  <2>2. RemoveFirst(list[n], m) \in Lists
    BY RemoveFirstOf DEF IInv, ListType
  <2>. QED  BY <1>1, <2>1, <2>2 DEF IInv, ListType
<1>3. waiting \in [Nodes -> Waits] /\ waiting[n] \in [Nodes -> 0 .. 2]
  BY DEF IInv, PingType, Waits
<1>4. PICK w : w = [waiting[n] EXCEPT ![m] = @ - 1]
  OBVIOUS
<1>5. w \in Waits /\ \A j \in Nodes : w[j] <= waiting[n][j]
  <2>1. waiting[n][m] - 1 \in 0 .. 2 /\ waiting[n][m] - 1 <= waiting[n][m]
    BY <1>1, <1>3
  <2>2. w \in Waits /\ w[m] = waiting[n][m] - 1 /\ \A j \in Nodes : j # m => w[j] = waiting[n][j]
    BY <1>3, <1>4, <2>1 DEF Waits
  <2>3. \A j \in Nodes : waiting[n][j] <= waiting[n][j]
    BY <1>3
  <2>. QED  BY <2>1, <2>2, <2>3
<1>6. waiting' = [waiting EXCEPT ![n] = w]
  BY <1>1, <1>4
<1>7. PingType'
  BY <1>1, <1>3, <1>5, <1>6 DEF IInv, PingType
<1>8. PingInv'
  <2>1. SUFFICES ASSUME NEW k \in Nodes, NEW j \in packet[k].to PROVE waiting'[k][j] < 2
    BY <1>1 DEF PingInv
  <2>2. j \in Nodes /\ waiting[k][j] < 2
    BY <2>1 DEF IInv, PingType, PacketRec, PingInv
  <2>3. waiting[k][j] \in 0 .. 2 /\ waiting'[k][j] \in 0 .. 2
    BY <1>7, <2>2 DEF IInv, PingType, Waits
  <2>4. waiting'[k][j] <= waiting[k][j]
    BY <1>3, <1>5, <1>6, <2>2, <2>3
  <2>. QED  BY <2>2, <2>3, <2>4
<1>. QED  BY <1>1, <1>2, <1>7, <1>8 DEF IInv, CopyType, CountType

\* A node joins no more often than all together.
LEMMA JoinInv ==
  ASSUME IInv, NEW m \in Nodes, Join(m)
  PROVE  IInv'
<1>. DEFINE longer == Add(list[Introducer], m)
            told == buf[Introducer] \cup {[Message("JOIN", m) EXCEPT !.at = @ + 1]}
<1>1. /\ joins < MaxJoins /\ joined' = [joined EXCEPT ![m] = @ + 1]
      /\ (Fault \/ NoFault) /\ odd' \subseteq odd \cup {m}
      /\ UNCHANGED <<up, copied, packet, waiting, crashes, leaves, slow, swept>>
  BY DEF Join
<1>2. longer \in Lists
  BY Bounds, AddOf DEF IInv, ListType
<1>3. told \subseteq MessageRec
  <2>1. joined[m] + 1 \in Nat
    BY Bounds DEF IInv, CountType
  <2>2. [Message("JOIN", m) EXCEPT !.at = @ + 1] = [type |-> "JOIN", node |-> m, at |-> joined[m] + 1]
    BY DEF Message
  <2>3. [type |-> "JOIN", node |-> m, at |-> joined[m] + 1] \in MessageRec
    BY <2>1 DEF MessageRec
  <2>. QED  BY <2>2, <2>3, Bounds DEF IInv, ListType
<1>. HIDE DEF longer, told
<1>4. ListType'
  <2>1. CASE \E kept \in Resolved(buf[m]) :
               /\ list' = [list EXCEPT ![Introducer] = longer, ![m] = Perform(longer, kept)]
               /\ buf' = [buf EXCEPT ![Introducer] = told, ![m] = kept]
    <3>1. PICK kept \in Resolved(buf[m]) :
            /\ list' = [list EXCEPT ![Introducer] = longer, ![m] = Perform(longer, kept)]
            /\ buf' = [buf EXCEPT ![Introducer] = told, ![m] = kept]
      BY <2>1
    <3>2. kept \subseteq MessageRec
      BY DEF Resolved, IInv, ListType
    <3>3. Perform(longer, kept) \in Lists
      BY <1>2, <3>2, PerformOf
    <3>. QED  BY <1>2, <1>3, <3>1, <3>2, <3>3 DEF IInv, ListType
  <2>2. CASE /\ list' = [list EXCEPT ![Introducer] = longer]
             /\ buf' = [buf EXCEPT ![Introducer] = told]
    BY <1>2, <1>3, <2>2 DEF IInv, ListType
  <2>. QED  BY <2>1, <2>2 DEF Join, longer, told
<1>5. CountType'
  <2>1. joined \in [Nodes -> Nat]
    BY Bounds DEF IInv, CountType
  <2>2. joins \in Nat /\ joined[m] <= joins
    BY <2>1, Bounds, SumOf DEF joins
  <2>3. joined[m] \in Nat
    BY <2>1
  <2>4. joined[m] + 1 \in 0 .. MaxJoins
    BY <1>1, <2>2, <2>3, Bounds
  <2>. QED  BY <1>1, <2>4, FaultOf DEF IInv, CountType
<1>. QED  BY <1>1, <1>4, <1>5 DEF IInv, CopyType, PingType, PingInv

LEMMA LeaveInv ==
  ASSUME IInv, NEW m \in Nodes, Leave(m)
  PROVE  IInv'
<1>1. /\ leaves < MaxLeaves /\ leaves' = leaves + 1
      /\ buf' = [buf EXCEPT ![m] = @ \cup {Message("LEFT", m)}] /\ odd' = odd \cup {m}
      /\ UNCHANGED <<up, list, copied, packet, waiting, joined, crashes, faults, slow, swept>>
  BY DEF Leave
<1>2. ListType'
  <2>1. Message("LEFT", m) \in MessageRec
    BY MessageOf DEF IInv
  <2>. QED  BY <1>1, <2>1 DEF IInv, ListType
<1>3. CountType'
  BY <1>1, Bounds DEF IInv, CountType
<1>. QED  BY <1>1, <1>2, <1>3 DEF IInv, CopyType, PingType, PingInv

LEMMA CrashInv ==
  ASSUME IInv, NEW m \in Nodes, Crash(m)
  PROVE  IInv'
<1>1. /\ crashes < MaxCrashes /\ crashes' = crashes + 1 /\ up' = [up EXCEPT ![m] = FALSE]
      /\ list' = [list EXCEPT ![m] = Alone] /\ buf' = [buf EXCEPT ![m] = {}]
      /\ copied' = [copied EXCEPT ![m] = {}] /\ packet' = [packet EXCEPT ![m] = NoPacket]
      /\ waiting' = [waiting EXCEPT ![m] = NoneWaiting]
      /\ odd' = odd \cup {m} /\ UNCHANGED <<joined, leaves, faults, slow, swept>>
  BY DEF Crash
<1>2. ListType'
  BY <1>1, AloneOf DEF IInv, ListType
<1>3. CountType'
  BY <1>1, Bounds DEF IInv, CountType
<1>4. NoPacket \in PacketRec /\ NoPacket.to = {} /\ NoneWaiting \in Waits
  BY DEF NoPacket, PacketRec, NoneWaiting, Waits
<1>5. PingType'
  BY <1>1, <1>4 DEF IInv, PingType
<1>6. PingInv'
  <2>1. SUFFICES ASSUME NEW k \in Nodes, NEW j \in packet'[k].to PROVE waiting'[k][j] < 2
    BY DEF PingInv
  <2>2. k # m
    BY <1>1, <1>4, <2>1 DEF IInv, PingType
  <2>3. packet'[k] = packet[k] /\ waiting'[k] = waiting[k]
    BY <1>1, <2>2 DEF IInv, PingType
  <2>. QED  BY <2>1, <2>3 DEF IInv, PingInv
<1>7. CopyType'
  BY <1>1 DEF IInv, CopyType
<1>. QED  BY <1>1, <1>2, <1>3, <1>5, <1>6, <1>7 DEF IInv

LEMMA RestartInv ==
  ASSUME IInv, NEW m \in Nodes, Restart(m)
  PROVE  IInv'
<1>1. /\ crashes < MaxCrashes /\ crashes' = crashes + 1 /\ up' = [up EXCEPT ![m] = TRUE]
      /\ UNCHANGED <<list, buf, copied, packet, waiting, joined, leaves, faults, slow, odd, swept>>
  BY DEF Restart
<1>2. CountType'
  BY <1>1, Bounds DEF IInv, CountType
<1>. QED  BY <1>1, <1>2 DEF IInv, ListType, CopyType, PingType, PingInv

LEMMA NextInv ==
  ASSUME IInv, [Next]_vars
  PROVE  IInv'
<1>1. CASE UNCHANGED vars
  BY <1>1 DEF vars, budget, IInv, ListType, CopyType, CountType, PingType, PingInv
<1>2. CASE Next
  BY <1>2, RoundInv, RoundEndInv, ActOnBufferInv, ReceiveInv, UnansweredInv, LostInv, TimeOutInv, JoinInv,
     LeaveInv, CrashInv, RestartInv DEF Next
<1>. QED  BY <1>1, <1>2

\* The lists of all nodes stay in the order of the peer ids, whatever order joins,
\* failures and leaves reach them in and although a node may be listed twice
\* (membershipList.go:82-131, introducer.go:51-106); no node has more than two pings of a
\* peer unanswered; and buffers and packets hold messages about peers only.
THEOREM TypeCorrect == Spec => []TypeOK
<1>. QED  BY InitInv, NextInv, InvTypes, PTL DEF Spec
=============================================================================
