-------------------------- MODULE ManifestsProofs --------------------------
(***************************************************************************)
(* Theorems about reading a stream of documents, for streams of any length *)
(* and any lines: the pieces keep every document (releaseutil/manifest.go), *)
(* the list is complete in whatever order the map is visited               *)
(* (manifest_list.go), and what it holds can be moved (manifest.go).       *)
(***************************************************************************)
EXTENDS Manifests, FiniteSetTheorems, SequenceTheorems, WellFoundedInduction, TLAPS

-----------------------------------------------------------------------------
(* The least and the greatest of some numbers. That there is a least is    *)
(* what the proofs use in place of induction.                              *)

Less == {ss \in Nat \X Nat : ss[1] < ss[2]}

LEMMA LessWF == IsWellFoundedOn(Less, Nat)
  BY NatLessThanWellFounded DEF OpToRel, Less

LEMMA Least ==
    ASSUME NEW T, T \subseteq Nat, T # {}
    PROVE  \E m \in T : \A n \in T : m <= n
  <1>1. PICK x \in T : \A y \in T : <<y, x>> \notin Less
    BY LessWF, WFMin
  <1>2. ASSUME NEW y \in T
        PROVE  x <= y
    <2>1. x \in Nat /\ y \in Nat
      OBVIOUS
    <2>2. <<y, x>> \in Nat \X Nat /\ <<y, x>>[1] = y /\ <<y, x>>[2] = x
      BY <2>1
    <2>3. ~(y < x)
      BY <1>1, <2>2 DEF Less
    <2> QED
      BY <2>1, <2>3
  <1> QED
    BY <1>2

LEMMA MinOf ==
    ASSUME NEW T, T \subseteq Nat, T # {}
    PROVE  Min(T) \in T /\ \A n \in T : Min(T) <= n
  BY Least DEF Min

LEMMA MaxOf ==
    ASSUME NEW b \in Nat, NEW T, T \subseteq 0..b, T # {}
    PROVE  Max(T) \in T /\ \A n \in T : n <= Max(T)
  <1> DEFINE U == {b - n : n \in T}
  <1>0. \A n \in T : n \in Nat /\ n <= b
    OBVIOUS
  <1>1. U \subseteq Nat /\ U # {}
    <2>1. U \subseteq Nat
      BY <1>0
    <2>2. PICK t \in T : TRUE
      OBVIOUS
    <2>3. b - t \in U
      OBVIOUS
    <2> QED
      BY <2>1, <2>3
  <1> HIDE DEF U
  <1>2. PICK u \in U : \A w \in U : u <= w
    BY <1>1, Least
  <1>3. PICK m \in T : u = b - m
    BY DEF U
  <1>4. ASSUME NEW n \in T
        PROVE  m >= n
    <2>1. b - n \in U
      BY DEF U
    <2>2. b - m <= b - n
      BY <2>1, <1>2, <1>3
    <2> QED
      BY <2>2
  <1>5. \E x \in T : \A y \in T : x >= y
    BY <1>4
  <1>6. Max(T) \in T /\ \A y \in T : Max(T) >= y
    BY <1>5 DEF Max
  <1>7. Max(T) \in Nat
    BY <1>0, <1>6
  <1> QED
    BY <1>0, <1>6, <1>7

-----------------------------------------------------------------------------
(* Separators. *)

Separates(f, i) == i > 0 /\ input[i].text = "marker" /\ ~f[Before(i)]

\* The lines so far, and the streams there are.
InputOK ==
    /\ input \in Seq(Lines)
    /\ \A i, j \in Text : i < j => \E k \in i..j : input[k].text = "marker"

LEMMA InputLines ==
    ASSUME InputOK
    PROVE  /\ Len(input) \in Nat
           /\ DOMAIN input = 1..Len(input)
           /\ \A i \in DOMAIN input : input[i] \in Line /\ input[i] \in Lines
  <1>1. Len(input) \in Nat /\ DOMAIN input = 1..Len(input)
    BY LenProperties DEF InputOK
  <1>2. \A i \in DOMAIN input : input[i] \in Lines
    BY <1>1, ElementOfSeq DEF InputOK
  <1> QED
    BY <1>1, <1>2, LinesOK

\* The line before is the last one before it that is not blank, or none.
LEMMA LineBefore ==
    ASSUME InputOK, NEW i \in 1..Len(input)
    PROVE  /\ Before(i) \in 0..(i - 1)
           /\ Before(i) # 0 => Before(i) \in Shown
           /\ \A j \in Shown : j < i => j <= Before(i)
  <1> DEFINE S == {0} \cup {j \in Shown : j < i}
  <1>1. Len(input) \in Nat /\ DOMAIN input = 1..Len(input)
    BY InputLines
  <1>2. S \subseteq 0..Len(input) /\ S # {} /\ 0 \in S
    BY <1>1 DEF Shown
  <1>3. Before(i) = Max(S)
    BY DEF Before
  <1>4. \A j \in S : j = 0 \/ (j \in Shown /\ j < i)
    OBVIOUS
  <1>5. \A j \in Shown : j < i => j \in S
    OBVIOUS
  <1> HIDE DEF S
  <1>6. Max(S) \in S /\ \A n \in S : n <= Max(S)
    BY <1>1, <1>2, MaxOf
  <1>7. Max(S) = 0 \/ (Max(S) \in Shown /\ Max(S) < i)
    BY <1>4, <1>6
  <1>8. Max(S) \in Nat
    <2>1. \A j \in S : j \in Nat
      BY <1>1, <1>2
    <2> QED
      BY <2>1, <1>6
  <1> QED
    BY <1>3, <1>5, <1>6, <1>7, <1>8

\* The equation that defines IsSeparator has a solution on the first lines, as it
\* has one on fewer.
LEMMA SeparatorsExist ==
    ASSUME InputOK, NEW n \in 0..Len(input)
    PROVE  \E f : f = [i \in 0..n |-> Separates(f, i)]
  <1> DEFINE Solved(m) == \E f : f = [i \in 0..m |-> Separates(f, i)]
             T == {m \in 0..Len(input) : ~Solved(m)}
  <1>1. Len(input) \in Nat
    BY InputLines
  <1>2. Solved(0)
    <2> DEFINE f == [i \in 0..0 |-> FALSE]
    <2>1. \A i \in 0..0 : Separates(f, i) = FALSE
      BY DEF Separates
    <2>2. f = [i \in 0..0 |-> Separates(f, i)]
      BY <2>1
    <2> QED
      BY <2>2
  <1>3. ASSUME NEW m \in Nat, m + 1 <= Len(input), Solved(m)
        PROVE  Solved(m + 1)
    <2>1. PICK f : f = [i \in 0..m |-> Separates(f, i)]
      BY <1>3
    <2> DEFINE g == [i \in 0..(m + 1) |-> IF i <= m THEN f[i] ELSE Separates(f, i)]
    <2>2. \A i \in 0..m : g[i] = f[i]
      BY <1>3
    <2>3. \A i \in 0..(m + 1) : Separates(g, i) = Separates(f, i)
      <3> SUFFICES ASSUME NEW i \in 0..(m + 1), i > 0
                   PROVE  Separates(g, i) = Separates(f, i)
        BY DEF Separates
      <3>1. i \in 1..Len(input)
        BY <1>1, <1>3
      <3>2. Before(i) \in 0..(i - 1)
        BY <3>1, LineBefore
      <3>3. Before(i) \in 0..m
        BY <3>2, <1>3
      <3>4. g[Before(i)] = f[Before(i)]
        BY <3>3, <2>2
      <3> HIDE DEF g
      <3> QED
        BY <3>4 DEF Separates
    <2>4. \A i \in 0..m : f[i] = Separates(f, i)
      BY <2>1
    <2>5. \A i \in 0..(m + 1) : g[i] = Separates(g, i)
      <3> SUFFICES ASSUME NEW i \in 0..(m + 1)
                   PROVE  g[i] = Separates(f, i)
        BY <2>3
      <3>1. CASE i <= m
        BY <3>1, <2>4, <1>3
      <3>2. CASE ~(i <= m)
        BY <3>2
      <3> QED
        BY <3>1, <3>2
    <2>6. g = [i \in 0..(m + 1) |-> g[i]]
      OBVIOUS
    <2> HIDE DEF g
    <2>7. g = [i \in 0..(m + 1) |-> Separates(g, i)]
      BY <2>5, <2>6, Zenon
    <2> QED
      BY <2>7
  <1> HIDE DEF Solved
  <1>4. ASSUME T # {}
        PROVE  FALSE
    <2>1. T \subseteq Nat
      BY <1>1
    <2>2. PICK m \in T : \A k \in T : m <= k
      BY <1>4, <2>1, Least
    <2>3. m \in 0..Len(input) /\ ~Solved(m)
      OBVIOUS
    <2>4. m # 0
      BY <2>3, <1>2
    <2>5. m - 1 \in Nat /\ m - 1 \in 0..Len(input) /\ m - 1 \notin T
      BY <1>1, <2>2, <2>3, <2>4
    <2>6. Solved(m - 1)
      BY <2>5
    <2>7. Solved((m - 1) + 1)
      BY <1>1, <1>3, <2>3, <2>5, <2>6
    <2>8. (m - 1) + 1 = m
      BY <2>3, <1>1
    <2> QED
      BY <2>3, <2>7, <2>8
  <1>5. Solved(n)
    BY <1>4
  <1> QED
    BY <1>5 DEF Solved

LEMMA SeparatorIs ==
    ASSUME InputOK, NEW i \in 0..Len(input)
    PROVE  IsSeparator[i] <=> i > 0 /\ input[i].text = "marker" /\ ~IsSeparator[Before(i)]
  <1>1. IsSeparator = CHOOSE f : f = [j \in 0..Len(input) |-> Separates(f, j)]
    BY DEF IsSeparator, Separates
  <1>2. Len(input) \in 0..Len(input)
    BY InputLines
  <1>3. \E f : f = [j \in 0..Len(input) |-> Separates(f, j)]
    BY <1>2, SeparatorsExist
  <1>4. IsSeparator = [j \in 0..Len(input) |-> Separates(IsSeparator, j)]
    BY <1>1, <1>3
  <1>5. IsSeparator[i] = Separates(IsSeparator, i)
    BY <1>4, Zenon
  <1> QED
    BY <1>5 DEF Separates

-----------------------------------------------------------------------------
(* Pieces, and where they begin. *)

\* How many of some numbers are below one of them.
Below(S, i) == {j \in S : j < i}
Rank(S, i)  == Cardinality(Below(S, i))

LEMMA FiniteNumbers ==
    ASSUME NEW b \in Nat, NEW S, S \subseteq 1..b
    PROVE  IsFiniteSet(S) /\ Cardinality(S) \in Nat /\ \A n \in S : n \in Nat
  <1>1. IsFiniteSet(1..b)
    BY FS_Interval
  <1>2. S \in SUBSET (1..b)
    OBVIOUS
  <1>3. IsFiniteSet(S)
    BY <1>1, <1>2, FS_Subset
  <1> QED
    BY <1>3, FS_CardinalityType

LEMMA RankType ==
    ASSUME NEW b \in Nat, NEW S, S \subseteq 1..b, NEW i \in S
    PROVE  /\ IsFiniteSet(S) /\ IsFiniteSet(Below(S, i))
           /\ Cardinality(S) \in Nat /\ Rank(S, i) \in Nat
           /\ Rank(S, i) < Cardinality(S)
  <1>1. IsFiniteSet(S)
    BY FiniteNumbers
  <1>2. Below(S, i) \in SUBSET S /\ i \notin Below(S, i)
    BY DEF Below
  <1>3. /\ IsFiniteSet(Below(S, i))
        /\ Cardinality(Below(S, i)) <= Cardinality(S)
        /\ Cardinality(S) # Cardinality(Below(S, i))
    BY <1>1, <1>2, FS_Subset
  <1>4. Cardinality(S) \in Nat /\ Cardinality(Below(S, i)) \in Nat
    BY <1>1, <1>3, FS_CardinalityType
  <1> QED
    BY <1>1, <1>3, <1>4 DEF Rank

LEMMA RankGrows ==
    ASSUME NEW b \in Nat, NEW S, S \subseteq 1..b, NEW i \in S, NEW j \in S, i < j
    PROVE  Rank(S, i) < Rank(S, j)
  <1>1. IsFiniteSet(Below(S, j)) /\ Rank(S, i) \in Nat /\ Rank(S, j) \in Nat
    BY RankType
  <1>2. i \in Nat /\ j \in Nat /\ \A n \in S : n \in Nat
    BY FiniteNumbers
  <1>3. i \in Below(S, j) /\ i \notin Below(S, i)
    BY <1>2 DEF Below
  <1>5. ASSUME NEW n \in Below(S, i)
        PROVE  n \in Below(S, j)
    <2>1. n \in S /\ n < i
      BY DEF Below
    <2>2. n < j
      BY <1>2, <2>1
    <2> QED
      BY <2>1, <2>2 DEF Below
  <1>4. /\ Cardinality(Below(S, i)) <= Cardinality(Below(S, j))
        /\ Cardinality(Below(S, j)) # Cardinality(Below(S, i))
    BY <1>1, <1>3, <1>5, FS_Subset
  <1> QED
    BY <1>1, <1>4 DEF Rank

\* Every number below the size of the set is the rank of one of its members.
LEMMA RankReached ==
    ASSUME NEW b \in Nat, NEW S, S \subseteq 1..b, NEW r \in Nat, r < Cardinality(S)
    PROVE  \E i \in S : Rank(S, i) = r
  <1> DEFINE T == {k \in Nat : k < Cardinality(S) /\ ~\E i \in S : Rank(S, i) = k}
  <1>1. IsFiniteSet(S) /\ Cardinality(S) \in Nat
    BY FiniteNumbers
  <1>2. S \subseteq Nat /\ \A n \in S : n \in Nat
    BY FiniteNumbers
  <1>3. ASSUME T # {}
        PROVE  FALSE
    <2>1. PICK k \in T : \A l \in T : k <= l
      BY <1>3, Least
    <2>2. k \in Nat /\ k < Cardinality(S) /\ \A i \in S : Rank(S, i) # k
      OBVIOUS
    <2>3. \A l \in Nat : l < k => \E i \in S : Rank(S, i) = l
      BY <2>1, <2>2, <1>1
    <2> HIDE DEF T
    <2>4. CASE k = 0
      <3>1. S # {}
        BY <2>2, <2>4, <1>1, FS_EmptySet
      <3>2. PICK m \in S : \A n \in S : m <= n
        BY <3>1, <1>2, Least
      <3>3. Below(S, m) = {}
        <4> SUFFICES ASSUME NEW n \in S, n < m
                     PROVE  FALSE
          BY DEF Below
        <4> QED
          BY <3>2, <1>2
      <3>4. Rank(S, m) = 0
        BY <3>3, FS_EmptySet DEF Rank
      <3> QED
        BY <3>4, <2>2, <2>4
    <2>5. CASE k # 0
      <3>1. PICK i \in S : Rank(S, i) = k - 1
        BY <2>2, <2>3, <2>5
      <3>2. IsFiniteSet(Below(S, i)) /\ i \in Nat
        BY <1>2, RankType
      <3>9. i \notin Below(S, i)
        BY <3>2 DEF Below
      <3>3. Cardinality(Below(S, i) \cup {i}) = k
        <4>1. Cardinality(Below(S, i) \cup {i}) = Cardinality(Below(S, i)) + 1
          BY <3>2, <3>9, FS_AddElement
        <4> QED
          BY <4>1, <3>1, <2>2 DEF Rank
      <3> DEFINE Above == {n \in S : n > i}
      <3>4. Above # {}
        <4> SUFFICES ASSUME Above = {}
                     PROVE  FALSE
          OBVIOUS
        <4>1. S = Below(S, i) \cup {i}
          <5>1. ASSUME NEW n \in S
                PROVE  n \in Below(S, i) \/ n = i
            <6>1. n \in Nat /\ ~(n > i)
              BY <1>2
            <6> QED
              BY <6>1, <3>2 DEF Below
          <5> QED
            BY <5>1 DEF Below
        <4> QED
          BY <4>1, <3>3, <2>2
      <3>5. Above \subseteq Nat
        BY <1>2
      <3>6. PICK m \in Above : \A n \in Above : m <= n
        BY <3>4, <3>5, Least
      <3>7. Below(S, m) = Below(S, i) \cup {i}
        <4>1. m \in S /\ m \in Nat /\ m > i /\ \A n \in S : n > i => m <= n
          BY <3>6, <1>2
        <4>2. ASSUME NEW n \in S
              PROVE  n < m <=> (n < i \/ n = i)
          <5>1. n \in Nat
            BY <1>2
          <5> QED
            BY <4>1, <5>1, <3>2
        <4> QED
          BY <4>2 DEF Below
      <3>8. Rank(S, m) = k
        BY <3>7, <3>3 DEF Rank
      <3> QED
        BY <3>8, <2>2
    <2> QED
      BY <2>4, <2>5
  <1> QED
    BY <1>3

\* Where the piece with a key begins.
StartOf(k) == CHOOSE i \in Starts : Rank(Starts, i) = k

LEMMA StartsAre ==
    ASSUME InputOK, NEW i \in Starts
    PROVE  /\ i \in Shown /\ i \in 1..Len(input) /\ ~IsSeparator[i]
           /\ Before(i) = 0 \/ IsSeparator[Before(i)]
           /\ Starts \subseteq 1..Len(input) /\ Len(input) \in Nat
  BY InputLines DEF Starts, Shown

LEMMA KeysAre ==
    ASSUME InputOK
    PROVE  /\ \A k : k \in DOMAIN SplitManifests <=> k \in Nat /\ k < Cardinality(Starts)
           /\ Cardinality(Starts) \in Nat
  <1>1. Starts \subseteq 1..Len(input) /\ Len(input) \in Nat
    BY InputLines DEF Starts, Shown
  <1>2. Cardinality(Starts) \in Nat
    BY <1>1, FiniteNumbers
  <1>3. DOMAIN SplitManifests = 0..(Cardinality(Starts) - 1)
    BY DEF SplitManifests
  <1> QED
    BY <1>2, <1>3

LEMMA StartOfKey ==
    ASSUME InputOK, NEW k \in DOMAIN SplitManifests
    PROVE  StartOf(k) \in Starts /\ Rank(Starts, StartOf(k)) = k
  <1>1. Starts \subseteq 1..Len(input) /\ Len(input) \in Nat
    BY InputLines DEF Starts, Shown
  <1>2. k \in Nat /\ k < Cardinality(Starts)
    BY KeysAre
  <1>3. \E i \in Starts : Rank(Starts, i) = k
    BY <1>1, <1>2, RankReached
  <1> QED
    BY <1>3 DEF StartOf

LEMMA KeyOfStart ==
    ASSUME InputOK, NEW i \in Starts
    PROVE  Rank(Starts, i) \in DOMAIN SplitManifests /\ StartOf(Rank(Starts, i)) = i
  <1> DEFINE k == Rank(Starts, i)
             j == StartOf(k)
  <1>1. Starts \subseteq 1..Len(input) /\ Len(input) \in Nat
    BY StartsAre
  <1>2. k \in Nat /\ k < Cardinality(Starts)
    BY <1>1, RankType
  <1>3. k \in DOMAIN SplitManifests
    BY <1>2, KeysAre
  <1>4. j \in Starts /\ Rank(Starts, j) = k
    BY <1>3, StartOfKey
  <1> HIDE DEF j
  <1>5. i \in Nat /\ j \in Nat
    BY <1>1, <1>4, FiniteNumbers
  <1>6. ASSUME i < j
        PROVE  FALSE
    <2>1. Rank(Starts, i) < Rank(Starts, j)
      BY <1>1, <1>4, <1>6, RankGrows
    <2> QED
      BY <2>1, <1>2, <1>4
  <1>7. ASSUME j < i
        PROVE  FALSE
    <2>1. Rank(Starts, j) < Rank(Starts, i)
      BY <1>1, <1>4, <1>7, RankGrows
    <2> QED
      BY <2>1, <1>2, <1>4
  <1> QED
    BY <1>3, <1>5, <1>6, <1>7 DEF j

LEMMA PieceIs ==
    ASSUME InputOK, NEW k \in DOMAIN SplitManifests, NEW i
    PROVE  i \in SplitManifests[k] <=>
             /\ i \in Shown /\ i >= StartOf(k)
             /\ \A j \in StartOf(k)..i : ~IsSeparator[j]
  <1>1. k \in 0..(Cardinality(Starts) - 1)
    BY DEF SplitManifests
  <1>2. StartOf(k) = CHOOSE n \in Starts : Cardinality({j \in Starts : j < n}) = k
    BY DEF StartOf, Rank, Below
  <1> QED
    BY <1>1, <1>2 DEF SplitManifests

\* A piece begins with its first line.
LEMMA PieceBegins ==
    ASSUME InputOK, NEW k \in DOMAIN SplitManifests
    PROVE  /\ StartOf(k) \in SplitManifests[k]
           /\ SplitManifests[k] \subseteq 1..Len(input)
           /\ SplitManifests[k] \subseteq Shown
           /\ Min(SplitManifests[k]) = StartOf(k)
  <1> DEFINE s == StartOf(k)
             piece == SplitManifests[k]
  <1>1. s \in Starts
    BY StartOfKey
  <1> HIDE DEF s
  <1>2. s \in Shown /\ ~IsSeparator[s] /\ s \in 1..Len(input) /\ s \in Nat /\ Len(input) \in Nat
    BY <1>1, StartsAre
  <1>3. \A j \in s..s : ~IsSeparator[j]
    BY <1>2
  <1>4. s \in piece
    BY <1>2, <1>3, PieceIs DEF s
  <1>5. ASSUME NEW i \in piece
        PROVE  i \in 1..Len(input) /\ i \in Shown /\ i \in Nat /\ s <= i
    <2>1. i \in Shown /\ i >= s
      BY PieceIs DEF s
    <2>2. i \in 1..Len(input)
      BY <2>1, InputLines DEF Shown
    <2> QED
      BY <2>1, <2>2, <1>2
  <1> HIDE DEF piece
  <1>6. piece \subseteq Nat /\ piece # {}
    BY <1>4, <1>5
  <1>7. Min(piece) \in piece /\ \A n \in piece : Min(piece) <= n
    BY <1>6, MinOf
  <1>8. Min(piece) \in Nat /\ Min(piece) <= s /\ s <= Min(piece)
    BY <1>4, <1>5, <1>7
  <1>9. Min(piece) = s
    BY <1>2, <1>8
  <1> QED
    BY <1>4, <1>5, <1>9 DEF s, piece

\* A later piece begins after a separator that no earlier one reaches.
LEMMA PiecesInOrder ==
    ASSUME InputOK, NEW k \in DOMAIN SplitManifests, NEW l \in DOMAIN SplitManifests, k < l
    PROVE  Max(SplitManifests[k]) < Min(SplitManifests[l])
  <1> DEFINE s == StartOf(k)
             t == StartOf(l)
             piece == SplitManifests[k]
  <1>1. /\ s \in Starts /\ t \in Starts
        /\ Rank(Starts, s) = k /\ Rank(Starts, t) = l
    BY StartOfKey
  <1>2. /\ piece \subseteq 1..Len(input) /\ s \in piece
        /\ Min(SplitManifests[l]) = t
    BY PieceBegins
  <1>3. ASSUME NEW i \in piece
        PROVE  i \in Shown /\ i >= s /\ \A j \in s..i : ~IsSeparator[j]
    BY PieceIs
  <1> HIDE DEF s, t, piece
  <1>4. /\ s \in Nat /\ t \in 1..Len(input) /\ t \in Nat /\ s \in Shown /\ Len(input) \in Nat
        /\ s > 0
        /\ Before(t) = 0 \/ IsSeparator[Before(t)]
        /\ Starts \subseteq 1..Len(input)
    BY <1>1, StartsAre
  <1>5. k \in Nat /\ l \in Nat
    BY KeysAre
  <1>6. s < t
    <2>1. ASSUME t < s
          PROVE  FALSE
      <3>1. Rank(Starts, t) < Rank(Starts, s)
        BY <1>1, <1>4, <2>1, RankGrows
      <3> QED
        BY <3>1, <1>1, <1>5
    <2>2. s # t
      BY <1>1, <1>5
    <2> QED
      BY <1>4, <2>1, <2>2
  <1>7. Before(t) \in 0..(t - 1) /\ s <= Before(t)
    BY <1>4, <1>6, LineBefore
  <1>8. IsSeparator[Before(t)] /\ Before(t) \in Nat /\ Before(t) < t
    BY <1>4, <1>7
  <1>9. ASSUME NEW i \in piece
        PROVE  i < t
    <2>1. i \in Nat
      BY <1>2
    <2>2. ~(Before(t) \in s..i)
      BY <1>3, <1>8
    <2>3. i < Before(t)
      BY <2>1, <2>2, <1>4, <1>7, <1>8
    <2> QED
      BY <2>1, <2>3, <1>4, <1>8
  <1>10. piece \subseteq 0..Len(input) /\ piece # {}
    BY <1>2, <1>4
  <1>11. Max(piece) \in piece
    BY <1>4, <1>10, MaxOf
  <1>12. Max(piece) < t
    BY <1>9, <1>11
  <1> QED
    BY <1>2, <1>12 DEF piece

\* What the decoder reads of a piece is a text in it, or nothing.
LEMMA DocumentInPiece ==
    ASSUME InputOK, NEW piece, piece \subseteq 1..Len(input), piece # {}
    PROVE  Document(piece) = 0 \/ (Document(piece) \in piece /\ Document(piece) \in Text)
  <1> DEFINE first == Min(piece)
             rest == (piece \ {first}) \cup {Len(input) + 1}
  <1>1. Len(input) \in Nat /\ DOMAIN input = 1..Len(input)
    BY InputLines
  <1>2. piece \subseteq Nat
    BY <1>1
  <1>3. first \in piece
    BY <1>2, MinOf
  <1> HIDE DEF first
  <1>4. rest \subseteq Nat /\ rest # {}
    <2>1. Len(input) + 1 \in Nat /\ Len(input) + 1 \in rest
      BY <1>1
    <2>2. (piece \ {first}) \subseteq Nat
      BY <1>2
    <2> QED
      BY <2>1, <2>2
  <1>5. \A n \in rest : n \in piece \/ n = Len(input) + 1
    OBVIOUS
  <1> HIDE DEF rest
  <1>6. Min(rest) \in rest
    BY <1>4, MinOf
  <1>7. Len(input) + 1 \notin Text
    BY <1>1 DEF Text
  <1>8. Min(rest) \in Text => Min(rest) \in piece
    BY <1>5, <1>6, <1>7
  <1>9. Document(piece) = CASE first \in Text -> first
                          [] first \notin Text /\ Min(rest) \in Text -> Min(rest)
                          [] OTHER -> 0
    BY DEF Document, first, rest
  <1> QED
    BY <1>3, <1>8, <1>9

\* A text that begins a piece, or that has only a marker before it in its piece,
\* is what the decoder reads of that piece.
LEMMA TextIsRead ==
    ASSUME InputOK, NEW i \in Text
    PROVE  \E k \in DOMAIN SplitManifests : Document(SplitManifests[k]) = i
  <1> DEFINE b == Before(i)
  <1>1. Len(input) \in Nat /\ DOMAIN input = 1..Len(input)
    BY InputLines
  <1>2. i \in 1..Len(input) /\ i \in Nat /\ i \in Shown /\ input[i].text # "marker"
    BY <1>1 DEF Text, Shown
  <1>3. ~IsSeparator[i] /\ ~IsSeparator[0]
    BY <1>1, <1>2, SeparatorIs
  <1>4. /\ b \in 0..(i - 1) /\ b \in Nat
        /\ b # 0 => b \in Shown /\ b \in 1..Len(input)
        /\ \A j \in Shown : j < i => j <= b
    BY <1>2, LineBefore DEF Shown
  <1> HIDE DEF b
  <1>5. CASE b = 0 \/ IsSeparator[b]
    <2> DEFINE k == Rank(Starts, i)
    <2>1. i \in Starts
      BY <1>5, <1>2, <1>3 DEF Starts, b
    <2>2. k \in DOMAIN SplitManifests /\ StartOf(k) = i
      BY <2>1, KeyOfStart
    <2> HIDE DEF k
    <2>3. Min(SplitManifests[k]) = i
      BY <2>2, PieceBegins
    <2>4. Document(SplitManifests[k]) = i
      BY <2>3 DEF Document
    <2> QED
      BY <2>2, <2>4
  <1>6. CASE b # 0 /\ ~IsSeparator[b]
    <2> DEFINE k == Rank(Starts, b)
               piece == SplitManifests[k]
               rest == (piece \ {b}) \cup {Len(input) + 1}
    <2>1. b \in Shown /\ b \in 1..Len(input) /\ b < i
      BY <1>2, <1>4, <1>6
    <2>2. b \notin Text
      <3> SUFFICES ASSUME b \in Text
                   PROVE  FALSE
        OBVIOUS
      <3>1. PICK j \in b..i : input[j].text = "marker"
        BY <2>1 DEF InputOK
      <3>2. j \in Nat /\ j # b /\ j # i /\ b < j /\ j < i
        BY <3>1, <1>2, <1>4 DEF Text
      <3>3. j \in Shown
        <4>1. j \in DOMAIN input
          BY <3>2, <1>1, <1>2, <1>4
        <4> QED
          BY <4>1, <3>1 DEF Shown
      <3> QED
        BY <3>2, <3>3, <1>4
    <2>3. input[b].text = "marker"
      <3>1. input[b].text \in {"marker", "blank", "broken", "mapping"}
        BY <2>1, <1>1, InputLines DEF Line
      <3> QED
        BY <3>1, <2>1, <2>2, <1>1 DEF Shown, Text
    <2>4. IsSeparator[Before(b)]
      BY <2>1, <2>3, <1>1, <1>6, SeparatorIs
    <2>5. b \in Starts
      BY <2>1, <2>4, <1>6 DEF Starts
    <2>6. k \in DOMAIN SplitManifests /\ StartOf(k) = b
      BY <2>5, KeyOfStart
    <2> HIDE DEF k
    <2>7. Min(piece) = b /\ piece \subseteq 1..Len(input) /\ piece \subseteq Shown
      BY <2>6, PieceBegins
    <2>8. ASSUME NEW j \in b..i
          PROVE  ~IsSeparator[j]
      <3>1. CASE j = b \/ j = i
        BY <3>1, <1>3, <1>6
      <3>2. CASE j # b /\ j # i
        <4>1. j \in 1..Len(input) /\ b < j /\ j < i
          BY <3>2, <2>1, <1>1, <1>2, <1>4
        <4>2. j \notin Shown
          BY <4>1, <1>4
        <4>3. input[j].text = "blank"
          BY <4>1, <4>2, <1>1 DEF Shown
        <4> QED
          BY <4>1, <4>3, <1>1, SeparatorIs
      <3> QED
        BY <3>1, <3>2
    <2>9. i \in piece
      BY <2>1, <2>6, <2>8, <1>2, <1>4, PieceIs
    <2>10. ASSUME NEW j \in rest
           PROVE  j \in Nat /\ i <= j
      <3>1. CASE j = Len(input) + 1
        BY <3>1, <1>1, <1>2
      <3>2. CASE j \in piece /\ j # b
        <4>1. j \in Nat /\ j \in Shown /\ j >= b
          BY <3>2, <2>6, <2>7, PieceIs
        <4> QED
          BY <4>1, <3>2, <1>2, <1>4
      <3> QED
        BY <3>1, <3>2
    <2>11. i \in rest
      BY <2>9, <2>1, <1>2, <1>4
    <2> HIDE DEF piece
    <2>12. rest \subseteq Nat /\ rest # {}
      BY <2>10, <2>11
    <2> HIDE DEF rest
    <2>13. Min(rest) \in rest /\ Min(rest) <= i
      BY <2>11, <2>12, MinOf
    <2>14. Min(rest) = i
      BY <2>10, <2>13, <1>2
    <2>15. Document(piece) = CASE b \in Text -> b
                             [] b \notin Text /\ Min(rest) \in Text -> Min(rest)
                             [] OTHER -> 0
      BY <2>7 DEF Document, rest
    <2>16. Document(piece) = i
      BY <2>2, <2>14, <2>15
    <2> QED
      BY <2>6, <2>16 DEF piece
  <1> QED
    BY <1>5, <1>6

\* What the splitting of a stream promises.
LEMMA SplitKeeps ==
    ASSUME InputOK
    PROVE  /\ \A i \in Text : \E k \in DOMAIN SplitManifests : Document(SplitManifests[k]) = i
           /\ \A k, l \in DOMAIN SplitManifests :
                k < l => Max(SplitManifests[k]) < Min(SplitManifests[l])
           /\ \A k \in DOMAIN SplitManifests :
                SplitManifests[k] \subseteq 1..Len(input) /\ SplitManifests[k] # {}
  BY TextIsRead, PiecesInOrder, PieceBegins

-----------------------------------------------------------------------------
(* The loop of ListFromYamlDocs. *)

\* The keys visited so far, and the documents listed.
Visited == DOMAIN docs \ left
InList  == {list[n] : n \in DOMAIN list}

\* While the call has not failed: the list has each document once that is a whole
\* manifest and was read of a visited piece, and none of those was broken.
ListSoFar ==
    /\ left \subseteq DOMAIN docs
    /\ list \in Seq({i \in Text : Listable(i)})
    /\ \A m, n \in DOMAIN list : list[m] = list[n] => m = n
    /\ \A i \in Text : Listable(i) =>
         (i \in InList <=> \E k \in Visited : Document(docs[k]) = i)
    /\ \A k \in Visited : Document(docs[k]) \in Text => input[Document(docs[k])].text # "broken"

\* Who was moved has metadata that holds the namespace.
MovedOK ==
    /\ ns \in [DOMAIN input -> {"", "new"}]
    /\ \A i \in moved : i \in DOMAIN input /\ ns[i] = "new"

ReadInv ==
    /\ InputOK
    /\ pc \in {"split", "visit", "ok", "error"}
    /\ pc = "split" => list = <<>>
    /\ pc # "split" => docs = SplitManifests
    /\ pc \in {"visit", "ok"} => ListSoFar
    /\ pc = "ok" => left = {}
    /\ pc = "error" => \E i \in Text : input[i].text = "broken"
    /\ MovedOK

\* No text is read of two pieces.
LEMMA DocumentsDiffer ==
    ASSUME InputOK, docs = SplitManifests, NEW k \in DOMAIN docs, NEW l \in DOMAIN docs,
           Document(docs[k]) \in Text, Document(docs[k]) = Document(docs[l])
    PROVE  k = l
  <1> DEFINE d == Document(docs[k])
  <1>1. Len(input) \in Nat /\ d \in 1..Len(input) /\ d # 0
    BY InputLines DEF Text
  <1>2. \A m \in DOMAIN docs : docs[m] \subseteq 1..Len(input) /\ docs[m] # {}
    BY SplitKeeps
  <1>3. d \in docs[k] /\ d \in docs[l]
    BY <1>1, <1>2, DocumentInPiece
  <1> HIDE DEF d
  <1>4. ASSUME NEW m \in DOMAIN docs, NEW n \in DOMAIN docs, m < n,
               d \in docs[m], d \in docs[n]
        PROVE  FALSE
    <2>1. docs[m] \subseteq 1..Len(input) /\ docs[n] \subseteq 1..Len(input)
      BY <1>2
    <2>2. docs[m] \subseteq 0..Len(input) /\ docs[n] \subseteq Nat
      BY <2>1, <1>1
    <2>3. d <= Max(docs[m]) /\ Max(docs[m]) \in docs[m]
      BY <2>2, <1>1, <1>4, MaxOf
    <2>4. Min(docs[n]) <= d /\ Min(docs[n]) \in docs[n]
      BY <2>2, <1>4, MinOf
    <2>5. Max(docs[m]) < Min(docs[n])
      BY <1>4, SplitKeeps
    <2>6. Max(docs[m]) \in Nat /\ Min(docs[n]) \in Nat /\ d \in Nat
      BY <2>1, <2>3, <2>4, <1>1
    <2> QED
      BY <2>3, <2>4, <2>5, <2>6
  <1>5. k \in Nat /\ l \in Nat
    BY KeysAre
  <1>6. ~(k < l) /\ ~(l < k)
    BY <1>3, <1>4
  <1> QED
    BY <1>5, <1>6

\* What the separators are is determined by the stream.
SeparatorsOf(lines) ==
    CHOOSE f : f = [i \in 0..Len(lines) |->
        i > 0 /\ lines[i].text = "marker"
              /\ ~f[Max({0} \cup {j \in {k \in DOMAIN lines : lines[k].text # "blank"} : j < i})]]

LEMMA SameStream ==
    ASSUME input' = input
    PROVE  /\ InputOK => InputOK'
           /\ Text' = Text
           /\ SplitManifests' = SplitManifests
           /\ \A piece : Document(piece)' = Document(piece)
           /\ \A i : Listable(i)' <=> Listable(i)
  <1>1. IsSeparator = SeparatorsOf(input)
    BY DEF IsSeparator, Before, Shown, SeparatorsOf
  <1>2. IsSeparator' = SeparatorsOf(input')
    BY DEF IsSeparator, Before, Shown, SeparatorsOf
  <1>3. IsSeparator' = IsSeparator
    BY <1>1, <1>2
  <1>4. Shown' = Shown /\ Text' = Text
    BY DEF Shown, Text
  <1>5. \A i : Before(i)' = Before(i)
    BY <1>4 DEF Before
  <1>6. Starts' = Starts
    BY <1>3, <1>4, <1>5 DEF Starts
  <1>7. SplitManifests' = SplitManifests
    BY <1>3, <1>4, <1>6 DEF SplitManifests
  <1>8. \A piece : Document(piece)' = Document(piece)
    BY <1>4 DEF Document
  <1>9. \A i : Listable(i)' <=> Listable(i)
    BY DEF Listable, HasBasicFields
  <1>10. InputOK => InputOK'
    BY <1>4 DEF InputOK
  <1> QED
    BY <1>4, <1>7, <1>8, <1>9, <1>10

LEMMA InitRead == Init => ReadInv
  <1> SUFFICES ASSUME Init
               PROVE  ReadInv
    OBVIOUS
  <1>1. PICK n \in 0..MaxLines : input \in [1..n -> Lines]
    BY DEF Init
  <1>2. n \in Nat
    BY LinesOK
  <1>3. input \in Seq(Lines)
    BY <1>1, <1>2
  <1>4. InputOK
    BY <1>3 DEF Init, InputOK
  <1>5. MovedOK
    BY DEF Init, MovedOK
  <1> QED
    BY <1>4, <1>5 DEF Init, ReadInv

\* After the splitting nothing is visited.
LEMMA SplitReads ==
    ASSUME ReadInv, Split
    PROVE  ReadInv'
  <1>1. /\ pc = "split" /\ pc' = "visit" /\ docs' = SplitManifests /\ list = <<>>
        /\ left' = DOMAIN docs' /\ UNCHANGED <<input, list, ns, moved>>
    BY DEF Split, ReadInv
  <1>2. InputOK' /\ MovedOK'
    BY <1>1, SameStream DEF ReadInv, MovedOK
  <1>3. SplitManifests' = SplitManifests
    BY <1>1, SameStream
  <1>4. Visited' = {} /\ InList' = {} /\ DOMAIN list' = {}
    BY <1>1 DEF Visited, InList
  <1>5. list' \in Seq({i \in Text' : Listable(i)'})
    BY <1>1, EmptySeq
  <1>6. ListSoFar'
    BY <1>1, <1>4, <1>5 DEF ListSoFar
  <1> QED
    BY <1>1, <1>2, <1>3, <1>6 DEF ReadInv

LEMMA VisitReads ==
    ASSUME ReadInv, NEW k \in left, Visit(k)
    PROVE  ReadInv'
  <1> DEFINE d == Document(docs[k])
             Good == {i \in Text : Listable(i)}
  <1>1. /\ pc = "visit" /\ docs = SplitManifests /\ InputOK /\ MovedOK /\ ListSoFar
        /\ left' = left \ {k} /\ UNCHANGED <<input, docs, ns, moved>>
    BY DEF Visit, ReadInv
  <1>2. /\ InputOK' /\ MovedOK' /\ SplitManifests' = SplitManifests
        /\ Text' = Text /\ \A i : Listable(i)' <=> Listable(i)
    BY <1>1, SameStream DEF MovedOK
  <1>3. \A l \in DOMAIN docs : Document(docs[l])' = Document(docs[l])
    BY <1>1, SameStream
  <1>4. k \in DOMAIN docs /\ k \notin Visited /\ Visited' = Visited \cup {k}
        /\ Visited \subseteq DOMAIN docs
    BY <1>1 DEF ListSoFar, Visited
  <1>5. d = 0 \/ d \in Text
    <2>1. docs[k] \subseteq 1..Len(input) /\ docs[k] # {}
      BY <1>1, <1>4, SplitKeeps
    <2> QED
      BY <2>1, <1>1, DocumentInPiece
  <1>6. d \in Text => d > 0
    BY <1>1, InputLines DEF Text
  <1>7. \A l \in Visited : d \in Text => Document(docs[l]) # d
    BY <1>1, <1>4, DocumentsDiffer
  <1>8. Good \subseteq Text /\ list \in Seq(Good)
    BY <1>1 DEF ListSoFar
  <1>9. Listable(d) => d \in Good
    BY <1>5 DEF Listable
  <1>10. CASE d > 0 /\ input[d].text = "broken"
    <2>1. d \in Text /\ ~Listable(d)
      BY <1>5, <1>10 DEF Listable
    <2>2. pc' = "error"
      BY <1>10 DEF Visit
    <2>3. (\E i \in Text : input[i].text = "broken")'
      BY <2>1, <1>1, <1>2, <1>10
    <2> QED
      BY <2>2, <2>3, <1>1, <1>2 DEF ReadInv
  <1>11. CASE ~(d > 0 /\ input[d].text = "broken")
    <2>1. pc' = "visit" /\ list' = IF Listable(d) THEN Append(list, d) ELSE list
      BY <1>1, <1>11 DEF Visit
    <2> HIDE DEF d
    <2>2. \A l \in Visited' : Document(docs[l])' \in Text' =>
                input'[Document(docs[l])'].text # "broken"
      <3> SUFFICES ASSUME NEW l \in Visited', Document(docs[l]) \in Text
                   PROVE  input[Document(docs[l])].text # "broken"
        BY <1>1, <1>2, <1>3, <1>4
      <3>1. CASE l = k
        BY <3>1, <1>6, <1>11 DEF d
      <3>2. CASE l # k
        BY <3>2, <1>1, <1>4 DEF ListSoFar
      <3> QED
        BY <3>1, <3>2
    <2>3. CASE ~Listable(d)
      <3>1. list' = list /\ InList' = InList
        BY <2>1, <2>3 DEF InList
      <3>2. ASSUME NEW i \in Text, Listable(i)
            PROVE  i \in InList' <=> \E l \in Visited' : Document(docs[l])' = i
        <4>1. i # d
          BY <2>3, <3>2
        <4> QED
          BY <4>1, <3>1, <3>2, <1>1, <1>3, <1>4 DEF ListSoFar, d
      <3>3. ListSoFar'
        BY <2>2, <3>1, <3>2, <1>1, <1>2, <1>3, <1>4, <1>8 DEF ListSoFar
      <3> QED
        BY <2>1, <3>3, <1>1, <1>2 DEF ReadInv
    <2>4. CASE Listable(d)
      <3> DEFINE n == Len(list)
      <3>1. d \in Good /\ d \in Text /\ list' = Append(list, d)
        BY <2>1, <2>4, <1>8, <1>9
      <3>2. n \in Nat /\ DOMAIN list = 1..n
        BY <1>8, LenProperties
      <3>3. /\ list' \in Seq(Good) /\ Len(list') = n + 1
            /\ \A m \in 1..n : list'[m] = list[m]
            /\ list'[n + 1] = d
        BY <3>1, <1>8, AppendProperties
      <3>4. DOMAIN list' = 1..(n + 1)
        BY <3>3, LenProperties
      <3> HIDE DEF n
      <3>5. InList' = InList \cup {d}
        <4>1. \A m \in DOMAIN list' : (m \in DOMAIN list /\ list'[m] = list[m]) \/ list'[m] = d
          BY <3>2, <3>3, <3>4
        <4>2. \A m \in DOMAIN list : m \in DOMAIN list' /\ list'[m] = list[m]
          BY <3>2, <3>3, <3>4
        <4>3. n + 1 \in DOMAIN list' /\ list'[n + 1] = d
          BY <3>2, <3>3, <3>4
        <4> QED
          BY <4>1, <4>2, <4>3 DEF InList
      <3>6. d \notin InList
        BY <2>4, <3>1, <1>1, <1>7 DEF ListSoFar
      <3>7. ASSUME NEW l \in DOMAIN list', NEW m \in DOMAIN list', list'[l] = list'[m]
            PROVE  l = m
        <4>1. \A j \in 1..n : list'[j] # d
          BY <3>2, <3>3, <3>6 DEF InList
        <4>2. CASE l \in 1..n /\ m \in 1..n
          BY <4>2, <3>2, <3>3, <3>7, <1>1 DEF ListSoFar
        <4>3. CASE l = n + 1 /\ m = n + 1
          BY <4>3
        <4>4. CASE l \in 1..n /\ m = n + 1
          BY <4>4, <4>1, <3>3, <3>7
        <4>5. CASE l = n + 1 /\ m \in 1..n
          BY <4>5, <4>1, <3>3, <3>7
        <4> QED
          BY <4>2, <4>3, <4>4, <4>5, <3>2, <3>4
      <3>8. ASSUME NEW i \in Text, Listable(i)
            PROVE  i \in InList' <=> \E l \in Visited' : Document(docs[l])' = i
        <4>1. CASE i = d
          BY <4>1, <3>5, <1>3, <1>4 DEF d
        <4>2. CASE i # d
          BY <4>2, <3>5, <3>8, <1>1, <1>3, <1>4 DEF ListSoFar, d
        <4> QED
          BY <4>1, <4>2
      <3>9. ListSoFar'
        BY <2>2, <3>3, <3>7, <3>8, <1>1, <1>2, <1>3, <1>4 DEF ListSoFar
      <3> QED
        BY <2>1, <3>9, <1>1, <1>2 DEF ReadInv
    <2> QED
      BY <2>3, <2>4
  <1> QED
    BY <1>10, <1>11

\* Steps that leave the stream, the pieces and the list alone.
LEMMA ReadKept ==
    ASSUME ReadInv, UNCHANGED <<input, docs, left, list>>
    PROVE  /\ InputOK' /\ SplitManifests' = SplitManifests
           /\ ListSoFar => ListSoFar'
           /\ \A i \in Text : i \in Text' /\ input'[i] = input[i]
  <1>1. Visited' = Visited /\ InList' = InList
    BY DEF Visited, InList
  <1>2. ASSUME ListSoFar
        PROVE  ListSoFar'
    <2>1. {i \in Text : Listable(i)}' = {i \in Text : Listable(i)}
      BY SameStream
    <2>2. \A k : Document(docs[k])' = Document(docs[k])
      BY SameStream
    <2> QED
      BY <1>1, <1>2, <2>1, <2>2, SameStream DEF ListSoFar
  <1> QED
    BY <1>2, SameStream DEF ReadInv

LEMMA ReadStep ==
    ASSUME ReadInv, [Next]_vars
    PROVE  ReadInv'
  <1>1. CASE Split
    BY <1>1, SplitReads
  <1>2. ASSUME NEW k \in left, Visit(k)
        PROVE  ReadInv'
    BY <1>2, VisitReads
  <1>3. CASE Return
    BY <1>3, ReadKept DEF Return, ReadInv, MovedOK
  <1>4. ASSUME NEW i \in DOMAIN input, SetNamespace(i)
        PROVE  ReadInv'
    <2>1. /\ pc = "ok" /\ pc' = "ok" /\ UNCHANGED <<input, docs, left, list>>
          /\ i \in InList /\ moved' = moved \cup {i}
          /\ ns' = IF input[i].metadata = "mapping" THEN [ns EXCEPT ![i] = "new"] ELSE ns
      BY <1>4 DEF SetNamespace, InList
    <2>2. PICK n \in DOMAIN list : i = list[n]
      BY <2>1 DEF InList
    <2>3. list \in Seq({j \in Text : Listable(j)})
      BY <2>1 DEF ReadInv, ListSoFar
    <2>4. Listable(i)
      BY <2>2, <2>3, ElementOfSeq, LenProperties
    <2>5. ns' = [ns EXCEPT ![i] = "new"]
      BY <2>1, <2>4 DEF Listable, HasBasicFields
    <2>6. MovedOK'
      BY <1>4, <2>1, <2>5 DEF ReadInv, MovedOK
    <2> QED
      BY <2>1, <2>6, ReadKept DEF ReadInv
  <1>5. CASE UNCHANGED vars
    BY <1>5, ReadKept DEF vars, ReadInv, MovedOK
  <1> QED
    BY <1>1, <1>2, <1>3, <1>4, <1>5 DEF Next

LEMMA Reads == Spec => []ReadInv
  <1>1. Init => ReadInv
    BY InitRead
  <1>2. ReadInv /\ [Next]_vars => ReadInv'
    BY ReadStep
  <1> QED
    BY <1>1, <1>2, PTL DEF Spec

-----------------------------------------------------------------------------
\* However long the stream and whatever lines it has, each document is what the
\* decoder reads of one piece, and the keys follow the order of the stream
\* (releaseutil/manifest.go:36-63).
THEOREM DocumentsSurvive == Spec => []SplitKeepsDocuments
  <1>1. ReadInv => SplitKeepsDocuments
    BY SplitKeeps DEF ReadInv, SplitKeepsDocuments
  <1> QED
    BY <1>1, Reads, PTL

\* In whatever order the map is visited, the call fails exactly if a document is
\* broken, and else lists every whole manifest once (manifest_list.go:5-20).
THEOREM AllDocumentsAreListed == Spec => []ListIsComplete
  <1>1. ReadInv => ListIsComplete
    <2> SUFFICES ASSUME ReadInv, pc = "ok", NEW i \in Text
                 PROVE  /\ input[i].text # "broken"
                        /\ Cardinality({n \in DOMAIN list : list[n] = i})
                             = IF input[i].kind /\ input[i].version /\ input[i].name
                               THEN 1 ELSE 0
      BY DEF ReadInv, ListIsComplete
    <2>1. InputOK /\ docs = SplitManifests /\ ListSoFar /\ left = {}
      BY DEF ReadInv
    <2>2. PICK k \in DOMAIN docs : Document(docs[k]) = i
      BY <2>1, SplitKeeps
    <2>3. k \in Visited
      BY <2>1 DEF Visited
    <2>4. input[i].text # "broken" /\ input[i].text = "mapping"
      BY <2>1, <2>2, <2>3 DEF ListSoFar, Text
    <2>5. i > 0 /\ input[i] \in Lines /\ input[i] \in Line
      BY <2>1, InputLines DEF Text
    <2>6. Listable(i) <=> input[i].kind /\ input[i].version /\ input[i].name
      BY <2>4, <2>5, LinesOK DEF Listable, HasBasicFields
    <2>7. Listable(i) <=> i \in InList
      <3>1. Listable(i) => i \in InList
        BY <2>1, <2>2, <2>3 DEF ListSoFar
      <3>2. ASSUME i \in InList
            PROVE  Listable(i)
        <4>1. PICK n \in DOMAIN list : list[n] = i
          BY <3>2 DEF InList
        <4>2. list \in Seq({j \in Text : Listable(j)})
          BY <2>1 DEF ListSoFar
        <4> QED
          BY <4>1, <4>2, ElementOfSeq, LenProperties
      <3> QED
        BY <3>1, <3>2
    <2>8. CASE i \in InList
      <3>1. PICK n \in DOMAIN list : list[n] = i
        BY <2>8 DEF InList
      <3>2. {m \in DOMAIN list : list[m] = i} = {n}
        BY <3>1, <2>1 DEF ListSoFar
      <3> QED
        BY <3>2, <2>4, <2>6, <2>7, <2>8, FS_Singleton
    <2>9. CASE i \notin InList
      <3>1. {m \in DOMAIN list : list[m] = i} = {}
        BY <2>9 DEF InList
      <3> QED
        BY <3>1, <2>4, <2>6, <2>7, <2>9, FS_EmptySet
    <2> QED
      BY <2>8, <2>9
  <1> QED
    BY <1>1, Reads, PTL

\* What is in a list has metadata that takes the namespace (manifest.go:91-105).
THEOREM ListedAreMoved == Spec => []ListedCanBeMoved
  <1>1. ReadInv => ListedCanBeMoved
    BY DEF ReadInv, MovedOK, ListedCanBeMoved, Namespace
  <1> QED
    BY <1>1, Reads, PTL
=============================================================================
