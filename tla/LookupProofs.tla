---------------------------- MODULE LookupProofs ----------------------------
(***************************************************************************)
(* Lemmas about ResourceLookup, for any lists of resources: what the two   *)
(* searches find and when they agree (cluster.go:183-204,                  *)
(* client.go:694-728).                                                     *)
(***************************************************************************)
EXTENDS ResourceLookup, SequenceTheorems, FiniteSetTheorems, WellFoundedInduction, TLAPS

\* All that is needed of the lists: places in them are numbered from 1.
AreLists(ls) ==
    /\ Len(ls) \in Nat /\ DOMAIN ls = 1..Len(ls)
    /\ \A i \in DOMAIN ls :
         Len(ls[i].kinds) \in Nat /\ DOMAIN ls[i].kinds = 1..Len(ls[i].kinds)

\* "Less than" on the naturals as a set of pairs, which has no infinite descent.
Less == {ss \in Nat \X Nat : ss[1] < ss[2]}

LEMMA LessIsWellFounded == IsWellFoundedOn(Less, Nat)
  BY NatLessThanWellFounded DEF OpToRel, Less

LEMMA LessPairs ==
    ASSUME NEW m \in Nat, NEW n \in Nat
    PROVE  <<m, n>> \in Less <=> m < n
  BY DEF Less

LEMMA SequencesAreLists ==
    ASSUME NEW G, NEW K, NEW ls \in Seq([gv : G, kinds : Seq(K)])
    PROVE  AreLists(ls)
  <1>1. Len(ls) \in Nat /\ DOMAIN ls = 1..Len(ls)
    BY LenProperties
  <1>2. ASSUME NEW i \in DOMAIN ls
        PROVE  Len(ls[i].kinds) \in Nat /\ DOMAIN ls[i].kinds = 1..Len(ls[i].kinds)
    <2>1. ls[i] \in [gv : G, kinds : Seq(K)]
      BY <1>1, ElementOfSeq
    <2>2. ls[i].kinds \in Seq(K)
      BY <2>1
    <2> QED
      BY <2>2, LenProperties
  <1> QED
    BY <1>1, <1>2 DEF AreLists

LEMMA ResourcesShown ==
    ASSUME NEW ls, NEW g
    PROVE  g \in Gvrs(ls) <=>
             \E i \in DOMAIN ls : \E j \in DOMAIN ls[i].kinds :
                g = [gv |-> ls[i].gv, kind |-> ls[i].kinds[j]]
  BY DEF Gvrs

LEMMA PlacesOfKind ==
    ASSUME NEW ls, NEW kind, NEW a
    PROVE  a \in Places(ls, kind) <=>
             \E i \in DOMAIN ls : \E j \in DOMAIN ls[i].kinds :
                a = <<i, j>> /\ ls[i].kinds[j] = kind
  BY DEF Places

\* If a group version has one list, the first list that has it is the only one.
LEMMA LookupsAgree ==
    ASSUME NEW ls, AreLists(ls), NEW av, NEW kind, OneListEach(ls)
    PROVE  FindGvr(ls, av, kind) = ClientGvr(ls, av, kind)
  <1>1. DOMAIN ls = 1..Len(ls) /\ Len(ls) \in Nat
    BY DEF AreLists
  <1>2. CASE av = AnyVersion
    <2>1. {i \in DOMAIN ls : av = AnyVersion \/ ls[i].gv = av} = DOMAIN ls
      BY <1>2
    <2> QED
      BY <2>1, <1>2 DEF FindGvr, ClientGvr
  <1>3. CASE av # AnyVersion
    <2>1. ASSUME NEW i \in DOMAIN ls, ls[i].gv = av, NEW h \in 1..(i - 1)
          PROVE  ls[h].gv # av
      <3>1. h \in DOMAIN ls /\ h # i
        BY <1>1
      <3> QED
        BY <2>1, <3>1 DEF OneListEach
    <2>2. {i \in DOMAIN ls : av = AnyVersion \/ ls[i].gv = av}
            = {i \in DOMAIN ls : /\ ls[i].gv = av
                                 /\ \A h \in 1..(i - 1) : ls[h].gv # av}
      BY <2>1, <1>3
    <2> QED
      BY <2>2, <1>3 DEF FindGvr, ClientGvr
  <1> QED
    BY <1>2, <1>3

LEMMA FoundKind ==
    ASSUME NEW ls, NEW av, NEW kind, FindGvr(ls, av, kind) # NotFound
    PROVE  FindGvr(ls, av, kind).kind = kind
  BY DEF FindGvr, First

\* Of the places where a kind is, one is the first.
LEMMA FirstExists ==
    ASSUME NEW ls, AreLists(ls), NEW kind, NEW S, S \subseteq Places(ls, kind), S # {}
    PROVE  \E a \in S : \A b \in S : Before(a, b)
  <1> DEFINE Order == LexPairOrdering(Less, Less, Nat, Nat)
  <1>1. ASSUME NEW a \in S
        PROVE  a[1] \in Nat /\ a[2] \in Nat /\ a = <<a[1], a[2]>>
    <2>1. PICK i \in DOMAIN ls : \E j \in DOMAIN ls[i].kinds :
                a = <<i, j>> /\ ls[i].kinds[j] = kind
      BY PlacesOfKind
    <2>2. PICK j \in DOMAIN ls[i].kinds : a = <<i, j>>
      BY <2>1
    <2>3. i \in Nat /\ j \in Nat
      BY DEF AreLists
    <2> QED
      BY <2>2, <2>3
  <1>2. S \subseteq Nat \X Nat
    BY <1>1
  <1>3. IsWellFoundedOn(Order, Nat \X Nat)
    BY LessIsWellFounded, WFLexPairOrdering
  <1>4. PICK a \in S : \A b \in S : <<b, a>> \notin Order
    <2> HIDE DEF Order
    <2> QED
      BY <1>2, <1>3, WFMin
  <1>5. ASSUME NEW b \in S
        PROVE  Before(a, b)
    <2>1. a[1] \in Nat /\ a[2] \in Nat /\ b[1] \in Nat /\ b[2] \in Nat
      BY <1>1
    <2>2. b \in Nat \X Nat /\ a \in Nat \X Nat
      BY <1>2
    <2>3. (\/ <<b[1], a[1]>> \in Less
           \/ (b[1] = a[1] /\ <<b[2], a[2]>> \in Less))
          => <<b, a>> \in Order
      BY <2>2 DEF LexPairOrdering
    <2>4. <<b, a>> \notin Order
      BY <1>4
    <2>5. ~(b[1] < a[1]) /\ ~(b[1] = a[1] /\ b[2] < a[2])
      <3> HIDE DEF Order
      <3> QED
        BY <2>1, <2>3, <2>4, LessPairs
    <2> QED
      BY <2>1, <2>5 DEF Before
  <1> QED
    BY <1>5

\* A resource is found under its own group version.
LEMMA FoundUnderOwn ==
    ASSUME NEW ls, AreLists(ls), NEW g \in Gvrs(ls), g.gv # AnyVersion
    PROVE  FindGvr(ls, g.gv, g.kind) = g
  <1> DEFINE within == {i \in DOMAIN ls : g.gv = AnyVersion \/ ls[i].gv = g.gv}
             S == {a \in Places(ls, g.kind) : a[1] \in within}
             a == CHOOSE a \in S : \A b \in S : Before(a, b)
  <1>1. PICK i \in DOMAIN ls : \E j \in DOMAIN ls[i].kinds :
              g = [gv |-> ls[i].gv, kind |-> ls[i].kinds[j]]
    BY ResourcesShown
  <1>2. PICK j \in DOMAIN ls[i].kinds : g = [gv |-> ls[i].gv, kind |-> ls[i].kinds[j]]
    BY <1>1
  <1>3. g.gv = ls[i].gv /\ g.kind = ls[i].kinds[j] /\ g = [gv |-> g.gv, kind |-> g.kind]
    BY <1>2
  <1>4. <<i, j>> \in S
    BY <1>3, PlacesOfKind
  <1>5. S \subseteq Places(ls, g.kind) /\ \A b \in S : b[1] \in within
    OBVIOUS
  <1>6. FindGvr(ls, g.gv, g.kind) = IF S = {} THEN NotFound
                                    ELSE [gv |-> ls[a[1]].gv, kind |-> g.kind]
    BY DEF FindGvr, First
  <1> HIDE DEF S
  <1>7. a \in S
    BY <1>4, <1>5, FirstExists
  <1>8. ls[a[1]].gv = g.gv
    BY <1>5, <1>7
  <1> QED
    BY <1>3, <1>4, <1>6, <1>8

\* What is found is shown.
LEMMA FoundIsShown ==
    ASSUME NEW ls, AreLists(ls), NEW av, NEW kind, FindGvr(ls, av, kind) # NotFound
    PROVE  FindGvr(ls, av, kind) \in Gvrs(ls)
  <1> DEFINE within == {i \in DOMAIN ls : av = AnyVersion \/ ls[i].gv = av}
             S == {a \in Places(ls, kind) : a[1] \in within}
             a == CHOOSE a \in S : \A b \in S : Before(a, b)
  <1>1. FindGvr(ls, av, kind) = IF S = {} THEN NotFound
                                ELSE [gv |-> ls[a[1]].gv, kind |-> kind]
    BY DEF FindGvr, First
  <1>2. S \subseteq Places(ls, kind)
    OBVIOUS
  <1> HIDE DEF S
  <1>3. S # {}
    BY <1>1
  <1>30. a \in S
    BY <1>2, <1>3, FirstExists
  <1>4. PICK i \in DOMAIN ls : \E j \in DOMAIN ls[i].kinds :
              a = <<i, j>> /\ ls[i].kinds[j] = kind
    BY <1>2, <1>30, PlacesOfKind
  <1> HIDE DEF a
  <1>5. a[1] = i /\ \E j \in DOMAIN ls[i].kinds : ls[i].kinds[j] = kind
    BY <1>4
  <1> QED
    BY <1>1, <1>3, <1>5, ResourcesShown

\* A resource is at one place of lists in which nothing is there twice.
LEMMA OnePlaceShown ==
    ASSUME NEW ls, OneListEach(ls), OnePlaceEach(ls), NEW g \in Gvrs(ls)
    PROVE  Cardinality({a \in Places(ls, g.kind) : ls[a[1]].gv = g.gv}) = 1
  <1>1. PICK i \in DOMAIN ls : \E j \in DOMAIN ls[i].kinds :
                g = [gv |-> ls[i].gv, kind |-> ls[i].kinds[j]]
    BY ResourcesShown
  <1>2. PICK j \in DOMAIN ls[i].kinds : g = [gv |-> ls[i].gv, kind |-> ls[i].kinds[j]]
    BY <1>1
  <1>3. g.gv = ls[i].gv /\ g.kind = ls[i].kinds[j]
    BY <1>2
  <1>4. <<i, j>> \in Places(ls, g.kind)
    BY <1>3, PlacesOfKind
  <1>5. ASSUME NEW a \in Places(ls, g.kind), ls[a[1]].gv = g.gv
        PROVE  a = <<i, j>>
    <2>1. PICK k \in DOMAIN ls : \E l \in DOMAIN ls[k].kinds :
                a = <<k, l>> /\ ls[k].kinds[l] = g.kind
      BY PlacesOfKind
    <2>2. PICK l \in DOMAIN ls[k].kinds : a = <<k, l>> /\ ls[k].kinds[l] = g.kind
      BY <2>1
    <2>3. k = i
      BY <2>2, <1>5, <1>3 DEF OneListEach
    <2>4. l = j
      BY <2>2, <2>3, <1>3 DEF OnePlaceEach
    <2> QED
      BY <2>2, <2>3, <2>4
  <1>6. {a \in Places(ls, g.kind) : ls[a[1]].gv = g.gv} = {<<i, j>>}
    BY <1>3, <1>4, <1>5
  <1> QED
    BY <1>6, FS_Singleton

\* A kind looked up in any version is found in the first list that has it.
LEMMA FoundInFirstList ==
    ASSUME NEW ls, AreLists(ls), NEW g \in Gvrs(ls)
    PROVE  \E i \in DOMAIN ls :
              /\ FindGvr(ls, AnyVersion, g.kind) = [gv |-> ls[i].gv, kind |-> g.kind]
              /\ \E k \in DOMAIN ls[i].kinds : ls[i].kinds[k] = g.kind
              /\ \A j \in DOMAIN ls : (\E l \in DOMAIN ls[j].kinds : ls[j].kinds[l] = g.kind) => i <= j
  <1> DEFINE S == {a \in Places(ls, g.kind) : a[1] \in DOMAIN ls}
             a == CHOOSE a \in S : \A b \in S : Before(a, b)
  <1>1. {i \in DOMAIN ls : AnyVersion = AnyVersion \/ ls[i].gv = AnyVersion} = DOMAIN ls
    OBVIOUS
  <1>2. FindGvr(ls, AnyVersion, g.kind) = First(ls, g.kind, DOMAIN ls)
    BY <1>1 DEF FindGvr
  <1>3. First(ls, g.kind, DOMAIN ls) = IF S = {} THEN NotFound
                                      ELSE [gv |-> ls[a[1]].gv, kind |-> g.kind]
    BY DEF First
  <1>4. \A j \in DOMAIN ls : \A l \in DOMAIN ls[j].kinds :
            ls[j].kinds[l] = g.kind => <<j, l>> \in S
    BY PlacesOfKind
  <1>5. S # {}
    <2>1. PICK j \in DOMAIN ls : \E l \in DOMAIN ls[j].kinds :
              g = [gv |-> ls[j].gv, kind |-> ls[j].kinds[l]]
      BY ResourcesShown
    <2>2. PICK l \in DOMAIN ls[j].kinds : ls[j].kinds[l] = g.kind
      BY <2>1
    <2> QED
      BY <1>4, <2>2
  <1>6. S \subseteq Places(ls, g.kind)
    OBVIOUS
  <1> HIDE DEF S
  <1>7. a \in S /\ \A b \in S : Before(a, b)
    BY <1>5, <1>6, FirstExists
  <1> HIDE DEF a
  <1>8. PICK i \in DOMAIN ls : \E k \in DOMAIN ls[i].kinds : a = <<i, k>> /\ ls[i].kinds[k] = g.kind
    BY <1>6, <1>7, PlacesOfKind
  <1>9. a[1] = i /\ \E k \in DOMAIN ls[i].kinds : ls[i].kinds[k] = g.kind
    BY <1>8
  <1>10. DOMAIN ls \subseteq Nat
    BY DEF AreLists
  <1>11. ASSUME NEW j \in DOMAIN ls, NEW l \in DOMAIN ls[j].kinds, ls[j].kinds[l] = g.kind
         PROVE  i <= j
    <2>1. Before(a, <<j, l>>)
      BY <1>4, <1>7, <1>11
    <2> QED
      BY <1>9, <1>10, <2>1 DEF Before
  <1> QED
    BY <1>2, <1>3, <1>5, <1>9, <1>11
=============================================================================
