------------------------- MODULE FakeClusterProofs -------------------------
(***************************************************************************)
(* Theorems about fake clusters, for every set of clusters, every table    *)
(* and any registrations: the two lookups agree and objects stay           *)
(* (cluster.go:75-105, 183-204) however many clusters have one version,    *)
(* and what was registered is found;                                       *)
(* what a cluster's discovery shows can be listed and is shown once,       *)
(* simple objects can be deleted (cluster.go:64-139), and each cluster is  *)
(* an API server of its own (FakeApi), if no two clusters have one         *)
(* version, as CRDsStayInTheirCluster shows to be needed.                  *)
(***************************************************************************)
EXTENDS FakeCluster, LookupProofs

Resource == [gv : GroupVersions, kind : KindNames]

-----------------------------------------------------------------------------
(* Lookups in lists of resources. *)

LEMMA ResourceListsAreLists ==
    ASSUME NEW ls \in Seq(ResourceList)
    PROVE  AreLists(ls)
  BY SequencesAreLists DEF ResourceList

LEMMA ShownAreResources ==
    ASSUME NEW ls \in Seq(ResourceList)
    PROVE  Gvrs(ls) \subseteq Resource
  <1> SUFFICES ASSUME NEW i \in DOMAIN ls, NEW j \in DOMAIN ls[i].kinds
               PROVE  [gv |-> ls[i].gv, kind |-> ls[i].kinds[j]] \in Resource
    BY ResourcesShown
  <1>1. ls[i] \in ResourceList
    BY ElementOfSeq, LenProperties
  <1>2. ls[i].kinds \in Seq(KindNames) /\ ls[i].gv \in GroupVersions
    BY <1>1 DEF ResourceList
  <1>3. ls[i].kinds[j] \in KindNames
    BY <1>2, ElementOfSeq, LenProperties
  <1> QED
    BY <1>2, <1>3 DEF Resource

-----------------------------------------------------------------------------
(* A resource that is new to some lists, in a list of its group version or *)
(* in a list of its own: what the lists show grows by this resource.       *)

\* ls2 is ls with the kind of gvr at the end of list i.
GrownAt(ls, ls2, i, gvr) ==
    /\ DOMAIN ls2 = DOMAIN ls
    /\ \A j \in DOMAIN ls \ {i} : ls2[j] = ls[j]
    /\ ls2[i].gv = ls[i].gv
    /\ ls2[i].kinds = Append(ls[i].kinds, gvr.kind)

\* ls2 is ls with a new list for gvr at the end.
GrownBy(ls, ls2, gvr) ==
    /\ DOMAIN ls2 = 1..(Len(ls) + 1)
    /\ \A j \in DOMAIN ls : ls2[j] = ls[j]
    /\ ls2[Len(ls) + 1] = [gv |-> gvr.gv, kinds |-> <<gvr.kind>>]

LEMMA SameGroupVersions ==
    ASSUME NEW ls, NEW ls2, OneListEach(ls), DOMAIN ls2 = DOMAIN ls,
           \A i \in DOMAIN ls : ls2[i].gv = ls[i].gv
    PROVE  OneListEach(ls2)
  BY DEF OneListEach

LEMMA ListGrows ==
    ASSUME NEW ls \in Seq(ResourceList), NEW ls2, NEW gvr \in Resource, NEW i \in DOMAIN ls,
           ls[i].gv = gvr.gv, GrownAt(ls, ls2, i, gvr)
    PROVE  /\ Gvrs(ls2) = Gvrs(ls) \cup {gvr}
           /\ gvr \notin Gvrs(ls) /\ OnePlaceEach(ls) => OnePlaceEach(ls2)
  <1> DEFINE n == Len(ls[i].kinds)
  <1>0. ls[i] \in ResourceList
    BY ElementOfSeq, LenProperties
  <1>1. ls[i].kinds \in Seq(KindNames)
    BY <1>0 DEF ResourceList
  <1>2. gvr.kind \in KindNames /\ gvr = [gv |-> gvr.gv, kind |-> gvr.kind]
    BY DEF Resource
  <1>3. n \in Nat /\ DOMAIN ls[i].kinds = 1..n
    BY <1>1, LenProperties
  <1>4. /\ Append(ls[i].kinds, gvr.kind) \in Seq(KindNames)
        /\ Len(Append(ls[i].kinds, gvr.kind)) = n + 1
        /\ \A j \in 1..n : Append(ls[i].kinds, gvr.kind)[j] = ls[i].kinds[j]
        /\ Append(ls[i].kinds, gvr.kind)[n + 1] = gvr.kind
    BY <1>1, <1>2, AppendProperties
  <1>5. /\ DOMAIN ls2[i].kinds = 1..(n + 1)
        /\ \A j \in 1..n : ls2[i].kinds[j] = ls[i].kinds[j]
        /\ ls2[i].kinds[n + 1] = gvr.kind
    BY <1>4, LenProperties DEF GrownAt
  <1>6. DOMAIN ls2 = DOMAIN ls /\ ls2[i].gv = gvr.gv /\ \A j \in DOMAIN ls \ {i} : ls2[j] = ls[j]
    BY DEF GrownAt
  <1> HIDE DEF n
  <1>7. ASSUME NEW g \in Gvrs(ls2)
        PROVE  g \in Gvrs(ls) \cup {gvr}
    <2>1. PICK k \in DOMAIN ls2 : \E j \in DOMAIN ls2[k].kinds :
                g = [gv |-> ls2[k].gv, kind |-> ls2[k].kinds[j]]
      BY ResourcesShown
    <2>2. PICK j \in DOMAIN ls2[k].kinds : g = [gv |-> ls2[k].gv, kind |-> ls2[k].kinds[j]]
      BY <2>1
    <2>3. CASE k # i
      BY <2>3, <2>2, <1>6, ResourcesShown
    <2>4. CASE k = i /\ j = n + 1
      BY <2>4, <2>2, <1>5, <1>6, <1>2
    <2>5. CASE k = i /\ j # n + 1
      <3>1. j \in 1..n
        BY <2>5, <1>5, <1>3
      <3>2. g = [gv |-> ls[i].gv, kind |-> ls[i].kinds[j]]
        BY <3>1, <2>2, <2>5, <1>5, <1>6
      <3> QED
        BY <3>1, <3>2, <1>3, ResourcesShown
    <2> QED
      BY <2>3, <2>4, <2>5
  <1>8. ASSUME NEW g \in Gvrs(ls)
        PROVE  g \in Gvrs(ls2)
    <2>1. PICK k \in DOMAIN ls : \E j \in DOMAIN ls[k].kinds :
                g = [gv |-> ls[k].gv, kind |-> ls[k].kinds[j]]
      BY ResourcesShown
    <2>2. PICK j \in DOMAIN ls[k].kinds : g = [gv |-> ls[k].gv, kind |-> ls[k].kinds[j]]
      BY <2>1
    <2>3. CASE k # i
      BY <2>3, <2>2, <1>6, ResourcesShown
    <2>4. CASE k = i
      <3>1. j \in 1..n /\ j \in DOMAIN ls2[i].kinds
        BY <2>4, <1>5, <1>3
      <3>2. g = [gv |-> ls2[i].gv, kind |-> ls2[i].kinds[j]]
        BY <3>1, <2>2, <2>4, <1>5, <1>6
      <3> QED
        BY <3>1, <3>2, <1>6, ResourcesShown
    <2> QED
      BY <2>3, <2>4
  <1>9. gvr \in Gvrs(ls2)
    <2>1. n + 1 \in DOMAIN ls2[i].kinds
      BY <1>5, <1>3
    <2>2. gvr = [gv |-> ls2[i].gv, kind |-> ls2[i].kinds[n + 1]]
      BY <1>5, <1>6, <1>2
    <2> QED
      BY <2>1, <2>2, <1>6, ResourcesShown
  <1>10. ASSUME gvr \notin Gvrs(ls), OnePlaceEach(ls)
         PROVE  OnePlaceEach(ls2)
    <2> SUFFICES ASSUME NEW k \in DOMAIN ls2, NEW j \in DOMAIN ls2[k].kinds,
                        NEW l \in DOMAIN ls2[k].kinds, ls2[k].kinds[j] = ls2[k].kinds[l]
                 PROVE  j = l
      BY DEF OnePlaceEach
    <2>1. CASE k # i
      BY <2>1, <1>6, <1>10 DEF OnePlaceEach
    <2>2. CASE k = i
      <3>1. \A m \in 1..n : ls[i].kinds[m] # gvr.kind
        <4> SUFFICES ASSUME NEW m \in 1..n, ls[i].kinds[m] = gvr.kind
                     PROVE  FALSE
          OBVIOUS
        <4>1. gvr = [gv |-> ls[i].gv, kind |-> ls[i].kinds[m]]
          BY <1>2
        <4> QED
          BY <4>1, <1>3, <1>10, ResourcesShown
      <3>2. j \in 1..(n + 1) /\ l \in 1..(n + 1)
        BY <2>2, <1>5
      <3>3. CASE j \in 1..n /\ l \in 1..n
        BY <3>3, <2>2, <1>5, <1>3, <1>10 DEF OnePlaceEach
      <3>4. CASE j = n + 1 /\ l \in 1..n
        BY <3>4, <3>1, <2>2, <1>5
      <3>5. CASE j \in 1..n /\ l = n + 1
        BY <3>5, <3>1, <2>2, <1>5
      <3>6. CASE j = n + 1 /\ l = n + 1
        BY <3>6
      <3> QED
        BY <3>2, <3>3, <3>4, <3>5, <3>6, <1>3
    <2> QED
      BY <2>1, <2>2
  <1> QED
    BY <1>7, <1>8, <1>9, <1>10

LEMMA ListAdded ==
    ASSUME NEW ls \in Seq(ResourceList), NEW ls2, NEW gvr \in Resource, GrownBy(ls, ls2, gvr)
    PROVE  /\ Gvrs(ls2) = Gvrs(ls) \cup {gvr}
           /\ OnePlaceEach(ls) => OnePlaceEach(ls2)
           /\ OneListEach(ls) /\ (\A i \in DOMAIN ls : ls[i].gv # gvr.gv) => OneListEach(ls2)
  <1> DEFINE n == Len(ls)
  <1>1. n \in Nat /\ DOMAIN ls = 1..n
    BY LenProperties
  <1>2. /\ DOMAIN ls2 = 1..(n + 1)
        /\ \A j \in 1..n : ls2[j] = ls[j]
        /\ ls2[n + 1].gv = gvr.gv /\ ls2[n + 1].kinds = <<gvr.kind>>
    BY <1>1 DEF GrownBy
  <1>3. DOMAIN ls2[n + 1].kinds = {1} /\ ls2[n + 1].kinds[1] = gvr.kind
    BY <1>2
  <1>4. gvr = [gv |-> gvr.gv, kind |-> gvr.kind]
    BY DEF Resource
  <1> HIDE DEF n
  <1>5. \A i \in DOMAIN ls2 : (i \in DOMAIN ls /\ ls2[i] = ls[i]) \/ i = n + 1
    BY <1>1, <1>2
  <1>6. \A i \in DOMAIN ls : i \in DOMAIN ls2 /\ ls2[i] = ls[i] /\ i # n + 1
    BY <1>1, <1>2
  <1>7. n + 1 \in DOMAIN ls2
    BY <1>1, <1>2
  <1>8. ASSUME NEW g
        PROVE  g \in Gvrs(ls2) <=> g \in Gvrs(ls) \cup {gvr}
    <2>1. ASSUME g \in Gvrs(ls2)
          PROVE  g \in Gvrs(ls) \cup {gvr}
      <3>1. PICK i \in DOMAIN ls2 : \E j \in DOMAIN ls2[i].kinds :
                  g = [gv |-> ls2[i].gv, kind |-> ls2[i].kinds[j]]
        BY <2>1, ResourcesShown
      <3>2. CASE i = n + 1
        BY <3>1, <3>2, <1>2, <1>3, <1>4
      <3>3. CASE i \in DOMAIN ls /\ ls2[i] = ls[i]
        BY <3>1, <3>3, ResourcesShown
      <3> QED
        BY <3>2, <3>3, <1>5
    <2>2. ASSUME g \in Gvrs(ls)
          PROVE  g \in Gvrs(ls2)
      BY <2>2, <1>6, ResourcesShown
    <2>3. gvr \in Gvrs(ls2)
      <3>1. gvr = [gv |-> ls2[n + 1].gv, kind |-> ls2[n + 1].kinds[1]]
        BY <1>2, <1>3, <1>4
      <3> QED
        BY <3>1, <1>3, <1>7, ResourcesShown
    <2> QED
      BY <2>1, <2>2, <2>3
  <1>9. ASSUME OnePlaceEach(ls)
        PROVE  OnePlaceEach(ls2)
    BY <1>9, <1>3, <1>5 DEF OnePlaceEach
  <1>10. ASSUME OneListEach(ls), \A i \in DOMAIN ls : ls[i].gv # gvr.gv
         PROVE  OneListEach(ls2)
    <2> SUFFICES ASSUME NEW i \in DOMAIN ls2, NEW j \in DOMAIN ls2, ls2[i].gv = ls2[j].gv
                 PROVE  i = j
      BY DEF OneListEach
    <2> QED
      BY <1>10, <1>2, <1>5 DEF OneListEach
  <1> QED
    BY <1>8, <1>9, <1>10

-----------------------------------------------------------------------------
(* What lists show that only grow. *)

ListKept(list, list2) ==
    /\ list2.gv = list.gv
    /\ \A j \in DOMAIN list.kinds : j \in DOMAIN list2.kinds /\ list2.kinds[j] = list.kinds[j]

ListsKept(ls, ls2) ==
    \A i \in DOMAIN ls : i \in DOMAIN ls2 /\ ListKept(ls[i], ls2[i])

LEMMA KeptAreShown ==
    ASSUME NEW ls, NEW ls2, ListsKept(ls, ls2)
    PROVE  Gvrs(ls) \subseteq Gvrs(ls2)
  <1> SUFFICES ASSUME NEW g \in Gvrs(ls)
               PROVE  g \in Gvrs(ls2)
    OBVIOUS
  <1>1. PICK i \in DOMAIN ls : \E j \in DOMAIN ls[i].kinds :
              g = [gv |-> ls[i].gv, kind |-> ls[i].kinds[j]]
    BY ResourcesShown
  <1>2. PICK j \in DOMAIN ls[i].kinds : g = [gv |-> ls[i].gv, kind |-> ls[i].kinds[j]]
    BY <1>1
  <1>3. i \in DOMAIN ls2 /\ j \in DOMAIN ls2[i].kinds
        /\ g = [gv |-> ls2[i].gv, kind |-> ls2[i].kinds[j]]
    BY <1>2 DEF ListsKept, ListKept
  <1> QED
    BY <1>3, ResourcesShown

-----------------------------------------------------------------------------
(* The lists in memory, and those that each cluster shows. *)

\* The lists of the tables keep their group versions and their order.
HeapOK ==
    /\ heap \in [Owners -> Seq(ResourceList)]
    /\ \A v \in DOMAIN Table :
         /\ Len(heap[v]) = Len(Table[v])
         /\ \A n \in 1..Len(Table[v]) : heap[v][n].gv = Table[v][n].gv

\* A cluster shows lists of its version's table and lists of its own.
RefsOK ==
    /\ resources \in [Clusters -> Seq(Owners \X Nat)]
    /\ \A c \in Clusters : \A i \in DOMAIN resources[c] :
         /\ resources[c][i][1] \in {Version[c], c}
         /\ resources[c][i][2] \in 1..Len(heap[resources[c][i][1]])

\* The dynamic client in use has all of gvrList.
ClientOK ==
    /\ gvrList \in [Clusters -> SUBSET Resource]
    /\ listKinds = gvrList
    /\ objects = [c \in Clusters |-> objects[c]]
    /\ simples = [c \in Clusters |-> simples[c]]

OneListShown == \A c \in Clusters : OneListEach(Lists(c))

LEMMA OwnersApart ==
    ASSUME NEW c \in Clusters
    PROVE  /\ c \in Owners /\ Version[c] \in Owners /\ Version[c] \in DOMAIN Table
           /\ \A d \in Clusters : Version[d] # c
  BY TablesOK DEF Owners

LEMMA ListsShown ==
    ASSUME HeapOK, RefsOK, NEW c \in Clusters
    PROVE  /\ Lists(c) \in Seq(ResourceList)
           /\ Len(resources[c]) \in Nat /\ Len(Lists(c)) = Len(resources[c])
           /\ DOMAIN resources[c] = 1..Len(resources[c])
           /\ DOMAIN Lists(c) = 1..Len(resources[c])
           /\ \A i \in DOMAIN resources[c] :
                Lists(c)[i] = heap[resources[c][i][1]][resources[c][i][2]]
  <1> DEFINE n == Len(resources[c])
  <1>1. n \in Nat /\ DOMAIN resources[c] = 1..n
    BY LenProperties DEF RefsOK
  <1>2. \A i \in 1..n : heap[resources[c][i][1]][resources[c][i][2]] \in ResourceList
    <2> SUFFICES ASSUME NEW i \in 1..n
                 PROVE  heap[resources[c][i][1]][resources[c][i][2]] \in ResourceList
      OBVIOUS
    <2>1. resources[c][i][1] \in Owners
      BY <1>1, OwnersApart DEF RefsOK
    <2>2. heap[resources[c][i][1]] \in Seq(ResourceList)
      BY <2>1 DEF HeapOK
    <2>3. resources[c][i][2] \in 1..Len(heap[resources[c][i][1]])
      BY <1>1 DEF RefsOK
    <2> QED
      BY <2>2, <2>3, ElementOfSeq
  <1>3. Lists(c) = [i \in 1..n |-> heap[resources[c][i][1]][resources[c][i][2]]]
    BY <1>1 DEF Lists
  <1> HIDE DEF n
  <1>4. Lists(c) \in [1..n -> ResourceList]
    BY <1>2, <1>3
  <1>5. Lists(c) \in Seq(ResourceList)
    BY <1>1, <1>4
  <1>6. Len(Lists(c)) = n
    BY <1>1, <1>4
  <1> QED
    BY <1>1, <1>3, <1>5, <1>6 DEF n

LEMMA ListsUnchanged ==
    ASSUME NEW c \in Clusters, resources'[c] = resources[c],
           \A i \in DOMAIN resources[c] :
              heap'[resources[c][i][1]][resources[c][i][2]]
                = heap[resources[c][i][1]][resources[c][i][2]]
    PROVE  Lists(c)' = Lists(c)
  BY DEF Lists

\* A kind added to a list in memory leaves all other lists as they are.
LEMMA KindJoins ==
    ASSUME HeapOK, NEW o \in Owners, NEW n \in 1..Len(heap[o]), NEW gvr \in Resource,
           heap' = [heap EXCEPT ![o][n].kinds = Append(@, gvr.kind)]
    PROVE  /\ HeapOK'
           /\ \A p \in Owners : Len(heap'[p]) = Len(heap[p])
           /\ \A p \in Owners : p # o => heap'[p] = heap[p]
           /\ \A k \in 1..Len(heap[o]) : k # n => heap'[o][k] = heap[o][k]
           /\ heap'[o][n].gv = heap[o][n].gv
           /\ heap'[o][n].kinds = Append(heap[o][n].kinds, gvr.kind)
           /\ \A p \in Owners : \A k \in 1..Len(heap[p]) : ListKept(heap[p][k], heap'[p][k])
  <1> DEFINE list == [heap[o][n] EXCEPT !.kinds = Append(@, gvr.kind)]
             lists == [heap[o] EXCEPT ![n] = list]
  <1>1. heap[o] \in Seq(ResourceList) /\ heap \in [Owners -> Seq(ResourceList)]
    BY DEF HeapOK
  <1>2. heap[o][n] \in ResourceList
    BY <1>1, ElementOfSeq
  <1>3. Append(heap[o][n].kinds, gvr.kind) \in Seq(KindNames)
    BY <1>2, AppendProperties DEF ResourceList, Resource
  <1>4. /\ list \in ResourceList
        /\ list.gv = heap[o][n].gv
        /\ list.kinds = Append(heap[o][n].kinds, gvr.kind)
    BY <1>2, <1>3 DEF ResourceList
  <1>5. heap' = [heap EXCEPT ![o] = lists]
    OBVIOUS
  <1> HIDE DEF list
  <1>6. /\ lists \in Seq(ResourceList)
        /\ Len(lists) = Len(heap[o])
        /\ \A k \in 1..Len(heap[o]) : lists[k] = IF k = n THEN list ELSE heap[o][k]
    BY <1>1, <1>4, ExceptSeq
  <1> HIDE DEF lists
  <1>7. /\ heap' \in [Owners -> Seq(ResourceList)]
        /\ heap'[o] = lists
        /\ \A p \in Owners : p # o => heap'[p] = heap[p]
    BY <1>1, <1>5, <1>6
  <1>8. \A p \in Owners : Len(heap'[p]) = Len(heap[p])
    BY <1>6, <1>7
  <1>9. /\ \A k \in 1..Len(heap[o]) : k # n => heap'[o][k] = heap[o][k]
        /\ heap'[o][n].gv = heap[o][n].gv
        /\ heap'[o][n].kinds = Append(heap[o][n].kinds, gvr.kind)
    BY <1>4, <1>6, <1>7
  <1>10. ASSUME NEW v \in DOMAIN Table, NEW k \in 1..Len(Table[v])
         PROVE  heap'[v][k].gv = Table[v][k].gv
    <2>1. v \in Owners /\ k \in 1..Len(heap[v]) /\ heap[v][k].gv = Table[v][k].gv
      BY DEF HeapOK, Owners
    <2>2. CASE v # o
      BY <2>1, <2>2, <1>7
    <2>3. CASE v = o
      BY <2>1, <2>3, <1>9
    <2> QED
      BY <2>2, <2>3
  <1>11. \A v \in DOMAIN Table : Len(heap'[v]) = Len(Table[v])
    BY <1>8 DEF HeapOK, Owners
  <1>12. HeapOK'
    BY <1>7, <1>10, <1>11 DEF HeapOK
  <1>13. ListKept(heap[o][n], heap'[o][n])
    <2>1. heap[o][n].kinds \in Seq(KindNames) /\ gvr.kind \in KindNames
      BY <1>2 DEF ResourceList, Resource
    <2>2. /\ DOMAIN heap[o][n].kinds = 1..Len(heap[o][n].kinds)
          /\ Len(heap[o][n].kinds) \in Nat
          /\ Append(heap[o][n].kinds, gvr.kind) \in Seq(KindNames)
          /\ Len(Append(heap[o][n].kinds, gvr.kind)) = Len(heap[o][n].kinds) + 1
          /\ \A j \in 1..Len(heap[o][n].kinds) :
                Append(heap[o][n].kinds, gvr.kind)[j] = heap[o][n].kinds[j]
      BY <2>1, LenProperties, AppendProperties
    <2>3. DOMAIN Append(heap[o][n].kinds, gvr.kind) = 1..(Len(heap[o][n].kinds) + 1)
      BY <2>2, LenProperties
    <2> QED
      BY <2>2, <2>3, <1>9 DEF ListKept
  <1>14. ASSUME NEW p \in Owners, NEW k \in 1..Len(heap[p])
         PROVE  ListKept(heap[p][k], heap'[p][k])
    <2>1. CASE p = o /\ k = n
      BY <2>1, <1>13
    <2>2. CASE ~(p = o /\ k = n)
      <3>1. heap'[p][k] = heap[p][k]
        BY <2>2, <1>7, <1>9
      <3> QED
        BY <3>1 DEF ListKept
    <2> QED
      BY <2>1, <2>2
  <1> QED
    BY <1>7, <1>8, <1>9, <1>12, <1>14

\* The group versions that a cluster shows, in their order, are as before.
SameGvs(d) ==
    /\ DOMAIN Lists(d)' = DOMAIN Lists(d)
    /\ \A i \in DOMAIN Lists(d) : Lists(d)'[i].gv = Lists(d)[i].gv

\* A group version that is not shown yet goes into a list of the cluster's own,
\* which no other cluster shows.
LEMMA ExtendOwn ==
    ASSUME HeapOK, RefsOK, NEW c \in Clusters, NEW gvr \in Resource, Extend(c, gvr),
           \A i \in DOMAIN Lists(c) : Lists(c)[i].gv # gvr.gv
    PROVE  /\ HeapOK' /\ RefsOK'
           /\ GrownBy(Lists(c), Lists(c)', gvr)
           /\ \A d \in Clusters \ {c} : Lists(d)' = Lists(d)
           /\ \A v \in DOMAIN Table : heap'[v] = heap[v]
  <1> DEFINE new == [gv |-> gvr.gv, kinds |-> <<gvr.kind>>]
             n == Len(heap[c])
             m == Len(resources[c])
  <1>1. DOMAIN resources[c] = DOMAIN Lists(c) /\ c \in Owners
    BY ListsShown, OwnersApart
  <1>2. {i \in DOMAIN resources[c] : Lists(c)[i].gv = gvr.gv} = {}
    BY <1>1
  <1>3. /\ heap' = [heap EXCEPT ![c] = Append(@, new)]
        /\ resources' = [resources EXCEPT ![c] = Append(@, <<c, n + 1>>)]
    BY <1>2 DEF Extend
  <1>4. /\ heap[c] \in Seq(ResourceList) /\ resources[c] \in Seq(Owners \X Nat)
        /\ heap \in [Owners -> Seq(ResourceList)]
        /\ resources \in [Clusters -> Seq(Owners \X Nat)]
    BY <1>1 DEF HeapOK, RefsOK
  <1>5. /\ n \in Nat /\ DOMAIN heap[c] = 1..n
        /\ m \in Nat /\ DOMAIN resources[c] = 1..m /\ m = Len(Lists(c))
    BY <1>4, LenProperties, ListsShown
  <1>6. new \in ResourceList
    <2>1. gvr.gv \in GroupVersions /\ gvr.kind \in KindNames
      BY DEF Resource
    <2> QED
      BY <2>1 DEF ResourceList
  <1> HIDE DEF new, n, m
  <1>7. /\ Append(heap[c], new) \in Seq(ResourceList)
        /\ Len(Append(heap[c], new)) = n + 1
        /\ \A k \in 1..n : Append(heap[c], new)[k] = heap[c][k]
        /\ Append(heap[c], new)[n + 1] = new
    BY <1>4, <1>6, AppendProperties DEF n
  <1>8. /\ heap' \in [Owners -> Seq(ResourceList)]
        /\ \A o \in Owners : o # c => heap'[o] = heap[o]
        /\ Len(heap'[c]) = n + 1
        /\ \A k \in 1..n : heap'[c][k] = heap[c][k]
        /\ heap'[c][n + 1] = new
    BY <1>1, <1>3, <1>4, <1>7
  <1>9. \A v \in DOMAIN Table : v # c /\ v \in Owners
    BY TablesOK DEF Owners
  <1>10. HeapOK'
    BY <1>8, <1>9 DEF HeapOK
  <1>11. <<c, n + 1>> \in Owners \X Nat
    BY <1>1, <1>5
  <1>12. /\ Append(resources[c], <<c, n + 1>>) \in Seq(Owners \X Nat)
         /\ Len(Append(resources[c], <<c, n + 1>>)) = m + 1
         /\ \A k \in 1..m : Append(resources[c], <<c, n + 1>>)[k] = resources[c][k]
         /\ Append(resources[c], <<c, n + 1>>)[m + 1] = <<c, n + 1>>
    BY <1>4, <1>11, AppendProperties DEF m
  <1>13. /\ resources' \in [Clusters -> Seq(Owners \X Nat)]
         /\ \A d \in Clusters : d # c => resources'[d] = resources[d]
         /\ Len(resources'[c]) = m + 1
         /\ \A k \in 1..m : resources'[c][k] = resources[c][k]
         /\ resources'[c][m + 1] = <<c, n + 1>>
    BY <1>3, <1>4, <1>12
  <1>14. DOMAIN resources'[c] = 1..(m + 1)
    BY <1>13, LenProperties
  <1>15. \A o \in Owners : \A k \in 1..Len(heap[o]) :
            k \in 1..Len(heap'[o]) /\ heap'[o][k] = heap[o][k]
    BY <1>5, <1>8 DEF n
  <1>16. ASSUME NEW d \in Clusters, NEW i \in DOMAIN resources[d]
         PROVE  /\ resources[d][i][1] \in {Version[d], d} /\ resources[d][i][1] \in Owners
                /\ resources[d][i][2] \in 1..Len(heap[resources[d][i][1]])
    BY OwnersApart DEF RefsOK
  <1>17. ASSUME NEW d \in Clusters, NEW i \in DOMAIN resources'[d]
         PROVE  /\ resources'[d][i][1] \in {Version[d], d}
                /\ resources'[d][i][2] \in 1..Len(heap'[resources'[d][i][1]])
    <2>1. CASE d # c
      BY <2>1, <1>13, <1>15, <1>16
    <2>2. CASE d = c /\ i \in 1..m
      BY <2>2, <1>5, <1>13, <1>15, <1>16
    <2>3. CASE d = c /\ i = m + 1
      BY <2>3, <1>5, <1>13, <1>8
    <2> QED
      BY <2>1, <2>2, <2>3, <1>14, <1>5
  <1>18. RefsOK'
    BY <1>13, <1>17 DEF RefsOK
  <1>19. ASSUME NEW d \in Clusters \ {c}
         PROVE  Lists(d)' = Lists(d)
    <2>1. resources'[d] = resources[d]
      BY <1>13
    <2>2. \A i \in DOMAIN resources[d] :
             heap'[resources[d][i][1]][resources[d][i][2]]
               = heap[resources[d][i][1]][resources[d][i][2]]
      BY <1>15, <1>16
    <2> QED
      BY <2>1, <2>2, ListsUnchanged
  <1>20. Lists(c)' = [i \in 1..(m + 1) |-> heap'[resources'[c][i][1]][resources'[c][i][2]]]
    BY <1>14 DEF Lists
  <1>21. \A i \in 1..m : Lists(c)'[i] = Lists(c)[i]
    <2> SUFFICES ASSUME NEW i \in 1..m
                 PROVE  Lists(c)'[i] = Lists(c)[i]
      OBVIOUS
    <2>1. Lists(c)'[i] = heap'[resources[c][i][1]][resources[c][i][2]]
      BY <1>20, <1>13, <1>5
    <2>2. Lists(c)[i] = heap[resources[c][i][1]][resources[c][i][2]]
      BY <1>5, ListsShown
    <2> QED
      BY <2>1, <2>2, <1>5, <1>15, <1>16
  <1>22. Lists(c)'[m + 1] = new /\ DOMAIN Lists(c)' = 1..(m + 1)
    BY <1>20, <1>13, <1>8, <1>5
  <1>23. GrownBy(Lists(c), Lists(c)', gvr)
    BY <1>21, <1>22, <1>5, <1>1 DEF GrownBy, new
  <1> QED
    BY <1>8, <1>9, <1>10, <1>18, <1>19, <1>23

\* A group version that is shown already goes into its one list, for every
\* cluster that shows this list.
LEMMA ExtendShared ==
    ASSUME HeapOK, RefsOK, OneListShown, NEW c \in Clusters, NEW gvr \in Resource,
           Extend(c, gvr), NEW i \in DOMAIN Lists(c), Lists(c)[i].gv = gvr.gv
    PROVE  /\ HeapOK' /\ RefsOK'
           /\ GrownAt(Lists(c), Lists(c)', i, gvr)
           /\ \A d \in Clusters : SameGvs(d)
           /\ \A d \in Clusters : Version[d] # Version[c] =>
                Lists(d)' = Lists(d) /\ heap'[Version[d]] = heap[Version[d]]
           /\ \A d \in Clusters : ListsKept(Lists(d), Lists(d)')
           /\ \A v \in DOMAIN Table : ListsKept(heap[v], heap'[v])
  <1> DEFINE same == {j \in DOMAIN resources[c] : Lists(c)[j].gv = gvr.gv}
             o == resources[c][i][1]
             n == resources[c][i][2]
  <1>1. /\ DOMAIN resources[c] = DOMAIN Lists(c) /\ DOMAIN Lists(c) \subseteq Nat
        /\ \A j \in DOMAIN resources[c] :
             Lists(c)[j] = heap[resources[c][j][1]][resources[c][j][2]]
    BY ListsShown
  <1>2. same = {i}
    BY <1>1 DEF OneListShown, OneListEach
  <1>3. (CHOOSE j \in same : \A k \in same : j <= k) = i
    BY <1>1, <1>2
  <1>4. /\ heap' = [heap EXCEPT ![o][n].kinds = Append(@, gvr.kind)]
        /\ resources' = resources
    BY <1>2, <1>3 DEF Extend
  <1>5. ASSUME NEW d \in Clusters, NEW j \in DOMAIN resources[d]
        PROVE  /\ resources[d][j][1] \in {Version[d], d} /\ resources[d][j][1] \in Owners
               /\ resources[d][j][2] \in 1..Len(heap[resources[d][j][1]])
    BY OwnersApart DEF RefsOK
  <1>6. o \in Owners /\ n \in 1..Len(heap[o]) /\ o \in {Version[c], c}
    BY <1>1, <1>5
  <1> HIDE DEF o, n
  <1>7. /\ HeapOK'
        /\ \A p \in Owners : Len(heap'[p]) = Len(heap[p])
        /\ \A p \in Owners : p # o => heap'[p] = heap[p]
        /\ \A k \in 1..Len(heap[o]) : k # n => heap'[o][k] = heap[o][k]
        /\ heap'[o][n].gv = heap[o][n].gv
        /\ heap'[o][n].kinds = Append(heap[o][n].kinds, gvr.kind)
        /\ \A p \in Owners : \A k \in 1..Len(heap[p]) : ListKept(heap[p][k], heap'[p][k])
    BY <1>4, <1>6, KindJoins
  <1>8. RefsOK'
    BY <1>4, <1>5, <1>7 DEF RefsOK
  <1>9. \A d \in Clusters :
            Lists(d)' = [j \in DOMAIN resources[d] |-> heap'[resources[d][j][1]][resources[d][j][2]]]
    BY <1>4 DEF Lists
  <1>10. \A p \in Owners : \A k \in 1..Len(heap[p]) : heap'[p][k].gv = heap[p][k].gv
    BY <1>7
  <1>11. ASSUME NEW d \in Clusters
         PROVE  SameGvs(d)
    <2>1. DOMAIN Lists(d)' = DOMAIN Lists(d) /\ DOMAIN Lists(d) = DOMAIN resources[d]
      BY <1>9 DEF Lists
    <2>2. ASSUME NEW j \in DOMAIN resources[d]
          PROVE  Lists(d)'[j].gv = Lists(d)[j].gv
      <3>1. Lists(d)'[j] = heap'[resources[d][j][1]][resources[d][j][2]]
        BY <1>9
      <3>2. Lists(d)[j] = heap[resources[d][j][1]][resources[d][j][2]]
        BY DEF Lists
      <3> QED
        BY <3>1, <3>2, <1>5, <1>10
    <2> QED
      BY <2>1, <2>2 DEF SameGvs
  <1>12. ASSUME NEW d \in Clusters, Version[d] # Version[c]
         PROVE  Lists(d)' = Lists(d) /\ heap'[Version[d]] = heap[Version[d]]
    <2>1. d # c /\ Version[d] # c /\ Version[c] # d /\ Version[d] \in Owners
      BY <1>12, OwnersApart
    <2>2. \A j \in DOMAIN resources[d] :
             heap'[resources[d][j][1]][resources[d][j][2]]
               = heap[resources[d][j][1]][resources[d][j][2]]
      BY <2>1, <1>12, <1>5, <1>6, <1>7
    <2>3. Lists(d)' = Lists(d)
      BY <2>2, <1>4, ListsUnchanged
    <2> QED
      BY <2>1, <2>3, <1>12, <1>6, <1>7
  <1>13. ASSUME NEW j \in DOMAIN Lists(c) \ {i}
         PROVE  Lists(c)'[j] = Lists(c)[j]
    <2>1. j \in DOMAIN resources[c]
      BY <1>1
    <2>2. Lists(c)[j].gv # Lists(c)[i].gv
      BY DEF OneListShown, OneListEach
    <2>3. ~(resources[c][j][1] = o /\ resources[c][j][2] = n)
      BY <2>1, <2>2, <1>1 DEF o, n
    <2>4. heap'[resources[c][j][1]][resources[c][j][2]]
            = heap[resources[c][j][1]][resources[c][j][2]]
      BY <2>1, <2>3, <1>5, <1>7
    <2> QED
      BY <2>1, <2>4, <1>1, <1>9
  <1>14. Lists(c)'[i] = heap'[o][n] /\ Lists(c)[i] = heap[o][n]
    BY <1>1, <1>9 DEF o, n
  <1>15. DOMAIN Lists(c)' = DOMAIN Lists(c)
    BY <1>11 DEF SameGvs
  <1>16. GrownAt(Lists(c), Lists(c)', i, gvr)
    BY <1>7, <1>13, <1>14, <1>15 DEF GrownAt
  <1>17. ASSUME NEW d \in Clusters
         PROVE  ListsKept(Lists(d), Lists(d)')
    <2>1. DOMAIN Lists(d)' = DOMAIN Lists(d) /\ DOMAIN Lists(d) = DOMAIN resources[d]
      BY <1>9 DEF Lists
    <2>2. ASSUME NEW j \in DOMAIN resources[d]
          PROVE  ListKept(Lists(d)[j], Lists(d)'[j])
      <3>1. Lists(d)'[j] = heap'[resources[d][j][1]][resources[d][j][2]]
        BY <1>9
      <3>2. Lists(d)[j] = heap[resources[d][j][1]][resources[d][j][2]]
        BY DEF Lists
      <3> QED
        BY <3>1, <3>2, <1>5, <1>7
    <2> QED
      BY <2>1, <2>2 DEF ListsKept
  <1>18. ASSUME NEW v \in DOMAIN Table
         PROVE  ListsKept(heap[v], heap'[v])
    <2>1. v \in Owners /\ heap[v] \in Seq(ResourceList) /\ heap'[v] \in Seq(ResourceList)
      BY <1>7 DEF HeapOK, Owners
    <2>2. DOMAIN heap[v] = 1..Len(heap[v]) /\ DOMAIN heap'[v] = 1..Len(heap'[v])
      BY <2>1, LenProperties
    <2> QED
      BY <2>1, <2>2, <1>7 DEF ListsKept
  <1> QED
    BY <1>7, <1>8, <1>11, <1>12, <1>16, <1>17, <1>18

-----------------------------------------------------------------------------
(* The invariant that holds for any versions. *)

ClustersInv == HeapOK /\ RefsOK /\ ClientOK /\ OneListShown

LEMMA InitInv == Init => ClustersInv
  <1> SUFFICES ASSUME Init
               PROVE  ClustersInv
    OBVIOUS
  <1>1. HeapOK
    <2>1. ASSUME NEW o \in Owners
          PROVE  heap[o] \in Seq(ResourceList)
      <3>1. CASE o \in Clusters
        BY <3>1, EmptySeq DEF Init
      <3>2. CASE o \notin Clusters
        BY <3>2, TablesOK DEF Init, Owners
      <3> QED
        BY <3>1, <3>2
    <2>2. \A v \in DOMAIN Table : v \in Owners /\ v \notin Clusters
      BY TablesOK DEF Owners
    <2>3. heap \in [Owners -> Seq(ResourceList)]
      BY <2>1 DEF Init
    <2>4. \A v \in DOMAIN Table : heap[v] = Table[v]
      BY <2>2 DEF Init
    <2> QED
      BY <2>3, <2>4 DEF HeapOK
  <1>2. \A c \in Clusters : resources[c] = <<>> /\ DOMAIN resources[c] = {}
    BY DEF Init, Absent
  <1>3. RefsOK
    BY <1>2, EmptySeq DEF RefsOK, Init, Absent
  <1>4. OneListShown
    BY <1>2 DEF OneListShown, OneListEach, Lists
  <1>5. ClientOK
    BY DEF ClientOK, Init
  <1> QED
    BY <1>1, <1>3, <1>4, <1>5 DEF ClustersInv

\* A new cluster shows its version's table as it is.
LEMMA NewShows ==
    ASSUME ClustersInv, NEW c \in Clusters, NewFakeCluster(c)
    PROVE  /\ HeapOK' /\ RefsOK'
           /\ Lists(c)' = heap[Version[c]]
           /\ \A d \in Clusters \ {c} : Lists(d)' = Lists(d)
           /\ OneListEach(heap[Version[c]])
           /\ Gvrs(heap[Version[c]]) \subseteq Resource
  <1> DEFINE v == Version[c]
             n == Len(heap[v])
  <1>1. /\ v \in Owners /\ v \in DOMAIN Table
        /\ heap[v] \in Seq(ResourceList)
    BY OwnersApart DEF ClustersInv, HeapOK
  <1>2. n \in Nat /\ DOMAIN heap[v] = 1..n /\ heap[v] \in [1..n -> ResourceList]
    BY <1>1, LenProperties
  <1>3. /\ resources' = [resources EXCEPT ![c] = [i \in 1..n |-> <<v, i>>]]
        /\ heap' = heap
    BY <1>2 DEF NewFakeCluster
  <1>4. [i \in 1..n |-> <<v, i>>] \in [1..n -> Owners \X Nat]
    BY <1>1, <1>2
  <1>5. [i \in 1..n |-> <<v, i>>] \in Seq(Owners \X Nat)
    BY <1>2, <1>4
  <1>6. resources \in [Clusters -> Seq(Owners \X Nat)]
    BY DEF ClustersInv, RefsOK
  <1>7. /\ resources' \in [Clusters -> Seq(Owners \X Nat)]
        /\ resources'[c] = [i \in 1..n |-> <<v, i>>]
        /\ \A d \in Clusters \ {c} : resources'[d] = resources[d]
    BY <1>3, <1>5, <1>6
  <1>8. HeapOK'
    BY <1>3 DEF HeapOK, ClustersInv
  <1>9. ASSUME NEW d \in Clusters, NEW i \in DOMAIN resources'[d]
        PROVE  /\ resources'[d][i][1] \in {Version[d], d}
               /\ resources'[d][i][2] \in 1..Len(heap'[resources'[d][i][1]])
    <2>1. CASE d = c
      BY <2>1, <1>7, <1>3
    <2>2. CASE d # c
      BY <2>2, <1>7, <1>3 DEF ClustersInv, RefsOK
    <2> QED
      BY <2>1, <2>2
  <1>10. RefsOK'
    BY <1>7, <1>9 DEF RefsOK
  <1>11. Lists(c)' = [i \in 1..n |-> heap[v][i]]
    BY <1>7, <1>3 DEF Lists
  <1>12. Lists(c)' = heap[v]
    BY <1>11, <1>2
  <1>13. \A d \in Clusters \ {c} : Lists(d)' = Lists(d)
    BY <1>7, <1>3, ListsUnchanged
  <1>14. OneListEach(heap[v])
    <2>1. /\ OneListEach(Table[v]) /\ Len(Table[v]) = n
          /\ \A i \in 1..n : heap[v][i].gv = Table[v][i].gv
      BY <1>1, TablesOK DEF ClustersInv, HeapOK
    <2>2. DOMAIN Table[v] = 1..n
      BY <1>1, <2>1, TablesOK, LenProperties
    <2> QED
      BY <1>2, <2>1, <2>2 DEF OneListEach
  <1>15. Gvrs(heap[v]) \subseteq Resource
    BY <1>1, ShownAreResources
  <1> QED
    BY <1>8, <1>10, <1>12, <1>13, <1>14, <1>15

\* A registration that is new: the cluster shows one resource more, in a list
\* that other clusters may show only if they have its version.
LEMMA NewRegistration ==
    ASSUME ClustersInv, NEW c \in Clusters, NEW gvr \in CRDs, RegisterCRD(c, gvr),
           ~Known(c, gvr)
    PROVE  /\ HeapOK' /\ RefsOK'
           /\ OneListShown'
           /\ Gvrs(Lists(c))' = Gvrs(Lists(c)) \cup {gvr}
           /\ gvr \notin Gvrs(Lists(c)) /\ OnePlaceEach(Lists(c)) => OnePlaceEach(Lists(c))'
           /\ \A d \in Clusters \ {c} : Version[d] # Version[c] =>
                Lists(d)' = Lists(d) /\ heap'[Version[d]] = heap[Version[d]]
           /\ \A d \in Clusters : Gvrs(Lists(d)) \subseteq Gvrs(Lists(d))'
           /\ \A v \in DOMAIN Table : Gvrs(heap[v]) \subseteq Gvrs(heap'[v])
  <1>1. Extend(c, gvr) /\ gvr \in Resource
    BY TablesOK DEF RegisterCRD, Resource
  <1>2. HeapOK /\ RefsOK /\ OneListShown
    BY DEF ClustersInv
  <1>3. \A d \in Clusters : Lists(d) \in Seq(ResourceList) /\ OneListEach(Lists(d))
    BY <1>2, ListsShown DEF OneListShown
  <1>4. CASE \A i \in DOMAIN Lists(c) : Lists(c)[i].gv # gvr.gv
    <2>1. /\ HeapOK' /\ RefsOK'
          /\ GrownBy(Lists(c), Lists(c)', gvr)
          /\ \A d \in Clusters \ {c} : Lists(d)' = Lists(d)
          /\ \A v \in DOMAIN Table : heap'[v] = heap[v]
      BY <1>1, <1>2, <1>4, ExtendOwn
    <2>2. /\ Gvrs(Lists(c)') = Gvrs(Lists(c)) \cup {gvr}
          /\ OnePlaceEach(Lists(c)) => OnePlaceEach(Lists(c)')
          /\ OneListEach(Lists(c)')
      BY <2>1, <1>1, <1>3, <1>4, ListAdded
    <2>3. \A d \in Clusters : OneListEach(Lists(d)')
      BY <2>1, <2>2, <1>3
    <2>4. OneListShown'
      BY <2>3 DEF OneListShown
    <2>5. /\ \A d \in Clusters : Gvrs(Lists(d)) \subseteq Gvrs(Lists(d)')
          /\ \A v \in DOMAIN Table : Gvrs(heap[v]) \subseteq Gvrs(heap'[v])
      BY <2>1, <2>2
    <2> QED
      BY <2>1, <2>2, <2>4, <2>5, OwnersApart
  <1>5. ASSUME NEW i \in DOMAIN Lists(c), Lists(c)[i].gv = gvr.gv
        PROVE  /\ HeapOK' /\ RefsOK'
               /\ OneListShown'
               /\ Gvrs(Lists(c)') = Gvrs(Lists(c)) \cup {gvr}
               /\ gvr \notin Gvrs(Lists(c)) /\ OnePlaceEach(Lists(c)) => OnePlaceEach(Lists(c)')
               /\ \A d \in Clusters \ {c} : Version[d] # Version[c] =>
                    Lists(d)' = Lists(d) /\ heap'[Version[d]] = heap[Version[d]]
               /\ \A d \in Clusters : Gvrs(Lists(d)) \subseteq Gvrs(Lists(d)')
               /\ \A v \in DOMAIN Table : Gvrs(heap[v]) \subseteq Gvrs(heap'[v])
    <2>1. /\ HeapOK' /\ RefsOK'
          /\ GrownAt(Lists(c), Lists(c)', i, gvr)
          /\ \A d \in Clusters : SameGvs(d)
          /\ \A d \in Clusters : Version[d] # Version[c] =>
                Lists(d)' = Lists(d) /\ heap'[Version[d]] = heap[Version[d]]
          /\ \A d \in Clusters : ListsKept(Lists(d), Lists(d)')
          /\ \A v \in DOMAIN Table : ListsKept(heap[v], heap'[v])
      BY <1>1, <1>2, <1>5, ExtendShared
    <2>2. /\ Gvrs(Lists(c)') = Gvrs(Lists(c)) \cup {gvr}
          /\ gvr \notin Gvrs(Lists(c)) /\ OnePlaceEach(Lists(c)) => OnePlaceEach(Lists(c)')
      BY <2>1, <1>1, <1>3, <1>5, ListGrows
    <2>3. \A d \in Clusters : OneListEach(Lists(d)')
      BY <2>1, <1>3, SameGroupVersions DEF SameGvs
    <2>4. OneListShown'
      BY <2>3 DEF OneListShown
    <2>5. /\ \A d \in Clusters : Gvrs(Lists(d)) \subseteq Gvrs(Lists(d)')
          /\ \A v \in DOMAIN Table : Gvrs(heap[v]) \subseteq Gvrs(heap'[v])
      BY <2>1, KeptAreShown
    <2> QED
      BY <2>1, <2>2, <2>4, <2>5
  <1> QED
    BY <1>4, <1>5

-----------------------------------------------------------------------------
(* The operations on objects. *)

\* By what an object is stored.
Keys(objs) == {<<o.gvr, o.ns, o.name>> : o \in objs}

\* The object is found again by its kind in any version.
Found(c, key) ==
    key[1] # NotFound /\ FindGvr(Lists(c), AnyVersion, key[1].kind) = key[1]

\* What each operation on the objects of a cluster does: the lists stay, at most
\* one key goes, and none of a simple object that is not deleted or updated; a new
\* simple object is stored and found.
ObjectStep(c) ==
    /\ Made(c)
    /\ UNCHANGED <<heap, resources, gvrList, listKinds, registered>>
    /\ objects' = [d \in Clusters |-> objects'[d]]
    /\ simples' = [d \in Clusters |-> simples'[d]]
    /\ \A d \in Clusters \ {c} : objects'[d] = objects[d] /\ simples'[d] = simples[d]
    /\ \E key : Keys(objects[c]) \ Keys(objects'[c]) \subseteq {key}
    /\ \A key \in simples'[c] :
         \/ key \in simples[c] /\ (key \in Keys(objects[c]) => key \in Keys(objects'[c]))
         \/ key \in Keys(objects'[c]) /\ Found(c, key)

LEMMA StoredHaveKey ==
    ASSUME NEW c, NEW gvr, NEW ns, NEW name
    PROVE  \A o \in Stored(c, gvr, ns, name) : <<o.gvr, o.ns, o.name>> = <<gvr, ns, name>>
  BY DEF Stored

\* One of the operations on objects is such a step.
LEMMA ObjectSteps ==
    ASSUME ClientOK, NEW c \in Clusters, NEW ns, NEW name, NEW kind, NEW gvr,
           \/ CreateNs(c, ns)
           \/ CreateSimpleNamespaced(c, kind, ns, name)
           \/ DeleteSimpleNamespaced(c, kind, ns, name)
           \/ Create(c, gvr, ns, name) \/ Delete(c, gvr, ns, name) \/ Update(c, gvr, ns, name)
    PROVE  ObjectStep(c)
  <1>1. /\ DOMAIN objects = Clusters /\ objects = [d \in Clusters |-> objects[d]]
        /\ DOMAIN simples = Clusters /\ simples = [d \in Clusters |-> simples[d]]
    BY DEF ClientOK
  <1>2. ASSUME NEW f, NEW g, NEW S, DOMAIN f = Clusters, g = [f EXCEPT ![c] = S]
        PROVE  /\ g = [d \in Clusters |-> g[d]]
               /\ g[c] = S
               /\ \A d \in Clusters \ {c} : g[d] = f[d]
    BY <1>2
  <1>3. \A g : /\ Keys(objects[c]) \ Keys(objects[c] \ Stored(c, g, ns, name)) \subseteq {<<g, ns, name>>}
               /\ Keys(objects[c] \ Stored(c, g, ns, name)) \subseteq Keys(objects[c])
    BY StoredHaveKey DEF Keys
  <1>4. \A S, T : /\ Keys(S \cup T) = Keys(S) \cup Keys(T)
    BY DEF Keys
  <1>5. CASE CreateNs(c, ns)
    <2>1. objects' = objects /\ simples' = simples
      BY <1>5 DEF CreateNs
    <2>2. Keys(objects[c]) \ Keys(objects'[c]) \subseteq {<<>>}
      BY <2>1
    <2>3. Made(c) /\ UNCHANGED <<heap, resources, gvrList, listKinds, registered>>
      BY <1>5 DEF CreateNs
    <2>4. /\ objects' = [d \in Clusters |-> objects'[d]]
          /\ simples' = [d \in Clusters |-> simples'[d]]
      BY <2>1, <1>1
    <2> QED
      BY <2>1, <2>2, <2>3, <2>4 DEF ObjectStep
  <1>6. CASE CreateSimpleNamespaced(c, kind, ns, name)
    <2> DEFINE g   == FindGvr(Lists(c), AnyVersion, kind)
               new == Object(g, ns, name, TRUE)
               key == <<g, ns, name>>
    <2>1. /\ g # NotFound /\ Made(c)
          /\ objects' = [objects EXCEPT ![c] = objects[c] \cup {new}]
          /\ simples' = [simples EXCEPT ![c] = simples[c] \cup {key}]
      BY <1>6 DEF CreateSimpleNamespaced
    <2>2. UNCHANGED <<heap, resources, gvrList, listKinds, registered>>
      BY <1>6 DEF CreateSimpleNamespaced
    <2>3. g.kind = kind
      BY <2>1, FoundKind
    <2>4. Found(c, key)
      BY <2>1, <2>3 DEF Found
    <2>5. Keys({new}) = {key}
      BY DEF Keys, Object
    <2> HIDE DEF new, g, key
    <2>6. /\ objects' = [d \in Clusters |-> objects'[d]]
          /\ objects'[c] = objects[c] \cup {new}
          /\ \A d \in Clusters \ {c} : objects'[d] = objects[d]
      BY <2>1, <1>1, <1>2
    <2>7. /\ simples' = [d \in Clusters |-> simples'[d]]
          /\ simples'[c] = simples[c] \cup {key}
          /\ \A d \in Clusters \ {c} : simples'[d] = simples[d]
      BY <2>1, <1>1, <1>2
    <2>8. Keys(objects'[c]) = Keys(objects[c]) \cup {key}
      BY <2>5, <2>6, <1>4
    <2>9. Keys(objects[c]) \ Keys(objects'[c]) \subseteq {<<>>}
      BY <2>8
    <2>10. \A k \in simples'[c] :
             \/ k \in simples[c] /\ (k \in Keys(objects[c]) => k \in Keys(objects'[c]))
             \/ k \in Keys(objects'[c]) /\ Found(c, k)
      BY <2>4, <2>7, <2>8
    <2> QED
      BY <2>1, <2>2, <2>6, <2>7, <2>9, <2>10 DEF ObjectStep
  <1>7. ASSUME NEW g, NEW T, Made(c),
               UNCHANGED <<heap, resources, gvrList, listKinds, registered>>,
               objects' = [objects EXCEPT ![c] = (objects[c] \ Stored(c, g, ns, name)) \cup T],
               simples' = [simples EXCEPT ![c] = simples[c] \ {<<g, ns, name>>}]
        PROVE  ObjectStep(c)
    <2> DEFINE key == <<g, ns, name>>
               rest == objects[c] \ Stored(c, g, ns, name)
    <2>1. Keys(objects[c]) \ Keys(rest) \subseteq {key}
      BY <1>3
    <2> HIDE DEF key, rest
    <2>2. /\ objects' = [d \in Clusters |-> objects'[d]]
          /\ objects'[c] = rest \cup T
          /\ \A d \in Clusters \ {c} : objects'[d] = objects[d]
      BY <1>7, <1>1, <1>2 DEF rest
    <2>3. /\ simples' = [d \in Clusters |-> simples'[d]]
          /\ simples'[c] = simples[c] \ {key}
          /\ \A d \in Clusters \ {c} : simples'[d] = simples[d]
      BY <1>7, <1>1, <1>2 DEF key
    <2>4. Keys(objects[c]) \ Keys(objects'[c]) \subseteq {key}
      BY <2>1, <2>2, <1>4
    <2>5. \A k \in simples'[c] :
             k \in simples[c] /\ (k \in Keys(objects[c]) => k \in Keys(objects'[c]))
      BY <2>3, <2>4
    <2> QED
      BY <1>7, <2>2, <2>3, <2>4, <2>5 DEF ObjectStep
  <1>8. CASE DeleteSimpleNamespaced(c, kind, ns, name)
    <2> DEFINE g == FindGvr(Lists(c), AnyVersion, kind)
    <2>1. /\ Made(c) /\ UNCHANGED <<heap, resources, gvrList, listKinds, registered>>
          /\ objects' = [objects EXCEPT ![c] = objects[c] \ Stored(c, g, ns, name)]
          /\ simples' = [simples EXCEPT ![c] = simples[c] \ {<<g, ns, name>>}]
      BY <1>8 DEF DeleteSimpleNamespaced
    <2> HIDE DEF g
    <2>2. objects[c] \ Stored(c, g, ns, name) = (objects[c] \ Stored(c, g, ns, name)) \cup {}
      OBVIOUS
    <2> QED
      BY <2>1, <2>2, <1>7
  <1>9. CASE Create(c, gvr, ns, name)
    <2> DEFINE new == Object(gvr, ns, name, FALSE)
    <2>1. /\ Made(c) /\ UNCHANGED <<heap, resources, gvrList, listKinds, registered, simples>>
          /\ objects' = [objects EXCEPT ![c] = objects[c] \cup {new}]
      BY <1>9 DEF Create
    <2> HIDE DEF new
    <2>2. /\ objects' = [d \in Clusters |-> objects'[d]]
          /\ objects'[c] = objects[c] \cup {new}
          /\ \A d \in Clusters \ {c} : objects'[d] = objects[d]
      BY <2>1, <1>1, <1>2
    <2>3. Keys(objects[c]) \subseteq Keys(objects'[c])
      BY <2>2, <1>4
    <2>4. Keys(objects[c]) \ Keys(objects'[c]) \subseteq {<<>>}
      BY <2>3
    <2>5. simples' = [d \in Clusters |-> simples'[d]]
      BY <2>1, <1>1
    <2> QED
      BY <2>1, <2>2, <2>3, <2>4, <2>5 DEF ObjectStep
  <1>10. CASE Delete(c, gvr, ns, name)
    <2>1. /\ Made(c) /\ UNCHANGED <<heap, resources, gvrList, listKinds, registered>>
          /\ objects' = [objects EXCEPT ![c] = objects[c] \ Stored(c, gvr, ns, name)]
          /\ simples' = [simples EXCEPT ![c] = simples[c] \ {<<gvr, ns, name>>}]
      BY <1>10 DEF Delete
    <2>2. objects[c] \ Stored(c, gvr, ns, name) = (objects[c] \ Stored(c, gvr, ns, name)) \cup {}
      OBVIOUS
    <2> QED
      BY <2>1, <2>2, <1>7
  <1>11. CASE Update(c, gvr, ns, name)
    BY <1>7, <1>11 DEF Update
  <1> QED
    BY <1>5, <1>6, <1>8, <1>9, <1>10, <1>11

LEMMA NextIs ==
    ASSUME ClientOK, Next
    PROVE  \E c \in Clusters : \/ NewFakeCluster(c)
                               \/ \E gvr \in CRDs : RegisterCRD(c, gvr)
                               \/ ObjectStep(c)
  <1>1. PICK c \in Clusters :
          \/ NewFakeCluster(c)
          \/ \E gvr \in CRDs : RegisterCRD(c, gvr)
          \/ \E ns \in Namespaces :
               \/ CreateNs(c, ns)
               \/ \E name \in Names :
                    \/ \E kind \in Kinds : \/ CreateSimpleNamespaced(c, kind, ns, name)
                                           \/ DeleteSimpleNamespaced(c, kind, ns, name)
                    \/ \E gvr \in Manifests : \/ Create(c, gvr, ns, name)
                                              \/ Delete(c, gvr, ns, name)
                                              \/ Update(c, gvr, ns, name)
    BY DEF Next
  <1> QED
    BY <1>1, ObjectSteps

\* A cluster whose lists in memory and whose references are as before shows what
\* it showed.
LEMMA ShownKept ==
    ASSUME UNCHANGED <<heap, resources>>
    PROVE  /\ HeapOK => HeapOK'
           /\ RefsOK => RefsOK'
           /\ OneListShown => OneListShown'
           /\ \A d \in Clusters : Lists(d)' = Lists(d)
  <1>1. \A d \in Clusters : Lists(d)' = Lists(d)
    BY ListsUnchanged
  <1> QED
    BY <1>1 DEF HeapOK, RefsOK, OneListShown

LEMMA ClustersKept ==
    ASSUME ClustersInv, [Next]_vars
    PROVE  ClustersInv'
  <1>1. HeapOK /\ RefsOK /\ ClientOK /\ OneListShown
    BY DEF ClustersInv
  <1>2. CASE UNCHANGED vars
    BY <1>2, <1>1, ShownKept DEF vars, ClustersInv, ClientOK
  <1>3. ASSUME NEW c \in Clusters, NewFakeCluster(c)
        PROVE  ClustersInv'
    <2>1. /\ HeapOK' /\ RefsOK'
          /\ Lists(c)' = heap[Version[c]]
          /\ \A d \in Clusters \ {c} : Lists(d)' = Lists(d)
          /\ OneListEach(heap[Version[c]])
          /\ Gvrs(heap[Version[c]]) \subseteq Resource
      BY <1>3, NewShows
    <2>2. \A d \in Clusters : OneListEach(Lists(d)')
      BY <2>1, <1>1 DEF OneListShown
    <2>3. OneListShown'
      BY <2>2 DEF OneListShown
    <2>4. ClientOK'
      BY <2>1, <1>3, <1>1 DEF ClientOK, NewFakeCluster
    <2> QED
      BY <2>1, <2>3, <2>4 DEF ClustersInv
  <1>4. ASSUME NEW c \in Clusters, NEW gvr \in CRDs, RegisterCRD(c, gvr)
        PROVE  ClustersInv'
    <2>1. CASE Known(c, gvr)
      BY <2>1, <1>4, <1>1, ShownKept DEF RegisterCRD, ClustersInv, ClientOK
    <2>2. CASE ~Known(c, gvr)
      <3>1. HeapOK' /\ RefsOK' /\ OneListShown'
        BY <2>2, <1>4, NewRegistration
      <3>2. Reload(c, gvr) /\ gvr \in Resource
        BY <2>2, <1>4, TablesOK DEF RegisterCRD, Resource
      <3>3. simples' = [d \in Clusters |-> simples'[d]]
        BY <1>4, <1>1 DEF RegisterCRD, ClientOK
      <3>4. ClientOK'
        BY <3>2, <3>3, <1>1 DEF Reload, ClientOK
      <3> QED
        BY <3>1, <3>4 DEF ClustersInv
    <2> QED
      BY <2>1, <2>2
  <1>5. ASSUME NEW c \in Clusters, ObjectStep(c)
        PROVE  ClustersInv'
    BY <1>5, <1>1, ShownKept DEF ObjectStep, ClustersInv, ClientOK
  <1> QED
    BY <1>1, <1>2, <1>3, <1>4, <1>5, NextIs

LEMMA ClustersAgree == Spec => []ClustersInv
  <1>1. Init => ClustersInv
    BY InitInv
  <1>2. ClustersInv /\ [Next]_vars => ClustersInv'
    BY ClustersKept
  <1> QED
    BY <1>1, <1>2, PTL DEF Spec

-----------------------------------------------------------------------------
\* However many clusters have one version, and whatever is registered in them, a
\* cluster's own lookup and its client's find the same: no group version ever
\* gets a second list (cluster.go:94-105, 183-204, client.go:574-728).
THEOREM LookupsAlwaysAgree == Spec => []FindersAgree
  <1>1. ClustersInv => FindersAgree
    <2> SUFFICES ASSUME ClustersInv, NEW c \in Clusters, NEW kind, NEW av
                 PROVE  FindGvr(Lists(c), av, kind) = ClientGvr(Lists(c), av, kind)
      BY DEF FindersAgree
    <2>1. Lists(c) \in Seq(ResourceList) /\ OneListEach(Lists(c))
      BY ListsShown DEF ClustersInv, OneListShown
    <2> QED
      BY <2>1, LookupsAgree, ResourceListsAreLists
  <1> QED
    BY <1>1, ClustersAgree, PTL

\* A table only grows; gvrList has it and what was registered, and is shown.
RegisteredShown ==
    /\ registered \in [Clusters -> SUBSET CRDs]
    /\ \A v \in DOMAIN Table : Gvrs(Table[v]) \subseteq Gvrs(heap[v])
    /\ \A c \in Clusters :
         /\ ~Made(c) => registered[c] = {}
         /\ Made(c) => Gvrs(Table[Version[c]]) \cup registered[c] \subseteq gvrList[c]
         /\ gvrList[c] \subseteq Gvrs(Lists(c))

LEMMA RegisteredKept ==
    ASSUME ClustersInv, RegisteredShown, [Next]_vars
    PROVE  RegisteredShown'
  <1>1. /\ gvrList \in [Clusters -> SUBSET Resource] /\ listKinds = gvrList
        /\ registered \in [Clusters -> SUBSET CRDs]
        /\ resources \in [Clusters -> Seq(Owners \X Nat)] /\ ClientOK
    BY DEF ClustersInv, ClientOK, RefsOK, RegisteredShown
  <1>2. ASSUME UNCHANGED <<heap, resources, gvrList, registered>>
        PROVE  RegisteredShown'
    <2>1. \A c \in Clusters : /\ Made(c)' <=> Made(c)
                              /\ Gvrs(Lists(c))' = Gvrs(Lists(c))
      BY <1>2, ShownKept DEF Made, Absent, Gvrs
    <2> QED
      BY <1>2, <2>1 DEF RegisteredShown
  <1>3. CASE UNCHANGED vars
    BY <1>3, <1>2 DEF vars
  <1>4. ASSUME NEW c \in Clusters, NewFakeCluster(c)
        PROVE  RegisteredShown'
    <2>1. /\ Lists(c)' = heap[Version[c]]
          /\ \A d \in Clusters \ {c} : Lists(d)' = Lists(d)
      BY <1>4, NewShows
    <2>2. /\ ~Made(c) /\ heap' = heap /\ registered' = registered
          /\ gvrList'[c] = Gvrs(heap[Version[c]])
          /\ \A d \in Clusters \ {c} : gvrList'[d] = gvrList[d] /\ resources'[d] = resources[d]
      BY <1>4, <1>1 DEF NewFakeCluster
    <2>3. registered[c] = {} /\ Gvrs(Table[Version[c]]) \subseteq Gvrs(heap[Version[c]])
      BY <2>2, OwnersApart DEF RegisteredShown
    <2>4. ASSUME NEW d \in Clusters
          PROVE  /\ ~Made(d)' => registered'[d] = {}
                 /\ Made(d)' => Gvrs(Table[Version[d]]) \cup registered'[d] \subseteq gvrList'[d]
                 /\ gvrList'[d] \subseteq Gvrs(Lists(d)')
      <3>1. CASE d = c
        BY <3>1, <2>1, <2>2, <2>3
      <3>2. CASE d # c
        BY <3>2, <2>1, <2>2 DEF RegisteredShown, Made, Absent
      <3> QED
        BY <3>1, <3>2
    <2> QED
      BY <2>2, <2>4 DEF RegisteredShown
  <1>5. ASSUME NEW c \in Clusters, NEW gvr \in CRDs, RegisterCRD(c, gvr)
        PROVE  RegisteredShown'
    <2>1. /\ Made(c) /\ registered' = [registered EXCEPT ![c] = registered[c] \cup {gvr}]
      BY <1>5 DEF RegisterCRD
    <2>2. /\ registered' \in [Clusters -> SUBSET CRDs]
          /\ registered'[c] = registered[c] \cup {gvr}
          /\ \A d \in Clusters \ {c} : registered'[d] = registered[d]
      BY <2>1, <1>1
    <2>3. CASE Known(c, gvr)
      <3>1. UNCHANGED <<heap, resources, gvrList>> /\ gvr \in gvrList[c]
        BY <2>3, <1>5 DEF RegisterCRD, Known
      <3>2. \A d \in Clusters : /\ Made(d)' <=> Made(d)
                                /\ Gvrs(Lists(d))' = Gvrs(Lists(d))
        BY <3>1, ShownKept DEF Made, Absent, Gvrs
      <3>3. ASSUME NEW d \in Clusters
            PROVE  /\ ~Made(d)' => registered'[d] = {}
                   /\ Made(d)' => Gvrs(Table[Version[d]]) \cup registered'[d] \subseteq gvrList'[d]
                   /\ gvrList'[d] \subseteq Gvrs(Lists(d))'
        <4>1. CASE d = c
          BY <4>1, <3>1, <3>2, <2>1, <2>2 DEF RegisteredShown
        <4>2. CASE d # c
          BY <4>2, <3>1, <3>2, <2>2 DEF RegisteredShown
        <4> QED
          BY <4>1, <4>2
      <3> QED
        BY <3>1, <3>3, <2>2 DEF RegisteredShown
    <2>4. CASE ~Known(c, gvr)
      <3>1. /\ Gvrs(Lists(c))' = Gvrs(Lists(c)) \cup {gvr}
            /\ \A d \in Clusters : Gvrs(Lists(d)) \subseteq Gvrs(Lists(d))'
            /\ \A v \in DOMAIN Table : Gvrs(heap[v]) \subseteq Gvrs(heap'[v])
        BY <2>4, <1>5, NewRegistration
      <3>2. Reload(c, gvr) /\ Extend(c, gvr)
        BY <2>4, <1>5 DEF RegisterCRD
      <3>3. /\ gvrList'[c] = gvrList[c] \cup {gvr}
            /\ \A d \in Clusters \ {c} : gvrList'[d] = gvrList[d] /\ resources'[d] = resources[d]
        BY <3>2, <1>1 DEF Reload, Extend
      <3>4. Made(c)'
        <4>1. gvr \in Gvrs(Lists(c)')
          BY <3>1
        <4>2. PICK i \in DOMAIN Lists(c)' : TRUE
          BY <4>1, ResourcesShown
        <4> QED
          BY <4>2 DEF Made, Absent, Lists
      <3>5. ASSUME NEW d \in Clusters
            PROVE  /\ ~Made(d)' => registered'[d] = {}
                   /\ Made(d)' => Gvrs(Table[Version[d]]) \cup registered'[d] \subseteq gvrList'[d]
                   /\ gvrList'[d] \subseteq Gvrs(Lists(d))'
        <4>1. CASE d = c
          BY <4>1, <3>1, <3>3, <3>4, <2>1, <2>2 DEF RegisteredShown
        <4>2. CASE d # c
          <5>1. Made(d)' <=> Made(d)
            BY <4>2, <3>3 DEF Made, Absent
          <5> QED
            BY <4>2, <5>1, <3>1, <3>3, <2>2 DEF RegisteredShown
        <4> QED
          BY <4>1, <4>2
      <3> QED
        BY <3>1, <3>5, <2>2 DEF RegisteredShown
    <2> QED
      BY <2>3, <2>4
  <1>6. ASSUME NEW c \in Clusters, ObjectStep(c)
        PROVE  RegisteredShown'
    BY <1>6, <1>2 DEF ObjectStep
  <1> QED
    BY <1>1, <1>3, <1>4, <1>5, <1>6, NextIs

LEMMA RegisteredAgree == Spec => [](ClustersInv /\ RegisteredShown)
  <1>1. Init => ClustersInv /\ RegisteredShown
    <2> SUFFICES ASSUME Init
                 PROVE  RegisteredShown
      BY InitInv
    <2>1. \A v \in DOMAIN Table : v \in Owners /\ v \notin Clusters
      BY TablesOK DEF Owners
    <2>2. \A v \in DOMAIN Table : heap[v] = Table[v]
      BY <2>1 DEF Init
    <2> QED
      BY <2>2 DEF Init, RegisteredShown, Made
  <1>2. ClustersInv /\ RegisteredShown /\ [Next]_vars => (ClustersInv /\ RegisteredShown)'
    BY ClustersKept, RegisteredKept
  <1> QED
    BY <1>1, <1>2, PTL DEF Spec

\* What the version has and what was ever registered stays found and can be listed,
\* however many clusters share the version's lists: no registration, of whichever
\* cluster, takes anything out of them (cluster.go:75-105, 183-204).
THEOREM RegisteredAreFound == Spec => []RegisteredIsFound
  <1>1. ClustersInv /\ RegisteredShown => RegisteredIsFound
    <2> SUFFICES ASSUME ClustersInv, RegisteredShown, NEW c \in Clusters, Made(c),
                        NEW gvr \in Gvrs(Table[Version[c]]) \cup registered[c]
                 PROVE  FindGvr(Lists(c), gvr.gv, gvr.kind) = gvr /\ gvr \in listKinds[c]
      BY DEF RegisteredIsFound
    <2>1. gvr \in gvrList[c] /\ gvr \in Gvrs(Lists(c)) /\ listKinds = gvrList
      BY DEF RegisteredShown, ClustersInv, ClientOK
    <2>2. gvr \in Resource
      BY <2>1 DEF ClustersInv, ClientOK
    <2>3. gvr.gv # AnyVersion
      BY <2>2, TablesOK DEF Resource
    <2>4. Lists(c) \in Seq(ResourceList)
      BY ListsShown DEF ClustersInv
    <2> QED
      BY <2>1, <2>3, <2>4, FoundUnderOwn, ResourceListsAreLists
  <1> QED
    BY <1>1, RegisteredAgree, PTL

\* No step drops more than one object of a cluster, unless that cluster's client
\* gets a resource it did not have: the client in use has all of gvrList, so that
\* every reload brings one (cluster.go:75-84).
THEOREM ObjectsAlwaysStay == Spec => ObjectsStay
  <1> DEFINE Lost(d) == Keys(objects[d]) \ Keys(objects'[d])
  <1>1. ASSUME ClustersInv, [Next]_vars, NEW d \in Clusters, listKinds'[d] = listKinds[d]
        PROVE  \E key : Lost(d) \subseteq {key}
    <2>1. /\ gvrList \in [Clusters -> SUBSET Resource] /\ listKinds = gvrList
          /\ objects = [c \in Clusters |-> objects[c]]
      BY <1>1 DEF ClustersInv, ClientOK
    <2>2. ASSUME objects'[d] = objects[d]
          PROVE  \E key : Lost(d) \subseteq {key}
      <3>1. Lost(d) = {}
        BY <2>2
      <3> QED
        BY <3>1
    <2>3. CASE UNCHANGED vars
      BY <2>3, <2>2 DEF vars
    <2>4. ASSUME NEW c \in Clusters, NewFakeCluster(c)
          PROVE  \E key : Lost(d) \subseteq {key}
      BY <2>4, <2>2 DEF NewFakeCluster
    <2>5. ASSUME NEW c \in Clusters, NEW gvr \in CRDs, RegisterCRD(c, gvr)
          PROVE  \E key : Lost(d) \subseteq {key}
      <3>1. CASE Known(c, gvr)
        BY <3>1, <2>5, <2>2 DEF RegisterCRD
      <3>2. CASE ~Known(c, gvr) /\ d # c
        <4>1. objects' = [objects EXCEPT ![c] = {}]
          BY <3>2, <2>5 DEF RegisterCRD, Reload
        <4>2. objects'[d] = objects[d]
          BY <4>1, <3>2, <2>1
        <4> QED
          BY <4>2, <2>2
      <3>3. CASE ~Known(c, gvr) /\ d = c
        <4>1. /\ gvrList' = [gvrList EXCEPT ![c] = gvrList[c] \cup {gvr}]
              /\ listKinds' = [listKinds EXCEPT ![c] = gvrList'[c]]
              /\ gvr \notin gvrList[c]
          BY <3>3, <2>5 DEF RegisterCRD, Reload, Known
        <4>2. gvr \in listKinds'[c] /\ gvr \notin listKinds[c]
          BY <4>1, <2>1
        <4> QED
          BY <4>2, <3>3, <1>1
      <3> QED
        BY <3>1, <3>2, <3>3
    <2>6. ASSUME NEW c \in Clusters, ObjectStep(c)
          PROVE  \E key : Lost(d) \subseteq {key}
      <3>1. CASE d = c
        BY <3>1, <2>6 DEF ObjectStep
      <3>2. CASE d # c
        BY <3>2, <2>6, <2>2 DEF ObjectStep
      <3> QED
        BY <3>1, <3>2
    <2> HIDE DEF Lost
    <2>7. ClientOK
      BY <1>1 DEF ClustersInv
    <2> QED
      BY <1>1, <2>3, <2>4, <2>5, <2>6, <2>7, NextIs
  <1>2. ASSUME NEW S, NEW key, S \subseteq {key}
        PROVE  Cardinality(S) <= 1
    <2>1. IsFiniteSet({key}) /\ Cardinality({key}) = 1
      BY FS_Singleton
    <2>2. S \in SUBSET {key}
      BY <1>2
    <2>3. Cardinality(S) <= Cardinality({key})
      BY <2>1, <2>2, FS_Subset
    <2> QED
      BY <2>1, <2>3
  <1>3. ClustersInv /\ [Next]_vars =>
          [\A c \in Clusters :
              listKinds'[c] = listKinds[c] =>
                  Cardinality({<<o.gvr, o.ns, o.name>> : o \in objects[c]}
                              \ {<<o.gvr, o.ns, o.name>> : o \in objects'[c]}) <= 1]_vars
    <2> SUFFICES ASSUME ClustersInv, [Next]_vars, NEW d \in Clusters,
                        listKinds'[d] = listKinds[d]
                 PROVE  Cardinality(Lost(d)) <= 1
      BY DEF Keys
    <2> HIDE DEF Lost
    <2> QED
      BY <1>1, <1>2
  <1> QED
    BY <1>3, ClustersAgree, PTL DEF Spec, ObjectsStay

-----------------------------------------------------------------------------
(* Clusters that share their version with no other. *)

Alone(c) == \A d \in Clusters : Version[d] = Version[c] => d = c

\* The clusters of a test have different versions. Without it what is registered
\* in one cluster shows in the others of its version, which cannot list it.
SeparateVersions == \A c \in Clusters : Alone(c)

\* Before the cluster is made the table of its version is as it was generated;
\* then gvrList has what the cluster shows, nothing is shown twice, and every
\* simple object is stored and found.
ShowsItsOwn(c) ==
    /\ ~Made(c) => heap[Version[c]] = Table[Version[c]]
    /\ Made(c) => gvrList[c] = Gvrs(Lists(c))
    /\ OnePlaceEach(Lists(c))
    /\ \A key \in simples[c] : key \in Keys(objects[c]) /\ Found(c, key)

AloneInv == \A c \in Clusters : Alone(c) => ShowsItsOwn(c)

LEMMA AloneInit ==
    ASSUME Init
    PROVE  AloneInv
  <1> SUFFICES ASSUME NEW c \in Clusters
               PROVE  ShowsItsOwn(c)
    BY DEF AloneInv
  <1>1. Version[c] \in Owners /\ Version[c] \notin Clusters
    BY OwnersApart, TablesOK
  <1>2. heap[Version[c]] = Table[Version[c]] /\ simples[c] = {}
    BY <1>1 DEF Init
  <1>3. resources[c] = <<>> /\ ~Made(c)
    BY DEF Init, Made, Absent
  <1>4. OnePlaceEach(Lists(c))
    BY <1>3 DEF OnePlaceEach, Lists
  <1> QED
    BY <1>2, <1>3, <1>4 DEF ShowsItsOwn

\* A step that leaves the lists, gvrList and the objects of a cluster alone.
LEMMA OwnKept ==
    ASSUME NEW c \in Clusters, ShowsItsOwn(c), Lists(c)' = Lists(c),
           heap'[Version[c]] = heap[Version[c]], resources'[c] = resources[c],
           gvrList'[c] = gvrList[c], objects'[c] = objects[c], simples'[c] \subseteq simples[c]
    PROVE  ShowsItsOwn(c)'
  <1>1. Made(c)' <=> Made(c)
    BY DEF Made, Absent
  <1>2. OnePlaceEach(Lists(c))' <=> OnePlaceEach(Lists(c))
    BY DEF OnePlaceEach
  <1>3. \A key : Found(c, key) => Found(c, key)'
    BY DEF Found
  <1>4. Gvrs(Lists(c))' = Gvrs(Lists(c))
    BY DEF Gvrs
  <1>5. Keys(objects[c])' = Keys(objects[c])
    BY DEF Keys
  <1> QED
    BY <1>1, <1>2, <1>3, <1>4, <1>5 DEF ShowsItsOwn

LEMMA AloneKept ==
    ASSUME ClustersInv, RegisteredShown, AloneInv, [Next]_vars
    PROVE  AloneInv'
  <1> SUFFICES ASSUME NEW c \in Clusters, Alone(c)
               PROVE  ShowsItsOwn(c)'
    BY DEF AloneInv
  <1>1. ShowsItsOwn(c)
    BY DEF AloneInv
  <1>2. /\ gvrList \in [Clusters -> SUBSET Resource] /\ listKinds = gvrList
        /\ objects = [d \in Clusters |-> objects[d]]
        /\ simples = [d \in Clusters |-> simples[d]]
        /\ resources \in [Clusters -> Seq(Owners \X Nat)] /\ ClientOK
    BY DEF ClustersInv, ClientOK, RefsOK
  <1>3. CASE UNCHANGED vars
    BY <1>3, <1>1, ShownKept, OwnKept DEF vars
  <1>4. ASSUME NEW d \in Clusters, NewFakeCluster(d)
        PROVE  ShowsItsOwn(c)'
    <2>1. CASE d # c
      <3>1. Lists(c)' = Lists(c)
        BY <2>1, <1>4, NewShows
      <3>2. /\ heap' = heap /\ objects' = objects /\ simples' = simples
            /\ resources'[c] = resources[c] /\ gvrList'[c] = gvrList[c]
        BY <2>1, <1>4, <1>2 DEF NewFakeCluster
      <3> QED
        BY <3>1, <3>2, <1>1, OwnKept
    <2>2. CASE d = c
      <3>1. Lists(c)' = heap[Version[c]]
        BY <2>2, <1>4, NewShows
      <3>2. /\ ~Made(c) /\ heap' = heap /\ objects' = objects /\ simples' = simples
            /\ gvrList'[c] = Gvrs(heap[Version[c]])
        BY <2>2, <1>4, <1>2 DEF NewFakeCluster
      <3>3. heap[Version[c]] = Table[Version[c]]
        BY <3>2, <1>1 DEF ShowsItsOwn
      <3>4. OnePlaceEach(Table[Version[c]])
        BY OwnersApart, TablesOK
      <3>5. OnePlaceEach(Lists(c)')
        BY <3>1, <3>3, <3>4
      <3>6. gvrList'[c] = Gvrs(Lists(c)')
        BY <3>1, <3>2
      <3>7. \A key : ~Found(c, key)
        <4>1. DOMAIN Lists(c) = {}
          BY <3>2 DEF Made, Absent, Lists
        <4>2. Gvrs(Lists(c)) = {}
          BY <4>1, ResourcesShown
        <4> QED
          BY <4>2, <1>2, ListsShown, FoundIsShown, ResourceListsAreLists DEF Found, ClustersInv
      <3>8. simples'[c] = {}
        BY <3>2, <3>7, <1>1 DEF ShowsItsOwn
      <3> QED
        BY <3>2, <3>3, <3>5, <3>6, <3>8 DEF ShowsItsOwn
    <2> QED
      BY <2>1, <2>2
  <1>5. ASSUME NEW d \in Clusters, NEW gvr \in CRDs, RegisterCRD(d, gvr)
        PROVE  ShowsItsOwn(c)'
    <2>1. CASE Known(d, gvr)
      <3>1. UNCHANGED <<heap, resources, gvrList, objects>>
        BY <2>1, <1>5 DEF RegisterCRD
      <3>2. simples'[c] \subseteq simples[c]
        BY <1>2, <1>5 DEF RegisterCRD
      <3> QED
        BY <3>1, <3>2, <1>1, ShownKept, OwnKept
    <2>2. CASE ~Known(d, gvr) /\ d # c
      <3>1. Version[c] # Version[d]
        BY <2>2 DEF Alone
      <3>2. Lists(c)' = Lists(c) /\ heap'[Version[c]] = heap[Version[c]]
        BY <2>2, <3>1, <1>5, NewRegistration
      <3>3. Reload(d, gvr) /\ Extend(d, gvr)
        BY <2>2, <1>5 DEF RegisterCRD
      <3>4. resources'[c] = resources[c]
        BY <3>3, <2>2, <1>2 DEF Extend
      <3>5. gvrList'[c] = gvrList[c] /\ objects'[c] = objects[c]
        BY <3>3, <2>2, <1>2 DEF Reload
      <3>6. simples'[c] \subseteq simples[c]
        BY <1>2, <1>5 DEF RegisterCRD
      <3> QED
        BY <3>2, <3>4, <3>5, <3>6, <1>1, OwnKept
    <2>3. CASE ~Known(d, gvr) /\ d = c
      <3>1. /\ Made(c) /\ gvr \notin gvrList[c]
            /\ gvrList'[c] = gvrList[c] \cup {gvr}
        BY <2>3, <1>5, <1>2 DEF RegisterCRD, Reload, Known
      <3>2. gvrList[c] = Gvrs(Lists(c)) /\ OnePlaceEach(Lists(c))
        BY <3>1, <1>1 DEF ShowsItsOwn
      <3>3. Gvrs(Lists(c))' = Gvrs(Lists(c)) \cup {gvr} /\ OnePlaceEach(Lists(c))'
        BY <2>3, <1>5, <3>1, <3>2, NewRegistration
      <3>4. gvr \in Gvrs(Lists(c)')
        BY <3>3
      <3>5. Made(c)'
        <4>1. PICK i \in DOMAIN Lists(c)' : TRUE
          BY <3>4, ResourcesShown
        <4> QED
          BY <4>1 DEF Made, Absent, Lists
      <3>6. simples'[c] = {}
        <4>1. New(c, gvr)
          BY <3>1 DEF New, RegisteredShown
        <4> QED
          BY <2>3, <1>2, <1>5, <4>1 DEF RegisterCRD
      <3> QED
        BY <3>1, <3>2, <3>3, <3>5, <3>6 DEF ShowsItsOwn
    <2> QED
      BY <2>1, <2>2, <2>3
  <1>6. ASSUME NEW d \in Clusters, ObjectStep(d)
        PROVE  ShowsItsOwn(c)'
    <2>1. UNCHANGED <<heap, resources, gvrList>> /\ Lists(c)' = Lists(c)
      BY <1>6, ShownKept DEF ObjectStep
    <2>2. CASE d # c
      BY <2>1, <2>2, <1>1, <1>6, OwnKept DEF ObjectStep
    <2>3. CASE d = c
      <3>1. Made(c)
        BY <2>3, <1>6 DEF ObjectStep
      <3>2. \A key \in simples'[c] : key \in Keys(objects'[c]) /\ Found(c, key)
        BY <2>3, <1>1, <1>6 DEF ObjectStep, ShowsItsOwn
      <3>3. \A key : Found(c, key) => Found(c, key)'
        BY <2>1 DEF Found
      <3>4. Made(c)' /\ OnePlaceEach(Lists(c))' /\ gvrList'[c] = Gvrs(Lists(c))'
        BY <2>1, <3>1, <1>1 DEF ShowsItsOwn, Made, Absent
      <3> QED
        BY <3>2, <3>3, <3>4 DEF ShowsItsOwn
    <2> QED
      BY <2>2, <2>3
  <1> QED
    BY <1>2, <1>3, <1>4, <1>5, <1>6, NextIs

LEMMA AlonesShowTheirOwn == Spec => [](ClustersInv /\ AloneInv)
  <1>1. Init => AloneInv
    BY AloneInit
  <1>2. ClustersInv /\ RegisteredShown /\ AloneInv /\ [Next]_vars => AloneInv'
    BY AloneKept
  <1> QED
    BY <1>1, <1>2, RegisteredAgree, PTL DEF Spec

-----------------------------------------------------------------------------
\* The dynamic client can list all that discovery shows, after any registrations:
\* gvrList, of which it is made, has what the cluster shows, and no other cluster
\* changes that (cluster.go:33-50, 75-105).
THEOREM DiscoveredIsListed ==
    ASSUME SeparateVersions
    PROVE  Spec => []DiscoveredCanBeListed
  <1>1. ClustersInv /\ AloneInv => DiscoveredCanBeListed
    BY DEF SeparateVersions, AloneInv, ShowsItsOwn, ClustersInv, ClientOK, DiscoveredCanBeListed
  <1> QED
    BY <1>1, AlonesShowTheirOwn, PTL

\* No resource is shown twice: the early return of RegisterCRD knows all that is
\* shown (cluster.go:79-81).
THEOREM NothingIsShownTwice ==
    ASSUME SeparateVersions
    PROVE  Spec => []ShownOnce
  <1>1. ClustersInv /\ AloneInv => ShownOnce
    <2> SUFFICES ASSUME ClustersInv, AloneInv, NEW c \in Clusters, NEW gvr \in Gvrs(Lists(c))
                 PROVE  Cardinality({a \in Places(Lists(c), gvr.kind) :
                                        Lists(c)[a[1]].gv = gvr.gv}) = 1
      BY DEF ShownOnce
    <2>1. OneListEach(Lists(c)) /\ OnePlaceEach(Lists(c))
      BY DEF ClustersInv, OneListShown, SeparateVersions, AloneInv, ShowsItsOwn
    <2> QED
      BY <2>1, OnePlaceShown
  <1> QED
    BY <1>1, AlonesShowTheirOwn, PTL

\* DeleteSimpleNamespaced finds the object that CreateSimpleNamespaced made, and no
\* other, until it is deleted or updated, or all objects are dropped because a
\* resource is registered that the cluster did not have: to register one that it
\* has, to create others, and what happens in other clusters neither drops it nor
\* changes what its kind means without a version (cluster.go:75-84, 120-139).
THEOREM SimpleObjectsAreDeletable ==
    ASSUME SeparateVersions
    PROVE  Spec => []SimpleObjectsCanBeDeleted
  <1>1. ClustersInv /\ AloneInv => SimpleObjectsCanBeDeleted
    <2> SUFFICES ASSUME ClustersInv, AloneInv, NEW c \in Clusters, NEW key \in simples[c]
                 PROVE  /\ CanDeleteSimple(c, key[1].kind, key[2], key[3])
                        /\ FindGvr(Lists(c), AnyVersion, key[1].kind) = key[1]
      BY DEF SimpleObjectsCanBeDeleted
    <2>1. key \in Keys(objects[c]) /\ Found(c, key)
      BY DEF SeparateVersions, AloneInv, ShowsItsOwn
    <2>2. PICK o \in objects[c] : key = <<o.gvr, o.ns, o.name>>
      BY <2>1 DEF Keys
    <2>3. o \in Stored(c, key[1], key[2], key[3])
      BY <2>2 DEF Stored
    <2> QED
      BY <2>1, <2>3 DEF Found, CanDeleteSimple
  <1> QED
    BY <1>1, AlonesShowTheirOwn, PTL

-----------------------------------------------------------------------------
(* What is registered stays with its cluster. *)

LEMMA CRDsInit ==
    ASSUME Init
    PROVE  CRDsStayInTheirCluster
  <1>1. ASSUME NEW c \in Clusters
        PROVE  Gvrs(Lists(c)) = {}
    <2>1. DOMAIN Lists(c) = {}
      BY DEF Init, Lists, Absent
    <2> QED
      BY <2>1, ResourcesShown
  <1> QED
    BY <1>1 DEF CRDsStayInTheirCluster

LEMMA CRDsKept ==
    ASSUME SeparateVersions, ClustersInv, RegisteredShown, AloneInv, CRDsStayInTheirCluster,
           [Next]_vars
    PROVE  CRDsStayInTheirCluster'
  <1> SUFFICES ASSUME NEW c \in Clusters
               PROVE  Gvrs(Lists(c)') \subseteq Gvrs(Table[Version[c]]) \cup registered'[c]
    BY DEF CRDsStayInTheirCluster
  <1>1. /\ Gvrs(Lists(c)) \subseteq Gvrs(Table[Version[c]]) \cup registered[c]
        /\ ShowsItsOwn(c) /\ ClientOK /\ registered \in [Clusters -> SUBSET CRDs]
    BY DEF CRDsStayInTheirCluster, SeparateVersions, AloneInv, ClustersInv, RegisteredShown
  <1>2. CASE UNCHANGED vars
    BY <1>1, <1>2, ShownKept DEF vars
  <1>3. ASSUME NEW d \in Clusters, NewFakeCluster(d)
        PROVE  Gvrs(Lists(c)') \subseteq Gvrs(Table[Version[c]]) \cup registered'[c]
    <2>1. registered' = registered /\ ~Made(d)
      BY <1>3 DEF NewFakeCluster
    <2>2. CASE d # c
      BY <1>1, <1>3, <2>1, <2>2, NewShows
    <2>3. CASE d = c
      <3>1. Lists(c)' = heap[Version[c]] /\ heap[Version[c]] = Table[Version[c]]
        BY <1>1, <1>3, <2>1, <2>3, NewShows DEF ShowsItsOwn
      <3> QED
        BY <3>1
    <2> QED
      BY <2>2, <2>3
  <1>4. ASSUME NEW d \in Clusters, NEW gvr \in CRDs, RegisterCRD(d, gvr)
        PROVE  Gvrs(Lists(c)') \subseteq Gvrs(Table[Version[c]]) \cup registered'[c]
    <2>1. /\ registered' = [registered EXCEPT ![d] = registered[d] \cup {gvr}]
      BY <1>4 DEF RegisterCRD
    <2>2. registered[c] \subseteq registered'[c] /\ (d = c => gvr \in registered'[c])
      BY <1>1, <2>1
    <2>3. CASE Known(d, gvr)
      <3>1. Lists(c)' = Lists(c)
        BY <1>4, <2>3, ShownKept DEF RegisterCRD
      <3> QED
        BY <1>1, <2>2, <3>1
    <2>4. CASE ~Known(d, gvr) /\ d # c
      <3>1. Lists(c)' = Lists(c)
        BY <1>4, <2>4, NewRegistration DEF SeparateVersions, Alone
      <3> QED
        BY <1>1, <2>2, <3>1
    <2>5. CASE ~Known(d, gvr) /\ d = c
      <3>1. Gvrs(Lists(c)') = Gvrs(Lists(c)) \cup {gvr}
        BY <1>4, <2>5, NewRegistration
      <3> QED
        BY <1>1, <2>2, <2>5, <3>1
    <2> QED
      BY <2>3, <2>4, <2>5
  <1>5. ASSUME NEW d \in Clusters, ObjectStep(d)
        PROVE  Gvrs(Lists(c)') \subseteq Gvrs(Table[Version[c]]) \cup registered'[c]
    BY <1>1, <1>5, ShownKept DEF ObjectStep
  <1> QED
    BY <1>1, <1>2, <1>3, <1>4, <1>5, NextIs

\* "RegisterCRD registers custom resources for the cluster" (cluster.go:74) is so
\* when no other cluster has the version: a cluster shows what its version has and
\* what was registered for it.
THEOREM CRDsStayAlone ==
    ASSUME SeparateVersions
    PROVE  Spec => []CRDsStayInTheirCluster
  <1>1. Init => CRDsStayInTheirCluster
    BY CRDsInit
  <1>2. ClustersInv /\ RegisteredShown /\ AloneInv /\ CRDsStayInTheirCluster /\ [Next]_vars
          => CRDsStayInTheirCluster'
    BY CRDsKept
  <1> QED
    BY <1>1, <1>2, RegisteredAgree, AlonesShowTheirOwn, PTL DEF Spec

-----------------------------------------------------------------------------
(* Each cluster is an API server of its own: FakeCluster implements        *)
(* FakeApi, with what discovery shows for the resources and the keys of    *)
(* the objects for the objects.                                            *)

\* The objects of one cluster, by key, after one of its operations.
ObjectsMove(c) ==
    /\ UNCHANGED <<heap, resources>>
    /\ \A d \in Clusters \ {c} : objects'[d] = objects[d]
    /\ \E key : \/ Keys(objects'[c]) = Keys(objects[c])
                \/ /\ key \notin Keys(objects[c]) /\ key[1] \in Gvrs(Lists(c))
                   /\ Keys(objects'[c]) = Keys(objects[c]) \cup {key}
                \/ /\ key \in Keys(objects[c])
                   /\ Keys(objects'[c]) = Keys(objects[c]) \ {key}

LEMMA StoredByKey ==
    ASSUME NEW c, NEW g, NEW ns, NEW name
    PROVE  /\ <<g, ns, name>> \in Keys(objects[c]) <=> Stored(c, g, ns, name) # {}
           /\ Keys(objects[c] \ Stored(c, g, ns, name)) = Keys(objects[c]) \ {<<g, ns, name>>}
  <1> DEFINE key == <<g, ns, name>>
  <1>1. \A o \in objects[c] : <<o.gvr, o.ns, o.name>> = key <=> o \in Stored(c, g, ns, name)
    BY DEF Stored
  <1>2. Stored(c, g, ns, name) \subseteq objects[c]
    BY DEF Stored
  <1> HIDE DEF key
  <1>3. key \in Keys(objects[c]) <=> Stored(c, g, ns, name) # {}
    BY <1>1, <1>2 DEF Keys
  <1>4. Keys(objects[c] \ Stored(c, g, ns, name)) = Keys(objects[c]) \ {key}
    BY <1>1 DEF Keys
  <1> QED
    BY <1>3, <1>4 DEF key

LEMMA ObjectKey ==
    ASSUME NEW g, NEW ns, NEW name, NEW simple, NEW S
    PROVE  Keys(S \cup {Object(g, ns, name, simple)}) = Keys(S) \cup {<<g, ns, name>>}
  <1> DEFINE new == Object(g, ns, name, simple)
  <1>1. <<new.gvr, new.ns, new.name>> = <<g, ns, name>>
    BY DEF Object
  <1> HIDE DEF new
  <1>2. Keys(S \cup {new}) = Keys(S) \cup {<<new.gvr, new.ns, new.name>>}
    BY DEF Keys
  <1> QED
    BY <1>1, <1>2 DEF new

\* A manifest of a resource that is found is one of a resource that is shown.
LEMMA ManifestShown ==
    ASSUME HeapOK, RefsOK, NEW c \in Clusters, NEW gvr \in Manifests,
           FindGvr(Lists(c), gvr.gv, gvr.kind) = gvr
    PROVE  gvr \in Gvrs(Lists(c))
  <1>1. gvr.gv # AnyVersion
    <2>1. CASE gvr \in CRDs
      BY <2>1, TablesOK
    <2>2. CASE gvr \notin CRDs
      <3>1. PICK v \in DOMAIN Table : gvr \in Gvrs(Table[v])
        BY <2>2 DEF Manifests
      <3>2. gvr \in Resource
        BY <3>1, TablesOK, ShownAreResources
      <3> QED
        BY <3>2, TablesOK DEF Resource
    <2> QED
      BY <2>1, <2>2
  <1>2. NotFound.gv = AnyVersion
    BY DEF NotFound, AnyVersion
  <1>3. gvr # NotFound
    BY <1>1, <1>2
  <1> QED
    BY <1>3, ListsShown, FoundIsShown, ResourceListsAreLists

LEMMA ObjectsMoves ==
    ASSUME ClientOK, HeapOK, RefsOK,
           NEW c \in Clusters, NEW ns, NEW name,
           \/ \E kind \in Kinds : \/ CreateSimpleNamespaced(c, kind, ns, name)
                                  \/ DeleteSimpleNamespaced(c, kind, ns, name)
           \/ \E gvr \in Manifests : \/ Create(c, gvr, ns, name)
                                     \/ Delete(c, gvr, ns, name)
                                     \/ Update(c, gvr, ns, name)
    PROVE  ObjectsMove(c)
  <1>1. DOMAIN objects = Clusters
    BY DEF ClientOK
  <1>2. ASSUME NEW g, NEW simple, g \in Gvrs(Lists(c)), Stored(c, g, ns, name) = {},
               UNCHANGED <<heap, resources>>,
               objects' = [objects EXCEPT ![c] = @ \cup {Object(g, ns, name, simple)}]
        PROVE  ObjectsMove(c)
    <2> DEFINE key == <<g, ns, name>>
    <2>1. /\ objects'[c] = objects[c] \cup {Object(g, ns, name, simple)}
          /\ \A d \in Clusters \ {c} : objects'[d] = objects[d]
      BY <1>1, <1>2
    <2>2. key \notin Keys(objects[c]) /\ key[1] \in Gvrs(Lists(c))
      BY <1>2, StoredByKey
    <2>3. Keys(objects'[c]) = Keys(objects[c]) \cup {key}
      BY <2>1, ObjectKey
    <2> HIDE DEF key
    <2> QED
      BY <1>2, <2>1, <2>2, <2>3 DEF ObjectsMove
  <1>3. ASSUME NEW g, Stored(c, g, ns, name) # {}, UNCHANGED <<heap, resources>>,
               objects' = [objects EXCEPT ![c] = @ \ Stored(c, g, ns, name)]
        PROVE  ObjectsMove(c)
    <2> DEFINE key == <<g, ns, name>>
    <2>1. /\ objects'[c] = objects[c] \ Stored(c, g, ns, name)
          /\ \A d \in Clusters \ {c} : objects'[d] = objects[d]
      BY <1>1, <1>3
    <2>2. key \in Keys(objects[c]) /\ Keys(objects'[c]) = Keys(objects[c]) \ {key}
      BY <1>3, <2>1, StoredByKey
    <2> HIDE DEF key
    <2> QED
      BY <1>3, <2>1, <2>2 DEF ObjectsMove
  <1>4. ASSUME NEW kind, CreateSimpleNamespaced(c, kind, ns, name)
        PROVE  ObjectsMove(c)
    <2>1. FindGvr(Lists(c), AnyVersion, kind) \in Gvrs(Lists(c))
      BY <1>4, ListsShown, FoundIsShown, ResourceListsAreLists DEF CreateSimpleNamespaced
    <2> QED
      BY <1>2, <1>4, <2>1 DEF CreateSimpleNamespaced
  <1>5. ASSUME NEW kind, DeleteSimpleNamespaced(c, kind, ns, name)
        PROVE  ObjectsMove(c)
    BY <1>3, <1>5 DEF DeleteSimpleNamespaced, CanDeleteSimple
  <1>6. ASSUME NEW gvr \in Manifests, Create(c, gvr, ns, name)
        PROVE  ObjectsMove(c)
    <2>1. gvr \in Gvrs(Lists(c))
      BY <1>6, ManifestShown DEF Create
    <2> QED
      BY <1>2, <1>6, <2>1 DEF Create
  <1>7. ASSUME NEW gvr, Delete(c, gvr, ns, name)
        PROVE  ObjectsMove(c)
    BY <1>3, <1>7 DEF Delete
  <1>8. ASSUME NEW gvr, NEW simple, Stored(c, gvr, ns, name) # {}, UNCHANGED <<heap, resources>>,
               objects' = [objects EXCEPT ![c] =
                   (@ \ Stored(c, gvr, ns, name)) \cup {Object(gvr, ns, name, simple)}]
        PROVE  ObjectsMove(c)
    <2> DEFINE key  == <<gvr, ns, name>>
               rest == objects[c] \ Stored(c, gvr, ns, name)
    <2>1. /\ objects'[c] = rest \cup {Object(gvr, ns, name, simple)}
          /\ \A d \in Clusters \ {c} : objects'[d] = objects[d]
      BY <1>1, <1>8
    <2>2. key \in Keys(objects[c]) /\ Keys(rest) = Keys(objects[c]) \ {key}
      BY <1>8, StoredByKey
    <2> HIDE DEF rest
    <2>3. Keys(objects'[c]) = Keys(rest) \cup {key}
      BY <2>1, ObjectKey
    <2> HIDE DEF key
    <2>4. Keys(objects'[c]) = Keys(objects[c])
      BY <2>2, <2>3
    <2> QED
      BY <1>8, <2>1, <2>4 DEF ObjectsMove
  <1>9. ASSUME NEW gvr, Update(c, gvr, ns, name)
        PROVE  ObjectsMove(c)
    BY <1>8, <1>9 DEF Update
  <1> QED
    BY <1>4, <1>5, <1>6, <1>7, <1>9

\* The abstract state when one cluster changes.
LEMMA ServesMoves ==
    ASSUME NEW c \in Clusters, NEW S, Gvrs(Lists(c)') = S,
           \A d \in Clusters \ {c} : Lists(d)' = Lists(d)
    PROVE  Serves' = [Serves EXCEPT ![c] = S]
  BY DEF Serves

LEMMA StoresMoves ==
    ASSUME NEW c \in Clusters, NEW S, Keys(objects'[c]) = S,
           \A d \in Clusters \ {c} : objects'[d] = objects[d]
    PROVE  Stores' = [Stores EXCEPT ![c] = S]
  BY DEF Stores, Keys

LEMMA ServesStays ==
    ASSUME UNCHANGED <<heap, resources>>
    PROVE  Serves' = Serves
  BY ShownKept DEF Serves

LEMMA StoresIs ==
    ASSUME NEW c \in Clusters
    PROVE  Serves[c] = Gvrs(Lists(c)) /\ Stores[c] = Keys(objects[c])
           /\ VersionServes[c] = Gvrs(Table[Version[c]])
  BY DEF Serves, Stores, Keys, VersionServes

\* NewFakeCluster makes the cluster, with what its version had when the program
\* began. (A version without resources would leave the cluster as it was.)
LEMMA MakesApi ==
    ASSUME SeparateVersions, ClustersInv, AloneInv, NEW c \in Clusters, NewFakeCluster(c)
    PROVE  Api!Make(c)
  <1>1. ~Made(c) /\ objects' = objects
    BY DEF NewFakeCluster
  <1>2. heap[Version[c]] = Table[Version[c]]
    BY <1>1 DEF SeparateVersions, AloneInv, ShowsItsOwn
  <1>3. /\ Lists(c)' = Table[Version[c]]
        /\ \A d \in Clusters \ {c} : Lists(d)' = Lists(d)
    BY <1>2, NewShows
  <1>4. Serves' = [Serves EXCEPT ![c] = VersionServes[c]]
    BY <1>3, ServesMoves, StoresIs
  <1>5. Serves[c] = {}
    <2>1. DOMAIN Lists(c) = {}
      BY <1>1 DEF Made, Absent, Lists
    <2> QED
      BY <2>1, ResourcesShown, StoresIs
  <1>6. Stores' = Stores
    BY <1>1 DEF Stores
  <1> QED
    BY <1>4, <1>5, <1>6 DEF Api!Make

\* A registration that is new is learnt; another changes nothing.
LEMMA RegistersApi ==
    ASSUME SeparateVersions, ClustersInv, AloneInv, RegisteredShown,
           NEW c \in Clusters, NEW gvr \in CRDs, RegisterCRD(c, gvr)
    PROVE  Api!Learn(c, gvr) \/ UNCHANGED <<Serves, Stores>>
  <1>1. CASE Known(c, gvr)
    <2>1. UNCHANGED <<heap, resources, objects>>
      BY <1>1 DEF RegisterCRD
    <2> QED
      BY <2>1, ServesStays DEF Stores
  <1>2. CASE ~Known(c, gvr)
    <2>1. /\ Made(c) /\ gvr \notin gvrList[c]
          /\ objects' = [objects EXCEPT ![c] = {}]
      BY <1>2 DEF RegisterCRD, Reload, Known
    <2>2. gvrList[c] = Gvrs(Lists(c))
      BY <2>1 DEF SeparateVersions, AloneInv, ShowsItsOwn
    <2>3. gvr \notin Serves[c] /\ VersionServes[c] \subseteq Serves[c]
      BY <2>1, <2>2, StoresIs DEF RegisteredShown
    <2>4. /\ Gvrs(Lists(c)') = Gvrs(Lists(c)) \cup {gvr}
          /\ \A d \in Clusters \ {c} : Lists(d)' = Lists(d)
      BY <1>2, NewRegistration DEF SeparateVersions, Alone
    <2>5. Serves' = [Serves EXCEPT ![c] = @ \cup {gvr}]
      BY <2>4, ServesMoves, StoresIs
    <2>6. DOMAIN objects = Clusters
      BY DEF ClustersInv, ClientOK
    <2>7. Keys(objects'[c]) = {} /\ \A d \in Clusters \ {c} : objects'[d] = objects[d]
      BY <2>1, <2>6 DEF Keys
    <2>8. Stores' = [Stores EXCEPT ![c] = {}]
      BY <2>7, StoresMoves
    <2> QED
      BY <2>3, <2>5, <2>8 DEF Api!Learn
  <1> QED
    BY <1>1, <1>2

\* The operations on objects put one or remove one, or leave the keys as they are.
LEMMA ObjectsApi ==
    ASSUME NEW c \in Clusters, ObjectsMove(c)
    PROVE  \/ \E object \in Stores'[c] : Api!Put(c, object)
           \/ \E object \in Stores[c] : Api!Remove(c, object)
           \/ UNCHANGED <<Serves, Stores>>
  <1>1. /\ Serves' = Serves
        /\ \A d \in Clusters \ {c} : objects'[d] = objects[d]
    BY ServesStays DEF ObjectsMove
  <1>2. Stores' = [Stores EXCEPT ![c] = Keys(objects'[c])]
    BY <1>1, StoresMoves
  <1>3. PICK key : \/ Keys(objects'[c]) = Keys(objects[c])
                   \/ /\ key \notin Keys(objects[c]) /\ key[1] \in Gvrs(Lists(c))
                      /\ Keys(objects'[c]) = Keys(objects[c]) \cup {key}
                   \/ /\ key \in Keys(objects[c])
                      /\ Keys(objects'[c]) = Keys(objects[c]) \ {key}
    BY DEF ObjectsMove
  <1>4. Serves[c] = Gvrs(Lists(c)) /\ Stores[c] = Keys(objects[c]) /\ DOMAIN Stores = Clusters
    BY StoresIs DEF Stores
  <1>5. CASE Keys(objects'[c]) = Keys(objects[c])
    <2>1. Stores' = Stores
      BY <1>2, <1>4, <1>5 DEF Stores
    <2> QED
      BY <1>1, <2>1
  <1>6. CASE /\ key \notin Keys(objects[c]) /\ key[1] \in Gvrs(Lists(c))
             /\ Keys(objects'[c]) = Keys(objects[c]) \cup {key}
    <2>1. Stores' = [Stores EXCEPT ![c] = @ \cup {key}]
      BY <1>2, <1>4, <1>6
    <2>2. key \in Stores'[c]
      BY <1>4, <2>1
    <2>3. Api!Put(c, key)
      BY <1>1, <1>4, <1>6, <2>1 DEF Api!Put
    <2> QED
      BY <2>2, <2>3
  <1>7. CASE /\ key \in Keys(objects[c])
             /\ Keys(objects'[c]) = Keys(objects[c]) \ {key}
    <2>1. Stores' = [Stores EXCEPT ![c] = @ \ {key}]
      BY <1>2, <1>4, <1>7
    <2>2. Api!Remove(c, key)
      BY <1>1, <1>4, <1>7, <2>1 DEF Api!Remove
    <2> QED
      BY <1>4, <1>7, <2>2
  <1> QED
    BY <1>3, <1>5, <1>6, <1>7

LEMMA InitApi ==
    ASSUME Init
    PROVE  Api!Init
  <1>1. ASSUME NEW c \in Clusters
        PROVE  Gvrs(Lists(c)) = {} /\ objects[c] = {}
    <2>1. DOMAIN Lists(c) = {} /\ objects[c] = {}
      BY DEF Init, Lists, Absent
    <2> QED
      BY <2>1, ResourcesShown
  <1> QED
    BY <1>1 DEF Api!Init, Serves, Stores

LEMMA NextApi ==
    ASSUME SeparateVersions, ClustersInv, AloneInv, RegisteredShown, [Next]_vars
    PROVE  [Api!Next]_<<Serves, Stores>>
  <1>1. CASE UNCHANGED vars
    BY <1>1, ServesStays DEF vars, Stores
  <1>2. ASSUME NEW c \in Clusters, NewFakeCluster(c)
        PROVE  [Api!Next]_<<Serves, Stores>>
    BY <1>2, MakesApi DEF Api!Next
  <1>3. ASSUME NEW c \in Clusters, NEW gvr \in CRDs, RegisterCRD(c, gvr)
        PROVE  [Api!Next]_<<Serves, Stores>>
    BY <1>3, RegistersApi DEF Api!Next
  <1>4. ASSUME NEW c \in Clusters, NEW ns, CreateNs(c, ns)
        PROVE  [Api!Next]_<<Serves, Stores>>
    BY <1>4, ServesStays DEF CreateNs, Stores
  <1>5. ASSUME NEW c \in Clusters, ObjectsMove(c)
        PROVE  [Api!Next]_<<Serves, Stores>>
    BY <1>5, ObjectsApi DEF Api!Next
  <1>6. CASE Next
    <2>1. PICK c \in Clusters :
            \/ NewFakeCluster(c)
            \/ \E gvr \in CRDs : RegisterCRD(c, gvr)
            \/ \E ns \in Namespaces :
                 \/ CreateNs(c, ns)
                 \/ \E name \in Names :
                      \/ \E kind \in Kinds : \/ CreateSimpleNamespaced(c, kind, ns, name)
                                             \/ DeleteSimpleNamespaced(c, kind, ns, name)
                      \/ \E gvr \in Manifests : \/ Create(c, gvr, ns, name)
                                                \/ Delete(c, gvr, ns, name)
                                                \/ Update(c, gvr, ns, name)
      BY <1>6 DEF Next
    <2>2. ClientOK /\ HeapOK /\ RefsOK
      BY DEF ClustersInv
    <2>3. CASE \E ns \in Namespaces, name \in Names :
                 \/ \E kind \in Kinds : \/ CreateSimpleNamespaced(c, kind, ns, name)
                                        \/ DeleteSimpleNamespaced(c, kind, ns, name)
                 \/ \E gvr \in Manifests : \/ Create(c, gvr, ns, name)
                                           \/ Delete(c, gvr, ns, name)
                                           \/ Update(c, gvr, ns, name)
      BY <1>5, <2>2, <2>3, ObjectsMoves
    <2> QED
      BY <1>2, <1>3, <1>4, <2>1, <2>3
  <1> QED
    BY <1>1, <1>6

\* Each of the clusters of a test, when they have different versions, is an API
\* server of its own, for any number of clusters, any tables, registrations and
\* objects (cluster.go:26-181).
THEOREM ClustersAreApis ==
    ASSUME SeparateVersions
    PROVE  Spec => EachIsAnApi
  <1>1. Init => Api!Init
    BY InitApi
  <1>2. ClustersInv /\ AloneInv /\ RegisteredShown /\ [Next]_vars
          => [Api!Next]_<<Serves, Stores>>
    BY NextApi
  <1> QED
    BY <1>1, <1>2, RegisteredAgree, AlonesShowTheirOwn, PTL DEF Spec, EachIsAnApi, Api!Spec
=============================================================================
