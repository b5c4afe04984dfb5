----------------------- MODULE FakeTableLookupProofs -----------------------
(***************************************************************************)
(* Theorems about lookups in fake clusters as they are made, whatever      *)
(* their tables: resources are found, by the client as by the cluster, and *)
(* stable versions first if the tables have them first.                    *)
(***************************************************************************)
EXTENDS FakeTableLookup, LookupProofs

\* The last lookup was of a resource of the table, and has its result.
AskedInv ==
    /\ version \in DOMAIN Table
    /\ asked # NotFound =>
         \E gvr \in Gvrs(Table[version]) :
            /\ asked.gv \in {gvr.gv, AnyVersion} /\ asked.kind = gvr.kind
            /\ asked = [gv |-> asked.gv, kind |-> asked.kind]
            /\ found = FindGvr(Table[version], asked.gv, asked.kind)

LEMMA AskedHolds == Spec => []AskedInv
  <1>1. Init => AskedInv
    BY DEF Init, AskedInv
  <1>2. AskedInv /\ [Next]_vars => AskedInv'
    <2> SUFFICES ASSUME AskedInv, [Next]_vars PROVE AskedInv'
      OBVIOUS
    <2>1. ASSUME NEW gvr \in Gvrs(Table[version]), NEW av \in {gvr.gv, AnyVersion},
                 FindGVR(av, gvr.kind)
          PROVE  AskedInv'
      BY <2>1 DEF FindGVR, Lists, AskedInv
    <2>2. CASE UNCHANGED vars
      BY <2>2 DEF vars, AskedInv
    <2> QED
      BY <2>1, <2>2 DEF Next, Lists
  <1> QED
    BY <1>1, <1>2, PTL DEF Spec

\* Whatever the tables, as long as a group version has one list in each: a resource
\* of a table is found under its own group version, a kind in any of them is found
\* as some resource of the table, and the client finds what the cluster finds
\* (cluster.go:183-204, client.go:574-614, 694-728).
THEOREM TablesAreSearched == Spec => []EveryResourceFound
  <1>1. ASSUME AskedInv PROVE EveryResourceFound
    <2> SUFFICES ASSUME asked # NotFound
                 PROVE  /\ found \in Gvrs(Table[version])
                        /\ asked.gv # AnyVersion => found = asked
                        /\ found = ClientGvr(Table[version], asked.gv, asked.kind)
      BY DEF EveryResourceFound, Lists
    <2> DEFINE ls == Table[version]
    <2>1. AreLists(ls) /\ OneListEach(ls)
      BY <1>1, SequencesAreLists, TablesAreLists DEF AskedInv
    <2>2. PICK gvr \in Gvrs(ls) :
             /\ asked.gv \in {gvr.gv, AnyVersion} /\ asked.kind = gvr.kind
             /\ asked = [gv |-> asked.gv, kind |-> asked.kind]
             /\ found = FindGvr(ls, asked.gv, asked.kind)
      BY <1>1 DEF AskedInv
    <2> HIDE DEF ls
    <2>4. gvr = [gv |-> gvr.gv, kind |-> gvr.kind]
      BY ResourcesShown
    <2>5. found = ClientGvr(ls, asked.gv, asked.kind)
      BY <2>1, <2>2, LookupsAgree
    <2>6. CASE asked.gv # AnyVersion
      <3>1. found = gvr
        BY <2>1, <2>2, <2>6, FoundUnderOwn
      <3>2. asked = gvr
        BY <2>2, <2>4, <2>6
      <3> QED
        BY <2>5, <3>1, <3>2 DEF ls
    <2>7. CASE asked.gv = AnyVersion
      <3>1. PICK i \in DOMAIN ls :
               /\ found = [gv |-> ls[i].gv, kind |-> gvr.kind]
               /\ \E k \in DOMAIN ls[i].kinds : ls[i].kinds[k] = gvr.kind
        BY <2>1, <2>2, <2>7, FoundInFirstList
      <3>2. found \in Gvrs(ls)
        BY <3>1, ResourcesShown
      <3> QED
        BY <2>5, <2>7, <3>2 DEF ls
    <2> QED
      BY <2>6, <2>7
  <1> QED
    BY <1>1, AskedHolds, PTL

\* If each table has the stable versions of a group before the others that have a
\* kind of theirs, a kind looked up in any version is found in a stable version of
\* its group, if one has it (fake/v116_resources.go to v136_resources.go).
THEOREM StableVersionsAreFirst ==
    ASSUME \A v \in DOMAIN Table : StableFirst(Table[v])
    PROVE  Spec => []StableVersionPreferred
  <1>1. ASSUME AskedInv PROVE StableVersionPreferred
    <2> DEFINE ls == Table[version]
    <2> SUFFICES ASSUME asked # NotFound, asked.gv = AnyVersion, ~Stable(found.gv),
                        NEW other \in Gvrs(ls), other.kind = found.kind,
                        other.gv[1] = found.gv[1], Stable(other.gv)
                 PROVE  FALSE
      BY DEF StableVersionPreferred, Lists
    <2>1. AreLists(ls) /\ StableFirst(ls)
      BY <1>1, SequencesAreLists, TablesAreLists DEF AskedInv
    <2>2. PICK gvr \in Gvrs(ls) :
             asked.kind = gvr.kind /\ found = FindGvr(ls, asked.gv, asked.kind)
      BY <1>1 DEF AskedInv
    <2> HIDE DEF ls
    <2>3. PICK i \in DOMAIN ls :
             /\ found = [gv |-> ls[i].gv, kind |-> gvr.kind]
             /\ \E k \in DOMAIN ls[i].kinds : ls[i].kinds[k] = gvr.kind
             /\ \A j \in DOMAIN ls :
                  (\E l \in DOMAIN ls[j].kinds : ls[j].kinds[l] = gvr.kind) => i <= j
      BY <2>1, <2>2, FoundInFirstList
    <2>4. PICK j \in DOMAIN ls : \E l \in DOMAIN ls[j].kinds :
             other = [gv |-> ls[j].gv, kind |-> ls[j].kinds[l]]
      BY ResourcesShown
    <2>5. other.gv = ls[j].gv /\ \E l \in DOMAIN ls[j].kinds : ls[j].kinds[l] = gvr.kind
      BY <2>3, <2>4
    <2>6. i <= j
      BY <2>3, <2>5
    <2>7. j < i
      BY <2>1, <2>3, <2>5 DEF StableFirst
    <2>8. i \in Nat /\ j \in Nat
      BY <2>1 DEF AreLists
    <2> QED
      BY <2>6, <2>7, <2>8
  <1> QED
    BY <1>1, AskedHolds, PTL
=============================================================================
