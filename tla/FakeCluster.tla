---------------------------- MODULE FakeCluster ----------------------------
(***************************************************************************)
(* Fake clusters (fake/cluster.go), several of them in the process of a    *)
(* test: the resource lists their discovery shows, the list kinds of their *)
(* dynamic client, and the objects in it. The lists are objects in memory: *)
(* the table of a version holds pointers, which every cluster of that      *)
(* version copies, so that a list changed by one of them changes for all.  *)
(***************************************************************************)
EXTENDS ResourceLookup, FiniteSets

CONSTANTS
    Clusters,
    Version,     \* the version of each cluster
    Table,       \* the resource lists of each version, in order
    CRDs,        \* what is registered: group versions with a kind, none of the core group
    Kinds,       \* kinds of the objects
    Namespaces,
    Names        \* names of objects

\* The group versions and the kinds there are.
GroupVersions ==
    {gvr.gv : gvr \in CRDs}
    \cup UNION {{Table[v][i].gv : i \in DOMAIN Table[v]} : v \in DOMAIN Table}
KindNames ==
    {gvr.kind : gvr \in CRDs} \cup {gvr.kind : gvr \in UNION {Gvrs(Table[v]) : v \in DOMAIN Table}}
ResourceList == [gv : GroupVersions, kinds : Seq(KindNames)]

\* A group version has one list in a table, and a kind one place in a list.
ASSUME TablesOK ==
    /\ Version \in [Clusters -> DOMAIN Table]
    /\ Clusters \cap DOMAIN Table = {}
    /\ AnyVersion \notin GroupVersions
    /\ CRDs \subseteq [gv : GroupVersions, kind : KindNames]
    /\ \A v \in DOMAIN Table :
         Table[v] \in Seq(ResourceList) /\ OneListEach(Table[v]) /\ OnePlaceEach(Table[v])

VARIABLES
    heap,        \* the resource lists in memory, by owner and number
    resources,   \* fc.Discovery.Resources: which lists, in order
    gvrList,     \* fc.gvrList
    listKinds,   \* the resources the dynamic client can list
    objects,     \* the objects in the dynamic client
    namespaces,  \* the namespaces in the typed client
    registered,  \* history: the custom resources registered for each cluster
    simples      \* history: what CreateSimpleNamespaced made, until it is deleted or
                 \* updated, or a resource the cluster did not have is registered

vars == <<heap, resources, gvrList, listKinds, objects, namespaces, registered, simples>>

Owners == DOMAIN Table \cup Clusters
Absent == <<>>

\* The lists that a cluster's discovery shows.
Lists(c) == [i \in DOMAIN resources[c] |-> heap[resources[c][i][1]][resources[c][i][2]]]

Made(c) == resources[c] # Absent

Init ==
    /\ heap = [o \in Owners |-> IF o \in Clusters THEN <<>> ELSE Table[o]]
    /\ resources = [c \in Clusters |-> Absent]
    /\ gvrList = [c \in Clusters |-> {}]
    /\ listKinds = [c \in Clusters |-> {}]
    /\ objects = [c \in Clusters |-> {}]
    /\ namespaces = [c \in Clusters |-> {}]
    /\ registered = [c \in Clusters |-> {}]
    /\ simples = [c \in Clusters |-> {}]

-----------------------------------------------------------------------------
\* NewFakeCluster: the table as it is now, with all its resources to be listed.
NewFakeCluster(c) ==
    LET v == Version[c]
    IN /\ ~Made(c)
       /\ resources' = [resources EXCEPT ![c] = [i \in DOMAIN heap[v] |-> <<v, i>>]]
       /\ gvrList' = [gvrList EXCEPT ![c] = Gvrs(heap[v])]
       /\ listKinds' = [listKinds EXCEPT ![c] = Gvrs(heap[v])]
       /\ UNCHANGED <<heap, objects, namespaces, registered, simples>>

\* Mutant of Reload: the dynamic client is made before gvrList has the resource.
ReloadEarly(c, gvr) ==
    /\ listKinds' = [listKinds EXCEPT ![c] = gvrList[c]]
    /\ objects' = [objects EXCEPT ![c] = {}]
    /\ gvrList' = [gvrList EXCEPT ![c] = @ \cup {gvr}]

\* Mutant of Reload: the dynamic client keeps its objects.
ReloadWithObjects(c, gvr) ==
    /\ gvrList' = [gvrList EXCEPT ![c] = @ \cup {gvr}]
    /\ listKinds' = [listKinds EXCEPT ![c] = gvrList'[c]]
    /\ UNCHANGED objects

\* The resource goes into gvrList, and ReloadDynamic replaces the dynamic client
\* by one that has it, and no objects.
Reload(c, gvr) ==
    /\ gvrList' = [gvrList EXCEPT ![c] = @ \cup {gvr}]
    /\ listKinds' = [listKinds EXCEPT ![c] = gvrList'[c]]
    /\ objects' = [objects EXCEPT ![c] = {}]

\* Mutant of Extend: every resource gets a list of its own.
ExtendApart(c, gvr) ==
    /\ heap' = [heap EXCEPT ![c] = Append(@, [gv |-> gvr.gv, kinds |-> <<gvr.kind>>])]
    /\ resources' = [resources EXCEPT ![c] = Append(@, <<c, Len(heap[c]) + 1>>)]

\* Mutant of Extend: the lists are compared by version, whatever the group.
ExtendAnyGroup(c, gvr) ==
    LET same == {i \in DOMAIN resources[c] : Lists(c)[i].gv[2] = gvr.gv[2]}
    IN IF same = {}
       THEN /\ heap' = [heap EXCEPT ![c] = Append(@, [gv |-> gvr.gv, kinds |-> <<gvr.kind>>])]
            /\ resources' = [resources EXCEPT ![c] = Append(@, <<c, Len(heap[c]) + 1>>)]
       ELSE LET i == CHOOSE i \in same : \A j \in same : i <= j
                at == resources[c][i]
            IN /\ heap' = [heap EXCEPT ![at[1]][at[2]].kinds = Append(@, gvr.kind)]
               /\ UNCHANGED resources

\* The resource goes into the first list of its group version, wherever that
\* list is, or into a new list of the cluster's own.
Extend(c, gvr) ==
    LET same == {i \in DOMAIN resources[c] : Lists(c)[i].gv = gvr.gv}
    IN IF same = {}
       THEN /\ heap' = [heap EXCEPT ![c] = Append(@, [gv |-> gvr.gv, kinds |-> <<gvr.kind>>])]
            /\ resources' = [resources EXCEPT ![c] = Append(@, <<c, Len(heap[c]) + 1>>)]
       ELSE LET i == CHOOSE i \in same : \A j \in same : i <= j
                at == resources[c][i]
            IN /\ heap' = [heap EXCEPT ![at[1]][at[2]].kinds = Append(@, gvr.kind)]
               /\ UNCHANGED resources

\* Mutant of Known: every registration is taken for a new one.
KnownNever(c, gvr) == FALSE

\* Mutant of Known: a kind is looked for in every version.
KnownInAnyVersion(c, gvr) == \E g \in gvrList[c] : g.kind = gvr.kind

Known(c, gvr) == gvr \in gvrList[c]

\* Neither the table as it was generated nor a registration has it.
New(c, gvr) == gvr \notin Gvrs(Table[Version[c]]) \cup registered[c]

RegisterCRD(c, gvr) ==
    /\ Made(c)
    /\ registered' = [registered EXCEPT ![c] = @ \cup {gvr}]
    /\ simples' = IF New(c, gvr) THEN [simples EXCEPT ![c] = {}] ELSE simples
    /\ IF Known(c, gvr)
       THEN UNCHANGED <<heap, resources, gvrList, listKinds, objects>>
       ELSE Reload(c, gvr) /\ Extend(c, gvr)
    /\ UNCHANGED namespaces

-----------------------------------------------------------------------------
\* An object, by what it is stored, and its content: what CreateSimpleNamespaced
\* gives it, or that of a manifest.
Object(gvr, ns, name, simple) == [gvr |-> gvr, ns |-> ns, name |-> name, simple |-> simple]

\* The objects that are this one to the dynamic client, however they were made.
Stored(c, gvr, ns, name) == {o \in objects[c] : o.gvr = gvr /\ o.ns = ns /\ o.name = name}

\* The namespace is made in the typed client; that it is there already is no error.
CreateNs(c, ns) ==
    /\ Made(c)
    /\ namespaces' = [namespaces EXCEPT ![c] = @ \cup {ns}]
    /\ UNCHANGED <<heap, resources, gvrList, listKinds, objects, registered, simples>>

\* CreateSimpleNamespaced looks the kind up in any version. (It panics if there
\* is no such kind, or if the object exists.)
CreateSimpleNamespaced(c, kind, ns, name) ==
    LET gvr == FindGvr(Lists(c), AnyVersion, kind)
    IN /\ Made(c)
       /\ gvr # NotFound /\ Stored(c, gvr, ns, name) = {}
       /\ namespaces' = [namespaces EXCEPT ![c] = @ \cup {ns}]
       /\ objects' = [objects EXCEPT ![c] = @ \cup {Object(gvr, ns, name, TRUE)}]
       /\ simples' = [simples EXCEPT ![c] = @ \cup {<<gvr, ns, name>>}]
       /\ UNCHANGED <<heap, resources, gvrList, listKinds, registered>>

\* DeleteSimpleNamespaced panics if there is no such kind or no such object.
CanDeleteSimple(c, kind, ns, name) ==
    LET gvr == FindGvr(Lists(c), AnyVersion, kind)
    IN gvr # NotFound /\ Stored(c, gvr, ns, name) # {}

DeleteSimpleNamespaced(c, kind, ns, name) ==
    LET gvr == FindGvr(Lists(c), AnyVersion, kind)
    IN /\ Made(c)
       /\ CanDeleteSimple(c, kind, ns, name)
       /\ objects' = [objects EXCEPT ![c] = @ \ Stored(c, gvr, ns, name)]
       /\ simples' = [simples EXCEPT ![c] = @ \ {<<gvr, ns, name>>}]
       /\ UNCHANGED <<heap, resources, gvrList, listKinds, namespaces, registered>>

\* Create, Delete and Update take a manifest, of some apiVersion and kind. They
\* return an error, and change nothing, if the kind is not found in that
\* apiVersion, or if the object exists, or does not.
Create(c, gvr, ns, name) ==
    /\ Made(c)
    /\ FindGvr(Lists(c), gvr.gv, gvr.kind) = gvr
    /\ Stored(c, gvr, ns, name) = {}
    /\ objects' = [objects EXCEPT ![c] = @ \cup {Object(gvr, ns, name, FALSE)}]
    /\ UNCHANGED <<heap, resources, gvrList, listKinds, namespaces, registered, simples>>

Delete(c, gvr, ns, name) ==
    /\ Made(c)
    /\ FindGvr(Lists(c), gvr.gv, gvr.kind) = gvr
    /\ Stored(c, gvr, ns, name) # {}
    /\ objects' = [objects EXCEPT ![c] = @ \ Stored(c, gvr, ns, name)]
    /\ simples' = [simples EXCEPT ![c] = @ \ {<<gvr, ns, name>>}]
    /\ UNCHANGED <<heap, resources, gvrList, listKinds, namespaces, registered>>

Update(c, gvr, ns, name) ==
    /\ Made(c)
    /\ FindGvr(Lists(c), gvr.gv, gvr.kind) = gvr
    /\ Stored(c, gvr, ns, name) # {}
    /\ objects' = [objects EXCEPT ![c] =
          (@ \ Stored(c, gvr, ns, name)) \cup {Object(gvr, ns, name, FALSE)}]
    /\ simples' = [simples EXCEPT ![c] = @ \ {<<gvr, ns, name>>}]
    /\ UNCHANGED <<heap, resources, gvrList, listKinds, namespaces, registered>>

\* The group versions that manifests have.
Manifests == CRDs \cup {gvr \in UNION {Gvrs(Table[v]) : v \in DOMAIN Table} : gvr.kind \in Kinds}

Next ==
    \E c \in Clusters :
        \/ NewFakeCluster(c)
        \/ \E gvr \in CRDs : RegisterCRD(c, gvr)
        \/ \E ns \in Namespaces :
             \/ CreateNs(c, ns)
             \/ \E name \in Names :
                  \/ \E kind \in Kinds : \/ CreateSimpleNamespaced(c, kind, ns, name)
                                         \/ DeleteSimpleNamespaced(c, kind, ns, name)
                  \/ \E gvr \in Manifests : \/ Create(c, gvr, ns, name)
                                            \/ Delete(c, gvr, ns, name)
                                            \/ Update(c, gvr, ns, name)

Spec == Init /\ [][Next]_vars

-----------------------------------------------------------------------------
\* What a cluster's discovery shows its dynamic client can list: List on anything
\* else panics in the fake dynamic client (cluster.go:33-50, 75-84).
DiscoveredCanBeListed ==
    \A c \in Clusters : Made(c) => Gvrs(Lists(c)) \subseteq listKinds[c]

\* No resource is shown twice, whatever is registered (cluster.go:79-81).
ShownOnce ==
    \A c \in Clusters : \A gvr \in Gvrs(Lists(c)) :
        Cardinality({a \in Places(Lists(c), gvr.kind) : Lists(c)[a[1]].gv = gvr.gv}) = 1

\* What the cluster's version has, and all that was ever registered for it, is
\* found under its own group version and can be listed: no registration is taken
\* for one of another resource, and none, in whichever cluster, hides an earlier
\* one (cluster.go:75-105, 183-204).
RegisteredIsFound ==
    \A c \in Clusters : Made(c) =>
        \A gvr \in Gvrs(Table[Version[c]]) \cup registered[c] :
            FindGvr(Lists(c), gvr.gv, gvr.kind) = gvr /\ gvr \in listKinds[c]

\* The cluster's own lookups and those of its client find the same, in every
\* version and after any registrations (cluster.go:183-204, client.go:621-653).
FindersAgree ==
    \A c \in Clusters : \A kind \in Kinds, av \in {AnyVersion} \cup {gvr.gv : gvr \in Manifests} :
        Made(c) => FindGvr(Lists(c), av, kind) = ClientGvr(Lists(c), av, kind)

\* What CreateSimpleNamespaced made DeleteSimpleNamespaced finds and deletes, it
\* and no other, until it is deleted or updated: although both look the kind up
\* anew, and whatever is created, or registered, in between, other than a resource
\* the cluster did not have, which drops all its objects (cluster.go:75-84, 120-139).
SimpleObjectsCanBeDeleted ==
    \A c \in Clusters : \A key \in simples[c] :
        /\ CanDeleteSimple(c, key[1].kind, key[2], key[3])
        /\ FindGvr(Lists(c), AnyVersion, key[1].kind) = key[1]

\* Objects vanish one at a time, by being deleted, unless their own cluster
\* learns of a new resource: what is registered again, is in the table, or is
\* registered in another cluster drops nothing (cluster.go:75-84).
ObjectsStay ==
    [][\A c \in Clusters :
        listKinds'[c] = listKinds[c] =>
            Cardinality({<<o.gvr, o.ns, o.name>> : o \in objects[c]}
                        \ {<<o.gvr, o.ns, o.name>> : o \in objects'[c]}) <= 1]_vars

\* "RegisterCRD registers custom resources for the cluster" (cluster.go:74): it
\* shows what its version has and what was registered for it, and nothing else.
CRDsStayInTheirCluster ==
    \A c \in Clusters : Gvrs(Lists(c)) \subseteq Gvrs(Table[Version[c]]) \cup registered[c]

-----------------------------------------------------------------------------
(* What each cluster promises. *)

VersionServes == [c \in Clusters |-> Gvrs(Table[Version[c]])]
Serves        == [c \in Clusters |-> Gvrs(Lists(c))]
Stores        == [c \in Clusters |-> {<<o.gvr, o.ns, o.name>> : o \in objects[c]}]

Api == INSTANCE FakeApi WITH
    Basic <- VersionServes, Custom <- CRDs, shown <- Serves, stored <- Stores

\* To its test each cluster is an API server of its own: it begins with what its
\* version has, whatever the other clusters did before it was made; a
\* registration adds the one resource; an object can be stored once, and under a
\* resource that is served; the operations of another cluster do nothing to it
\* (cluster.go:26-181).
EachIsAnApi == Api!Spec
=============================================================================
