-------------------------- MODULE FakeTableLookup --------------------------
(***************************************************************************)
(* Lookups in fake clusters that are as NewFakeCluster makes them, of      *)
(* every version: each kind of the table, in each of its group versions    *)
(* and in any (FindGVR in fake/cluster.go, APIResource in                  *)
(* client/client.go).                                                      *)
(***************************************************************************)
EXTENDS ResourceLookup

CONSTANT Table   \* the resource lists of each version, in order

\* A group version has one list in a table.
ASSUME TablesAreLists ==
    \A v \in DOMAIN Table :
        /\ Table[v] \in Seq([gv : STRING \X STRING, kinds : Seq(STRING)])
        /\ OneListEach(Table[v])

VARIABLES
    version,  \* the version of the cluster
    asked,    \* the apiVersion and kind of the last lookup
    found     \* what FindGVR found

vars == <<version, asked, found>>

Lists == Table[version]

Init ==
    /\ version \in DOMAIN Table
    /\ asked = NotFound
    /\ found = NotFound

FindGVR(apiVersion, kind) ==
    /\ asked' = [gv |-> apiVersion, kind |-> kind]
    /\ found' = FindGvr(Lists, apiVersion, kind)
    /\ UNCHANGED version

Next == \E gvr \in Gvrs(Lists) : FindGVR(gvr.gv, gvr.kind) \/ FindGVR(AnyVersion, gvr.kind)

Spec == Init /\ [][Next]_vars

-----------------------------------------------------------------------------
\* A resource of the table is found under its own group version, and the client
\* finds what the cluster finds, although they search the lists in their own ways
\* (cluster.go:183-204, client.go:574-614, 694-728).
EveryResourceFound ==
    asked # NotFound =>
        /\ found \in Gvrs(Lists)
        /\ asked.gv # AnyVersion => found = asked
        /\ found = ClientGvr(Lists, asked.gv, asked.kind)

\* A kind looked up in any version is found in a stable version of its group if
\* the group has one, as the preferred version of a cluster is: the tables'
\* order decides it (fake/v116_resources.go to v136_resources.go).
StableVersionPreferred ==
    asked # NotFound /\ asked.gv = AnyVersion =>
        \/ Stable(found.gv)
        \/ \A gvr \in Gvrs(Lists) :
             gvr.kind = found.kind /\ gvr.gv[1] = found.gv[1] => ~Stable(gvr.gv)
=============================================================================
