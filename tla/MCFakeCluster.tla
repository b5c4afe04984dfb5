--------------------------- MODULE MCFakeCluster ---------------------------
(***************************************************************************)
(* Values of FakeCluster's constants for TLC: two groups of the real       *)
(* tables of two versions, and custom resources that go into a list of the *)
(* table, into a new list, and next to one another.                        *)
(***************************************************************************)
EXTENDS FakeCluster, TLC

CONSTANTS c1, c2

Real == INSTANCE FakeTables

\* What TablesOK asks of a table holds of every real one, in full.
ASSUME AllTablesOK ==
    \A v \in Real!Versions :
        OneListEach(Real!ClusterResources[v]) /\ OnePlaceEach(Real!ClusterResources[v])

\* And the order of the tables is the one that decides for stable versions.
ASSUME AllTablesInOrder == \A v \in Real!Versions : StableFirst(Real!ClusterResources[v])

AppsOrBatch(list) == list.gv[1] \in {"apps", "batch"}

RealTable == [v \in {"V116", "V127"} |-> SelectSeq(Real!ClusterResources[v], AppsOrBatch)]

DifferentVersions == c1 :> "V116" @@ c2 :> "V127"
OneVersion        == c1 :> "V127" @@ c2 :> "V127"

Crd(group, version, kind) == [gv |-> <<group, version>>, kind |-> kind]

CustomResources == {Crd("apps", "v1", "CronJob"), Crd("deckhouse.io", "v1", "NodeGroup"),
                    Crd("deckhouse.io", "v1", "CronJob")}
=============================================================================
