------------------------------ MODULE FakeApi ------------------------------
(***************************************************************************)
(* What fake/cluster.go promises of each fake cluster to the test that     *)
(* makes it: it serves the resources of its version and those registered   *)
(* for it; it stores objects of the resources it serves, each once; and    *)
(* nothing that is done to another cluster changes it. FakeCluster         *)
(* implements this when no two clusters have one version.                  *)
(***************************************************************************)
CONSTANTS
    Clusters,
    Basic,       \* Basic[c]: the resources of the version of c
    Custom       \* the resources that may be registered

VARIABLES
    shown,   \* shown[c]: the resources that c serves
    stored   \* stored[c]: the objects in c, as <<resource, namespace, name>>

Init ==
    /\ shown = [c \in Clusters |-> {}]
    /\ stored = [c \in Clusters |-> {}]

\* The cluster is made, with the resources of its version and no objects.
Make(c) ==
    /\ shown[c] = {}
    /\ shown' = [shown EXCEPT ![c] = Basic[c]]
    /\ UNCHANGED stored

\* A resource is registered. The objects there were are gone.
Learn(c, gvr) ==
    /\ gvr \notin shown[c]
    /\ Basic[c] \subseteq shown[c]
    /\ shown' = [shown EXCEPT ![c] = @ \cup {gvr}]
    /\ stored' = [stored EXCEPT ![c] = {}]

\* An object of a resource that is served.
Put(c, object) ==
    /\ object \notin stored[c]
    /\ object[1] \in shown[c]
    /\ stored' = [stored EXCEPT ![c] = @ \cup {object}]
    /\ UNCHANGED shown

Remove(c, object) ==
    /\ object \in stored[c]
    /\ stored' = [stored EXCEPT ![c] = @ \ {object}]
    /\ UNCHANGED shown

\* (What is put is there afterwards.)
Next ==
    \E c \in Clusters :
        \/ Make(c)
        \/ \E gvr \in Custom : Learn(c, gvr)
        \/ \E object \in stored'[c] : Put(c, object)
        \/ \E object \in stored[c] : Remove(c, object)

Spec == Init /\ [][Next]_<<shown, stored>>
=============================================================================
