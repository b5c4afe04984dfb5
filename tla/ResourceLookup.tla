--------------------------- MODULE ResourceLookup ---------------------------
(***************************************************************************)
(* Looking a kind up in a sequence of resource lists, as a fake cluster    *)
(* does (findGvr in fake/cluster.go) and as a client does on the discovery *)
(* of a fake cluster (APIResource in client/client.go). A list is a group  *)
(* version with a sequence of kinds. Both compare without regard to case   *)
(* and take the plural name for the kind, which the kind determines; these *)
(* resources have no short names, and all have verbs.                      *)
(***************************************************************************)
EXTENDS Naturals, Sequences

AnyVersion == <<>>                        \* the empty apiVersion
NotFound   == [gv |-> <<>>, kind |-> ""]  \* no resource

\* The resources in some lists.
Gvrs(lists) ==
    UNION {{[gv |-> lists[i].gv, kind |-> lists[i].kinds[j]] : j \in DOMAIN lists[i].kinds} :
              i \in DOMAIN lists}

\* Each group version has one list, and each kind one place in a list.
OneListEach(lists) ==
    \A i, j \in DOMAIN lists : lists[i].gv = lists[j].gv => i = j

OnePlaceEach(lists) ==
    \A i \in DOMAIN lists : \A j, k \in DOMAIN lists[i].kinds :
        lists[i].kinds[j] = lists[i].kinds[k] => j = k

Stable(gv) == gv[2] \in {"v1", "v2"}

\* The list of a stable version comes before a list of a version of its group that
\* is not stable, if the two have a kind in common.
StableFirst(lists) ==
    \A i, j \in DOMAIN lists :
        /\ lists[i].gv[1] = lists[j].gv[1]
        /\ Stable(lists[j].gv) /\ ~Stable(lists[i].gv)
        /\ \E k \in DOMAIN lists[i].kinds, l \in DOMAIN lists[j].kinds :
             lists[i].kinds[k] = lists[j].kinds[l]
        => j < i

\* Where the kind is: the number of the list, and its place in the list.
Places(lists, kind) ==
    {a \in UNION {{i} \X DOMAIN lists[i].kinds : i \in DOMAIN lists} :
        lists[a[1]].kinds[a[2]] = kind}

Before(a, b) == a[1] < b[1] \/ (a[1] = b[1] /\ a[2] <= b[2])

\* The first of those places that are in lists with the number in within.
First(lists, kind, within) ==
    LET places == {a \in Places(lists, kind) : a[1] \in within}
    IN IF places = {} THEN NotFound
       ELSE LET a == CHOOSE a \in places : \A b \in places : Before(a, b)
            IN [gv |-> lists[a[1]].gv, kind |-> kind]

\* Mutant of FindGvr: the apiVersion is not looked at.
FindGvrAnywhere(lists, apiVersion, kind) == First(lists, kind, DOMAIN lists)

\* findGvr passes over the lists of other group versions.
FindGvr(lists, apiVersion, kind) ==
    First(lists, kind, {i \in DOMAIN lists : apiVersion = AnyVersion \/ lists[i].gv = apiVersion})

\* The fake discovery answers with all lists, or with the first one that has the
\* group version; the client looks the kind up in that answer.
ClientGvr(lists, apiVersion, kind) ==
    First(lists, kind,
          IF apiVersion = AnyVersion THEN DOMAIN lists
          ELSE {i \in DOMAIN lists : /\ lists[i].gv = apiVersion
                                     /\ \A h \in 1..(i - 1) : lists[h].gv # apiVersion})
=============================================================================
