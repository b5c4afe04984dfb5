---------------------------- MODULE MCDiscovery ----------------------------
(***************************************************************************)
(* Values of Discovery's constants for TLC.                                *)
(***************************************************************************)
EXTENDS Discovery, TLC

CONSTANTS p1, p2, p3, g1, g2, k1, k2

Sym == Permutations(Procs)

\* The group versions are versions of one group, which prefers g1.
OneGroup == [gv \in GVs |-> "group"]
G1First  == [gv \in GVs |-> IF gv = g1 THEN 0 ELSE 1]

Resource(v, k) == [op |-> "resource", v |-> v, kind |-> k]
List(v)        == [op |-> "list", v |-> v, kind |-> k1]
Direct(v)      == [op |-> "direct", v |-> v, kind |-> k1]
Flush          == [op |-> "invalidate", v |-> AllGVs, kind |-> k1]

\* Lookups that retry next to lists that retry on their own.
CallsOneGV == {Resource(g1, k1), List(g1)}

\* The paths that meet in the sf flights of a group version.
CallsMixed == {Resource(AllGVs, k1), Resource(g1, k1), Direct(AllGVs)}

\* Lookups that lead and join at both levels, and invalidate.
CallsRetry == {Resource(g1, k1), Resource(AllGVs, k1), Flush}
=============================================================================
