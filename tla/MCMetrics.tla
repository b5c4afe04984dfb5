----------------------------- MODULE MCMetrics -----------------------------
(***************************************************************************)
(* Values of Metrics' constants for TLC.                                   *)
(***************************************************************************)
EXTENDS Metrics, TLC

CONSTANTS c1, c2, c3, s1, s2

\* All setups, those in which Inits panic among them.
AnySetups == [Clients -> Setup]

\* Clients that have nothing in common.
DistinctSetups ==
    {s \in [Clients -> Setup] : \A c, d \in Clients :
        c # d => s[c].prefix # s[d].prefix /\ s[c].storage # s[d].storage
                 /\ s[c].labels = {}}

\* Clients, and storages, are interchangeable in AnySetups.
Sym == Permutations(Clients) \cup Permutations(Storages)
=============================================================================
