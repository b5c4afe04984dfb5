------------------------------ MODULE Flights ------------------------------
(***************************************************************************)
(* What a singleflight group promises its callers (the two groups of       *)
(* client/client.go, discoverySF and sfCachedDiscovery.sf, each from       *)
(* golang.org/x/sync): for one key one function runs at a time; who calls  *)
(* while it runs waits for it; its result is handed, in one step, to the   *)
(* caller that runs it and to everybody who waits, and to nobody else.     *)
(* Discovery implements this twice.                                        *)
(***************************************************************************)
CONSTANTS
    Callers,  \* each makes one call at a time
    Keys,
    Results,
    Nobody,   \* nobody's function runs
    Nothing   \* no result

VARIABLES
    leader,   \* leader[k]: the caller whose function runs for k
    waiting,  \* waiting[k]: the callers who wait for it to end
    handed    \* handed[c]: the result that c has got and not yet used

flights == <<leader, waiting, handed>>

Idle(c) == /\ handed[c] = Nothing
           /\ \A k \in Keys : leader[k] # c /\ c \notin waiting[k]

Init ==
    /\ leader = [k \in Keys |-> Nobody]
    /\ waiting = [k \in Keys |-> {}]
    /\ handed = [c \in Callers |-> Nothing]

Begin(c, k) ==
    /\ leader[k] = Nobody
    /\ leader' = [leader EXCEPT ![k] = c]
    /\ Idle(c)
    /\ UNCHANGED <<waiting, handed>>

Join(c, k) ==
    /\ leader[k] # Nobody
    /\ waiting' = [waiting EXCEPT ![k] = @ \cup {c}]
    /\ Idle(c)
    /\ UNCHANGED <<leader, handed>>

End(k) ==
    /\ leader[k] # Nobody
    /\ leader' = [leader EXCEPT ![k] = Nobody]
    /\ waiting' = [waiting EXCEPT ![k] = {}]
    /\ \E r \in Results :
         handed' = [c \in Callers |->
                       IF c = leader[k] \/ c \in waiting[k] THEN r ELSE handed[c]]

Served == {c \in Callers : handed[c] # Nothing}

\* Some callers, perhaps several at once, go on with what they have got.
Use(cs) ==
    /\ cs \subseteq Served
    /\ handed' = [c \in Callers |-> IF c \in cs THEN Nothing ELSE handed[c]]
    /\ UNCHANGED <<leader, waiting>>

Next ==
    \/ \E c \in Callers, k \in Keys : Begin(c, k) \/ Join(c, k)
    \/ \E k \in Keys : End(k)
    \/ \E cs \in SUBSET Served : Use(cs)

Spec == Init /\ [][Next]_flights
=============================================================================
