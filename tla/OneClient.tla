----------------------------- MODULE OneClient -----------------------------
(***************************************************************************)
(* What client/client.go promises of a Client to the goroutines that share *)
(* it: while it is open, all that it is made of was made from one config;  *)
(* it keeps that config, however often it is opened again, until the       *)
(* caller hands in another; and the discovery calls of all goroutines go   *)
(* to one config, the one it was open for when the first call came. So     *)
(* they go to the config of its parts as long as nobody hands in another.  *)
(* ClientInit implements this when no goroutine calls before Init has      *)
(* succeeded.                                                              *)
(***************************************************************************)
CONSTANTS
    Procs,    \* the goroutines that share the client
    Configs,  \* what a client may be made from
    Nobody    \* no config

VARIABLES
    kept,    \* the config that the next Open takes, if there is one
    parts,   \* the configs its parts were made from; none when it is closed
    bound,   \* the config that calls go to, from the first call on
    reached  \* reached[p]: the config that the last call of p went to

Init ==
    /\ kept = Nobody
    /\ parts = {}
    /\ bound = Nobody
    /\ reached = [p \in Procs |-> Nobody]

Hand(c) ==
    /\ kept' = c
    /\ UNCHANGED <<parts, bound, reached>>

Open(c) ==
    /\ parts = {}
    /\ kept \in {Nobody, c}
    /\ kept' = c
    /\ parts' = {c}
    /\ UNCHANGED <<bound, reached>>

Close ==
    /\ parts # {}
    /\ parts' = {}
    /\ UNCHANGED <<kept, bound, reached>>

Bind ==
    /\ bound = Nobody
    /\ bound' \in parts
    /\ UNCHANGED <<kept, parts, reached>>

Call(p) ==
    /\ parts # {} /\ bound # Nobody
    /\ reached' = [reached EXCEPT ![p] = bound]
    /\ UNCHANGED <<kept, parts, bound>>

Next ==
    \/ \E c \in Configs \cup {Nobody} : Hand(c)
    \/ \E c \in Configs : Open(c)
    \/ Close
    \/ Bind
    \/ \E p \in Procs : Call(p)

Spec == Init /\ [][Next]_<<kept, parts, bound, reached>>
=============================================================================
