---------------------------- MODULE MCClientInit ----------------------------
(***************************************************************************)
(* Values of ClientInit's constants for TLC.                               *)
(***************************************************************************)
EXTENDS ClientInit

CONSTANTS p1, p2
=============================================================================
