------------------------- MODULE MCFakeTableLookup -------------------------
(***************************************************************************)
(* FakeTableLookup for TLC, with the tables there are.                     *)
(***************************************************************************)
EXTENDS FakeTableLookup, FakeTables
=============================================================================
