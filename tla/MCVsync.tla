------------------------------ MODULE MCVsync ------------------------------
(***************************************************************************)
(* Vsync for TLC.                                                          *)
(***************************************************************************)
EXTENDS Vsync, TLC

Symmetry == Permutations(Connection)
=============================================================================
