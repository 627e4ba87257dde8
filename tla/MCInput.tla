------------------------------ MODULE MCInput ------------------------------
(* The InputDispatcher on small instances. *)
EXTENDS InputDispatcher

Symmetry == Permutations(Window)
=============================================================================
