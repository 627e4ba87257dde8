--------------------------- MODULE MCTransactions ---------------------------
(* Transactions for TLC: the binder threads are alike.                     *)
EXTENDS Transactions

Symmetry == Permutations(Thread)
=============================================================================
