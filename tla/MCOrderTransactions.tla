------------------------ MODULE MCOrderTransactions ------------------------
(* Model-checking instance of OrderTransactions. *)
EXTENDS OrderTransactions, TLC

Symmetry == Permutations(Requests)
=============================================================================
