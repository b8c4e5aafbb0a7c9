-------------------------- MODULE MCPixSettlement --------------------------
(* PixSettlement for TLC: requests are interchangeable.  Contributions are  *)
(* not, because their numbers meet the numbers of ledger rows.              *)
EXTENDS PixSettlement, TLC

Symmetry == Permutations(Handlers)
=============================================================================
