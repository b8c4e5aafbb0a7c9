-------------------------- MODULE MCAnnualClosing --------------------------
(* AnnualClosing for TLC: requests are interchangeable.                     *)
EXTENDS AnnualClosing, TLC

Symmetry == Permutations(Requests)
=============================================================================
