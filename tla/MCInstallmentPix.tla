------------------------- MODULE MCInstallmentPix -------------------------
(* InstallmentPix for TLC: requests are interchangeable.                   *)
EXTENDS InstallmentPix, TLC

Symmetry == Permutations(Requests)
===========================================================================
