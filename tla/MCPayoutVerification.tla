------------------------ MODULE MCPayoutVerification ------------------------
(* PayoutVerification for TLC: members, keys, attempts and the workers that *)
(* serve the requests are interchangeable.                                  *)
EXTENDS PayoutVerification, TLC

Symmetry ==
    Permutations(Members) \cup Permutations(Workers) \cup Permutations(Keys) \cup Permutations(Attempts)
=============================================================================
