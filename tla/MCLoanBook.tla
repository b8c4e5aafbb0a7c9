----------------------------- MODULE MCLoanBook -----------------------------
(* LoanBook for TLC: two members, and two loans, the odd one of the first.  *)
EXTENDS LoanBook

OddIsFirst(l) == IF l = 1 THEN 1 ELSE 2
OneUnit(l)    == 1
=============================================================================
