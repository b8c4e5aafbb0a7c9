------------------------------ MODULE LoanPlan ------------------------------
(***************************************************************************)
(* The installment plans of a loan (services/loan_amortization.py), in     *)
(* cents, half a cent rounded up.  A rate is in tenths per month.          *)
(***************************************************************************)
EXTENDS Integers, FiniteSetsExt

HalfUp(a, b) == (2 * a + b) \div (2 * b)
InterestOn(balance, rate) == HalfUp(balance * rate, 10)

\* calculate_linear_amortization: the same principal every month.
LinearBalance(principal, rate, n) ==
    [k \in 0 .. n |-> IF k = n THEN 0 ELSE principal - k * HalfUp(principal, n)]

\* calculate_price_amortization: the same amount every month.
Payment(principal, rate, n) ==
    IF rate = 0 THEN HalfUp(principal, n)
    ELSE HalfUp(principal * rate * (10 + rate)^n, 10 * ((10 + rate)^n - 10^n))

\* The last installment takes what the rounding left.
PriceBalance(principal, rate, n) ==
    LET balance[k \in 0 .. n] ==
            IF k = 0 THEN principal
            ELSE IF k = n THEN 0
            ELSE balance[k - 1] - (Payment(principal, rate, n) - InterestOn(balance[k - 1], rate))
    IN  balance

Rows(balance, rate, n) ==
    [k \in 1 .. n |-> [principal |-> balance[k - 1] - balance[k],
                       interest |-> InterestOn(balance[k - 1], rate),
                       amount |-> balance[k - 1] - balance[k] + InterestOn(balance[k - 1], rate)]]

-----------------------------------------------------------------------------

\* Both plans repay the loan, no installment asks a negative principal and the
\* last of a Price plan is within a cent a month of the others, for a principal
\* of some cents for each pair of months.  For less, rounding up asks too much
\* before the last installment, which is then negative.
PlanRepays(principal, rate, n) ==
    LET linear == Rows(LinearBalance(principal, rate, n), rate, n)
        price == Rows(PriceBalance(principal, rate, n), rate, n)
    IN  principal >= n * n =>
            /\ \A plan \in {linear, price} :
                 /\ MapThenSumSet(LAMBDA k : plan[k].principal, 1 .. n) = principal
                 /\ \A k \in 1 .. n : plan[k].principal >= 0 /\ plan[k].amount >= 0
            /\ \A k \in 1 .. n - 1 : linear[k + 1].interest <= linear[k].interest
            /\ price[n].amount - Payment(principal, rate, n) \in -n .. n
=============================================================================
