------------------------- MODULE ClosingCalculation -------------------------
(***************************************************************************)
(* The calculation of an annual closing (calculate_cycle_closing of        *)
(* services/cycle_closing.py): what each member of a cycle is due at a     *)
(* cutoff, from evidence that is dated but was written at any time.        *)
(*                                                                         *)
(* Amounts are cents.  A moment is the day it falls on; the cutoff is the  *)
(* end of its day and the cycle starts with the first day.  A calculation  *)
(* that raises ClosingContractGap has a nonempty set of refusals.          *)
(***************************************************************************)
EXTENDS Integers, FiniteSets, Functions

CONSTANTS
    Cutoff,     \* day of the closing cutoff
    Never       \* a day after all others: the stamp that was not set

-----------------------------------------------------------------------------
(* Participations and contributions.                                        *)

\* _effective_status: a participation closed after the cutoff is active.
EffectiveStatus(p) == IF p.since <= Cutoff THEN p.status ELSE "ACTIVE"
IsBlocked(p) == EffectiveStatus(p) = "BLOCKED_DELINQUENCY"

Least(a, b) == IF a <= b THEN a ELSE b
Greatest(a, b) == IF a >= b THEN a ELSE b

\* Money of a contribution counts up to the end of the participation or the
\* cancellation, whichever comes first.
Limit(p, c) == Least(Least(p.since, c.cancelled), Cutoff)

\* The settlements of a contribution that count.
Included(p, c) == {s \in c.receipts : s.paid <= Limit(p, c)}

\* A reversal counts if its settlement does.
Net(p, c) == SumFunction([s \in Included(p, c) |-> IF s.reversed <= Cutoff THEN 0 ELSE s.amount])

FullyPaid(p, c) == c.amount > 0 /\ Net(p, c) = c.amount
RateioBase(p, c) == IF FullyPaid(p, c) /\ ~IsBlocked(p) THEN c.amount ELSE 0
Refundable(p, c) == IF IsBlocked(p) THEN Net(p, c) ELSE IF FullyPaid(p, c) THEN c.amount ELSE 0

\* A fully paid contribution whose row does not say so must have lost the
\* money to a reversal after the cutoff.
StatusAgrees(p, c) ==
    FullyPaid(p, c) /\ ~IsBlocked(p) /\ c.status # "PAID"
        => \E s \in Included(p, c) : s.reversed \in Cutoff + 1 .. Never - 1

\* A reversal stamped before its settlement has no settlement to belong to.
ReversalsHaveSource(p, c) == \A s \in c.receipts : s.reversed <= Cutoff => s.paid <= s.reversed

ContributionRefusals(p, c) ==
    {g \in {"MISMATCH", "STATUS", "AMBIGUOUS"} :
        \/ g = "MISMATCH" /\ Net(p, c) > c.amount
        \/ g = "STATUS" /\ ~StatusAgrees(p, c)
        \/ g = "AMBIGUOUS" /\ ~ReversalsHaveSource(p, c)}

-----------------------------------------------------------------------------
(* The realized result and its distribution.                                *)

ResultKinds == {"INTEREST", "PENALTY"}

\* Interest and penalties received for this cycle from its start up to the
\* cutoff; a reversal is a gain of the opposite sign.
Gross(gains) ==
    SumFunction([g \in {x \in gains : x.kind \in ResultKinds /\ x.ours /\ x.day \in 0 .. Cutoff} |-> g.amount])

\* 15 %, rounded half up to the cent.
Fee(gross) == (gross * 15 + 50) \div 100

\* _allocation_cents: largest remainder, ties in the order of participation.
Total(base) == SumFunction(base)
Floor(total, base, m) == (total * base[m]) \div Total(base)
Remainder(total, base, m) == (total * base[m]) % Total(base)
Before(total, base, m) ==
    {n \in DOMAIN base : \/ Remainder(total, base, n) > Remainder(total, base, m)
                         \/ Remainder(total, base, n) = Remainder(total, base, m) /\ n < m}
Residual(total, base) == total - SumFunction([m \in DOMAIN base |-> Floor(total, base, m)])

Share(total, base, m) ==
    IF Total(base) = 0 THEN 0
    ELSE Floor(total, base, m)
         + (IF Cardinality(Before(total, base, m)) < Residual(total, base) THEN 1 ELSE 0)

\* The shares are the total, to the cent; who has no base gets nothing, who has
\* more never gets less, and no one is a cent away from the exact proportion.
ShareIsFair(total, base) ==
    /\ Total(base) > 0 => SumFunction([m \in DOMAIN base |-> Share(total, base, m)]) = total
    /\ \A m \in DOMAIN base :
         /\ base[m] = 0 => Share(total, base, m) = 0
         /\ Total(base) * Share(total, base, m) - total * base[m] \in 1 - Total(base) .. Total(base) - 1
            \/ Total(base) = 0
         /\ \A n \in DOMAIN base : base[m] > base[n] => Share(total, base, m) >= Share(total, base, n)

-----------------------------------------------------------------------------
(* Obligations.                                                             *)

\* The open obligations due by the cutoff that a payout compensates: not the
\* installments an agreement replaced, nor the principal a block cancelled.
Compensable(e, m) ==
    {o \in e.obligations : /\ o.member = m
                           /\ o.due <= Cutoff
                           /\ ~(o.kind = "LOAN_INSTALLMENT" /\ o.loan \in e.superseded)
                           /\ ~(o.kind = "CONTRIBUTION_PRINCIPAL" /\ IsBlocked(e.members[m]))}
Owed(e, m) == SumFunction([o \in Compensable(e, m) |-> o.amount])

-----------------------------------------------------------------------------
(* The calculation over the evidence of a cycle.                            *)

ContributionsOf(e, m) == {c \in e.contributions : c.member = m}
SumOf(e, Amount(_, _), m) ==
    SumFunction([c \in ContributionsOf(e, m) |-> Amount(e.members[m], c)])

Bases(e) == [m \in {n \in DOMAIN e.members : ~IsBlocked(e.members[n])} |-> SumOf(e, RateioBase, m)]
Distributable(e) == Gross(e.gains) - Fee(Gross(e.gains))

Refusals(e) ==
    (UNION {ContributionRefusals(e.members[c.member], c) : c \in e.contributions})
    \cup (IF Gross(e.gains) < 0 THEN {"NEGATIVE_RESULT"} ELSE {})
    \cup (IF Distributable(e) > 0 /\ Total(Bases(e)) = 0 THEN {"NO_ELIGIBLE_BASE"} ELSE {})

Line(e, m) ==
    LET p == e.members[m]
        refund == SumOf(e, Refundable, m)
        share == IF IsBlocked(p) THEN 0 ELSE Share(Distributable(e), Bases(e), m)
        owed == Owed(e, m)
    IN  [status |-> EffectiveStatus(p), refund |-> refund, share |-> share, owed |-> owed,
         compensation |-> Least(refund + share, owed),
         net |-> refund + share - Least(refund + share, owed),
         debt |-> Greatest(0, owed - refund - share)]

Figures(e) ==
    [gross |-> Gross(e.gains), fee |-> Fee(Gross(e.gains)),
     lines |-> [m \in DOMAIN e.members |-> Line(e, m)]]
=============================================================================
