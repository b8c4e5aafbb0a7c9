----------------------------- MODULE ClosingBook -----------------------------
(***************************************************************************)
(* The books an annual closing reads, while they go on being written.      *)
(*                                                                         *)
(* The closing of a cutoff is calculated once the cutoff has passed, and   *)
(* may be calculated again at any later time: for the review, for the      *)
(* signature, for a verification.  Nothing freezes the rows it reads:      *)
(* payments are settled and reversed, members are blocked or leave, late   *)
(* charges accrue, a loan is restructured or settled with the member's own *)
(* balance.  build_closing_evidence (services/cycle_closing.py) therefore  *)
(* reads stamped rows, and refuses where a row keeps only its last value.  *)
(*                                                                         *)
(* Every operation holds the lock of its member to the end of its          *)
(* transaction and is one step.  One cycle, at most one loan with one      *)
(* installment, one agreement of one part; late charges are a fixed cent   *)
(* and a cent per cent and day.                                            *)
(***************************************************************************)
EXTENDS ClosingCalculation, FiniteSetsExt

CONSTANTS
    Members,        \* numbered in the order of their participation
    Contributions,  \* numbered in the order of their competence
    MemberOf(_),    \* the member of a contribution
    Borrower,       \* the member of the loan
    Price,          \* amount of a contribution
    Principal,      \* of the loan; 0 when there is no loan
    Interest,
    Streak,         \* consecutive overdue contributions that block a member
    Horizon,        \* last day
    Payments        \* bound: settlements of the loan and its agreement

VARIABLES
    clock,      \* today; contributions and the installment are due on day 0
    member,     \* member -> status and the day it was left
    cancelled,  \* contribution -> the day it was cancelled
    receipts,   \* settlements, with the day the provider confirmed them
    charges,    \* late charges of contributions, each a snapshot
    ran,        \* member -> last day the daily job evaluated
    loan,       \* the loan, its installment and its agreement
    first       \* history: the figures when the cutoff had just passed, and
                \* whether a payment of that time was settled later

vars == <<clock, member, cancelled, receipts, charges, ran, loan, first>>

Day == 0..Horizon
Nothing == [refused |-> TRUE, figures |-> <<>>, late |-> FALSE]

Init ==
    /\ clock = 0
    /\ member = [m \in Members |-> [status |-> "ACTIVE", since |-> Never]]
    /\ cancelled = [c \in Contributions |-> Never]
    /\ receipts = {}
    /\ charges = {}
    /\ ran = [m \in Members |-> -1]
    /\ loan = [status |-> IF Principal = 0 THEN "NONE" ELSE "ACTIVE", installment |-> "OPEN",
               paid |-> 0, penalty |-> 0, paidPenalty |-> 0, accrued |-> -1, paidAt |-> Never,
               own |-> 0, ownAt |-> Never, decided |-> Never, base |-> 0, extra |-> 0,
               last |-> 0]
    /\ first = Nothing

-----------------------------------------------------------------------------
(* What the rows say of a contribution.                                     *)

\* A payment is for a contribution, the installment or the agreement's part.
Installment == 0
Part == -1
Of(target) == {r \in receipts : r.target = target}
Standing(target) == {r \in Of(target) : r.reversed = Never}
Applied(rs) == MapThenSumSet(LAMBDA r : r.penalty + r.interest + r.principal, rs)
Paid(c) == Applied(Standing(c))
Mine(m) == {c \in Contributions : MemberOf(c) = m}

\* _payment_history: the payments not reversed by a day; it must add up to
\* what the contribution has now, or the operation that asked fails.
History(c, d) == {r \in Of(c) : r.reversed > d}
HistoryIsKnown(c, d) == Applied(History(c, d)) = Paid(c)

\* calculate_contribution_charges: the fixed penalty if principal was open
\* after the due day, and interest per day on what was open that day.
OpenOn(c, d, x) == Price - Applied({r \in History(c, d) : r.paid <= x})
Charge(c, d) ==
    (IF d > 0 /\ OpenOn(c, d, 0) > 0 THEN 1 ELSE 0)
    + MapThenSumSet(LAMBDA x : OpenOn(c, d, x), 1..d)

Overdue(c, d) == cancelled[c] = Never /\ 0 < d /\ Paid(c) < Price

\* consecutive_overdue: all contributions of an instance are due together
\* and have consecutive competences.
InArrears(m, d) ==
    \E c \in Mine(m) : \A k \in c .. c + Streak - 1 : k \in Mine(m) /\ Overdue(k, d)

-----------------------------------------------------------------------------
(* Contributions and participations.                                        *)

\* The settlements of the loan are numbered as they come.
NextOfLoan == Cardinality(Of(Installment) \cup Of(Part)) + 1

Settled(target, d, penalty, interest, principal) ==
    /\ receipts' = receipts \cup
        {[target |-> target, n |-> IF target > 0 THEN 0 ELSE NextOfLoan, paid |-> d, reversed |-> Never,
          penalty |-> penalty, interest |-> interest, principal |-> principal]}
    /\ first' = [first EXCEPT !.late = @ \/ (clock > Cutoff /\ d <= Cutoff)]

\* A contribution takes one payment; its day is the provider's.
PayContribution(c) ==
    /\ cancelled[c] = Never
    /\ Of(c) = {}
    /\ \E d \in {clock, clock - 1} \cap Day, amount \in 1..Price : Settled(c, d, 0, 0, amount)
    /\ UNCHANGED <<clock, member, cancelled, charges, ran, loan>>

Reverse(r) == receipts' = (receipts \ {r}) \cup {[r EXCEPT !.reversed = clock]}

ReverseContribution(c) ==
    /\ \E r \in Standing(c) : Reverse(r)
    /\ UNCHANGED <<clock, member, cancelled, charges, ran, loan, first>>

Snapshot(c, type, d, amount) ==
    [c |-> c, type |-> type, through |-> d, created |-> clock, amount |-> amount]
SnapshotsOf(c, type) == {x \in charges : x.c = c /\ x.type = type}
Last(xs) == CHOOSE x \in xs : \A y \in xs : y.through <= x.through

\* materialize_active_charges: a snapshot for each overdue contribution whose
\* charge is not the one the last snapshot has.
Accruals(m, d) ==
    {Snapshot(c, "ACCRUAL_SNAPSHOT", d, Charge(c, d)) :
        c \in {k \in Mine(m) :
                 /\ 0 < d /\ cancelled[k] = Never /\ Charge(k, d) > 0
                 /\ LET xs == SnapshotsOf(k, "ACCRUAL_SNAPSHOT")
                    IN  xs # {} => Last(xs).amount # Charge(k, d)}}

\* evaluate_delinquency freezes the charges of what is owed and cancels what
\* is not fully paid, both at the day that is evaluated.
Freezes(m, d) ==
    {Snapshot(c, "BLOCK_FREEZE", d, Charge(c, d)) :
        c \in {k \in Mine(m) : Charge(k, d) > 0 \/ Paid(k) < Price}}
Close(m, status, d) ==
    /\ member' = [member EXCEPT ![m] = [status |-> status, since |-> d]]
    /\ cancelled' = [c \in Contributions |->
                        IF c \in Mine(m) /\ cancelled[c] = Never /\ Paid(c) < Price THEN d ELSE cancelled[c]]

\* The daily job takes the days in order, the same day for all members; a
\* day whose history is not known fails and is tried again.
Daily(m) ==
    LET d == ran[m] + 1
        streak == member[m].status = "ACTIVE" /\ InArrears(m, d)
    IN  /\ d <= clock
        /\ \A n \in Members : ran[m] <= ran[n]
        /\ member[m].status = "ACTIVE" =>
              \A c \in Mine(m) : streak \/ (0 < d /\ cancelled[c] = Never) => HistoryIsKnown(c, d)
        /\ ran' = [ran EXCEPT ![m] = d]
        /\ \/ /\ streak
              /\ Close(m, "BLOCKED_DELINQUENCY", d)
              /\ charges' = charges \cup Accruals(m, d) \cup Freezes(m, d)
           \/ /\ ~streak
              /\ charges' = IF member[m].status = "ACTIVE" THEN charges \cup Accruals(m, d) ELSE charges
              /\ UNCHANGED <<member, cancelled>>
        /\ UNCHANGED <<clock, receipts, loan, first>>

-----------------------------------------------------------------------------
(* The loan.                                                                *)

BaseOpen == Principal + Interest - loan.paid
PenaltyOpen == loan.penalty - loan.paidPenalty

\* voluntary_exit: nothing overdue and no late charge.
Exit(m) ==
    /\ member[m].status = "ACTIVE"
    /\ \A c \in Mine(m) : ~Overdue(c, clock)
    /\ 0 < clock => \A c \in Mine(m) : cancelled[c] = Never => HistoryIsKnown(c, clock) /\ Charge(c, clock) = 0
    /\ m = Borrower => /\ ~(0 < clock /\ BaseOpen + PenaltyOpen > 0)
                       /\ ~(loan.status = "RESTRUCTURED" /\ loan.decided + 1 < clock)
    /\ Close(m, "VOLUNTARILY_EXITED", clock)
    /\ UNCHANGED <<clock, receipts, charges, ran, loan, first>>

\* Penalty first, then interest, then principal.  An agreed installment still
\* takes the payment of an old Pix.
PayInstallment ==
    /\ loan.status \in {"ACTIVE", "RESTRUCTURED"}
    /\ NextOfLoan <= Payments
    /\ loan.installment # "PAID"
    /\ \E d \in {clock, clock - 1} \cap Day, amount \in {1, BaseOpen + PenaltyOpen} :
        LET penalty == Least(amount, PenaltyOpen)
            interest == Least(amount - penalty, Greatest(0, Interest - loan.paid))
            principal == amount - penalty - interest
            full == amount = BaseOpen + PenaltyOpen
        IN  /\ Settled(Installment, d, penalty, interest, principal)
            /\ loan' = [loan EXCEPT !.paid = @ + interest + principal, !.paidPenalty = @ + penalty,
                                    !.installment = IF full THEN "PAID" ELSE "PARTIAL",
                                    !.status = IF full THEN "PAID" ELSE @,
                                    !.paidAt = IF full THEN clock ELSE @,
                                    !.last = NextOfLoan]
    /\ UNCHANGED <<clock, member, cancelled, charges, ran>>

\* Only the settlement that touched the loan last can be taken back.
ReverseInstallment ==
    /\ \E r \in Standing(Installment) :
        /\ r.n = loan.last
        /\ Reverse(r)
        /\ loan' = [loan EXCEPT !.paid = @ - r.interest - r.principal, !.paidPenalty = @ - r.penalty,
                                !.installment = IF loan.decided # Never THEN "AGREED"
                                                ELSE IF @ = "PAID" /\ Standing(Installment) = {r} THEN "OPEN"
                                                ELSE "PARTIAL",
                                !.status = IF loan.decided # Never THEN "RESTRUCTURED" ELSE "ACTIVE",
                                !.paidAt = Never, !.last = 0]
    /\ UNCHANGED <<clock, member, cancelled, charges, ran, first>>

\* calculate_daily_penalty up to today; only a paid installment is spared.
Accrue ==
    /\ loan.status # "NONE"
    /\ loan.installment # "PAID"
    /\ 0 < clock /\ loan.accrued < clock
    /\ loan' = [loan EXCEPT !.penalty = @ + BaseOpen * (clock - Greatest(0, loan.accrued)),
                            !.accrued = clock, !.last = 0]
    /\ UNCHANGED <<clock, member, cancelled, receipts, charges, ran, first>>

\* decide_agreement: the open debt becomes a part due later.
Agree ==
    /\ loan.status = "ACTIVE"
    /\ BaseOpen + PenaltyOpen > 0
    /\ loan' = [loan EXCEPT !.status = "RESTRUCTURED", !.installment = "AGREED", !.decided = clock,
                            !.base = BaseOpen, !.extra = PenaltyOpen, !.last = 0]
    /\ UNCHANGED <<clock, member, cancelled, receipts, charges, ran, first>>

PartOpen == loan.base + loan.extra - Applied(Standing(Part))
PayPart ==
    /\ loan.decided # Never
    /\ PartOpen > 0
    /\ NextOfLoan <= Payments
    /\ \E d \in {clock, clock - 1} \cap Day :
        /\ d >= loan.decided
        /\ LET penalty == Greatest(0, loan.extra - Applied(Standing(Part)))
           IN  Settled(Part, d, penalty, 0, PartOpen - penalty)
    /\ UNCHANGED <<clock, member, cancelled, charges, ran, loan>>

\* settle_loan_with_own_balance: the principal not yet paid, when no penalty
\* is open; the interest is waived.
PrincipalOpen == Principal - MapThenSumSet(LAMBDA r : r.principal, Standing(Installment))
SettleWithOwnBalance ==
    /\ loan.status = "ACTIVE"
    /\ loan.own = 0
    /\ PenaltyOpen = 0
    /\ PrincipalOpen > 0
    /\ loan' = [loan EXCEPT !.status = "PAID", !.installment = "PAID", !.paidAt = clock,
                            !.own = PrincipalOpen, !.ownAt = clock, !.last = 0]
    /\ UNCHANGED <<clock, member, cancelled, receipts, charges, ran, first>>

-----------------------------------------------------------------------------
(* build_closing_evidence.                                                  *)

NetBy(target) ==
    MapThenSumSet(LAMBDA r : r.penalty + r.interest + r.principal,
                  {r \in Of(target) : r.paid <= Cutoff /\ r.reversed > Cutoff})

\* The snapshot written by the cutoff for a day up to it: the one frozen by
\* the block for a blocked member, else the last one accrued.
Selected(c) ==
    LET type == IF IsBlocked(member[MemberOf(c)]) THEN "BLOCK_FREEZE" ELSE "ACCRUAL_SNAPSHOT"
        known == {x \in SnapshotsOf(c, type) : x.through <= Cutoff /\ x.created <= Cutoff}
    IN  IF known = {} THEN {} ELSE {Last(known)}

CancelledBy(c) == cancelled[c] <= Cutoff

Obligation(source, m, kind, amount, due, loanId) ==
    IF amount = 0 THEN {}
    ELSE {[source |-> source, member |-> m, kind |-> kind, amount |-> amount, due |-> due, loan |-> loanId]}

ContributionObligations(c) ==
    (IF CancelledBy(c) THEN {}
     ELSE Obligation(<<"principal", c>>, MemberOf(c), "CONTRIBUTION_PRINCIPAL", Price - NetBy(c), 0, 0))
    \cup UNION {Obligation(<<"charge", c>>, MemberOf(c), "CONTRIBUTION_CHARGE", x.amount, x.through, 0) :
                  x \in Selected(c)}

Applies == loan.decided <= Cutoff
SettledByOwn == loan.own > 0 /\ loan.ownAt <= Cutoff

\* The agreement must still be the old debt: nothing paid or accrued on the
\* installment it replaced.
AgreementIsSound ==
    /\ loan.status = "RESTRUCTURED"
    /\ loan.installment = "AGREED"
    /\ BaseOpen + PenaltyOpen = loan.base + loan.extra

OwnBalanceIsSound ==
    /\ loan.status = "PAID" /\ loan.installment = "PAID"
    /\ loan.paidAt <= Cutoff
    /\ loan.own + MapThenSumSet(LAMBDA r : r.principal,
                                {r \in Of(Installment) : r.paid <= loan.paidAt /\ r.reversed > loan.paidAt}) = Principal

\* Mutant: the penalty of today is taken for the penalty of the cutoff.
PenaltyIsDated_Trusted == TRUE

\* The penalty is one number: it is the cutoff's only if it last grew before.
PenaltyIsDated == loan.penalty > 0 => loan.accrued < Cutoff

CountsInstallment == loan.status # "NONE" /\ ~Applies /\ ~SettledByOwn
InstallmentOpen == Principal + Interest + loan.penalty - NetBy(Installment)

BuildRefusals ==
    {g \in {"BLOCK_FREEZE_MISSING", "AGREEMENT", "OWN_BALANCE", "PENALTY", "NEGATIVE", "PART"} :
        \/ /\ g = "BLOCK_FREEZE_MISSING"
           /\ \E c \in Contributions : /\ IsBlocked(member[MemberOf(c)]) /\ CancelledBy(c)
                                       /\ Selected(c) = {} /\ NetBy(c) < Price
        \/ g = "AGREEMENT" /\ Applies /\ ~AgreementIsSound
        \/ g = "OWN_BALANCE" /\ SettledByOwn /\ ~OwnBalanceIsSound
        \/ g = "PENALTY" /\ CountsInstallment /\ ~PenaltyIsDated
        \/ g = "NEGATIVE" /\ CountsInstallment /\ InstallmentOpen < 0
        \/ g = "PART" /\ Applies /\ loan.decided + 1 <= Cutoff /\ loan.base + loan.extra < NetBy(Part)}

\* An original and its reversal are two gains; principal is none.
GainsOf(r) ==
    {[source |-> <<r.target, r.n, k, s>>, kind |-> k, ours |-> TRUE,
      day |-> IF s = "ORIGINAL" THEN r.paid ELSE r.reversed,
      amount |-> (IF s = "ORIGINAL" THEN 1 ELSE -1) * (IF k = "INTEREST" THEN r.interest ELSE r.penalty)] :
        k \in ResultKinds, s \in {"ORIGINAL", "REVERSAL"}}

Evidence ==
    [members |-> member,
     contributions |-> {[id |-> c, member |-> MemberOf(c), amount |-> Price, cancelled |-> cancelled[c],
                         status |-> IF Paid(c) = Price THEN "PAID" ELSE "OPEN",
                         receipts |-> {[n |-> r.n, amount |-> r.principal, paid |-> r.paid, reversed |-> r.reversed] :
                                         r \in Of(c)}] : c \in Contributions},
     gains |-> UNION {GainsOf(r) : r \in receipts},
     obligations |->
        (UNION {ContributionObligations(c) : c \in Contributions})
        \cup (IF CountsInstallment
              THEN Obligation(<<"installment">>, Borrower, "LOAN_INSTALLMENT", InstallmentOpen, 0, 1) ELSE {})
        \cup (IF Applies /\ loan.decided + 1 <= Cutoff
              THEN Obligation(<<"part">>, Borrower, "AGREEMENT_INSTALLMENT",
                              loan.base + loan.extra - NetBy(Part), loan.decided + 1, 1) ELSE {}),
     superseded |-> IF Applies THEN {1} ELSE {}]

Refused == BuildRefusals # {} \/ Refusals(Evidence) # {}
Calculated == [refused |-> Refused, figures |-> IF Refused THEN <<>> ELSE Figures(Evidence)]

Tick ==
    /\ clock < Horizon
    /\ clock' = clock + 1
    /\ first' = IF clock = Cutoff
                THEN [refused |-> Calculated.refused, figures |-> Calculated.figures, late |-> FALSE]
                ELSE first
    /\ UNCHANGED <<member, cancelled, receipts, charges, ran, loan>>

Next ==
    \/ \E c \in Contributions : PayContribution(c) \/ ReverseContribution(c)
    \/ \E m \in Members : Daily(m) \/ Exit(m)
    \/ PayInstallment \/ ReverseInstallment \/ Accrue \/ Agree \/ PayPart \/ SettleWithOwnBalance
    \/ Tick

Spec == Init /\ [][Next]_vars

-----------------------------------------------------------------------------
\* Once the cutoff has passed the figures of that cutoff are settled: however
\* payments are reversed, members blocked, debts restructured or charged
\* later, calculating again gives the same figures or is refused.  Only a
\* payment the provider dates before the cutoff and confirms later may
\* change them.
FiguresAreStable ==
    clock > Cutoff /\ ~first.refused /\ ~first.late
        => Refused \/ Figures(Evidence) = first.figures

\* What is distributed is what was earned: fee and shares make up the gross
\* result, nobody is paid and owing at once, and what a payout compensates
\* plus what remains due is what was owed.
FiguresBalance ==
    clock > Cutoff /\ ~Refused =>
        LET f == Figures(Evidence)
        IN  /\ f.gross = f.fee + MapThenSumSet(LAMBDA m : f.lines[m].share, Members)
            /\ \A m \in Members :
                LET l == f.lines[m]
                IN  /\ l.net + l.compensation = l.refund + l.share
                    /\ l.compensation + l.debt = l.owed
                    /\ l.net = 0 \/ l.debt = 0
=============================================================================
