------------------------------- MODULE LoanBook -------------------------------
(***************************************************************************)
(* The life of a loan before and after its Pix: simulation, request,       *)
(* decision and release (api/loans.py), the risk and approval services     *)
(* they call, and the financial position of the member that each step      *)
(* reads or moves (member_financial.py).                                   *)
(*                                                                         *)
(* Administrators work at once.  evaluate_loan_pipeline stores the risk    *)
(* assessment it makes and commits, in the middle of the decision and of   *)
(* the release that called it: what they had changed is stored, and the    *)
(* row locks they held are dropped.                                        *)
(*                                                                         *)
(* A loan is repaid in one payment of its principal.  Amounts are units.   *)
(***************************************************************************)
EXTENDS Integers, FiniteSets, Functions

CONSTANTS Members,
          Loans,         \* simulations, each for one loan
          Borrower(_),   \* the member of each
          Principal(_),  \* and its amount
          Opening,       \* cash in the books at the start
          Quota,         \* amount of a contribution, one per member
          NormalLimit,   \* multiple of the quota a member may borrow
          MinCash,       \* cash that a release must leave
          MaxExposure,   \* lent to all members at once
          Simultaneous,  \* loans of one member at once
          Admins

VARIABLES simulation,    \* status of each LoanSimulation
          loan,          \* the Loan rows
          contributed,   \* whether the contribution of each member counts
          position,      \* own and committed balance of each member
          cash,          \* balance of the ledger
          admin          \* what each administrator's request is doing

vars == <<simulation, loan, contributed, position, cash, admin>>

NoLoan == [status |-> "none", scheduled |-> FALSE, disbursed |-> FALSE, repaid |-> FALSE]
Idle   == [pc |-> "idle", loan |-> 0]

Init ==
    /\ simulation = [l \in Loans |-> "none"]
    /\ loan = [l \in Loans |-> NoLoan]
    /\ contributed = [m \in Members |-> FALSE]
    /\ position = [m \in Members |-> [own |-> 0, committed |-> 0]]
    /\ cash = Opening
    /\ admin = [a \in Admins |-> Idle]

-----------------------------------------------------------------------------
(* The member's money.                                                      *)

Greatest(x, y) == IF x >= y THEN x ELSE y
Moved(m, own, committed) ==
    position' = [position EXCEPT ![m] = [own |-> own, committed |-> committed]]
Of(m) == position[m]
Available(m) == Greatest(0, Of(m).own - Of(m).committed)

Contribute ==
    \E m \in Members :
        /\ ~contributed[m]
        /\ contributed' = [contributed EXCEPT ![m] = TRUE]
        /\ Moved(m, Of(m).own + Quota, Of(m).committed)
        /\ cash' = cash + Quota
        /\ UNCHANGED <<simulation, loan, admin>>

\* The reversal of a contribution also lowers what the member has committed.
ReverseContribution ==
    \E m \in Members :
        /\ contributed[m] /\ Of(m).own >= Quota
        /\ contributed' = [contributed EXCEPT ![m] = FALSE]
        /\ Moved(m, Greatest(0, Of(m).own - Quota), Greatest(0, Of(m).committed - Quota))
        /\ cash' = cash - Quota
        /\ UNCHANGED <<simulation, loan, admin>>

-----------------------------------------------------------------------------
(* Simulation and request.                                                  *)

Simulate ==
    \E l \in Loans :
        /\ simulation[l] = "none"
        /\ simulation' = [simulation EXCEPT ![l] = "SIMULATED"]
        /\ UNCHANGED <<loan, contributed, position, cash, admin>>

Confirm ==
    \E l \in Loans :
        /\ simulation[l] = "SIMULATED"
        /\ simulation' = [simulation EXCEPT ![l] = "CONFIRMED"]
        /\ UNCHANGED <<loan, contributed, position, cash, admin>>

\* It expires whatever its status, and cannot be confirmed or used any more.
Expire ==
    \E l \in Loans :
        /\ simulation[l] \in {"SIMULATED", "CONFIRMED"}
        /\ simulation' = [simulation EXCEPT ![l] = "EXPIRED"]
        /\ UNCHANGED <<loan, contributed, position, cash, admin>>

With(statuses) == {l \in Loans : loan[l].status \in statuses}
TotalOf(loans) == SumFunction([l \in loans |-> Principal(l)])
OfMember(m) == {l \in Loans : Borrower(l) = m}

\* The decision of evaluate_loan_eligibility.
Eligibility(m, outstanding, amount) ==
    IF cash < amount THEN "NEGADO"
    ELSE IF outstanding > 0
         THEN IF Available(m) >= outstanding THEN "QUITACAO_COM_SALDO_PROPRIO"
              ELSE IF Available(m) > 0 THEN "RENEGOCIACAO" ELSE "NEGADO"
    ELSE IF amount > NormalLimit THEN "CREDITO_ESPECIAL" ELSE "NOVO_EMPRESTIMO"

Outstanding(m, l) == TotalOf((With({"ACTIVE"}) \cap OfMember(m)) \ {l})

\* Every decision but the refusal is accepted.
Request ==
    \E l \in Loans :
        LET m == Borrower(l)
        IN  /\ simulation[l] = "CONFIRMED"
            /\ Eligibility(m, Outstanding(m, l), Principal(l)) # "NEGADO"
            /\ simulation' = [simulation EXCEPT ![l] = "CONSUMED"]
            /\ loan' = [loan EXCEPT ![l].status = "REQUESTED"]
            /\ UNCHANGED <<contributed, position, cash, admin>>

-----------------------------------------------------------------------------
(* Decision.                                                                *)

At(a, pc, l) == admin' = [admin EXCEPT ![a] = [pc |-> pc, loan |-> l]]

Reject(a) ==
    \E l \in With({"REQUESTED"}) :
        /\ admin[a] = Idle
        /\ loan' = [loan EXCEPT ![l].status = "REJECTED"]
        /\ UNCHANGED <<simulation, contributed, position, cash, admin>>

\* The status is set first, and committed with the risk assessment.
Approve(a) ==
    \E l \in With({"REQUESTED"}) :
        /\ admin[a] = Idle
        /\ loan' = [loan EXCEPT ![l].status = "APPROVED"]
        /\ At(a, "approving", l)
        /\ UNCHANGED <<simulation, contributed, position, cash>>

\* The count of simultaneous loans is a rule of the credit policy.
PolicyPasses(l) ==
    Cardinality((With({"ACTIVE", "APPROVED"}) \cap OfMember(Borrower(l))) \ {l}) < Simultaneous

\* An exception is accepted for any verdict; the score of the risk
\* assessment and the other rules may pass or not.
Schedule(a) ==
    LET l == admin[a].loan
    IN  /\ admin[a].pc = "approving"
        /\ loan' = [loan EXCEPT ![l].scheduled = TRUE]
        /\ At(a, "idle", 0)
        /\ UNCHANGED <<simulation, contributed, position, cash>>

\* The verdict is to block or to review, or the request does not live to see it.
Refuse(a) ==
    /\ admin[a].pc = "approving"
    /\ At(a, "idle", 0)
    /\ UNCHANGED <<simulation, loan, contributed, position, cash>>

-----------------------------------------------------------------------------
(* Release.                                                                 *)

\* Exposure counts the principal of active loans, and the loan once more.
RiskPasses(l) ==
    /\ cash - Principal(l) >= MinCash
    /\ TotalOf(With({"ACTIVE"})) + Principal(l) <= MaxExposure

\* The group row is locked, and unlocked by the commit of the assessment.
Release(a) ==
    \E l \in Loans :
        /\ admin[a] = Idle /\ loan[l].status # "none" /\ RiskPasses(l)
        /\ At(a, "releasing", l)
        /\ UNCHANGED <<simulation, loan, contributed, position, cash>>

\* The rest of the pipeline evaluates the limits again, without the lock.
Evaluate(a) ==
    LET l == admin[a].loan
    IN  /\ admin[a].pc = "releasing"
        /\ IF PolicyPasses(l) /\ RiskPasses(l) THEN At(a, "disbursing", l) ELSE At(a, "idle", 0)
        /\ UNCHANGED <<simulation, loan, contributed, position, cash>>

\* Mutant: the status of the loan is not read again under its lock.
Fresh_Stale(l) == loan[l].status \in {"APPROVED", "ACTIVE"}

\* do_release for the first time, under the locks on the member and the loan.
Fresh(l) == ~loan[l].disbursed /\ loan[l].status = "APPROVED"

Disburse(a) ==
    LET l == admin[a].loan
        m == Borrower(l)
    IN  /\ admin[a].pc = "disbursing" /\ Fresh(l)
        /\ loan' = [loan EXCEPT ![l].status = "ACTIVE", ![l].disbursed = TRUE]
        /\ cash' = cash - Principal(l)
        /\ Moved(m, Of(m).own, Of(m).committed + Principal(l))
        /\ At(a, "idle", 0)
        /\ UNCHANGED <<simulation, contributed>>

NotReleasable(a) ==
    LET l == admin[a].loan
    IN  /\ admin[a].pc = "disbursing" /\ ~loan[l].disbursed /\ loan[l].status # "APPROVED"
        /\ At(a, "idle", 0)
        /\ UNCHANGED <<simulation, loan, contributed, position, cash>>

\* A loan that was disbursed becomes active again, whatever it was.
Redo(a) ==
    LET l == admin[a].loan
    IN  /\ admin[a].pc = "disbursing" /\ loan[l].disbursed
        /\ loan' = [loan EXCEPT ![l].status = "ACTIVE"]
        /\ At(a, "idle", 0)
        /\ UNCHANGED <<simulation, contributed, position, cash>>

-----------------------------------------------------------------------------
(* Payment of the principal and its reversal.  The loan needs a schedule;   *)
(* nothing asks whether it was released.                                    *)

Repay ==
    \E l \in Loans :
        LET m == Borrower(l)
        IN  /\ loan[l].scheduled /\ ~loan[l].repaid
            /\ loan' = [loan EXCEPT ![l].repaid = TRUE, ![l].status = "PAID"]
            /\ Moved(m, Of(m).own + Principal(l), Greatest(0, Of(m).committed - Principal(l)))
            /\ cash' = cash + Principal(l)
            /\ UNCHANGED <<simulation, contributed, admin>>

\* The loan must be as the settlement left it, and the member have the money.
ReverseRepayment ==
    \E l \in Loans :
        LET m == Borrower(l)
            before == IF loan[l].disbursed THEN "ACTIVE" ELSE "APPROVED"
        IN  /\ loan[l].repaid /\ loan[l].status = "PAID" /\ Of(m).own >= Principal(l)
            /\ loan' = [loan EXCEPT ![l].repaid = FALSE, ![l].status = before]
            /\ Moved(m, Of(m).own - Principal(l), Of(m).committed + Principal(l))
            /\ cash' = cash - Principal(l)
            /\ UNCHANGED <<simulation, contributed, admin>>

Next ==
    \/ Contribute \/ ReverseContribution
    \/ Simulate \/ Confirm \/ Expire \/ Request
    \/ \E a \in Admins : \/ Reject(a) \/ Approve(a) \/ Schedule(a) \/ Refuse(a)
                         \/ Release(a) \/ Evaluate(a)
                         \/ Disburse(a) \/ NotReleasable(a) \/ Redo(a)
    \/ Repay \/ ReverseRepayment

Spec == Init /\ [][Next]_vars

-----------------------------------------------------------------------------

Lent   == {l \in Loans : loan[l].disbursed}
Repaid == {l \in Loans : loan[l].repaid}

\* Releases at once lend a loan once: the cash and the member's own money
\* follow from what was contributed, lent and repaid.  What is committed does
\* not: a reversed contribution lowers it, and a payment that was made before
\* the release, and reversed, raises it by a loan that is not lent yet.
LentOnce ==
    /\ cash = Opening + Quota * Cardinality({m \in Members : contributed[m]})
                      - TotalOf(Lent) + TotalOf(Repaid)
    /\ \A m \in Members :
          Of(m).own = (IF contributed[m] THEN Quota ELSE 0) + TotalOf(Repaid \cap OfMember(m))

\* docs/v0.17-financial-engine.md:4-6: the administrator approves, the system
\* generates the installments, then the loan is released.  False: a loan
\* whose approval was refused stays approved, without installments.
LentMoneyIsScheduled == \A l \in Lent : loan[l].scheduled
=============================================================================
