---------------------------- MODULE MonthlyBooks ----------------------------
(***************************************************************************)
(* The reconciliation of a month and its closing                           *)
(* (services/reconciliation_v040.py, monthly_closing_v040.py), over books  *)
(* that only the program's own writers fill.                               *)
(*                                                                         *)
(* A payment belongs to the month the provider approved it in, its row to  *)
(* the month the row was written in, and an expense to the month it was    *)
(* given; the check compares them.  It also looks for the rows of a        *)
(* payment by number, which other kinds of row share.  Every amount is one *)
(* unit, every stored version the one that is written today.               *)
(***************************************************************************)
EXTENDS LedgerBook, FiniteSets, Functions

CONSTANTS Payments,     \* numbers of payments
          Kinds,        \* what the payments may be for, together
          Loans,        \* numbers of loans that are disbursed
          Expenses,     \* numbers of expenses
          LastMonth,    \* bound: months that are played
          MaxRows       \* bound: rows of the ledger

VARIABLES now,          \* the month
          payment,      \* the payments, with settlement and reversal
          ledger,       \* the book
          expense,      \* month each expense is dated, 0 before it is posted
          closed        \* the monthly closings

vars == <<now, payment, ledger, expense, closed>>

Months == 1 .. LastMonth

\* The row each kind of settlement writes.
RowType == [CONTRIBUTION |-> PaymentRow,
            LOAN_INSTALLMENT |-> "LOAN_INTEREST_PAYMENT",
            AGREEMENT_INSTALLMENT |-> "AGREEMENT_INSTALLMENT_PAYMENT"]

NoPayment(kind) == [kind |-> kind, stage |-> "none", created |-> 0, paid |-> 0, receipt |-> {}, reversed |-> 0]
NotClosed == [at |-> 0, contributions |-> 0, net |-> 0]

Init ==
    /\ now = 1
    /\ \E k \in Kinds : payment = [p \in Payments |-> NoPayment(k[p])]
    /\ ledger = <<>>
    /\ expense = [x \in Expenses |-> 0]
    /\ closed = [m \in Months |-> NotClosed]

-----------------------------------------------------------------------------
(* The writers.                                                             *)

KindOf(p) == payment[p].kind

With(type, ref, direction, of) ==
    Append(ledger, [type |-> type, ref |-> ref, direction |-> direction,
                    reversalOf |-> of, month |-> now])

Written(type, n) == {i \in NumberedAs(ledger, n) : ledger[i].type = type}
Own(p) == Written(RowType[KindOf(p)], p)

\* A charge is made, the member pays it, and the provider's notification is
\* stored; it may wait for the next month.
Progress(p, from, to) ==
    /\ payment[p].stage = from
    /\ payment' = [payment EXCEPT ![p].stage = to,
                                  ![p].created = IF from = "none" THEN now ELSE @,
                                  ![p].paid = IF to = "paid" THEN now ELSE @]
    /\ UNCHANGED <<now, ledger, expense, closed>>

Charge(p) == Progress(p, "none", "charged")
Pay(p) == Progress(p, "charged", "paid")
Notify(p) == Progress(p, "paid", "notified")

\* The receipt lists the rows that have the payment's number.
Settle(p) ==
    /\ payment[p].stage = "notified"
    /\ ledger' = With(RowType[KindOf(p)], p, "CREDIT", 0)
    /\ payment' = [payment EXCEPT ![p].stage = "settled", ![p].receipt = NumberedAs(ledger', p)]
    /\ UNCHANGED <<now, expense, closed>>

\* Only the reversal of an installment looks at the type of the rows alone.
Original(p) ==
    {i \in Own(p) : /\ Reversible(ledger, i)
                    /\ (KindOf(p) = "LOAN_INSTALLMENT" \/ NumberedAs(ledger, p) = {i})}

Reverse(p) ==
    \E i \in Original(p) :
        /\ payment[p].stage = "settled"
        /\ ledger' = With(ReversalRow, i, "DEBIT", i)
        /\ payment' = [payment EXCEPT ![p].stage = "reversed", ![p].reversed = now]
        /\ UNCHANGED <<now, expense, closed>>

\* The ledger's own reversal, by an administrator.
ReverseEntry(i) ==
    /\ Reversible(ledger, i)
    /\ ledger[i].type \notin {RowType.LOAN_INSTALLMENT, RowType.AGREEMENT_INSTALLMENT}
    /\ ledger' = With(ReversalRow, i, Opposite(ledger[i].direction), i)
    /\ UNCHANGED <<now, payment, expense, closed>>

\* An expense is given any date, its row is of today.
Spend(x, m) ==
    /\ expense[x] = 0
    /\ expense' = [expense EXCEPT ![x] = m]
    /\ ledger' = With("EXPENSE", x, "DEBIT", 0)
    /\ UNCHANGED <<now, payment, closed>>

Disburse(l) ==
    /\ Written("LOAN_DISBURSEMENT", l) = {}
    /\ ledger' = With("LOAN_DISBURSEMENT", l, "DEBIT", 0)
    /\ UNCHANGED <<now, payment, expense, closed>>

-----------------------------------------------------------------------------
(* The check of a month.                                                    *)

Settled(kind) == {p \in Payments : KindOf(p) = kind /\ payment[p].stage \in {"settled", "reversed"}}

\* _component_chain: one row takes the original back.
Compensated(i) == Cardinality(ReversalsOf(ledger, i)) = 1

\* _payment_ledger_set_is_exact: no other row has the payment's number.
OnlyRow(p, i) == NumberedAs(ledger, p) \subseteq {i} \cup ReversalsOf(ledger, i)

Neutralized(p) == \E i \in Own(p) : Compensated(i) /\ OnlyRow(p, i)

\* validate_reversal_effect
Effective(p) == payment[p].stage = "reversed" /\ Neutralized(p)

\* A settlement, and a reversal that is effective, each in its own month.
SettlementEvents(m) == {p \in Settled("CONTRIBUTION") : payment[p].paid = m}
ReversalEvents(m) == {p \in Settled("CONTRIBUTION") : payment[p].reversed = m /\ Effective(p)}
ContributionEvents(m) == Cardinality(SettlementEvents(m)) - Cardinality(ReversalEvents(m))

RowsOf(type, m) == {i \in DOMAIN ledger : ledger[i].type = type /\ ledger[i].month = m}

\* The rows of the month, but those of payments that were reversed, whenever.
ContributionLedger(m) ==
    Cardinality(RowsOf(PaymentRow, m) \ UNION {Own(p) : p \in {q \in Settled("CONTRIBUTION") : Effective(q)}})

ExpenseEvents(m) == Cardinality({x \in Expenses : expense[x] = m})
ExpenseLedger(m) == Cardinality(RowsOf("EXPENSE", m))

LostReversal(p) == payment[p].stage = "reversed" /\ ~Effective(p)

\* The receipt is built again from the rows that have the payment's number.
BadReceipt(p) == payment[p].receipt # NumberedAs(ledger, p)

InstallmentIssue(p) == LostReversal(p) \/ (BadReceipt(p) /\ ~Effective(p))
AgreementLedger(p) == {i \in NumberedAs(ledger, p) : ledger[i].type # ReversalRow} # Own(p)
AgreementIssue(p) == AgreementLedger(p) \/ BadReceipt(p)
ContributionIssue(p) == NumberedAs(ledger, p) # Own(p)

\* What is wrong with an approved payment of the month it was created in.
Unproved(p) ==
    \/ KindOf(p) = "CONTRIBUTION" /\ ContributionIssue(p)
    \/ KindOf(p) = "LOAN_INSTALLMENT" /\ InstallmentIssue(p)
    \/ KindOf(p) = "AGREEMENT_INSTALLMENT" /\ (AgreementIssue(p) \/ LostReversal(p))

Codes == {"CONTRIBUTIONS", "EXPENSES", "APPROVED_PAYMENTS", "UNPROCESSED_WEBHOOKS",
          "CONTRIBUTION_REVERSAL", "INSTALLMENT", "AGREEMENT"}

\* The first three are about the month, the others about everything stored.
Findings(m) ==
    {f \in Codes :
        \/ f = "CONTRIBUTIONS" /\ ContributionEvents(m) # ContributionLedger(m)
        \/ f = "EXPENSES" /\ ExpenseEvents(m) # ExpenseLedger(m)
        \/ f = "APPROVED_PAYMENTS" /\ \E p \in UNION {Settled(k) : k \in DOMAIN RowType} :
                                           payment[p].created = m /\ Unproved(p)
        \/ f = "UNPROCESSED_WEBHOOKS" /\ \E p \in Payments : payment[p].stage = "notified"
        \/ f = "CONTRIBUTION_REVERSAL" /\ \E p \in Settled("CONTRIBUTION") : LostReversal(p)
        \/ f = "INSTALLMENT" /\ \E p \in Settled("LOAN_INSTALLMENT") : InstallmentIssue(p)
        \/ f = "AGREEMENT" /\ \E p \in Settled("AGREEMENT_INSTALLMENT") :
                                   LostReversal(p) \/ AgreementIssue(p)}

Net(m) ==
    Cardinality({i \in DOMAIN ledger : ledger[i].month = m /\ ledger[i].direction = "CREDIT"})
    - Cardinality({i \in DOMAIN ledger : ledger[i].month = m /\ ledger[i].direction = "DEBIT"})

\* close_month_v040: once, of any month, when the check passes.
Close(m) ==
    /\ closed[m] = NotClosed /\ Findings(m) = {}
    /\ closed' = [closed EXCEPT ![m] = [at |-> now, contributions |-> ContributionEvents(m), net |-> Net(m)]]
    /\ UNCHANGED <<now, payment, ledger, expense>>

Tick ==
    /\ now < LastMonth
    /\ now' = now + 1
    /\ UNCHANGED <<payment, ledger, expense, closed>>

Next ==
    \/ \E p \in Payments : Charge(p) \/ Pay(p) \/ Notify(p)
    \/ /\ Len(ledger) < MaxRows
       /\ \/ \E p \in Payments : Settle(p) \/ Reverse(p)
          \/ \E i \in DOMAIN ledger : ReverseEntry(i)
          \/ \E x \in Expenses, m \in Months : Spend(x, m)
          \/ \E l \in Loans : Disburse(l)
    \/ \E m \in Months : Close(m)
    \/ Tick

Spec == Init /\ [][Next]_vars

-----------------------------------------------------------------------------

Booked(p) == {ledger[i].month : i \in Own(p)}
Clashes(p) == NumberedAs(ledger, p) # Own(p)

\* Money that is in one month for the payments and in another for the books.
Straddles(p, m) ==
    \/ (payment[p].paid = m) # (m \in Booked(p))
    \/ payment[p].stage = "reversed" /\ (payment[p].reversed = m) # (m \in Booked(p))

\* On books that only the writers filled, the check raises no false alarm but
\* three: a contribution approved or reversed in another month than its row was
\* written in, an expense that is dated so, and a number that two kinds of row
\* share.  Over all months, payments and books agree whatever happened.
AlarmsAreExplained ==
    /\ \A m \in Months :
         /\ "CONTRIBUTIONS" \in Findings(m) => \E p \in Settled("CONTRIBUTION") : Straddles(p, m)
         /\ "EXPENSES" \in Findings(m) =>
                \E x \in Expenses : (expense[x] = m) # (\E i \in Written("EXPENSE", x) : ledger[i].month = m)
         /\ Findings(m) \ {"CONTRIBUTIONS", "EXPENSES", "UNPROCESSED_WEBHOOKS"} # {} =>
                \E p \in Payments : Clashes(p)
         /\ \A p \in Settled("CONTRIBUTION") :
                Clashes(p) /\ payment[p].created = m => "APPROVED_PAYMENTS" \in Findings(m)
    /\ SumFunction([m \in Months |-> ContributionEvents(m)]) = SumFunction([m \in Months |-> ContributionLedger(m)])
    /\ SumFunction([m \in Months |-> ExpenseEvents(m)]) = SumFunction([m \in Months |-> ExpenseLedger(m)])

\* Figures of a month that was closed after its end are still those of the
\* books: only a payment that was approved in it and settled later, or a
\* reversal in it that a shared number undid, adds to its contributions.
ClosedMonthsStand ==
    \A m \in Months :
        closed[m].at > m =>
            /\ Net(m) = closed[m].net
            /\ ContributionEvents(m) # closed[m].contributions =>
                   \E p \in Settled("CONTRIBUTION") :
                       (payment[p].paid = m /\ m \notin Booked(p)) \/ (payment[p].reversed = m /\ Clashes(p))

=============================================================================
