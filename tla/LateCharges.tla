----------------------------- MODULE LateCharges -----------------------------
(***************************************************************************)
(* The late charges of a loan installment once they have an effective      *)
(* date: the charge ledger of loan_obligation_runtime.py, the Pix attempts *)
(* that materialize it (loan_installment_pix_attempts.py), the versioned   *)
(* branch of payment_settlement.py and the reversal that restores it.      *)
(*                                                                         *)
(* Nothing charges an installment daily.  The ledger is caught up when an  *)
(* attempt is reserved or confirmed, from the settlements and reversals    *)
(* found then, and is never recomputed: money that changes the base of a   *)
(* day already charged is made good by an adjustment.                      *)
(*                                                                         *)
(* One installment, the only one of its loan.  Amounts are cents.  The     *)
(* webhook and the requests run in one event loop, a reversal in a thread. *)
(***************************************************************************)
EXTENDS Integers, FiniteSets, Functions

CONSTANTS Attempts,     \* bound on the Pix attempts, 1..n
          Due,          \* day the installment is due
          LastDay,      \* bound on the calendar
          Principal, Interest, Fine,
          Shortfalls    \* by how many cents a payment may fall short

VARIABLES day,          \* the financial date
          ledger,       \* the LoanLateChargeEvent rows and the cursor
          inst,         \* what the installment row says was paid, and its status
          attempt,      \* the Payment rows
          order,        \* what the provider knows of each
          settlement,   \* their PaymentSettlement
          undone,       \* day of their PaymentReversal, 0 without one
          request       \* the reservation between its two transactions

vars == <<day, ledger, inst, attempt, order, settlement, undone, request>>

Days == 1..LastDay + 1

Dues(principal, interest, fixed, late) ==
    [principal |-> principal, interest |-> interest, fixed |-> fixed, late |-> late]
Total(d) == d.principal + d.interest + d.fixed + d.late
Nothing  == Dues(0, 0, 0, 0)

\* A fixed penalty once, an accrual per day, an adjustment per cause.
NoCharges == [fixed |-> 0, accrued |-> [d \in Days |-> 0], cursor |-> 0, adjusted |-> {}]
Adjustment(cause, on, amount) == [cause |-> cause, on |-> on, amount |-> amount]

NoAttempt    == [status |-> "none", on |-> 0, dues |-> Nothing, mark |-> "none"]
NoOrder      == [on |-> 0, amount |-> 0, told |-> FALSE]
NoSettlement == [on |-> 0, applied |-> Nothing, before |-> "OPEN", after |-> "OPEN", revision |-> 0]

Init ==
    /\ day = Due
    /\ ledger = NoCharges
    /\ inst = [paid |-> Nothing, status |-> "OPEN", revision |-> 0]
    /\ attempt = [a \in Attempts |-> NoAttempt]
    /\ order = [a \in Attempts |-> NoOrder]
    /\ settlement = [a \in Attempts |-> NoSettlement]
    /\ undone = [a \in Attempts |-> 0]
    /\ request = [on |-> 0, dues |-> Nothing]

-----------------------------------------------------------------------------
(* The ledger against the history of the principal.                         *)

Least(x, y) == IF x <= y THEN x ELSE y
Greatest(x, y) == IF x >= y THEN x ELSE y

Settled(a) == settlement[a].on > 0

\* A settlement or a reversal counts from the day after its own.
PrincipalPaid(s, u, d) ==
    SumFunctionOnSet([a \in Attempts |-> (IF s[a].on # 0 /\ s[a].on < d THEN s[a].applied.principal ELSE 0)
                                         - (IF u[a] # 0 /\ u[a] < d THEN s[a].applied.principal ELSE 0)],
                     Attempts)
Base(s, u, d) == Greatest(0, Principal - Greatest(0, PrincipalPaid(s, u, d)))

\* Simple interest of 20 % in 30 days, rounded half up once, over all days.
InterestOf(s, u, d) == (2 * SumFunction([k \in Due + 1 .. d |-> Base(s, u, k)]) + 150) \div 300
Expected(d) == InterestOf(settlement, undone, d)

Delta(l, d) ==
    l.accrued[d] + SumFunction([e \in {x \in l.adjusted : x.on = d} |-> e.amount])
Materialized(l, d) == SumFunction([k \in 1..d |-> Delta(l, k)])

\* Assessed on the first late day, unless the principal was paid by then.
WithFixed(l, d) ==
    IF d > Due /\ l.fixed = 0 /\ Base(settlement, undone, Due + 1) > 0 THEN [l EXCEPT !.fixed = Fine] ELSE l

\* The running sum of the ledger, with the days after the cursor made good.
Running(l, d) ==
    LET run[k \in Due..d] ==
            IF k = Due THEN 0
            ELSE LET found == run[k - 1] + Delta(l, k)
                 IN  IF k <= l.cursor THEN found ELSE Greatest(found, Expected(k))
    IN  run
Broken(l, d) == \E k \in Due + 1 .. d : Running(l, d)[k - 1] + Delta(l, k) < 0

WithDaily(l, d) ==
    LET run == Running(l, d)
    IN  IF d <= Due THEN l
        ELSE [l EXCEPT !.accrued = [k \in Days |->
                            IF k \in Greatest(Due, l.cursor) + 1 .. d
                            THEN run[k] - run[k - 1] - (Delta(l, k) - l.accrued[k])
                            ELSE l.accrued[k]],
                       !.cursor = Greatest(l.cursor, d)]

CaughtUp(l, d) == WithDaily(WithFixed(l, d), d)

\* The row of an event whose effect falls within the days already charged.
Adjusted(l, cause, on, sign, now, expected) ==
    IF l.cursor = 0 \/ on > l.cursor THEN l
    ELSE [l EXCEPT !.adjusted = @ \cup
            {Adjustment(cause, on, sign * Greatest(0, sign * (expected - now)))}]

-----------------------------------------------------------------------------
(* What is due on a date.                                                   *)

Active(d) == {a \in Attempts : /\ Settled(a) /\ settlement[a].on <= d
                               /\ ~(undone[a] # 0 /\ undone[a] <= d)}
AppliedOf(attempts, part) == SumFunction([a \in attempts |-> settlement[a].applied[part]])
Received(d, part) == AppliedOf(Active(d), part)

Obligation(l, d) ==
    IF d < Due THEN Nothing
    ELSE Dues(Greatest(0, Principal - Received(d, "principal")),
              Greatest(0, Interest - Received(d, "interest")),
              Greatest(0, (IF d > Due THEN l.fixed ELSE 0) - Received(d, "fixed")),
              Greatest(0, Materialized(l, d) - Received(d, "late")))

\* loan_payoff_quote: the principal is owed before it is due.
Payoff(d) ==
    Greatest(0, Principal - Received(d, "principal"))
    + (IF Due <= d THEN Greatest(0, Interest - Received(d, "interest")) ELSE 0)
    + Greatest(0, (IF d > Due THEN ledger.fixed ELSE 0) - Received(d, "fixed"))
    + Greatest(0, Materialized(ledger, d) - Received(d, "late"))

\* Fixed penalty, late interest, interest, principal: in this order.
Allocated(due, amount) ==
    LET fixed == Least(due.fixed, amount)
        late == Least(due.late, amount - fixed)
        interest == Least(due.interest, amount - fixed - late)
    IN  Dues(Least(due.principal, amount - fixed - late - interest), interest, fixed, late)

Plus(p, q, sign) ==
    Dues(p.principal + sign * q.principal, p.interest + sign * q.interest,
         p.fixed + sign * q.fixed, p.late + sign * q.late)

-----------------------------------------------------------------------------
(* Reservation.                                                             *)

Pending == {a \in Attempts : attempt[a].status = "PENDING"}
Unused  == {a \in Attempts : attempt[a].status = "none"}
NextId  == CHOOSE a \in Unused : \A b \in Unused : a <= b
Current == CaughtUp(ledger, day)

Reusable(a) == attempt[a].on = day /\ attempt[a].dues = Obligation(Current, day)

Idle == request.on = 0
MayReserve == /\ Idle /\ Unused # {} /\ ~Broken(ledger, day)
              /\ Total(Obligation(Current, day)) > 0

Inserted(dues, on) ==
    attempt' = [attempt EXCEPT ![NextId] = [status |-> "PENDING", on |-> on, dues |-> dues, mark |-> "none"]]

\* No attempt is pending.  One that can be reused is returned as it is.
Reserve ==
    /\ MayReserve /\ Pending = {}
    /\ Inserted(Obligation(Current, day), day)
    /\ ledger' = Current
    /\ UNCHANGED <<day, inst, order, settlement, undone, request>>

Retired(a) == IF day > attempt[a].on THEN "EXPIRED" ELSE "SUPERSEDED"

\* The first commit drops the lock on the installment.
Retire ==
    /\ MayReserve
    /\ \E a \in Pending :
          /\ ~Reusable(a)
          /\ attempt' = [attempt EXCEPT ![a].status = Retired(a)]
    /\ ledger' = Current
    /\ request' = [on |-> day, dues |-> Obligation(Current, day)]
    /\ UNCHANGED <<day, inst, order, settlement, undone>>

\* The second inserts what was computed before the first.
Insert ==
    /\ ~Idle /\ Unused # {}
    /\ Inserted(request.dues, request.on)
    /\ request' = [on |-> 0, dues |-> Nothing]
    /\ UNCHANGED <<day, ledger, inst, order, settlement, undone>>

-----------------------------------------------------------------------------
(* Confirmation.                                                            *)

\* The member pays the order of any attempt, whatever became of it.
Pay ==
    \E a \in Attempts, s \in Shortfalls :
        /\ attempt[a].status # "none" /\ order[a] = NoOrder /\ Idle
        /\ Total(attempt[a].dues) > s
        /\ order' = [order EXCEPT ![a] = [on |-> day, amount |-> Total(attempt[a].dues) - s, told |-> FALSE]]
        /\ UNCHANGED <<day, ledger, inst, attempt, settlement, undone, request>>

Announced(a) == order[a].on > 0 /\ ~order[a].told /\ Idle
Tell(a) == order' = [order EXCEPT ![a].told = TRUE]

Expired(a) == order[a].on > attempt[a].on

\* The attempt was retired, or paid after its day.
IsStale(a) == attempt[a].status # "PENDING" \/ Expired(a)

Stale ==
    \E a \in Attempts :
        /\ Announced(a) /\ IsStale(a)
        /\ attempt' = [attempt EXCEPT
              ![a].mark = "STALE", ![a].status = IF @ = "PENDING" THEN "EXPIRED" ELSE @]
        /\ Tell(a)
        /\ UNCHANGED <<day, ledger, inst, settlement, undone, request>>

Found(a) == CaughtUp(ledger, order[a].on)
Agrees(a) == attempt[a].on = order[a].on /\ attempt[a].dues = Obligation(Found(a), order[a].on)

\* The charge is not what is owed any more: what was caught up is kept.
Mismatch ==
    \E a \in Attempts :
        /\ Announced(a) /\ ~IsStale(a) /\ ~Broken(ledger, order[a].on) /\ ~Agrees(a)
        /\ attempt' = [attempt EXCEPT ![a].mark = "MISMATCH"]
        /\ ledger' = Found(a)
        /\ Tell(a)
        /\ UNCHANGED <<day, inst, settlement, undone, request>>

StatusAfter(due, applied, on) ==
    IF Total(due) = Total(applied) THEN "PAID" ELSE IF on > Due THEN "OVERDUE" ELSE "PARTIAL"

\* The versioned branch of settle_confirmed_pix_payment.
Settle ==
    \E a \in Attempts :
        LET on == order[a].on
            due == Obligation(Found(a), on)
            applied == Allocated(due, Least(order[a].amount, Total(due)))
            after == StatusAfter(due, applied, on)
        IN  /\ Announced(a) /\ ~IsStale(a) /\ ~Broken(ledger, on) /\ Agrees(a)
            /\ Total(applied) > 0
            /\ attempt' = [attempt EXCEPT ![a].status = "APPROVED"]
            /\ inst' = [paid |-> Plus(inst.paid, applied, 1), status |-> after,
                        revision |-> inst.revision + 1]
            /\ settlement' = [settlement EXCEPT ![a] =
                  [on |-> on, applied |-> applied, before |-> inst.status, after |-> after,
                   revision |-> inst.revision + 1]]
            /\ ledger' = Adjusted(Found(a), <<"settlement", a>>, on + 1, -1,
                                  Materialized(Found(a), Found(a).cursor),
                                  InterestOf(settlement', undone, Found(a).cursor))
            /\ Tell(a)
            /\ UNCHANGED <<day, undone, request>>

-----------------------------------------------------------------------------
(* Reversal.                                                                *)

Intact(a) ==
    /\ inst.status = settlement[a].after
    /\ inst.revision = settlement[a].revision

Reverse ==
    \E a \in Attempts :
        /\ Settled(a) /\ undone[a] = 0 /\ Intact(a)
        /\ \A part \in DOMAIN inst.paid : inst.paid[part] >= settlement[a].applied[part]
        /\ undone' = [undone EXCEPT ![a] = day]
        /\ inst' = [paid |-> Plus(inst.paid, settlement[a].applied, -1),
                    status |-> settlement[a].before, revision |-> inst.revision + 1]
        /\ UNCHANGED settlement
        /\ ledger' = Adjusted(ledger, <<"reversal", a>>, day + 1, 1,
                              Materialized(ledger, ledger.cursor),
                              InterestOf(settlement, undone', ledger.cursor))
        /\ UNCHANGED <<day, attempt, order, request>>

Tick == /\ day < LastDay /\ day' = day + 1
        /\ UNCHANGED <<ledger, inst, attempt, order, settlement, undone, request>>

Next == Reserve \/ Retire \/ Insert \/ Pay \/ Stale \/ Mismatch \/ Settle \/ Reverse \/ Tick

-----------------------------------------------------------------------------

\* The charges booked up to each day are those its history of principal asks
\* for, although they are booked at different times and never recomputed.
MatchesHistory ==
    \A d \in Due + 1 .. ledger.cursor : Materialized(ledger, d) = Expected(d)

\* The checks of loan_installments: no more is paid than was charged.
PaidWithinAssessed ==
    /\ inst.paid.fixed <= ledger.fixed
    /\ inst.paid.late <= Materialized(ledger, LastDay + 1)

\* The columns of the row say what the receipts in force say.
PaidIsReceived ==
    \A part \in DOMAIN inst.paid :
        inst.paid[part] = AppliedOf({a \in Attempts : Settled(a) /\ undone[a] = 0}, part)

\* The loan can be paid off for what the installment owes.
PayoffIsOwed == Payoff(day) = Total(Obligation(ledger, day))

\* A charge is never confirmed against other charges than the ones booked.
ChargesAreTrue == MatchesHistory /\ PaidWithinAssessed /\ PaidIsReceived /\ PayoffIsOwed

Spec == Init /\ [][Next]_vars
=============================================================================
