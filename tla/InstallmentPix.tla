-------------------------- MODULE InstallmentPix --------------------------
(***************************************************************************)
(* The debt of one loan: its installments, the agreement that may replace  *)
(* them, and the Pix attempts that pay either.  Sources:                   *)
(* loan_installment_pix_attempts.py, agreement_installment_pix_attempts.py *)
(* and their endpoints, agreements_v039.py, the loan and agreement         *)
(* branches of payment_settlement.py and payment_reversal.py, and the loan *)
(* branch of the webhook.                                                  *)
(*                                                                         *)
(* Settlement and reversal treat an installment of the loan and one of the *)
(* agreement alike: a debt with an amount paid and a status, under an      *)
(* owner with a status and a revision.  They differ in the guards.         *)
(*                                                                         *)
(* Charge requests and the webhook are coroutines of one event loop with   *)
(* synchronous database calls.  Agreements and reversals run in threads.   *)
(* A coroutine that meets a row lock stops the loop; a thread waits.       *)
(*                                                                         *)
(* Late charges are off, as they are by default (no effective date and a   *)
(* daily rate of 0), so a debt is its amount.  Amounts are in cents.       *)
(***************************************************************************)
EXTENDS Integers, FiniteSets, Functions

CONSTANTS Insts,        \* installments of the loan, named by the day each is due
          Amount,       \* what each of them owes
          Receivable,   \* amounts the provider may report as received
          Requests,     \* requests for a charge the server runs at once
          Notices,      \* times the provider announces a payment
          MaxPayments,  \* bound on the Payment rows
          Plans,        \* in how many installments a member may ask to pay an agreement
          LastDay       \* bound on the calendar

ASSUME InstsAssumption      == Insts \subseteq Nat \ {0} /\ Insts # {} /\ IsFiniteSet(Insts)
ASSUME AmountAssumption     == Amount \in Nat \ {0}
ASSUME ReceivableAssumption == Receivable \subseteq Nat \ {0}
ASSUME NoticesAssumption    == Notices \in Nat \ {0}
ASSUME PlansAssumption      == Plans \subseteq Nat \ {0}
ASSUME BoundsAssumption     == MaxPayments \in Nat /\ LastDay \in Nat \ {0}

VARIABLES
    day,        \* the financial date
    paid,       \* paid_amount of each debt
    state,      \* status of each debt
    owner,      \* status and revision of the loan and of the agreement
    terms,      \* what was asked for, what the approval found, in how many parts
    rejected,   \* whether a REJECTED agreement of the loan is stored
    payment,    \* the Payment rows
    settlement, \* their PaymentSettlement
    undone,     \* the day of their PaymentReversal, 0 without one
    order,      \* the provider's orders
    event,      \* notifications of their payment that are not processed
    request,    \* requests for a charge
    hook        \* the notification the webhook works on

debts    == <<paid, state, owner, terms, rejected>>
books    == <<settlement, undone>>
provider == <<order, event>>
vars     == <<day, paid, state, owner, terms, rejected, payment, settlement, undone,
              order, event, request, hook>>

Owners  == {"loan", "agreement"}
Ids     == 1..MaxPayments
Debts   == ({"loan"} \X Insts) \union ({"agreement"} \X UNION {1..n : n \in Plans})

Row(debt, on, amount, attempt) ==
    [debt |-> debt, on |-> on, amount |-> amount, attempt |-> attempt,
     status |-> "pending", mark |-> "none", bound |-> FALSE]

\* A row whose identity stays and whose other columns are written.
Columns(row, attempt, status, mark, bound) ==
    [debt |-> row.debt, on |-> row.on, amount |-> row.amount, attempt |-> attempt,
     status |-> status, mark |-> mark, bound |-> bound]

NoDebt       == <<"none", 0>>
NoRow        == Row(NoDebt, 0, 0, "none")
NoSettlement == [applied |-> 0, before |-> "none", after |-> "none",
                 ownerBefore |-> "none", ownerAfter |-> "none", revision |-> 0]
NoOrder      == [status |-> "none", amount |-> 0, on |-> 0]
OpenOrder    == [status |-> "open", amount |-> 0, on |-> 0]
Idle         == [pc |-> "idle", debt |-> NoDebt, amount |-> 0, id |-> 0,
                 holds |-> FALSE, mark |-> "none"]
NoHook       == [pc |-> "idle", id |-> 0, seen |-> "none"]

Init ==
    /\ day = 1
    /\ paid = [d \in Debts |-> 0]
    /\ state = [d \in Debts |-> "OPEN"]
    /\ owner = [o \in Owners |-> [status |-> IF o = "loan" THEN "ACTIVE" ELSE "none",
                                  revision |-> 0]]
    /\ terms = [asked |-> 0, found |-> 0, parts |-> 0]
    /\ rejected = FALSE
    /\ payment = [a \in Ids |-> NoRow]
    /\ settlement = [a \in Ids |-> NoSettlement]
    /\ undone = [a \in Ids |-> 0]
    /\ order = [a \in Ids |-> NoOrder]
    /\ event = [a \in Ids |-> 0]
    /\ request = [r \in Requests |-> Idle]
    /\ hook = NoHook

-----------------------------------------------------------------------------
(* What is owed.                                                           *)

\* Variant: the last part is rounded like the others.
Part_Rounded(total, n, k) == (2 * total + n) \div (2 * n)

\* The k-th of n parts, rounded half up; the last one takes what is left.
Part(total, n, k) == LET base == (2 * total + n) \div (2 * n)
                     IN  IF k < n THEN base ELSE total - (n - 1) * base

Owed(d) == IF d[1] = "loan" THEN Amount
           ELSE IF d[2] <= terms.parts THEN Part(terms.found, terms.parts, d[2]) ELSE 0

DebtsOf(o) == IF o = "loan" THEN {"loan"} \X Insts ELSE {"agreement"} \X (1..terms.parts)

Settled(a) == settlement[a].applied > 0
InForce(a) == Settled(a) /\ undone[a] = 0

\* Money of the settlements of some payments.
Received(rows) == SumFunctionOnSet([a \in rows |-> settlement[a].applied], rows)

\* Money of the settlements of a debt that counted on a date.
Applied(d, on) == Received({a \in Ids : /\ Settled(a) /\ payment[a].debt = d
                                       /\ payment[a].on <= on /\ ~(undone[a] \in 1..on)})

\* loan_installment_obligation: nothing before the due date; then what the
\* settlements of that date leave open, whatever installment and loan say.
Obligation(d, on) == IF on < d[2] \/ Applied(d, on) >= Amount THEN 0
                     ELSE Amount - Applied(d, on)

\* outstanding_for_loan.
Outstanding == LET open == {d \in DebtsOf("loan") : state[d] # "PAID"}
               IN  SumFunctionOnSet([d \in open |-> Amount - paid[d]], open)

-----------------------------------------------------------------------------
(* Requests for a charge.                                                  *)

LoopIsFree == /\ hook.pc # "deciding"
              /\ \A r \in Requests : request[r].pc \notin {"inserting", "stalled"}

\* A request that reuses an attempt keeps its locks until it ends, across the
\* call to the provider.
HoldsDebt(q, d) == request[q].holds /\ request[q].debt = d
HoldsRow(q, a)  == request[q].holds /\ request[q].id = a

NextId(a) == payment[a] = NoRow /\ \A b \in Ids : b < a => payment[b] # NoRow

Pending(d) == {a \in Ids : payment[a].debt = d /\ payment[a].attempt = "PENDING"}

\* evaluate_reuse: the same day, and the same obligation.
Reusable(a, amount) == payment[a].on = day /\ payment[a].amount = amount

Calling(pc, d, amount, a, holds, mark) ==
    [pc |-> pc, debt |-> d, amount |-> amount, id |-> a, holds |-> holds, mark |-> mark]

Stall(r) == request' =
    [request EXCEPT ![r] = Calling("stalled", NoDebt, 0, 0, FALSE, "none")]
End(r)   == request' = [request EXCEPT ![r] = Idle]

\* reserve without a pending attempt: lock the installment, insert, commit.
Reserve(r, d) ==
    LET due == Obligation(d, day)
    IN  /\ LoopIsFree /\ request[r].pc = "idle" /\ d[1] = "loan"
        /\ ~\E q \in Requests : HoldsDebt(q, d)
        /\ Pending(d) = {} /\ due > 0
        /\ \E a \in Ids :
              /\ NextId(a)
              /\ payment' = [payment EXCEPT ![a] = Row(d, day, due, "PENDING")]
              /\ request' = [request EXCEPT
                     ![r] = Calling("calling", d, due, a, FALSE, "none")]
        /\ UNCHANGED <<day, debts, books, provider, hook>>

\* An attempt of the same day and obligation is used again.  One that is bound
\* is shown to the member and the request is over.
Reuse(r, d) ==
    LET due == Obligation(d, day)
    IN  /\ LoopIsFree /\ request[r].pc = "idle" /\ d[1] = "loan"
        /\ ~\E q \in Requests : HoldsDebt(q, d)
        /\ \E a \in Pending(d) :
              /\ due > 0 /\ Reusable(a, due) /\ ~payment[a].bound
              /\ request' = [request EXCEPT
                     ![r] = Calling("calling", d, due, a, TRUE, payment[a].mark)]
        /\ UNCHANGED <<day, debts, payment, books, provider, hook>>

\* Another attempt is retired and that is committed; the obligation read under
\* the lock is kept for the attempt that follows.
Retire(r, d) ==
    LET due == Obligation(d, day)
    IN  /\ LoopIsFree /\ request[r].pc = "idle" /\ d[1] = "loan"
        /\ ~\E q \in Requests : HoldsDebt(q, d)
        /\ \E a \in Pending(d) :
              /\ due > 0 /\ ~Reusable(a, due)
              /\ payment' = [payment EXCEPT ![a] =
                     Columns(@, IF @.on < day THEN "EXPIRED" ELSE "SUPERSEDED",
                             @.status, @.mark, @.bound)]
        /\ request' = [request EXCEPT ![r] =
               Calling("inserting", d, due, 0, FALSE, "none")]
        /\ UNCHANGED <<day, debts, books, provider, hook>>

\* The second transaction of reserve, without a lock.  Its day is the one the
\* request began with, which is today: the loop was busy for a moment only.
Insert(r) ==
    /\ request[r].pc = "inserting"
    /\ \E a \in Ids :
          /\ NextId(a)
          /\ payment' = [payment EXCEPT
                 ![a] = Row(request[r].debt, day, request[r].amount, "PENDING")]
          /\ request' = [request EXCEPT
                 ![r] = Calling("calling", @.debt, @.amount, a, FALSE, "none")]
    /\ UNCHANGED <<day, debts, books, provider, hook>>

\* The installment is locked by a request that awaits the provider.
ReserveStalls(r, d) ==
    /\ LoopIsFree /\ request[r].pc = "idle" /\ d[1] = "loan"
    /\ \E q \in Requests : HoldsDebt(q, d)
    /\ Stall(r)
    /\ UNCHANGED <<day, debts, payment, books, provider, hook>>

\* An installment of the agreement gets one Payment row, ever, because the
\* idempotency key names it.
ReservePart(r, d) ==
    /\ LoopIsFree /\ request[r].pc = "idle" /\ d \in DebtsOf("agreement")
    /\ owner["agreement"].status \in {"APPROVED", "SETTLED"}
    /\ Owed(d) > paid[d] /\ state[d] # "PAID"
    /\ ~\E a \in Ids : payment[a].debt = d
    /\ \E a \in Ids :
          /\ NextId(a)
          /\ payment' = [payment EXCEPT ![a] = Row(d, day, Owed(d) - paid[d], "PENDING")]
          /\ request' = [request EXCEPT
                 ![r] = Calling("calling", d, Owed(d) - paid[d], a, FALSE, "none")]
    /\ UNCHANGED <<day, debts, books, provider, hook>>

\* The provider creates the order of an idempotency key once.
ProviderCreates(r) ==
    LET a == request[r].id
    IN  /\ request[r].pc = "calling"
        /\ order' = [order EXCEPT ![a] = IF @ = NoOrder THEN OpenOrder ELSE @]
        /\ request' = [request EXCEPT ![r] =
               Calling("created", @.debt, @.amount, @.id, @.holds, @.mark)]
        /\ UNCHANGED <<day, debts, payment, books, event, hook>>

\* A row that another request has locked stops the loop.
Blocked(r) == \E q \in Requests \ {r} : HoldsRow(q, request[r].id)

AnswerStalls(r) ==
    /\ LoopIsFree /\ request[r].pc \in {"calling", "created"}
    /\ Blocked(r)
    /\ Stall(r)
    /\ UNCHANGED <<day, debts, payment, books, provider, hook>>

\* A column is written when its new value differs from the one loaded.
Written(current, loaded, new) == IF new # loaded THEN new ELSE current

\* Variant: bind_provider writes every column of the row it loaded.
Bind_WholeRow(r) ==
    LET a == request[r].id
    IN  /\ LoopIsFree /\ request[r].pc = "created" /\ ~Blocked(r)
        /\ payment' = [payment EXCEPT ![a] =
               Columns(@, IF request[r].debt[1] = "loan" THEN "PENDING" ELSE "none",
                       "pending", "none", TRUE)]
        /\ End(r)
        /\ UNCHANGED <<day, debts, books, provider, hook>>

\* bind_provider.  The loan's looks for a PENDING attempt in the copy of the row
\* that reserve returned, so it binds whatever became of the attempt since.  The
\* agreement's closes the attempt.
Bind(r) ==
    LET a == request[r].id
    IN  /\ LoopIsFree /\ request[r].pc = "created" /\ ~Blocked(r)
        /\ payment' = [payment EXCEPT ![a] =
               Columns(@, IF request[r].debt[1] = "loan" THEN @.attempt ELSE "none",
                       "pending", Written(@.mark, request[r].mark, "none"), TRUE)]
        /\ End(r)
        /\ UNCHANGED <<day, debts, books, provider, hook>>

\* The binding of an agreement charge failed; its identity is kept.
Preserve(r) ==
    LET a == request[r].id
    IN  /\ LoopIsFree /\ request[r].pc = "created" /\ request[r].debt[1] = "agreement"
        /\ payment' = [payment EXCEPT ![a] =
               Columns(@, @.attempt, @.status, "REQUIRED", TRUE)]
        /\ End(r)
        /\ UNCHANGED <<day, debts, books, provider, hook>>

\* The call failed, or its answer was lost.
CallFails(r) ==
    LET a == request[r].id
    IN  /\ LoopIsFree /\ request[r].pc \in {"calling", "created"} /\ ~Blocked(r)
        /\ \E mark \in {"UNKNOWN"} \union
                       (IF request[r].debt[1] = "loan" THEN {} ELSE {"REQUIRED"}) :
              payment' = [payment EXCEPT ![a] =
                  Columns(@, @.attempt, @.status,
                          Written(@.mark, request[r].mark, mark), @.bound)]
        /\ End(r)
        /\ UNCHANGED <<day, debts, books, provider, hook>>

-----------------------------------------------------------------------------
(* The provider and its notifications.                                     *)

\* The member, who got the code when the attempt was bound, pays.  The provider
\* may leave out the time of the confirmation.
Pay(a) ==
    /\ payment[a].bound /\ order[a].status = "open"
    /\ \E got \in Receivable, on \in {0, day} :
          order' = [order EXCEPT ![a] = [status |-> "paid", amount |-> got, on |-> on]]
    /\ event' = [event EXCEPT ![a] = Notices]
    /\ UNCHANGED <<day, debts, payment, books, request, hook>>

\* The webhook loads the payment and asks the provider.
Receive(a) ==
    /\ LoopIsFree /\ hook = NoHook
    /\ event[a] > 0
    /\ hook' = [pc |-> "asking", id |-> a, seen |-> payment[a].status]
    /\ UNCHANGED <<day, debts, payment, books, provider, request>>

DebtOf == payment[hook.id].debt

Confirmed(row) == Columns(row, row.attempt, Written(row.status, hook.seen, "approved"),
                          row.mark, row.bound)

\* It resumes.  For a loan the provider's evidence is committed before anything
\* is decided; for an agreement it belongs to the settlement's transaction.
Confirm ==
    /\ LoopIsFree /\ hook.pc = "asking"
    /\ hook' = [hook EXCEPT !.pc = "deciding"]
    /\ payment' = IF DebtOf[1] = "loan"
                  THEN [payment EXCEPT ![hook.id] = Confirmed(@)]
                  ELSE payment
    /\ UNCHANGED <<day, debts, books, provider, request>>

\* No answer, or a transaction the database aborted: settlement, reversal and
\* agreement take the rows of a loan in different orders.
GiveUp ==
    /\ \/ hook.pc = "asking" /\ LoopIsFree
       \/ hook.pc = "deciding"
    /\ hook' = NoHook
    /\ UNCHANGED <<day, debts, payment, books, provider, request>>

Processed == event' = [event EXCEPT ![hook.id] = @ - 1]

\* Why a confirmed payment of a loan installment is not applied.
Refusal(a) ==
    LET row == payment[a]
    IN  CASE order[a].on = 0                          -> "REQUIRED"
          [] row.attempt \in {"SUPERSEDED", "EXPIRED"} -> "STALE"
          [] row.attempt # "PENDING"                  -> "REQUIRED"
          [] order[a].on > row.on                     -> "STALE"
          [] Obligation(row.debt, row.on) # row.amount -> "MISMATCH"
          [] OTHER                                    -> "none"

\* Variant: an attempt that expired is closed without a mark.
Refuse_Expired ==
    LET a == hook.id
    IN  /\ hook.pc = "deciding" /\ DebtOf[1] = "loan"
        /\ Refusal(a) # "none"
        /\ payment' = [payment EXCEPT ![a] =
               IF @.attempt = "PENDING" /\ order[a].on > @.on
               THEN Columns(@, "EXPIRED", @.status, @.mark, @.bound)
               ELSE Columns(@, @.attempt, @.status, Refusal(a), @.bound)]
        /\ Processed
        /\ hook' = NoHook
        /\ UNCHANGED <<day, debts, books, order, request>>

\* approve_or_reconcile without settlement: the money is marked.
Refuse ==
    LET a == hook.id
    IN  /\ hook.pc = "deciding" /\ DebtOf[1] = "loan"
        /\ Refusal(a) # "none"
        /\ payment' = [payment EXCEPT ![a] =
               Columns(@, IF @.attempt = "PENDING" /\ order[a].on > @.on
                          THEN "EXPIRED" ELSE @.attempt,
                       @.status, Refusal(a), @.bound)]
        /\ Processed
        /\ hook' = NoHook
        /\ UNCHANGED <<day, debts, books, order, request>>

Least(a, b) == IF a <= b THEN a ELSE b

\* Variant: one closing status for both owners.
Closed_Settled(o, st) == IF \A d \in DebtsOf(o) : st[d] = "PAID"
                         THEN "SETTLED" ELSE owner[o].status

\* The loan is PAID, or the agreement SETTLED, with the last of its debts.
Closed(o, st) == IF \A d \in DebtsOf(o) : st[d] = "PAID"
                 THEN IF o = "loan" THEN "PAID" ELSE "SETTLED"
                 ELSE owner[o].status

\* settle_confirmed_pix_payment, from the locks to the commit.
Apply(a, attempt, mark) ==
    LET d    == payment[a].debt
        o    == d[1]
        take == Least(order[a].amount, Owed(d) - paid[d])
        now  == IF paid[d] + take = Owed(d) THEN "PAID" ELSE "PARTIAL"
    IN  /\ take > 0
        /\ paid' = [paid EXCEPT ![d] = @ + take]
        /\ state' = [state EXCEPT ![d] = now]
        /\ owner' = [owner EXCEPT ![o] =
               [status |-> Closed(o, state'), revision |-> @.revision + 1]]
        /\ settlement' = [settlement EXCEPT ![a] =
               [applied |-> take, before |-> state[d], after |-> now,
                ownerBefore |-> owner[o].status, ownerAfter |-> Closed(o, state'),
                revision |-> owner[o].revision + 1]]
        /\ payment' = [payment EXCEPT ![a] =
               Columns(@, attempt, Written(@.status, hook.seen, "approved"), mark,
                       @.bound)]

\* A payment of a loan installment that nothing speaks against.
SettleLoan ==
    LET a == hook.id
    IN  /\ hook.pc = "deciding" /\ DebtOf[1] = "loan"
        /\ Refusal(a) = "none" /\ ~Settled(a)
        /\ owner["loan"].status # "PAID"
        /\ Apply(a, "APPROVED", payment[a].mark)
        /\ Processed
        /\ hook' = NoHook
        /\ UNCHANGED <<day, terms, rejected, undone, order, request>>

\* A payment of an agreement installment, once; an attempt that was preserved
\* for reconciliation is released with it.
SettlePart ==
    LET a == hook.id
    IN  /\ hook.pc = "deciding" /\ DebtOf[1] = "agreement"
        /\ ~Settled(a)
        /\ Apply(a, "none", IF payment[a].attempt = "PENDING" THEN "none" ELSE payment[a].mark)
        /\ Processed
        /\ hook' = NoHook
        /\ UNCHANGED <<day, terms, rejected, undone, order, request>>

\* The second notification of an agreement payment changes nothing else.
KnownPart ==
    LET a == hook.id
    IN  /\ hook.pc = "deciding" /\ DebtOf[1] = "agreement"
        /\ Settled(a)
        /\ payment' = [payment EXCEPT ![a] = Confirmed(@)]
        /\ Processed
        /\ hook' = NoHook
        /\ UNCHANGED <<day, debts, books, order, request>>

-----------------------------------------------------------------------------
(* Administration, in threads.                                             *)

\* Variant: without the revision, any settlement that left this status will do.
Intact_Status(a) ==
    LET d == payment[a].debt
    IN  /\ owner[d[1]].status = settlement[a].ownerAfter
        /\ state[d] = settlement[a].after

\* A settlement may be taken back while its debt and the owner are as it left
\* them: the revision makes it the latest of its owner.
Intact(a) ==
    LET d == payment[a].debt
    IN  /\ owner[d[1]].status = settlement[a].ownerAfter
        /\ owner[d[1]].revision = settlement[a].revision
        /\ state[d] = settlement[a].after

ReversePayment(a) ==
    LET d == payment[a].debt
    IN  /\ payment[a].status = "approved"
        /\ InForce(a)
        /\ ~\E q \in Requests : HoldsDebt(q, d)
        /\ Intact(a)
        /\ paid' = [paid EXCEPT ![d] = @ - settlement[a].applied]
        /\ state' = [state EXCEPT ![d] = settlement[a].before]
        /\ owner' = [owner EXCEPT ![d[1]] =
               [status |-> settlement[a].ownerBefore, revision |-> @.revision + 1]]
        /\ undone' = [undone EXCEPT ![a] = day]
        /\ UNCHANGED <<day, terms, rejected, payment, settlement, provider, request, hook>>

RequestAgreement(n) ==
    /\ owner["loan"].status = "ACTIVE"
    /\ owner["agreement"].status = "none"
    /\ Outstanding > 0
    /\ owner' = [owner EXCEPT !["agreement"] = [status |-> "REQUESTED", revision |-> 0]]
    /\ terms' = [asked |-> Outstanding, found |-> 0, parts |-> n]
    /\ UNCHANGED <<day, paid, state, rejected, payment, books, provider, request, hook>>

\* One REJECTED agreement per loan: the unique index refuses another.
Reject ==
    /\ owner["agreement"].status = "REQUESTED"
    /\ ~rejected
    /\ rejected' = TRUE
    /\ owner' = [owner EXCEPT !["agreement"] = [status |-> "none", revision |-> 0]]
    /\ terms' = [asked |-> 0, found |-> 0, parts |-> 0]
    /\ UNCHANGED <<day, paid, state, payment, books, provider, request, hook>>

\* What is open must still be what was asked for, to the cent.
StillAsked == Outstanding > 0 /\ Outstanding - terms.asked \in -1..1

\* The installments that are not paid become AGREED and the loan RESTRUCTURED,
\* under the lock of the loan.
Approve ==
    /\ owner["agreement"].status = "REQUESTED"
    /\ StillAsked
    /\ \A d \in DebtsOf("loan") :
          state[d] # "PAID" => ~\E q \in Requests : HoldsDebt(q, d)
    /\ terms' = [terms EXCEPT !.found = Outstanding]
    /\ state' = [d \in Debts |-> IF d[1] = "loan" /\ state[d] # "PAID" THEN "AGREED"
                                 ELSE state[d]]
    /\ owner' = [loan |-> [status |-> "RESTRUCTURED", revision |-> owner["loan"].revision + 1],
                 agreement |-> [status |-> "APPROVED",
                                revision |-> owner["agreement"].revision + 1]]
    /\ UNCHANGED <<day, paid, rejected, payment, books, provider, request, hook>>

-----------------------------------------------------------------------------
\* Midnight.  Nothing of the loop is between two of its transactions then.
Tick == /\ day < LastDay
        /\ \A r \in Requests : request[r].pc # "inserting"
        /\ day' = day + 1
        /\ UNCHANGED <<debts, payment, books, provider, request, hook>>

\* The server dies and comes back.
Restart == /\ request' = [r \in Requests |-> Idle]
           /\ hook' = NoHook
           /\ UNCHANGED <<day, debts, payment, books, provider>>

Charging(r) == \/ \E d \in Debts : \/ Reserve(r, d) \/ Reuse(r, d) \/ Retire(r, d)
                                   \/ ReserveStalls(r, d) \/ ReservePart(r, d)
               \/ Insert(r) \/ ProviderCreates(r) \/ AnswerStalls(r)
               \/ Bind(r) \/ Preserve(r) \/ CallFails(r)

Webhook == \/ \E a \in Ids : Receive(a)
           \/ Confirm \/ GiveUp \/ Refuse \/ SettleLoan \/ SettlePart \/ KnownPart

Office == \/ \E a \in Ids : ReversePayment(a)
          \/ \E n \in Plans : RequestAgreement(n)
          \/ Reject \/ Approve

Next == \/ \E r \in Requests : Charging(r)
        \/ \E a \in Ids : Pay(a)
        \/ Webhook
        \/ Office
        \/ Tick \/ Restart

Spec == Init /\ [][Next]_vars

-----------------------------------------------------------------------------
Statuses == {"OPEN", "PARTIAL", "PAID", "AGREED"}
Marks    == {"none", "UNKNOWN", "REQUIRED", "STALE", "MISMATCH"}
Attempts == {"none", "PENDING", "APPROVED", "EXPIRED", "SUPERSEDED"}
Stages   == [loan      |-> {"ACTIVE", "RESTRUCTURED", "PAID"},
             agreement |-> {"none", "REQUESTED", "APPROVED", "SETTLED"}]

\* Type invariant: also, no debt holds more than a number of cents, and only
\* the states of the loan and the agreement that the code writes occur.
TypeOK ==
    /\ day \in 1..LastDay
    /\ paid \in [Debts -> Nat]
    /\ state \in [Debts -> Statuses]
    /\ owner \in [Owners -> [status : Stages.loan \union Stages.agreement, revision : Nat]]
    /\ \A o \in Owners : owner[o].status \in Stages[o]
    /\ terms \in [asked : Nat, found : Nat, parts : Plans \union {0}]
    /\ rejected \in BOOLEAN
    /\ payment \in [Ids -> [debt : Debts \union {NoDebt}, on : 0..LastDay, amount : Nat,
                            attempt : Attempts, status : {"pending", "approved"},
                            mark : Marks, bound : BOOLEAN]]
    /\ settlement \in [Ids -> [applied : Nat, before : Statuses \union {"none"},
                               after : Statuses \union {"none"},
                               ownerBefore : Stages.loan \union Stages.agreement,
                               ownerAfter : Stages.loan \union Stages.agreement,
                               revision : Nat]]
    /\ undone \in [Ids -> 0..LastDay]
    /\ order \in [Ids -> [status : {"none", "open", "paid"}, amount : Receivable \union {0},
                          on : 0..LastDay]]
    /\ event \in [Ids -> 0..Notices]
    /\ request \in [Requests -> [pc : {"idle", "inserting", "calling", "created", "stalled"},
                                 debt : Debts \union {NoDebt}, amount : Nat,
                                 id : Ids \union {0}, holds : BOOLEAN, mark : Marks]]
    /\ hook \in [pc : {"idle", "asking", "deciding"},
                 id : Ids \union {0},
                 seen : {"none", "pending", "approved"}]

\* What a debt counts as paid is the money of its settlements that were not
\* reversed, and its status says how much that is: no order of settlements,
\* reversals and the approval of an agreement separates the columns of
\* LoanInstallment and AgreementInstallment from the receipts.
DebtMatchesReceipts ==
    \A o \in Owners : \A d \in DebtsOf(o) :
        /\ paid[d] = Received({a \in Ids : payment[a].debt = d /\ InForce(a)})
        /\ state[d] = "PAID" => paid[d] = Owed(d)
        /\ state[d] = "OPEN" => paid[d] = 0
        /\ state[d] = "PARTIAL" => paid[d] \in 1..(Owed(d) - 1)
        /\ state[d] = "AGREED" => paid[d] < Owed(d)

\* The loan is PAID when its installments are and the agreement SETTLED when its
\* are, also after reversals; installments are AGREED only in a restructured loan.
OwnerFollowsDebts ==
    /\ owner["loan"].status = "PAID"
           <=> \A d \in DebtsOf("loan") : state[d] = "PAID"
    /\ owner["agreement"].status \in {"APPROVED", "SETTLED"} =>
           /\ owner["agreement"].status = "SETTLED"
                  <=> \A d \in DebtsOf("agreement") : state[d] = "PAID"
           /\ owner["loan"].status # "ACTIVE"
    /\ owner["agreement"].status \in {"none", "REQUESTED"} =>
           \A d \in DebtsOf("loan") : state[d] # "AGREED"

\* The columns of the debts and of who owns them agree with the receipts.
DebtsAgree == DebtMatchesReceipts /\ OwnerFollowsDebts

\* A notification of a payment is closed only when the money was applied or
\* the attempt is marked for reconciliation.
ClosedMoneyIsKnown ==
    \A a \in Ids : order[a].status = "paid" /\ event[a] < Notices =>
        Settled(a) \/ payment[a].mark # "none"

\* An attempt ends once: nothing turns an expired, superseded or approved attempt
\* into another, although bind_provider works on a row it read before its await.
AttemptsEndOnce ==
    [][\A a \in Ids :
          payment[a].attempt \in {"APPROVED", "EXPIRED", "SUPERSEDED"}
              => payment'[a].attempt = payment[a].attempt]_vars

\* What the debts of an owner come to.
Total(o) == SumFunctionOnSet([d \in DebtsOf(o) |-> Owed(d)], DebtsOf(o))

\* The parts of an agreement add up to what the loan had open when it was
\* approved, and that stays so: no receipt of the loan from before the approval
\* can be reversed any more (decide_agreement, _reverse_loan_payment).
AgreementCoversDebt ==
    owner["agreement"].status \in {"APPROVED", "SETTLED"} =>
        Total("agreement")
      + Received({a \in Ids : InForce(a) /\ settlement[a].ownerBefore = "ACTIVE"})
      = Total("loan")

\* The fund collects a debt once, by the installments of the loan or by those of
\* the agreement that replaced them.
DebtIsCollectedOnce == SumFunctionOnSet(paid, Debts) <= Total("loan")

=============================================================================
