-------------------------- MODULE PixSettlement --------------------------
(***************************************************************************)
(* One Pix charge per contribution: its creation at the payment provider,  *)
(* the provider's notifications, the settlement they cause, and its        *)
(* reversal.  Sources: api/payments.py, services/contribution_pix_attempts *)
(* .py, payment_settlement.py, payment_reversal.py, ledger.py and the      *)
(* cancellation in cycle_participation.py.                                 *)
(*                                                                         *)
(* A contribution has at most one Payment row, because the idempotency key *)
(* is a function of the contribution and unique; the payment of            *)
(* contribution c is therefore called c too.                               *)
(*                                                                         *)
(* What runs at the same time.  create_pix, the webhook and the replay are *)
(* coroutines of ONE event loop that call the database synchronously: they *)
(* interleave only where they await the provider.  A coroutine that waits  *)
(* for a row lock stops the loop.  Cancellation (worker, exit endpoint)    *)
(* and reversals (thread pool) interleave with every transaction.          *)
(***************************************************************************)
EXTENDS LedgerBook

CONSTANTS Contribs,     \* contributions, named by number
          Amount,       \* what each of them owes
          Receivable,   \* amounts the provider may report as received
          Handlers,     \* webhook and replay requests the server runs at once
          Generic       \* whether administrators use the ledger's own reversal

ASSUME ContribsAssumption   == Contribs \subseteq Nat \ {0}
ASSUME AmountAssumption     == Amount \in Nat \ {0}
ASSUME ReceivableAssumption == Receivable \subseteq Nat \ {0}
ASSUME GenericAssumption    == Generic \in BOOLEAN

VARIABLES
    paid,       \* paid_amount of each contribution
    cancelled,  \* contributions with a cancelled_at
    payment,    \* the Payment row of each contribution
    applied,    \* amount_applied of its PaymentSettlement, 0 without one
    reversed,   \* payments with a PaymentReversal
    patrimony,  \* net credit of MemberFinancialEntry for each contribution
    ledger,     \* the book
    order,      \* the provider's order
    event,      \* the provider's notifications and their WebhookEvent rows
    request,    \* create_pix, past its reservation
    handler     \* webhook and replay requests, past their first commit

local == <<paid, cancelled, payment, applied, reversed, patrimony, ledger>>
vars  == <<paid, cancelled, payment, applied, reversed, patrimony, ledger,
           order, event, request, handler>>

Confirmed     == {"approved", "processed"}
OrderStatuses == {"pending", "refunded", "cancelled"} \union Confirmed
Notices       == {"created", "paid", "refunded", "cancelled"}
Events        == Contribs \X Notices

Charge(status, attempt, recon, bound) ==
    [status |-> status, attempt |-> attempt, recon |-> recon, bound |-> bound]

NoPayment == Charge("absent", "none", "none", FALSE)
NoOrder   == [status |-> "none", amount |-> 0]
Idle      == [pc |-> "idle", event |-> <<0, "none">>, copy |-> NoPayment,
              remote |-> NoOrder]

Live(c)    == c \notin cancelled
IsPaid(c)  == Live(c) /\ paid[c] >= Amount
Settled(c) == applied[c] > 0

Init == /\ paid = [c \in Contribs |-> 0]
        /\ cancelled = {}
        /\ payment = [c \in Contribs |-> NoPayment]
        /\ applied = [c \in Contribs |-> 0]
        /\ reversed = {}
        /\ patrimony = [c \in Contribs |-> 0]
        /\ ledger = <<>>
        /\ order = [c \in Contribs |-> NoOrder]
        /\ event = [e \in Events |-> "unsent"]
        /\ request = [c \in Contribs |-> "idle"]
        /\ handler = [h \in Handlers |-> Idle]

-----------------------------------------------------------------------------
(* Creating the charge.                                                    *)

\* The loop runs another coroutine only while nobody computes or waits for a
\* lock on it.
LoopIsFree == \A h \in Handlers : handler[h].pc \notin {"settling", "stalled"}

\* Lock the contribution, refuse it when paid, cancelled or already charged,
\* insert the PENDING row and commit.  A repeated request finds the row and
\* changes nothing.
Reserve(c) ==
    /\ LoopIsFree
    /\ Live(c) /\ ~IsPaid(c)
    /\ payment[c] = NoPayment
    /\ payment' = [payment EXCEPT ![c] = Charge("pending", "PENDING", "none", FALSE)]
    /\ request' = [request EXCEPT ![c] = "calling"]
    /\ UNCHANGED <<paid, cancelled, applied, reversed, patrimony, ledger, order,
                   event, handler>>

\* The provider accepts the order; its answer is still on the way.
ProviderCreates(c) ==
    /\ request[c] = "calling"
    /\ order' = [order EXCEPT ![c] = [status |-> "pending", amount |-> 0]]
    /\ event' = [event EXCEPT ![<<c, "created">>] = "sent"]
    /\ request' = [request EXCEPT ![c] = "created"]
    /\ UNCHANGED <<local, handler>>

\* bind_provider: the provider's identity is stored and the attempt is over.
Bind(c) ==
    /\ LoopIsFree
    /\ request[c] = "created"
    /\ payment' = [payment EXCEPT ![c] = Charge("pending", "none", "none", TRUE)]
    /\ request' = [request EXCEPT ![c] = "idle"]
    /\ UNCHANGED <<paid, cancelled, applied, reversed, patrimony, ledger, order,
                   event, handler>>

\* bind_provider failed; preserve_provider_result_for_reconciliation keeps the
\* identity, but the attempt stays PENDING.
Preserve(c) ==
    /\ LoopIsFree
    /\ request[c] = "created"
    /\ payment' = [payment EXCEPT ![c] = Charge("pending", "PENDING", "REQUIRED", TRUE)]
    /\ request' = [request EXCEPT ![c] = "idle"]
    /\ UNCHANGED <<paid, cancelled, applied, reversed, patrimony, ledger, order,
                   event, handler>>

\* The call failed.  Nobody knows whether the order exists (mark_ambiguous), or
\* the provider refused it (mark_reconciliation_required).
CreateFails(c) ==
    /\ LoopIsFree
    /\ \E mark \in {"UNKNOWN", "REQUIRED"} :
          /\ request[c] = "calling" \/ (request[c] = "created" /\ mark = "UNKNOWN")
          /\ payment' = [payment EXCEPT ![c] =
                 Charge(@.status, @.attempt, mark, @.bound)]
    /\ request' = [request EXCEPT ![c] = "idle"]
    /\ UNCHANGED <<paid, cancelled, applied, reversed, patrimony, ledger, order,
                   event, handler>>

-----------------------------------------------------------------------------
(* The provider, seen through get_order and its notifications.             *)

Pay(c) ==
    /\ order[c].status = "pending"
    /\ \E s \in Confirmed, a \in Receivable :
          order' = [order EXCEPT ![c] = [status |-> s, amount |-> a]]
    /\ event' = [event EXCEPT ![<<c, "paid">>] = "sent"]
    /\ UNCHANGED <<local, request, handler>>

Refund(c) ==
    /\ order[c].status \in Confirmed
    /\ order' = [order EXCEPT ![c] = [status |-> "refunded", amount |-> @.amount]]
    /\ event' = [event EXCEPT ![<<c, "refunded">>] = "sent"]
    /\ UNCHANGED <<local, request, handler>>

Expire(c) ==
    /\ order[c].status = "pending"
    /\ order' = [order EXCEPT ![c] = [status |-> "cancelled", amount |-> @.amount]]
    /\ event' = [event EXCEPT ![<<c, "cancelled">>] = "sent"]
    /\ UNCHANGED <<local, request, handler>>

-----------------------------------------------------------------------------
(* The webhook and the replay: _process_mercado_pago_event.                *)

EventOf(h)  == handler[h].event
ContribOf(h) == handler[h].event[1]

\* The event row is locked from its SELECT ... FOR UPDATE to the end of the
\* transaction, across the call to the provider.
Locked(e) == \E h \in Handlers : /\ handler[h].pc \in {"asking", "answered", "settling"}
                                 /\ EventOf(h) = e

End(h) == handler' = [handler EXCEPT ![h] = Idle]

\* SQLAlchemy writes a column only when its new value differs from the value
\* the row was loaded with; otherwise the column keeps what the table holds.
Written(current, loaded, new) == IF new # loaded THEN new ELSE current

\* A notification nobody can match is closed.
Receive_ClosesOrphans(h, e) ==
    /\ LoopIsFree
    /\ handler[h].pc = "idle"
    /\ event[e] \in {"sent", "stored"}
    /\ event' = [event EXCEPT ![e] = IF payment[e[1]].bound THEN "stored" ELSE "processed"]
    /\ handler' = IF payment[e[1]].bound
                  THEN [handler EXCEPT ![h] = [pc |-> "asking", event |-> e,
                            copy |-> payment[e[1]], remote |-> NoOrder]]
                  ELSE handler
    /\ UNCHANGED <<local, order, request>>

\* A notification arrives, or an administrator replays a stored one.  The row is
\* committed, then locked.  Without a payment of that identity it stays stored;
\* with one, the payment is loaded and the provider asked.
Receive(h, e) ==
    /\ LoopIsFree
    /\ handler[h].pc = "idle"
    /\ event[e] \in {"sent", "stored"}
    /\ event' = [event EXCEPT ![e] = "stored"]
    /\ CASE Locked(e) ->
              handler' = [handler EXCEPT ![h] = [pc |-> "stalled", event |-> e,
                             copy |-> NoPayment, remote |-> NoOrder]]
         [] ~Locked(e) /\ payment[e[1]].bound ->
              handler' = [handler EXCEPT ![h] = [pc |-> "asking", event |-> e,
                             copy |-> payment[e[1]], remote |-> NoOrder]]
         [] OTHER -> UNCHANGED handler
    /\ UNCHANGED <<local, order, request>>

\* The provider's answer shows the order as it is now.
Answer(h) ==
    /\ handler[h].pc = "asking"
    /\ handler' = [handler EXCEPT ![h] =
           [pc |-> "answered", event |-> @.event, copy |-> @.copy,
            remote |-> order[ContribOf(h)]]]
    /\ UNCHANGED <<local, order, event, request>>

\* No usable answer: roll back, the event stays stored.
NoAnswer(h) ==
    /\ LoopIsFree
    /\ handler[h].pc = "asking"
    /\ End(h)
    /\ UNCHANGED <<local, order, event, request>>

\* The coroutine resumes with an answer that is no confirmation.
RecordStatus(h) ==
    LET c == ContribOf(h)
        copy == handler[h].copy
        seen == handler[h].remote.status
    IN  /\ LoopIsFree
        /\ handler[h].pc = "answered"
        /\ seen \notin Confirmed
        /\ payment' = [payment EXCEPT ![c] =
               Charge(Written(@.status, copy.status, seen), @.attempt,
                      IF seen = "refunded" THEN Written(@.recon, copy.recon, "REQUIRED")
                                           ELSE @.recon, @.bound)]
        /\ event' = [event EXCEPT ![EventOf(h)] = "processed"]
        /\ End(h)
        /\ UNCHANGED <<paid, cancelled, applied, reversed, patrimony, ledger,
                       order, request>>

\* The event of a cancelled contribution is closed like any other.
RefuseCancelled_ClosesEvent(h) ==
    LET c == ContribOf(h)
        copy == handler[h].copy
    IN  /\ LoopIsFree
        /\ handler[h].pc = "answered"
        /\ handler[h].remote.status \in Confirmed
        /\ ~Live(c) /\ ~Settled(c)
        /\ payment' = [payment EXCEPT ![c] =
               Charge(Written(@.status, copy.status, handler[h].remote.status), @.attempt,
                      Written(@.recon, copy.recon, "REQUIRED"), @.bound)]
        /\ event' = [event EXCEPT ![EventOf(h)] = "processed"]
        /\ End(h)
        /\ UNCHANGED <<paid, cancelled, applied, reversed, patrimony, ledger,
                       order, request>>

\* A confirmation for a contribution already cancelled: keep the evidence, leave
\* the event stored.
RefuseCancelled(h) ==
    LET c == ContribOf(h)
        copy == handler[h].copy
    IN  /\ LoopIsFree
        /\ handler[h].pc = "answered"
        /\ handler[h].remote.status \in Confirmed
        /\ ~Live(c) /\ ~Settled(c)
        /\ payment' = [payment EXCEPT ![c] =
               Charge(Written(@.status, copy.status, handler[h].remote.status), @.attempt,
                      Written(@.recon, copy.recon, "REQUIRED"), @.bound)]
        /\ End(h)
        /\ UNCHANGED <<paid, cancelled, applied, reversed, patrimony, ledger,
                       order, event, request>>

\* A confirmation for a live contribution: on to settle_confirmed_pix_payment.
\* The loop is busy, other threads and processes are not.
GoSettle(h) ==
    /\ LoopIsFree
    /\ handler[h].pc = "answered"
    /\ handler[h].remote.status \in Confirmed
    /\ Live(ContribOf(h)) \/ Settled(ContribOf(h))
    /\ handler' = [handler EXCEPT ![h] =
           [pc |-> "settling", event |-> @.event, copy |-> @.copy, remote |-> @.remote]]
    /\ UNCHANGED <<local, order, event, request>>

\* The attempt slot is released from the copy the handler loaded, together with
\* the reconciliation mark.
Releases(h) == handler[h].copy.attempt = "PENDING" /\ handler[h].copy.recon = "REQUIRED"

\* The cancellation is looked at before the locks only.
Verdict_NoRecheck(c) == IF Settled(c) THEN "known" ELSE "apply"

\* What the settlement decides under the locks of payment, account and
\* contribution, whatever was read before.
Verdict(c) == IF Settled(c) THEN "known" ELSE IF Live(c) THEN "apply" ELSE "refuse"

\* The amount received is applied whole.
Least_Uncapped(a, b) == a

Least(a, b) == IF a <= b THEN a ELSE b

\* A settlement that exists is kept; a contribution cancelled meanwhile refuses
\* the money and rolls back; otherwise money, ledger row, patrimony, settlement
\* and event commit together.
Settle(h) ==
    LET c == ContribOf(h)
        take == Least(handler[h].remote.amount, Amount - paid[c])
        seen == Written(payment[c].status, handler[h].copy.status, handler[h].remote.status)
        done == [event EXCEPT ![EventOf(h)] = "processed"]
    IN  /\ handler[h].pc = "settling"
        /\ \/ /\ Verdict(c) = "known"
              /\ payment' = [payment EXCEPT ![c] = Charge(seen, @.attempt, @.recon, @.bound)]
              /\ event' = done
              /\ UNCHANGED <<paid, applied, patrimony, ledger>>
           \/ /\ Verdict(c) = "refuse"
              /\ UNCHANGED <<paid, payment, applied, patrimony, ledger, event>>
           \/ /\ Verdict(c) = "apply"
              /\ paid' = [paid EXCEPT ![c] = @ + take]
              /\ applied' = [applied EXCEPT ![c] = take]
              /\ ledger' = Credited(ledger, c, take)
              /\ patrimony' = [patrimony EXCEPT
                     ![c] = IF paid[c] + take >= Amount THEN @ + Amount ELSE @]
              /\ payment' = [payment EXCEPT ![c] =
                     IF Releases(h) THEN Charge(seen, "none", "none", @.bound)
                                    ELSE Charge(seen, @.attempt, @.recon, @.bound)]
              /\ event' = done
        /\ End(h)
        /\ UNCHANGED <<cancelled, reversed, order, request>>

-----------------------------------------------------------------------------
(* Cancellation and reversals: other threads and processes.                *)

\* A voluntary exit or a delinquency block cancels what is not fully paid.
Cancel(c) ==
    /\ Live(c) /\ ~IsPaid(c)
    /\ cancelled' = cancelled \union {c}
    /\ UNCHANGED <<paid, payment, applied, reversed, patrimony, ledger, order, event,
                   request, handler>>

\* The patrimonial credit is forgotten.
ReversePayment_KeepsPatrimony(c) ==
    LET rest == paid[c] - applied[c]
    IN  /\ payment[c].status = "approved"
        /\ Settled(c) /\ c \notin reversed
        /\ rest >= 0
        /\ \E i \in OriginalRows(ledger, c, applied[c]) : ledger' = Reversed(ledger, i)
        /\ reversed' = reversed \union {c}
        /\ paid' = [paid EXCEPT ![c] = rest]
        /\ UNCHANGED <<cancelled, payment, applied, patrimony, order, event, request, handler>>

\* reverse_payment takes the money off the contribution, appends the
\* compensating row and, when the contribution stops being paid, takes the
\* patrimonial credit back.
ReversePayment(c) ==
    LET rest == paid[c] - applied[c]
    IN  /\ payment[c].status = "approved"
        /\ Settled(c) /\ c \notin reversed
        /\ rest >= 0
        /\ \E i \in OriginalRows(ledger, c, applied[c]) : ledger' = Reversed(ledger, i)
        /\ reversed' = reversed \union {c}
        /\ paid' = [paid EXCEPT ![c] = rest]
        /\ patrimony' = [patrimony EXCEPT
               ![c] = IF IsPaid(c) /\ rest < Amount THEN 0 ELSE @]
        /\ UNCHANGED <<cancelled, payment, applied, order, event, request, handler>>

\* POST /ledger/{entry_id}/reverse: the generic reversal accepts the row of a
\* contribution payment and appends to the ledger only.
ReverseEntry(i) ==
    /\ Generic
    /\ Reversible(ledger, i)
    /\ ledger' = Reversed(ledger, i)
    /\ UNCHANGED <<paid, cancelled, payment, applied, reversed, patrimony, order,
                   event, request, handler>>

\* The server process dies and comes back: locks and coroutines are gone.
Restart ==
    /\ request' = [c \in Contribs |-> "idle"]
    /\ handler' = [h \in Handlers |-> Idle]
    /\ UNCHANGED <<local, order, event>>

-----------------------------------------------------------------------------
Creating(c) == Reserve(c) \/ Bind(c) \/ Preserve(c) \/ CreateFails(c)
Provider(c) == ProviderCreates(c) \/ Pay(c) \/ Refund(c) \/ Expire(c)
Handling(h) == \/ \E e \in Events : Receive(h, e)
               \/ Answer(h) \/ NoAnswer(h) \/ RecordStatus(h)
               \/ RefuseCancelled(h) \/ GoSettle(h) \/ Settle(h)
Office      == \/ \E c \in Contribs : Cancel(c) \/ ReversePayment(c)
               \/ \E i \in DOMAIN ledger : ReverseEntry(i)

Next == \/ \E c \in Contribs : Creating(c) \/ Provider(c)
        \/ \E h \in Handlers : Handling(h)
        \/ Office
        \/ Restart

Spec == Init /\ [][Next]_vars

\* A coroutine that may run does; the provider answers in the end; a notification
\* that was not confirmed comes again, from the provider or from the replay.  The
\* server may restart at any point, so each of these is strong.
Fairness == /\ \A h \in Handlers : /\ SF_vars(Answer(h))
                                   /\ SF_vars(RecordStatus(h) \/ RefuseCancelled(h))
                                   /\ SF_vars(GoSettle(h)) /\ SF_vars(Settle(h))
            /\ \A e \in Events : SF_vars(\E h \in Handlers : Receive(h, e))

FairSpec == Spec /\ Fairness

-----------------------------------------------------------------------------
Copies == [status : {"absent"} \union OrderStatuses, attempt : {"none", "PENDING"},
           recon : {"none", "UNKNOWN", "REQUIRED"}, bound : BOOLEAN]
Orders == [status : {"none"} \union OrderStatuses, amount : Receivable \union {0}]
Tasks  == [pc : {"idle", "asking", "answered", "settling", "stalled"},
           event : Events \union {<<0, "none">>}, copy : Copies, remote : Orders]

\* Type invariant: a row of the book has a positive amount, a contribution never
\* holds more than it owes, and a coroutine past its first commit has an event.
TypeOK ==
    /\ paid \in [Contribs -> 0..Amount]
    /\ cancelled \subseteq Contribs
    /\ payment \in [Contribs -> Copies]
    /\ applied \in [Contribs -> 0..Amount]
    /\ reversed \subseteq Contribs
    /\ patrimony \in [Contribs -> {0, Amount}]
    /\ ledger \in Seq(Row)
    /\ order \in [Contribs -> Orders]
    /\ event \in [Events -> {"unsent", "sent", "stored", "processed"}]
    /\ request \in [Contribs -> {"idle", "calling", "created"}]
    /\ handler \in [Handlers -> Tasks]

\* What a contribution holds is what its settlement applied, and nothing once
\* that payment is reversed: settlement and reversal write both sides in one
\* transaction however they interleave (settle_confirmed_pix_payment,
\* reverse_payment).
MoneyIsAccountedFor ==
    \A c \in Contribs :
        paid[c] = IF c \in reversed THEN 0 ELSE applied[c]

\* The rows that confirm payment c and stand in the fund.
StandingRows(c) == {i \in PaymentRows(ledger, c) : Standing(ledger, i)}

\* The fund and the contributions agree: a contribution holds money exactly when
\* one standing ledger row of its payment, of the same amount, says so.  Only an
\* administrator's generic reversal can separate them (ledger.py reverse_entry).
LedgerMatchesContributions ==
    \A c \in Contribs :
        /\ \A i \in StandingRows(c) : ledger[i].amount = paid[c]
        /\ \A i, j \in PaymentRows(ledger, c) : i = j
        /\ ~Generic /\ paid[c] > 0 => StandingRows(c) # {}

\* The book is reversed by the rules of docs/v0.35-security-finance.md: one
\* reversal per row, never of a reversal, of equal amount and opposite side,
\* with two endpoints competing to write it.
ReversalsAreSound ==
    \A i, j \in DOMAIN ledger :
        ledger[j].reversalOf = i =>
            /\ i < j
            /\ ledger[i].reversalOf = 0
            /\ ledger[i].amount = ledger[j].amount
            /\ ledger[i].direction # ledger[j].direction
            /\ ReversalsOf(ledger, i) = {j}

\* A member's patrimony holds the credit of a contribution exactly while that
\* contribution is paid in full (MemberFinancialEntry of settlement and reversal).
PatrimonyFollowsPaid ==
    \A c \in Contribs : patrimony[c] = IF IsPaid(c) THEN Amount ELSE 0

\* The contribution, the fund and the member's patrimony tell one story.
BooksAgree == MoneyIsAccountedFor /\ LedgerMatchesContributions /\ PatrimonyFollowsPaid

\* Closing the notification of a payment means the money was dealt with: it was
\* settled, or the provider had taken the payment back by then.  A confirmation
\* that meets a cancellation stays stored for reconciliation.
NoPaymentIsForgotten ==
    \A c \in Contribs :
        event[<<c, "paid">>] = "processed" =>
            Settled(c) \/ order[c].status = "refunded"

\* A cancelled contribution takes no more money, even when the cancellation
\* commits between the handler's look at it and its locks.
CancelledTakesNoMoney ==
    [][\A c \in Contribs :
          c \in cancelled => paid'[c] <= paid[c]]_vars

\* Money the provider confirmed and no settlement applied is always marked for
\* reconciliation (api/payments.py, the cancelled branch of the webhook).
UnappliedMoneyIsMarked ==
    \A c \in Contribs :
        payment[c].status \in Confirmed /\ ~Settled(c) => payment[c].recon = "REQUIRED"

\* No confirmed money is lost from sight: its notification stays open or it was
\* dealt with, and what was not applied is marked.
NoMoneyIsLost == NoPaymentIsForgotten /\ UnappliedMoneyIsMarked

\* The phase of a charge, as the abstract specification sees it.
Phase(c) == IF c \in reversed THEN "undone" ELSE IF Settled(c) THEN "confirmed" ELSE "open"

Money == INSTANCE ContributionMoney WITH
             phase <- [c \in Contribs |-> Phase(c)],
             held  <- paid,
             fund  <- [c \in Contribs |-> IF StandingRows(c) # {} THEN applied[c] ELSE 0]

\* The services keep the promise of ContributionMoney: one confirmation and one
\* undoing per charge, with the fund and the contribution moving together.
ImplementsContributionMoney == Money!Spec

\* A payment the provider confirmed for a live contribution is settled in the end,
\* unless the contribution is cancelled or the provider takes the payment back.
ConfirmedIsSettled ==
    \A c \in Contribs :
        (order[c].status \in Confirmed /\ payment[c].bound)
            ~> (Settled(c) \/ ~Live(c) \/ order[c].status = "refunded")

\* A refund the provider reported is found by reconciliation: whoever could see
\* the mark before still sees it, or the status, afterwards.
RefundGoesToReconciliation ==
    [][\A c \in Contribs :
          payment[c].status = "refunded" /\ payment[c].recon = "REQUIRED"
              => payment'[c].recon = "REQUIRED"]_vars

=============================================================================
