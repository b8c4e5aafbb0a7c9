----------------------- MODULE PixSettlement_proofs -----------------------
(***************************************************************************)
(* Proofs about PixSettlement for any set of contributions, any amount     *)
(* owed, any amounts received and any number of overlapping requests.      *)
(***************************************************************************)
EXTENDS PixSettlement, TLAPS

-----------------------------------------------------------------------------
(* The inductive invariant.                                                *)

(* The provider is asked about orders it has, a request in progress holds  *)
(* a real event, and a confirmation always comes with an amount.           *)
Known(o) == /\ o.status \in OrderStatuses
            /\ o.status \in Confirmed => o.amount \in Receivable

OrderInv == \A c \in Contribs :
    order[c].status # "none" \/ payment[c].bound \/ request[c] = "created" => Known(order[c])

TaskInv == \A h \in Handlers :
    /\ handler[h].pc \in {"asking", "answered", "settling"} => EventOf(h) \in Events
    /\ handler[h].pc = "asking" => Known(order[ContribOf(h)])
    /\ handler[h].pc \in {"answered", "settling"} => Known(handler[h].remote)
    /\ handler[h].pc = "settling" => handler[h].remote.status \in Confirmed

(* A row either confirms the payment of its number, with the amount the    *)
(* settlement applied, or takes an earlier confirmation back.              *)
Confirms(i) == ledger[i].reversalOf = 0

WellFormed(i) ==
    IF Confirms(i)
    THEN /\ ledger[i].type = PaymentRow
         /\ ledger[i].direction = "CREDIT"
         /\ ledger[i].ref \in Contribs
         /\ ledger[i].amount = applied[ledger[i].ref]
    ELSE /\ ledger[i].type = ReversalRow
         /\ ledger[i].reversalOf \in DOMAIN ledger
         /\ ledger[i].reversalOf < i
         /\ Confirms(ledger[i].reversalOf)
         /\ ledger[i].amount = ledger[ledger[i].reversalOf].amount
         /\ ledger[i].direction # ledger[ledger[i].reversalOf].direction

(* Two rows neither confirm the same payment nor reverse the same row.     *)
Apart(i, j) ==
    /\ Confirms(i) /\ Confirms(j) /\ ledger[i].ref = ledger[j].ref => i = j
    /\ ~Confirms(i) /\ ledger[i].reversalOf = ledger[j].reversalOf => i = j

BookInv == /\ \A i \in DOMAIN ledger : WellFormed(i)
           /\ \A i, j \in DOMAIN ledger : Apart(i, j)

(* A settled payment has its confirmation row; of a reversed payment it no *)
(* longer stands.                                                          *)
RowInv ==
    /\ \A c \in Contribs : Settled(c) => PaymentRows(ledger, c) # {}
    /\ \A c \in reversed : Settled(c) /\ StandingRows(c) = {}

(* The converse without generic reversals: a row falls by a reversal of    *)
(* its payment only.                                                       *)
StandInv ==
    ~Generic => \A c \in Contribs : Settled(c) /\ c \notin reversed => StandingRows(c) # {}

IInv == /\ TypeOK
        /\ OrderInv
        /\ TaskInv
        /\ MoneyIsAccountedFor
        /\ BookInv
        /\ RowInv
        /\ StandInv
        /\ PatrimonyFollowsPaid

-----------------------------------------------------------------------------
(* Lemmas about the book.                                                  *)

(* Appending keeps every row and its number. *)
LEMMA AppendRow ==
    ASSUME NEW book \in Seq(Row), NEW row \in Row
    PROVE  LET next == Append(book, row)
           IN  /\ next \in Seq(Row)
               /\ DOMAIN next = DOMAIN book \union {Len(book) + 1}
               /\ Len(book) + 1 \notin DOMAIN book
               /\ \A i \in DOMAIN book : next[i] = book[i] /\ i < Len(book) + 1
               /\ next[Len(book) + 1] = row
               /\ DOMAIN book \subseteq Nat \ {0}
<1> DEFINE next == Append(book, row)
<1>1. Len(book) \in Nat /\ DOMAIN book = 1..Len(book)
  OBVIOUS
<1>2. /\ next \in Seq(Row) /\ DOMAIN next = 1..(Len(book) + 1)
      /\ \A i \in 1..Len(book) : next[i] = book[i]
      /\ next[Len(book) + 1] = row
  OBVIOUS
<1> HIDE DEF next
<1>3. /\ DOMAIN next = DOMAIN book \union {Len(book) + 1}
      /\ Len(book) + 1 \notin DOMAIN book
      /\ \A i \in DOMAIN book : i < Len(book) + 1
      /\ DOMAIN book \subseteq Nat \ {0}
  BY <1>1, <1>2
<1>4. \A i \in DOMAIN book : next[i] = book[i]
  BY <1>1, <1>2
<1> QED BY <1>2, <1>3, <1>4 DEF next

(* A confirmation row is well formed. *)
LEMMA CreditRow ==
    ASSUME NEW n \in Nat, NEW a \in Nat \ {0}
    PROVE  [type |-> PaymentRow, ref |-> n, direction |-> "CREDIT", amount |-> a,
            reversalOf |-> 0] \in Row
BY DEF Row

(* Reversing a row that confirms appends a well-formed row. *)
LEMMA ReversedRow ==
    ASSUME TypeOK, NEW i \in DOMAIN ledger
    PROVE  LET row == [type |-> ReversalRow, ref |-> i,
                       direction |-> Opposite(ledger[i].direction),
                       amount |-> ledger[i].amount, reversalOf |-> i]
           IN  /\ row \in Row
               /\ Reversed(ledger, i) = Append(ledger, row)
               /\ Reversed(ledger, i) \in Seq(Row)
<1>1. ledger \in Seq(Row) /\ ledger[i] \in Row /\ i \in Nat
  BY DEF TypeOK
<1> QED BY <1>1 DEF Row, Reversed, Opposite

-----------------------------------------------------------------------------
(* The rows the actions write are rows of their tables. *)
LEMMA ChargeRows ==
    /\ NoPayment \in Copies
    /\ Charge("pending", "PENDING", "none", FALSE) \in Copies
    /\ Charge("pending", "none", "none", TRUE) \in Copies
    /\ Charge("pending", "PENDING", "REQUIRED", TRUE) \in Copies
    /\ \A p \in Copies, m \in {"UNKNOWN", "REQUIRED"} :
          Charge(p.status, p.attempt, m, p.bound) \in Copies
    /\ \A p, q \in Copies, s \in OrderStatuses :
          LET seen == Written(p.status, q.status, s)
          IN  /\ Charge(seen, p.attempt, p.recon, p.bound) \in Copies
              /\ Charge(seen, "none", "none", p.bound) \in Copies
              /\ Charge(seen, p.attempt, Written(p.recon, q.recon, "REQUIRED"), p.bound) \in Copies
BY DEF Copies, NoPayment, Charge, OrderStatuses, Confirmed, Written

(* The same for the provider's orders. *)
LEMMA OrderRows ==
    /\ NoOrder \in Orders
    /\ [status |-> "pending", amount |-> 0] \in Orders
    /\ \A s \in Confirmed, a \in Receivable : [status |-> s, amount |-> a] \in Orders
    /\ \A o \in Orders, s \in {"refunded", "cancelled"} : [status |-> s, amount |-> o.amount] \in Orders
    /\ \A o \in Orders : o.status \in {"none"} \union OrderStatuses
BY DEF Orders, NoOrder, OrderStatuses, Confirmed

(* The same for the requests. *)
LEMMA TaskRows ==
    /\ Idle \in Tasks
    /\ \A e \in Events, p \in Copies, pc \in {"asking", "stalled"} :
          [pc |-> pc, event |-> e, copy |-> p, remote |-> NoOrder] \in Tasks
    /\ \A t \in Tasks : /\ t.copy \in Copies /\ t.remote \in Orders
                        /\ [pc |-> "settling", event |-> t.event, copy |-> t.copy,
                            remote |-> t.remote] \in Tasks
    /\ \A t \in Tasks, o \in Orders :
          [pc |-> "answered", event |-> t.event, copy |-> t.copy, remote |-> o] \in Tasks
BY ChargeRows, OrderRows DEF Tasks, Idle

-----------------------------------------------------------------------------
(* What a settlement that applies money finds and writes.                  *)

Taken(h) == Least(handler[h].remote.amount, Amount - paid[ContribOf(h)])

Applies(h) ==
    LET c == ContribOf(h)
    IN  /\ ledger' = Append(ledger, [type |-> PaymentRow, ref |-> c, direction |-> "CREDIT",
                                     amount |-> Taken(h), reversalOf |-> 0])
        /\ paid' = [paid EXCEPT ![c] = Taken(h)]
        /\ applied' = [applied EXCEPT ![c] = Taken(h)]
        /\ patrimony' = [patrimony EXCEPT ![c] = IF Taken(h) >= Amount THEN Amount ELSE 0]
        /\ UNCHANGED <<cancelled, reversed, order, request>>

(* The state: an unsettled contribution holds nothing and has no row. *)
LEMMA Unsettled ==
    ASSUME IInv, NEW c \in Contribs, ~Settled(c)
    PROVE  /\ c \notin reversed /\ paid[c] = 0 /\ applied[c] = 0 /\ patrimony[c] = 0
           /\ PaymentRows(ledger, c) = {}
<1>1. applied[c] = 0
  BY AmountAssumption DEF IInv, TypeOK, Settled
<1>2. c \notin reversed /\ paid[c] = 0
  BY <1>1 DEF IInv, RowInv, MoneyIsAccountedFor
<1>3. patrimony[c] = 0
  BY <1>2, AmountAssumption DEF IInv, PatrimonyFollowsPaid, IsPaid
<1>4. PaymentRows(ledger, c) = {}
  <2> SUFFICES ASSUME NEW i \in PaymentRows(ledger, c) PROVE FALSE
    OBVIOUS
  <2>1. i \in DOMAIN ledger /\ ledger[i].ref = c /\ ledger[i].type = PaymentRow
    BY DEF PaymentRows, NumberedAs
  <2>2. Confirms(i)
    BY <2>1 DEF IInv, BookInv, WellFormed, PaymentRow, ReversalRow
  <2>3. ledger[i].amount = 0
    BY <2>1, <2>2, <1>1 DEF IInv, BookInv, WellFormed
  <2>4. ledger[i] \in Row
    BY <2>1 DEF IInv, TypeOK
  <2> QED BY <2>3, <2>4 DEF Row
<1> QED BY <1>1, <1>2, <1>3, <1>4

(* A request about to settle holds a contribution and a positive amount. *)
LEMMA SettlingState ==
    ASSUME IInv, NEW h \in Handlers, handler[h].pc = "settling"
    PROVE  /\ ContribOf(h) \in Contribs
           /\ handler[h].remote.amount \in Receivable
           /\ handler[h].remote.status \in Confirmed
BY DEF IInv, TaskInv, Known, Events, ContribOf, EventOf

(* So does one that has its answer. *)
LEMMA AnsweredState ==
    ASSUME IInv, NEW h \in Handlers, handler[h].pc \in {"asking", "answered", "settling"}
    PROVE  /\ ContribOf(h) \in Contribs /\ EventOf(h) \in Events
           /\ order[ContribOf(h)] \in Orders
           /\ payment[ContribOf(h)] \in Copies
           /\ handler[h].copy \in Copies /\ handler[h].remote \in Orders
           /\ handler[h].pc \in {"answered", "settling"} => handler[h].remote.status \in OrderStatuses
BY DEF IInv, TypeOK, TaskInv, Known, Events, ContribOf, EventOf, Tasks

(* A settlement whose verdict is to apply starts from nothing and writes the *)
(* same amount everywhere. *)
LEMMA ApplyFacts ==
    ASSUME NEW h \in Handlers
    PROVE  IInv /\ Settle(h) /\ Verdict(ContribOf(h)) = "apply" =>
           /\ ContribOf(h) \in Contribs /\ Live(ContribOf(h)) /\ ~Settled(ContribOf(h))
           /\ Taken(h) \in 1..Amount
           /\ [type |-> PaymentRow, ref |-> ContribOf(h), direction |-> "CREDIT",
               amount |-> Taken(h), reversalOf |-> 0] \in Row
           /\ Applies(h)
           /\ ledger' \in Seq(Row)
<1> DEFINE c == ContribOf(h)
           row == [type |-> PaymentRow, ref |-> c, direction |-> "CREDIT",
                   amount |-> Taken(h), reversalOf |-> 0]
<1>0. SUFFICES ASSUME IInv, Settle(h), Verdict(c) = "apply"
               PROVE  /\ c \in Contribs /\ Live(c) /\ ~Settled(c)
                      /\ Taken(h) \in 1..Amount
                      /\ row \in Row
                      /\ Applies(h)
                      /\ ledger' \in Seq(Row)
  OBVIOUS
<1>1. handler[h].pc = "settling"
  BY <1>0 DEF Settle
<1>2. c \in Contribs /\ handler[h].remote.amount \in Nat \ {0}
  BY <1>0, <1>1, SettlingState, ReceivableAssumption
<1>3. Live(c) /\ ~Settled(c)
  BY <1>0 DEF Verdict
<1>4. paid[c] = 0 /\ patrimony[c] = 0 /\ PaymentRows(ledger, c) = {}
  BY <1>0, <1>2, <1>3, Unsettled
<1>5. Taken(h) \in 1..Amount
  BY <1>2, <1>4, AmountAssumption DEF Taken, Least
<1>6. row \in Row
  <2>1. c \in Nat
    BY <1>2, ContribsAssumption
  <2>2. Taken(h) \in Nat \ {0}
    BY <1>5, AmountAssumption
  <2> QED BY <2>1, <2>2, CreditRow
<1>7. /\ ledger' = Credited(ledger, c, Taken(h))
      /\ paid' = [paid EXCEPT ![c] = paid[c] + Taken(h)]
      /\ applied' = [applied EXCEPT ![c] = Taken(h)]
      /\ patrimony' = [patrimony EXCEPT
             ![c] = IF paid[c] + Taken(h) >= Amount THEN patrimony[c] + Amount ELSE patrimony[c]]
      /\ UNCHANGED <<cancelled, reversed, order, request>>
  BY <1>0 DEF Settle, Taken
<1>8. ledger' = Append(ledger, row)
  BY <1>4, <1>7 DEF Credited
<1>9. /\ paid' = [paid EXCEPT ![c] = Taken(h)]
      /\ patrimony' = [patrimony EXCEPT ![c] = IF Taken(h) >= Amount THEN Amount ELSE 0]
  <2>1. paid[c] + Taken(h) = Taken(h) /\ patrimony[c] + Amount = Amount
    BY <1>4, <1>5, AmountAssumption
  <2> QED BY <1>4, <1>7, <2>1
<1>10. ledger' \in Seq(Row)
  BY <1>0, <1>6, <1>8 DEF IInv, TypeOK
<1> QED BY <1>2, <1>3, <1>5, <1>6, <1>7, <1>8, <1>9, <1>10 DEF Applies

(* What a reversal of a payment finds and writes. *)
LEMMA ReverseFacts ==
    ASSUME NEW c \in Contribs
    PROVE  IInv /\ ReversePayment(c) =>
           /\ \E i \in StandingRows(c) : Reversible(ledger, i) /\ ledger' = Reversed(ledger, i)
           /\ Settled(c) /\ c \notin reversed
           /\ paid[c] = applied[c]
           /\ paid' = [paid EXCEPT ![c] = 0]
           /\ patrimony' = [patrimony EXCEPT ![c] = 0]
<1>0. SUFFICES ASSUME IInv, ReversePayment(c)
               PROVE  /\ \E i \in StandingRows(c) : Reversible(ledger, i) /\ ledger' = Reversed(ledger, i)
                      /\ Settled(c) /\ c \notin reversed
                      /\ paid[c] = applied[c]
                      /\ paid' = [paid EXCEPT ![c] = 0]
                      /\ patrimony' = [patrimony EXCEPT ![c] = 0]
  OBVIOUS
<1>1. \E i \in StandingRows(c) : Reversible(ledger, i) /\ ledger' = Reversed(ledger, i)
  BY <1>0 DEF ReversePayment, OriginalRows, Reversible, StandingRows, Standing
<1>2. Settled(c) /\ c \notin reversed
  BY <1>0 DEF ReversePayment
<1>3. paid[c] = applied[c] /\ paid[c] \in 0..Amount
  BY <1>0, <1>2 DEF IInv, TypeOK, MoneyIsAccountedFor
<1>4. paid[c] - applied[c] = 0 /\ 0 < Amount
  BY <1>3, AmountAssumption
<1>5. paid' = [paid EXCEPT ![c] = 0]
  BY <1>0, <1>4 DEF ReversePayment
<1>6. patrimony' = [patrimony EXCEPT ![c] = 0]
  <2>1. patrimony' = [patrimony EXCEPT ![c] = IF IsPaid(c) THEN 0 ELSE patrimony[c]]
    BY <1>0, <1>4 DEF ReversePayment
  <2>2. ~IsPaid(c) => patrimony[c] = 0
    BY <1>0 DEF IInv, PatrimonyFollowsPaid
  <2> QED BY <2>1, <2>2
<1> QED BY <1>1, <1>2, <1>3, <1>5, <1>6

(* Every step keeps the types. *)
LEMMA TypeStep == IInv /\ [Next]_vars => TypeOK'
<1> SUFFICES ASSUME IInv, [Next]_vars PROVE TypeOK'
  OBVIOUS
<1> USE AmountAssumption DEF IInv, TypeOK, local, End
<1>0. CASE UNCHANGED vars
  BY <1>0 DEF vars
<1>1. ASSUME NEW c \in Contribs, Reserve(c) PROVE TypeOK'
  BY <1>1, ChargeRows DEF Reserve
<1>2. ASSUME NEW c \in Contribs, Bind(c) PROVE TypeOK'
  BY <1>2, ChargeRows DEF Bind
<1>3. ASSUME NEW c \in Contribs, Preserve(c) PROVE TypeOK'
  BY <1>3, ChargeRows DEF Preserve
<1>4. ASSUME NEW c \in Contribs, CreateFails(c) PROVE TypeOK'
  <2>1. PICK mark \in {"UNKNOWN", "REQUIRED"} :
           payment' = [payment EXCEPT ![c] =
               Charge(payment[c].status, payment[c].attempt, mark, payment[c].bound)]
    BY <1>4 DEF CreateFails
  <2>2. payment' \in [Contribs -> Copies]
    BY <2>1, ChargeRows
  <2> QED BY <1>4, <2>2 DEF CreateFails
<1>5. ASSUME NEW c \in Contribs, ProviderCreates(c) PROVE TypeOK'
  BY <1>5, OrderRows DEF ProviderCreates
<1>6. ASSUME NEW c \in Contribs, Pay(c) PROVE TypeOK'
  <2>1. PICK s \in Confirmed, a \in Receivable :
           order' = [order EXCEPT ![c] = [status |-> s, amount |-> a]]
    BY <1>6 DEF Pay
  <2>2. order' \in [Contribs -> Orders]
    BY <2>1, OrderRows
  <2> QED BY <1>6, <2>2 DEF Pay
<1>7. ASSUME NEW c \in Contribs, Refund(c) PROVE TypeOK'
  BY <1>7, OrderRows DEF Refund
<1>8. ASSUME NEW c \in Contribs, Expire(c) PROVE TypeOK'
  BY <1>8, OrderRows DEF Expire
<1>9. ASSUME NEW c \in Contribs, Cancel(c) PROVE TypeOK'
  BY <1>9 DEF Cancel
<1>10. ASSUME NEW c \in Contribs, ReversePayment(c) PROVE TypeOK'
  <2>1. PICK i \in StandingRows(c) : ledger' = Reversed(ledger, i)
    BY <1>10, ReverseFacts
  <2>2. ledger' \in Seq(Row)
    BY <2>1, ReversedRow DEF StandingRows, PaymentRows, NumberedAs
  <2>3. paid' = [paid EXCEPT ![c] = 0] /\ patrimony' = [patrimony EXCEPT ![c] = 0]
    BY <1>10, ReverseFacts
  <2> QED BY <1>10, <2>2, <2>3 DEF ReversePayment
<1>11. ASSUME NEW h \in Handlers, Answer(h) PROVE TypeOK'
  BY <1>11, AnsweredState, TaskRows DEF Answer
<1>12. ASSUME NEW h \in Handlers, NoAnswer(h) PROVE TypeOK'
  BY <1>12, TaskRows DEF NoAnswer
<1>13. ASSUME NEW h \in Handlers, RecordStatus(h) PROVE TypeOK'
  BY <1>13, AnsweredState, TaskRows, ChargeRows DEF RecordStatus
<1>14. ASSUME NEW h \in Handlers, RefuseCancelled(h) PROVE TypeOK'
  BY <1>14, AnsweredState, TaskRows, ChargeRows DEF RefuseCancelled, OrderStatuses
<1>15. ASSUME NEW h \in Handlers, GoSettle(h) PROVE TypeOK'
  BY <1>15, TaskRows DEF GoSettle
<1>16. ASSUME NEW h \in Handlers, Settle(h) PROVE TypeOK'
  <2> DEFINE d == ContribOf(h)
             seen == Written(payment[d].status, handler[h].copy.status, handler[h].remote.status)
  <2>1. handler[h].pc = "settling"
    BY <1>16 DEF Settle
  <2>2. d \in Contribs /\ EventOf(h) \in Events
    BY <2>1, AnsweredState
  <2>3. /\ Charge(seen, payment[d].attempt, payment[d].recon, payment[d].bound) \in Copies
        /\ Charge(seen, "none", "none", payment[d].bound) \in Copies
    BY <2>1, AnsweredState, ChargeRows
  <2>4. /\ payment' \in [Contribs -> Copies]
        /\ event' \in [Events -> {"unsent", "sent", "stored", "processed"}]
        /\ handler' \in [Handlers -> Tasks]
        /\ UNCHANGED <<cancelled, reversed, order, request>>
    <3>1. payment' \in [Contribs -> Copies]
      BY <1>16, <2>2, <2>3 DEF Settle
    <3>2. event' \in [Events -> {"unsent", "sent", "stored", "processed"}]
      BY <1>16, <2>2 DEF Settle
    <3>3. handler' \in [Handlers -> Tasks] /\ UNCHANGED <<cancelled, reversed, order, request>>
      BY <1>16, TaskRows DEF Settle
    <3> QED BY <3>1, <3>2, <3>3
  <2>5. CASE Verdict(d) # "apply"
    BY <1>16, <2>4, <2>5 DEF Settle
  <2>6. CASE Verdict(d) = "apply"
    <3>1. d \in Contribs /\ Applies(h) /\ Taken(h) \in 1..Amount
      BY <1>16, <2>6, ApplyFacts
    <3>2. ledger' \in Seq(Row)
      BY <1>16, <2>6, ApplyFacts
    <3>3. paid' \in [Contribs -> 0..Amount] /\ applied' \in [Contribs -> 0..Amount]
      BY <3>1 DEF Applies
    <3>4. patrimony' \in [Contribs -> {0, Amount}]
      BY <3>1 DEF Applies
    <3> QED BY <2>4, <3>2, <3>3, <3>4
  <2> QED BY <2>5, <2>6
<1>17. ASSUME NEW h \in Handlers, NEW e \in Events, Receive(h, e) PROVE TypeOK'
  <2>1. handler' = handler \/ \E p \in Copies, s \in {"asking", "stalled"} :
           handler' = [handler EXCEPT ![h] =
               [pc |-> s, event |-> e, copy |-> p, remote |-> NoOrder]]
    BY <1>17, ChargeRows DEF Receive, Events
  <2>2. handler' \in [Handlers -> Tasks]
    <3>1. CASE handler' = handler
      BY <3>1
    <3>2. CASE \E p \in Copies, s \in {"asking", "stalled"} :
                  handler' = [handler EXCEPT ![h] =
                      [pc |-> s, event |-> e, copy |-> p, remote |-> NoOrder]]
      <4>1. PICK p \in Copies, s \in {"asking", "stalled"} :
                handler' = [handler EXCEPT ![h] =
                    [pc |-> s, event |-> e, copy |-> p, remote |-> NoOrder]]
        BY <3>2
      <4>2. [pc |-> s, event |-> e, copy |-> p, remote |-> NoOrder] \in Tasks
        BY TaskRows
      <4> QED BY <4>1, <4>2
    <3> QED BY <2>1, <3>1, <3>2
  <2> QED BY <1>17, <2>2 DEF Receive
<1>18. ASSUME NEW i \in DOMAIN ledger, ReverseEntry(i) PROVE TypeOK'
  <2>1. ledger' \in Seq(Row)
    BY <1>18, ReversedRow DEF ReverseEntry, Reversible
  <2> QED BY <1>18, <2>1 DEF ReverseEntry
<1>19. CASE Restart
  BY <1>19, TaskRows DEF Restart
<1> QED BY <1>0, <1>1, <1>2, <1>3, <1>4, <1>5, <1>6, <1>7, <1>8, <1>9, <1>10, <1>11, <1>12, <1>13, <1>14, <1>15, <1>16, <1>17, <1>18, <1>19 DEF Next, Creating, Provider, Handling, Office

(* The provider knows every order whose identity was stored. *)
LEMMA OrderStep == IInv /\ [Next]_vars => OrderInv'
<1> SUFFICES ASSUME IInv, [Next]_vars PROVE OrderInv'
  OBVIOUS
<1> USE DEF IInv, OrderInv, TypeOK, local
<1>0. CASE UNCHANGED vars
  BY <1>0 DEF vars
<1>1. ASSUME NEW c \in Contribs, Reserve(c) PROVE OrderInv'
  <2>1. \A d \in Contribs : payment'[d].bound => payment[d].bound
    BY <1>1 DEF Reserve, Charge, NoPayment
  <2> QED BY <1>1, <2>1 DEF Reserve
<1>2. ASSUME NEW c \in Contribs, Bind(c) PROVE OrderInv'
  <2>1. \A d \in Contribs : payment'[d].bound => payment[d].bound \/ d = c
    BY <1>2 DEF Bind, Charge, NoPayment
  <2> QED BY <1>2, <2>1 DEF Bind
<1>3. ASSUME NEW c \in Contribs, Preserve(c) PROVE OrderInv'
  <2>1. \A d \in Contribs : payment'[d].bound => payment[d].bound \/ d = c
    BY <1>3 DEF Preserve, Charge, NoPayment
  <2> QED BY <1>3, <2>1 DEF Preserve
<1>4. ASSUME NEW c \in Contribs, CreateFails(c) PROVE OrderInv'
  <2>1. \A d \in Contribs : payment'[d].bound => payment[d].bound
    BY <1>4 DEF CreateFails, Charge, NoPayment
  <2> QED BY <1>4, <2>1 DEF CreateFails
<1>5. ASSUME NEW c \in Contribs, ProviderCreates(c) PROVE OrderInv'
  <2>1. \A d \in Contribs : IF d = c THEN Known(order'[d]) ELSE order'[d] = order[d]
    BY <1>5 DEF ProviderCreates, Known, OrderStatuses, Confirmed
  <2> QED BY <1>5, <2>1 DEF ProviderCreates
<1>6. ASSUME NEW c \in Contribs, Pay(c) PROVE OrderInv'
  <2>1. \A d \in Contribs : IF d = c THEN Known(order'[d]) ELSE order'[d] = order[d]
    BY <1>6 DEF Pay, Known, OrderStatuses, Confirmed
  <2> QED BY <1>6, <2>1 DEF Pay
<1>7. ASSUME NEW c \in Contribs, Refund(c) PROVE OrderInv'
  <2>1. \A d \in Contribs : IF d = c THEN Known(order'[d]) ELSE order'[d] = order[d]
    BY <1>7 DEF Refund, Known, OrderStatuses, Confirmed
  <2> QED BY <1>7, <2>1 DEF Refund
<1>8. ASSUME NEW c \in Contribs, Expire(c) PROVE OrderInv'
  <2>1. \A d \in Contribs : IF d = c THEN Known(order'[d]) ELSE order'[d] = order[d]
    BY <1>8 DEF Expire, Known, OrderStatuses, Confirmed
  <2> QED BY <1>8, <2>1 DEF Expire
<1>9. ASSUME NEW c \in Contribs, Cancel(c) PROVE OrderInv'
  BY <1>9 DEF Cancel
<1>10. ASSUME NEW c \in Contribs, ReversePayment(c) PROVE OrderInv'
  BY <1>10 DEF ReversePayment
<1>11. ASSUME NEW h \in Handlers, Answer(h) PROVE OrderInv'
  BY <1>11 DEF Answer
<1>12. ASSUME NEW h \in Handlers, NoAnswer(h) PROVE OrderInv'
  BY <1>12 DEF NoAnswer
<1>13. ASSUME NEW h \in Handlers, RecordStatus(h) PROVE OrderInv'
  <2>1. \A d \in Contribs : payment'[d].bound => payment[d].bound
    BY <1>13 DEF RecordStatus, Charge, NoPayment
  <2> QED BY <1>13, <2>1 DEF RecordStatus
<1>14. ASSUME NEW h \in Handlers, RefuseCancelled(h) PROVE OrderInv'
  <2>1. \A d \in Contribs : payment'[d].bound => payment[d].bound
    BY <1>14 DEF RefuseCancelled, Charge, NoPayment
  <2> QED BY <1>14, <2>1 DEF RefuseCancelled
<1>15. ASSUME NEW h \in Handlers, GoSettle(h) PROVE OrderInv'
  BY <1>15 DEF GoSettle
<1>16. ASSUME NEW h \in Handlers, Settle(h) PROVE OrderInv'
  <2>1. \A d \in Contribs : payment'[d].bound = payment[d].bound
    BY <1>16 DEF Settle, Charge
  <2> QED BY <1>16, <2>1 DEF Settle
<1>17. ASSUME NEW h \in Handlers, NEW e \in Events, Receive(h, e) PROVE OrderInv'
  BY <1>17 DEF Receive
<1>18. ASSUME NEW i \in DOMAIN ledger, ReverseEntry(i) PROVE OrderInv'
  BY <1>18 DEF ReverseEntry
<1>19. CASE Restart
  BY <1>19 DEF Restart
<1> QED BY <1>0, <1>1, <1>2, <1>3, <1>4, <1>5, <1>6, <1>7, <1>8, <1>9, <1>10, <1>11, <1>12, <1>13, <1>14, <1>15, <1>16, <1>17, <1>18, <1>19 DEF Next, Creating, Provider, Handling, Office

(* A request in progress works on a real event and a known order. *)
LEMMA TaskStep == IInv /\ [Next]_vars => TaskInv'
<1> SUFFICES ASSUME IInv, [Next]_vars PROVE TaskInv'
  OBVIOUS
<1> USE DEF IInv, TaskInv, TypeOK, local, EventOf, ContribOf, End, Idle
<1>0. CASE UNCHANGED vars
  BY <1>0 DEF vars
<1>1. ASSUME NEW c \in Contribs, Reserve(c) PROVE TaskInv'
  BY <1>1 DEF Reserve
<1>2. ASSUME NEW c \in Contribs, Bind(c) PROVE TaskInv'
  BY <1>2 DEF Bind
<1>3. ASSUME NEW c \in Contribs, Preserve(c) PROVE TaskInv'
  BY <1>3 DEF Preserve
<1>4. ASSUME NEW c \in Contribs, CreateFails(c) PROVE TaskInv'
  BY <1>4 DEF CreateFails
<1>5. ASSUME NEW c \in Contribs, ProviderCreates(c) PROVE TaskInv'
  <2>1. \A d \in Contribs : Known(order[d]) => Known(order'[d])
    BY <1>5 DEF ProviderCreates, Known, OrderStatuses, Confirmed
  <2> QED BY <1>5, <2>1 DEF ProviderCreates, Events
<1>6. ASSUME NEW c \in Contribs, Pay(c) PROVE TaskInv'
  <2>1. \A d \in Contribs : Known(order[d]) => Known(order'[d])
    BY <1>6 DEF Pay, Known, OrderStatuses, Confirmed
  <2> QED BY <1>6, <2>1 DEF Pay, Events
<1>7. ASSUME NEW c \in Contribs, Refund(c) PROVE TaskInv'
  <2>1. \A d \in Contribs : Known(order[d]) => Known(order'[d])
    BY <1>7 DEF Refund, Known, OrderStatuses, Confirmed
  <2> QED BY <1>7, <2>1 DEF Refund, Events
<1>8. ASSUME NEW c \in Contribs, Expire(c) PROVE TaskInv'
  <2>1. \A d \in Contribs : Known(order[d]) => Known(order'[d])
    BY <1>8 DEF Expire, Known, OrderStatuses, Confirmed
  <2> QED BY <1>8, <2>1 DEF Expire, Events
<1>9. ASSUME NEW c \in Contribs, Cancel(c) PROVE TaskInv'
  BY <1>9 DEF Cancel
<1>10. ASSUME NEW c \in Contribs, ReversePayment(c) PROVE TaskInv'
  BY <1>10 DEF ReversePayment
<1>11. ASSUME NEW h \in Handlers, Answer(h) PROVE TaskInv'
  BY <1>11 DEF Answer
<1>12. ASSUME NEW h \in Handlers, NoAnswer(h) PROVE TaskInv'
  BY <1>12 DEF NoAnswer
<1>13. ASSUME NEW h \in Handlers, RecordStatus(h) PROVE TaskInv'
  BY <1>13 DEF RecordStatus
<1>14. ASSUME NEW h \in Handlers, RefuseCancelled(h) PROVE TaskInv'
  BY <1>14 DEF RefuseCancelled
<1>15. ASSUME NEW h \in Handlers, GoSettle(h) PROVE TaskInv'
  BY <1>15 DEF GoSettle
<1>16. ASSUME NEW h \in Handlers, Settle(h) PROVE TaskInv'
  BY <1>16 DEF Settle
<1>17. ASSUME NEW h \in Handlers, NEW e \in Events, Receive(h, e) PROVE TaskInv'
  <2>1. e[1] \in Contribs
    BY DEF Events
  <2>2. payment[e[1]].bound => Known(order[e[1]])
    BY <2>1 DEF OrderInv
  <2>3. /\ UNCHANGED order
        /\ \A x \in Handlers \ {h} : handler'[x] = handler[x]
        /\ \/ handler'[h] = handler[h]
           \/ handler'[h].pc = "stalled"
           \/ /\ handler'[h].pc = "asking" /\ handler'[h].event = e
              /\ payment[e[1]].bound
    BY <1>17 DEF Receive
  <2> QED BY <2>2, <2>3
<1>18. ASSUME NEW i \in DOMAIN ledger, ReverseEntry(i) PROVE TaskInv'
  BY <1>18 DEF ReverseEntry
<1>19. CASE Restart
  BY <1>19 DEF Restart
<1> QED BY <1>0, <1>1, <1>2, <1>3, <1>4, <1>5, <1>6, <1>7, <1>8, <1>9, <1>10, <1>11, <1>12, <1>13, <1>14, <1>15, <1>16, <1>17, <1>18, <1>19 DEF Next, Creating, Provider, Handling, Office

(* A contribution keeps exactly what its settlement applied. *)
LEMMA MoneyStep == IInv /\ [Next]_vars => MoneyIsAccountedFor'
<1> SUFFICES ASSUME IInv, [Next]_vars PROVE MoneyIsAccountedFor'
  OBVIOUS
<1> USE DEF IInv, MoneyIsAccountedFor, TypeOK, local
<1>0. CASE UNCHANGED vars
  BY <1>0 DEF vars
<1>1. ASSUME NEW c \in Contribs, Reserve(c) PROVE MoneyIsAccountedFor'
  BY <1>1 DEF Reserve
<1>2. ASSUME NEW c \in Contribs, Bind(c) PROVE MoneyIsAccountedFor'
  BY <1>2 DEF Bind
<1>3. ASSUME NEW c \in Contribs, Preserve(c) PROVE MoneyIsAccountedFor'
  BY <1>3 DEF Preserve
<1>4. ASSUME NEW c \in Contribs, CreateFails(c) PROVE MoneyIsAccountedFor'
  BY <1>4 DEF CreateFails
<1>5. ASSUME NEW c \in Contribs, ProviderCreates(c) PROVE MoneyIsAccountedFor'
  BY <1>5 DEF ProviderCreates
<1>6. ASSUME NEW c \in Contribs, Pay(c) PROVE MoneyIsAccountedFor'
  BY <1>6 DEF Pay
<1>7. ASSUME NEW c \in Contribs, Refund(c) PROVE MoneyIsAccountedFor'
  BY <1>7 DEF Refund
<1>8. ASSUME NEW c \in Contribs, Expire(c) PROVE MoneyIsAccountedFor'
  BY <1>8 DEF Expire
<1>9. ASSUME NEW c \in Contribs, Cancel(c) PROVE MoneyIsAccountedFor'
  BY <1>9 DEF Cancel
<1>10. ASSUME NEW c \in Contribs, ReversePayment(c) PROVE MoneyIsAccountedFor'
  <2>1. /\ paid' = [paid EXCEPT ![c] = 0] /\ patrimony' = [patrimony EXCEPT ![c] = 0]
        /\ reversed' = reversed \union {c} /\ UNCHANGED <<applied, cancelled>>
    BY <1>10, ReverseFacts DEF ReversePayment
  <2> QED BY <2>1
<1>11. ASSUME NEW h \in Handlers, Answer(h) PROVE MoneyIsAccountedFor'
  BY <1>11 DEF Answer
<1>12. ASSUME NEW h \in Handlers, NoAnswer(h) PROVE MoneyIsAccountedFor'
  BY <1>12 DEF NoAnswer
<1>13. ASSUME NEW h \in Handlers, RecordStatus(h) PROVE MoneyIsAccountedFor'
  BY <1>13 DEF RecordStatus
<1>14. ASSUME NEW h \in Handlers, RefuseCancelled(h) PROVE MoneyIsAccountedFor'
  BY <1>14 DEF RefuseCancelled
<1>15. ASSUME NEW h \in Handlers, GoSettle(h) PROVE MoneyIsAccountedFor'
  BY <1>15 DEF GoSettle
<1>16. ASSUME NEW h \in Handlers, Settle(h) PROVE MoneyIsAccountedFor'
  <2>1. CASE Verdict(ContribOf(h)) # "apply"
    BY <1>16, <2>1 DEF Settle
  <2>2. CASE Verdict(ContribOf(h)) = "apply"
    <3>1. ContribOf(h) \in Contribs /\ Live(ContribOf(h)) /\ ~Settled(ContribOf(h)) /\ Taken(h) \in 1..Amount /\ Applies(h)
      BY <1>16, <2>2, ApplyFacts
    <3>2. ContribOf(h) \notin reversed
      BY <3>1, Unsettled
    <3> QED BY <3>1, <3>2 DEF Applies
  <2> QED BY <2>1, <2>2
<1>17. ASSUME NEW h \in Handlers, NEW e \in Events, Receive(h, e) PROVE MoneyIsAccountedFor'
  BY <1>17 DEF Receive
<1>18. ASSUME NEW i \in DOMAIN ledger, ReverseEntry(i) PROVE MoneyIsAccountedFor'
  BY <1>18 DEF ReverseEntry
<1>19. CASE Restart
  BY <1>19 DEF Restart
<1> QED BY <1>0, <1>1, <1>2, <1>3, <1>4, <1>5, <1>6, <1>7, <1>8, <1>9, <1>10, <1>11, <1>12, <1>13, <1>14, <1>15, <1>16, <1>17, <1>18, <1>19 DEF Next, Creating, Provider, Handling, Office

(* The patrimony follows full payment. *)
LEMMA PatrimonyStep == IInv /\ [Next]_vars => PatrimonyFollowsPaid'
<1> SUFFICES ASSUME IInv, [Next]_vars PROVE PatrimonyFollowsPaid'
  OBVIOUS
<1> USE AmountAssumption DEF IInv, PatrimonyFollowsPaid, IsPaid, Live, TypeOK, local
<1>0. CASE UNCHANGED vars
  BY <1>0 DEF vars
<1>1. ASSUME NEW c \in Contribs, Reserve(c) PROVE PatrimonyFollowsPaid'
  BY <1>1 DEF Reserve
<1>2. ASSUME NEW c \in Contribs, Bind(c) PROVE PatrimonyFollowsPaid'
  BY <1>2 DEF Bind
<1>3. ASSUME NEW c \in Contribs, Preserve(c) PROVE PatrimonyFollowsPaid'
  BY <1>3 DEF Preserve
<1>4. ASSUME NEW c \in Contribs, CreateFails(c) PROVE PatrimonyFollowsPaid'
  BY <1>4 DEF CreateFails
<1>5. ASSUME NEW c \in Contribs, ProviderCreates(c) PROVE PatrimonyFollowsPaid'
  BY <1>5 DEF ProviderCreates
<1>6. ASSUME NEW c \in Contribs, Pay(c) PROVE PatrimonyFollowsPaid'
  BY <1>6 DEF Pay
<1>7. ASSUME NEW c \in Contribs, Refund(c) PROVE PatrimonyFollowsPaid'
  BY <1>7 DEF Refund
<1>8. ASSUME NEW c \in Contribs, Expire(c) PROVE PatrimonyFollowsPaid'
  BY <1>8 DEF Expire
<1>9. ASSUME NEW c \in Contribs, Cancel(c) PROVE PatrimonyFollowsPaid'
  BY <1>9 DEF Cancel
<1>10. ASSUME NEW c \in Contribs, ReversePayment(c) PROVE PatrimonyFollowsPaid'
  <2>1. /\ paid' = [paid EXCEPT ![c] = 0] /\ patrimony' = [patrimony EXCEPT ![c] = 0]
        /\ reversed' = reversed \union {c} /\ UNCHANGED <<applied, cancelled>>
    BY <1>10, ReverseFacts DEF ReversePayment
  <2> QED BY <2>1
<1>11. ASSUME NEW h \in Handlers, Answer(h) PROVE PatrimonyFollowsPaid'
  BY <1>11 DEF Answer
<1>12. ASSUME NEW h \in Handlers, NoAnswer(h) PROVE PatrimonyFollowsPaid'
  BY <1>12 DEF NoAnswer
<1>13. ASSUME NEW h \in Handlers, RecordStatus(h) PROVE PatrimonyFollowsPaid'
  BY <1>13 DEF RecordStatus
<1>14. ASSUME NEW h \in Handlers, RefuseCancelled(h) PROVE PatrimonyFollowsPaid'
  BY <1>14 DEF RefuseCancelled
<1>15. ASSUME NEW h \in Handlers, GoSettle(h) PROVE PatrimonyFollowsPaid'
  BY <1>15 DEF GoSettle
<1>16. ASSUME NEW h \in Handlers, Settle(h) PROVE PatrimonyFollowsPaid'
  <2>1. CASE Verdict(ContribOf(h)) # "apply"
    BY <1>16, <2>1 DEF Settle
  <2>2. CASE Verdict(ContribOf(h)) = "apply"
    <3>1. ContribOf(h) \in Contribs /\ Live(ContribOf(h)) /\ ~Settled(ContribOf(h)) /\ Taken(h) \in 1..Amount /\ Applies(h)
      BY <1>16, <2>2, ApplyFacts
    <3>2. ContribOf(h) \notin reversed
      BY <3>1, Unsettled
    <3> QED BY <3>1, <3>2 DEF Applies
  <2> QED BY <2>1, <2>2
<1>17. ASSUME NEW h \in Handlers, NEW e \in Events, Receive(h, e) PROVE PatrimonyFollowsPaid'
  BY <1>17 DEF Receive
<1>18. ASSUME NEW i \in DOMAIN ledger, ReverseEntry(i) PROVE PatrimonyFollowsPaid'
  BY <1>18 DEF ReverseEntry
<1>19. CASE Restart
  BY <1>19 DEF Restart
<1> QED BY <1>0, <1>1, <1>2, <1>3, <1>4, <1>5, <1>6, <1>7, <1>8, <1>9, <1>10, <1>11, <1>12, <1>13, <1>14, <1>15, <1>16, <1>17, <1>18, <1>19 DEF Next, Creating, Provider, Handling, Office

-----------------------------------------------------------------------------
(* What a new row changes in the book.                                     *)

(* The rows of a payment confirm it, and there is at most one. *)
LEMMA PaymentRowFacts ==
    ASSUME IInv, NEW c
    PROVE  /\ PaymentRows(ledger, c) = {i \in DOMAIN ledger : Confirms(i) /\ ledger[i].ref = c}
           /\ \A i, j \in PaymentRows(ledger, c) : i = j
<1>1. \A i \in DOMAIN ledger : Confirms(i) <=> ledger[i].type = PaymentRow
  BY DEF IInv, BookInv, WellFormed, PaymentRow, ReversalRow
<1> QED BY <1>1 DEF PaymentRows, NumberedAs, IInv, BookInv, Apart

(* The book after a settlement: the payment has one row, and it stands. *)
LEMMA CreditEffect ==
    ASSUME IInv, NEW c \in Contribs, NEW a \in Nat \ {0}, ~Settled(c),
           applied' = [applied EXCEPT ![c] = a],
           ledger' = Append(ledger, [type |-> PaymentRow, ref |-> c, direction |-> "CREDIT",
                                     amount |-> a, reversalOf |-> 0])
    PROVE  /\ BookInv'
           /\ PaymentRows(ledger, c)' # {} /\ StandingRows(c)' # {}
           /\ \A d \in Contribs \ {c} : /\ PaymentRows(ledger, d)' = PaymentRows(ledger, d)
                                        /\ StandingRows(d)' = StandingRows(d)
<1> DEFINE n == Len(ledger) + 1
           row == [type |-> PaymentRow, ref |-> c, direction |-> "CREDIT",
                   amount |-> a, reversalOf |-> 0]
<1>1. row \in Row /\ ledger \in Seq(Row)
  BY CreditRow, ContribsAssumption DEF IInv, TypeOK
<1>2. /\ DOMAIN ledger' = DOMAIN ledger \union {n}
      /\ n \notin DOMAIN ledger
      /\ \A i \in DOMAIN ledger : ledger'[i] = ledger[i] /\ i < n
      /\ ledger'[n] = row
      /\ DOMAIN ledger \subseteq Nat \ {0} /\ n \in Nat \ {0}
  BY <1>1, AppendRow
<1> HIDE DEF n
<1>3. \A i \in DOMAIN ledger : Confirms(i) => ledger[i].ref # c
  BY Unsettled, PaymentRowFacts
<1>4. /\ applied'[c] = a
      /\ \A d \in Contribs \ {c} : applied'[d] = applied[d]
  BY DEF IInv, TypeOK
<1>5. BookInv'
  <2>1. ASSUME NEW i \in DOMAIN ledger PROVE WellFormed(i)'
    <3>1. WellFormed(i)
      BY DEF IInv, BookInv
    <3>2. CASE Confirms(i)
      BY <1>2, <1>3, <1>4, <3>1, <3>2 DEF WellFormed, Confirms
    <3>3. CASE ~Confirms(i)
      BY <1>2, <3>1, <3>3 DEF WellFormed, Confirms
    <3> QED BY <3>2, <3>3
  <2>2. ASSUME NEW i, i = n PROVE WellFormed(i)'
    BY <1>2, <1>4, <2>2 DEF WellFormed, Confirms
  <2>3. ASSUME NEW i \in DOMAIN ledger', NEW j \in DOMAIN ledger' PROVE Apart(i, j)'
    BY <1>2, <1>3 DEF IInv, BookInv, WellFormed, Apart, Confirms
  <2> QED BY <1>2, <2>1, <2>2, <2>3 DEF BookInv
<1>6. /\ PaymentRows(ledger, c)' = {n}
      /\ \A d \in Contribs \ {c} : PaymentRows(ledger, d)' = PaymentRows(ledger, d)
  BY <1>2, <1>3, PaymentRowFacts DEF PaymentRows, NumberedAs, Confirms
<1>7. \A i \in DOMAIN ledger' : ledger'[i].reversalOf # n
  BY <1>2 DEF IInv, BookInv, WellFormed, Confirms
<1>8. Standing(ledger', n)
  BY <1>2, <1>7 DEF Standing, ReversalsOf
<1>9. \A i \in DOMAIN ledger : Standing(ledger, i)' <=> Standing(ledger, i)
  BY <1>2 DEF Standing, ReversalsOf
<1>10. \A d \in Contribs \ {c} : StandingRows(d)' = StandingRows(d)
  BY <1>6, <1>9 DEF StandingRows, PaymentRows, NumberedAs
<1> QED BY <1>5, <1>6, <1>8, <1>10 DEF StandingRows

(* The book after a reversal: the row it takes back no longer stands. *)
LEMMA ReversalEffect ==
    ASSUME IInv, NEW i \in DOMAIN ledger, Reversible(ledger, i),
           applied' = applied, ledger' = Reversed(ledger, i)
    PROVE  /\ BookInv'
           /\ \A d \in Contribs : /\ PaymentRows(ledger, d)' = PaymentRows(ledger, d)
                                  /\ StandingRows(d)' = StandingRows(d) \ {i}
<1> DEFINE n == Len(ledger) + 1
           row == [type |-> ReversalRow, ref |-> i,
                   direction |-> Opposite(ledger[i].direction),
                   amount |-> ledger[i].amount, reversalOf |-> i]
<1>1. row \in Row /\ ledger \in Seq(Row) /\ ledger' = Append(ledger, row)
  BY ReversedRow DEF IInv, TypeOK
<1>2. /\ DOMAIN ledger' = DOMAIN ledger \union {n}
      /\ n \notin DOMAIN ledger
      /\ \A k \in DOMAIN ledger : ledger'[k] = ledger[k] /\ k < n
      /\ ledger'[n] = row
      /\ DOMAIN ledger \subseteq Nat \ {0} /\ n \in Nat \ {0}
  BY <1>1, AppendRow
<1> HIDE DEF n
<1>3. Confirms(i) /\ i # 0 /\ \A k \in DOMAIN ledger : ledger[k].reversalOf # i
  BY <1>2 DEF Reversible, ReversalsOf, Confirms
<1>4. Opposite(ledger[i].direction) # ledger[i].direction
  BY DEF Opposite
<1>5. BookInv'
  <2>1. ASSUME NEW k \in DOMAIN ledger PROVE WellFormed(k)'
    <3>1. WellFormed(k)
      BY DEF IInv, BookInv
    <3> QED BY <1>2, <3>1 DEF WellFormed, Confirms
  <2>2. ASSUME NEW k, k = n PROVE WellFormed(k)'
    BY <1>2, <1>3, <1>4, <2>2 DEF WellFormed, Confirms
  <2>3. ASSUME NEW k \in DOMAIN ledger', NEW j \in DOMAIN ledger' PROVE Apart(k, j)'
    BY <1>2, <1>3 DEF IInv, BookInv, Apart, Confirms
  <2> QED BY <1>2, <2>1, <2>2, <2>3 DEF BookInv
<1>6. \A d \in Contribs : PaymentRows(ledger, d)' = PaymentRows(ledger, d)
  BY <1>2 DEF PaymentRows, NumberedAs, PaymentRow, ReversalRow
<1>7. \A k \in DOMAIN ledger : Standing(ledger, k)' <=> Standing(ledger, k) /\ k # i
  BY <1>2 DEF Standing, ReversalsOf
<1>8. \A d \in Contribs : StandingRows(d)' = StandingRows(d) \ {i}
  BY <1>6, <1>7 DEF StandingRows, PaymentRows, NumberedAs
<1> QED BY <1>5, <1>6, <1>8

-----------------------------------------------------------------------------
(* The three ways money moves: every step of the system is one of them or  *)
(* leaves the money alone.                                                 *)
money == <<paid, applied, reversed, ledger>>

Credits(c, a) ==
    /\ Live(c) /\ ~Settled(c)
    /\ ledger' = Append(ledger, [type |-> PaymentRow, ref |-> c, direction |-> "CREDIT",
                                 amount |-> a, reversalOf |-> 0])
    /\ paid' = [paid EXCEPT ![c] = a]
    /\ applied' = [applied EXCEPT ![c] = a]
    /\ UNCHANGED reversed

TakesBack(c, i) ==
    /\ Settled(c) /\ c \notin reversed /\ paid[c] = applied[c]
    /\ Reversible(ledger, i)
    /\ ledger' = Reversed(ledger, i)
    /\ paid' = [paid EXCEPT ![c] = 0]
    /\ reversed' = reversed \union {c}
    /\ UNCHANGED applied

Corrects(i) ==
    /\ Generic
    /\ Reversible(ledger, i)
    /\ ledger' = Reversed(ledger, i)
    /\ UNCHANGED <<paid, applied, reversed>>

Moves == \/ UNCHANGED money
         \/ \E c \in Contribs, a \in 1..Amount : Credits(c, a)
         \/ \E c \in Contribs : \E i \in StandingRows(c) : TakesBack(c, i)
         \/ \E i \in DOMAIN ledger : Corrects(i)

(* Whatever the step, the book, its rows and the settlements still agree. *)
LEMMA MovesKeepBook == IInv /\ Moves => BookInv' /\ RowInv' /\ StandInv'
<1> SUFFICES ASSUME IInv, Moves PROVE BookInv' /\ RowInv' /\ StandInv'
  OBVIOUS
<1>1. CASE UNCHANGED money
  <2>1. UNCHANGED <<paid, applied, reversed, ledger>>
    BY <1>1 DEF money
  <2>2. BookInv'
    BY <2>1 DEF IInv, BookInv, WellFormed, Apart, Confirms
  <2>3. \A c \in Contribs : StandingRows(c)' = StandingRows(c) /\ (Settled(c)' <=> Settled(c))
                            /\ PaymentRows(ledger, c)' = PaymentRows(ledger, c)
    BY <2>1 DEF StandingRows, Settled
  <2> QED BY <2>1, <2>2, <2>3 DEF IInv, TypeOK, RowInv, StandInv
<1>2. ASSUME NEW c \in Contribs, NEW a \in 1..Amount, Credits(c, a)
      PROVE  BookInv' /\ RowInv' /\ StandInv'
  <2>1. a \in Nat \ {0}
    BY AmountAssumption
  <2>2. /\ BookInv'
        /\ PaymentRows(ledger, c)' # {} /\ StandingRows(c)' # {}
        /\ \A d \in Contribs \ {c} : /\ PaymentRows(ledger, d)' = PaymentRows(ledger, d)
                                     /\ StandingRows(d)' = StandingRows(d)
    BY <1>2, <2>1, CreditEffect DEF Credits
  <2>3. \A d \in Contribs \ {c} : Settled(d)' <=> Settled(d)
    BY <1>2 DEF Credits, Settled, IInv, TypeOK
  <2>4. c \notin reversed /\ reversed' = reversed
    BY <1>2, Unsettled DEF Credits
  <2> QED BY <2>2, <2>3, <2>4 DEF IInv, TypeOK, RowInv, StandInv
<1>3. ASSUME NEW c \in Contribs, NEW i \in StandingRows(c), TakesBack(c, i)
      PROVE  BookInv' /\ RowInv' /\ StandInv'
  <2>1. i \in PaymentRows(ledger, c) /\ i \in DOMAIN ledger
    BY DEF StandingRows, PaymentRows, NumberedAs
  <2>2. /\ BookInv'
        /\ \A d \in Contribs : /\ PaymentRows(ledger, d)' = PaymentRows(ledger, d)
                               /\ StandingRows(d)' = StandingRows(d) \ {i}
    BY <1>3, <2>1, ReversalEffect DEF TakesBack
  <2>3. StandingRows(c)' = {}
    BY <2>1, <2>2, PaymentRowFacts DEF StandingRows
  <2>4. \A d \in Contribs \ {c} : StandingRows(d)' = StandingRows(d)
    BY <2>1, <2>2 DEF StandingRows, PaymentRows, NumberedAs
  <2>5. /\ \A d \in Contribs : Settled(d)' <=> Settled(d)
        /\ Settled(c) /\ reversed' = reversed \union {c}
    BY <1>3 DEF TakesBack, Settled
  <2> QED BY <2>2, <2>3, <2>4, <2>5 DEF IInv, TypeOK, RowInv, StandInv
<1>4. ASSUME NEW i \in DOMAIN ledger, Corrects(i)
      PROVE  BookInv' /\ RowInv' /\ StandInv'
  <2>1. /\ BookInv'
        /\ \A d \in Contribs : /\ PaymentRows(ledger, d)' = PaymentRows(ledger, d)
                               /\ StandingRows(d)' = StandingRows(d) \ {i}
    BY <1>4, ReversalEffect DEF Corrects
  <2>2. /\ \A d \in Contribs : Settled(d)' <=> Settled(d)
        /\ reversed' = reversed /\ Generic
    BY <1>4 DEF Corrects, Settled
  <2> QED BY <2>1, <2>2 DEF IInv, TypeOK, RowInv, StandInv
<1> QED BY <1>1, <1>2, <1>3, <1>4 DEF Moves

(* The settlement credits, the reversals take back, nothing else moves money. *)
LEMMA MovesStep == IInv /\ [Next]_vars => Moves
<1> SUFFICES ASSUME IInv, [Next]_vars PROVE Moves
  OBVIOUS
<1> USE DEF Moves, money, local
<1>0. CASE UNCHANGED vars
  BY <1>0 DEF vars
<1>1. ASSUME NEW c \in Contribs, Reserve(c) PROVE Moves
  BY <1>1 DEF Reserve
<1>2. ASSUME NEW c \in Contribs, Bind(c) PROVE Moves
  BY <1>2 DEF Bind
<1>3. ASSUME NEW c \in Contribs, Preserve(c) PROVE Moves
  BY <1>3 DEF Preserve
<1>4. ASSUME NEW c \in Contribs, CreateFails(c) PROVE Moves
  BY <1>4 DEF CreateFails
<1>5. ASSUME NEW c \in Contribs, ProviderCreates(c) PROVE Moves
  BY <1>5 DEF ProviderCreates
<1>6. ASSUME NEW c \in Contribs, Pay(c) PROVE Moves
  BY <1>6 DEF Pay
<1>7. ASSUME NEW c \in Contribs, Refund(c) PROVE Moves
  BY <1>7 DEF Refund
<1>8. ASSUME NEW c \in Contribs, Expire(c) PROVE Moves
  BY <1>8 DEF Expire
<1>9. ASSUME NEW c \in Contribs, Cancel(c) PROVE Moves
  BY <1>9 DEF Cancel
<1>10. ASSUME NEW c \in Contribs, ReversePayment(c) PROVE Moves
  <2>1. PICK i \in StandingRows(c) : Reversible(ledger, i) /\ ledger' = Reversed(ledger, i)
    BY <1>10, ReverseFacts
  <2>2. Settled(c) /\ c \notin reversed /\ paid[c] = applied[c] /\ paid' = [paid EXCEPT ![c] = 0]
    BY <1>10, ReverseFacts
  <2>3. reversed' = reversed \union {c} /\ UNCHANGED applied
    BY <1>10 DEF ReversePayment
  <2>4. TakesBack(c, i)
    BY <2>1, <2>2, <2>3 DEF TakesBack
  <2> QED BY <2>4
<1>11. ASSUME NEW h \in Handlers, Answer(h) PROVE Moves
  BY <1>11 DEF Answer
<1>12. ASSUME NEW h \in Handlers, NoAnswer(h) PROVE Moves
  BY <1>12 DEF NoAnswer
<1>13. ASSUME NEW h \in Handlers, RecordStatus(h) PROVE Moves
  BY <1>13 DEF RecordStatus
<1>14. ASSUME NEW h \in Handlers, RefuseCancelled(h) PROVE Moves
  BY <1>14 DEF RefuseCancelled
<1>15. ASSUME NEW h \in Handlers, GoSettle(h) PROVE Moves
  BY <1>15 DEF GoSettle
<1>16. ASSUME NEW h \in Handlers, Settle(h) PROVE Moves
  <2>1. CASE Verdict(ContribOf(h)) # "apply"
    BY <1>16, <2>1 DEF Settle
  <2>2. CASE Verdict(ContribOf(h)) = "apply"
    <3>1. /\ ContribOf(h) \in Contribs /\ Taken(h) \in 1..Amount
          /\ Live(ContribOf(h)) /\ ~Settled(ContribOf(h)) /\ Applies(h)
      BY <1>16, <2>2, ApplyFacts
    <3>2. Credits(ContribOf(h), Taken(h))
      BY <3>1 DEF Applies, Credits
    <3> QED BY <3>1, <3>2
  <2> QED BY <2>1, <2>2
<1>17. ASSUME NEW h \in Handlers, NEW e \in Events, Receive(h, e) PROVE Moves
  BY <1>17 DEF Receive
<1>18. ASSUME NEW i \in DOMAIN ledger, ReverseEntry(i) PROVE Moves
  BY <1>18 DEF ReverseEntry, Corrects
<1>19. CASE Restart
  BY <1>19 DEF Restart
<1> QED BY <1>0, <1>1, <1>2, <1>3, <1>4, <1>5, <1>6, <1>7, <1>8, <1>9, <1>10, <1>11, <1>12, <1>13, <1>14, <1>15, <1>16, <1>17, <1>18, <1>19 DEF Next, Creating, Provider, Handling, Office

-----------------------------------------------------------------------------
(* The invariant.                                                          *)

(* Before the first charge nothing is owed an explanation. *)
LEMMA InitInv == Init => IInv
<1> SUFFICES ASSUME Init PROVE IInv
  OBVIOUS
<1>1. ledger \in Seq(Row) /\ DOMAIN ledger = {}
  BY DEF Init
<1>2. TypeOK
  BY <1>1, ChargeRows, OrderRows, TaskRows, AmountAssumption DEF Init, TypeOK
<1>3. OrderInv /\ TaskInv
  BY DEF Init, OrderInv, TaskInv, NoOrder, NoPayment, Charge, Idle
<1>4. MoneyIsAccountedFor /\ PatrimonyFollowsPaid
  BY AmountAssumption DEF Init, MoneyIsAccountedFor, PatrimonyFollowsPaid, IsPaid
<1>5. BookInv
  BY <1>1 DEF BookInv
<1>6. RowInv /\ StandInv
  BY DEF Init, RowInv, StandInv, Settled
<1> QED BY <1>2, <1>3, <1>4, <1>5, <1>6 DEF IInv

(* No step, of whichever actor, leaves the invariant. *)
LEMMA Inductive == IInv /\ [Next]_vars => IInv'
BY TypeStep, OrderStep, TaskStep, MoneyStep, PatrimonyStep, MovesStep, MovesKeepBook DEF IInv

(* The invariant holds in every state the services can reach, for any      *)
(* number of contributions and overlapping requests.                       *)
THEOREM Invariance == Spec => []IInv
<1>1. Init => IInv
  BY InitInv
<1>2. IInv /\ [Next]_vars => IInv'
  BY Inductive
<1> QED BY <1>1, <1>2, PTL DEF Spec

(* Every variable keeps its type: in particular no interleaving of         *)
(* settlements makes a contribution hold more than it owes.                *)
THEOREM TypeCorrect == Spec => []TypeOK
<1>1. IInv => TypeOK
  BY DEF IInv
<1> QED BY <1>1, Invariance, PTL

(* What a contribution holds is what its settlement applied, until the     *)
(* payment is reversed (payment_settlement.py and payment_reversal.py).    *)
THEOREM MoneyAccounted == Spec => []MoneyIsAccountedFor
<1>1. IInv => MoneyIsAccountedFor
  BY DEF IInv
<1> QED BY <1>1, Invariance, PTL

(* The patrimony holds the credit of a contribution exactly while it is    *)
(* paid in full.                                                           *)
THEOREM PatrimonyCorrect == Spec => []PatrimonyFollowsPaid
<1>1. IInv => PatrimonyFollowsPaid
  BY DEF IInv
<1> QED BY <1>1, Invariance, PTL

(* The book is reversed by its rules, whichever endpoint appends           *)
(* (post_entry with reversal_of_id).                                       *)
THEOREM ReversalsSound == Spec => []ReversalsAreSound
<1>1. IInv => ReversalsAreSound
  <2> SUFFICES ASSUME IInv, NEW i \in DOMAIN ledger, NEW j \in DOMAIN ledger,
                      ledger[j].reversalOf = i
               PROVE  /\ i < j /\ ledger[i].reversalOf = 0
                      /\ ledger[i].amount = ledger[j].amount
                      /\ ledger[i].direction # ledger[j].direction
                      /\ ReversalsOf(ledger, i) = {j}
    BY DEF ReversalsAreSound
  <2>1. i # 0
    BY DEF IInv, TypeOK
  <2>2. ~Confirms(j) /\ WellFormed(j)
    BY <2>1 DEF Confirms, IInv, BookInv
  <2>3. /\ i < j /\ ledger[i].reversalOf = 0
        /\ ledger[i].amount = ledger[j].amount
        /\ ledger[i].direction # ledger[j].direction
    BY <2>2 DEF WellFormed, Confirms
  <2>4. ReversalsOf(ledger, i) = {j}
    BY <2>1, <2>2 DEF ReversalsOf, IInv, BookInv, Apart, Confirms
  <2> QED BY <2>3, <2>4
<1> QED BY <1>1, Invariance, PTL

(* The fund and the contributions agree about the money, up to the generic *)
(* reversal.                                                               *)
THEOREM LedgerMatches == Spec => []LedgerMatchesContributions
<1>1. IInv => LedgerMatchesContributions
  <2> SUFFICES ASSUME IInv, NEW c \in Contribs
               PROVE  /\ \A i \in StandingRows(c) : ledger[i].amount = paid[c]
                      /\ \A i, j \in PaymentRows(ledger, c) : i = j
                      /\ ~Generic /\ paid[c] > 0 => StandingRows(c) # {}
    BY DEF LedgerMatchesContributions
  <2>1. ASSUME NEW i \in StandingRows(c) PROVE ledger[i].amount = paid[c]
    <3>1. i \in DOMAIN ledger /\ Confirms(i) /\ ledger[i].ref = c
      BY PaymentRowFacts DEF StandingRows
    <3>2. ledger[i].amount = applied[c]
      BY <3>1 DEF IInv, BookInv, WellFormed
    <3>3. c \notin reversed
      BY DEF IInv, RowInv
    <3> QED BY <3>2, <3>3 DEF IInv, MoneyIsAccountedFor
  <2>2. \A i, j \in PaymentRows(ledger, c) : i = j
    BY PaymentRowFacts
  <2>3. ~Generic /\ paid[c] > 0 => StandingRows(c) # {}
    <3>1. paid[c] > 0 => c \notin reversed /\ Settled(c)
      BY DEF IInv, MoneyIsAccountedFor, Settled
    <3> QED BY <3>1 DEF IInv, StandInv
  <2> QED BY <2>1, <2>2, <2>3
<1> QED BY <1>1, Invariance, PTL

(* A cancelled contribution takes no more money: the settlement looks      *)
(* again under its locks.                                                  *)
THEOREM CancelledIsClosed == Spec => CancelledTakesNoMoney
<1> DEFINE Closed == \A c \in Contribs : c \in cancelled => paid'[c] <= paid[c]
<1>1. IInv /\ [Next]_vars => [Closed]_vars
  <2> SUFFICES ASSUME IInv, [Next]_vars, NEW c \in Contribs, c \in cancelled
               PROVE  paid'[c] <= paid[c]
    OBVIOUS
  <2>1. Moves /\ paid \in [Contribs -> 0..Amount] /\ Amount \in Nat
    BY MovesStep, AmountAssumption DEF IInv, TypeOK
  <2>2. CASE UNCHANGED money
    BY <2>1, <2>2 DEF money
  <2>3. CASE \E d \in Contribs, a \in 1..Amount : Credits(d, a)
    BY <2>1, <2>3 DEF Credits, Live
  <2>4. CASE \E d \in Contribs : \E i \in StandingRows(d) : TakesBack(d, i)
    BY <2>1, <2>4 DEF TakesBack
  <2>5. CASE \E i \in DOMAIN ledger : Corrects(i)
    BY <2>1, <2>5 DEF Corrects
  <2> QED BY <2>1, <2>2, <2>3, <2>4, <2>5 DEF Moves
<1> QED BY <1>1, Invariance, PTL DEF Spec, CancelledTakesNoMoney

-----------------------------------------------------------------------------
(* The refinement.                                                         *)

(* What the fund counts as cash of a contribution. *)
Fund == [c \in Contribs |-> IF StandingRows(c) # {} THEN applied[c] ELSE 0]
Phases == [c \in Contribs |-> Phase(c)]

(* The settlement that applies money confirms the contribution. *)
LEMMA CreditConfirms ==
    ASSUME NEW c \in Contribs, NEW a \in 1..Amount
    PROVE  IInv /\ Credits(c, a) => Money!Confirm(c)
<1>0. SUFFICES ASSUME IInv, Credits(c, a) PROVE Money!Confirm(c)
  OBVIOUS
<1>1. a \in Nat \ {0} /\ ~Settled(c) /\ applied \in [Contribs -> 0..Amount]
  BY <1>0, AmountAssumption DEF Credits, IInv, TypeOK
<1>2. c \notin reversed /\ reversed' = reversed /\ applied' = [applied EXCEPT ![c] = a]
  BY <1>0, Unsettled DEF Credits
<1>3. /\ StandingRows(c)' # {}
      /\ \A d \in Contribs \ {c} : StandingRows(d)' = StandingRows(d)
  BY <1>0, <1>1, CreditEffect DEF Credits
<1>4. Fund' = [Fund EXCEPT ![c] = a]
  BY <1>1, <1>2, <1>3 DEF Fund
<1>5. Phases[c] = "open" /\ Phases' = [Phases EXCEPT ![c] = "confirmed"]
  <2>1. Phase(c) = "open"
    BY <1>1, <1>2 DEF Phase
  <2>2. Phase(c)' = "confirmed"
    BY <1>1, <1>2 DEF Phase, Settled
  <2>3. \A d \in Contribs \ {c} : Phase(d)' = Phase(d)
    BY <1>1, <1>2 DEF Phase, Settled
  <2> QED BY <2>1, <2>2, <2>3 DEF Phases
<1>6. paid' = [paid EXCEPT ![c] = a]
  BY <1>0 DEF Credits
<1> QED BY <1>4, <1>5, <1>6 DEF Money!Confirm, Fund, Phases

(* The reversal of the payment undoes it. *)
LEMMA TakeBackUndoes ==
    ASSUME NEW c \in Contribs, NEW i \in StandingRows(c)
    PROVE  IInv /\ TakesBack(c, i) => Money!Undo(c)
<1>0. SUFFICES ASSUME IInv, TakesBack(c, i) PROVE Money!Undo(c)
  OBVIOUS
<1>1. /\ Settled(c) /\ c \notin reversed /\ paid[c] = applied[c]
      /\ paid' = [paid EXCEPT ![c] = 0]
      /\ reversed' = reversed \union {c} /\ applied' = applied
  BY <1>0 DEF TakesBack
<1>2. i \in DOMAIN ledger /\ i \in PaymentRows(ledger, c)
  BY DEF StandingRows, PaymentRows, NumberedAs
<1>3. \A d \in Contribs : StandingRows(d)' = StandingRows(d) \ {i}
  BY <1>0, <1>2, ReversalEffect DEF TakesBack
<1>4. StandingRows(c)' = {}
  BY <1>0, <1>2, <1>3, PaymentRowFacts DEF StandingRows
<1>5. \A d \in Contribs \ {c} : StandingRows(d)' = StandingRows(d)
  BY <1>2, <1>3 DEF StandingRows, PaymentRows, NumberedAs
<1>6. Fund[c] = paid[c] /\ Fund' = [Fund EXCEPT ![c] = 0]
  BY <1>1, <1>4, <1>5 DEF Fund
<1>7. Phases[c] = "confirmed" /\ Phases' = [Phases EXCEPT ![c] = "undone"]
  BY <1>1 DEF Phases, Phase, Settled
<1> QED BY <1>1, <1>6, <1>7 DEF Money!Undo, Fund, Phases

(* A correction takes one standing row of one contribution out of the fund. *)
LEMMA CorrectionCorrects ==
    ASSUME NEW i \in DOMAIN ledger
    PROVE  IInv /\ Corrects(i) => \E c \in Contribs : Money!Correct(c)
<1>0. SUFFICES ASSUME IInv, Corrects(i) PROVE \E c \in Contribs : Money!Correct(c)
  OBVIOUS
<1>1. Confirms(i) /\ Standing(ledger, i) /\ ledger' = Reversed(ledger, i)
  BY <1>0 DEF Corrects, Reversible, Confirms, Standing
<1>2. PICK c \in Contribs :
         ledger[i].ref = c /\ ledger[i].amount = applied[c] /\ ledger[i] \in Row
  BY <1>0, <1>1 DEF IInv, TypeOK, BookInv, WellFormed
<1>3. i \in PaymentRows(ledger, c) /\ i \in StandingRows(c)
  BY <1>0, <1>1, <1>2, PaymentRowFacts DEF StandingRows
<1>4. paid' = paid /\ applied' = applied /\ reversed' = reversed
  BY <1>0 DEF Corrects
<1>5. \A d \in Contribs : StandingRows(d)' = StandingRows(d) \ {i}
  BY <1>0, ReversalEffect DEF Corrects
<1>6. StandingRows(c)' = {}
  BY <1>0, <1>2, <1>3, <1>5, PaymentRowFacts DEF StandingRows
<1>7. \A d \in Contribs \ {c} : StandingRows(d)' = StandingRows(d)
  BY <1>2, <1>5 DEF StandingRows, PaymentRows, NumberedAs
<1>8. Fund[c] > 0 /\ Fund' = [Fund EXCEPT ![c] = 0]
  <2>1. applied[c] > 0 /\ Fund[c] = applied[c]
    BY <1>2, <1>3 DEF Fund, Row
  <2> QED BY <1>4, <1>6, <1>7, <2>1 DEF Fund
<1>9. Phases[c] = "confirmed" /\ Phases' = Phases
  <2>1. Settled(c)
    BY <1>2 DEF Settled, Row
  <2>2. c \notin reversed
    BY <1>0, <1>2, <1>3 DEF IInv, RowInv
  <2> QED BY <1>2, <1>4, <2>1, <2>2 DEF Phases, Phase, Settled
<1>10. Money!Correct(c)
  BY <1>4, <1>8, <1>9 DEF Money!Correct, Fund, Phases
<1> QED BY <1>2, <1>10

(* The services implement ContributionMoney: every step confirms, undoes or *)
(* corrects one contribution, or is invisible to the abstract specification. *)
THEOREM Refinement == Spec => ImplementsContributionMoney
<1>1. Init => Money!Init
  BY DEF Init, Money!Init, Phase, Settled, StandingRows, PaymentRows, NumberedAs
<1>2. IInv /\ [Next]_vars => [Money!Next]_<<Phases, paid, Fund>>
  <2> SUFFICES ASSUME IInv, [Next]_vars PROVE [Money!Next]_<<Phases, paid, Fund>>
    OBVIOUS
  <2>1. Moves
    BY MovesStep
  <2>2. CASE UNCHANGED money
    BY <2>2 DEF money, Phases, Phase, Settled, Fund, StandingRows
  <2>3. CASE \E c \in Contribs, a \in 1..Amount : Credits(c, a)
    BY <2>3, CreditConfirms DEF Money!Next
  <2>4. CASE \E c \in Contribs : \E i \in StandingRows(c) : TakesBack(c, i)
    BY <2>4, TakeBackUndoes DEF Money!Next
  <2>5. CASE \E i \in DOMAIN ledger : Corrects(i)
    BY <2>5, CorrectionCorrects DEF Money!Next
  <2> QED BY <2>1, <2>2, <2>3, <2>4, <2>5 DEF Moves
<1>3. IInv /\ [Next]_vars => [Money!Next]_<<[c \in Contribs |-> Phase(c)], paid,
                [c \in Contribs |-> IF StandingRows(c) # {} THEN applied[c] ELSE 0]>>
  BY <1>2 DEF Phases, Fund
<1> QED BY <1>1, <1>3, Invariance, PTL DEF Spec, ImplementsContributionMoney, Money!Spec

(* Contribution, fund and patrimony tell one story, whatever settlements,  *)
(* reversals and cancellations interleave (settle_confirmed_pix_payment,   *)
(* reverse_payment, reverse_entry).                                        *)
THEOREM BooksAgreement == Spec => []BooksAgree
<1>1. MoneyIsAccountedFor /\ LedgerMatchesContributions /\ PatrimonyFollowsPaid => BooksAgree
  BY DEF BooksAgree
<1> QED BY <1>1, MoneyAccounted, LedgerMatches, PatrimonyCorrect, PTL

-----------------------------------------------------------------------------
(* No money is lost from sight.  A handler writes from a copy of the       *)
(* payment it loaded before it asked the provider: what matters is what is *)
(* still true of that copy, or made up for.                                *)

\* A charge being created is not bound, and nobody paid an order that is not there.
Charged(c) ==
    /\ request[c] # "idle" => payment[c].status = "pending" /\ ~payment[c].bound
    /\ payment[c] = NoPayment \/ request[c] = "calling" => order[c].status = "none"
    /\ event[<<c, "paid">>] # "unsent" => order[c].status \in Confirmed \union {"refunded"}

Busy == {"asking", "answered", "settling"}

\* What a handler loaded and was told is still true, or made up for.
Seen(h) ==
    /\ event[EventOf(h)] # "unsent"
    /\ payment[ContribOf(h)].bound
    /\ handler[h].copy.recon = "REQUIRED" =>
           payment[ContribOf(h)].recon = "REQUIRED" \/ Settled(ContribOf(h))
    /\ handler[h].pc # "asking" /\ EventOf(h)[2] = "paid" /\ handler[h].remote.status \notin Confirmed
           => order[ContribOf(h)].status = "refunded"

ChargeInv == \A c \in Contribs : Charged(c)
SeenInv   == \A h \in Handlers : handler[h].pc \in Busy => Seen(h)

LInv == IInv /\ ChargeInv /\ SeenInv /\ NoMoneyIsLost

\* What no step takes back: a notification that was sent, the identity of the
\* payment, a refund, a settlement; a mark, until the money is settled.
Keeps(c) ==
    /\ \A n \in Notices : event[<<c, n>>] # "unsent" => event'[<<c, n>>] # "unsent"
    /\ payment[c].bound => payment'[c].bound
    /\ order[c].status = "refunded" => order'[c].status = "refunded"
    /\ Settled(c) => Settled(c)'
    /\ payment[c].bound /\ payment[c].recon = "REQUIRED" => payment'[c].recon = "REQUIRED" \/ Settled(c)'

-----------------------------------------------------------------------------
(* How a step writes a payment.                                            *)

\* Contribution, its payment and its notification of a handler that is busy.
LEMMA BusyState ==
    ASSUME LInv, NEW h \in Handlers, handler[h].pc \in Busy
    PROVE  /\ ContribOf(h) \in Contribs /\ EventOf(h) \in Events
           /\ EventOf(h) = <<ContribOf(h), EventOf(h)[2]>>
           /\ payment[ContribOf(h)].bound /\ request[ContribOf(h)] = "idle"
           /\ Seen(h)
<1>1. ContribOf(h) \in Contribs /\ EventOf(h) \in Events /\ Seen(h)
  BY AnsweredState DEF LInv, SeenInv, Busy
<1>2. request[ContribOf(h)] = "idle"
  BY <1>1 DEF LInv, ChargeInv, Charged, Seen
<1> QED
  BY <1>1, <1>2 DEF Seen, Events, ContribOf, EventOf

\* The tables are functions.
LEMMA Tabled ==
    ASSUME LInv
    PROVE  /\ payment \in [Contribs -> Copies] /\ applied \in [Contribs -> 0..Amount]
           /\ order \in [Contribs -> Orders] /\ handler \in [Handlers -> Tasks]
           /\ event \in [Events -> {"unsent", "sent", "stored", "processed"}]
           /\ request \in [Contribs -> {"idle", "calling", "created"}]
  BY DEF LInv, IInv, TypeOK

\* What the creation of a charge may do to its payment.
CreatesOnly(c) ==
    /\ ~payment[c].bound
    /\ payment[c].status \in {"absent", "pending"}
    /\ payment'[c].status = "pending"
    /\ request'[c] # "idle" => ~payment'[c].bound
    /\ request'[c] = "calling" => payment[c] = NoPayment
    /\ \A d \in Contribs \ {c} : payment'[d] = payment[d] /\ request'[d] = request[d]
    /\ UNCHANGED <<applied, order, event, handler>>

LEMMA CreatingStep == ASSUME LInv, NEW c \in Contribs, Creating(c) PROVE CreatesOnly(c)
<1>0. Charged(c)
  BY DEF LInv, ChargeInv
<1>1. CASE Reserve(c)
  <2>1. /\ payment[c] = NoPayment
        /\ payment' = [payment EXCEPT ![c] = Charge("pending", "PENDING", "none", FALSE)]
        /\ request' = [request EXCEPT ![c] = "calling"]
        /\ UNCHANGED <<applied, order, event, handler>>
    BY <1>1 DEF Reserve
  <2>2. ~payment[c].bound /\ payment[c].status = "absent"
    BY <2>1 DEF NoPayment, Charge
  <2>3. /\ payment'[c] = Charge("pending", "PENDING", "none", FALSE)
        /\ \A d \in Contribs \ {c} : payment'[d] = payment[d] /\ request'[d] = request[d]
    BY <2>1, Tabled
  <2>4. payment'[c].status = "pending" /\ ~payment'[c].bound
    BY <2>3 DEF Charge
  <2> QED
    BY <2>1, <2>2, <2>3, <2>4 DEF CreatesOnly
<1>2. CASE Bind(c) \/ Preserve(c) \/ CreateFails(c)
  <2>1. /\ request[c] # "idle" /\ request' = [request EXCEPT ![c] = "idle"]
        /\ UNCHANGED <<applied, order, event, handler>>
    BY <1>2 DEF Bind, Preserve, CreateFails
  <2>2. payment[c].status = "pending" /\ ~payment[c].bound
    BY <1>0, <2>1 DEF Charged
  <2>3. \E p : p.status = "pending" /\ payment' = [payment EXCEPT ![c] = p]
    <3>1. CASE Bind(c)
      BY <3>1 DEF Bind, Charge
    <3>2. CASE Preserve(c)
      BY <3>2 DEF Preserve, Charge
    <3>3. CASE CreateFails(c)
      <4> PICK mark \in {"UNKNOWN", "REQUIRED"} :
              payment' = [payment EXCEPT ![c] =
                  Charge(payment[c].status, payment[c].attempt, mark, payment[c].bound)]
        BY <3>3 DEF CreateFails
      <4>1. Charge(payment[c].status, payment[c].attempt, mark, payment[c].bound).status = "pending"
        BY <2>2 DEF Charge
      <4> QED
        BY <4>1
    <3> QED
      BY <1>2, <3>1, <3>2, <3>3
  <2>4. payment'[c].status = "pending" /\ \A d \in Contribs \ {c} : payment'[d] = payment[d]
    BY <2>3, Tabled
  <2>5. request'[c] = "idle" /\ \A d \in Contribs \ {c} : request'[d] = request[d]
    BY <2>1, Tabled
  <2> QED
    BY <2>1, <2>2, <2>4, <2>5 DEF CreatesOnly
<1> QED
  BY <1>1, <1>2 DEF Creating

\* What the provider's side may do: it sends, and moves one order on.
ProvidesOnly(c) ==
    /\ order[c].status # "refunded"
    /\ order[c].status \in Confirmed => order'[c].status = "refunded"
    /\ event'[<<c, "paid">>] # event[<<c, "paid">>] => order'[c].status \in Confirmed
    /\ payment[c] # NoPayment /\ request'[c] # "calling"
    /\ request'[c] # "idle" => request[c] # "idle"
    /\ \A d \in Contribs \ {c} :
          order'[d] = order[d] /\ request'[d] = request[d] /\ event'[<<d, "paid">>] = event[<<d, "paid">>]
    /\ \A e \in Events : event'[e] = event[e] \/ event'[e] = "sent"
    /\ UNCHANGED <<payment, applied, handler>>

LEMMA ProviderStep == ASSUME LInv, NEW c \in Contribs, Provider(c) PROVE ProvidesOnly(c)
<1>0. Charged(c)
  BY DEF LInv, ChargeInv
<1>1. \E o : \E n \in Notices :
          /\ order' = [order EXCEPT ![c] = o]
          /\ event' = [event EXCEPT ![<<c, n>>] = "sent"]
          /\ n = "paid" => o.status \in Confirmed
          /\ order[c].status \in Confirmed => o.status = "refunded"
  <2>1. CASE ProviderCreates(c)
    BY <1>0, <2>1 DEF ProviderCreates, Notices, Confirmed, Charged
  <2>2. CASE Pay(c)
    <3> PICK s \in Confirmed, a \in Receivable : order' = [order EXCEPT ![c] = [status |-> s, amount |-> a]]
      BY <2>2 DEF Pay
    <3> QED
      BY <2>2 DEF Pay, Notices, Confirmed
  <2>3. CASE Refund(c)
    <3> DEFINE o == [status |-> "refunded", amount |-> order[c].amount]
    <3>1. order' = [order EXCEPT ![c] = o] /\ event' = [event EXCEPT ![<<c, "refunded">>] = "sent"]
      BY <2>3 DEF Refund
    <3>2. o.status = "refunded" /\ "refunded" \in Notices
      BY DEF Notices
    <3> HIDE DEF o
    <3> QED
      BY <3>1, <3>2
  <2>4. CASE Expire(c)
    BY <2>4 DEF Expire, Notices, Confirmed
  <2> QED
    BY <2>1, <2>2, <2>3, <2>4 DEF Provider
<1>a. PICK o : \E n \in Notices :
          /\ order' = [order EXCEPT ![c] = o]
          /\ event' = [event EXCEPT ![<<c, n>>] = "sent"]
          /\ n = "paid" => o.status \in Confirmed
          /\ order[c].status \in Confirmed => o.status = "refunded"
  BY <1>1
<1>b. PICK n \in Notices :
          /\ order' = [order EXCEPT ![c] = o]
          /\ event' = [event EXCEPT ![<<c, n>>] = "sent"]
          /\ n = "paid" => o.status \in Confirmed
          /\ order[c].status \in Confirmed => o.status = "refunded"
  BY <1>a
<1>2. order'[c] = o /\ \A d \in Contribs \ {c} : order'[d] = order[d]
  BY <1>b, Tabled
<1>3. /\ \A d \in Contribs \ {c} : event'[<<d, "paid">>] = event[<<d, "paid">>]
      /\ event'[<<c, "paid">>] # event[<<c, "paid">>] => n = "paid"
      /\ \A e \in Events : event'[e] = event[e] \/ event'[e] = "sent"
  BY <1>b, Tabled DEF Events, Notices
<1>4. /\ order[c].status # "refunded" /\ payment[c] # NoPayment
      /\ UNCHANGED <<payment, applied, handler>>
  <2>1. CASE ProviderCreates(c)
    BY <1>0, <2>1 DEF ProviderCreates, Charged, local, NoPayment, Charge
  <2>2. CASE Pay(c) \/ Refund(c) \/ Expire(c)
    BY <1>0, <2>2 DEF Pay, Refund, Expire, Confirmed, Charged, local
  <2> QED
    BY <2>1, <2>2 DEF Provider
<1>5. /\ request'[c] # "calling"
      /\ request'[c] # "idle" => request[c] # "idle"
      /\ \A d \in Contribs \ {c} : request'[d] = request[d]
  <2>1. CASE ProviderCreates(c)
    BY <2>1, Tabled DEF ProviderCreates
  <2>2. CASE Pay(c) \/ Refund(c) \/ Expire(c)
    BY <1>0, <2>2 DEF Pay, Refund, Expire, Confirmed, Charged
  <2> QED
    BY <2>1, <2>2 DEF Provider
<1>6. /\ order[c].status \in Confirmed => order'[c].status = "refunded"
      /\ event'[<<c, "paid">>] # event[<<c, "paid">>] => order'[c].status \in Confirmed
  BY <1>b, <1>2, <1>3
<1> QED
  BY <1>2, <1>3, <1>4, <1>5, <1>6 DEF ProvidesOnly

\* What a handler that ends may leave: the payment of its contribution marked
\* unless settled, and a notification closed for a reason.
EndsOnly(h, c) ==
    /\ payment[c].bound /\ request[c] = "idle"
    /\ payment'[c].bound
    /\ payment[c].recon = "REQUIRED" => payment'[c].recon = "REQUIRED" \/ Settled(c)'
    /\ payment'[c].status \in Confirmed => payment'[c].recon = "REQUIRED" \/ Settled(c)'
    /\ \A d \in Contribs \ {c} : payment'[d] = payment[d]
    /\ \A d \in Contribs : Settled(d) => Settled(d)'
    /\ \A d \in Contribs : \A n \in Notices :
          \/ event'[<<d, n>>] = event[<<d, n>>]
          \/ /\ <<d, n>> = EventOf(h) /\ event[<<d, n>>] # "unsent" /\ event'[<<d, n>>] = "processed"
             /\ n = "paid" => Settled(d)' \/ order[d].status = "refunded"
    /\ handler'[h] = Idle /\ \A g \in Handlers \ {h} : handler'[g] = handler[g]
    /\ UNCHANGED <<order, request>>

\* A step of a handler, in parts that are checked one by one.
LEMMA Ends ==
    ASSUME LInv, NEW h \in Handlers, handler[h].pc \in Busy, NEW c \in Contribs, c = ContribOf(h),
           NEW p, payment' = [payment EXCEPT ![c] = p], p.bound = payment[c].bound,
           payment[c].recon = "REQUIRED" => p.recon = "REQUIRED" \/ Settled(c)',
           p.status \in Confirmed => p.recon = "REQUIRED" \/ Settled(c)',
           \A d \in Contribs : Settled(d) => Settled(d)',
           \/ event' = event
           \/ /\ event' = [event EXCEPT ![EventOf(h)] = "processed"]
              /\ EventOf(h)[2] = "paid" => Settled(c)' \/ order[c].status = "refunded",
           handler' = [handler EXCEPT ![h] = Idle],
           UNCHANGED <<order, request>>
    PROVE  EndsOnly(h, c)
<1>1. payment'[c] = p /\ \A d \in Contribs \ {c} : payment'[d] = payment[d]
  BY Tabled
<1>2. handler'[h] = Idle /\ \A g \in Handlers \ {h} : handler'[g] = handler[g]
  BY Tabled
<1>3. payment[c].bound /\ request[c] = "idle" /\ event[EventOf(h)] # "unsent" /\ EventOf(h) \in Events
  BY BusyState DEF Seen
<1>4. ASSUME NEW d \in Contribs, NEW n \in Notices
      PROVE  \/ event'[<<d, n>>] = event[<<d, n>>]
             \/ /\ <<d, n>> = EventOf(h) /\ event[<<d, n>>] # "unsent"
                /\ event'[<<d, n>>] = "processed"
                /\ n = "paid" => Settled(d)' \/ order[d].status = "refunded"
  <2>1. CASE <<d, n>> = EventOf(h)
    <3>1. d = c /\ n = EventOf(h)[2]
      BY <2>1, BusyState DEF ContribOf, EventOf
    <3> QED
      BY <1>3, <2>1, <3>1, Tabled
  <2>2. CASE <<d, n>> # EventOf(h)
    <3>1. <<d, n>> \in Events
      BY DEF Events
    <3> QED
      BY <2>2, <3>1, Tabled
  <2> QED
    BY <2>1, <2>2
<1> QED
  BY <1>1, <1>2, <1>3, <1>4 DEF EndsOnly

\* What a payment says before a handler ends.
LEMMA Before ==
    ASSUME LInv, NEW h \in Handlers, handler[h].pc \in Busy, NEW c \in Contribs, c = ContribOf(h)
    PROVE  /\ payment[c].status \in Confirmed => payment[c].recon = "REQUIRED" \/ Settled(c)
           /\ handler[h].copy.recon = "REQUIRED" => payment[c].recon = "REQUIRED" \/ Settled(c)
  BY BusyState DEF LInv, NoMoneyIsLost, UnappliedMoneyIsMarked, Seen

LEMMA RecordStatusEnds ==
    ASSUME LInv, NEW h \in Handlers, RecordStatus(h), NEW c \in Contribs, c = ContribOf(h)
    PROVE  EndsOnly(h, c)
<1> DEFINE seen == handler[h].remote.status
           recon == IF seen = "refunded"
                    THEN Written(payment[c].recon, handler[h].copy.recon, "REQUIRED")
                    ELSE payment[c].recon
           p == Charge(Written(payment[c].status, handler[h].copy.status, seen), payment[c].attempt,
                       recon, payment[c].bound)
<1>1. /\ handler[h].pc = "answered" /\ seen \notin Confirmed
      /\ payment' = [payment EXCEPT ![c] = p]
      /\ event' = [event EXCEPT ![EventOf(h)] = "processed"]
      /\ handler' = [handler EXCEPT ![h] = Idle]
      /\ UNCHANGED <<applied, order, request>>
  BY DEF RecordStatus, End
<1>2. handler[h].pc \in Busy
  BY <1>1 DEF Busy
<1>3. \A d \in Contribs : Settled(d)' <=> Settled(d)
  BY <1>1 DEF Settled
<1>4. p.bound = payment[c].bound
  BY DEF Charge
<1>5. payment[c].recon = "REQUIRED" => p.recon = "REQUIRED"
  BY DEF Charge, Written
<1>6. p.status \in Confirmed => payment[c].status \in Confirmed
  BY <1>1 DEF Charge, Written
<1>7. EventOf(h)[2] = "paid" => order[c].status = "refunded"
  BY <1>1, <1>2, BusyState DEF Seen
<1> HIDE DEF p
<1> QED
  BY <1>1, <1>2, <1>3, <1>4, <1>5, <1>6, <1>7, Before, Ends

LEMMA RefuseCancelledEnds ==
    ASSUME LInv, NEW h \in Handlers, RefuseCancelled(h), NEW c \in Contribs, c = ContribOf(h)
    PROVE  EndsOnly(h, c)
<1> DEFINE p == Charge(Written(payment[c].status, handler[h].copy.status, handler[h].remote.status),
                       payment[c].attempt,
                       Written(payment[c].recon, handler[h].copy.recon, "REQUIRED"),
                       payment[c].bound)
<1>1. /\ handler[h].pc = "answered" /\ ~Settled(c)
      /\ payment' = [payment EXCEPT ![c] = p]
      /\ handler' = [handler EXCEPT ![h] = Idle]
      /\ UNCHANGED <<applied, order, request, event>>
  BY DEF RefuseCancelled, End
<1>2. handler[h].pc \in Busy
  BY <1>1 DEF Busy
<1>3. \A d \in Contribs : Settled(d)' <=> Settled(d)
  BY <1>1 DEF Settled
<1>4. p.bound = payment[c].bound
  BY DEF Charge
<1>5. p.recon = "REQUIRED"
  BY <1>1, <1>2, Before DEF Charge, Written
<1> HIDE DEF p
<1> QED
  BY <1>1, <1>2, <1>3, <1>4, <1>5, Ends

LEMMA SettleEnds ==
    ASSUME LInv, NEW h \in Handlers, Settle(h), NEW c \in Contribs, c = ContribOf(h)
    PROVE  EndsOnly(h, c)
<1> DEFINE seen == Written(payment[c].status, handler[h].copy.status, handler[h].remote.status)
           kept == Charge(seen, payment[c].attempt, payment[c].recon, payment[c].bound)
           released == Charge(seen, "none", "none", payment[c].bound)
<1>1. handler[h].pc = "settling" /\ handler' = [handler EXCEPT ![h] = Idle] /\ UNCHANGED <<order, request>>
  BY DEF Settle, End
<1>2. handler[h].pc \in Busy
  BY <1>1 DEF Busy
<1>3. kept.bound = payment[c].bound /\ kept.recon = payment[c].recon /\ released.bound = payment[c].bound
  BY DEF Charge
<1>4. payment = [payment EXCEPT ![c] = payment[c]]
  BY Tabled
<1>5. CASE Verdict(c) = "known"
  <2>1. /\ Settled(c)
        /\ payment' = [payment EXCEPT ![c] = kept]
        /\ event' = [event EXCEPT ![EventOf(h)] = "processed"]
        /\ applied' = applied
    BY <1>5 DEF Settle, Verdict
  <2>2. \A d \in Contribs : Settled(d)' <=> Settled(d)
    BY <2>1 DEF Settled
  <2> HIDE DEF kept, released, seen
  <2> QED
    BY <1>1, <1>2, <1>3, <2>1, <2>2, Ends
<1>6. CASE Verdict(c) = "refuse"
  <2>1. UNCHANGED <<payment, event, applied>>
    BY <1>6 DEF Settle
  <2>2. \A d \in Contribs : Settled(d)' <=> Settled(d)
    BY <2>1 DEF Settled
  <2>3. payment' = [payment EXCEPT ![c] = payment[c]]
    BY <1>4, <2>1
  <2> HIDE DEF kept, released, seen
  <2> QED
    BY <1>1, <1>2, <2>1, <2>2, <2>3, Before, Ends
<1>7. CASE Verdict(c) = "apply"
  <2>1. /\ payment' = [payment EXCEPT ![c] = kept] \/ payment' = [payment EXCEPT ![c] = released]
        /\ event' = [event EXCEPT ![EventOf(h)] = "processed"]
    BY <1>7 DEF Settle
  <2>2. Taken(h) \in 1..Amount /\ applied' = [applied EXCEPT ![c] = Taken(h)]
    BY <1>7, ApplyFacts DEF LInv, Applies
  <2>3. applied'[c] > 0 /\ \A d \in Contribs : applied[d] > 0 => applied'[d] > 0
    BY <2>2, AmountAssumption, Tabled
  <2>4. Settled(c)' /\ \A d \in Contribs : Settled(d) => Settled(d)'
    BY <2>3 DEF Settled
  <2> HIDE DEF kept, released, seen
  <2> QED
    BY <1>1, <1>2, <1>3, <2>1, <2>4, Ends
<1> QED
  BY <1>5, <1>6, <1>7 DEF Verdict

LEMMA NoAnswerEnds ==
    ASSUME LInv, NEW h \in Handlers, NoAnswer(h), NEW c \in Contribs, c = ContribOf(h)
    PROVE  EndsOnly(h, c)
<1>1. handler[h].pc \in Busy /\ handler' = [handler EXCEPT ![h] = Idle]
      /\ UNCHANGED <<payment, applied, order, request, event>>
  BY DEF NoAnswer, End, Busy, local
<1>2. payment' = [payment EXCEPT ![c] = payment[c]]
  BY <1>1, Tabled
<1>3. \A d \in Contribs : Settled(d)' <=> Settled(d)
  BY <1>1 DEF Settled
<1> QED
  BY <1>1, <1>2, <1>3, Before, Ends

\* A handler that goes on: what it holds in its new place is true.
GoesOn(h) ==
    /\ handler'[h].pc \in Busy => Seen(h)'
    /\ \A g \in Handlers \ {h} : handler'[g] = handler[g]
    /\ \A e \in Events : event'[e] = event[e] \/ (event[e] \in {"sent", "stored"} /\ event'[e] = "stored")
    /\ UNCHANGED <<payment, applied, order, request>>

LEMMA ReceiveGoesOn ==
    ASSUME LInv, NEW h \in Handlers, NEW e \in Events, Receive(h, e) PROVE GoesOn(h)
<1>1. /\ event' = [event EXCEPT ![e] = "stored"] /\ event[e] \in {"sent", "stored"}
      /\ handler[h].pc = "idle"
      /\ UNCHANGED <<payment, applied, order, request>>
  BY DEF Receive, local
<1>2. \A f \in Events : event'[f] = event[f] \/ (event[f] \in {"sent", "stored"} /\ event'[f] = "stored")
  BY <1>1, Tabled
<1>3. CASE UNCHANGED handler
  BY <1>1, <1>2, <1>3 DEF GoesOn, Busy
<1>4. CASE /\ payment[e[1]].bound
           /\ handler' = [handler EXCEPT ![h] = [pc |-> "asking", event |-> e,
                             copy |-> payment[e[1]], remote |-> NoOrder]]
  <2>1. /\ handler'[h].pc = "asking" /\ handler'[h].event = e /\ handler'[h].copy = payment[e[1]]
        /\ \A g \in Handlers \ {h} : handler'[g] = handler[g]
    BY <1>4, Tabled
  <2>2. event'[e] # "unsent"
    BY <1>1, Tabled
  <2>3. Seen(h)'
    BY <1>1, <1>4, <2>1, <2>2 DEF Seen, EventOf, ContribOf, Settled
  <2> QED
    BY <1>1, <1>2, <2>1, <2>3 DEF GoesOn
<1>5. CASE handler' = [handler EXCEPT ![h] = [pc |-> "stalled", event |-> e,
                             copy |-> NoPayment, remote |-> NoOrder]]
  <2>1. handler'[h].pc = "stalled" /\ \A g \in Handlers \ {h} : handler'[g] = handler[g]
    BY <1>5, Tabled
  <2> QED
    BY <1>1, <1>2, <2>1 DEF GoesOn, Busy
<1> QED
  BY <1>3, <1>4, <1>5 DEF Receive

\* A confirmed or refunded order is the only one whose payment was announced.
LEMMA AnsweredTruly ==
    ASSUME LInv, NEW h \in Handlers, handler[h].pc \in Busy, EventOf(h)[2] = "paid",
           order[ContribOf(h)].status \notin Confirmed
    PROVE  order[ContribOf(h)].status = "refunded"
<1>1. ContribOf(h) \in Contribs /\ event[<<ContribOf(h), "paid">>] # "unsent"
  BY BusyState DEF Seen
<1> QED
  BY <1>1 DEF LInv, ChargeInv, Charged

LEMMA AskedGoesOn == ASSUME LInv, NEW h \in Handlers, Answer(h) \/ GoSettle(h) PROVE GoesOn(h)
<1>1. handler[h].pc \in Busy /\ UNCHANGED <<payment, applied, order, event, request>>
  BY DEF Answer, GoSettle, Busy, local
<1>2. Seen(h)
  BY <1>1, BusyState
<1>3. \A g \in Handlers \ {h} : handler'[g] = handler[g]
  BY Tabled DEF Answer, GoSettle
<1>4. handler'[h].event = handler[h].event /\ handler'[h].copy = handler[h].copy
  BY Tabled DEF Answer, GoSettle
<1>5. \/ handler'[h].remote = order[ContribOf(h)]
      \/ handler'[h].remote = handler[h].remote /\ handler[h].pc # "asking"
  BY Tabled DEF Answer, GoSettle
<1>6. EventOf(h)' = EventOf(h) /\ ContribOf(h)' = ContribOf(h)
  BY <1>4 DEF EventOf, ContribOf
<1>7. EventOf(h)[2] = "paid" /\ handler'[h].remote.status \notin Confirmed
          => order[ContribOf(h)].status = "refunded"
  BY <1>1, <1>2, <1>5, AnsweredTruly DEF Seen
<1>8. Seen(h)'
  BY <1>1, <1>2, <1>4, <1>6, <1>7 DEF Seen, Settled
<1> QED
  BY <1>1, <1>3, <1>8 DEF GoesOn

-----------------------------------------------------------------------------
(* Every step is of one of six kinds.                                      *)

\* A step that touches neither charge nor notification.
Aside == UNCHANGED <<payment, applied, order, event, request, handler>>

\* Requests and handlers are gone, and nothing else changes.
Restarts ==
    /\ \A c \in Contribs : request'[c] = "idle"
    /\ \A h \in Handlers : handler'[h] = Idle
    /\ UNCHANGED <<payment, applied, order, event>>

Kinds ==
    \/ \E c \in Contribs : CreatesOnly(c)
    \/ \E c \in Contribs : ProvidesOnly(c)
    \/ \E h \in Handlers, c \in Contribs : EndsOnly(h, c)
    \/ \E h \in Handlers : GoesOn(h)
    \/ Aside
    \/ Restarts

LEMMA StepKinds == ASSUME LInv, [Next]_vars PROVE Kinds
<1>1. ASSUME NEW c \in Contribs, Creating(c) \/ Provider(c) PROVE Kinds
  BY <1>1, CreatingStep, ProviderStep DEF Kinds
<1>2. ASSUME NEW h \in Handlers, Handling(h) PROVE Kinds
  <2>1. CASE \E e \in Events : Receive(h, e)
    BY <2>1, ReceiveGoesOn DEF Kinds
  <2>2. CASE Answer(h) \/ GoSettle(h)
    BY <2>2, AskedGoesOn DEF Kinds
  <2>3. CASE NoAnswer(h) \/ RecordStatus(h) \/ RefuseCancelled(h) \/ Settle(h)
    <3>1. handler[h].pc \in Busy
      BY <2>3 DEF NoAnswer, RecordStatus, RefuseCancelled, Settle, Busy
    <3>2. PICK c \in Contribs : c = ContribOf(h)
      BY <3>1, BusyState
    <3>3. EndsOnly(h, c)
      BY <2>3, <3>2, NoAnswerEnds, RecordStatusEnds, RefuseCancelledEnds, SettleEnds
    <3> QED
      BY <3>3 DEF Kinds
  <2> QED
    BY <1>2, <2>1, <2>2, <2>3 DEF Handling
<1>3. CASE Office
  BY <1>3 DEF Office, Cancel, ReversePayment, ReverseEntry, Aside, Kinds
<1>4. CASE Restart
  BY <1>4 DEF Restart, Restarts, Kinds, local
<1>5. CASE UNCHANGED vars
  BY <1>5 DEF vars, Aside, Kinds
<1> QED
  BY <1>1, <1>2, <1>3, <1>4, <1>5 DEF Next

\* No kind of step takes back what Keeps names.
LEMMA KeepsStep == ASSUME LInv, Kinds, NEW c \in Contribs PROVE Keeps(c)
<1>0. \A n \in Notices : <<c, n>> \in Events
  BY DEF Events
<1>1. ASSUME NEW d \in Contribs, CreatesOnly(d) PROVE Keeps(c)
  BY <1>1 DEF CreatesOnly, Keeps, Settled
<1>2. ASSUME NEW d \in Contribs, ProvidesOnly(d) PROVE Keeps(c)
  BY <1>0, <1>2 DEF ProvidesOnly, Keeps, Settled
<1>3. ASSUME NEW h \in Handlers, NEW d \in Contribs, EndsOnly(h, d) PROVE Keeps(c)
  BY <1>3 DEF EndsOnly, Keeps
<1>4. ASSUME NEW h \in Handlers, GoesOn(h) PROVE Keeps(c)
  BY <1>0, <1>4 DEF GoesOn, Keeps, Settled
<1>5. CASE Aside \/ Restarts
  BY <1>5 DEF Aside, Restarts, Keeps, Settled
<1> QED
  BY <1>1, <1>2, <1>3, <1>4, <1>5 DEF Kinds

\* A charge under creation stays unbound, an announced payment stays paid or refunded.
LEMMA ChargedStep == ASSUME LInv, Kinds, NEW c \in Contribs PROVE Charged(c)'
<1>0. Charged(c) /\ <<c, "paid">> \in Events
  BY DEF LInv, ChargeInv, Events, Notices
<1>1. ASSUME NEW d \in Contribs, CreatesOnly(d) PROVE Charged(c)'
  <2>1. CASE c = d
    BY <1>0, <1>1, <2>1 DEF CreatesOnly, Charged, NoPayment, Charge
  <2>2. CASE c # d
    BY <1>0, <1>1, <2>2 DEF CreatesOnly, Charged
  <2> QED
    BY <2>1, <2>2
<1>2. ASSUME NEW d \in Contribs, ProvidesOnly(d) PROVE Charged(c)'
  <2>1. CASE c = d
    BY <1>0, <1>2, <2>1 DEF ProvidesOnly, Charged
  <2>2. CASE c # d
    BY <1>0, <1>2, <2>2 DEF ProvidesOnly, Charged
  <2> QED
    BY <2>1, <2>2
<1>3. ASSUME NEW h \in Handlers, NEW d \in Contribs, EndsOnly(h, d) PROVE Charged(c)'
  <2>1. event'[<<c, "paid">>] # "unsent" => event[<<c, "paid">>] # "unsent"
    BY <1>3 DEF EndsOnly, Notices
  <2>2. CASE c = d
    BY <1>0, <1>3, <2>1, <2>2 DEF EndsOnly, Charged, NoPayment, Charge
  <2>3. CASE c # d
    BY <1>0, <1>3, <2>1, <2>3 DEF EndsOnly, Charged
  <2> QED
    BY <2>2, <2>3
<1>4. ASSUME NEW h \in Handlers, GoesOn(h) PROVE Charged(c)'
  <2>1. event'[<<c, "paid">>] # "unsent" => event[<<c, "paid">>] # "unsent"
    BY <1>0, <1>4 DEF GoesOn
  <2> QED
    BY <1>0, <1>4, <2>1 DEF GoesOn, Charged
<1>5. CASE Aside \/ Restarts
  BY <1>0, <1>5 DEF Aside, Restarts, Charged
<1> QED
  BY <1>1, <1>2, <1>3, <1>4, <1>5 DEF Kinds

\* A handler that does not move keeps knowing what it knows.
LEMMA SeenKept ==
    ASSUME LInv, Kinds, NEW h \in Handlers, handler'[h] = handler[h], handler[h].pc \in Busy
    PROVE  Seen(h)'
<1>1. ContribOf(h)' = ContribOf(h) /\ EventOf(h)' = EventOf(h)
  BY DEF ContribOf, EventOf
<1>2. PICK c \in Contribs, n \in Notices : c = ContribOf(h) /\ EventOf(h) = <<c, n>>
  BY BusyState DEF Events
<1>3. Keeps(c) /\ Seen(h)
  BY KeepsStep, BusyState
<1>4. event'[<<c, n>>] # "unsent" /\ payment'[c].bound
  BY <1>2, <1>3 DEF Keeps, Seen
<1>5. handler[h].copy.recon = "REQUIRED" => payment'[c].recon = "REQUIRED" \/ Settled(c)'
  BY <1>2, <1>3 DEF Keeps, Seen
<1>6. handler[h].pc # "asking" /\ EventOf(h)[2] = "paid" /\ handler[h].remote.status \notin Confirmed
          => order'[c].status = "refunded"
  BY <1>2, <1>3 DEF Keeps, Seen
<1> QED
  BY <1>1, <1>2, <1>4, <1>5, <1>6 DEF Seen, Settled

LEMMA SeenStep == ASSUME LInv, Kinds, NEW h \in Handlers, handler'[h].pc \in Busy PROVE Seen(h)'
<1>0. Idle.pc \notin Busy
  BY DEF Idle, Busy
<1>1. ASSUME NEW g \in Handlers, GoesOn(g) PROVE Seen(h)'
  <2>1. CASE g = h
    BY <1>1, <2>1 DEF GoesOn
  <2>2. CASE g # h
    BY <1>1, <2>2, SeenKept DEF GoesOn
  <2> QED
    BY <2>1, <2>2
<1>2. ASSUME NEW g \in Handlers, NEW c \in Contribs, EndsOnly(g, c) PROVE Seen(h)'
  <2>1. g # h /\ handler'[h] = handler[h]
    BY <1>0, <1>2 DEF EndsOnly
  <2> QED
    BY <2>1, SeenKept
<1>3. ASSUME NEW c \in Contribs, CreatesOnly(c) \/ ProvidesOnly(c) PROVE Seen(h)'
  <2>1. handler'[h] = handler[h]
    BY <1>3 DEF CreatesOnly, ProvidesOnly
  <2> QED
    BY <2>1, SeenKept
<1>4. CASE Aside
  <2>1. handler'[h] = handler[h]
    BY <1>4 DEF Aside
  <2> QED
    BY <2>1, SeenKept
<1>5. CASE Restarts
  BY <1>0, <1>5 DEF Restarts
<1> QED
  BY <1>1, <1>2, <1>3, <1>4, <1>5 DEF Kinds

\* A notification is closed for a reason that stays.
LEMMA ForgottenStep == ASSUME LInv, Kinds PROVE NoPaymentIsForgotten'
<1> SUFFICES ASSUME NEW c \in Contribs, event'[<<c, "paid">>] = "processed"
             PROVE  Settled(c)' \/ order'[c].status = "refunded"
  BY DEF NoPaymentIsForgotten
<1>0. <<c, "paid">> \in Events /\ "paid" \in Notices
  BY DEF Events, Notices
<1>1. CASE event[<<c, "paid">>] = "processed"
  BY <1>1, KeepsStep DEF LInv, NoMoneyIsLost, NoPaymentIsForgotten, Keeps
<1>2. CASE event[<<c, "paid">>] # "processed"
  <2>1. PICK h \in Handlers, d \in Contribs : EndsOnly(h, d)
    BY <1>0, <1>2 DEF Kinds, CreatesOnly, ProvidesOnly, GoesOn, Aside, Restarts
  <2> QED
    BY <1>0, <1>2, <2>1 DEF EndsOnly
<1> QED
  BY <1>1, <1>2

\* Confirmed money is settled or marked.
LEMMA MarkedStep == ASSUME LInv, Kinds PROVE UnappliedMoneyIsMarked'
<1> SUFFICES ASSUME NEW c \in Contribs, payment'[c].status \in Confirmed, ~Settled(c)'
             PROVE  payment'[c].recon = "REQUIRED"
  BY DEF UnappliedMoneyIsMarked
<1>0. ~Settled(c)
  BY KeepsStep DEF Keeps
<1>1. payment[c].status \in Confirmed => payment[c].recon = "REQUIRED"
  BY <1>0 DEF LInv, NoMoneyIsLost, UnappliedMoneyIsMarked
<1>2. CASE payment'[c] = payment[c]
  BY <1>1, <1>2
<1>3. ASSUME NEW d \in Contribs, CreatesOnly(d) PROVE payment'[c].recon = "REQUIRED"
  BY <1>2, <1>3 DEF CreatesOnly, Confirmed
<1>4. ASSUME NEW h \in Handlers, NEW d \in Contribs, EndsOnly(h, d) PROVE payment'[c].recon = "REQUIRED"
  BY <1>2, <1>4 DEF EndsOnly
<1> QED
  BY <1>2, <1>3, <1>4 DEF Kinds, ProvidesOnly, GoesOn, Aside, Restarts

-----------------------------------------------------------------------------
(* The theorem.                                                            *)

LEMMA LInit == Init => LInv
<1> SUFFICES ASSUME Init PROVE LInv
  OBVIOUS
<1>1. ChargeInv
  BY DEF Init, ChargeInv, Charged, NoOrder, Events, Notices
<1>2. SeenInv
  BY DEF Init, SeenInv, Idle, Busy
<1>3. NoPaymentIsForgotten
  BY DEF Init, NoPaymentIsForgotten, Events, Notices
<1>4. UnappliedMoneyIsMarked
  BY DEF Init, UnappliedMoneyIsMarked, NoPayment, Charge, Confirmed
<1> QED
  BY <1>1, <1>2, <1>3, <1>4, InitInv DEF LInv, NoMoneyIsLost

LEMMA LStep == LInv /\ [Next]_vars => LInv'
<1> SUFFICES ASSUME LInv, [Next]_vars PROVE LInv'
  OBVIOUS
<1>1. IInv'
  BY Inductive DEF LInv
<1>2. Kinds
  BY StepKinds
<1>3. ChargeInv'
  BY <1>2, ChargedStep DEF ChargeInv
<1>4. SeenInv'
  BY <1>2, SeenStep DEF SeenInv
<1> QED
  BY <1>1, <1>2, <1>3, <1>4, ForgottenStep, MarkedStep DEF LInv, NoMoneyIsLost

\* The notification of a payment is closed only when the money was settled or
\* refunded, and confirmed money that was not applied is marked, although the
\* webhook writes what differs from a copy it loaded before it asked the
\* provider (api/payments.py _process_mercado_pago_event).
THEOREM MoneyIsNeverLost == Spec => []NoMoneyIsLost
<1>1. LInv => NoMoneyIsLost
  BY DEF LInv
<1> QED
  BY <1>1, LInit, LStep, PTL DEF Spec
=============================================================================
