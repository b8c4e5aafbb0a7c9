----------------------- MODULE InstallmentPix_proofs -----------------------
(***************************************************************************)
(* Proofs about InstallmentPix for any loan, any obligation of its         *)
(* installments and any number of requests, payments and days.             *)
(*                                                                         *)
(* The first invariant, IInv, is about the attempts: who may write a row.  *)
(* The second, MoneyInv, is about the money: the debts count as paid what  *)
(* the settlements in force say, the latest settlement of an owner may be  *)
(* taken back, and what the approval of an agreement found open, with what *)
(* was received before, is the loan.                                       *)
(***************************************************************************)
EXTENDS InstallmentPix, FiniteSums, TLAPS

-----------------------------------------------------------------------------
(* The inductive invariant.                                                *)

(* The tables have a row for each key. *)
Tables ==
    /\ payment = [a \in Ids |-> payment[a]]
    /\ settlement = [a \in Ids |-> settlement[a]]
    /\ order = [a \in Ids |-> order[a]]
    /\ event = [a \in Ids |-> event[a]]
    /\ request = [r \in Requests |-> request[r]]

(* A request that talks to the provider does so for the debt of its row.   *)
HasRow(r) ==
    /\ request[r].pc = "inserting" => request[r].debt[1] = "loan"
    /\ request[r].pc \in {"calling", "created"} =>
           /\ request[r].id \in Ids
           /\ request[r].debt[1] \in Owners
           /\ payment[request[r].id].debt = request[r].debt

(* Only a request that reuses an attempt has loaded a mark, and it keeps   *)
(* everyone else from binding the attempt.                                 *)
KeepsMark(r) ==
    request[r].mark # "none" =>
        /\ request[r].pc \in {"calling", "created"}
        /\ request[r].holds
        /\ request[r].debt[1] = "loan"
        /\ ~payment[request[r].id].bound

(* Attempts of an agreement are released, never ended. *)
PartsNeverEnd == \A a \in Ids :
    payment[a].debt[1] = "agreement" => payment[a].attempt \in {"none", "PENDING"}

HookHasRow == hook.pc # "idle" => hook.id \in Ids

PaidIsBound == \A a \in Ids : order[a].status = "paid" => payment[a].bound

IInv == /\ Tables
        /\ \A r \in Requests : HasRow(r) /\ KeepsMark(r)
        /\ PartsNeverEnd
        /\ HookHasRow
        /\ PaidIsBound
        /\ ClosedMoneyIsKnown

EndsOnce == \A a \in Ids :
    payment[a].attempt \in {"APPROVED", "EXPIRED", "SUPERSEDED"}
        => payment'[a].attempt = payment[a].attempt

-----------------------------------------------------------------------------
(* What the constructors of rows put where.                               *)
LEMMA Rows ==
    /\ \A d, on, amount, attempt :
          LET x == Row(d, on, amount, attempt)
          IN  x.debt = d /\ x.attempt = attempt /\ x.mark = "none" /\ ~x.bound
    /\ NoRow.debt[1] = "none" /\ ~NoRow.bound
BY DEF Row, NoRow, NoDebt

(* Writing columns keeps the debt of the row.                              *)
LEMMA Cells ==
    \A row, attempt, status, mark, bound :
        LET x == Columns(row, attempt, status, mark, bound)
        IN  x.debt = row.debt /\ x.attempt = attempt /\ x.mark = mark /\ x.bound = bound
BY DEF Columns

(* EXCEPT keeps the shape of a table and writes one row.                  *)
LEMMA Update ==
    \A S : \A f, a, x :
        f = [b \in S |-> f[b]] /\ a \in S =>
            LET g == [f EXCEPT ![a] = x]
            IN  /\ g = [b \in S |-> g[b]]
                /\ g[a] = x
                /\ \A b \in S : b # a => g[b] = f[b]
OBVIOUS

(* What the constructor of a request puts where.                          *)
LEMMA Calls ==
    /\ \A pc, d, amount, a, holds, mark :
          LET x == Calling(pc, d, amount, a, holds, mark)
          IN  x.pc = pc /\ x.debt = d /\ x.id = a /\ x.holds = holds /\ x.mark = mark
    /\ Idle.pc = "idle" /\ Idle.mark = "none"
BY DEF Calling, Idle

(* The empty database satisfies the invariant.                            *)
LEMMA Initially == Init => IInv
<1> SUFFICES ASSUME Init PROVE IInv
  OBVIOUS
<1>1. Tables /\ HookHasRow
  BY DEF Init, Tables, HookHasRow, NoHook
<1>2. \A r \in Requests : HasRow(r) /\ KeepsMark(r)
  BY Calls DEF Init, HasRow, KeepsMark
<1>3. PartsNeverEnd /\ PaidIsBound /\ ClosedMoneyIsKnown
  BY Rows DEF Init, PartsNeverEnd, PaidIsBound, ClosedMoneyIsKnown, NoOrder, NoRow, Row
<1> QED BY <1>1, <1>2, <1>3 DEF IInv

(* A request inserts its row and calls the provider for it.               *)
LEMMA NewAttempt ==
    ASSUME IInv, NEW r \in Requests, NEW a \in Ids, NextId(a),
           NEW d, d[1] \in Owners, NEW on, NEW amount, NEW x,
           payment' = [payment EXCEPT ![a] = Row(d, on, amount, "PENDING")],
           request' = [request EXCEPT ![r] = Calling("calling", d, x, a, FALSE, "none")],
           UNCHANGED <<books, provider, hook>>
    PROVE  IInv' /\ EndsOnce
<1>1. /\ payment'[a].debt = d /\ payment'[a].attempt = "PENDING"
      /\ \A b \in Ids : b # a => payment'[b] = payment[b]
  BY Rows DEF IInv, Tables
<1>2. /\ request'[r].pc = "calling" /\ request'[r].debt = d /\ request'[r].id = a
      /\ request'[r].mark = "none"
      /\ \A q \in Requests : q # r => request'[q] = request[q]
  BY DEF IInv, Tables, Calling
<1>3. payment[a] = NoRow /\ payment[a].debt[1] = "none" /\ ~payment[a].bound
  BY Rows DEF NextId
<1>4. Tables'
  <2>1. payment' = [b \in Ids |-> payment'[b]]
    BY DEF IInv, Tables
  <2>2. request' = [q \in Requests |-> request'[q]]
    BY Update DEF IInv, Tables
  <2> QED BY <2>1, <2>2 DEF IInv, Tables, books, provider
<1>5. HasRow(r)' /\ KeepsMark(r)'
  BY <1>1, <1>2 DEF HasRow, KeepsMark
<1>6. ASSUME NEW q \in Requests, q # r PROVE HasRow(q)' /\ KeepsMark(q)'
  <2>1. HasRow(q) /\ KeepsMark(q) /\ request'[q] = request[q]
    BY <1>2, <1>6 DEF IInv
  <2>2. request[q].pc \in {"calling", "created"} => request[q].id # a
    BY <2>1, <1>3 DEF HasRow, Owners
  <2> QED BY <1>1, <2>1, <2>2 DEF HasRow, KeepsMark
<1>7. PartsNeverEnd' /\ HookHasRow'
  BY <1>1 DEF IInv, PartsNeverEnd, HookHasRow
<1>8. PaidIsBound' /\ ClosedMoneyIsKnown'
  BY <1>1, <1>3 DEF IInv, PaidIsBound, ClosedMoneyIsKnown, books, provider, Settled
<1>9. EndsOnce
  BY <1>1, <1>3 DEF EndsOnce, NoRow, Row
<1> QED BY <1>4, <1>5, <1>6, <1>7, <1>8, <1>9 DEF IInv

(* Steps that leave the tables alone.                                      *)
LEMMA Quiet ==
    ASSUME IInv, HookHasRow', UNCHANGED <<payment, settlement, provider, request>>
    PROVE  IInv' /\ EndsOnce
<1>1. Tables' /\ PartsNeverEnd' /\ PaidIsBound'
  BY DEF IInv, Tables, PartsNeverEnd, PaidIsBound, provider
<1>2. \A r \in Requests : HasRow(r)' /\ KeepsMark(r)'
  BY DEF IInv, HasRow, KeepsMark
<1>3. ClosedMoneyIsKnown'
  BY DEF IInv, ClosedMoneyIsKnown, provider, Settled
<1>4. EndsOnce
  BY DEF EndsOnce
<1> QED BY <1>1, <1>2, <1>3, <1>4 DEF IInv

(* A request that did not move still has its row, and its mark, when no    *)
(* row changed its debt and the row whose mark it read was not bound.      *)
LEMMA Bystander ==
    ASSUME IInv, NEW q \in Requests, request'[q] = request[q],
           \A b \in Ids : payment'[b].debt = payment[b].debt,
           \A b \in Ids : \/ payment'[b].bound => payment[b].bound
                          \/ ~HoldsRow(q, b)
                          \/ request[q].mark = "none"
    PROVE  HasRow(q)' /\ KeepsMark(q)'
<1>1. HasRow(q) /\ KeepsMark(q)
  BY DEF IInv
<1>2. HasRow(q)'
  BY <1>1 DEF HasRow
<1>3. ASSUME request[q].mark # "none" PROVE ~payment'[request[q].id].bound
  <2>1. request[q].id \in Ids /\ ~payment[request[q].id].bound /\ HoldsRow(q, request[q].id)
    BY <1>1, <1>3 DEF HasRow, KeepsMark, HoldsRow
  <2> QED BY <1>3, <2>1
<1> QED BY <1>1, <1>2, <1>3 DEF KeepsMark

(* Columns of one row are written: what the row must keep for the parts of *)
(* the invariant that speak of attempts.                                   *)
LEMMA Write ==
    ASSUME IInv, NEW a \in Ids, NEW attempt, NEW status, NEW mark, NEW bound,
           payment' = [payment EXCEPT ![a] =
                           Columns(payment[a], attempt, status, mark, bound)],
           order' = order,
           bound \in {TRUE, payment[a].bound},
           payment[a].debt[1] = "agreement" => attempt \in {"none", "PENDING"},
           payment[a].attempt \in {"APPROVED", "EXPIRED", "SUPERSEDED"}
               => attempt = payment[a].attempt
    PROVE  /\ payment' = [b \in Ids |-> payment'[b]]
           /\ \A b \in Ids : payment'[b].debt = payment[b].debt
           /\ \A b \in Ids : b # a => payment'[b] = payment[b]
           /\ payment'[a].mark = mark
           /\ payment'[a].bound = bound
           /\ PartsNeverEnd' /\ PaidIsBound' /\ EndsOnce
<1>1. /\ payment' = [b \in Ids |-> payment'[b]]
      /\ payment'[a] = Columns(payment[a], attempt, status, mark, bound)
      /\ \A b \in Ids : b # a => payment'[b] = payment[b]
  BY DEF IInv, Tables
<1>2. /\ payment'[a].debt = payment[a].debt /\ payment'[a].attempt = attempt
      /\ payment'[a].mark = mark /\ payment'[a].bound = bound
  BY <1>1, Cells
<1>3. PartsNeverEnd'
  BY <1>1, <1>2 DEF IInv, PartsNeverEnd
<1>4. PaidIsBound'
  BY <1>1, <1>2 DEF IInv, PaidIsBound
<1>5. EndsOnce
  BY <1>1, <1>2 DEF EndsOnce
<1> QED BY <1>1, <1>2, <1>3, <1>4, <1>5

(* A request moves and nothing else does.                                  *)
LEMMA Move ==
    ASSUME IInv, NEW r \in Requests, NEW x,
           request' = [request EXCEPT ![r] = x],
           order' = [b \in Ids |-> order'[b]],
           \A b \in Ids : order'[b].status = "paid" => order[b].status = "paid",
           UNCHANGED <<payment, settlement, event, hook>>,
           HasRow(r)' /\ KeepsMark(r)'
    PROVE  IInv' /\ EndsOnce
<1>1. /\ request' = [q \in Requests |-> request'[q]]
      /\ \A q \in Requests : q # r => request'[q] = request[q]
  BY Update DEF IInv, Tables
<1>2. Tables' /\ PartsNeverEnd' /\ PaidIsBound' /\ HookHasRow'
  BY <1>1 DEF IInv, Tables, PartsNeverEnd, PaidIsBound, HookHasRow
<1>3. \A q \in Requests : HasRow(q)' /\ KeepsMark(q)'
  BY <1>1, Bystander
<1>4. ClosedMoneyIsKnown'
  BY DEF IInv, ClosedMoneyIsKnown, Settled
<1>5. EndsOnce
  BY DEF EndsOnce
<1> QED BY <1>2, <1>3, <1>4, <1>5 DEF IInv

(* A request writes a row and moves.                                       *)
LEMMA Answer ==
    ASSUME IInv, NEW r \in Requests, NEW x, request' = [request EXCEPT ![r] = x],
           NEW a \in Ids, NEW attempt, NEW status, NEW mark, NEW bound,
           payment' = [payment EXCEPT ![a] =
                           Columns(payment[a], attempt, status, mark, bound)],
           UNCHANGED <<settlement, order, event, hook>>,
           bound \in {TRUE, payment[a].bound},
           payment[a].debt[1] = "agreement" => attempt \in {"none", "PENDING"},
           payment[a].attempt \in {"APPROVED", "EXPIRED", "SUPERSEDED"}
               => attempt = payment[a].attempt,
           payment[a].bound /\ payment[a].mark # "none" => mark # "none",
           \A q \in Requests \ {r} :
               \/ bound = payment[a].bound
               \/ ~HoldsRow(q, a)
               \/ request[q].mark = "none",
           x.pc \in {"idle", "inserting"} /\ x.mark = "none",
           x.pc = "inserting" => x.debt[1] = "loan"
    PROVE  IInv' /\ EndsOnce
<1>1. /\ payment' = [b \in Ids |-> payment'[b]]
      /\ \A b \in Ids : payment'[b].debt = payment[b].debt
      /\ \A b \in Ids : b # a => payment'[b] = payment[b]
      /\ payment'[a].mark = mark
      /\ payment'[a].bound = bound
      /\ PartsNeverEnd' /\ PaidIsBound' /\ EndsOnce
  BY Write
<1>2. /\ request' = [q \in Requests |-> request'[q]]
      /\ request'[r] = x
      /\ \A q \in Requests : q # r => request'[q] = request[q]
  BY Update DEF IInv, Tables
<1>3. Tables' /\ HookHasRow'
  BY <1>1, <1>2 DEF IInv, Tables, HookHasRow
<1>4. HasRow(r)' /\ KeepsMark(r)'
  BY <1>2 DEF HasRow, KeepsMark
<1>5. ASSUME NEW q \in Requests, q # r PROVE HasRow(q)' /\ KeepsMark(q)'
  <2>1. \A b \in Ids : \/ payment'[b].bound => payment[b].bound
                       \/ ~HoldsRow(q, b)
                       \/ request[q].mark = "none"
    BY <1>1, <1>5
  <2> QED BY <1>1, <1>2, <1>5, <2>1, Bystander
<1>6. ClosedMoneyIsKnown'
  <2> SUFFICES ASSUME NEW b \in Ids, order[b].status = "paid", event[b] < Notices,
                      ~Settled(b)
               PROVE  payment'[b].mark # "none"
    BY DEF ClosedMoneyIsKnown, Settled
  <2>1. payment[b].mark # "none" /\ payment[b].bound
    BY DEF IInv, ClosedMoneyIsKnown, PaidIsBound
  <2> QED BY <1>1, <2>1
<1> QED BY <1>1, <1>3, <1>4, <1>5, <1>6 DEF IInv

(* Every step of a request for a charge keeps the invariant.               *)
LEMMA ChargingStep ==
    ASSUME IInv, NEW r \in Requests, Charging(r)
    PROVE  IInv' /\ EndsOnce
<1>1. ASSUME NEW d \in Debts, Reserve(r, d) PROVE IInv' /\ EndsOnce
  <2>1. PICK a \in Ids :
            /\ NextId(a)
            /\ payment' = [payment EXCEPT ![a] = Row(d, day, Obligation(d, day), "PENDING")]
            /\ request' = [request EXCEPT
                   ![r] = Calling("calling", d, Obligation(d, day), a, FALSE, "none")]
    BY <1>1 DEF Reserve
  <2>2. d[1] \in Owners /\ UNCHANGED <<books, provider, hook>>
    BY <1>1 DEF Reserve, Owners
  <2> QED BY <2>1, <2>2, NewAttempt
<1>2. ASSUME NEW d \in Debts, ReservePart(r, d) PROVE IInv' /\ EndsOnce
  <2>1. PICK a \in Ids :
            /\ NextId(a)
            /\ payment' = [payment EXCEPT ![a] = Row(d, day, Owed(d) - paid[d], "PENDING")]
            /\ request' = [request EXCEPT
                   ![r] = Calling("calling", d, Owed(d) - paid[d], a, FALSE, "none")]
    BY <1>2 DEF ReservePart
  <2>2. d[1] \in Owners /\ UNCHANGED <<books, provider, hook>>
    BY <1>2 DEF ReservePart, Owners, DebtsOf
  <2> QED BY <2>1, <2>2, NewAttempt
<1>3. CASE Insert(r)
  <2>1. PICK a \in Ids :
            /\ NextId(a)
            /\ payment' = [payment EXCEPT
                   ![a] = Row(request[r].debt, day, request[r].amount, "PENDING")]
            /\ request' = [request EXCEPT
                   ![r] = Calling("calling", @.debt, @.amount, a, FALSE, "none")]
    BY <1>3 DEF Insert
  <2>2. request' = [request EXCEPT
            ![r] = Calling("calling", request[r].debt, request[r].amount, a, FALSE, "none")]
    BY <2>1
  <2>3. request[r].debt[1] \in Owners /\ UNCHANGED <<books, provider, hook>>
    BY <1>3 DEF Insert, IInv, HasRow, Owners
  <2> QED BY <2>1, <2>2, <2>3, NewAttempt
<1>4. ASSUME NEW d \in Debts, Reuse(r, d) PROVE IInv' /\ EndsOnce
  <2> DEFINE x(a) == Calling("calling", d, Obligation(d, day), a, TRUE, payment[a].mark)
  <2>1. PICK a \in Pending(d) : ~payment[a].bound /\ request' = [request EXCEPT ![r] = x(a)]
    BY <1>4 DEF Reuse
  <2>2. /\ a \in Ids /\ payment[a].debt = d /\ d[1] = "loan"
        /\ UNCHANGED <<payment, books, provider, hook>>
    BY <1>4, <2>1 DEF Reuse, Pending
  <2>3. request'[r] = x(a)
    BY <2>1 DEF IInv, Tables
  <2>4. HasRow(r)' /\ KeepsMark(r)'
    BY <2>1, <2>2, <2>3 DEF HasRow, KeepsMark, Calling, Owners
  <2>5. order' = [b \in Ids |-> order'[b]] /\ UNCHANGED <<payment, settlement, order, event>>
    BY <2>2 DEF IInv, Tables, books, provider
  <2> QED BY <2>1, <2>2, <2>4, <2>5, Move
<1>5. CASE (\E d \in Debts : ReserveStalls(r, d)) \/ AnswerStalls(r)
  <2> DEFINE x == Calling("stalled", NoDebt, 0, 0, FALSE, "none")
  <2>1. /\ request' = [request EXCEPT ![r] = x]
        /\ UNCHANGED <<payment, books, provider, hook>>
    BY <1>5 DEF ReserveStalls, AnswerStalls, Stall
  <2>2. request'[r] = x
    BY <2>1 DEF IInv, Tables
  <2>3. HasRow(r)' /\ KeepsMark(r)'
    BY <2>2 DEF HasRow, KeepsMark, Calling
  <2>4. order' = [b \in Ids |-> order'[b]] /\ UNCHANGED <<payment, settlement, order, event>>
    BY <2>1 DEF IInv, Tables, books, provider
  <2> QED BY <2>1, <2>3, <2>4, Move
<1>6. CASE ProviderCreates(r)
  <2> DEFINE x == Calling("created", request[r].debt, request[r].amount, request[r].id,
                          request[r].holds, request[r].mark)
             a == request[r].id
             y == IF order[a] = NoOrder THEN OpenOrder ELSE order[a]
  <2>1. /\ request' = [request EXCEPT ![r] = x]
        /\ order' = [order EXCEPT ![a] = y]
        /\ request[r].pc = "calling"
        /\ UNCHANGED <<payment, books, event, hook>>
    BY <1>6 DEF ProviderCreates
  <2>2. request'[r] = x /\ HasRow(r) /\ KeepsMark(r) /\ a \in Ids
    BY <2>1 DEF IInv, Tables, HasRow
  <2>3. HasRow(r)' /\ KeepsMark(r)'
    BY <2>1, <2>2 DEF HasRow, KeepsMark, Calling
  <2>4. /\ order' = [b \in Ids |-> order'[b]] /\ order'[a] = y
        /\ \A b \in Ids : b # a => order'[b] = order[b]
    BY <2>1, <2>2, Update DEF IInv, Tables
  <2>5. \A b \in Ids : order'[b].status = "paid" => order[b].status = "paid"
    BY <2>4 DEF OpenOrder
  <2> QED BY <2>1, <2>3, <2>4, <2>5, Move DEF books
<1>7. ASSUME NEW d \in Debts, Retire(r, d) PROVE IInv' /\ EndsOnce
  <2> DEFINE x == Calling("inserting", d, Obligation(d, day), 0, FALSE, "none")
             end(a) == IF payment[a].on < day THEN "EXPIRED" ELSE "SUPERSEDED"
  <2>1. PICK a \in Pending(d) :
            payment' = [payment EXCEPT ![a] = Columns(payment[a], end(a),
                            payment[a].status, payment[a].mark, payment[a].bound)]
    BY <1>7 DEF Retire
  <2>2. /\ request' = [request EXCEPT ![r] = x]
        /\ d[1] = "loan"
        /\ UNCHANGED <<settlement, order, event, hook>>
    BY <1>7 DEF Retire, books, provider
  <2>3. a \in Ids /\ payment[a].debt[1] = "loan" /\ payment[a].attempt = "PENDING"
    BY <2>2 DEF Pending
  <2>4. x.pc = "inserting" /\ x.debt = d /\ x.mark = "none"
    BY DEF Calling
  <2> QED BY <2>1, <2>2, <2>3, <2>4, Answer
<1>8. CASE Bind(r)
  <2> DEFINE a == request[r].id
             end == IF request[r].debt[1] = "loan" THEN payment[a].attempt ELSE "none"
             mark == Written(payment[a].mark, request[r].mark, "none")
  <2>1. /\ payment' = [payment EXCEPT ![a] =
               Columns(payment[a], end, "pending", mark, TRUE)]
        /\ request' = [request EXCEPT ![r] = Idle]
        /\ request[r].pc = "created" /\ ~Blocked(r)
        /\ UNCHANGED <<settlement, order, event, hook>>
    BY <1>8 DEF Bind, End, books, provider
  <2>2. HasRow(r) /\ KeepsMark(r) /\ a \in Ids /\ payment[a].debt = request[r].debt
    BY <2>1 DEF IInv, HasRow
  <2>3. payment[a].debt[1] = "agreement" => end \in {"none", "PENDING"}
    BY <2>2
  <2>4. payment[a].attempt \in {"APPROVED", "EXPIRED", "SUPERSEDED"}
            => end = payment[a].attempt
    BY <2>1, <2>2 DEF IInv, HasRow, PartsNeverEnd, Owners
  <2>5. payment[a].bound /\ payment[a].mark # "none" => mark # "none"
    BY <2>2 DEF KeepsMark, Written
  <2>6. \A q \in Requests \ {r} : ~HoldsRow(q, a)
    BY <2>1 DEF Blocked
  <2>7. Idle.pc = "idle" /\ Idle.mark = "none"
    BY Calls
  <2> HIDE DEF end, mark
  <2> QED BY <2>1, <2>2, <2>3, <2>4, <2>5, <2>6, <2>7, Answer
<1>9. CASE Preserve(r)
  <2> DEFINE a == request[r].id
             attempt == payment[a].attempt
             status == payment[a].status
  <2>1. /\ payment' = [payment EXCEPT ![a] =
               Columns(payment[a], attempt, status, "REQUIRED", TRUE)]
        /\ request' = [request EXCEPT ![r] = Idle]
        /\ request[r].pc = "created" /\ request[r].debt[1] = "agreement"
        /\ UNCHANGED <<settlement, order, event, hook>>
    BY <1>9 DEF Preserve, End, books, provider
  <2>2. a \in Ids /\ payment[a].debt[1] = "agreement"
    BY <2>1 DEF IInv, HasRow
  <2>3. ASSUME NEW q \in Requests, HoldsRow(q, a) PROVE request[q].mark = "none"
    <3>1. HasRow(q) /\ KeepsMark(q) /\ request[q].id = a
      BY <2>3 DEF IInv, HoldsRow
    <3> QED BY <2>2, <3>1 DEF HasRow, KeepsMark
  <2>4. attempt \in {"none", "PENDING"}
    BY <2>2 DEF IInv, PartsNeverEnd
  <2>5. Idle.pc = "idle" /\ Idle.mark = "none"
    BY Calls
  <2>6. attempt = payment[a].attempt
    OBVIOUS
  <2> HIDE DEF a, attempt, status
  <2> QED BY <2>1, <2>2, <2>3, <2>4, <2>5, <2>6, Answer
<1>10. CASE CallFails(r)
  <2> DEFINE a == request[r].id
  <2>1. PICK mark :
            /\ payment' = [payment EXCEPT ![a] =
                   Columns(payment[a], payment[a].attempt, payment[a].status, mark,
                           payment[a].bound)]
            /\ payment[a].mark # "none" => mark # "none"
    BY <1>10 DEF CallFails, Written
  <2>2. /\ request' = [request EXCEPT ![r] = Idle]
        /\ request[r].pc \in {"calling", "created"}
        /\ UNCHANGED <<settlement, order, event, hook>>
    BY <1>10 DEF CallFails, End, books, provider
  <2>3. a \in Ids
    BY <2>2 DEF IInv, HasRow
  <2>4. payment[a].debt[1] = "agreement" => payment[a].attempt \in {"none", "PENDING"}
    BY <2>3 DEF IInv, PartsNeverEnd
  <2>5. Idle.pc = "idle" /\ Idle.mark = "none"
    BY Calls
  <2> HIDE DEF a
  <2> QED BY <2>1, <2>2, <2>3, <2>4, <2>5, Answer
<1> QED BY <1>1, <1>2, <1>3, <1>4, <1>5, <1>6, <1>7, <1>8, <1>9, <1>10 DEF Charging

(* The webhook writes a row; it closes a notification only of money that   *)
(* is applied or marked.                                                   *)
LEMMA Decide ==
    ASSUME IInv, NEW a \in Ids, NEW attempt, NEW status, NEW mark,
           payment' = [payment EXCEPT ![a] =
                           Columns(payment[a], attempt, status, mark, payment[a].bound)],
           UNCHANGED <<order, request>>, HookHasRow',
           settlement' = [b \in Ids |-> settlement'[b]],
           event' = [b \in Ids |-> event'[b]],
           \A b \in Ids : b # a =>
               settlement'[b] = settlement[b] /\ event'[b] = event[b],
           \/ settlement'[a].applied > 0
           \/ mark # "none"
           \/ mark = payment[a].mark /\ settlement'[a] = settlement[a] /\ event'[a] = event[a],
           payment[a].debt[1] = "agreement" => attempt \in {"none", "PENDING"},
           payment[a].attempt \in {"APPROVED", "EXPIRED", "SUPERSEDED"}
               => attempt = payment[a].attempt
    PROVE  IInv' /\ EndsOnce
<1>1. /\ payment' = [b \in Ids |-> payment'[b]]
      /\ \A b \in Ids : payment'[b].debt = payment[b].debt
      /\ \A b \in Ids : b # a => payment'[b] = payment[b]
      /\ payment'[a].mark = mark
      /\ payment'[a].bound = payment[a].bound
      /\ PartsNeverEnd' /\ PaidIsBound' /\ EndsOnce
  BY Write
<1>2. Tables'
  BY <1>1 DEF IInv, Tables
<1>3. \A q \in Requests : HasRow(q)' /\ KeepsMark(q)'
  BY <1>1, Bystander
<1>4. ClosedMoneyIsKnown'
  BY <1>1 DEF IInv, ClosedMoneyIsKnown, Settled
<1> QED BY <1>1, <1>2, <1>3, <1>4 DEF IInv

(* What a settlement leaves in the tables.                                 *)
LEMMA Applies ==
    ASSUME IInv, NEW a \in Ids, NEW attempt, NEW mark, Apply(a, attempt, mark)
    PROVE  /\ \E status : payment' = [payment EXCEPT ![a] =
                  Columns(payment[a], attempt, status, mark, payment[a].bound)]
           /\ settlement' = [b \in Ids |-> settlement'[b]]
           /\ settlement'[a].applied > 0
           /\ \A b \in Ids : b # a => settlement'[b] = settlement[b]
<1> DEFINE d    == payment[a].debt
           take == Least(order[a].amount, Owed(d) - paid[d])
           now  == IF paid[d] + take = Owed(d) THEN "PAID" ELSE "PARTIAL"
           row  == [applied |-> take, before |-> state[d], after |-> now,
                    ownerBefore |-> owner[d[1]].status, ownerAfter |-> Closed(d[1], state'),
                    revision |-> owner[d[1]].revision + 1]
<1>1. take > 0 /\ settlement' = [settlement EXCEPT ![a] = row]
  BY DEF Apply
<1>2. /\ settlement' = [b \in Ids |-> settlement'[b]]
      /\ settlement'[a] = row
      /\ \A b \in Ids : b # a => settlement'[b] = settlement[b]
  BY <1>1, Update DEF IInv, Tables
<1>3. \E status : payment' = [payment EXCEPT ![a] =
          Columns(payment[a], attempt, status, mark, payment[a].bound)]
  BY DEF Apply
<1> QED BY <1>1, <1>2, <1>3

(* Closing a notification.                                                 *)
LEMMA Closes ==
    ASSUME IInv, hook.id \in Ids, Processed
    PROVE  /\ event' = [b \in Ids |-> event'[b]]
           /\ \A b \in Ids : b # hook.id => event'[b] = event[b]
BY DEF Processed, IInv, Tables

(* Every step of the webhook keeps the invariant.                          *)
LEMMA WebhookStep == ASSUME IInv, Webhook PROVE IInv' /\ EndsOnce
<1> DEFINE a == hook.id
<1>0. NoHook.pc = "idle"
  BY DEF NoHook
<1>1. ASSUME NEW b \in Ids, Receive(b) PROVE IInv' /\ EndsOnce
  <2>1. HookHasRow'
    BY <1>1 DEF Receive, HookHasRow
  <2> QED BY <1>1, <2>1, Quiet DEF Receive, books
<1>2. CASE GiveUp
  <2>1. HookHasRow'
    BY <1>0, <1>2 DEF GiveUp, HookHasRow
  <2> QED BY <1>2, <2>1, Quiet DEF GiveUp, books
<1>3. CASE Confirm
  <2>1. a \in Ids /\ hook' = [hook EXCEPT !.pc = "deciding"] /\ hook.pc = "asking"
    BY <1>3 DEF Confirm, IInv, HookHasRow
  <2>2. hook'.id = a /\ UNCHANGED <<settlement, order, event, request>>
    BY <1>3, <2>1 DEF Confirm, books, provider
  <2>3. HookHasRow'
    BY <2>1, <2>2 DEF HookHasRow
  <2>4. CASE DebtOf[1] = "loan"
    <3> DEFINE status == Written(payment[a].status, hook.seen, "approved")
    <3>1. /\ payment' = [payment EXCEPT ![a] =
                 Columns(payment[a], payment[a].attempt, status, payment[a].mark,
                         payment[a].bound)]
          /\ payment[a].debt[1] = "loan"
      BY <1>3, <2>4 DEF Confirm, Confirmed, DebtOf
    <3>2. settlement' = [b \in Ids |-> settlement'[b]] /\ event' = [b \in Ids |-> event'[b]]
      BY <2>2 DEF IInv, Tables
    <3> HIDE DEF status, a
    <3> QED BY <2>1, <2>2, <2>3, <3>1, <3>2, Decide
  <2>5. CASE DebtOf[1] # "loan"
    BY <1>3, <2>2, <2>3, <2>5, Quiet DEF Confirm, provider
  <2> QED BY <2>4, <2>5
<1>4. ASSUME hook.pc = "deciding", hook' = NoHook PROVE HookHasRow' /\ a \in Ids
  BY <1>0, <1>4 DEF IInv, HookHasRow
<1>5. CASE Refuse
  <2> DEFINE attempt == IF payment[a].attempt = "PENDING" /\ order[a].on > payment[a].on
                        THEN "EXPIRED" ELSE payment[a].attempt
  <2>1. /\ payment' = [payment EXCEPT ![a] =
               Columns(payment[a], attempt, payment[a].status, Refusal(a), payment[a].bound)]
        /\ Refusal(a) # "none" /\ payment[a].debt[1] = "loan"
        /\ Processed /\ UNCHANGED <<settlement, order, request>>
    BY <1>5 DEF Refuse, DebtOf, books
  <2>2. HookHasRow' /\ a \in Ids
    BY <1>4, <1>5 DEF Refuse
  <2>3. settlement' = [b \in Ids |-> settlement'[b]]
    BY <2>1 DEF IInv, Tables
  <2>4. /\ event' = [b \in Ids |-> event'[b]]
        /\ \A b \in Ids : b # a => event'[b] = event[b]
    BY <2>1, <2>2, Closes
  <2>5. payment[a].attempt \in {"APPROVED", "EXPIRED", "SUPERSEDED"}
            => attempt = payment[a].attempt
    OBVIOUS
  <2> HIDE DEF attempt, a
  <2> QED BY <2>1, <2>2, <2>3, <2>4, <2>5, Decide
<1>6. CASE SettleLoan
  <2>1. /\ Apply(a, "APPROVED", payment[a].mark)
        /\ Refusal(a) = "none" /\ payment[a].debt[1] = "loan"
        /\ Processed /\ UNCHANGED <<order, request>>
    BY <1>6 DEF SettleLoan, DebtOf
  <2>2. HookHasRow' /\ a \in Ids
    BY <1>4, <1>6 DEF SettleLoan
  <2>3. payment[a].attempt = "PENDING"
    BY <2>1 DEF Refusal
  <2>4. /\ event' = [b \in Ids |-> event'[b]]
        /\ \A b \in Ids : b # a => event'[b] = event[b]
    BY <2>1, <2>2, Closes
  <2>5. PICK status : payment' = [payment EXCEPT ![a] =
            Columns(payment[a], "APPROVED", status, payment[a].mark, payment[a].bound)]
    BY <2>1, <2>2, Applies
  <2>6. /\ settlement' = [b \in Ids |-> settlement'[b]]
        /\ settlement'[a].applied > 0
        /\ \A b \in Ids : b # a => settlement'[b] = settlement[b]
    BY <2>1, <2>2, Applies
  <2> HIDE DEF a
  <2> QED BY <2>1, <2>2, <2>3, <2>4, <2>5, <2>6, Decide
<1>7. CASE SettlePart
  <2> DEFINE mark == IF payment[a].attempt = "PENDING" THEN "none" ELSE payment[a].mark
  <2>1. /\ Apply(a, "none", mark)
        /\ payment[a].debt[1] = "agreement"
        /\ Processed /\ UNCHANGED <<order, request>>
    BY <1>7 DEF SettlePart, DebtOf
  <2>2. HookHasRow' /\ a \in Ids
    BY <1>4, <1>7 DEF SettlePart
  <2>3. payment[a].attempt \in {"none", "PENDING"}
    BY <2>1, <2>2 DEF IInv, PartsNeverEnd
  <2>4. /\ event' = [b \in Ids |-> event'[b]]
        /\ \A b \in Ids : b # a => event'[b] = event[b]
    BY <2>1, <2>2, Closes
  <2> HIDE DEF a, mark
  <2>5. PICK status : payment' = [payment EXCEPT ![a] =
            Columns(payment[a], "none", status, mark, payment[a].bound)]
    BY <2>1, <2>2, Applies
  <2>6. /\ settlement' = [b \in Ids |-> settlement'[b]]
        /\ settlement'[a].applied > 0
        /\ \A b \in Ids : b # a => settlement'[b] = settlement[b]
    BY <2>1, <2>2, Applies
  <2> QED BY <2>1, <2>2, <2>3, <2>4, <2>5, <2>6, Decide
<1>8. CASE KnownPart
  <2> DEFINE status == Written(payment[a].status, hook.seen, "approved")
  <2>1. /\ payment' = [payment EXCEPT ![a] =
               Columns(payment[a], payment[a].attempt, status, payment[a].mark,
                       payment[a].bound)]
        /\ payment[a].debt[1] = "agreement" /\ settlement[a].applied > 0
        /\ Processed /\ UNCHANGED <<settlement, order, request>>
    BY <1>8 DEF KnownPart, Confirmed, DebtOf, books, Settled
  <2>2. HookHasRow' /\ a \in Ids
    BY <1>4, <1>8 DEF KnownPart
  <2>3. payment[a].attempt \in {"none", "PENDING"}
    BY <2>1, <2>2 DEF IInv, PartsNeverEnd
  <2>4. settlement' = [b \in Ids |-> settlement'[b]] /\ settlement'[a].applied > 0
    BY <2>1 DEF IInv, Tables
  <2>5. /\ event' = [b \in Ids |-> event'[b]]
        /\ \A b \in Ids : b # a => event'[b] = event[b]
    BY <2>1, <2>2, Closes
  <2> HIDE DEF status, a
  <2> QED BY <2>1, <2>2, <2>3, <2>4, <2>5, Decide
<1> QED BY <1>1, <1>2, <1>3, <1>5, <1>6, <1>7, <1>8 DEF Webhook

(* The member's payment is announced before anything is closed.            *)
LEMMA PayStep == ASSUME IInv, NEW a \in Ids, Pay(a) PROVE IInv' /\ EndsOnce
<1>1. PICK x : order' = [order EXCEPT ![a] = x]
  BY DEF Pay
<1>2. /\ order' = [b \in Ids |-> order'[b]]
      /\ \A b \in Ids : b # a => order'[b] = order[b]
  BY <1>1 DEF IInv, Tables
<1>3. /\ event' = [b \in Ids |-> event'[b]]
      /\ event'[a] = Notices
      /\ \A b \in Ids : b # a => event'[b] = event[b]
  BY DEF Pay, IInv, Tables
<1>4. payment[a].bound /\ UNCHANGED <<payment, settlement, request, hook>>
  BY DEF Pay, books
<1>5. Tables' /\ PartsNeverEnd' /\ HookHasRow' /\ PaidIsBound'
  BY <1>2, <1>3, <1>4 DEF IInv, Tables, PartsNeverEnd, HookHasRow, PaidIsBound
<1>6. \A q \in Requests : HasRow(q)' /\ KeepsMark(q)'
  BY <1>4, Bystander
<1>7. ~(Notices < Notices)
  BY NoticesAssumption
<1>8. ClosedMoneyIsKnown'
  BY <1>2, <1>3, <1>4, <1>7 DEF IInv, ClosedMoneyIsKnown, Settled
<1>9. EndsOnce
  BY <1>4 DEF EndsOnce
<1> QED BY <1>5, <1>6, <1>8, <1>9 DEF IInv

(* Every step keeps the invariant and ends an attempt once.                *)
LEMMA Step == ASSUME IInv, [Next]_vars PROVE IInv' /\ EndsOnce
<1>1. CASE \E r \in Requests : Charging(r)
  BY <1>1, ChargingStep
<1>2. CASE \E a \in Ids : Pay(a)
  BY <1>2, PayStep
<1>3. CASE Webhook
  BY <1>3, WebhookStep
<1>4. CASE Office \/ Tick \/ UNCHANGED vars
  <2>1. UNCHANGED <<payment, settlement, provider, request, hook>>
    BY <1>4 DEF Office, ReversePayment, RequestAgreement, Reject, Approve, Tick, vars,
                books, provider
  <2>2. HookHasRow'
    BY <2>1 DEF IInv, HookHasRow
  <2> QED BY <2>1, <2>2, Quiet
<1>5. CASE Restart
  <2>1. /\ request' = [r \in Requests |-> Idle]
        /\ hook' = NoHook
        /\ UNCHANGED <<payment, settlement, order, event>>
    BY <1>5 DEF Restart, books, provider
  <2>2. Tables' /\ PartsNeverEnd' /\ PaidIsBound'
    BY <2>1 DEF IInv, Tables, PartsNeverEnd, PaidIsBound
  <2>3. \A r \in Requests : HasRow(r)' /\ KeepsMark(r)'
    BY <2>1 DEF HasRow, KeepsMark, Idle
  <2>4. HookHasRow' /\ ClosedMoneyIsKnown'
    BY <2>1 DEF IInv, HookHasRow, NoHook, ClosedMoneyIsKnown, Settled
  <2>5. EndsOnce
    BY <2>1 DEF EndsOnce
  <2> QED BY <2>2, <2>3, <2>4, <2>5 DEF IInv
<1> QED BY <1>1, <1>2, <1>3, <1>4, <1>5 DEF Next

-----------------------------------------------------------------------------
(* The invariant holds in every behaviour: a request that talks to the     *)
(* provider has its row, and only one that reused an attempt under its     *)
(* locks has loaded a mark it may erase.                                   *)
THEOREM Invariance == Spec => []IInv
<1>1. IInv /\ [Next]_vars => IInv'
  BY Step
<1> QED BY <1>1, Initially, PTL DEF Spec

(* A notification is closed only when its money was applied or is marked   *)
(* for reconciliation, whatever requests, restarts and reversals do.       *)
THEOREM MoneyIsKnown == Spec => []ClosedMoneyIsKnown
<1>1. IInv => ClosedMoneyIsKnown
  BY DEF IInv
<1> QED BY <1>1, Invariance, PTL

(* An attempt that expired, was superseded or approved stays so, although  *)
(* bind_provider writes a row it read before its await.                    *)
THEOREM EndsOnceHolds == Spec => AttemptsEndOnce
<1>1. IInv /\ [Next]_vars =>
          [\A a \in Ids :
              payment[a].attempt \in {"APPROVED", "EXPIRED", "SUPERSEDED"}
                  => payment'[a].attempt = payment[a].attempt]_vars
  BY Step DEF EndsOnce
<1> QED BY <1>1, Invariance, PTL DEF Spec, AttemptsEndOnce

-----------------------------------------------------------------------------
(* What is owed, and to whom it counts.                                    *)

(* The whole invariant has the types of the tables in it: of the books,    *)
(* and of the calls and orders they are written from.                      *)
BooksTyped ==
    /\ day \in 1..LastDay
    /\ paid \in [Debts -> Nat]
    /\ state \in [Debts -> Statuses]
    /\ owner \in [Owners -> [status : Stages.loan \union Stages.agreement, revision : Nat]]
    /\ \A o \in Owners : owner[o].status \in Stages[o]
    /\ terms \in [asked : Nat, found : Nat, parts : Plans \union {0}]
    /\ rejected \in BOOLEAN
    /\ settlement \in [Ids -> [applied : Nat, before : Statuses \union {"none"},
                               after : Statuses \union {"none"},
                               ownerBefore : Stages.loan \union Stages.agreement,
                               ownerAfter : Stages.loan \union Stages.agreement,
                               revision : Nat]]
    /\ undone \in [Ids -> 0..LastDay]

CallsTyped ==
    /\ payment \in [Ids -> [debt : Debts \union {NoDebt}, on : 0..LastDay, amount : Nat,
                            attempt : Attempts, status : {"pending", "approved"},
                            mark : Marks, bound : BOOLEAN]]
    /\ order \in [Ids -> [status : {"none", "open", "paid"}, amount : Receivable \union {0},
                          on : 0..LastDay]]
    /\ event \in [Ids -> 0..Notices]
    /\ request \in [Requests -> [pc : {"idle", "inserting", "calling", "created", "stalled"},
                                 debt : Debts \union {NoDebt}, amount : Nat,
                                 id : Ids \union {0}, holds : BOOLEAN, mark : Marks]]
    /\ hook \in [pc : {"idle", "asking", "deciding"},
                 id : Ids \union {0},
                 seen : {"none", "pending", "approved"}]

(* Types are both. *)
LEMMA Typed == TypeOK <=> BooksTyped /\ CallsTyped
BY DEF TypeOK, BooksTyped, CallsTyped

Approved == owner["agreement"].status \in {"APPROVED", "SETTLED"}

(* A settlement is of a debt, whose owner it found open, and its revision  *)
(* was one of that owner.                                                  *)
IsKnown(a) ==
    LET o == payment[a].debt[1]
    IN  /\ Settled(a) =>
               /\ o \in Owners /\ payment[a].debt \in DebtsOf(o)
               /\ settlement[a].before \in {"OPEN", "PARTIAL", "AGREED"}
               /\ settlement[a].ownerBefore \in Stages[o] \ {"PAID", "SETTLED"}
               /\ o = "agreement" => settlement[a].ownerBefore = "APPROVED"
               /\ settlement[a].revision <= owner[o].revision
               /\ settlement[a].before = "AGREED" => Approved
        /\ undone[a] # 0 => Settled(a)

ReceiptsAreKnown == \A a \in Ids : IsKnown(a)

(* Payments of an agreement are of its parts, once it is approved.         *)
PartsAreOfAgreement ==
    \A a \in Ids : payment[a].debt[1] = "agreement" =>
        Approved /\ payment[a].debt \in DebtsOf("agreement")

(* Before the approval nothing is restructured, nor paid of an agreement.  *)
BeforeApproval ==
    ~Approved =>
        /\ owner["loan"].status # "RESTRUCTURED"
        /\ \A d \in Debts : d[1] = "agreement" => paid[d] = 0 /\ state[d] = "OPEN"
        /\ \A a \in Ids : Settled(a) => settlement[a].ownerBefore = "ACTIVE"

(* What was asked for is to be paid in a number of parts.                  *)
PlanStands == owner["agreement"].status # "none" => terms.parts \in Plans

(* A debt of which this much is paid may have this status.                 *)
Fits(d, amount, status) ==
    /\ status = "PAID" => amount = Owed(d)
    /\ status = "OPEN" => amount = 0
    /\ status = "PARTIAL" => amount \in 1..(Owed(d) - 1)
    /\ status = "AGREED" => amount < Owed(d)

(* While nothing has changed its owner since, a settlement may be taken    *)
(* back: its debt returns to what it was.  None from before the approval   *)
(* is such a one any more.                                                 *)
LatestMayGo ==
    \A a \in Ids :
        LET d == payment[a].debt
        IN  InForce(a) /\ settlement[a].revision = owner[d[1]].revision =>
                /\ Fits(d, paid[d] - settlement[a].applied, settlement[a].before)
                /\ Approved => settlement[a].ownerBefore # "ACTIVE"

ReceiptsOf(d) == {a \in Ids : payment[a].debt = d /\ InForce(a)}
LoanReceipts  == {a \in Ids : InForce(a) /\ payment[a].debt[1] = "loan"}
EarlyReceipts == {a \in Ids : InForce(a) /\ settlement[a].ownerBefore = "ACTIVE"}

(* What the installments of the loan count as paid, together.              *)
LoanIsPaid == SumFunctionOnSet(paid, DebtsOf("loan")) = Received(LoanReceipts)

(* What the approval found open and what was received before is the loan.  *)
FoundCovers == Approved => terms.found + Received(EarlyReceipts) = Total("loan")

LedgerInv == /\ DebtsAgree
             /\ ReceiptsAreKnown /\ PartsAreOfAgreement /\ BeforeApproval /\ PlanStands
             /\ LatestMayGo
             /\ LoanIsPaid /\ FoundCovers

-----------------------------------------------------------------------------
(* Debts.                                                                  *)

(* There are finitely many payments. *)
LEMMA IdsFinite == IsFiniteSet(Ids)
BY BoundsAssumption, FS_Interval DEF Ids

(* Numbers of parts.                                                       *)
LEMMA PartsNat == \A n \in Plans \union {0} : n \in Nat /\ n \in Int
BY PlansAssumption

(* Amounts the provider reports.                                            *)
LEMMA AmountsNat == \A x \in Receivable \union {0} : x \in Nat
BY ReceivableAssumption

(* A debt is an installment of the loan or a part of the agreement.        *)
LEMMA DebtShape ==
    /\ \A d \in Debts : /\ d[1] \in Owners
                        /\ d[1] = "loan" => d \in {"loan"} \X Insts
                        /\ d[1] = "agreement" => d[2] \in Nat \ {0}
    /\ NoDebt[1] \notin Owners /\ NoDebt \notin Debts
<1>1. ASSUME NEW d \in Debts
      PROVE  /\ d[1] \in Owners
             /\ d[1] = "loan" => d \in {"loan"} \X Insts
             /\ d[1] = "agreement" => d[2] \in Nat \ {0}
  <2>1. CASE d \in {"loan"} \X Insts
    BY <2>1 DEF Owners
  <2>2. CASE d \in {"agreement"} \X UNION {1..n : n \in Plans}
    <3>1. d[1] = "agreement" /\ d[2] \in UNION {1..n : n \in Plans}
      BY <2>2
    <3>2. PICK n \in Plans : d[2] \in 1..n
      BY <3>1
    <3> QED BY <3>1, <3>2, PlansAssumption DEF Owners
  <2> QED BY <2>1, <2>2 DEF Debts
<1>2. NoDebt[1] \notin Owners
  BY DEF NoDebt, Owners
<1> QED BY <1>1, <1>2

(* The debts of an owner are among them, and finitely many.                *)
LEMMA DebtsOfOwner ==
    ASSUME terms.parts \in Plans \union {0}
    PROVE  /\ \A o \in Owners : /\ DebtsOf(o) \subseteq Debts /\ IsFiniteSet(DebtsOf(o))
                                /\ \A d \in DebtsOf(o) : d[1] = o
           /\ \A d \in Debts : d[1] = "loan" => d \in DebtsOf("loan")
           /\ \A d \in DebtsOf("agreement") : d[2] \in 1..terms.parts
           /\ DebtsOf("loan") = {"loan"} \X Insts
           /\ DebtsOf("agreement") = {"agreement"} \X (1..terms.parts)
<1>1. DebtsOf("loan") = {"loan"} \X Insts /\ DebtsOf("agreement") = {"agreement"} \X (1..terms.parts)
  BY DEF DebtsOf
<1>2. DebtsOf("loan") \subseteq Debts /\ DebtsOf("agreement") \subseteq Debts
  <2>1. 1..terms.parts \subseteq UNION {1..n : n \in Plans}
    BY PlansAssumption
  <2>2. ({"agreement"} \X (1..terms.parts)) \subseteq ({"agreement"} \X UNION {1..n : n \in Plans})
    BY <2>1
  <2> QED BY <1>1, <2>2 DEF Debts
<1>3. IsFiniteSet(DebtsOf("loan")) /\ IsFiniteSet(DebtsOf("agreement"))
  <2>1. IsFiniteSet({"loan"}) /\ IsFiniteSet({"agreement"})
    BY FS_EmptySet, FS_AddElement, FS_Singleton
  <2>2. IsFiniteSet(Insts) /\ IsFiniteSet(1..terms.parts)
    <3>1. terms.parts \in Int /\ 1 \in Int
      BY PartsNat
    <3>2. IsFiniteSet(1..terms.parts)
      BY <3>1, FS_Interval
    <3> QED BY <3>2, InstsAssumption
  <2>3. IsFiniteSet({"loan"} \X Insts)
    BY <2>1, <2>2, FS_Product
  <2>4. IsFiniteSet({"agreement"} \X (1..terms.parts))
    BY <2>1, <2>2, FS_Product
  <2> QED BY <1>1, <2>3, <2>4
<1>4. /\ \A d \in DebtsOf("loan") : d[1] = "loan"
      /\ \A d \in DebtsOf("agreement") : d[1] = "agreement" /\ d[2] \in 1..terms.parts
  BY <1>1
<1> QED BY <1>1, <1>2, <1>3, <1>4, DebtShape DEF Owners

(* A part of a number of cents is one.                                     *)
LEMMA PartInt ==
    ASSUME NEW total \in Int, NEW n \in Nat \ {0}, NEW k \in Int
    PROVE  Part(total, n, k) \in Int
<1> DEFINE base == (2 * total + n) \div (2 * n)
<1>1. base \in Int
  <2>1. 2 * total + n \in Int /\ 2 * n \in Nat \ {0}
    OBVIOUS
  <2> QED BY <2>1
<1> HIDE DEF base
<1>2. (n - 1) * base \in Int
  BY <1>1
<1>3. Part(total, n, k) = IF k < n THEN base ELSE total - (n - 1) * base
  BY DEF Part, base
<1> QED BY <1>1, <1>2, <1>3

(* So is what a debt owes.                                                 *)
LEMMA OwedInt ==
    ASSUME BooksTyped, NEW d \in Debts
    PROVE  Owed(d) \in Int /\ (d[1] = "loan" => Owed(d) = Amount)
<1>1. terms.parts \in Nat /\ terms.found \in Int
  <2>1. terms \in [asked : Nat, found : Nat, parts : Plans \union {0}]
    BY DEF BooksTyped
  <2>2. terms.parts \in Plans \union {0} /\ terms.found \in Nat
    BY <2>1
  <2> QED BY <2>2, PartsNat
<1>2. CASE d[1] = "loan"
  BY <1>2, AmountAssumption DEF Owed
<1>3. CASE d[1] # "loan" /\ d[2] <= terms.parts
  <2>1. d[2] \in Nat \ {0} /\ terms.parts \in Nat \ {0}
    BY <1>1, <1>3, DebtShape DEF Owners
  <2>2. d[2] \in Int
    BY <2>1
  <2>3. Part(terms.found, terms.parts, d[2]) \in Int
    BY <1>1, <2>1, <2>2, PartInt
  <2> QED BY <1>3, <2>3 DEF Owed
<1>4. CASE d[1] # "loan" /\ ~(d[2] <= terms.parts)
  BY <1>4 DEF Owed
<1> QED BY <1>2, <1>3, <1>4

-----------------------------------------------------------------------------
(* Sums.                                                                   *)

(* Money of some payments, by the settlements f.                           *)
Money(f, S) == SumFunctionOnSet([a \in S |-> f[a].applied], S)

(* It is what Received says.                                               *)
LEMMA ReceivedIsMoney ==
    /\ \A S : Received(S) = Money(settlement, S)
    /\ \A S : SumFunctionOnSet([a \in S |-> settlement'[a].applied], S) = Money(settlement', S)
BY DEF Received, Money

(* It depends on the amounts only.                                         *)
LEMMA MoneySame ==
    ASSUME NEW f, NEW g, NEW S, \A a \in S : f[a].applied = g[a].applied
    PROVE  Money(f, S) = Money(g, S)
<1>1. [a \in S |-> f[a].applied] = [a \in S |-> g[a].applied]
  OBVIOUS
<1> QED BY <1>1 DEF Money

(* It grows by a settlement that is added.                                 *)
LEMMA MoneyGrows ==
    ASSUME NEW f, NEW S \in SUBSET Ids, NEW a \in Ids, a \notin S,
           \A b \in S \union {a} : f[b].applied \in Int
    PROVE  Money(f, S \union {a}) = f[a].applied + Money(f, S)
<1> DEFINE v == [b \in S \union {a} |-> f[b].applied]
           w == [b \in S |-> f[b].applied]
<1>1. IsFiniteSet(S)
  BY IdsFinite, FS_Subset
<1>2. \A b \in S \union {a} : v[b] \in Int
  OBVIOUS
<1>3. SumFunctionOnSet(v, S \union {a}) = v[a] + SumFunctionOnSet(v, S)
  <2> HIDE DEF v
  <2> QED BY <1>1, <1>2, SumGrows
<1>4. SumFunctionOnSet(v, S) = SumFunctionOnSet(w, S)
  <2>1. \A b \in S : v[b] = w[b]
    OBVIOUS
  <2> HIDE DEF v, w
  <2> QED BY <1>1, <2>1, SumSame
<1>5. v[a] = f[a].applied
  OBVIOUS
<1> HIDE DEF v, w
<1> QED BY <1>3, <1>4, <1>5 DEF Money, v, w

(* Money is not negative.                                                  *)
LEMMA MoneyNat ==
    ASSUME NEW f, NEW S \in SUBSET Ids, \A b \in S : f[b].applied \in Nat
    PROVE  Money(f, S) \in Nat
<1> DEFINE w == [b \in S |-> f[b].applied]
<1>1. IsFiniteSet(S) /\ \A b \in S : w[b] \in Nat
  BY IdsFinite, FS_Subset
<1>2. SumFunctionOnSet(w, S) \in Nat
  <2> HIDE DEF w
  <2> QED BY <1>1, SumNat
<1> QED BY <1>2 DEF Money

(* The columns of a debt agree with its receipts.                          *)
Agrees(d) == paid[d] = Money(settlement, ReceiptsOf(d)) /\ Fits(d, paid[d], state[d])

(* Which is what is said of all debts.                                     *)
LEMMA AgreeAll ==
    /\ DebtMatchesReceipts <=> \A o \in Owners : \A d \in DebtsOf(o) : Agrees(d)
    /\ DebtMatchesReceipts' <=> \A o \in Owners : \A d \in DebtsOf(o)' : Agrees(d)'
<1>1. /\ \A d : ReceiptsOf(d) = {a \in Ids : payment[a].debt = d /\ InForce(a)}
      /\ \A d : ReceiptsOf(d)' = {a \in Ids : payment'[a].debt = d /\ InForce(a)'}
  BY DEF ReceiptsOf
<1>2. DebtMatchesReceipts <=> \A o \in Owners : \A d \in DebtsOf(o) : Agrees(d)
  BY <1>1, ReceivedIsMoney DEF DebtMatchesReceipts, Agrees, Fits
<1>3. DebtMatchesReceipts' <=> \A o \in Owners : \A d \in DebtsOf(o)' : Agrees(d)'
  BY <1>1 DEF DebtMatchesReceipts, Agrees, Fits, Received, Money
<1> QED BY <1>2, <1>3

(* While the terms stay, so do the debts and what they owe.                *)
LEMMA TermsStay ==
    ASSUME UNCHANGED terms
    PROVE  /\ \A o : DebtsOf(o)' = DebtsOf(o) /\ Total(o)' = Total(o)
           /\ \A d : Owed(d)' = Owed(d)
<1>1. \A d : Owed(d)' = Owed(d)
  BY DEF Owed
<1>2. \A o : DebtsOf(o)' = DebtsOf(o)
  BY DEF DebtsOf
<1>3. ASSUME NEW o PROVE Total(o)' = Total(o)
  <2>1. [d \in DebtsOf(o)' |-> Owed(d)'] = [d \in DebtsOf(o) |-> Owed(d)]
    BY <1>1, <1>2
  <2>2. Total(o)' = SumFunctionOnSet([d \in DebtsOf(o)' |-> Owed(d)'], DebtsOf(o)')
    BY DEF Total
  <2> QED BY <1>2, <2>1, <2>2 DEF Total
<1> QED BY <1>1, <1>2, <1>3

(* The sums of the invariant.                                              *)
LEMMA SumsAreMoney ==
    /\ LoanIsPaid <=> SumFunctionOnSet(paid, DebtsOf("loan")) = Money(settlement, LoanReceipts)
    /\ LoanIsPaid' <=> SumFunctionOnSet(paid', DebtsOf("loan")') = Money(settlement', LoanReceipts')
    /\ FoundCovers <=> (Approved => terms.found + Money(settlement, EarlyReceipts) = Total("loan"))
    /\ FoundCovers' <=>
           (Approved' => terms'.found + Money(settlement', EarlyReceipts') = Total("loan")')
BY DEF LoanIsPaid, FoundCovers, Received, Money

(* A step that writes no debt and no settlement, and gives no debt to a    *)
(* payment but to a new one, keeps it all.                                 *)
LEMMA LedgerStays ==
    ASSUME LedgerInv, UNCHANGED <<paid, state, owner, terms, settlement, undone>>,
           \A a \in Ids :
               \/ payment'[a].debt = payment[a].debt
               \/ /\ payment[a].debt[1] \notin Owners
                  /\ payment'[a].debt[1] = "agreement" =>
                         Approved /\ payment'[a].debt \in DebtsOf("agreement")
    PROVE  LedgerInv'
<1>1. /\ \A a \in Ids : Settled(a)' = Settled(a) /\ InForce(a)' = InForce(a)
      /\ Approved' = Approved
  BY DEF Settled, InForce, Approved
<1>2. \A a \in Ids : Settled(a) \/ InForce(a) => payment'[a].debt = payment[a].debt
  BY DEF LedgerInv, ReceiptsAreKnown, IsKnown, InForce
<1>3. /\ \A o : DebtsOf(o)' = DebtsOf(o) /\ Total(o)' = Total(o)
      /\ \A d : Owed(d)' = Owed(d)
  BY TermsStay
<1>4. /\ \A d : ReceiptsOf(d)' = ReceiptsOf(d)
      /\ LoanReceipts' = LoanReceipts /\ EarlyReceipts' = EarlyReceipts
  BY <1>1, <1>2 DEF ReceiptsOf, LoanReceipts, EarlyReceipts
<1>5. DebtMatchesReceipts'
  <2>1. \A d : Agrees(d) => Agrees(d)'
    BY <1>3, <1>4 DEF Agrees, Fits
  <2> QED BY <1>3, <2>1, AgreeAll DEF LedgerInv, DebtsAgree
<1>6. OwnerFollowsDebts'
  BY <1>3 DEF LedgerInv, DebtsAgree, OwnerFollowsDebts
<1>7. ReceiptsAreKnown' /\ PartsAreOfAgreement'
  BY <1>1, <1>2, <1>3 DEF LedgerInv, ReceiptsAreKnown, IsKnown, PartsAreOfAgreement
<1>8. BeforeApproval' /\ PlanStands'
  BY <1>1 DEF LedgerInv, BeforeApproval, PlanStands
<1>9. LatestMayGo'
  BY <1>1, <1>2, <1>3 DEF LedgerInv, LatestMayGo, Fits
<1>10. LoanIsPaid' /\ FoundCovers'
  BY <1>1, <1>3, <1>4, SumsAreMoney DEF LedgerInv
<1> QED BY <1>5, <1>6, <1>7, <1>8, <1>9, <1>10 DEF LedgerInv, DebtsAgree

-----------------------------------------------------------------------------
(* A settlement.                                                           *)

(* What it writes.                                                         *)
LEMMA AppliedRow ==
    ASSUME BooksTyped, CallsTyped, NEW a \in Ids, NEW attempt, NEW mark,
           Apply(a, attempt, mark), payment[a].debt \in Debts
    PROVE  LET d    == payment[a].debt
               o    == d[1]
               take == settlement'[a].applied
           IN  /\ take \in Nat /\ take > 0 /\ take <= Owed(d) - paid[d]
               /\ o \in Owners /\ Owed(d) \in Int /\ paid[d] \in Nat
               /\ paid' = [paid EXCEPT ![d] = @ + take]
               /\ state' = [state EXCEPT ![d] = IF paid[d] + take = Owed(d) THEN "PAID"
                                                                             ELSE "PARTIAL"]
               /\ owner' = [owner EXCEPT ![o] = [status |-> Closed(o, state'),
                                                 revision |-> @.revision + 1]]
               /\ owner'[o] = [status |-> Closed(o, state'), revision |-> owner[o].revision + 1]
               /\ settlement'[a] =
                     [applied |-> take, before |-> state[d],
                      after |-> IF paid[d] + take = Owed(d) THEN "PAID" ELSE "PARTIAL",
                      ownerBefore |-> owner[o].status, ownerAfter |-> Closed(o, state'),
                      revision |-> owner[o].revision + 1]
               /\ settlement' = [settlement EXCEPT ![a] = settlement'[a]]
<1> DEFINE d    == payment[a].debt
           o    == d[1]
           take == Least(order[a].amount, Owed(d) - paid[d])
           now  == IF paid[d] + take = Owed(d) THEN "PAID" ELSE "PARTIAL"
           row  == [applied |-> take, before |-> state[d], after |-> now,
                    ownerBefore |-> owner[o].status, ownerAfter |-> Closed(o, state'),
                    revision |-> owner[o].revision + 1]
<1>1. /\ take > 0
      /\ paid' = [paid EXCEPT ![d] = @ + take]
      /\ state' = [state EXCEPT ![d] = now]
      /\ owner' = [owner EXCEPT ![o] = [status |-> Closed(o, state'), revision |-> @.revision + 1]]
      /\ settlement' = [settlement EXCEPT ![a] = row]
  BY DEF Apply
<1>2. o \in Owners /\ Owed(d) \in Int /\ paid[d] \in Nat
  BY DebtShape, OwedInt DEF BooksTyped
<1>3. order[a].amount \in Nat
  <2>1. order \in [Ids -> [status : {"none", "open", "paid"}, amount : Receivable \union {0},
                          on : 0..LastDay]]
    BY DEF CallsTyped
  <2>2. order[a].amount \in Receivable \union {0}
    BY <2>1
  <2> QED BY <2>2, AmountsNat
<1>4. take \in Nat /\ take <= Owed(d) - paid[d]
  BY <1>1, <1>2, <1>3 DEF Least
<1>5. settlement'[a] = row
  BY <1>1 DEF BooksTyped
<1>6. settlement'[a].applied = take
  BY <1>5
<1>7. owner'[o] = [status |-> Closed(o, state'), revision |-> owner[o].revision + 1]
  <2> HIDE DEF take, now, row
  <2> QED BY <1>1, <1>2 DEF BooksTyped
<1> HIDE DEF take
<1> QED BY <1>1, <1>2, <1>4, <1>5, <1>6, <1>7

(* A settlement is of a debt that is not paid, under an owner that is open. *)
LEMMA AppliesToOpen ==
    ASSUME LedgerInv, BooksTyped, CallsTyped, NEW a \in Ids, NEW attempt, NEW mark,
           Apply(a, attempt, mark), payment[a].debt[1] \in Owners,
           payment[a].debt[1] = "loan" => owner["loan"].status # "PAID"
    PROVE  LET d == payment[a].debt
               o == d[1]
           IN  /\ d \in Debts /\ d \in DebtsOf(o) /\ Agrees(d)
               /\ state[d] \in {"OPEN", "PARTIAL", "AGREED"}
               /\ owner[o].status \in Stages[o] \ {"PAID", "SETTLED"}
               /\ o = "agreement" => Approved
<1> DEFINE d == payment[a].debt
           o == d[1]
<1>1. terms.parts \in Plans \union {0}
  BY DEF BooksTyped
<1>2. d \in Debts /\ d \in DebtsOf(o) /\ (o = "agreement" => Approved)
  <2>1. payment \in [Ids -> [debt : Debts \union {NoDebt}, on : 0..LastDay, amount : Nat,
                            attempt : Attempts, status : {"pending", "approved"},
                            mark : Marks, bound : BOOLEAN]]
    BY DEF CallsTyped
  <2>2. d \in Debts
    BY <2>1, DebtShape
  <2> QED BY <1>1, <2>2, DebtsOfOwner DEF LedgerInv, PartsAreOfAgreement, Owners
<1>3. Agrees(d)
  BY <1>2, AgreeAll DEF LedgerInv, DebtsAgree
<1>4. state[d] # "PAID"
  <2> DEFINE take == settlement'[a].applied
  <2>1. /\ take \in Nat /\ take > 0 /\ take <= Owed(d) - paid[d]
        /\ paid[d] \in Nat /\ Owed(d) \in Int
    BY <1>2, AppliedRow
  <2> HIDE DEF take
  <2>2. paid[d] # Owed(d)
    BY <2>1
  <2> QED BY <1>3, <2>2 DEF Agrees, Fits
<1>5. state[d] \in Statuses /\ owner[o].status \in Stages[o]
  BY <1>2 DEF BooksTyped
<1>6. owner[o].status # "SETTLED"
  <2>1. CASE o = "loan"
    BY <1>5, <2>1 DEF Stages
  <2>2. CASE o = "agreement"
    BY <1>2, <1>4, <2>2 DEF LedgerInv, DebtsAgree, OwnerFollowsDebts, Approved
  <2> QED BY <2>1, <2>2 DEF Owners
<1>7. owner[o].status # "PAID"
  <2>1. CASE o = "agreement"
    BY <1>5, <2>1 DEF Stages
  <2> QED BY <2>1 DEF Owners
<1> QED BY <1>2, <1>3, <1>4, <1>5, <1>6, <1>7 DEF Statuses

(* Who is in force after a settlement: those that were, and the new one.   *)
LEMMA AppliedSets ==
    ASSUME LedgerInv, BooksTyped, NEW a \in Ids, ~Settled(a), UNCHANGED undone,
           settlement' = [settlement EXCEPT ![a] = settlement'[a]],
           settlement'[a].applied \in Nat, settlement'[a].applied > 0,
           \A b \in Ids : payment'[b].debt = payment[b].debt
    PROVE  LET d == payment[a].debt
           IN  /\ \A b \in Ids : b # a =>
                     /\ settlement'[b] = settlement[b]
                     /\ Settled(b)' = Settled(b) /\ InForce(b)' = InForce(b)
               /\ Settled(a)' /\ InForce(a)' /\ ~InForce(a)
               /\ ReceiptsOf(d)' = ReceiptsOf(d) \union {a} /\ a \notin ReceiptsOf(d)
               /\ \A e : e # d => ReceiptsOf(e)' = ReceiptsOf(e)
               /\ d[1] = "loan" => LoanReceipts' = LoanReceipts \union {a} /\ a \notin LoanReceipts
               /\ d[1] # "loan" => LoanReceipts' = LoanReceipts
               /\ settlement'[a].ownerBefore # "ACTIVE" => EarlyReceipts' = EarlyReceipts
<1>1. \A b \in Ids : b # a => settlement'[b] = settlement[b]
  BY DEF BooksTyped
<1>2. undone[a] = 0
  BY DEF LedgerInv, ReceiptsAreKnown, IsKnown
<1>3. \A b \in Ids : b # a => Settled(b)' = Settled(b) /\ InForce(b)' = InForce(b)
  BY <1>1 DEF Settled, InForce
<1>4. Settled(a)' /\ InForce(a)' /\ ~InForce(a)
  BY <1>2 DEF Settled, InForce
<1>5. /\ ReceiptsOf(payment[a].debt)' = ReceiptsOf(payment[a].debt) \union {a}
      /\ a \notin ReceiptsOf(payment[a].debt)
      /\ \A e : e # payment[a].debt => ReceiptsOf(e)' = ReceiptsOf(e)
  <2>1. \A e : ReceiptsOf(e)' = {b \in Ids : payment'[b].debt = e /\ InForce(b)'}
    BY DEF ReceiptsOf
  <2> QED BY <1>3, <1>4, <2>1 DEF ReceiptsOf
<1>6. /\ payment[a].debt[1] = "loan" => LoanReceipts' = LoanReceipts \union {a} /\ a \notin LoanReceipts
      /\ payment[a].debt[1] # "loan" => LoanReceipts' = LoanReceipts
  BY <1>3, <1>4 DEF LoanReceipts
<1>7. settlement'[a].ownerBefore # "ACTIVE" => EarlyReceipts' = EarlyReceipts
  BY <1>1, <1>3, <1>4 DEF EarlyReceipts
<1> QED BY <1>1, <1>3, <1>4, <1>5, <1>6, <1>7

(* Money that is received.                                                 *)
LEMMA AppliedMoney ==
    ASSUME BooksTyped, NEW a \in Ids, settlement' = [settlement EXCEPT ![a] = settlement'[a]],
           settlement'[a].applied \in Nat, NEW S \in SUBSET Ids, a \notin S
    PROVE  /\ Money(settlement', S) = Money(settlement, S)
           /\ Money(settlement', S \union {a}) = Money(settlement, S) + settlement'[a].applied
           /\ Money(settlement, S) \in Nat
<1>1. \A b \in S : settlement'[b] = settlement[b] /\ settlement[b].applied \in Nat
  BY DEF BooksTyped
<1>2. Money(settlement', S) = Money(settlement, S)
  BY <1>1, MoneySame
<1>3. \A b \in S \union {a} : settlement'[b].applied \in Int
  BY <1>1
<1>4. Money(settlement', S \union {a}) = settlement'[a].applied + Money(settlement', S)
  BY <1>3, MoneyGrows
<1>5. Money(settlement, S) \in Nat
  BY <1>1, MoneyNat
<1> QED BY <1>2, <1>4, <1>5

(* The sets of receipts are sets of payments.                              *)
LEMMA ReceiptsArePayments ==
    /\ \A d : ReceiptsOf(d) \in SUBSET Ids /\ ReceiptsOf(d)' \in SUBSET Ids
    /\ LoanReceipts \in SUBSET Ids /\ EarlyReceipts \in SUBSET Ids
BY DEF ReceiptsOf, LoanReceipts, EarlyReceipts

(* The debt that is paid, and the others.                                  *)
LEMMA AppliedDebts ==
    ASSUME LedgerInv, BooksTyped, CallsTyped, NEW a \in Ids, NEW attempt, NEW mark,
           Apply(a, attempt, mark), ~Settled(a), payment[a].debt[1] \in Owners,
           payment[a].debt[1] = "loan" => owner["loan"].status # "PAID",
           UNCHANGED <<day, terms, rejected, undone>>,
           \A b \in Ids : payment'[b].debt = payment[b].debt
    PROVE  LET d    == payment[a].debt
               take == settlement'[a].applied
           IN  /\ paid'[d] = paid[d] + take /\ paid'[d] \in Nat /\ take \in Nat
               /\ state'[d] \in {"PARTIAL", "PAID"}
               /\ \A e \in Debts : e # d => paid'[e] = paid[e] /\ state'[e] = state[e]
               /\ \A o \in Owners : \A e \in DebtsOf(o) : Agrees(e)'
<1> DEFINE d    == payment[a].debt
           take == settlement'[a].applied
<1>1. /\ take \in Nat /\ take > 0 /\ take <= Owed(d) - paid[d]
      /\ Owed(d) \in Int /\ paid[d] \in Nat /\ d \in Debts
      /\ paid' = [paid EXCEPT ![d] = @ + take]
      /\ state' = [state EXCEPT ![d] = IF paid[d] + take = Owed(d) THEN "PAID" ELSE "PARTIAL"]
      /\ settlement' = [settlement EXCEPT ![a] = settlement'[a]]
  BY AppliedRow, AppliesToOpen
<1>2. paid \in [Debts -> Nat] /\ state \in [Debts -> Statuses]
  BY DEF BooksTyped
<1>3. /\ paid'[d] = paid[d] + take
      /\ state'[d] = IF paid[d] + take = Owed(d) THEN "PAID" ELSE "PARTIAL"
      /\ \A e \in Debts : e # d => paid'[e] = paid[e] /\ state'[e] = state[e]
  BY <1>1, <1>2
<1>4. \A e : Owed(e)' = Owed(e)
  BY TermsStay
<1>5. /\ ReceiptsOf(d)' = ReceiptsOf(d) \union {a} /\ a \notin ReceiptsOf(d)
      /\ \A e : e # d => ReceiptsOf(e)' = ReceiptsOf(e) /\ a \notin ReceiptsOf(e)
  <2>1. \A e : e # d => a \notin ReceiptsOf(e)
    BY DEF ReceiptsOf
  <2> HIDE DEF take
  <2> QED BY <1>1, <2>1, AppliedSets DEF take
<1>6. Agrees(d)
  BY AppliesToOpen
<1>7. Agrees(d)'
  <2>1. Money(settlement', ReceiptsOf(d) \union {a}) = Money(settlement, ReceiptsOf(d)) + take
    BY <1>1, <1>5, AppliedMoney, ReceiptsArePayments
  <2>2. paid'[d] = Money(settlement', ReceiptsOf(d)')
    BY <1>3, <1>5, <1>6, <2>1 DEF Agrees
  <2> HIDE DEF take
  <2>3. state'[d] = "PAID" => paid'[d] = Owed(d)
    BY <1>3
  <2>4. state'[d] = "PARTIAL" => paid'[d] \in 1..(Owed(d) - 1)
    BY <1>1, <1>3
  <2>5. state'[d] \in {"PARTIAL", "PAID"}
    BY <1>3
  <2>6. Fits(d, paid[d], state[d])'
    BY <1>4, <2>3, <2>4, <2>5 DEF Fits
  <2> QED BY <2>2, <2>6 DEF Agrees
<1>8. ASSUME NEW e \in Debts, e # d, Agrees(e) PROVE Agrees(e)'
  <2>1. Money(settlement', ReceiptsOf(e)') = Money(settlement, ReceiptsOf(e))
    BY <1>1, <1>5, <1>8, AppliedMoney, ReceiptsArePayments
  <2>2. Fits(e, paid[e], state[e])'
    BY <1>3, <1>4, <1>8 DEF Agrees, Fits
  <2> QED BY <1>3, <1>8, <2>1, <2>2 DEF Agrees
<1>9. \A o \in Owners : \A e \in DebtsOf(o) : Agrees(e)'
  <2>1. \A o \in Owners : \A e \in DebtsOf(o) : e \in Debts /\ Agrees(e)
    BY AgreeAll, DebtsOfOwner DEF LedgerInv, DebtsAgree, BooksTyped
  <2> QED BY <1>7, <1>8, <2>1
<1> QED BY <1>1, <1>3, <1>9

(* The owners after it.                                                    *)
LEMMA AppliedOwners ==
    ASSUME LedgerInv, BooksTyped, CallsTyped, NEW a \in Ids, NEW attempt, NEW mark,
           Apply(a, attempt, mark), ~Settled(a), payment[a].debt[1] \in Owners,
           payment[a].debt[1] = "loan" => owner["loan"].status # "PAID",
           UNCHANGED <<day, terms, rejected, undone>>,
           \A b \in Ids : payment'[b].debt = payment[b].debt
    PROVE  LET o == payment[a].debt[1]
           IN  /\ owner'[o].revision = owner[o].revision + 1
               /\ owner'[o].status \in Stages[o]
               /\ \A p \in Owners : p # o => owner'[p] = owner[p]
               /\ Approved' = Approved
               /\ OwnerFollowsDebts'
<1> DEFINE d == payment[a].debt
           o == d[1]
<1>1. /\ d \in Debts /\ o \in Owners
      /\ owner' = [owner EXCEPT ![o] = [status |-> Closed(o, state'), revision |-> @.revision + 1]]
      /\ owner[o].status \in Stages[o] \ {"PAID", "SETTLED"}
      /\ o = "agreement" => Approved
  BY AppliedRow, AppliesToOpen
<1>2. /\ owner'[o].status = Closed(o, state') /\ owner'[o].revision = owner[o].revision + 1
      /\ \A p \in Owners : p # o => owner'[p] = owner[p]
  BY <1>1 DEF BooksTyped
<1>3. /\ o = "loan" => /\ owner'["loan"].status = "PAID" <=> \A e \in DebtsOf("loan") : state'[e] = "PAID"
                       /\ owner'["loan"].status \in {owner["loan"].status, "PAID"}
      /\ o = "agreement" =>
             /\ owner'["agreement"].status = "SETTLED" <=> \A e \in DebtsOf("agreement") : state'[e] = "PAID"
             /\ owner'["agreement"].status \in {owner["agreement"].status, "SETTLED"}
  BY <1>1, <1>2 DEF Closed
<1>4. Approved' = Approved
  BY <1>1, <1>2, <1>3 DEF Approved, Owners
<1>5. owner'[o].status \in Stages[o]
  BY <1>1, <1>3 DEF Stages, Owners
<1>6. /\ \A e \in DebtsOf("loan") : e \in Debts /\ e[1] = "loan"
      /\ \A e \in DebtsOf("agreement") : e \in Debts /\ e[1] = "agreement"
      /\ \A p : DebtsOf(p)' = DebtsOf(p)
  BY DebtsOfOwner, TermsStay DEF BooksTyped, Owners
<1>7. /\ state'[d] \in {"PARTIAL", "PAID"}
      /\ \A e \in Debts : e # d => state'[e] = state[e]
  BY AppliedDebts
<1>8. OwnerFollowsDebts'
  <2> HIDE DEF d, o
  <2>1. CASE o = "loan"
    <3>1. owner'["agreement"] = owner["agreement"]
      BY <1>2, <2>1 DEF Owners
    <3>2. \A e \in DebtsOf("agreement") : state'[e] = state[e]
      BY <1>6, <1>7, <2>1 DEF o
    <3>3. \A e \in DebtsOf("loan") : state'[e] = "AGREED" => state[e] = "AGREED"
      BY <1>6, <1>7
    <3> QED BY <1>3, <1>6, <2>1, <3>1, <3>2, <3>3 DEF LedgerInv, DebtsAgree, OwnerFollowsDebts
  <2>2. CASE o = "agreement"
    <3>1. owner'["loan"] = owner["loan"]
      BY <1>2, <2>2 DEF Owners
    <3>2. \A e \in DebtsOf("loan") : state'[e] = state[e]
      BY <1>6, <1>7, <2>2 DEF o
    <3>3. owner'["agreement"].status \in {"APPROVED", "SETTLED"}
      BY <1>1, <1>4, <2>2 DEF Approved
    <3> QED BY <1>1, <1>3, <1>6, <2>2, <3>1, <3>2, <3>3
            DEF LedgerInv, DebtsAgree, OwnerFollowsDebts, Approved
  <2> QED BY <1>1, <2>1, <2>2 DEF Owners
<1> QED BY <1>2, <1>4, <1>5, <1>8

(* A settlement keeps the ledger in order.                                 *)
LEMMA AppliedLedger ==
    ASSUME LedgerInv, BooksTyped, CallsTyped, NEW a \in Ids, NEW attempt, NEW mark,
           Apply(a, attempt, mark), ~Settled(a), payment[a].debt[1] \in Owners,
           payment[a].debt[1] = "loan" => owner["loan"].status # "PAID",
           UNCHANGED <<day, terms, rejected, undone>>,
           \A b \in Ids : payment'[b].debt = payment[b].debt
    PROVE  LedgerInv' /\ BooksTyped'
<1> DEFINE d    == payment[a].debt
           o    == d[1]
           take == settlement'[a].applied
<1>1. /\ take \in Nat /\ take > 0 /\ o \in Owners
      /\ d \in Debts /\ d \in DebtsOf(o) /\ (o = "agreement" => Approved) /\ Agrees(d)
      /\ state[d] \in {"OPEN", "PARTIAL", "AGREED"}
      /\ owner[o].status \in Stages[o] \ {"PAID", "SETTLED"}
      /\ settlement' = [settlement EXCEPT ![a] = settlement'[a]]
      /\ owner'[o] = [status |-> Closed(o, state'), revision |-> owner[o].revision + 1]
  BY AppliedRow, AppliesToOpen
<1>2. /\ settlement'[a].before = state[d] /\ settlement'[a].ownerBefore = owner[o].status
      /\ settlement'[a].revision = owner[o].revision + 1
      /\ settlement'[a].after \in {"PAID", "PARTIAL"}
      /\ settlement'[a].ownerAfter = owner'[o].status
  <2>1. settlement'[a] =
           [applied |-> take, before |-> state[d],
            after |-> IF paid[d] + take = Owed(d) THEN "PAID" ELSE "PARTIAL",
            ownerBefore |-> owner[o].status, ownerAfter |-> Closed(o, state'),
            revision |-> owner[o].revision + 1]
    BY <1>1, AppliedRow
  <2>2. owner'[o].status = Closed(o, state')
    BY <1>1
  <2> QED BY <2>1, <2>2
<1>3. /\ \A b \in Ids : b # a =>
            /\ settlement'[b] = settlement[b]
            /\ Settled(b)' = Settled(b) /\ InForce(b)' = InForce(b)
      /\ Settled(a)' /\ InForce(a)' /\ ~InForce(a)
      /\ d[1] = "loan" => LoanReceipts' = LoanReceipts \union {a} /\ a \notin LoanReceipts
      /\ d[1] # "loan" => LoanReceipts' = LoanReceipts
      /\ settlement'[a].ownerBefore # "ACTIVE" => EarlyReceipts' = EarlyReceipts
  <2> HIDE DEF take
  <2> QED BY <1>1, AppliedSets DEF take
<1>4. /\ paid'[d] = paid[d] + take /\ paid'[d] \in Nat
      /\ state'[d] \in {"PARTIAL", "PAID"}
      /\ \A e \in Debts : e # d => paid'[e] = paid[e] /\ state'[e] = state[e]
      /\ \A p \in Owners : \A e \in DebtsOf(p) : Agrees(e)'
  BY <1>1, AppliedDebts
<1>5. /\ owner'[o].revision = owner[o].revision + 1
      /\ owner'[o].status \in Stages[o]
      /\ \A p \in Owners : p # o => owner'[p] = owner[p]
      /\ Approved' = Approved
      /\ OwnerFollowsDebts'
  BY AppliedOwners
<1>6. /\ \A p : DebtsOf(p)' = DebtsOf(p) /\ Total(p)' = Total(p)
      /\ \A e : Owed(e)' = Owed(e)
  BY TermsStay
<1>7. \A p \in Owners : /\ owner[p].revision \in Nat /\ owner[p].revision <= owner'[p].revision
                        /\ owner'[p].revision \in Nat
  BY <1>5 DEF BooksTyped
<1> HIDE DEF take, o, d
<1>8. DebtsAgree'
  BY <1>4, <1>5, <1>6, AgreeAll DEF DebtsAgree
<1>9. ReceiptsAreKnown'
  <2>1. ASSUME NEW b \in Ids, b # a, Settled(b)
        PROVE  settlement[b].revision <= owner'[payment[b].debt[1]].revision
    <3>1. payment[b].debt[1] \in Owners /\ settlement[b].revision <= owner[payment[b].debt[1]].revision
      BY <2>1 DEF LedgerInv, ReceiptsAreKnown, IsKnown
    <3>2. settlement[b].revision \in Nat
      BY DEF BooksTyped
    <3> QED BY <1>7, <3>1, <3>2
  <2>2. settlement'[a].before = "AGREED" => Approved
    <3>1. o = "loan" \/ o = "agreement"
      BY <1>1 DEF Owners
    <3>2. CASE o = "loan" /\ ~Approved
      <4>1. owner["agreement"].status \in Stages["agreement"]
        BY DEF BooksTyped, Owners
      <4>2. state[d] # "AGREED"
        BY <1>1, <3>2, <4>1 DEF LedgerInv, DebtsAgree, OwnerFollowsDebts, Approved, Stages
      <4> QED BY <1>2, <4>2
    <3> QED BY <1>1, <3>1, <3>2
  <2>3. settlement'[a].revision <= owner'[o].revision
    BY <1>1, <1>2, <1>5, <1>7
  <2>4. ASSUME NEW b \in Ids, b # a PROVE IsKnown(b)'
    <3>1. IsKnown(b) /\ payment'[b].debt = payment[b].debt
      BY DEF LedgerInv, ReceiptsAreKnown, IsKnown
    <3>2. settlement'[b] = settlement[b] /\ Settled(b)' = Settled(b)
      BY <1>3, <2>4
    <3>3. Settled(b) => settlement[b].revision <= owner'[payment[b].debt[1]].revision
      BY <2>1, <2>4
    <3> QED BY <1>5, <1>6, <3>1, <3>2, <3>3 DEF IsKnown
  <2>5. IsKnown(a)'
    <3>1. /\ payment'[a].debt = d /\ o = d[1] /\ d[1] \in Owners
          /\ settlement'[a].before \in {"OPEN", "PARTIAL", "AGREED"}
          /\ settlement'[a].ownerBefore \in Stages[o] \ {"PAID", "SETTLED"}
      BY <1>1, <1>2 DEF d, o
    <3>2. DebtsOf(o) = IF o = "loan" THEN {"loan"} \X Insts ELSE {"agreement"} \X (1..terms'.parts)
      BY DEF DebtsOf
    <3>3. d \in IF d[1] = "loan" THEN {"loan"} \X Insts ELSE {"agreement"} \X (1..terms'.parts)
      BY <1>1, <3>1, <3>2
    <3>4. settlement'[a].revision <= owner'[d[1]].revision
      BY <2>3, <3>1
    <3>5. settlement'[a].before = "AGREED" => Approved'
      BY <1>5, <2>2
    <3>6. d[1] = "agreement" => settlement'[a].ownerBefore = "APPROVED"
      BY <1>1, <1>2, <3>1 DEF Approved, Stages
    <3> QED BY <1>3, <3>1, <3>3, <3>4, <3>5, <3>6 DEF IsKnown, DebtsOf
  <2> QED BY <2>4, <2>5 DEF ReceiptsAreKnown, IsKnown
<1>10. PartsAreOfAgreement' /\ PlanStands'
  <2>1. PartsAreOfAgreement'
    BY <1>5, <1>6 DEF LedgerInv, PartsAreOfAgreement
  <2>2. owner["agreement"].status = "none" => owner'["agreement"] = owner["agreement"]
    BY <1>1, <1>5 DEF Approved, Owners
  <2> QED BY <2>1, <2>2 DEF LedgerInv, PlanStands
<1>11. BeforeApproval'
  <2> SUFFICES ASSUME ~Approved PROVE BeforeApproval'
    BY <1>5 DEF BeforeApproval
  <2>1. o = "loan" /\ owner["loan"].status = "ACTIVE"
    <3>1. o = "loan"
      BY <1>1 DEF Owners
    <3> QED BY <1>1, <3>1 DEF LedgerInv, BeforeApproval, Stages
  <2>2. owner'["loan"].status \in {"ACTIVE", "PAID"}
    <3>1. owner'[o].status = Closed(o, state')
      BY <1>1
    <3> QED BY <2>1, <3>1 DEF Closed
  <2>3. \A e \in Debts : e[1] = "agreement" => paid'[e] = 0 /\ state'[e] = "OPEN"
    <3>1. \A e \in Debts : e[1] = "agreement" => e # d
      BY <2>1 DEF o
    <3> QED BY <1>4, <3>1 DEF LedgerInv, BeforeApproval
  <2>4. \A b \in Ids : Settled(b)' => settlement'[b].ownerBefore = "ACTIVE"
    BY <1>2, <1>3, <2>1 DEF LedgerInv, BeforeApproval
  <2> QED BY <2>2, <2>3, <2>4 DEF BeforeApproval
<1>12. LatestMayGo'
  <2>1. ASSUME NEW b \in Ids, b # a, InForce(b),
               settlement[b].revision = owner'[payment[b].debt[1]].revision
        PROVE  /\ payment[b].debt[1] # o /\ payment[b].debt # d /\ payment[b].debt \in Debts
               /\ settlement[b].revision = owner[payment[b].debt[1]].revision
    <3>1. /\ payment[b].debt[1] \in Owners /\ settlement[b].revision <= owner[payment[b].debt[1]].revision
          /\ payment[b].debt \in DebtsOf(payment[b].debt[1])
      BY <2>1 DEF LedgerInv, ReceiptsAreKnown, IsKnown, InForce
    <3>2. payment[b].debt[1] # o
      BY <1>5, <1>7, <2>1, <3>1
    <3> QED BY <1>5, <2>1, <3>1, <3>2, DebtsOfOwner DEF BooksTyped, o
  <2>2. ASSUME NEW b \in Ids, b # a, InForce(b)',
               settlement'[b].revision = owner'[payment'[b].debt[1]].revision
        PROVE  /\ Fits(payment[b].debt, paid[payment[b].debt] - settlement[b].applied, settlement[b].before)'
               /\ Approved' => settlement'[b].ownerBefore # "ACTIVE"
    <3>1. InForce(b) /\ settlement'[b] = settlement[b] /\ payment'[b].debt = payment[b].debt
      BY <1>3, <2>2
    <3>2. /\ payment[b].debt # d /\ payment[b].debt \in Debts
          /\ settlement[b].revision = owner[payment[b].debt[1]].revision
      BY <2>1, <2>2, <3>1
    <3>3. paid'[payment[b].debt] = paid[payment[b].debt]
      BY <1>4, <3>2
    <3>4. /\ Fits(payment[b].debt, paid[payment[b].debt] - settlement[b].applied, settlement[b].before)
          /\ Approved => settlement[b].ownerBefore # "ACTIVE"
      BY <3>1, <3>2 DEF LedgerInv, LatestMayGo
    <3> QED BY <1>5, <1>6, <3>1, <3>3, <3>4 DEF Fits
  <2>3. Fits(payment[a].debt, paid[payment[a].debt] - settlement[a].applied, settlement[a].before)'
    <3>1. paid[d] \in Nat /\ paid'[d] - take = paid[d]
      BY <1>1, <1>4 DEF BooksTyped
    <3>2. Fits(d, paid[d], state[d])
      BY <1>1 DEF Agrees
    <3>3. payment'[a].debt = d /\ settlement'[a].applied = take
      BY DEF d, take
    <3> QED BY <1>2, <1>6, <3>1, <3>2, <3>3 DEF Fits
  <2>4. Approved' => settlement'[a].ownerBefore # "ACTIVE"
    <3>1. Approved => owner[o].status # "ACTIVE"
      BY <1>1 DEF LedgerInv, DebtsAgree, OwnerFollowsDebts, Approved, Owners, Stages
    <3> QED BY <1>2, <1>5, <3>1
  <2> QED BY <2>2, <2>3, <2>4 DEF LatestMayGo
<1>13. LoanIsPaid'
  <2>1. /\ IsFiniteSet(DebtsOf("loan")) /\ DebtsOf("loan") \subseteq Debts
        /\ \A e \in Debts : e[1] = "loan" => e \in DebtsOf("loan")
        /\ \A e \in DebtsOf("loan") : e[1] = "loan"
    BY DebtsOfOwner DEF BooksTyped, Owners
  <2>2. \A e \in DebtsOf("loan") : paid[e] \in Int /\ paid'[e] \in Int
    BY <1>4, <2>1 DEF BooksTyped
  <2>3. SumFunctionOnSet(paid, DebtsOf("loan")) = Money(settlement, LoanReceipts)
    BY SumsAreMoney DEF LedgerInv
  <2>4. CASE o = "loan"
    <3>1. d \in DebtsOf("loan") /\ \A e \in DebtsOf("loan") \ {d} : paid'[e] = paid[e]
      BY <1>1, <1>4, <2>1, <2>4
    <3>2. SumFunctionOnSet(paid', DebtsOf("loan"))
              = SumFunctionOnSet(paid, DebtsOf("loan")) + (paid'[d] - paid[d])
      BY <2>1, <2>2, <3>1, SumChanges
    <3>3. Money(settlement', LoanReceipts \union {a}) = Money(settlement, LoanReceipts) + take
      BY <1>1, <1>3, <2>4, AppliedMoney, ReceiptsArePayments DEF o, take
    <3>4. paid'[d] - paid[d] = take
      BY <1>1, <1>4 DEF BooksTyped
    <3> QED BY <1>3, <1>6, <2>3, <2>4, <3>2, <3>3, <3>4, SumsAreMoney DEF o
  <2>5. CASE o # "loan"
    <3>1. \A e \in DebtsOf("loan") : paid'[e] = paid[e]
      BY <1>4, <2>1, <2>5 DEF o
    <3>2. SumFunctionOnSet(paid', DebtsOf("loan")) = SumFunctionOnSet(paid, DebtsOf("loan"))
      BY <2>1, <3>1, SumSame
    <3>3. a \notin LoanReceipts
      BY <1>3 DEF LoanReceipts
    <3>4. Money(settlement', LoanReceipts) = Money(settlement, LoanReceipts)
      BY <1>1, <3>3, AppliedMoney, ReceiptsArePayments DEF take
    <3> QED BY <1>3, <1>6, <2>3, <2>5, <3>2, <3>4, SumsAreMoney DEF o
  <2> QED BY <2>4, <2>5
<1>14. FoundCovers'
  <2> SUFFICES ASSUME Approved PROVE terms'.found + Money(settlement', EarlyReceipts') = Total("loan")'
    BY <1>5, SumsAreMoney
  <2>1. owner[o].status # "ACTIVE"
    BY <1>1 DEF LedgerInv, DebtsAgree, OwnerFollowsDebts, Approved, Owners, Stages
  <2>2. EarlyReceipts' = EarlyReceipts /\ a \notin EarlyReceipts
    BY <1>2, <1>3, <2>1 DEF EarlyReceipts
  <2>3. Money(settlement', EarlyReceipts) = Money(settlement, EarlyReceipts)
    BY <1>1, <2>2, AppliedMoney, ReceiptsArePayments DEF take
  <2> QED BY <1>6, <2>2, <2>3, SumsAreMoney DEF LedgerInv
<1>15. LedgerInv'
  BY <1>8, <1>9, <1>10, <1>11, <1>12, <1>13, <1>14 DEF LedgerInv
<1>16. BooksTyped'
  <2>1. /\ paid' = [e \in Debts |-> paid'[e]] /\ state' = [e \in Debts |-> state'[e]]
        /\ owner' = [p \in Owners |-> owner'[p]]
    BY <1>1, AppliedRow DEF BooksTyped, d, o
  <2>2. paid' \in [Debts -> Nat]
    BY <1>4, <2>1 DEF BooksTyped
  <2>3. state' \in [Debts -> Statuses]
    BY <1>4, <2>1 DEF BooksTyped, Statuses
  <2>4. \A p \in Owners : owner'[p].status \in Stages[p]
    BY <1>5 DEF BooksTyped
  <2>5. owner' \in [Owners -> [status : Stages.loan \union Stages.agreement, revision : Nat]]
    <3>1. owner'[o] = [status |-> Closed(o, state'), revision |-> owner[o].revision + 1]
      BY <1>1
    <3>2. owner'[o] \in [status : Stages.loan \union Stages.agreement, revision : Nat]
      <4>1. Closed(o, state') \in Stages[o] /\ owner[o].revision + 1 \in Nat
        BY <1>1, <1>5, <1>7, <3>1
      <4>2. Stages[o] \subseteq Stages.loan \union Stages.agreement
        BY <1>1 DEF Owners, Stages
      <4> QED BY <3>1, <4>1, <4>2
    <3> QED BY <1>5, <2>1, <3>2 DEF BooksTyped
  <2>6. settlement'[a] \in [applied : Nat, before : Statuses \union {"none"},
                            after : Statuses \union {"none"},
                            ownerBefore : Stages.loan \union Stages.agreement,
                            ownerAfter : Stages.loan \union Stages.agreement,
                            revision : Nat]
    <3>1. \E after : settlement'[a] =
             [applied |-> take, before |-> state[d], after |-> after,
              ownerBefore |-> owner[o].status, ownerAfter |-> owner'[o].status,
              revision |-> owner[o].revision + 1] /\ after \in Statuses
      <4>1. settlement'[a] =
             [applied |-> take, before |-> state[d],
              after |-> IF paid[d] + take = Owed(d) THEN "PAID" ELSE "PARTIAL",
              ownerBefore |-> owner[o].status, ownerAfter |-> Closed(o, state'),
              revision |-> owner[o].revision + 1]
        BY <1>1, AppliedRow DEF d, o, take
      <4>2. owner'[o].status = Closed(o, state')
        BY <1>1
      <4> QED BY <4>1, <4>2 DEF Statuses
    <3>2. /\ owner[o].status \in Stages.loan \union Stages.agreement
          /\ owner'[o].status \in Stages.loan \union Stages.agreement
          /\ owner[o].revision + 1 \in Nat /\ state[d] \in Statuses
      BY <1>1, <1>5, <1>7 DEF Owners, Stages, Statuses
    <3> QED BY <1>1, <3>1, <3>2
  <2>7. settlement' \in [Ids -> [applied : Nat, before : Statuses \union {"none"},
                                 after : Statuses \union {"none"},
                                 ownerBefore : Stages.loan \union Stages.agreement,
                                 ownerAfter : Stages.loan \union Stages.agreement,
                                 revision : Nat]]
    BY <1>1, <2>6 DEF BooksTyped
  <2> QED BY <2>2, <2>3, <2>4, <2>5, <2>7 DEF BooksTyped
<1> QED BY <1>15, <1>16

(* A reversal is of a settlement nothing has followed for its owner.       *)
LEMMA ReversesLatest ==
    ASSUME LedgerInv, BooksTyped, NEW a \in Ids, ReversePayment(a)
    PROVE  LET d    == payment[a].debt
               o    == d[1]
               take == settlement[a].applied
           IN  /\ d \in Debts /\ o \in Owners /\ d \in DebtsOf(o) /\ Agrees(d)
               /\ take \in Nat /\ paid[d] \in Nat /\ InForce(a)
               /\ settlement[a].before \in {"OPEN", "PARTIAL", "AGREED"}
               /\ settlement[a].before = "AGREED" => Approved
               /\ settlement[a].ownerBefore \in Stages[o] \ {"PAID", "SETTLED"}
               /\ o = "agreement" => Approved /\ settlement[a].ownerBefore = "APPROVED"
               /\ Approved => settlement[a].ownerBefore # "ACTIVE"
               /\ ~Approved => settlement[a].ownerBefore = "ACTIVE"
               /\ Fits(d, paid[d] - take, settlement[a].before)
               /\ paid' = [paid EXCEPT ![d] = paid[d] - take]
               /\ state' = [state EXCEPT ![d] = settlement[a].before]
               /\ owner' = [owner EXCEPT ![o] = [status |-> settlement[a].ownerBefore,
                                                 revision |-> owner[o].revision + 1]]
               /\ undone' = [undone EXCEPT ![a] = day]
<1> DEFINE d == payment[a].debt
           o == d[1]
<1>1. InForce(a) /\ Settled(a) /\ Intact(a)
  BY DEF ReversePayment, InForce
<1>2. /\ o \in Owners /\ d \in DebtsOf(o)
      /\ settlement[a].before \in {"OPEN", "PARTIAL", "AGREED"}
      /\ settlement[a].ownerBefore \in Stages[o] \ {"PAID", "SETTLED"}
      /\ o = "agreement" => settlement[a].ownerBefore = "APPROVED"
      /\ settlement[a].before = "AGREED" => Approved
  BY <1>1 DEF LedgerInv, ReceiptsAreKnown, IsKnown
<1>3. d \in Debts
  BY <1>2, DebtsOfOwner DEF BooksTyped
<1>4. Agrees(d)
  BY <1>2, AgreeAll DEF LedgerInv, DebtsAgree
<1>5. /\ Fits(d, paid[d] - settlement[a].applied, settlement[a].before)
      /\ Approved => settlement[a].ownerBefore # "ACTIVE"
  BY <1>1 DEF LedgerInv, LatestMayGo, Intact
<1>6. o = "agreement" => Approved
  BY DEF LedgerInv, PartsAreOfAgreement
<1>7. ~Approved => settlement[a].ownerBefore = "ACTIVE"
  BY <1>1 DEF LedgerInv, BeforeApproval
<1>8. settlement[a].applied \in Nat /\ paid[d] \in Nat
  BY <1>3 DEF BooksTyped
<1>9. /\ paid' = [paid EXCEPT ![d] = paid[d] - settlement[a].applied]
      /\ state' = [state EXCEPT ![d] = settlement[a].before]
      /\ owner' = [owner EXCEPT ![o] = [status |-> settlement[a].ownerBefore,
                                        revision |-> owner[o].revision + 1]]
      /\ undone' = [undone EXCEPT ![a] = day]
  BY DEF ReversePayment
<1> QED BY <1>1, <1>2, <1>3, <1>4, <1>5, <1>6, <1>7, <1>8, <1>9

(* Who is in force after a reversal: all but the one that is taken back.   *)
LEMMA ReversedSets ==
    ASSUME LedgerInv, BooksTyped, NEW a \in Ids, ReversePayment(a)
    PROVE  LET d == payment[a].debt
           IN  /\ \A b \in Ids : Settled(b)' = Settled(b)
               /\ \A b \in Ids : b # a => InForce(b)' = InForce(b) /\ undone'[b] = undone[b]
               /\ ~InForce(a)'
               /\ ReceiptsOf(d) = ReceiptsOf(d)' \union {a} /\ a \notin ReceiptsOf(d)'
               /\ \A e : e # d => ReceiptsOf(e)' = ReceiptsOf(e)
               /\ d[1] = "loan" => LoanReceipts = LoanReceipts' \union {a} /\ a \notin LoanReceipts'
               /\ d[1] # "loan" => LoanReceipts' = LoanReceipts
               /\ settlement[a].ownerBefore # "ACTIVE" => EarlyReceipts' = EarlyReceipts
<1>1. /\ undone' = [undone EXCEPT ![a] = day] /\ InForce(a)
      /\ settlement' = settlement /\ payment' = payment
  BY ReversesLatest DEF ReversePayment
<1>2. undone'[a] # 0 /\ \A b \in Ids : b # a => undone'[b] = undone[b]
  BY <1>1 DEF BooksTyped
<1>3. /\ \A b \in Ids : Settled(b)' = Settled(b)
      /\ \A b \in Ids : b # a => InForce(b)' = InForce(b)
      /\ ~InForce(a)'
  BY <1>1, <1>2 DEF Settled, InForce
<1>4. \A e : ReceiptsOf(e)' = {b \in Ids : payment[b].debt = e /\ InForce(b)'}
  BY <1>1 DEF ReceiptsOf
<1>5. /\ ReceiptsOf(payment[a].debt) = ReceiptsOf(payment[a].debt)' \union {a}
      /\ a \notin ReceiptsOf(payment[a].debt)'
      /\ \A e : e # payment[a].debt => ReceiptsOf(e)' = ReceiptsOf(e)
  BY <1>1, <1>3, <1>4 DEF ReceiptsOf
<1>6. /\ payment[a].debt[1] = "loan" =>
             LoanReceipts = LoanReceipts' \union {a} /\ a \notin LoanReceipts'
      /\ payment[a].debt[1] # "loan" => LoanReceipts' = LoanReceipts
  BY <1>1, <1>3 DEF LoanReceipts
<1>7. settlement[a].ownerBefore # "ACTIVE" => EarlyReceipts' = EarlyReceipts
  BY <1>1, <1>3 DEF EarlyReceipts
<1> QED BY <1>2, <1>3, <1>5, <1>6, <1>7

(* Money that is given back.                                               *)
LEMMA ReversedMoney ==
    ASSUME BooksTyped, NEW a \in Ids, NEW S \in SUBSET Ids, a \notin S
    PROVE  /\ Money(settlement, S \union {a}) = Money(settlement, S) + settlement[a].applied
           /\ Money(settlement, S) \in Nat
<1>1. \A b \in S \union {a} : settlement[b].applied \in Nat /\ settlement[b].applied \in Int
  BY DEF BooksTyped
<1>2. Money(settlement, S \union {a}) = settlement[a].applied + Money(settlement, S)
  BY <1>1, MoneyGrows
<1>3. Money(settlement, S) \in Nat
  BY <1>1, MoneyNat
<1> QED BY <1>1, <1>2, <1>3

(* The debt that is open again, and the others.                            *)
LEMMA ReversedDebts ==
    ASSUME LedgerInv, BooksTyped, NEW a \in Ids, ReversePayment(a)
    PROVE  LET d == payment[a].debt
           IN  /\ paid'[d] = paid[d] - settlement[a].applied /\ paid'[d] \in Nat
               /\ state'[d] = settlement[a].before
               /\ \A e \in Debts : e # d => paid'[e] = paid[e] /\ state'[e] = state[e]
               /\ \A o \in Owners : \A e \in DebtsOf(o) : Agrees(e)'
<1> DEFINE d == payment[a].debt
           o == d[1]
<1>1. /\ d \in Debts /\ Agrees(d) /\ settlement[a].applied \in Nat /\ paid[d] \in Nat
      /\ Fits(d, paid[d] - settlement[a].applied, settlement[a].before)
      /\ paid' = [paid EXCEPT ![d] = paid[d] - settlement[a].applied]
      /\ state' = [state EXCEPT ![d] = settlement[a].before]
  BY ReversesLatest
<1>2. UNCHANGED <<settlement, terms>>
  BY DEF ReversePayment
<1>3. UNCHANGED payment
  BY DEF ReversePayment
<1>4. /\ paid'[d] = paid[d] - settlement[a].applied /\ state'[d] = settlement[a].before
      /\ \A e \in Debts : e # d => paid'[e] = paid[e] /\ state'[e] = state[e]
  BY <1>1 DEF BooksTyped
<1>5. \A e : Owed(e)' = Owed(e)
  BY <1>2, TermsStay
<1>6. /\ ReceiptsOf(d) = ReceiptsOf(d)' \union {a} /\ a \notin ReceiptsOf(d)'
      /\ \A e : e # d => ReceiptsOf(e)' = ReceiptsOf(e)
  BY ReversedSets
<1>7. /\ Money(settlement, ReceiptsOf(d)' \union {a})
             = Money(settlement, ReceiptsOf(d)') + settlement[a].applied
      /\ Money(settlement, ReceiptsOf(d)') \in Nat
  BY <1>6, ReversedMoney, ReceiptsArePayments
<1>8. paid'[d] = Money(settlement, ReceiptsOf(d)')
  <2>1. paid[d] = Money(settlement, ReceiptsOf(d)') + settlement[a].applied
    BY <1>1, <1>6, <1>7 DEF Agrees
  <2> QED BY <1>1, <1>4, <1>7, <2>1
<1>9. ReceiptsOf(d)' = {b \in Ids : payment'[b].debt = d /\ InForce(b)'}
  BY <1>3 DEF ReceiptsOf, d
<1> HIDE DEF d, o
<1>10. ASSUME NEW e \in Debts, e = d PROVE Agrees(e)'
  <2>1. Fits(e, paid'[e], state'[e])
    BY <1>1, <1>4, <1>10
  <2>2. Fits(e, paid[e], state[e])'
    BY <1>5, <2>1 DEF Fits
  <2>3. settlement' = settlement
    BY <1>2
  <2>4. ReceiptsOf(e)' = {b \in Ids : payment'[b].debt = e /\ InForce(b)'}
    BY DEF ReceiptsOf
  <2>5. paid'[e] = Money(settlement, ReceiptsOf(e)')
    BY <1>8, <1>10, <1>9, <2>4
  <2> QED BY <2>2, <2>3, <2>5 DEF Agrees
<1>11. ASSUME NEW e \in Debts, e # d, Agrees(e) PROVE Agrees(e)'
  BY <1>2, <1>4, <1>5, <1>6, <1>11 DEF Agrees, Fits
<1>12. \A p \in Owners : \A e \in DebtsOf(p) : Agrees(e)'
  <2>1. \A p \in Owners : \A e \in DebtsOf(p) : e \in Debts /\ Agrees(e)
    BY AgreeAll, DebtsOfOwner DEF LedgerInv, DebtsAgree, BooksTyped
  <2> QED BY <1>10, <1>11, <2>1
<1>13. paid'[d] \in Nat
  BY <1>7, <1>8
<1> QED BY <1>4, <1>12, <1>13 DEF d

(* A reversal keeps the ledger in order.                                   *)
LEMMA ReversedLedger ==
    ASSUME LedgerInv, BooksTyped, NEW a \in Ids, ReversePayment(a)
    PROVE  LedgerInv' /\ BooksTyped'
<1> DEFINE d == payment[a].debt
           o == d[1]
<1>1. /\ d \in Debts /\ o \in Owners /\ d \in DebtsOf(o)
      /\ settlement[a].applied \in Nat /\ paid[d] \in Nat /\ Settled(a)
      /\ settlement[a].before \in {"OPEN", "PARTIAL", "AGREED"}
      /\ settlement[a].before = "AGREED" => Approved
      /\ settlement[a].ownerBefore \in Stages[o] \ {"PAID", "SETTLED"}
      /\ o = "agreement" => Approved /\ settlement[a].ownerBefore = "APPROVED"
      /\ Approved => settlement[a].ownerBefore # "ACTIVE"
      /\ ~Approved => settlement[a].ownerBefore = "ACTIVE"
      /\ paid' = [paid EXCEPT ![d] = paid[d] - settlement[a].applied]
      /\ state' = [state EXCEPT ![d] = settlement[a].before]
      /\ owner' = [owner EXCEPT ![o] = [status |-> settlement[a].ownerBefore,
                                        revision |-> owner[o].revision + 1]]
      /\ undone' = [undone EXCEPT ![a] = day]
  BY ReversesLatest DEF InForce
<1>2. UNCHANGED <<day, terms, rejected, payment, settlement>>
  BY DEF ReversePayment
<1>3. /\ \A b \in Ids : Settled(b)' = Settled(b)
      /\ \A b \in Ids : b # a => InForce(b)' = InForce(b) /\ undone'[b] = undone[b]
      /\ ~InForce(a)'
      /\ d[1] = "loan" => LoanReceipts = LoanReceipts' \union {a} /\ a \notin LoanReceipts'
      /\ d[1] # "loan" => LoanReceipts' = LoanReceipts
      /\ settlement[a].ownerBefore # "ACTIVE" => EarlyReceipts' = EarlyReceipts
  BY ReversedSets
<1>4. /\ paid'[d] = paid[d] - settlement[a].applied /\ paid'[d] \in Nat
      /\ state'[d] = settlement[a].before
      /\ \A e \in Debts : e # d => paid'[e] = paid[e] /\ state'[e] = state[e]
      /\ \A p \in Owners : \A e \in DebtsOf(p) : Agrees(e)'
  BY ReversedDebts
<1>5. /\ \A p : DebtsOf(p)' = DebtsOf(p) /\ Total(p)' = Total(p)
      /\ \A e : Owed(e)' = Owed(e)
  BY <1>2, TermsStay
<1>6. /\ owner'[o].status = settlement[a].ownerBefore
      /\ owner'[o].revision = owner[o].revision + 1
      /\ \A p \in Owners : p # o => owner'[p] = owner[p]
  BY <1>1 DEF BooksTyped
<1>7. \A p \in Owners : /\ owner[p].revision \in Nat /\ owner[p].revision <= owner'[p].revision
                        /\ owner'[p].revision \in Nat
  BY <1>6 DEF BooksTyped
<1>8. Approved' = Approved
  BY <1>1, <1>6 DEF Approved, Owners
<1>9. /\ \A e \in DebtsOf("loan") : e \in Debts /\ e[1] = "loan"
      /\ \A e \in DebtsOf("agreement") : e \in Debts /\ e[1] = "agreement"
      /\ \A e \in Debts : e[1] = "loan" => e \in DebtsOf("loan")
      /\ IsFiniteSet(DebtsOf("loan"))
  BY DebtsOfOwner DEF BooksTyped, Owners
<1>10. d[1] = o
  OBVIOUS
<1> HIDE DEF d, o
<1>11. OwnerFollowsDebts'
  <2>1. CASE o = "loan"
    <3>1. owner'["agreement"] = owner["agreement"] /\ owner'["loan"].status = settlement[a].ownerBefore
      BY <1>6, <2>1 DEF Owners
    <3>2. \A e \in DebtsOf("agreement") : state'[e] = state[e]
      BY <1>4, <1>9, <1>10, <2>1
    <3>3. owner'["loan"].status # "PAID" /\ state'[d] # "PAID" /\ d \in DebtsOf("loan")
      BY <1>1, <1>4, <2>1, <3>1
    <3>4. ~Approved => \A e \in DebtsOf("loan") : state'[e] # "AGREED"
      <4>1. owner["agreement"].status \in Stages["agreement"]
        BY DEF BooksTyped, Owners
      <4>2. ~Approved => \A e \in DebtsOf("loan") : state[e] # "AGREED"
        BY <4>1 DEF LedgerInv, DebtsAgree, OwnerFollowsDebts, Approved, Stages
      <4> QED BY <1>1, <1>4, <1>9, <4>2
    <3>5. Approved => owner'["loan"].status # "ACTIVE"
      BY <1>1, <3>1
    <3>6. owner["agreement"].status \in {"none", "REQUESTED"} => ~Approved
      BY DEF Approved
    <3> QED BY <1>5, <3>1, <3>2, <3>3, <3>4, <3>5, <3>6
            DEF LedgerInv, DebtsAgree, OwnerFollowsDebts, Approved
  <2>2. CASE o = "agreement"
    <3>1. owner'["loan"] = owner["loan"] /\ owner'["agreement"].status = "APPROVED"
      BY <1>1, <1>6, <2>2 DEF Owners
    <3>2. \A e \in DebtsOf("loan") : state'[e] = state[e]
      BY <1>4, <1>9, <1>10, <2>2
    <3>3. state'[d] # "PAID" /\ d \in DebtsOf("agreement")
      BY <1>1, <1>4, <2>2
    <3>4. owner["agreement"].status \in {"APPROVED", "SETTLED"}
      BY <1>1, <2>2 DEF Approved
    <3> QED BY <1>5, <3>1, <3>2, <3>3, <3>4 DEF LedgerInv, DebtsAgree, OwnerFollowsDebts
  <2> QED BY <1>1, <2>1, <2>2 DEF Owners
<1>12. DebtsAgree'
  BY <1>4, <1>5, <1>11, AgreeAll DEF DebtsAgree
<1>13. ReceiptsAreKnown'
  <2>1. ASSUME NEW b \in Ids PROVE IsKnown(b)'
    <3>1. IsKnown(b) /\ payment'[b].debt = payment[b].debt /\ settlement'[b] = settlement[b]
      BY <1>2 DEF LedgerInv, ReceiptsAreKnown
    <3>2. undone'[b] # 0 => Settled(b)
      BY <1>1, <1>3, <3>1 DEF IsKnown
    <3>3. Settled(b) /\ payment[b].debt[1] \in Owners =>
              settlement[b].revision <= owner'[payment[b].debt[1]].revision
      <4>1. Settled(b) => settlement[b].revision \in Nat /\ settlement[b].revision <= owner[payment[b].debt[1]].revision
        BY <3>1 DEF IsKnown, BooksTyped
      <4> QED BY <1>7, <4>1
    <3> QED BY <1>2, <1>3, <1>8, <3>1, <3>2, <3>3 DEF IsKnown, DebtsOf
  <2> QED BY <2>1 DEF ReceiptsAreKnown
<1>14. PartsAreOfAgreement' /\ PlanStands'
  <2>1. PartsAreOfAgreement'
    BY <1>2, <1>5, <1>8 DEF LedgerInv, PartsAreOfAgreement
  <2>2. owner["agreement"].status = "none" => owner'["agreement"] = owner["agreement"]
    BY <1>1, <1>6 DEF Approved, Owners
  <2> QED BY <1>2, <2>1, <2>2 DEF LedgerInv, PlanStands
<1>15. BeforeApproval'
  <2> SUFFICES ASSUME ~Approved PROVE BeforeApproval'
    BY <1>8 DEF BeforeApproval
  <2>1. o = "loan" /\ owner'["loan"].status = "ACTIVE"
    BY <1>1, <1>6 DEF Owners
  <2>2. \A e \in Debts : e[1] = "agreement" => paid'[e] = 0 /\ state'[e] = "OPEN"
    <3>1. \A e \in Debts : e[1] = "agreement" => e # d
      BY <1>10, <2>1
    <3> QED BY <1>4, <3>1 DEF LedgerInv, BeforeApproval
  <2>3. \A b \in Ids : Settled(b)' => settlement'[b].ownerBefore = "ACTIVE"
    BY <1>2, <1>3 DEF LedgerInv, BeforeApproval
  <2> QED BY <2>1, <2>2, <2>3 DEF BeforeApproval
<1>16. LatestMayGo'
  <2>1. ASSUME NEW b \in Ids, InForce(b)',
               settlement'[b].revision = owner'[payment'[b].debt[1]].revision
        PROVE  /\ Fits(payment[b].debt, paid[payment[b].debt] - settlement[b].applied, settlement[b].before)'
               /\ Approved' => settlement'[b].ownerBefore # "ACTIVE"
    <3>1. b # a /\ InForce(b) /\ settlement'[b] = settlement[b] /\ payment'[b].debt = payment[b].debt
      BY <1>2, <1>3, <2>1
    <3>2. /\ payment[b].debt[1] \in Owners /\ settlement[b].revision <= owner[payment[b].debt[1]].revision
          /\ payment[b].debt \in DebtsOf(payment[b].debt[1])
      BY <3>1 DEF LedgerInv, ReceiptsAreKnown, IsKnown, InForce
    <3>3. payment[b].debt[1] # o
      BY <1>6, <1>7, <2>1, <3>1, <3>2
    <3>4. payment[b].debt # d /\ payment[b].debt \in Debts
      BY <1>10, <3>2, <3>3, DebtsOfOwner DEF BooksTyped
    <3>5. settlement[b].revision = owner[payment[b].debt[1]].revision
      BY <1>6, <2>1, <3>1, <3>2, <3>3
    <3>6. /\ Fits(payment[b].debt, paid[payment[b].debt] - settlement[b].applied, settlement[b].before)
          /\ Approved => settlement[b].ownerBefore # "ACTIVE"
      BY <3>1, <3>5 DEF LedgerInv, LatestMayGo
    <3>7. paid'[payment[b].debt] = paid[payment[b].debt]
      BY <1>4, <3>4
    <3> QED BY <1>2, <1>5, <1>8, <3>1, <3>6, <3>7 DEF Fits
  <2> QED BY <2>1 DEF LatestMayGo
<1>17. LoanIsPaid'
  <2>1. \A e \in DebtsOf("loan") : paid[e] \in Int /\ paid'[e] \in Int
    BY <1>4, <1>9 DEF BooksTyped
  <2>2. SumFunctionOnSet(paid, DebtsOf("loan")) = Money(settlement, LoanReceipts)
    BY SumsAreMoney DEF LedgerInv
  <2>3. CASE o = "loan"
    <3>1. d \in DebtsOf("loan") /\ \A e \in DebtsOf("loan") \ {d} : paid'[e] = paid[e]
      BY <1>1, <1>4, <1>9, <2>3
    <3>2. SumFunctionOnSet(paid', DebtsOf("loan"))
              = SumFunctionOnSet(paid, DebtsOf("loan")) + (paid'[d] - paid[d])
      BY <1>9, <2>1, <3>1, SumChanges
    <3>3. /\ Money(settlement, LoanReceipts' \union {a}) = Money(settlement, LoanReceipts') + settlement[a].applied
          /\ Money(settlement, LoanReceipts') \in Nat
      <4>1. LoanReceipts' \in SUBSET Ids
        BY DEF LoanReceipts
      <4> QED BY <1>3, <1>10, <2>3, <4>1, ReversedMoney
    <3>4. LoanReceipts = LoanReceipts' \union {a}
      BY <1>3, <1>10, <2>3
    <3>5. SumFunctionOnSet(paid', DebtsOf("loan")) = Money(settlement, LoanReceipts')
      BY <1>1, <1>4, <2>2, <3>2, <3>3, <3>4
    <3> QED BY <1>2, <1>5, <3>5, SumsAreMoney
  <2>4. CASE o # "loan"
    <3>1. \A e \in DebtsOf("loan") : paid'[e] = paid[e]
      BY <1>4, <1>9, <1>10, <2>4
    <3>2. SumFunctionOnSet(paid', DebtsOf("loan")) = SumFunctionOnSet(paid, DebtsOf("loan"))
      BY <1>9, <3>1, SumSame
    <3>3. LoanReceipts' = LoanReceipts
      BY <1>3, <1>10, <2>4
    <3> QED BY <1>2, <1>5, <2>2, <3>2, <3>3, SumsAreMoney
  <2> QED BY <2>3, <2>4
<1>18. FoundCovers'
  <2> SUFFICES ASSUME Approved PROVE terms'.found + Money(settlement', EarlyReceipts') = Total("loan")'
    BY <1>8, SumsAreMoney
  <2> QED BY <1>1, <1>2, <1>3, <1>5, SumsAreMoney DEF LedgerInv
<1>19. BooksTyped'
  <2>1. paid' \in [Debts -> Nat]
    BY <1>1, <1>4 DEF BooksTyped
  <2>2. state' \in [Debts -> Statuses]
    BY <1>1 DEF BooksTyped, Statuses
  <2>3. \A p \in Owners : owner'[p].status \in Stages[p]
    BY <1>1, <1>6 DEF BooksTyped
  <2>4. owner' \in [Owners -> [status : Stages.loan \union Stages.agreement, revision : Nat]]
    <3>1. settlement[a].ownerBefore \in Stages.loan \union Stages.agreement /\ owner[o].revision + 1 \in Nat
      BY <1>1, <1>7 DEF BooksTyped
    <3> QED BY <1>1, <3>1 DEF BooksTyped
  <2>5. undone' \in [Ids -> 0..LastDay]
    BY <1>1, BoundsAssumption DEF BooksTyped
  <2> QED BY <1>2, <2>1, <2>2, <2>3, <2>4, <2>5 DEF BooksTyped
<1> QED BY <1>12, <1>13, <1>14, <1>15, <1>16, <1>17, <1>18, <1>19 DEF LedgerInv

(* What the loan owes does not depend on the terms of the agreement.       *)
LEMMA LoanOwes ==
    /\ DebtsOf("loan")' = DebtsOf("loan") /\ Total("loan")' = Total("loan")
    /\ \A d : d[1] = "loan" => Owed(d)' = Owed(d) /\ Owed(d) = Amount
<1>1. DebtsOf("loan") = {"loan"} \X Insts /\ DebtsOf("loan")' = {"loan"} \X Insts
  BY DEF DebtsOf
<1>2. \A d : d[1] = "loan" => Owed(d)' = Amount /\ Owed(d) = Amount
  BY DEF Owed
<1>3. \A d \in {"loan"} \X Insts : d[1] = "loan"
  OBVIOUS
<1>4. Total("loan") = SumFunctionOnSet([d \in {"loan"} \X Insts |-> Owed(d)], {"loan"} \X Insts)
  BY <1>1 DEF Total
<1>5. Total("loan")' = SumFunctionOnSet([d \in {"loan"} \X Insts |-> Owed(d)'], {"loan"} \X Insts)
  BY <1>1 DEF Total
<1>6. [d \in {"loan"} \X Insts |-> Owed(d)'] = [d \in {"loan"} \X Insts |-> Owed(d)]
  BY <1>2, <1>3
<1> QED BY <1>1, <1>2, <1>4, <1>5, <1>6

(* Until it is approved, an agreement has received nothing.                *)
LEMMA NothingOfAgreement ==
    ASSUME LedgerInv, BooksTyped, ~Approved
    PROVE  /\ \A a \in Ids : payment[a].debt[1] # "agreement"
           /\ \A a \in Ids : Settled(a) => payment[a].debt[1] = "loan"
           /\ \A d \in Debts : d[1] = "agreement" =>
                  /\ paid[d] = 0 /\ state[d] = "OPEN"
                  /\ ReceiptsOf(d) = {}
           /\ LoanReceipts = EarlyReceipts
<1>1. \A a \in Ids : payment[a].debt[1] # "agreement"
  BY DEF LedgerInv, PartsAreOfAgreement
<1>2. \A a \in Ids : Settled(a) => payment[a].debt[1] = "loan"
  BY <1>1 DEF LedgerInv, ReceiptsAreKnown, IsKnown, Owners
<1>3. ASSUME NEW d \in Debts, d[1] = "agreement"
      PROVE  paid[d] = 0 /\ state[d] = "OPEN" /\ ReceiptsOf(d) = {}
  <2>1. paid[d] = 0 /\ state[d] = "OPEN"
    BY <1>3 DEF LedgerInv, BeforeApproval
  <2> QED BY <1>1, <1>3, <2>1 DEF ReceiptsOf
<1>4. LoanReceipts = EarlyReceipts
  BY <1>2 DEF LedgerInv, BeforeApproval, LoanReceipts, EarlyReceipts, InForce
<1> QED BY <1>1, <1>2, <1>3, <1>4

(* No payments, no money.                                                  *)
LEMMA NoMoney == \A f : Money(f, {}) = 0
BY SumEmpty DEF Money

(* So a debt of an agreement that is not approved agrees with its receipts, *)
(* whatever the terms say it owes.                                         *)
LEMMA FreshParts ==
    ASSUME LedgerInv, BooksTyped, ~Approved, UNCHANGED <<paid, payment, settlement, undone>>,
           NEW d \in Debts, d[1] = "agreement", state'[d] = state[d]
    PROVE  Agrees(d)'
<1>1. paid[d] = 0 /\ state[d] = "OPEN" /\ ReceiptsOf(d) = {}
  BY NothingOfAgreement
<1>2. ReceiptsOf(d)' = {}
  BY <1>1 DEF ReceiptsOf, InForce, Settled
<1>3. Money(settlement', ReceiptsOf(d)') = 0
  BY <1>2, NoMoney
<1> QED BY <1>1, <1>3 DEF Agrees, Fits

(* A request for an agreement and its rejection leave the loan as it is.   *)
LEMMA RequestedLedger ==
    ASSUME LedgerInv, BooksTyped, ~Approved,
           UNCHANGED <<paid, state, payment, settlement, undone>>,
           owner'["loan"] = owner["loan"],
           owner'["agreement"].status \in {"none", "REQUESTED"},
           terms'.parts \in Plans \union {0},
           owner'["agreement"].status # "none" => terms'.parts \in Plans
    PROVE  LedgerInv'
<1>1. /\ \A a \in Ids : payment[a].debt[1] # "agreement"
      /\ \A a \in Ids : Settled(a) => payment[a].debt[1] = "loan"
  BY NothingOfAgreement
<1>2. /\ \A a \in Ids : Settled(a)' = Settled(a) /\ InForce(a)' = InForce(a)
      /\ \A d : ReceiptsOf(d)' = ReceiptsOf(d)
      /\ LoanReceipts' = LoanReceipts
  BY DEF Settled, InForce, ReceiptsOf, LoanReceipts
<1>3. ~Approved'
  BY DEF Approved
<1>4. /\ DebtsOf("loan")' = DebtsOf("loan")
      /\ \A d : d[1] = "loan" => Owed(d)' = Owed(d)
  BY LoanOwes
<1>5. /\ DebtsOf("loan") = {"loan"} \X Insts
      /\ \A d \in DebtsOf("loan") : d[1] = "loan" /\ Agrees(d)
  BY DebtsOfOwner, AgreeAll DEF LedgerInv, DebtsAgree, BooksTyped, Owners
<1>6. \A d \in DebtsOf("agreement")' : d \in Debts /\ d[1] = "agreement"
  <2>1. DebtsOf("agreement")' = {"agreement"} \X (1..terms'.parts)
    BY DEF DebtsOf
  <2>2. 1..terms'.parts \subseteq UNION {1..n : n \in Plans}
    <3> DEFINE n == terms'.parts
    <3>1. n \in Plans \union {0}
      OBVIOUS
    <3> HIDE DEF n
    <3>2. 1..n \subseteq UNION {1..m : m \in Plans}
      BY <3>1
    <3> QED BY <3>2 DEF n
  <2>3. ({"agreement"} \X (1..terms'.parts)) \subseteq ({"agreement"} \X UNION {1..n : n \in Plans})
    BY <2>2
  <2> QED BY <2>1, <2>3 DEF Debts
<1>7. \A o \in Owners : \A d \in DebtsOf(o)' : Agrees(d)'
  <2>1. ASSUME NEW d \in DebtsOf("loan") PROVE Agrees(d)'
    BY <1>2, <1>4, <1>5, <2>1 DEF Agrees, Fits
  <2>2. ASSUME NEW d \in DebtsOf("agreement")' PROVE Agrees(d)'
    BY <1>6, <2>2, FreshParts
  <2> QED BY <1>4, <2>1, <2>2 DEF Owners
<1>8. OwnerFollowsDebts'
  <2>1. owner["agreement"].status \in Stages["agreement"]
    BY DEF BooksTyped, Owners
  <2>2. owner["agreement"].status \in {"none", "REQUESTED"}
    BY <2>1 DEF Approved, Stages
  <2> QED BY <1>4, <2>2 DEF LedgerInv, DebtsAgree, OwnerFollowsDebts
<1>9. ReceiptsAreKnown'
  <2>1. ASSUME NEW b \in Ids PROVE IsKnown(b)'
    <3>1. IsKnown(b)
      BY DEF LedgerInv, ReceiptsAreKnown
    <3>2. Settled(b) => payment[b].debt[1] = "loan"
      BY <1>1
    <3> QED BY <1>2, <3>1, <3>2 DEF IsKnown, DebtsOf
  <2> QED BY <2>1 DEF ReceiptsAreKnown
<1>10. PartsAreOfAgreement' /\ BeforeApproval' /\ PlanStands'
  BY <1>1, <1>2 DEF LedgerInv, PartsAreOfAgreement, BeforeApproval, PlanStands
<1>11. LatestMayGo'
  <2>1. ASSUME NEW b \in Ids, InForce(b)',
               settlement'[b].revision = owner'[payment'[b].debt[1]].revision
        PROVE  Fits(payment[b].debt, paid[payment[b].debt] - settlement[b].applied, settlement[b].before)'
    <3>1. InForce(b) /\ payment[b].debt[1] = "loan"
      BY <1>1, <1>2, <2>1 DEF InForce
    <3>2. settlement[b].revision = owner[payment[b].debt[1]].revision
      BY <2>1, <3>1
    <3>3. Fits(payment[b].debt, paid[payment[b].debt] - settlement[b].applied, settlement[b].before)
      BY <3>1, <3>2 DEF LedgerInv, LatestMayGo
    <3>4. Owed(payment[b].debt)' = Owed(payment[b].debt)
      BY <3>1 DEF Owed
    <3> QED BY <3>3, <3>4 DEF Fits
  <2> QED BY <1>3, <2>1 DEF LatestMayGo
<1>12. LoanIsPaid' /\ FoundCovers'
  BY <1>2, <1>3, <1>4, SumsAreMoney DEF LedgerInv
<1> QED BY <1>7, <1>8, <1>9, <1>10, <1>11, <1>12, AgreeAll DEF LedgerInv, DebtsAgree

-----------------------------------------------------------------------------
(* What is open.                                                           *)

OpenDebts == {d \in DebtsOf("loan") : state[d] # "PAID"}

(* It is a number of cents; with nothing open it is nothing.               *)
LEMMA OutstandingNat ==
    ASSUME LedgerInv, BooksTyped
    PROVE  /\ Outstanding \in Nat
           /\ \A d \in OpenDebts : paid[d] < Amount
           /\ Outstanding > 0 => OpenDebts # {}
<1>1. Outstanding = SumFunctionOnSet([d \in OpenDebts |-> Amount - paid[d]], OpenDebts)
  BY DEF Outstanding, OpenDebts
<1>2. IsFiniteSet(DebtsOf("loan")) /\ \A d \in DebtsOf("loan") : d \in Debts /\ d[1] = "loan"
  BY DebtsOfOwner DEF BooksTyped, Owners
<1>3. IsFiniteSet(OpenDebts) /\ OpenDebts \subseteq DebtsOf("loan")
  BY <1>2, FS_Subset DEF OpenDebts
<1>4. ASSUME NEW d \in OpenDebts PROVE paid[d] < Amount /\ Amount - paid[d] \in Nat
  <2>1. /\ d \in DebtsOf("loan") /\ state[d] # "PAID" /\ d \in Debts /\ d[1] = "loan"
    BY <1>2 DEF OpenDebts
  <2>2. Agrees(d) /\ Owed(d) = Amount
    BY <2>1, AgreeAll, LoanOwes DEF LedgerInv, DebtsAgree, Owners
  <2>3. state[d] \in {"OPEN", "PARTIAL", "AGREED"} /\ paid[d] \in Nat
    BY <2>1 DEF BooksTyped, Statuses
  <2>4. paid[d] < Amount
    BY <2>2, <2>3, AmountAssumption DEF Agrees, Fits
  <2> QED BY <2>3, <2>4, AmountAssumption
<1> DEFINE w == [d \in OpenDebts |-> Amount - paid[d]]
<1>5. \A d \in OpenDebts : w[d] \in Nat
  BY <1>4
<1>6. Outstanding = SumFunctionOnSet(w, OpenDebts)
  BY <1>1
<1> HIDE DEF w
<1>7. Outstanding \in Nat
  BY <1>3, <1>5, <1>6, SumNat
<1>8. OpenDebts = {} => Outstanding = 0
  BY <1>6, SumEmpty
<1> QED BY <1>4, <1>7, <1>8

(* What is open and what is paid is the loan.                              *)
LEMMA OutstandingIsRest ==
    ASSUME LedgerInv, BooksTyped
    PROVE  Outstanding = Total("loan") - SumFunctionOnSet(paid, DebtsOf("loan"))
<1> DEFINE L == DebtsOf("loan")
           u == [d \in L |-> Amount - paid[d]]
           w == [d \in OpenDebts |-> Amount - paid[d]]
           v == [d \in L |-> Owed(d)]
<1>1. IsFiniteSet(L) /\ \A d \in L : d \in Debts /\ d[1] = "loan"
  BY DebtsOfOwner DEF BooksTyped, Owners
<1>2. \A d \in L : /\ paid[d] \in Nat /\ paid[d] \in Int /\ Owed(d) = Amount /\ Agrees(d)
                   /\ Amount \in Int
  BY <1>1, AgreeAll, LoanOwes, AmountAssumption DEF LedgerInv, DebtsAgree, BooksTyped, Owners
<1>3. \A d \in L : u[d] \in Int /\ v[d] \in Int /\ u[d] = v[d] - paid[d]
  BY <1>2
<1>4. \A d \in L \ OpenDebts : u[d] = 0
  <2>1. ASSUME NEW d \in L \ OpenDebts PROVE Amount - paid[d] = 0
    <3>1. paid[d] = Amount
      BY <1>2 DEF OpenDebts, Agrees, Fits
    <3> QED BY <3>1, <1>2
  <2> QED BY <2>1
<1>5. OpenDebts \subseteq L /\ IsFiniteSet(OpenDebts)
  BY <1>1, FS_Subset DEF OpenDebts
<1>6. \A d \in OpenDebts : w[d] = u[d]
  BY <1>5
<1>7. Outstanding = SumFunctionOnSet(w, OpenDebts) /\ Total("loan") = SumFunctionOnSet(v, L)
  BY DEF Outstanding, OpenDebts, Total
<1> HIDE DEF u, v, w, L
<1>8. SumFunctionOnSet(w, OpenDebts) = SumFunctionOnSet(u, OpenDebts)
  BY <1>5, <1>6, SumSame
<1>9. SumFunctionOnSet(u, OpenDebts) = SumFunctionOnSet(u, L)
  BY <1>1, <1>3, <1>4, <1>5, SumOfPart
<1>10. SumFunctionOnSet(u, L) = SumFunctionOnSet(v, L) - SumFunctionOnSet(paid, L)
  BY <1>1, <1>2, <1>3, SumMinus
<1> QED BY <1>7, <1>8, <1>9, <1>10 DEF L

(* The total is a number of cents.                                         *)
LEMMA TotalInt == ASSUME BooksTyped PROVE Total("loan") \in Int
<1> DEFINE v == [d \in DebtsOf("loan") |-> Owed(d)]
<1>1. IsFiniteSet(DebtsOf("loan")) /\ \A d \in DebtsOf("loan") : d \in Debts
  BY DebtsOfOwner DEF BooksTyped, Owners
<1>2. \A d \in DebtsOf("loan") : v[d] \in Int
  BY <1>1, OwedInt
<1>3. Total("loan") = SumFunctionOnSet(v, DebtsOf("loan"))
  BY DEF Total
<1> HIDE DEF v
<1> QED BY <1>1, <1>2, <1>3, SumInt

(* The approval keeps the ledger in order: what it finds open, with what   *)
(* was received before, is the loan.                                       *)
LEMMA ApprovedLedger ==
    ASSUME LedgerInv, BooksTyped, Approve
    PROVE  LedgerInv' /\ BooksTyped'
<1>1. /\ owner["agreement"].status = "REQUESTED" /\ Outstanding > 0
      /\ terms' = [terms EXCEPT !.found = Outstanding]
      /\ state' = [d \in Debts |-> IF d[1] = "loan" /\ state[d] # "PAID" THEN "AGREED"
                                   ELSE state[d]]
      /\ owner' = [loan |-> [status |-> "RESTRUCTURED", revision |-> owner["loan"].revision + 1],
                   agreement |-> [status |-> "APPROVED",
                                  revision |-> owner["agreement"].revision + 1]]
      /\ UNCHANGED <<day, paid, rejected, payment, settlement, undone>>
  BY DEF Approve, StillAsked, books
<1>2. ~Approved
  BY <1>1 DEF Approved
<1>3. /\ owner'["loan"].status = "RESTRUCTURED" /\ owner'["agreement"].status = "APPROVED"
      /\ owner'["loan"].revision = owner["loan"].revision + 1
      /\ Approved'
  BY <1>1 DEF Approved
<1>4. /\ terms'.found = Outstanding /\ terms'.parts = terms.parts /\ terms.parts \in Plans
      /\ terms.parts \in Nat \ {0}
  <2>1. terms.parts \in Plans
    BY <1>1 DEF LedgerInv, PlanStands
  <2>2. terms'.found = Outstanding /\ terms'.parts = terms.parts
    BY <1>1 DEF BooksTyped
  <2> QED BY <2>1, <2>2, PlansAssumption
<1>5. /\ \A a \in Ids : payment[a].debt[1] # "agreement"
      /\ \A a \in Ids : Settled(a) => payment[a].debt[1] = "loan"
      /\ \A d \in Debts : d[1] = "agreement" => paid[d] = 0 /\ state[d] = "OPEN"
      /\ LoanReceipts = EarlyReceipts
  BY <1>2, NothingOfAgreement
<1>6. /\ \A a \in Ids : Settled(a)' = Settled(a) /\ InForce(a)' = InForce(a)
      /\ \A d : ReceiptsOf(d)' = ReceiptsOf(d)
      /\ LoanReceipts' = LoanReceipts /\ EarlyReceipts' = EarlyReceipts
  BY <1>1 DEF Settled, InForce, ReceiptsOf, LoanReceipts, EarlyReceipts
<1>7. /\ DebtsOf("loan")' = DebtsOf("loan") /\ Total("loan")' = Total("loan")
      /\ \A d : d[1] = "loan" => Owed(d)' = Owed(d) /\ Owed(d) = Amount
  BY LoanOwes
<1>8. /\ DebtsOf("agreement")' = DebtsOf("agreement")
      /\ <<"agreement", 1>> \in DebtsOf("agreement")
  BY <1>4 DEF DebtsOf
<1>9. /\ \A d \in DebtsOf("loan") : d \in Debts /\ d[1] = "loan" /\ Agrees(d)
      /\ \A d \in DebtsOf("agreement") : d \in Debts /\ d[1] = "agreement"
  BY DebtsOfOwner, AgreeAll DEF LedgerInv, DebtsAgree, BooksTyped, Owners
<1>10. /\ Outstanding \in Nat
       /\ \A d \in OpenDebts : paid[d] < Amount
       /\ OpenDebts # {}
  BY <1>1, OutstandingNat
<1>11. \A o \in Owners : \A d \in DebtsOf(o)' : Agrees(d)'
  <2>1. ASSUME NEW d \in DebtsOf("loan") PROVE Agrees(d)'
    <3>1. d \in Debts /\ d[1] = "loan" /\ Agrees(d) /\ paid'[d] = paid[d]
      BY <1>1, <1>9
    <3>2. paid'[d] = Money(settlement', ReceiptsOf(d)')
      BY <1>1, <1>6, <3>1 DEF Agrees
    <3>3. CASE state[d] = "PAID"
      <4>1. state'[d] = "PAID" /\ Owed(d)' = Owed(d)
        BY <1>1, <1>7, <3>1, <3>3
      <4> QED BY <3>1, <3>2, <3>3, <4>1 DEF Agrees, Fits
    <3>4. CASE state[d] # "PAID"
      <4>1. state'[d] = "AGREED" /\ Owed(d)' = Amount
        BY <1>1, <1>7, <3>1, <3>4
      <4>2. paid'[d] < Owed(d)'
        BY <1>10, <3>1, <3>4, <4>1 DEF OpenDebts
      <4> QED BY <3>2, <4>1, <4>2 DEF Agrees, Fits
    <3> QED BY <3>3, <3>4
  <2>2. ASSUME NEW d \in DebtsOf("agreement") PROVE Agrees(d)'
    <3>1. d \in Debts /\ d[1] = "agreement" /\ state'[d] = state[d]
      BY <1>1, <1>9
    <3> QED BY <1>1, <1>2, <3>1, FreshParts
  <2> QED BY <1>7, <1>8, <2>1, <2>2 DEF Owners
<1>12. OwnerFollowsDebts'
  <2>1. PICK d \in OpenDebts : TRUE
    BY <1>10
  <2>2. d \in DebtsOf("loan") /\ state'[d] # "PAID"
    BY <1>1, <1>9 DEF OpenDebts
  <2>3. state'[<<"agreement", 1>>] # "PAID"
    BY <1>1, <1>5, <1>8, <1>9
  <2> QED BY <1>3, <1>7, <1>8, <2>2, <2>3 DEF OwnerFollowsDebts
<1>13. ReceiptsAreKnown'
  <2>1. ASSUME NEW b \in Ids PROVE IsKnown(b)'
    <3>1. IsKnown(b) /\ payment'[b] = payment[b] /\ settlement'[b] = settlement[b] /\ undone'[b] = undone[b]
      BY <1>1 DEF LedgerInv, ReceiptsAreKnown
    <3>2. Settled(b) => payment[b].debt[1] = "loan"
      BY <1>5
    <3>3. Settled(b) => settlement[b].revision <= owner'["loan"].revision
      <4>1. settlement[b].revision \in Nat /\ owner["loan"].revision \in Nat
        BY DEF BooksTyped, Owners
      <4>2. Settled(b) => settlement[b].revision <= owner["loan"].revision
        BY <3>1, <3>2 DEF IsKnown
      <4> QED BY <1>3, <4>1, <4>2
    <3> QED BY <1>3, <1>6, <3>1, <3>2, <3>3 DEF IsKnown, DebtsOf
  <2> QED BY <2>1 DEF ReceiptsAreKnown
<1>14. PartsAreOfAgreement' /\ BeforeApproval' /\ PlanStands'
  BY <1>1, <1>3, <1>4, <1>5 DEF PartsAreOfAgreement, BeforeApproval, PlanStands
<1>15. LatestMayGo'
  <2>1. ASSUME NEW b \in Ids, InForce(b)' PROVE settlement'[b].revision # owner'[payment'[b].debt[1]].revision
    <3>1. InForce(b) /\ Settled(b) /\ payment[b].debt[1] = "loan"
      BY <1>5, <1>6, <2>1 DEF InForce
    <3>2. settlement[b].revision \in Nat /\ owner["loan"].revision \in Nat
      BY DEF BooksTyped, Owners
    <3>3. settlement[b].revision <= owner["loan"].revision
      BY <3>1 DEF LedgerInv, ReceiptsAreKnown, IsKnown
    <3> QED BY <1>1, <1>3, <3>1, <3>2, <3>3
  <2> QED BY <2>1 DEF LatestMayGo
<1>16. LoanIsPaid' /\ FoundCovers'
  <2>1. SumFunctionOnSet(paid, DebtsOf("loan")) = Money(settlement, LoanReceipts)
    BY SumsAreMoney DEF LedgerInv
  <2>2. LoanIsPaid'
    BY <1>1, <1>6, <1>7, <2>1, SumsAreMoney
  <2>3. Outstanding = Total("loan") - Money(settlement, EarlyReceipts)
    BY <1>5, <2>1, OutstandingIsRest
  <2>4. Money(settlement, EarlyReceipts) \in Nat
    <3>1. \A b \in EarlyReceipts : settlement[b].applied \in Nat
      BY DEF BooksTyped, EarlyReceipts
    <3> QED BY <3>1, MoneyNat, ReceiptsArePayments
  <2>5. Total("loan") \in Int
    BY TotalInt
  <2>6. Outstanding + Money(settlement, EarlyReceipts) = Total("loan")
    BY <2>3, <2>4, <2>5
  <2>7. FoundCovers'
    BY <1>1, <1>4, <1>6, <1>7, <2>6, SumsAreMoney
  <2> QED BY <2>2, <2>7
<1>17. BooksTyped'
  <2>1. terms' \in [asked : Nat, found : Nat, parts : Plans \union {0}]
    BY <1>1, <1>10 DEF BooksTyped
  <2>2. state' \in [Debts -> Statuses]
    BY <1>1 DEF BooksTyped, Statuses
  <2>3. /\ owner' \in [Owners -> [status : Stages.loan \union Stages.agreement, revision : Nat]]
        /\ \A o \in Owners : owner'[o].status \in Stages[o]
    <3>1. owner["loan"].revision + 1 \in Nat /\ owner["agreement"].revision + 1 \in Nat
      BY DEF BooksTyped, Owners
    <3>2. \A o \in Owners : owner'[o].status \in Stages[o]
      BY <1>3 DEF Owners, Stages
    <3>3. owner' \in [Owners -> [status : Stages.loan \union Stages.agreement, revision : Nat]]
      BY <1>1, <3>1 DEF Owners, Stages
    <3> QED BY <3>2, <3>3
  <2> QED BY <1>1, <2>1, <2>2, <2>3 DEF BooksTyped
<1> QED BY <1>11, <1>12, <1>13, <1>14, <1>15, <1>16, <1>17, AgreeAll DEF LedgerInv, DebtsAgree

(* All parts but the last are the same, and the last is what is left: they *)
(* add up to the debt, however it divides.                                 *)
LEMMA PartsAddUp ==
    ASSUME NEW total \in Int, NEW n \in Nat \ {0}, NEW w,
           \A d \in {"agreement"} \X (1..n) : w[d] = Part(total, n, d[2])
    PROVE  SumFunctionOnSet(w, {"agreement"} \X (1..n)) = total
<1> DEFINE base   == (2 * total + n) \div (2 * n)
           P(m)   == {"agreement"} \X (1..m)
           S(m)   == SumFunctionOnSet(w, P(m))
           Bad    == {m \in Nat : m < n /\ S(m) # m * base}
<1>1. base \in Int
  <2>1. 2 * total + n \in Int /\ 2 * n \in Nat \ {0}
    OBVIOUS
  <2> QED BY <2>1
<1>2. \A k \in 1..n : w[<<"agreement", k>>] = IF k < n THEN base ELSE total - (n - 1) * base
  <2>1. ASSUME NEW k \in 1..n
        PROVE  w[<<"agreement", k>>] = IF k < n THEN base ELSE total - (n - 1) * base
    <3>1. <<"agreement", k>> \in {"agreement"} \X (1..n) /\ <<"agreement", k>>[2] = k
      BY <2>1
    <3>2. w[<<"agreement", k>>] = Part(total, n, k)
      BY <3>1
    <3> QED BY <3>2 DEF Part
  <2> QED BY <2>1
<1> HIDE DEF base
<1>3. \A d \in P(n) : w[d] \in Int
  <2>1. (n - 1) * base \in Int /\ total - (n - 1) * base \in Int
    BY <1>1
  <2>2. ASSUME NEW d \in P(n) PROVE w[d] \in Int
    <3>1. PICK k \in 1..n : d = <<"agreement", k>>
      BY <2>2
    <3>2. w[d] \in {base, total - (n - 1) * base}
      BY <1>2, <3>1
    <3> QED BY <1>1, <2>1, <3>2
  <2> QED BY <2>2
<1>4. ASSUME NEW m \in 1..n
      PROVE  S(m) = w[<<"agreement", m>>] + S(m - 1) /\ S(m - 1) \in Int
  <2>1. P(m) = P(m - 1) \union {<<"agreement", m>>}
    BY <1>4
  <2>2. <<"agreement", m>> \notin P(m - 1)
    BY <1>4
  <2>3. IsFiniteSet(P(m - 1))
    <3>1. IsFiniteSet({"agreement"})
      BY FS_EmptySet, FS_AddElement, FS_Singleton
    <3>2. m - 1 \in Int /\ 1 \in Int
      BY <1>4
    <3>3. IsFiniteSet(1..(m - 1))
      BY <3>2, FS_Interval
    <3> QED BY <3>1, <3>3, FS_Product
  <2>4. P(m) \subseteq P(n)
    BY <1>4
  <2>5. \A d \in P(m - 1) \union {<<"agreement", m>>} : w[d] \in Int
    BY <1>3, <2>1, <2>4
  <2> HIDE DEF P
  <2>6. S(m) = w[<<"agreement", m>>] + S(m - 1)
    BY <2>1, <2>2, <2>3, <2>5, SumGrows
  <2>7. S(m - 1) \in Int
    BY <2>3, <2>5, SumInt
  <2> QED BY <2>6, <2>7
<1>5. S(0) = 0
  <2>1. P(0) = {}
    OBVIOUS
  <2> HIDE DEF P
  <2> QED BY <2>1, SumEmpty
<1> HIDE DEF S, P
<1>6. ASSUME Bad # {} PROVE FALSE
  <2>1. PICK m \in Bad : \A k \in Bad : m <= k
    <3>1. Bad \subseteq Nat
      OBVIOUS
    <3> QED BY <1>6, <3>1, LeastNumber
  <2>2. m \in Nat /\ m < n /\ S(m) # m * base
    OBVIOUS
  <2>3. m # 0
    BY <1>1, <1>5, <2>2
  <2>4. m - 1 \in Nat /\ m - 1 < n /\ m - 1 \notin Bad
    <3>1. m - 1 \in Nat /\ m - 1 < n /\ ~(m <= m - 1)
      BY <2>2, <2>3
    <3> HIDE DEF Bad
    <3> QED BY <2>1, <3>1
  <2>5. S(m - 1) = (m - 1) * base
    BY <2>4
  <2>6. w[<<"agreement", m>>] = base /\ S(m) = base + S(m - 1)
    <3>1. m \in 1..n
      BY <2>2, <2>3
    <3> QED BY <1>2, <1>4, <2>2, <3>1
  <2>7. m * base = base + (m - 1) * base
    BY <1>1, <2>2
  <2> QED BY <2>2, <2>5, <2>6, <2>7
<1>7. S(n - 1) = (n - 1) * base
  <2>1. n - 1 \in Nat /\ n - 1 < n
    OBVIOUS
  <2>2. Bad = {}
    BY <1>6
  <2> QED BY <2>1, <2>2
<1>8. S(n) = (total - (n - 1) * base) + S(n - 1)
  <2>1. n \in 1..n /\ ~(n < n)
    OBVIOUS
  <2>2. w[<<"agreement", n>>] = total - (n - 1) * base
    BY <1>2, <2>1
  <2>3. S(n) = w[<<"agreement", n>>] + S(n - 1)
    BY <1>4, <2>1
  <2> QED BY <2>2, <2>3
<1>9. (n - 1) * base \in Int
  BY <1>1
<1>10. S(n) = total
  BY <1>7, <1>8, <1>9
<1> QED BY <1>10 DEF S, P

(* So the parts of an approved agreement are what the approval found.      *)
LEMMA AgreementIsFound == ASSUME LedgerInv, BooksTyped, Approved PROVE Total("agreement") = terms.found
<1>1. terms.parts \in Nat \ {0} /\ terms.found \in Int
  <2>1. terms.parts \in Plans
    BY DEF LedgerInv, PlanStands, Approved
  <2>2. terms.parts \in Nat \ {0}
    BY <2>1, PlansAssumption
  <2>3. terms.found \in Nat
    BY DEF BooksTyped
  <2> QED BY <2>2, <2>3
<1>2. DebtsOf("agreement") = {"agreement"} \X (1..terms.parts)
  BY DEF DebtsOf
<1> DEFINE w == [d \in DebtsOf("agreement") |-> Owed(d)]
<1>3. ASSUME NEW d \in {"agreement"} \X (1..terms.parts)
      PROVE  w[d] = Part(terms.found, terms.parts, d[2])
  <2>1. d[1] = "agreement" /\ d[2] \in 1..terms.parts
    BY <1>3
  <2>2. d[2] <= terms.parts
    BY <1>1, <2>1
  <2>3. w[d] = Owed(d)
    BY <1>2
  <2> QED BY <2>1, <2>2, <2>3 DEF Owed
<1>4. Total("agreement") = SumFunctionOnSet(w, DebtsOf("agreement"))
  BY DEF Total
<1> HIDE DEF w
<1> QED BY <1>1, <1>2, <1>3, <1>4, PartsAddUp

(* And with what the loan received before, they are the loan.              *)
LEMMA Covered == ASSUME LedgerInv, BooksTyped PROVE AgreementCoversDebt
<1>1. EarlyReceipts = {a \in Ids : InForce(a) /\ settlement[a].ownerBefore = "ACTIVE"}
  BY DEF EarlyReceipts
<1>2. Received(EarlyReceipts)
          = Received({a \in Ids : InForce(a) /\ settlement[a].ownerBefore = "ACTIVE"})
  BY <1>1
<1>3. Approved => Total("agreement") = terms.found
  BY AgreementIsFound
<1>4. Approved => terms.found + Received(EarlyReceipts) = Total("loan")
  BY DEF LedgerInv, FoundCovers
<1> QED BY <1>2, <1>3, <1>4 DEF AgreementCoversDebt, Approved

-----------------------------------------------------------------------------
(* The tables of calls.                                                    *)

PaymentRows == [debt : Debts \union {NoDebt}, on : 0..LastDay, amount : Nat,
                attempt : Attempts, status : {"pending", "approved"},
                mark : Marks, bound : BOOLEAN]
OrderRows   == [status : {"none", "open", "paid"}, amount : Receivable \union {0}, on : 0..LastDay]
RequestRows == [pc : {"idle", "inserting", "calling", "created", "stalled"},
                debt : Debts \union {NoDebt}, amount : Nat,
                id : Ids \union {0}, holds : BOOLEAN, mark : Marks]
HookRows    == [pc : {"idle", "asking", "deciding"}, id : Ids \union {0},
                seen : {"none", "pending", "approved"}]

(* They are typed when their rows are.                                     *)
LEMMA CallsRows ==
    /\ CallsTyped <=> /\ payment \in [Ids -> PaymentRows] /\ order \in [Ids -> OrderRows]
                      /\ event \in [Ids -> 0..Notices]
                      /\ request \in [Requests -> RequestRows] /\ hook \in HookRows
    /\ CallsTyped' <=> /\ payment' \in [Ids -> PaymentRows] /\ order' \in [Ids -> OrderRows]
                       /\ event' \in [Ids -> 0..Notices]
                       /\ request' \in [Requests -> RequestRows] /\ hook' \in HookRows
BY DEF CallsTyped, PaymentRows, OrderRows, RequestRows, HookRows

(* A notification the webhook works on is one that is not processed.       *)
HookHasEvent == hook.pc # "idle" => event[hook.id] > 0

(* Columns of a row.                                                       *)
LEMMA RowTyped ==
    ASSUME NEW d \in Debts, NEW on \in 0..LastDay, NEW amount \in Nat
    PROVE  Row(d, on, amount, "PENDING") \in PaymentRows
BY DEF Row, PaymentRows, Attempts, Marks

(* What is written keeps its type.                                         *)
LEMMA ColumnsTyped ==
    ASSUME NEW row \in PaymentRows, NEW attempt \in Attempts, NEW status \in {"pending", "approved"},
           NEW mark \in Marks, NEW bound \in BOOLEAN
    PROVE  Columns(row, attempt, status, mark, bound) \in PaymentRows
BY DEF Columns, PaymentRows

(* A call is of a debt and a payment.                                      *)
LEMMA CallingTyped ==
    /\ \A pc \in {"idle", "inserting", "calling", "created", "stalled"},
          d \in Debts \union {NoDebt}, amount \in Nat, a \in Ids \union {0},
          holds \in BOOLEAN, mark \in Marks :
             Calling(pc, d, amount, a, holds, mark) \in RequestRows
    /\ Idle \in RequestRows
    /\ Calling("stalled", NoDebt, 0, 0, FALSE, "none") \in RequestRows
<1>1. "none" \in Marks
  BY DEF Marks
<1> QED BY <1>1 DEF Calling, Idle, RequestRows

(* Fields of a typed row.                                                  *)
LEMMA PaymentFields ==
    ASSUME CallsTyped, NEW a \in Ids
    PROVE  /\ payment[a] \in PaymentRows
           /\ payment[a].debt \in Debts \union {NoDebt} /\ payment[a].on \in 0..LastDay
           /\ payment[a].amount \in Nat /\ payment[a].attempt \in Attempts
           /\ payment[a].status \in {"pending", "approved"}
           /\ payment[a].mark \in Marks /\ payment[a].bound \in BOOLEAN
<1>1. payment[a] \in PaymentRows
  BY CallsRows
<1> QED BY <1>1 DEF PaymentRows

(* Fields of a typed request.                                              *)
LEMMA RequestFields ==
    ASSUME CallsTyped, NEW r \in Requests
    PROVE  /\ request[r].debt \in Debts \union {NoDebt} /\ request[r].amount \in Nat
           /\ request[r].id \in Ids \union {0} /\ request[r].holds \in BOOLEAN
           /\ request[r].mark \in Marks
<1>1. request[r] \in RequestRows
  BY CallsRows
<1> QED BY <1>1 DEF RequestRows

(* Writing a row keeps the debts and the type of the table.                *)
LEMMA WriteTyped ==
    ASSUME CallsTyped, NEW a \in Ids, NEW attempt \in Attempts,
           NEW status \in {"pending", "approved"}, NEW mark \in Marks, NEW bound \in BOOLEAN,
           payment' = [payment EXCEPT ![a] = Columns(payment[a], attempt, status, mark, bound)]
    PROVE  /\ payment' \in [Ids -> PaymentRows]
           /\ \A b \in Ids : payment'[b].debt = payment[b].debt
<1>1. payment \in [Ids -> PaymentRows]
  BY CallsRows
<1>2. Columns(payment[a], attempt, status, mark, bound) \in PaymentRows
  BY PaymentFields, ColumnsTyped
<1>3. Columns(payment[a], attempt, status, mark, bound).debt = payment[a].debt
  BY Cells
<1> QED BY <1>1, <1>2, <1>3

(* So does a new row, but for its own debt.                                *)
LEMMA InsertTyped ==
    ASSUME CallsTyped, BooksTyped, NEW a \in Ids, NextId(a), NEW d \in Debts, NEW amount \in Nat,
           payment' = [payment EXCEPT ![a] = Row(d, day, amount, "PENDING")],
           d[1] = "agreement" => Approved /\ d \in DebtsOf("agreement")
    PROVE  /\ payment' \in [Ids -> PaymentRows]
           /\ \A b \in Ids :
                  \/ payment'[b].debt = payment[b].debt
                  \/ /\ payment[b].debt[1] \notin Owners
                     /\ payment'[b].debt[1] = "agreement" =>
                            Approved /\ payment'[b].debt \in DebtsOf("agreement")
<1>1. payment \in [Ids -> PaymentRows]
  BY CallsRows
<1>2. day \in 0..LastDay
  BY BoundsAssumption DEF BooksTyped
<1>3. Row(d, day, amount, "PENDING") \in PaymentRows /\ Row(d, day, amount, "PENDING").debt = d
  BY <1>2, RowTyped, Rows
<1>4. payment[a].debt[1] \notin Owners
  BY Rows DEF NextId, Owners
<1> QED BY <1>1, <1>3, <1>4

(* A request that moves.                                                   *)
LEMMA RequestTyped ==
    ASSUME CallsTyped, NEW r, NEW x \in RequestRows, request' = [request EXCEPT ![r] = x]
    PROVE  request' \in [Requests -> RequestRows]
BY CallsRows

(* A column that is written holds the new value or the one it had.         *)
LEMMA WrittenIs == \A x, y, z : Written(x, y, z) \in {x, z}
BY DEF Written

(* The obligation of an installment is a number of cents.                  *)
LEMMA ObligationNat ==
    ASSUME BooksTyped, NEW d, NEW on PROVE Obligation(d, on) \in Nat
<1> DEFINE R == {a \in Ids : /\ Settled(a) /\ payment[a].debt = d
                             /\ payment[a].on <= on /\ ~(undone[a] \in 1..on)}
<1>1. R \in SUBSET Ids
  OBVIOUS
<1>2. Applied(d, on) = Money(settlement, R)
  BY ReceivedIsMoney DEF Applied
<1> HIDE DEF R
<1>3. Applied(d, on) \in Nat
  <2>1. \A b \in R : settlement[b].applied \in Nat
    BY <1>1 DEF BooksTyped
  <2> QED BY <1>1, <1>2, <2>1, MoneyNat
<1> QED BY <1>3, AmountAssumption DEF Obligation

-----------------------------------------------------------------------------
(* Steps that leave the books alone.                                       *)

MoneyInv == BooksTyped /\ CallsTyped /\ HookHasEvent /\ LedgerInv

(* They keep the ledger when they give no settled payment another debt.    *)
LEMMA BooksStay ==
    ASSUME MoneyInv, UNCHANGED <<day, debts, books>>, CallsTyped', HookHasEvent',
           \A a \in Ids :
               \/ payment'[a].debt = payment[a].debt
               \/ /\ payment[a].debt[1] \notin Owners
                  /\ payment'[a].debt[1] = "agreement" =>
                         Approved /\ payment'[a].debt \in DebtsOf("agreement")
    PROVE  MoneyInv'
<1>1. UNCHANGED <<day, paid, state, owner, terms, rejected, settlement, undone>>
  BY DEF debts, books
<1>2. BooksTyped'
  BY <1>1 DEF MoneyInv, BooksTyped
<1>3. LedgerInv'
  BY <1>1, LedgerStays DEF MoneyInv
<1> QED BY <1>2, <1>3 DEF MoneyInv

(* A request that moves keeps it, with the payments it writes.             *)
LEMMA RequestMoves ==
    ASSUME MoneyInv, NEW r, NEW x \in RequestRows, request' = [request EXCEPT ![r] = x],
           UNCHANGED <<day, debts, books, event, hook>>,
           order' \in [Ids -> OrderRows], payment' \in [Ids -> PaymentRows],
           \A a \in Ids :
               \/ payment'[a].debt = payment[a].debt
               \/ /\ payment[a].debt[1] \notin Owners
                  /\ payment'[a].debt[1] = "agreement" =>
                         Approved /\ payment'[a].debt \in DebtsOf("agreement")
    PROVE  MoneyInv'
<1>1. request' \in [Requests -> RequestRows]
  BY RequestTyped DEF MoneyInv
<1>2. CallsTyped' /\ HookHasEvent'
  BY <1>1, CallsRows DEF MoneyInv, HookHasEvent
<1> QED BY <1>2, BooksStay

(* A request that inserts its row.                                         *)
LEMMA AttemptMoney ==
    ASSUME MoneyInv, NEW r \in Requests, NEW a \in Ids, NextId(a),
           NEW d \in Debts, NEW amount \in Nat,
           payment' = [payment EXCEPT ![a] = Row(d, day, amount, "PENDING")],
           request' = [request EXCEPT ![r] = Calling("calling", d, amount, a, FALSE, "none")],
           UNCHANGED <<day, debts, books, provider, hook>>,
           d[1] = "agreement" => Approved /\ d \in DebtsOf("agreement")
    PROVE  MoneyInv'
<1>1. CallsTyped /\ BooksTyped /\ UNCHANGED <<order, event>>
  BY DEF MoneyInv, provider
<1>2. Calling("calling", d, amount, a, FALSE, "none") \in RequestRows
  BY CallingTyped DEF Marks
<1>3. order' \in [Ids -> OrderRows]
  BY <1>1, CallsRows
<1>4. /\ payment' \in [Ids -> PaymentRows]
      /\ \A b \in Ids :
             \/ payment'[b].debt = payment[b].debt
             \/ /\ payment[b].debt[1] \notin Owners
                /\ payment'[b].debt[1] = "agreement" =>
                       Approved /\ payment'[b].debt \in DebtsOf("agreement")
  BY <1>1, InsertTyped
<1> QED BY <1>1, <1>2, <1>3, <1>4, RequestMoves

(* A request that writes a row it has.                                     *)
LEMMA AnswerMoney ==
    ASSUME MoneyInv, NEW r \in Requests, NEW x \in RequestRows,
           request' = [request EXCEPT ![r] = x],
           NEW a \in Ids, NEW attempt \in Attempts, NEW status \in {"pending", "approved"},
           NEW mark \in Marks, NEW bound \in BOOLEAN,
           payment' = [payment EXCEPT ![a] = Columns(payment[a], attempt, status, mark, bound)],
           UNCHANGED <<day, debts, books, provider, hook>>
    PROVE  MoneyInv'
<1>1. CallsTyped /\ UNCHANGED <<order, event>>
  BY DEF MoneyInv, provider
<1>2. order' \in [Ids -> OrderRows]
  BY <1>1, CallsRows
<1>3. payment' \in [Ids -> PaymentRows] /\ \A b \in Ids : payment'[b].debt = payment[b].debt
  BY <1>1, WriteTyped
<1> QED BY <1>1, <1>2, <1>3, RequestMoves

(* Every step of a request for a charge keeps types and ledger.            *)
LEMMA ChargingMoney ==
    ASSUME IInv, MoneyInv, NEW r \in Requests, Charging(r)
    PROVE  MoneyInv'
<1>0. /\ CallsTyped /\ BooksTyped
      /\ order \in [Ids -> OrderRows] /\ payment \in [Ids -> PaymentRows]
      /\ "none" \in Marks /\ "UNKNOWN" \in Marks /\ "REQUIRED" \in Marks
      /\ "none" \in Attempts /\ "EXPIRED" \in Attempts /\ "SUPERSEDED" \in Attempts
  BY CallsRows DEF MoneyInv, Marks, Attempts
<1>1. ASSUME NEW d \in Debts, Reserve(r, d) PROVE MoneyInv'
  <2>1. PICK a \in Ids :
            /\ NextId(a)
            /\ payment' = [payment EXCEPT ![a] = Row(d, day, Obligation(d, day), "PENDING")]
            /\ request' = [request EXCEPT
                   ![r] = Calling("calling", d, Obligation(d, day), a, FALSE, "none")]
    BY <1>1 DEF Reserve
  <2>2. d[1] = "loan" /\ UNCHANGED <<day, debts, books, provider, hook>>
    BY <1>1 DEF Reserve
  <2>3. Obligation(d, day) \in Nat
    BY <1>0, ObligationNat
  <2> QED BY <2>1, <2>2, <2>3, AttemptMoney
<1>2. ASSUME NEW d \in Debts, ReservePart(r, d) PROVE MoneyInv'
  <2>1. PICK a \in Ids :
            /\ NextId(a)
            /\ payment' = [payment EXCEPT ![a] = Row(d, day, Owed(d) - paid[d], "PENDING")]
            /\ request' = [request EXCEPT
                   ![r] = Calling("calling", d, Owed(d) - paid[d], a, FALSE, "none")]
    BY <1>2 DEF ReservePart
  <2>2. /\ d \in DebtsOf("agreement") /\ Approved /\ Owed(d) > paid[d]
        /\ UNCHANGED <<day, debts, books, provider, hook>>
    BY <1>2 DEF ReservePart, Approved
  <2>3. Owed(d) - paid[d] \in Nat
    <3>1. Owed(d) \in Int /\ paid[d] \in Nat
      BY <1>0, OwedInt DEF BooksTyped
    <3> QED BY <2>2, <3>1
  <2> QED BY <2>1, <2>2, <2>3, AttemptMoney
<1>3. CASE Insert(r)
  <2>1. PICK a \in Ids :
            /\ NextId(a)
            /\ payment' = [payment EXCEPT
                   ![a] = Row(request[r].debt, day, request[r].amount, "PENDING")]
            /\ request' = [request EXCEPT
                   ![r] = Calling("calling", @.debt, @.amount, a, FALSE, "none")]
    BY <1>3 DEF Insert
  <2>2. request' = [request EXCEPT
            ![r] = Calling("calling", request[r].debt, request[r].amount, a, FALSE, "none")]
    BY <2>1
  <2>3. request[r].debt[1] = "loan" /\ UNCHANGED <<day, debts, books, provider, hook>>
    BY <1>3 DEF Insert, IInv, HasRow
  <2>4. request[r].debt \in Debts /\ request[r].amount \in Nat
    BY <1>0, <2>3, RequestFields DEF NoDebt
  <2> QED BY <2>1, <2>2, <2>3, <2>4, AttemptMoney
<1>4. ASSUME NEW d \in Debts, Reuse(r, d) PROVE MoneyInv'
  <2>1. PICK a \in Pending(d) : request' = [request EXCEPT
            ![r] = Calling("calling", d, Obligation(d, day), a, TRUE, payment[a].mark)]
    BY <1>4 DEF Reuse
  <2>2. a \in Ids /\ UNCHANGED <<day, debts, payment, books, provider, hook>>
    BY <1>4 DEF Reuse, Pending
  <2>3. Obligation(d, day) \in Nat /\ payment[a].mark \in Marks
    BY <1>0, <2>2, ObligationNat, PaymentFields
  <2>4. Calling("calling", d, Obligation(d, day), a, TRUE, payment[a].mark) \in RequestRows
    BY <2>2, <2>3, CallingTyped
  <2>5. UNCHANGED <<payment, order, event>>
    BY <2>2 DEF provider
  <2> QED BY <1>0, <2>1, <2>2, <2>4, <2>5, RequestMoves
<1>5. CASE (\E d \in Debts : ReserveStalls(r, d)) \/ AnswerStalls(r)
  <2>1. /\ request' = [request EXCEPT ![r] = Calling("stalled", NoDebt, 0, 0, FALSE, "none")]
        /\ UNCHANGED <<day, debts, payment, books, provider, hook>>
    BY <1>5 DEF ReserveStalls, AnswerStalls, Stall
  <2>2. UNCHANGED <<payment, order, event>>
    BY <2>1 DEF provider
  <2> QED BY <1>0, <2>1, <2>2, CallingTyped, RequestMoves
<1>6. ASSUME NEW d \in Debts, Retire(r, d) PROVE MoneyInv'
  <2>1. PICK a \in Pending(d) :
            payment' = [payment EXCEPT ![a] =
                Columns(@, IF @.on < day THEN "EXPIRED" ELSE "SUPERSEDED",
                        @.status, @.mark, @.bound)]
    BY <1>6 DEF Retire
  <2>2. /\ a \in Ids
        /\ request' = [request EXCEPT
               ![r] = Calling("inserting", d, Obligation(d, day), 0, FALSE, "none")]
        /\ UNCHANGED <<day, debts, books, provider, hook>>
    BY <1>6 DEF Retire, Pending
  <2>3. Calling("inserting", d, Obligation(d, day), 0, FALSE, "none") \in RequestRows
    BY <1>0, ObligationNat, CallingTyped
  <2>4. PICK attempt \in Attempts : payment' = [payment EXCEPT ![a] =
            Columns(payment[a], attempt, payment[a].status, payment[a].mark, payment[a].bound)]
    BY <1>0, <2>1
  <2>5. /\ payment[a].status \in {"pending", "approved"} /\ payment[a].mark \in Marks
        /\ payment[a].bound \in BOOLEAN
    BY <1>0, <2>2, PaymentFields
  <2> QED BY <2>2, <2>3, <2>4, <2>5, AnswerMoney
<1>7. CASE ProviderCreates(r)
  <2> DEFINE a == request[r].id
             x == Calling("created", request[r].debt, request[r].amount, request[r].id,
                          request[r].holds, request[r].mark)
             o == IF order[a] = NoOrder THEN OpenOrder ELSE order[a]
  <2>1. /\ request[r].pc = "calling"
        /\ order' = [order EXCEPT ![a] = o] /\ request' = [request EXCEPT ![r] = x]
        /\ UNCHANGED <<day, debts, payment, books, event, hook>>
    BY <1>7 DEF ProviderCreates
  <2>2. a \in Ids
    BY <2>1 DEF IInv, HasRow
  <2>3. x \in RequestRows
    BY <1>0, RequestFields, CallingTyped
  <2>4. o \in OrderRows
    <3>1. OpenOrder \in OrderRows
      BY BoundsAssumption DEF OpenOrder, OrderRows
    <3> QED BY <1>0, <2>2, <3>1
  <2> HIDE DEF o, x
  <2>5. order' \in [Ids -> OrderRows]
    BY <1>0, <2>1, <2>4
  <2> QED BY <1>0, <2>1, <2>3, <2>5, RequestMoves
<1>8. ASSUME NEW a, a = request[r].id, request[r].pc \in {"calling", "created"}
      PROVE  /\ a \in Ids
             /\ payment[a].attempt \in Attempts /\ payment[a].status \in {"pending", "approved"}
             /\ payment[a].mark \in Marks /\ payment[a].bound \in BOOLEAN
  <2>1. a \in Ids
    BY <1>8 DEF IInv, HasRow
  <2> QED BY <1>0, <2>1, PaymentFields
<1>9. CASE Bind(r)
  <2> DEFINE a    == request[r].id
             end  == IF request[r].debt[1] = "loan" THEN payment[a].attempt ELSE "none"
             mark == Written(payment[a].mark, request[r].mark, "none")
  <2>1. /\ payment' = [payment EXCEPT ![a] = Columns(payment[a], end, "pending", mark, TRUE)]
        /\ request' = [request EXCEPT ![r] = Idle]
        /\ request[r].pc = "created"
        /\ UNCHANGED <<day, debts, books, provider, hook>>
    BY <1>9 DEF Bind, End
  <2>2. a \in Ids /\ end \in Attempts /\ mark \in Marks
    BY <1>0, <1>8, <2>1, WrittenIs
  <2> HIDE DEF a, end, mark
  <2> QED BY <2>1, <2>2, CallingTyped, AnswerMoney
<1>10. CASE Preserve(r)
  <2> DEFINE a == request[r].id
  <2>1. /\ payment' = [payment EXCEPT ![a] =
               Columns(payment[a], payment[a].attempt, payment[a].status, "REQUIRED", TRUE)]
        /\ request' = [request EXCEPT ![r] = Idle]
        /\ request[r].pc = "created"
        /\ UNCHANGED <<day, debts, books, provider, hook>>
    BY <1>10 DEF Preserve, End
  <2> QED BY <1>0, <1>8, <2>1, CallingTyped, AnswerMoney
<1>11. CASE CallFails(r)
  <2> DEFINE a == request[r].id
  <2>1. PICK mark \in Marks :
            payment' = [payment EXCEPT ![a] =
                Columns(@, @.attempt, @.status, Written(@.mark, request[r].mark, mark), @.bound)]
    BY <1>0, <1>11 DEF CallFails
  <2>2. /\ request' = [request EXCEPT ![r] = Idle]
        /\ request[r].pc \in {"calling", "created"}
        /\ UNCHANGED <<day, debts, books, provider, hook>>
    BY <1>11 DEF CallFails, End
  <2> DEFINE m == Written(payment[a].mark, request[r].mark, mark)
  <2>3. m \in Marks
    BY <1>8, <2>2, WrittenIs
  <2>4. payment' = [payment EXCEPT ![a] =
            Columns(payment[a], payment[a].attempt, payment[a].status, m, payment[a].bound)]
    BY <2>1
  <2> HIDE DEF m
  <2> QED BY <1>8, <2>2, <2>3, <2>4, CallingTyped, AnswerMoney
<1> QED BY <1>1, <1>2, <1>3, <1>4, <1>5, <1>6, <1>7, <1>9, <1>10, <1>11 DEF Charging

(* The webhook writes a row and decides; the books are as they were.       *)
LEMMA DecisionMoney ==
    ASSUME MoneyInv, NEW a \in Ids, NEW attempt \in Attempts, NEW status \in {"pending", "approved"},
           NEW mark \in Marks,
           payment' = [payment EXCEPT ![a] =
                           Columns(payment[a], attempt, status, mark, payment[a].bound)],
           event' \in [Ids -> 0..Notices], hook' \in HookRows, HookHasEvent',
           UNCHANGED <<day, debts, books, order, request>>
    PROVE  MoneyInv'
<1>1. CallsTyped /\ payment[a].bound \in BOOLEAN
  BY PaymentFields DEF MoneyInv
<1>2. payment' \in [Ids -> PaymentRows] /\ \A b \in Ids : payment'[b].debt = payment[b].debt
  BY <1>1, WriteTyped
<1>3. CallsTyped'
  BY <1>1, <1>2, CallsRows
<1> QED BY <1>2, <1>3, BooksStay

(* A notification that was not processed is, and the webhook is free.      *)
LEMMA ProcessedMoney ==
    ASSUME MoneyInv, hook.pc # "idle", hook.id \in Ids, Processed, hook' = NoHook
    PROVE  event' \in [Ids -> 0..Notices] /\ hook' \in HookRows /\ HookHasEvent'
<1>1. event \in [Ids -> 0..Notices] /\ event[hook.id] > 0
  BY CallsRows DEF MoneyInv, HookHasEvent
<1>2. event[hook.id] - 1 \in 0..Notices
  <2>1. event[hook.id] \in 0..Notices
    BY <1>1
  <2> QED BY <1>1, <2>1, NoticesAssumption
<1>3. event' \in [Ids -> 0..Notices]
  BY <1>1, <1>2 DEF Processed
<1> QED BY <1>3 DEF NoHook, HookRows, HookHasEvent

(* So is a settlement.                                                     *)
LEMMA SettlementMoney ==
    ASSUME MoneyInv, NEW a \in Ids, NEW attempt \in Attempts, NEW mark \in Marks,
           a = hook.id, hook.pc # "idle", Processed, hook' = NoHook,
           Apply(a, attempt, mark), ~Settled(a), payment[a].debt[1] \in Owners,
           payment[a].debt[1] = "loan" => owner["loan"].status # "PAID",
           UNCHANGED <<day, terms, rejected, undone, order, request>>
    PROVE  MoneyInv'
<1>1. CallsTyped /\ BooksTyped /\ LedgerInv
  BY DEF MoneyInv
<1> DEFINE status == Written(payment[a].status, hook.seen, "approved")
<1>2. /\ payment[a].status \in {"pending", "approved"} /\ payment[a].bound \in BOOLEAN
      /\ status \in {"pending", "approved"}
  BY <1>1, PaymentFields, WrittenIs
<1>3. payment' = [payment EXCEPT ![a] = Columns(payment[a], attempt, status, mark, payment[a].bound)]
  BY DEF Apply
<1> HIDE DEF status
<1>4. payment' \in [Ids -> PaymentRows] /\ \A b \in Ids : payment'[b].debt = payment[b].debt
  BY <1>1, <1>2, <1>3, WriteTyped
<1>5. LedgerInv' /\ BooksTyped'
  BY <1>1, <1>4, AppliedLedger
<1>6. event' \in [Ids -> 0..Notices] /\ hook' \in HookRows /\ HookHasEvent'
  BY ProcessedMoney
<1>7. CallsTyped'
  BY <1>1, <1>4, <1>6, CallsRows
<1> QED BY <1>5, <1>6, <1>7 DEF MoneyInv

(* Every step of the webhook keeps types and ledger.                       *)
LEMMA WebhookMoney == ASSUME IInv, MoneyInv, Webhook PROVE MoneyInv'
<1> DEFINE a == hook.id
<1>0. /\ CallsTyped /\ payment \in [Ids -> PaymentRows] /\ order \in [Ids -> OrderRows]
      /\ event \in [Ids -> 0..Notices] /\ request \in [Requests -> RequestRows] /\ hook \in HookRows
  BY CallsRows DEF MoneyInv
<1>1. NoHook \in HookRows /\ NoHook.pc = "idle"
  BY DEF NoHook, HookRows
<1>2. ASSUME hook.pc # "idle"
      PROVE  /\ a \in Ids
             /\ payment[a].attempt \in Attempts /\ payment[a].status \in {"pending", "approved"}
             /\ payment[a].mark \in Marks /\ payment[a].bound \in BOOLEAN
  <2>1. a \in Ids
    BY <1>2 DEF IInv, HookHasRow
  <2> QED BY <1>0, <2>1, PaymentFields
<1>3. /\ "none" \in Attempts /\ "APPROVED" \in Attempts /\ "EXPIRED" \in Attempts
      /\ "none" \in Marks /\ "REQUIRED" \in Marks /\ "STALE" \in Marks /\ "MISMATCH" \in Marks
  BY DEF Attempts, Marks
<1>4. ASSUME NEW b \in Ids, Receive(b) PROVE MoneyInv'
  <2>1. /\ hook' = [pc |-> "asking", id |-> b, seen |-> payment[b].status] /\ event[b] > 0
        /\ UNCHANGED <<day, debts, payment, books, order, event, request>>
    BY <1>4 DEF Receive, provider
  <2>2. payment[b].status \in {"pending", "approved"}
    BY <1>0, PaymentFields
  <2>3. hook' \in HookRows
    BY <2>1, <2>2 DEF HookRows
  <2>4. HookHasEvent'
    BY <2>1 DEF HookHasEvent
  <2>5. CallsTyped'
    BY <1>0, <2>1, <2>3, CallsRows
  <2> QED BY <2>1, <2>4, <2>5, BooksStay
<1>5. CASE GiveUp
  <2>1. hook' = NoHook /\ UNCHANGED <<day, debts, payment, books, order, event, request>>
    BY <1>5 DEF GiveUp, provider
  <2>2. HookHasEvent'
    BY <1>1, <2>1 DEF HookHasEvent
  <2>3. CallsTyped'
    BY <1>0, <1>1, <2>1, CallsRows
  <2> QED BY <2>1, <2>2, <2>3, BooksStay
<1>6. CASE Confirm
  <2>1. /\ hook' = [hook EXCEPT !.pc = "deciding"] /\ hook.pc = "asking"
        /\ UNCHANGED <<day, debts, books, order, event, request>>
    BY <1>6 DEF Confirm, provider
  <2>2. hook' \in HookRows /\ hook'.id = hook.id
    BY <1>0, <2>1 DEF HookRows
  <2>3. HookHasEvent'
    BY <2>1, <2>2 DEF MoneyInv, HookHasEvent
  <2>4. CASE DebtOf[1] = "loan"
    <3> DEFINE status == Written(payment[a].status, hook.seen, "approved")
    <3>1. payment' = [payment EXCEPT ![a] =
              Columns(payment[a], payment[a].attempt, status, payment[a].mark, payment[a].bound)]
      BY <1>6, <2>4 DEF Confirm, Confirmed
    <3>2. status \in {"pending", "approved"}
      BY <1>2, <2>1, WrittenIs
    <3> HIDE DEF status, a
    <3> QED BY <1>0, <1>2, <2>1, <2>2, <2>3, <3>1, <3>2, DecisionMoney
  <2>5. CASE DebtOf[1] # "loan"
    <3>1. payment' = payment
      BY <1>6, <2>5 DEF Confirm
    <3>2. CallsTyped'
      BY <1>0, <2>1, <2>2, <3>1, CallsRows
    <3> QED BY <2>1, <2>3, <3>1, <3>2, BooksStay
  <2> QED BY <2>4, <2>5
<1>7. CASE Refuse
  <2> DEFINE attempt == IF payment[a].attempt = "PENDING" /\ order[a].on > payment[a].on
                        THEN "EXPIRED" ELSE payment[a].attempt
  <2>1. /\ payment' = [payment EXCEPT ![a] =
               Columns(payment[a], attempt, payment[a].status, Refusal(a), payment[a].bound)]
        /\ hook.pc # "idle" /\ Processed /\ hook' = NoHook
        /\ UNCHANGED <<day, debts, books, order, request>>
    BY <1>7 DEF Refuse
  <2>2. Refusal(a) \in Marks
    BY <1>3 DEF Refusal
  <2>3. a \in Ids /\ attempt \in Attempts
    BY <1>2, <1>3, <2>1
  <2>4. event' \in [Ids -> 0..Notices] /\ hook' \in HookRows /\ HookHasEvent'
    BY <2>1, <2>3, ProcessedMoney
  <2> HIDE DEF attempt, a
  <2> QED BY <1>2, <2>1, <2>2, <2>3, <2>4, DecisionMoney
<1>8. CASE SettleLoan
  <2>1. /\ Apply(a, "APPROVED", payment[a].mark) /\ ~Settled(a)
        /\ payment[a].debt[1] = "loan" /\ owner["loan"].status # "PAID"
        /\ hook.pc # "idle" /\ Processed /\ hook' = NoHook
        /\ UNCHANGED <<day, terms, rejected, undone, order, request>>
    BY <1>8 DEF SettleLoan, DebtOf
  <2>2. payment[a].debt[1] \in Owners
    BY <2>1 DEF Owners
  <2> QED BY <1>2, <1>3, <2>1, <2>2, SettlementMoney
<1>9. CASE SettlePart
  <2> DEFINE mark == IF payment[a].attempt = "PENDING" THEN "none" ELSE payment[a].mark
  <2>1. /\ Apply(a, "none", mark) /\ ~Settled(a)
        /\ payment[a].debt[1] = "agreement"
        /\ hook.pc # "idle" /\ Processed /\ hook' = NoHook
        /\ UNCHANGED <<day, terms, rejected, undone, order, request>>
    BY <1>9 DEF SettlePart, DebtOf
  <2>2. payment[a].debt[1] \in Owners /\ payment[a].debt[1] # "loan"
    BY <2>1 DEF Owners
  <2>3. mark \in Marks
    BY <1>2, <1>3, <2>1
  <2> HIDE DEF mark
  <2> QED BY <1>2, <1>3, <2>1, <2>2, <2>3, SettlementMoney
<1>10. CASE KnownPart
  <2> DEFINE status == Written(payment[a].status, hook.seen, "approved")
  <2>1. /\ payment' = [payment EXCEPT ![a] =
               Columns(payment[a], payment[a].attempt, status, payment[a].mark, payment[a].bound)]
        /\ hook.pc # "idle" /\ Processed /\ hook' = NoHook
        /\ UNCHANGED <<day, debts, books, order, request>>
    BY <1>10 DEF KnownPart, Confirmed
  <2>2. status \in {"pending", "approved"}
    BY <1>2, <2>1, WrittenIs
  <2>3. event' \in [Ids -> 0..Notices] /\ hook' \in HookRows /\ HookHasEvent'
    BY <1>2, <2>1, ProcessedMoney
  <2> HIDE DEF status, a
  <2> QED BY <1>2, <2>1, <2>2, <2>3, DecisionMoney
<1> QED BY <1>4, <1>5, <1>6, <1>7, <1>8, <1>9, <1>10 DEF Webhook

(* Administration, which leaves calls and orders alone.                    *)
LEMMA OfficeMoney == ASSUME IInv, MoneyInv, Office PROVE MoneyInv'
<1>1. UNCHANGED <<payment, order, event, request, hook, day>>
  BY DEF Office, ReversePayment, RequestAgreement, Reject, Approve, provider
<1>2. CallsTyped' /\ HookHasEvent' /\ BooksTyped /\ LedgerInv
  BY <1>1, CallsRows DEF MoneyInv, HookHasEvent
<1>3. ASSUME NEW a \in Ids, ReversePayment(a) PROVE LedgerInv' /\ BooksTyped'
  BY <1>2, <1>3, ReversedLedger
<1>4. ASSUME NEW n \in Plans, RequestAgreement(n) PROVE LedgerInv' /\ BooksTyped'
  <2>1. /\ owner["agreement"].status = "none"
        /\ owner' = [owner EXCEPT !["agreement"] = [status |-> "REQUESTED", revision |-> 0]]
        /\ terms' = [asked |-> Outstanding, found |-> 0, parts |-> n]
        /\ UNCHANGED <<paid, state, rejected, payment, settlement, undone>>
    BY <1>4 DEF RequestAgreement, books
  <2>2. ~Approved /\ Outstanding \in Nat
    BY <1>2, <2>1, OutstandingNat DEF Approved
  <2>3. owner'["loan"] = owner["loan"] /\ owner'["agreement"].status = "REQUESTED" /\ terms'.parts = n
    BY <1>2, <2>1 DEF BooksTyped, Owners
  <2>4. LedgerInv'
    BY <1>2, <2>1, <2>2, <2>3, RequestedLedger
  <2>5. BooksTyped'
    <3>1. terms' \in [asked : Nat, found : Nat, parts : Plans \union {0}]
      BY <2>1, <2>2
    <3>2. owner' \in [Owners -> [status : Stages.loan \union Stages.agreement, revision : Nat]]
      BY <1>2, <2>1 DEF BooksTyped, Owners, Stages
    <3>3. \A o \in Owners : owner'[o].status \in Stages[o]
      BY <1>2, <2>3 DEF BooksTyped, Owners, Stages
    <3> QED BY <1>1, <1>2, <2>1, <3>1, <3>2, <3>3 DEF BooksTyped
  <2> QED BY <2>4, <2>5
<1>5. ASSUME Reject PROVE LedgerInv' /\ BooksTyped'
  <2>1. /\ owner["agreement"].status = "REQUESTED" /\ rejected' = TRUE
        /\ owner' = [owner EXCEPT !["agreement"] = [status |-> "none", revision |-> 0]]
        /\ terms' = [asked |-> 0, found |-> 0, parts |-> 0]
        /\ UNCHANGED <<paid, state, payment, settlement, undone>>
    BY <1>5 DEF Reject, books
  <2>2. ~Approved
    BY <2>1 DEF Approved
  <2>3. owner'["loan"] = owner["loan"] /\ owner'["agreement"].status = "none" /\ terms'.parts = 0
    BY <1>2, <2>1 DEF BooksTyped, Owners
  <2>4. LedgerInv'
    BY <1>2, <2>1, <2>2, <2>3, RequestedLedger
  <2>5. BooksTyped'
    <3>1. terms' \in [asked : Nat, found : Nat, parts : Plans \union {0}]
      BY <2>1
    <3>2. owner' \in [Owners -> [status : Stages.loan \union Stages.agreement, revision : Nat]]
      BY <1>2, <2>1 DEF BooksTyped, Owners, Stages
    <3>3. \A o \in Owners : owner'[o].status \in Stages[o]
      BY <1>2, <2>3 DEF BooksTyped, Owners, Stages
    <3> QED BY <1>1, <1>2, <2>1, <3>1, <3>2, <3>3 DEF BooksTyped
  <2> QED BY <2>4, <2>5
<1>6. ASSUME Approve PROVE LedgerInv' /\ BooksTyped'
  BY <1>2, <1>6, ApprovedLedger
<1>7. LedgerInv' /\ BooksTyped'
  BY <1>3, <1>4, <1>5, <1>6 DEF Office
<1> QED BY <1>2, <1>7 DEF MoneyInv

(* Every step keeps types and ledger.                                      *)
LEMMA MoneyStep == ASSUME IInv, MoneyInv, [Next]_vars PROVE MoneyInv'
<1>0. /\ CallsTyped /\ payment \in [Ids -> PaymentRows] /\ order \in [Ids -> OrderRows]
      /\ event \in [Ids -> 0..Notices] /\ request \in [Requests -> RequestRows] /\ hook \in HookRows
  BY CallsRows DEF MoneyInv
<1>1. CASE \E r \in Requests : Charging(r)
  BY <1>1, ChargingMoney
<1>2. ASSUME NEW a \in Ids, Pay(a) PROVE MoneyInv'
  <2>1. PICK got \in Receivable, on \in {0, day} :
            order' = [order EXCEPT ![a] = [status |-> "paid", amount |-> got, on |-> on]]
    BY <1>2 DEF Pay
  <2>2. /\ event' = [event EXCEPT ![a] = Notices]
        /\ UNCHANGED <<day, debts, payment, books, request, hook>>
    BY <1>2 DEF Pay
  <2>3. [status |-> "paid", amount |-> got, on |-> on] \in OrderRows
    <3>1. on \in 0..LastDay
      BY BoundsAssumption DEF MoneyInv, BooksTyped
    <3> QED BY <3>1 DEF OrderRows
  <2>4. order' \in [Ids -> OrderRows]
    BY <1>0, <2>1, <2>3
  <2>5. event' \in [Ids -> 0..Notices] /\ \A b \in Ids : event[b] > 0 => event'[b] > 0
    BY <1>0, <2>2, NoticesAssumption
  <2>6. CallsTyped'
    BY <1>0, <2>2, <2>4, <2>5, CallsRows
  <2>7. HookHasEvent'
    BY <2>2, <2>5 DEF MoneyInv, HookHasEvent, IInv, HookHasRow
  <2> QED BY <2>2, <2>6, <2>7, BooksStay
<1>3. CASE Webhook
  BY <1>3, WebhookMoney
<1>4. CASE Office
  BY <1>4, OfficeMoney
<1>5. CASE Tick
  <2>1. day' = day + 1 /\ day < LastDay /\ UNCHANGED <<debts, payment, books, provider, request, hook>>
    BY <1>5 DEF Tick
  <2>2. UNCHANGED <<paid, state, owner, terms, rejected, payment, settlement, undone, order, event,
                    request, hook>>
    BY <2>1 DEF debts, books, provider
  <2>3. day' \in 1..LastDay
    BY <2>1, BoundsAssumption DEF MoneyInv, BooksTyped
  <2>4. BooksTyped'
    BY <2>2, <2>3 DEF MoneyInv, BooksTyped
  <2>5. CallsTyped' /\ HookHasEvent'
    BY <1>0, <2>2, CallsRows DEF MoneyInv, HookHasEvent
  <2>6. LedgerInv'
    BY <2>2, LedgerStays DEF MoneyInv
  <2> QED BY <2>4, <2>5, <2>6 DEF MoneyInv
<1>6. CASE Restart
  <2>1. /\ request' = [r \in Requests |-> Idle] /\ hook' = NoHook
        /\ UNCHANGED <<day, debts, payment, books, order, event>>
    BY <1>6 DEF Restart, provider
  <2>2. request' \in [Requests -> RequestRows]
    BY <2>1, CallingTyped
  <2>3. hook' \in HookRows /\ HookHasEvent'
    BY <2>1 DEF NoHook, HookRows, HookHasEvent
  <2>4. CallsTyped'
    BY <1>0, <2>1, <2>2, <2>3, CallsRows
  <2> QED BY <2>1, <2>3, <2>4, BooksStay
<1>7. CASE UNCHANGED vars
  <2>1. UNCHANGED <<day, debts, payment, books, order, event, request, hook>>
    BY <1>7 DEF vars, debts, books
  <2>2. CallsTyped' /\ HookHasEvent'
    BY <1>0, <2>1, CallsRows DEF MoneyInv, HookHasEvent
  <2> QED BY <2>1, <2>2, BooksStay
<1> QED BY <1>1, <1>2, <1>3, <1>4, <1>5, <1>6, <1>7 DEF Next

(* The loan that was just granted is in order.                             *)
LEMMA MoneyInitially == ASSUME Init PROVE MoneyInv
<1>1. BooksTyped
  <2>1. /\ settlement \in [Ids -> [applied : Nat, before : Statuses \union {"none"},
                               after : Statuses \union {"none"},
                               ownerBefore : Stages.loan \union Stages.agreement,
                               ownerAfter : Stages.loan \union Stages.agreement,
                               revision : Nat]]
    BY DEF Init, NoSettlement, Stages
  <2>2. /\ owner \in [Owners -> [status : Stages.loan \union Stages.agreement, revision : Nat]]
        /\ \A o \in Owners : owner[o].status \in Stages[o]
    BY DEF Init, Owners, Stages
  <2>3. undone \in [Ids -> 0..LastDay] /\ day \in 1..LastDay
    BY BoundsAssumption DEF Init
  <2>4. terms \in [asked : Nat, found : Nat, parts : Plans \union {0}]
    BY DEF Init
  <2>5. paid \in [Debts -> Nat] /\ state \in [Debts -> Statuses] /\ rejected \in BOOLEAN
    BY DEF Init, Statuses
  <2> QED BY <2>1, <2>2, <2>3, <2>4, <2>5 DEF BooksTyped
<1>2. CallsTyped
  <2>1. NoRow \in PaymentRows
    BY BoundsAssumption DEF NoRow, Row, PaymentRows, Attempts, Marks
  <2>2. NoOrder \in OrderRows
    BY BoundsAssumption DEF NoOrder, OrderRows
  <2>3. NoHook \in HookRows
    BY DEF NoHook, HookRows
  <2>4. event \in [Ids -> 0..Notices]
    BY NoticesAssumption DEF Init
  <2> QED BY <2>1, <2>2, <2>3, <2>4, CallsRows, CallingTyped DEF Init
<1>3. HookHasEvent
  BY DEF Init, NoHook, HookHasEvent
<1>4. /\ \A a \in Ids : ~Settled(a) /\ ~InForce(a) /\ undone[a] = 0 /\ payment[a].debt[1] # "agreement"
      /\ ~Approved /\ owner["agreement"].status = "none" /\ owner["loan"].status = "ACTIVE"
      /\ \A d \in Debts : paid[d] = 0 /\ state[d] = "OPEN"
  <2>1. \A a \in Ids : ~Settled(a) /\ ~InForce(a) /\ undone[a] = 0
    BY DEF Init, NoSettlement, Settled, InForce
  <2>2. \A a \in Ids : payment[a].debt[1] # "agreement"
    BY Rows DEF Init
  <2> QED BY <2>1, <2>2 DEF Init, Approved, Owners
<1>5. /\ \A d : ReceiptsOf(d) = {}
      /\ LoanReceipts = {} /\ EarlyReceipts = {}
  BY <1>4 DEF ReceiptsOf, LoanReceipts, EarlyReceipts
<1>6. \A o \in Owners : \A d \in DebtsOf(o) : d \in Debts /\ Agrees(d)
  <2>1. \A o \in Owners : \A d \in DebtsOf(o) : d \in Debts
    BY <1>1, DebtsOfOwner DEF BooksTyped
  <2> QED BY <1>4, <1>5, <2>1, NoMoney DEF Agrees, Fits
<1>7. OwnerFollowsDebts
  <2>1. DebtsOf("loan") # {}
    <3>1. PICK i \in Insts : TRUE
      BY InstsAssumption
    <3>2. <<"loan", i>> \in DebtsOf("loan")
      BY DEF DebtsOf
    <3> QED BY <3>2
  <2>2. \A d \in DebtsOf("loan") : d \in Debts
    BY <1>6 DEF Owners
  <2> QED BY <1>4, <2>1, <2>2 DEF OwnerFollowsDebts
<1>8. DebtsAgree
  BY <1>6, <1>7, AgreeAll DEF DebtsAgree
<1>9. ReceiptsAreKnown /\ PartsAreOfAgreement /\ BeforeApproval /\ PlanStands /\ LatestMayGo
  BY <1>4 DEF ReceiptsAreKnown, IsKnown, PartsAreOfAgreement, BeforeApproval, PlanStands, LatestMayGo
<1>10. LoanIsPaid /\ FoundCovers
  <2>1. IsFiniteSet(DebtsOf("loan")) /\ \A d \in DebtsOf("loan") : d \in Debts
    BY <1>1, DebtsOfOwner DEF BooksTyped, Owners
  <2>2. \A d \in DebtsOf("loan") : paid[d] = 0
    BY <1>4, <2>1
  <2>3. SumFunctionOnSet(paid, {}) = SumFunctionOnSet(paid, DebtsOf("loan"))
    BY <2>1, <2>2, SumOfPart
  <2>4. SumFunctionOnSet(paid, DebtsOf("loan")) = 0
    BY <2>3, SumEmpty
  <2> QED BY <1>4, <1>5, <2>4, NoMoney, SumsAreMoney
<1> QED BY <1>1, <1>2, <1>3, <1>8, <1>9, <1>10 DEF MoneyInv, LedgerInv

(* Types and ledger are in order in every behaviour.                       *)
THEOREM MoneyInvariance == Spec => [](IInv /\ MoneyInv)
<1>1. Init => IInv /\ MoneyInv
  BY Initially, MoneyInitially
<1>2. (IInv /\ MoneyInv) /\ [Next]_vars => (IInv /\ MoneyInv)'
  BY Step, MoneyStep
<1> QED BY <1>1, <1>2, PTL DEF Spec

(* Every table and column has the type the code gives it, and the owners    *)
(* are in states the code writes.                                          *)
THEOREM TypesHold == Spec => []TypeOK
<1>1. IInv /\ MoneyInv => TypeOK
  BY Typed DEF MoneyInv
<1> QED BY <1>1, MoneyInvariance, PTL

(* A debt counts as paid what its settlements in force say, and the loan   *)
(* and the agreement follow their debts, in any order of settlements,      *)
(* reversals and the approval (payment_settlement, payment_reversal,       *)
(* decide_agreement).                                                      *)
THEOREM DebtsAgreeHolds == Spec => []DebtsAgree
<1>1. IInv /\ MoneyInv => DebtsAgree
  BY DEF MoneyInv, LedgerInv
<1> QED BY <1>1, MoneyInvariance, PTL

(* The parts of an approved agreement and what the loan received before it *)
(* are the loan, however the debt divides and whatever is reversed.        *)
THEOREM AgreementCovers == Spec => []AgreementCoversDebt
<1>1. IInv /\ MoneyInv => AgreementCoversDebt
  BY Covered DEF MoneyInv
<1> QED BY <1>1, MoneyInvariance, PTL

=============================================================================
