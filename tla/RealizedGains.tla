---------------------------- MODULE RealizedGains ----------------------------
(***************************************************************************)
(* Gains that are realized outside the payments, and their reversals       *)
(* (record_realized_gain_event and reverse_realized_gain_event of          *)
(* services/cycle_closing_persistence.py, table cycle_realized_gain_events *)
(* of migration 0098).                                                     *)
(*                                                                         *)
(* Each request checks what is stored, and inserts later: two requests may *)
(* pass the same check.  Rows are never changed or deleted.  What proves a *)
(* gain must not be what proves a payment.                                 *)
(***************************************************************************)
EXTENDS Integers, FiniteSets, Functions

CONSTANTS Requests,
          Names,      \* idempotency keys, sources and evidence: unique all the same
          Days,       \* days a gain or a reversal may be dated
          Amounts,
          MaxRows     \* bound: rows recorded

VARIABLES row,        \* the rows, by number
          evidence,   \* names that settled payments use
          request     \* what each request is about to insert

vars == <<row, evidence, request>>

Nothing == [name |-> 0, day |-> 0, amount |-> 0, of |-> 0]

Init ==
    /\ row = [n \in {} |-> Nothing]
    /\ evidence = {}
    /\ request = [r \in Requests |-> Nothing]

\* A payment settles, with a name that a gain may have used.
Settle ==
    \E s \in Names :
        /\ evidence' = evidence \cup {s}
        /\ UNCHANGED <<row, request>>

\* _reject_settlement_evidence_collision: no settled payment is proved by it.
Unclaimed == Names \ evidence

\* The fields are valid and the row is built.
Prepared(r, g) == request' = [request EXCEPT ![r] = g]

Record(r) ==
    \E s \in Unclaimed, d \in Days, a \in Amounts :
        /\ request[r] = Nothing
        /\ Prepared(r, [name |-> s, day |-> d, amount |-> a, of |-> 0])
        /\ UNCHANGED <<row, evidence>>

\* A gain is reversed in full, once, not before it was realized.
Reversible(n, d) ==
    /\ row[n].of = 0
    /\ d >= row[n].day
    /\ \A m \in DOMAIN row : row[m].of # n

Reverse(r) ==
    \E n \in DOMAIN row, s \in Unclaimed, d \in Days :
        /\ request[r] = Nothing
        /\ Reversible(n, d)
        /\ Prepared(r, [name |-> s, day |-> d, amount |-> row[n].amount, of |-> n])
        /\ UNCHANGED <<row, evidence>>

\* Mutant: the reversal is not unique in the table.
Accepted_Unordered(g) ==
    /\ \A m \in DOMAIN row : row[m].name # g.name
    /\ g.of # 0 => row[g.of].of = 0 /\ row[g.of].amount = g.amount /\ row[g.of].day <= g.day

\* The unique constraints and the trigger of the table.
Accepted(g) ==
    /\ \A m \in DOMAIN row : /\ row[m].name # g.name
                             /\ g.of # 0 => row[m].of # g.of
    /\ g.of # 0 => row[g.of].of = 0 /\ row[g.of].amount = g.amount /\ row[g.of].day <= g.day

Insert(r) ==
    LET g == request[r]
        n == Cardinality(DOMAIN row) + 1
    IN  /\ g # Nothing /\ Accepted(g) /\ n <= MaxRows
        /\ row' = [m \in DOMAIN row \cup {n} |-> IF m = n THEN g ELSE row[m]]
        /\ Prepared(r, Nothing)
        /\ UNCHANGED evidence

\* The database refuses the row, or the caller rolls back.
Drop(r) ==
    /\ request[r] # Nothing
    /\ Prepared(r, Nothing)
    /\ UNCHANGED <<row, evidence>>

Next == Settle \/ \E r \in Requests : Record(r) \/ Reverse(r) \/ Insert(r) \/ Drop(r)

Spec == Init /\ [][Next]_vars

-----------------------------------------------------------------------------

\* A reversal is a gain of the opposite sign on its own day.
Signed(n) == IF row[n].of = 0 THEN row[n].amount ELSE -row[n].amount
UpTo(day, rows) == SumFunction([n \in {m \in rows : row[m].day <= day} |-> Signed(n)])

\* Whatever requests ran at once, a closing at any cutoff counts each gain in
\* full or not at all, so that no reversal makes a result negative.
GainCountsOnceOrNot ==
    \A n \in DOMAIN row, cutoff \in Days :
        row[n].of = 0 => UpTo(cutoff, {n} \cup {m \in DOMAIN row : row[m].of = n}) \in {0, row[n].amount}
=============================================================================
