---------------------------- MODULE ClosingPapers ----------------------------
(***************************************************************************)
(* The papers of a closed cycle.  The snapshot freezes the calculation and *)
(* the review its money.  From the two, the payout obligations are         *)
(* materialized, by requests that may overlap and die, and read back       *)
(* without a lock by the payout readiness and by the statements            *)
(* (cycle_closing_payout_obligations.py, cycle_closing_payout_readiness.py,*)
(* cycle_closing_statements.py).  Each of them checks the figures again.   *)
(***************************************************************************)
EXTENDS ClosingCalculation

CONSTANTS Evidence,     \* what a cycle may have been closed on
          Cash,         \* cash the review found, in the bank and in the books
          Destinations, \* states of a member's payout destination
          Requests      \* requests to materialize the obligations

VARIABLES e,            \* evidence of the closed cycle
          snapshot,     \* what was calculated from it
          cash,         \* cash of its review
          destination,  \* state of the destination of each member
          rows,         \* payout obligations that are stored
          request       \* what each request is doing

vars == <<e, snapshot, cash, destination, rows, request>>

-----------------------------------------------------------------------------
(* The snapshot and the review.                                             *)

People == DOMAIN e.members
Lines == snapshot.lines
SumLines(figure) == SumFunction([m \in People |-> Lines[m][figure]])

\* What is due to the members, and with the fee must be there in cash.
Liability == SumLines("net")
Required == Liability + snapshot.fee

\* _validate_engine_result, before the snapshot is stored and when it is read.
CountedGains == {g \in e.gains : g.kind \in ResultKinds /\ g.ours /\ g.day \in 0 .. Cutoff}
SnapshotVerifies ==
    /\ snapshot.gross >= 0 /\ snapshot.gross >= snapshot.fee
    /\ snapshot.fee = Fee(snapshot.gross)
    /\ SumLines("share") = snapshot.gross - snapshot.fee
    /\ SumFunction([g \in CountedGains |-> g.amount]) = snapshot.gross

\* Closed: calculated without a refusal, covered by the cash.
Init ==
    /\ e \in {d \in Evidence : Refusals(d) = {}}
    /\ snapshot = Figures(e)
    /\ cash \in Cash
    /\ cash >= Required
    /\ destination \in [People -> Destinations]
    /\ rows = {}
    /\ request = [r \in Requests |-> "idle"]

-----------------------------------------------------------------------------
(* Materialization.  The closing row is locked from the first read to the   *)
(* commit, and the rows are inserted together or not at all.                *)

\* Mutant: only members who are paid something get an obligation.
Expected_Positive == {[member |-> m, amount |-> Lines[m].net] : m \in {n \in People : Lines[n].net > 0}}

Expected == {[member |-> m, amount |-> Lines[m].net] : m \in People}
AmountOf(obligations) == SumFunction([o \in obligations |-> o.amount])

Unlocked == \A r \in Requests : request[r] \notin {"locked", "inserted"}

Lock(r) ==
    /\ request[r] = "idle" /\ Unlocked
    /\ request' = [request EXCEPT ![r] = "locked"]
    /\ UNCHANGED <<e, snapshot, cash, destination, rows>>

\* The snapshot is verified, and its total is the liability that was approved.
Materialize(r) ==
    /\ request[r] = "locked"
    /\ SnapshotVerifies /\ AmountOf(Expected) = Liability
    /\ request' = [request EXCEPT ![r] = IF rows = {} THEN "inserted"
                                         ELSE IF rows = Expected THEN "done" ELSE "refused"]
    /\ UNCHANGED <<e, snapshot, cash, destination, rows>>

Commit(r) ==
    /\ request[r] = "inserted"
    /\ rows' = rows \cup Expected
    /\ request' = [request EXCEPT ![r] = "done"]
    /\ UNCHANGED <<e, snapshot, cash, destination>>

\* The caller rolls back, or dies.
Abandon(r) ==
    /\ request[r] \in {"locked", "inserted"}
    /\ request' = [request EXCEPT ![r] = "idle"]
    /\ UNCHANGED <<e, snapshot, cash, destination, rows>>

\* The member's destination changes (PayoutVerification).
Redirect ==
    \E m \in People, d \in Destinations :
        /\ destination' = [destination EXCEPT ![m] = d]
        /\ UNCHANGED <<e, snapshot, cash, rows, request>>

Next ==
    \/ \E r \in Requests : Lock(r) \/ Materialize(r) \/ Commit(r) \/ Abandon(r)
    \/ Redirect

Spec == Init /\ [][Next]_vars

-----------------------------------------------------------------------------
(* The readers.                                                             *)

\* A set that is empty is not complete, even when nobody is due anything.
RowsVerify == rows # {} /\ rows = Expected /\ AmountOf(rows) = Liability

\* _review_financial_state, and the snapshot against the review.
FinancialReasons ==
    {x \in {"SNAPSHOT_INVALID", "INSUFFICIENT_LIQUIDITY"} :
        \/ x = "SNAPSHOT_INVALID" /\ ~SnapshotVerifies
        \/ x = "INSUFFICIENT_LIQUIDITY" /\ cash < Required}

\* The obligations, and where each member who is due something is paid.
Blocked == {o.member : o \in {p \in rows : p.amount > 0 /\ destination[p.member] # "VERIFIED"}}
PayoutReasons ==
    IF ~RowsVerify THEN {"OBLIGATIONS_INCOMPLETE"}
    ELSE {destination[m] : m \in Blocked}

Reasons == FinancialReasons \cup PayoutReasons

\* _participant works out each line of the snapshot again.
LineIsConsistent(m) ==
    LET l == Lines[m]
        due == l.refund + l.share
    IN  /\ SumFunction([o \in Compensable(e, m) |-> o.amount]) = l.owed
        /\ l.compensation = Least(due, l.owed)
        /\ l.net = due - l.compensation
        /\ l.debt = Greatest(0, l.owed - due)
        /\ \A x \in {l.refund, l.share, l.owed, l.compensation, l.net, l.debt} : x >= 0

\* _trace: no amount of the memory may be negative.
TraceIsSigned == \E g \in e.gains : g.amount < 0

\* _load_verified_source.
StatementRefusals ==
    {x \in {"PARTICIPANT", "AGGREGATES", "REVIEW", "TRACE"} :
        \/ x = "PARTICIPANT" /\ \E m \in People : ~LineIsConsistent(m)
        \/ x = "AGGREGATES" /\ ~SnapshotVerifies
        \/ x = "REVIEW" /\ cash < Required
        \/ x = "TRACE" /\ TraceIsSigned}

-----------------------------------------------------------------------------

\* The papers of a closed cycle agree.  The obligations are none or those of
\* every member, and a request that succeeded left them all.  A payout that is
\* declared ready pays every member, with money that is there.  The readers
\* accept what the calculator produced, except that no statement can be given
\* of a cycle in which a payment was reversed.
PapersAgree ==
    /\ {o.member : o \in rows} \in {{}, People} /\ Cardinality(rows) <= Cardinality(People)
    /\ \A r \in Requests : request[r] = "done" => {o.member : o \in rows} = People
    /\ \A r \in Requests : request[r] # "refused"
    /\ Reasons = {} => /\ cash >= AmountOf(rows) + snapshot.fee
                       /\ \A m \in People : [member |-> m, amount |-> Lines[m].net] \in rows
    /\ SnapshotVerifies
    /\ StatementRefusals \subseteq {"TRACE"}
=============================================================================
