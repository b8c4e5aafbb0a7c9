----------------------------- MODULE CycleEntry -----------------------------
(***************************************************************************)
(* How a member comes into a cycle, owes its contributions and leaves it   *)
(* (services/cycle_foundation.py, services/cycle_participation.py, the     *)
(* cycle flow of api/contributions.py and the effects of the daily job).   *)
(*                                                                         *)
(* A quota request locks the cycle and then the member; an entry looks     *)
(* without a lock, locks the member, and needs the cycle's row only when   *)
(* its rows refer to it.  Other operations hold the member throughout and  *)
(* are one step.  Time is counted in months of the cycle: the contribution *)
(* of month k is overdue after it.  Amounts are units of a quota, payments *)
(* are whole; late charges are in ClosingBook.                             *)
(***************************************************************************)
EXTENDS Integers, Functions

CONSTANTS Members,
          QuotaRequests,
          EntryRequests,
          Months,         \* of the cycle
          Deadline,       \* last month of entry
          Capacity,       \* max_quotas
          Streak,         \* overdue contributions in a row that block
          Horizon         \* last month

VARIABLES month,
          units,          \* member -> sum of its quotas
          participation,  \* member -> status of its CycleParticipation
          dues,           \* member -> its Contribution of each month
          quota,          \* what each quota request is doing
          entry           \* what each entry is doing

vars == <<month, units, participation, dues, quota, entry>>

NoDue == [status |-> "none", units |-> 0, undone |-> FALSE]
Free == [pc |-> "idle", member |-> 0, units |-> 0]
Away == [pc |-> "idle", member |-> 0, date |-> 0, daily |-> FALSE]

Init ==
    /\ month = 0
    /\ units = [m \in Members |-> 0]
    /\ participation = [m \in Members |-> "none"]
    /\ dues = [m \in Members |-> [k \in 1..Months |-> NoDue]]
    /\ quota = [q \in QuotaRequests |-> Free]
    /\ entry = [e \in EntryRequests |-> Away]

Locked(m) ==
    \/ \E q \in QuotaRequests : quota[q].pc = "counted" /\ quota[q].member = m
    \/ \E e \in EntryRequests : entry[e].pc = "locked" /\ entry[e].member = m
CycleIsLocked == \E q \in QuotaRequests : quota[q].pc # "idle"

-----------------------------------------------------------------------------
(* Quotas.                                                                  *)

LockCycle(q) ==
    /\ quota[q] = Free /\ ~CycleIsLocked
    /\ \E m \in Members, n \in 1..Capacity : quota' = [quota EXCEPT ![q] = [pc |-> "cycle", member |-> m, units |-> n]]
    /\ UNCHANGED <<month, units, participation, dues, entry>>

Taken == SumFunction(units)
MayTake(m, n) == participation[m] \in {"none", "ACTIVE"} /\ Taken + n <= Capacity

\* Member and participation are locked and the units of the cycle counted.
Count(q) ==
    LET r == quota[q]
    IN  /\ r.pc = "cycle" /\ ~Locked(r.member)
        /\ quota' = [quota EXCEPT ![q] = IF MayTake(r.member, r.units) THEN [r EXCEPT !.pc = "counted"] ELSE Free]
        /\ UNCHANGED <<month, units, participation, dues, entry>>

Insert(q) ==
    LET r == quota[q]
    IN  /\ r.pc = "counted"
        /\ units' = [units EXCEPT ![r.member] = @ + r.units]
        /\ quota' = [quota EXCEPT ![q] = Free]
        /\ UNCHANGED <<month, participation, dues, entry>>

-----------------------------------------------------------------------------
(* Entry.                                                                   *)

\* The request names its own date; only a member that has no row is late.
Look(e) ==
    \E m \in Members, d \in 1..Horizon :
        /\ entry[e] = Away
        /\ participation[m] = "none" => d <= Deadline
        /\ entry' = [entry EXCEPT ![e] = [pc |-> "looked", member |-> m, date |-> d, daily |-> FALSE]]
        /\ UNCHANGED <<month, units, participation, dues, quota>>

\* The daily job takes those that are active, with the date of its run.
LookDaily(e) ==
    \E m \in Members, d \in 1..month :
        /\ entry[e] = Away /\ participation[m] = "ACTIVE"
        /\ entry' = [entry EXCEPT ![e] = [pc |-> "looked", member |-> m, date |-> d, daily |-> TRUE]]
        /\ UNCHANGED <<month, units, participation, dues, quota>>

LockMember(e) ==
    /\ entry[e].pc = "looked" /\ ~Locked(entry[e].member)
    /\ entry' = [entry EXCEPT ![e].pc = "locked"]
    /\ UNCHANGED <<month, units, participation, dues, quota>>

\* Mutant: the status is not read again under the lock.
Admitted_Looked(m) == units[m] > 0

\* ensure_active_participation, under the lock of the member.
Admitted(m) == units[m] > 0 /\ participation[m] \in {"none", "ACTIVE"}

\* authoritative_amount: what is already there must have it.
Priced(m, d) == \A k \in 1..Months : k <= d /\ dues[m][k].status # "none" => dues[m][k].units = units[m]

Billed(m, d) ==
    [k \in 1..Months |->
        IF k <= d /\ dues[m][k].status = "none" THEN [status |-> "PENDING", units |-> units[m], undone |-> FALSE]
        ELSE dues[m][k]]

Overdue(due, k, d) == due.status = "PENDING" /\ k < d
InArrears(mine, d) ==
    \E k \in 1..Months : k + Streak - 1 <= Months /\ \A j \in k .. k + Streak - 1 : Overdue(mine[j], j, d)
Cancelled(mine) ==
    [k \in 1..Months |-> IF mine[k].status = "PENDING" THEN [mine[k] EXCEPT !.status = "CANCELLED"] ELSE mine[k]]

\* The contributions up to the date; the daily job then blocks those in arrears.
\* The rows refer to the cycle: no quota request may hold it.
Enter(e) ==
    LET m == entry[e].member
        d == entry[e].date
        mine == Billed(m, d)
        blocks == entry[e].daily /\ InArrears(mine, d)
    IN  /\ entry[e].pc = "locked" /\ Admitted(m) /\ Priced(m, d)
        /\ participation[m] = "none" \/ mine # dues[m] => ~CycleIsLocked
        /\ participation' = [participation EXCEPT ![m] =
                                IF blocks THEN "BLOCKED_DELINQUENCY" ELSE IF @ = "none" THEN "ACTIVE" ELSE @]
        /\ dues' = [dues EXCEPT ![m] = IF blocks THEN Cancelled(mine) ELSE mine]
        /\ entry' = [entry EXCEPT ![e] = Away]
        /\ UNCHANGED <<month, units, quota>>

Refuse(e) ==
    LET m == entry[e].member
    IN  /\ entry[e].pc = "locked" /\ ~(Admitted(m) /\ Priced(m, entry[e].date))
        /\ entry' = [entry EXCEPT ![e] = Away]
        /\ UNCHANGED <<month, units, participation, dues, quota>>

\* An entry that holds the member waits for the cycle, and the quota request
\* that holds the cycle for the member: the database ends one of them.
Stuck(q, e) == quota[q].pc = "cycle" /\ entry[e].pc = "locked" /\ entry[e].member = quota[q].member
BreakDeadlock ==
    \E q \in QuotaRequests, e \in EntryRequests :
        /\ Stuck(q, e)
        /\ \/ quota' = [quota EXCEPT ![q] = Free] /\ UNCHANGED entry
           \/ entry' = [entry EXCEPT ![e] = Away] /\ UNCHANGED quota
        /\ UNCHANGED <<month, units, participation, dues>>

-----------------------------------------------------------------------------
(* Payment, reversal and exit.                                              *)

SetDue(m, k, status, undone) ==
    dues' = [dues EXCEPT ![m][k] = [status |-> status, units |-> @.units, undone |-> undone]]

Pay ==
    \E m \in Members, k \in 1..Months :
        /\ ~Locked(m) /\ dues[m][k].status = "PENDING"
        /\ SetDue(m, k, "PAID", dues[m][k].undone)
        /\ UNCHANGED <<month, units, participation, quota, entry>>

\* It was not cancelled, being paid, and is open again.
Reverse ==
    \E m \in Members, k \in 1..Months :
        /\ ~Locked(m) /\ dues[m][k].status = "PAID" /\ ~dues[m][k].undone
        /\ SetDue(m, k, "PENDING", TRUE)
        /\ UNCHANGED <<month, units, participation, quota, entry>>

\* A member with a quota may leave without having come in.  Other debts and
\* late charges may refuse as well.
Exit ==
    \E m \in Members :
        /\ ~Locked(m) /\ units[m] > 0 /\ participation[m] \in {"none", "ACTIVE"}
        /\ \A k \in 1..Months : ~Overdue(dues[m][k], k, month)
        /\ participation' = [participation EXCEPT ![m] = "VOLUNTARILY_EXITED"]
        /\ dues' = [dues EXCEPT ![m] = Cancelled(@)]
        /\ UNCHANGED <<month, units, quota, entry>>

Tick ==
    /\ month < Horizon
    /\ month' = month + 1
    /\ UNCHANGED <<units, participation, dues, quota, entry>>

Next ==
    \/ \E q \in QuotaRequests : LockCycle(q) \/ Count(q) \/ Insert(q)
    \/ \E e \in EntryRequests : Look(e) \/ LookDaily(e) \/ LockMember(e) \/ Enter(e) \/ Refuse(e)
    \/ BreakDeadlock \/ Pay \/ Reverse \/ Exit \/ Tick

Spec == Init /\ [][Next]_vars

-----------------------------------------------------------------------------

\* Quotas that are asked for at once never exceed the cycle's.
CapacityHolds == Taken <= Capacity

\* A member owes the first months of the cycle, each at the same amount,
\* however often and with whatever dates it came in.
DuesAreWhole ==
    \A m \in Members : \A k \in 1..Months : dues[m][k].status # "none" =>
        /\ participation[m] # "none"
        /\ \A j \in 1..k : dues[m][j].status # "none" /\ dues[m][j].units = dues[m][k].units

\* Who has left or is blocked is asked for nothing more, but for what was paid
\* and is reversed.
LeaversAreNotBilled ==
    \A m \in Members : participation[m] \notin {"none", "ACTIVE"} =>
        \A k \in 1..Months : dues[m][k].status = "PENDING" => dues[m][k].undone

EntriesAreSound == CapacityHolds /\ DuesAreWhole /\ LeaversAreNotBilled
=============================================================================
