--------------------------- MODULE SchedulerLease ---------------------------
(***************************************************************************)
(* The durable checkpoint row of services/scheduler_runs.py and the tests  *)
(* and updates every operation on it is built from.  A SchedulerRun and a  *)
(* SchedulerRunUnit have the same lease columns, and the code shares these *)
(* helpers between them.  attempt_count, started_at, completed_at and      *)
(* last_error are written by the code and read by nobody: left out.        *)
(***************************************************************************)
EXTENDS Integers

CONSTANTS Owners,      \* lease_owner values: one uuid per invocation
          NoOwner,     \* SQL NULL in lease_owner
          Lease        \* lease_seconds, in clock ticks

ASSUME LeaseAssumption == Lease \in Nat \ {0} /\ NoOwner \notin Owners

(* "ABSENT": no such row yet. *)
Statuses == {"ABSENT", "PENDING", "RUNNING", "SUCCEEDED", "FAILED"}

Rows == [status : Statuses, owner : Owners \cup {NoOwner}, expiry : Nat]

Absent  == [status |-> "ABSENT",  owner |-> NoOwner, expiry |-> 0]
Pending == [status |-> "PENDING", owner |-> NoOwner, expiry |-> 0]

(* Seeded bug: the claim of a row forgets that SUCCEEDED is final. *)
Claimable_ReopensSucceeded(row, at) == row.status = "RUNNING" => row.expiry <= at

(* _claim: a SUCCEEDED row is final, a RUNNING one is somebody's until the *)
(* claimant's reading of the clock reaches its expiry.                     *)
Claimable(row, at) ==
    /\ row.status # "SUCCEEDED"
    /\ row.status = "RUNNING" => row.expiry <= at

(* Seeded bug: a claim that does not record its owner. *)
ClaimedBy_Anonymous(o, at) == [status |-> "RUNNING", owner |-> NoOwner, expiry |-> at + Lease]

ClaimedBy(o, at) == [status |-> "RUNNING", owner |-> o, expiry |-> at + Lease]

(* _assert_claim *)
Holds(row, o, at) ==
    /\ row.status = "RUNNING"
    /\ row.owner = o
    /\ row.expiry > at

(* renew_run_lease, after its _assert_claim *)
Renewed(row, at) == [row EXCEPT !.expiry = at + Lease]

(* The terminal updates clear the lease columns. *)
Ended(status) == [status |-> status, owner |-> NoOwner, expiry |-> 0]
=============================================================================
