--------------------------- MODULE CycleScheduler ---------------------------
(***************************************************************************)
(* run_cycle_participation_tasks (worker/tasks.py) over the durable        *)
(* checkpoints of services/scheduler_runs.py, for one financial date.      *)
(*                                                                         *)
(* An attempt is one invocation, with a lease owner of its own.  Several   *)
(* can be alive for the same date: the redis slot is taken by one replica, *)
(* but a redis outage lets every replica in.  All database transactions of *)
(* the job start by locking the SchedulerRun row (FOR UPDATE), so that row *)
(* lock is the unit of interleaving: a transaction that takes the lock and *)
(* commits at once is one action, the two that keep it while effects run   *)
(* (snapshot, unit effects, closing) are an acquire and a commit, with     *)
(* time, failures and crashes in between.  Clock readings made before the  *)
(* wait for the lock are steps of their own: they are stale when used.     *)
(***************************************************************************)
EXTENDS SchedulerLease, FiniteSets

CONSTANTS Participations,  \* CycleParticipation ids
          MaxTime,         \* bound: the clock stops here
          MaxFaults        \* bound: crashes and failing transactions

ASSUME CycleAssumption == /\ Participations \subseteq Nat
                          /\ MaxTime \in Nat
                          /\ MaxFaults \in Nat

Attempts == Owners

VARIABLES now,      \* wall clock (UTC), read by every replica
          slot,     \* the redis key of the date exists
          run,      \* the SchedulerRun row
          unit,     \* the SchedulerRunUnit row of each participation
          applied,  \* how often the effects of a unit were committed
          lock,     \* who holds the FOR UPDATE lock on the run row
          pc,       \* where each attempt is
          clock,    \* its last reading of the clock
          todo,     \* units of its unit_snapshot still ahead of it
          faults    \* crashes and failures so far

durable == <<run, unit, applied>>
vars == <<now, slot, durable, lock, pc, clock, todo, faults>>

Waiting  == {"claim", "snapshot", "renew", "claimUnit", "checkOwner",
             "lockUnit", "failUnit", "failRun", "finalRenew", "finalLock"}
Locked   == {"snapshotting", "effects", "closing"}
Finished == {"idle", "done"}
Places   == Waiting \cup Locked \cup Finished \cup {"readClock"}

Snapshot == {p \in Participations : unit[p].status # "ABSENT"}

(* Units are processed in id order, which is participation order. *)
Current(a) == CHOOSE p \in todo[a] : \A q \in todo[a] : p <= q

Init == /\ now = 0
        /\ slot = FALSE
        /\ run = Absent
        /\ unit = [p \in Participations |-> Absent]
        /\ applied = [p \in Participations |-> 0]
        /\ lock = NoOwner
        /\ pc = [a \in Attempts |-> "idle"]
        /\ clock = [a \in Attempts |-> 0]
        /\ todo = [a \in Attempts |-> {}]
        /\ faults = 0

-----------------------------------------------------------------------------
(* Shapes shared by the steps.                                             *)

At(a, place) == pc[a] = place
Goto(a, place) == pc' = [pc EXCEPT ![a] = place]
ReadClock(a) == clock' = [clock EXCEPT ![a] = now]

(* A transaction that takes the run lock and commits before anyone else    *)
(* can look: it waits for the lock and leaves it free.                     *)
ShortTxn(a, place) == /\ At(a, place)
                      /\ lock = NoOwner
                      /\ UNCHANGED <<now, slot, lock, applied, faults>>

(* The next unit, or the final transition once there is none. *)
NextUnit(a) == IF todo'[a] = {} THEN Goto(a, "finalRenew") ELSE Goto(a, "renew")
(* Seeded bug: a unit that is passed over stays at the head of the list. *)
Skip_KeepsUnit(a) == UNCHANGED todo /\ NextUnit(a)

Skip(a) == todo' = [todo EXCEPT ![a] = @ \ {Current(a)}] /\ NextUnit(a)

Tick == /\ now < MaxTime
        /\ now' = now + 1
        /\ UNCHANGED <<slot, durable, lock, pc, clock, todo, faults>>

-----------------------------------------------------------------------------
(* main: dispatch when the slot was won, or when redis cannot be reached   *)
(* (fail-open); otherwise the replica skips the date.                      *)
Dispatch(a) ==
    /\ At(a, "idle")
    /\ \/ slot = FALSE /\ slot' = TRUE    \* SET NX won
       \/ UNCHANGED slot                  \* transport error: fail-open
    /\ ReadClock(a)
    /\ Goto(a, "claim")
    /\ UNCHANGED <<now, durable, lock, todo, faults>>

SlotOccupied(a) ==
    /\ At(a, "idle")
    /\ slot
    /\ Goto(a, "done")
    /\ UNCHANGED <<now, slot, durable, lock, clock, todo, faults>>

(* get_or_create_run and claim_run, with the reading made before the lock. *)
ClaimRun(a) ==
    /\ ShortTxn(a, "claim")
    /\ IF Claimable(run, clock[a])
       THEN run' = ClaimedBy(a, clock[a]) /\ Goto(a, "snapshot")
       ELSE UNCHANGED run /\ Goto(a, "done")
    /\ UNCHANGED <<unit, clock, todo>>

-----------------------------------------------------------------------------
(* The snapshot transaction.                                               *)

LockForSnapshot(a) ==
    /\ At(a, "snapshot")
    /\ lock = NoOwner
    /\ IF Holds(run, a, now)
       THEN lock' = a /\ Goto(a, "snapshotting") /\ UNCHANGED clock
       ELSE UNCHANGED lock /\ Goto(a, "failRun") /\ ReadClock(a)
    /\ UNCHANGED <<now, slot, durable, todo, faults>>

(* The units already there, or else the participations ACTIVE now: joins   *)
(* and exits are free, so S is any set.                                    *)
TakeSnapshot(a) ==
    /\ At(a, "snapshotting")
    /\ \E S \in SUBSET Participations :
          /\ Snapshot # {} => S = Snapshot
          /\ unit' = [p \in Participations |->
                         IF p \in S /\ p \notin Snapshot THEN Pending ELSE unit[p]]
          /\ todo' = [todo EXCEPT ![a] = S]
          /\ IF S = {}
             THEN run' = Ended("SUCCEEDED") /\ Goto(a, "done")
             ELSE UNCHANGED run /\ Goto(a, "renew")
    /\ lock' = NoOwner
    /\ UNCHANGED <<now, slot, applied, clock, faults>>

(* mark_run_failed after a failed snapshot; the attempt then re-raises. *)
FailRun(a) ==
    /\ ShortTxn(a, "failRun")
    /\ IF Holds(run, a, clock[a]) THEN run' = Ended("FAILED") ELSE UNCHANGED run
    /\ Goto(a, "done")
    /\ UNCHANGED <<unit, clock, todo>>

-----------------------------------------------------------------------------
(* The loop over the units.                                                *)

(* Seeded bug: the renewal looks at the owner and not at the expiry. *)
RenewRun_IgnoresExpiry(a) ==
    /\ ShortTxn(a, "renew")
    /\ IF run.status = "RUNNING" /\ run.owner = a
       THEN run' = Renewed(run, now) /\ Goto(a, "readClock")
       ELSE UNCHANGED run /\ Goto(a, "done")
    /\ UNCHANGED <<unit, clock, todo>>

(* renew_run_lease: a fresh reading, made with the lock held. *)
RenewRun(a) ==
    /\ ShortTxn(a, "renew")
    /\ IF Holds(run, a, now)
       THEN run' = Renewed(run, now) /\ Goto(a, "readClock")
       ELSE UNCHANGED run /\ Goto(a, "done")
    /\ UNCHANGED <<unit, clock, todo>>

ReadUnitClock(a) ==
    /\ At(a, "readClock")
    /\ ReadClock(a)
    /\ Goto(a, "claimUnit")
    /\ UNCHANGED <<now, slot, durable, lock, todo, faults>>

(* claim_unit: an orphan of another owner is claimable whatever its lease. *)
UnitClaimable(row, a) ==
    \/ Claimable(row, clock[a])
    \/ row.status = "RUNNING" /\ row.owner # a

ClaimUnit(a) ==
    LET p == Current(a) IN
    /\ ShortTxn(a, "claimUnit")
    /\ \/ /\ Holds(run, a, clock[a]) /\ UnitClaimable(unit[p], a)
          /\ unit' = [unit EXCEPT ![p] = ClaimedBy(a, clock[a])]
          /\ Goto(a, "lockUnit")
          /\ UNCHANGED todo
       \/ /\ ~(Holds(run, a, clock[a]) /\ UnitClaimable(unit[p], a))
          /\ UNCHANGED unit
          /\ IF unit[p].status = "SUCCEEDED"
             THEN Skip(a)
             ELSE Goto(a, "checkOwner") /\ UNCHANGED todo
    /\ UNCHANGED <<run, clock>>

(* Not claimed and not SUCCEEDED: go on only while the run is still ours. *)
CheckOwner(a) ==
    /\ ShortTxn(a, "checkOwner")
    /\ IF Holds(run, a, now) THEN Skip(a) ELSE Goto(a, "done") /\ UNCHANGED todo
    /\ UNCHANGED <<run, unit, clock>>

(* Seeded bug: the transaction that checked the leases ends before the effects. *)
LockUnit_ReleasesLock(a) ==
    /\ At(a, "lockUnit")
    /\ lock = NoOwner
    /\ IF Holds(run, a, now) /\ Holds(unit[Current(a)], a, now)
       THEN Goto(a, "effects") /\ UNCHANGED clock
       ELSE Goto(a, "failUnit") /\ ReadClock(a)
    /\ UNCHANGED <<now, slot, durable, lock, todo, faults>>

(* lock_unit_for_execution: both leases, by a reading made after the locks. *)
LockUnit(a) ==
    /\ At(a, "lockUnit")
    /\ lock = NoOwner
    /\ IF Holds(run, a, now) /\ Holds(unit[Current(a)], a, now)
       THEN lock' = a /\ Goto(a, "effects") /\ UNCHANGED clock
       ELSE UNCHANGED lock /\ Goto(a, "failUnit") /\ ReadClock(a)
    /\ UNCHANGED <<now, slot, durable, todo, faults>>

(* Seeded bug: effects already committed are checkpointed FAILED when the  *)
(* lease ran out while they executed.                                      *)
CommitUnit_RechecksLease(a) ==
    LET p == Current(a) IN
    /\ At(a, "effects")
    /\ unit' = [unit EXCEPT ![p] =
                   Ended(IF Holds(run, a, now) THEN "SUCCEEDED" ELSE "FAILED")]
    /\ applied' = [applied EXCEPT ![p] = @ + 1]
    /\ lock' = NoOwner
    /\ Skip(a)
    /\ UNCHANGED <<now, slot, run, clock, faults>>

(* ensure_contributions_for_entry, materialize_active_charges and          *)
(* evaluate_delinquency commit together with the unit's SUCCEEDED.  The    *)
(* leases are not read again: the lock is what protects them by now.       *)
CommitUnit(a) ==
    LET p == Current(a) IN
    /\ At(a, "effects")
    /\ unit' = [unit EXCEPT ![p] = Ended("SUCCEEDED")]
    /\ applied' = [applied EXCEPT ![p] = @ + 1]
    /\ lock' = NoOwner
    /\ Skip(a)
    /\ UNCHANGED <<now, slot, run, clock, faults>>

(* mark_unit_failed; a lost lease ends the attempt, with the run as it is. *)
FailUnit(a) ==
    LET p == Current(a) IN
    /\ ShortTxn(a, "failUnit")
    /\ IF Holds(run, a, clock[a]) /\ Holds(unit[p], a, clock[a])
       THEN unit' = [unit EXCEPT ![p] = Ended("FAILED")] /\ Skip(a)
       ELSE Goto(a, "done") /\ UNCHANGED <<unit, todo>>
    /\ UNCHANGED <<run, clock>>

-----------------------------------------------------------------------------
(* The final transition.                                                   *)

FinalRenew(a) ==
    /\ ShortTxn(a, "finalRenew")
    /\ IF Holds(run, a, now)
       THEN run' = Renewed(run, now) /\ Goto(a, "finalLock")
       ELSE UNCHANGED run /\ Goto(a, "done")
    /\ UNCHANGED <<unit, clock, todo>>

FinalLock(a) ==
    /\ At(a, "finalLock")
    /\ lock = NoOwner
    /\ IF Holds(run, a, now)
       THEN lock' = a /\ Goto(a, "closing")
       ELSE UNCHANGED lock /\ Goto(a, "done")
    /\ UNCHANGED <<now, slot, durable, clock, todo, faults>>

(* Seeded bug: only units never started keep the run from succeeding. *)
CloseRun_IgnoresFailedUnits(a) ==
    /\ At(a, "closing")
    /\ run' = IF \A p \in Snapshot : unit[p].status # "PENDING" THEN Ended("SUCCEEDED")
              ELSE IF Holds(run, a, now) THEN Ended("FAILED") ELSE run
    /\ lock' = NoOwner
    /\ Goto(a, "done")
    /\ UNCHANGED <<now, slot, unit, applied, clock, todo, faults>>

(* Seeded bug: the run is measured against all participations. *)
CloseRun_WantsEveryone(a) ==
    /\ At(a, "closing")
    /\ run' = IF \A p \in Participations : unit[p].status = "SUCCEEDED" THEN Ended("SUCCEEDED")
              ELSE IF Holds(run, a, now) THEN Ended("FAILED") ELSE run
    /\ lock' = NoOwner
    /\ Goto(a, "done")
    /\ UNCHANGED <<now, slot, unit, applied, clock, todo, faults>>

(* mark_run_failed reads the clock again, so a lease that ran out since    *)
(* FinalLock leaves the run RUNNING; success does not look again.          *)
CloseRun(a) ==
    /\ At(a, "closing")
    /\ run' = IF \A p \in Snapshot : unit[p].status = "SUCCEEDED" THEN Ended("SUCCEEDED")
              ELSE IF Holds(run, a, now) THEN Ended("FAILED") ELSE run
    /\ lock' = NoOwner
    /\ Goto(a, "done")
    /\ UNCHANGED <<now, slot, unit, applied, clock, todo, faults>>

-----------------------------------------------------------------------------
(* Failures: an exception rolls the transaction back and a crash also ends *)
(* the attempt.  Both free the row lock and undo what was not committed.   *)

Fault == faults < MaxFaults /\ faults' = faults + 1

EffectsFail(a) ==
    /\ Fault
    /\ \/ At(a, "snapshotting") /\ Goto(a, "failRun")
       \/ At(a, "effects") /\ Goto(a, "failUnit")
    /\ ReadClock(a)
    /\ lock' = NoOwner
    /\ UNCHANGED <<now, slot, durable, todo>>

(* mark_unit_failed itself fails: the unit stays RUNNING and the loop goes on. *)
CheckpointFails(a) ==
    /\ Fault
    /\ At(a, "failUnit")
    /\ Skip(a)
    /\ UNCHANGED <<now, slot, durable, lock, clock>>

(* The process dies, or an exception leaves run_cycle_participation_tasks. *)
Crash(a) ==
    /\ Fault
    /\ pc[a] \notin Finished
    /\ Goto(a, "done")
    /\ lock' = IF lock = a THEN NoOwner ELSE lock
    /\ UNCHANGED <<now, slot, durable, clock, todo>>

-----------------------------------------------------------------------------
Work(a) == \/ ClaimRun(a) \/ LockForSnapshot(a) \/ TakeSnapshot(a) \/ FailRun(a)
           \/ RenewRun(a) \/ ReadUnitClock(a) \/ ClaimUnit(a) \/ CheckOwner(a)
           \/ LockUnit(a) \/ CommitUnit(a) \/ FailUnit(a)
           \/ FinalRenew(a) \/ FinalLock(a) \/ CloseRun(a)

Next == \/ Tick
        \/ \E a \in Attempts : \/ Dispatch(a) \/ SlotOccupied(a) \/ Work(a)
                               \/ EffectsFail(a) \/ CheckpointFails(a) \/ Crash(a)

Spec == Init /\ [][Next]_vars

(* A live attempt keeps executing, and PostgreSQL queues the waiters of a  *)
(* row lock, so a waiter is served however often the lock changes hands.   *)
FairSpec == Spec /\ \A a \in Attempts : SF_vars(Work(a))
-----------------------------------------------------------------------------
(* Properties.                                                             *)

(* The types of all variables, and the lease columns as the CHECK          *)
(* constraints of scheduler_runs and scheduler_run_units have them.        *)
ValidRows == {row \in Rows : row.owner # NoOwner <=> row.status = "RUNNING"}

TypeOK == /\ now \in 0..MaxTime
          /\ slot \in BOOLEAN
          /\ run \in ValidRows
          /\ unit \in [Participations -> ValidRows]
          /\ applied \in [Participations -> Nat]
          /\ lock \in Attempts \cup {NoOwner}
          /\ pc \in [Attempts -> Places]
          /\ clock \in [Attempts -> 0..MaxTime]
          /\ todo \in [Attempts -> SUBSET Participations]
          /\ faults \in 0..MaxFaults

(* A unit's checkpoint and its effects never come apart: SUCCEEDED exactly *)
(* when its effects were committed, and then once, however many attempts,  *)
(* reclaims, crashes and failed checkpoints the day has seen.              *)
CheckpointMatchesEffects ==
    \A p \in Participations :
        applied[p] = IF unit[p].status = "SUCCEEDED" THEN 1 ELSE 0

(* A run that reads SUCCEEDED has applied every unit of its snapshot, so   *)
(* that the date is never closed over a participation left undone.         *)
SucceededRunIsComplete ==
    run.status = "SUCCEEDED" =>
        \A p \in Snapshot : unit[p].status = "SUCCEEDED" /\ applied[p] = 1

(* Fencing: whoever is inside an effects transaction is still the owner of *)
(* the run and of the unit, even when its lease ran out meanwhile.         *)
ExecutorIsOwner ==
    \A a \in Attempts :
        /\ At(a, "effects") => run.owner = a /\ unit[Current(a)].owner = a
        /\ At(a, "closing") => run.owner = a

(* The first committed unit set is the snapshot of the date: it never      *)
(* grows, and an observed empty snapshot stays empty.                      *)
KeepsSnapshot == Snapshot # {} \/ run.status = "SUCCEEDED" => Snapshot' = Snapshot
SnapshotImmutable == [][KeepsSnapshot]_vars

(* A lease that has run out is never extended for its owner: only another  *)
(* claim can make the run live again.                                      *)
RevivesNobody == (run.status = "RUNNING" /\ run.expiry <= now /\ run' # run)
                    => run'.status # "RUNNING" \/ run'.owner # run.owner
ExpiredLeaseIsNotRevived == [][RevivesNobody]_vars

(* A worker that lost the run writes nothing any more: whenever a unit of  *)
(* the snapshot changes, the run is RUNNING under the owner that wrote it. *)
WrittenByOwner == \A p \in Snapshot : unit'[p] # unit[p] =>
                    /\ run' = run /\ run.status = "RUNNING"
                    /\ run.owner \in {unit[p].owner, unit'[p].owner}
OnlyOwnerWritesUnits == [][WrittenByOwner]_vars

(* What no step may do to a date: change its snapshot, bring a lease back,  *)
(* write a unit for a worker that lost the run.                            *)
StepsAreFenced == SnapshotImmutable /\ ExpiredLeaseIsNotRevived /\ OnlyOwnerWritesUnits

(* The detailed protocol implements the abstract day.                      *)
Abstract == INSTANCE DailyJob WITH snapshot <- Snapshot,
                                   closed <- run.status = "SUCCEEDED"
ImplementsDailyJob == Abstract!Spec

(* Lock waits, retries inside the loop and lost leases never keep an       *)
(* invocation going for ever: each one that starts also ends.              *)
EveryAttemptEnds == \A a \in Attempts : At(a, "claim") ~> At(a, "done")

(* When nothing fails and no lease runs out, one dispatch closes the date. *)
Undisturbed == faults = 0 /\ ~(run.status = "RUNNING" /\ run.expiry <= now)
UndisturbedDayCloses ==
    [](([]Undisturbed /\ \E a \in Attempts : At(a, "claim"))
          => <>(run.status = "SUCCEEDED"))
=============================================================================
