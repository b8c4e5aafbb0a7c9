----------------------- MODULE CycleScheduler_proofs -----------------------
(***************************************************************************)
(* Proofs about CycleScheduler for any set of invocations, any set of      *)
(* participations, any lease and any bound on time and faults.             *)
(***************************************************************************)
EXTENDS CycleScheduler, WellFoundedInduction, TLAPS

-----------------------------------------------------------------------------
(* The inductive invariant.                                                *)

(* Exactly the attempt inside an executing transaction has the row lock. *)
LockInv == \A a \in Attempts : pc[a] \in Locked <=> lock = a

(* Inside such a transaction the run, and the unit being executed, are     *)
(* RUNNING under that attempt: nobody could touch either since the check.  *)
(* An attempt that has not claimed yet owns nothing.                       *)
OwnsRun(a) == run.status = "RUNNING" /\ run.owner = a
OwnsUnit(a, p) == unit[p].status = "RUNNING" /\ unit[p].owner = a

OwnerInv == \A a \in Attempts : /\ pc[a] \in Locked => OwnsRun(a)
                                /\ pc[a] = "effects" => OwnsUnit(a, Current(a))
                                /\ pc[a] \in {"idle", "claim"} => run.owner # a

(* The list of an attempt is part of the snapshot, not empty in the loop. *)
InLoop == {"renew", "readClock", "claimUnit", "checkOwner", "lockUnit", "effects", "failUnit"}

TodoInv == \A a \in Attempts : /\ todo[a] \subseteq Snapshot
                               /\ pc[a] \in InLoop => todo[a] # {}

IInv == /\ TypeOK
        /\ LockInv
        /\ OwnerInv
        /\ TodoInv
        /\ CheckpointMatchesEffects
        /\ SucceededRunIsComplete

-----------------------------------------------------------------------------
(* The unit at the head of a list that is not empty is one of the list. *)
LEMMA CurrentInTodo ==
    ASSUME NEW a \in Attempts, todo[a] \subseteq Participations, todo[a] # {}
    PROVE  Current(a) \in todo[a]
<1>1. todo[a] \subseteq Nat
  BY CycleAssumption
<1>2. PICK p \in todo[a] : \A q \in todo[a] : ~ (<<q, p>> \in OpToRel(<, Nat))
  BY <1>1, NatLessThanWellFounded, WFMin
<1>3. \A q \in todo[a] : p <= q
  <2> SUFFICES ASSUME NEW q \in todo[a] PROVE p <= q
    OBVIOUS
  <2>1. p \in Nat /\ q \in Nat
    BY <1>1
  <2>2. ~ (q < p)
    BY <1>2, <2>1 DEF OpToRel
  <2> QED BY <2>1, <2>2
<1> QED BY <1>3 DEF Current

-----------------------------------------------------------------------------
(* The rows that the operations write are well formed. *)
LEMMA RowFacts ==
    /\ Absent \in ValidRows /\ Pending \in ValidRows
    /\ \A st \in Statuses \ {"RUNNING"} : Ended(st) \in ValidRows
    /\ \A a \in Attempts, t \in Nat : ClaimedBy(a, t) \in ValidRows
    /\ \A a \in Attempts, t \in Nat, row \in ValidRows :
          Holds(row, a, t) => Renewed(row, t) \in ValidRows
BY LeaseAssumption DEF ValidRows, Absent, Pending, Ended, ClaimedBy, Holds, Renewed,
   Rows, Statuses, Attempts

(* Every step keeps the types. *)
LEMMA TypeStep == TypeOK /\ [Next]_vars => TypeOK'
<1> SUFFICES ASSUME TypeOK, [Next]_vars PROVE TypeOK'
  OBVIOUS
<1> USE RowFacts, LeaseAssumption, CycleAssumption DEF TypeOK, At, Goto, ReadClock, ShortTxn, NextUnit, Skip, durable, Fault, Places, Waiting, Locked, Finished, Statuses
<1>0. CASE UNCHANGED vars
  BY <1>0 DEF vars
<1>1. CASE Tick
  BY <1>1 DEF Tick
<1>2. ASSUME NEW a \in Attempts, Dispatch(a) PROVE TypeOK'
  BY <1>2 DEF Dispatch
<1>3. ASSUME NEW a \in Attempts, SlotOccupied(a) PROVE TypeOK'
  BY <1>3 DEF SlotOccupied
<1>4. ASSUME NEW a \in Attempts, ClaimRun(a) PROVE TypeOK'
  BY <1>4 DEF ClaimRun
<1>5. ASSUME NEW a \in Attempts, LockForSnapshot(a) PROVE TypeOK'
  BY <1>5 DEF LockForSnapshot
<1>6. ASSUME NEW a \in Attempts, TakeSnapshot(a) PROVE TypeOK'
  BY <1>6 DEF TakeSnapshot
<1>7. ASSUME NEW a \in Attempts, FailRun(a) PROVE TypeOK'
  BY <1>7 DEF FailRun
<1>8. ASSUME NEW a \in Attempts, RenewRun(a) PROVE TypeOK'
  BY <1>8 DEF RenewRun
<1>9. ASSUME NEW a \in Attempts, ReadUnitClock(a) PROVE TypeOK'
  BY <1>9 DEF ReadUnitClock
<1>10. ASSUME NEW a \in Attempts, ClaimUnit(a) PROVE TypeOK'
  BY <1>10 DEF ClaimUnit
<1>11. ASSUME NEW a \in Attempts, CheckOwner(a) PROVE TypeOK'
  BY <1>11 DEF CheckOwner
<1>12. ASSUME NEW a \in Attempts, LockUnit(a) PROVE TypeOK'
  BY <1>12 DEF LockUnit
<1>13. ASSUME NEW a \in Attempts, CommitUnit(a) PROVE TypeOK'
  <2>1. unit' \in [Participations -> ValidRows]
    BY <1>13 DEF CommitUnit
  <2>2. applied' \in [Participations -> Nat]
    <3>1. applied' = [applied EXCEPT ![Current(a)] = applied[Current(a)] + 1]
      BY <1>13 DEF CommitUnit
    <3>2. \A p \in Participations : applied'[p] \in Nat
      BY <3>1
    <3> QED BY <3>1, <3>2
  <2>3. todo' \in [Attempts -> SUBSET Participations] /\ pc' \in [Attempts -> Places]
    BY <1>13 DEF CommitUnit
  <2> QED BY <2>1, <2>2, <2>3, <1>13 DEF CommitUnit
<1>14. ASSUME NEW a \in Attempts, FailUnit(a) PROVE TypeOK'
  BY <1>14 DEF FailUnit
<1>15. ASSUME NEW a \in Attempts, FinalRenew(a) PROVE TypeOK'
  BY <1>15 DEF FinalRenew
<1>16. ASSUME NEW a \in Attempts, FinalLock(a) PROVE TypeOK'
  BY <1>16 DEF FinalLock
<1>17. ASSUME NEW a \in Attempts, CloseRun(a) PROVE TypeOK'
  BY <1>17 DEF CloseRun
<1>18. ASSUME NEW a \in Attempts, EffectsFail(a) PROVE TypeOK'
  BY <1>18 DEF EffectsFail
<1>19. ASSUME NEW a \in Attempts, CheckpointFails(a) PROVE TypeOK'
  BY <1>19 DEF CheckpointFails
<1>20. ASSUME NEW a \in Attempts, Crash(a) PROVE TypeOK'
  BY <1>20 DEF Crash
<1> QED BY <1>0, <1>1, <1>2, <1>3, <1>4, <1>5, <1>6, <1>7, <1>8, <1>9, <1>10, <1>11, <1>12, <1>13, <1>14, <1>15, <1>16, <1>17, <1>18, <1>19, <1>20 DEF Next, Work

(* The row lock is held exactly inside the executing transactions. *)
LEMMA LockStep == TypeOK /\ LockInv /\ [Next]_vars => LockInv'
<1> SUFFICES ASSUME TypeOK, LockInv, [Next]_vars PROVE LockInv'
  OBVIOUS
<1> USE LeaseAssumption DEF TypeOK, LockInv, At, Goto, ReadClock, ShortTxn, NextUnit, Skip, durable, Fault, Places, Waiting, Locked, Finished, Attempts
<1>0. CASE UNCHANGED vars
  BY <1>0 DEF vars
<1>1. CASE Tick
  BY <1>1 DEF Tick
<1>2. ASSUME NEW a \in Attempts, Dispatch(a) PROVE LockInv'
  BY <1>2 DEF Dispatch
<1>3. ASSUME NEW a \in Attempts, SlotOccupied(a) PROVE LockInv'
  BY <1>3 DEF SlotOccupied
<1>4. ASSUME NEW a \in Attempts, ClaimRun(a) PROVE LockInv'
  BY <1>4 DEF ClaimRun
<1>5. ASSUME NEW a \in Attempts, LockForSnapshot(a) PROVE LockInv'
  BY <1>5 DEF LockForSnapshot
<1>6. ASSUME NEW a \in Attempts, TakeSnapshot(a) PROVE LockInv'
  BY <1>6 DEF TakeSnapshot
<1>7. ASSUME NEW a \in Attempts, FailRun(a) PROVE LockInv'
  BY <1>7 DEF FailRun
<1>8. ASSUME NEW a \in Attempts, RenewRun(a) PROVE LockInv'
  BY <1>8 DEF RenewRun
<1>9. ASSUME NEW a \in Attempts, ReadUnitClock(a) PROVE LockInv'
  BY <1>9 DEF ReadUnitClock
<1>10. ASSUME NEW a \in Attempts, ClaimUnit(a) PROVE LockInv'
  BY <1>10 DEF ClaimUnit
<1>11. ASSUME NEW a \in Attempts, CheckOwner(a) PROVE LockInv'
  BY <1>11 DEF CheckOwner
<1>12. ASSUME NEW a \in Attempts, LockUnit(a) PROVE LockInv'
  BY <1>12 DEF LockUnit
<1>13. ASSUME NEW a \in Attempts, CommitUnit(a) PROVE LockInv'
  BY <1>13 DEF CommitUnit
<1>14. ASSUME NEW a \in Attempts, FailUnit(a) PROVE LockInv'
  BY <1>14 DEF FailUnit
<1>15. ASSUME NEW a \in Attempts, FinalRenew(a) PROVE LockInv'
  BY <1>15 DEF FinalRenew
<1>16. ASSUME NEW a \in Attempts, FinalLock(a) PROVE LockInv'
  BY <1>16 DEF FinalLock
<1>17. ASSUME NEW a \in Attempts, CloseRun(a) PROVE LockInv'
  BY <1>17 DEF CloseRun
<1>18. ASSUME NEW a \in Attempts, EffectsFail(a) PROVE LockInv'
  BY <1>18 DEF EffectsFail
<1>19. ASSUME NEW a \in Attempts, CheckpointFails(a) PROVE LockInv'
  BY <1>19 DEF CheckpointFails
<1>20. ASSUME NEW a \in Attempts, Crash(a) PROVE LockInv'
  BY <1>20 DEF Crash
<1> QED BY <1>0, <1>1, <1>2, <1>3, <1>4, <1>5, <1>6, <1>7, <1>8, <1>9, <1>10, <1>11, <1>12, <1>13, <1>14, <1>15, <1>16, <1>17, <1>18, <1>19, <1>20 DEF Next, Work

(* The head of a list is a function of the list. *)
LEMMA CurrentStable ==
    ASSUME NEW a \in Attempts, todo'[a] = todo[a]
    PROVE  Current(a)' = Current(a)
BY DEF Current

(* Nobody takes a run or a unit away from an executing transaction. *)
LEMMA OwnerStep == TypeOK /\ LockInv /\ OwnerInv /\ [Next]_vars => OwnerInv'
<1> SUFFICES ASSUME TypeOK, LockInv, OwnerInv, [Next]_vars PROVE OwnerInv'
  OBVIOUS
<1> USE LeaseAssumption, CurrentStable DEF TypeOK, LockInv, OwnerInv, At, Goto, ReadClock, ShortTxn, NextUnit, Skip, durable, Fault, Places, Waiting, Locked, Finished, Attempts, OwnsRun, OwnsUnit, Holds, ClaimedBy, Ended
<1>0. CASE UNCHANGED vars
  BY <1>0 DEF vars
<1>1. CASE Tick
  BY <1>1 DEF Tick
<1>2. ASSUME NEW a \in Attempts, Dispatch(a) PROVE OwnerInv'
  BY <1>2 DEF Dispatch
<1>3. ASSUME NEW a \in Attempts, SlotOccupied(a) PROVE OwnerInv'
  BY <1>3 DEF SlotOccupied
<1>4. ASSUME NEW a \in Attempts, ClaimRun(a) PROVE OwnerInv'
  BY <1>4 DEF ClaimRun
<1>5. ASSUME NEW a \in Attempts, LockForSnapshot(a) PROVE OwnerInv'
  BY <1>5 DEF LockForSnapshot
<1>6. ASSUME NEW a \in Attempts, TakeSnapshot(a) PROVE OwnerInv'
  BY <1>6 DEF TakeSnapshot
<1>7. ASSUME NEW a \in Attempts, FailRun(a) PROVE OwnerInv'
  BY <1>7 DEF FailRun
<1>8. ASSUME NEW a \in Attempts, RenewRun(a) PROVE OwnerInv'
  BY <1>8 DEF RenewRun, Renewed, ValidRows, Rows
<1>9. ASSUME NEW a \in Attempts, ReadUnitClock(a) PROVE OwnerInv'
  BY <1>9 DEF ReadUnitClock
<1>10. ASSUME NEW a \in Attempts, ClaimUnit(a) PROVE OwnerInv'
  BY <1>10 DEF ClaimUnit
<1>11. ASSUME NEW a \in Attempts, CheckOwner(a) PROVE OwnerInv'
  BY <1>11 DEF CheckOwner
<1>12. ASSUME NEW a \in Attempts, LockUnit(a) PROVE OwnerInv'
  BY <1>12 DEF LockUnit
<1>13. ASSUME NEW a \in Attempts, CommitUnit(a) PROVE OwnerInv'
  BY <1>13 DEF CommitUnit
<1>14. ASSUME NEW a \in Attempts, FailUnit(a) PROVE OwnerInv'
  BY <1>14 DEF FailUnit
<1>15. ASSUME NEW a \in Attempts, FinalRenew(a) PROVE OwnerInv'
  BY <1>15 DEF FinalRenew, Renewed, ValidRows, Rows
<1>16. ASSUME NEW a \in Attempts, FinalLock(a) PROVE OwnerInv'
  BY <1>16 DEF FinalLock
<1>17. ASSUME NEW a \in Attempts, CloseRun(a) PROVE OwnerInv'
  BY <1>17 DEF CloseRun
<1>18. ASSUME NEW a \in Attempts, EffectsFail(a) PROVE OwnerInv'
  BY <1>18 DEF EffectsFail
<1>19. ASSUME NEW a \in Attempts, CheckpointFails(a) PROVE OwnerInv'
  BY <1>19 DEF CheckpointFails
<1>20. ASSUME NEW a \in Attempts, Crash(a) PROVE OwnerInv'
  BY <1>20 DEF Crash
<1> QED BY <1>0, <1>1, <1>2, <1>3, <1>4, <1>5, <1>6, <1>7, <1>8, <1>9, <1>10, <1>11, <1>12, <1>13, <1>14, <1>15, <1>16, <1>17, <1>18, <1>19, <1>20 DEF Next, Work

(* The lists stay inside the snapshot, which never shrinks. *)
LEMMA TodoStep == TypeOK /\ LockInv /\ OwnerInv /\ TodoInv /\ [Next]_vars => TodoInv'
<1> SUFFICES ASSUME TypeOK, LockInv, OwnerInv, TodoInv, [Next]_vars PROVE TodoInv'
  OBVIOUS
<1> USE LeaseAssumption, CurrentStable DEF TypeOK, LockInv, OwnerInv, TodoInv, At, Goto, ReadClock, ShortTxn, NextUnit, Skip, durable, Fault, Places, Waiting, Locked, Finished, InLoop, Snapshot, ClaimedBy, Ended, Pending
<1>0. CASE UNCHANGED vars
  BY <1>0 DEF vars
<1>1. CASE Tick
  BY <1>1 DEF Tick
<1>2. ASSUME NEW a \in Attempts, Dispatch(a) PROVE TodoInv'
  BY <1>2 DEF Dispatch
<1>3. ASSUME NEW a \in Attempts, SlotOccupied(a) PROVE TodoInv'
  BY <1>3 DEF SlotOccupied
<1>4. ASSUME NEW a \in Attempts, ClaimRun(a) PROVE TodoInv'
  BY <1>4 DEF ClaimRun
<1>5. ASSUME NEW a \in Attempts, LockForSnapshot(a) PROVE TodoInv'
  BY <1>5 DEF LockForSnapshot
<1>6. ASSUME NEW a \in Attempts, TakeSnapshot(a) PROVE TodoInv'
  BY <1>6 DEF TakeSnapshot
<1>7. ASSUME NEW a \in Attempts, FailRun(a) PROVE TodoInv'
  BY <1>7 DEF FailRun
<1>8. ASSUME NEW a \in Attempts, RenewRun(a) PROVE TodoInv'
  BY <1>8 DEF RenewRun
<1>9. ASSUME NEW a \in Attempts, ReadUnitClock(a) PROVE TodoInv'
  BY <1>9 DEF ReadUnitClock
<1>10. ASSUME NEW a \in Attempts, ClaimUnit(a) PROVE TodoInv'
  BY <1>10 DEF ClaimUnit
<1>11. ASSUME NEW a \in Attempts, CheckOwner(a) PROVE TodoInv'
  BY <1>11 DEF CheckOwner
<1>12. ASSUME NEW a \in Attempts, LockUnit(a) PROVE TodoInv'
  BY <1>12 DEF LockUnit
<1>13. ASSUME NEW a \in Attempts, CommitUnit(a) PROVE TodoInv'
  BY <1>13 DEF CommitUnit
<1>14. ASSUME NEW a \in Attempts, FailUnit(a) PROVE TodoInv'
  BY <1>14 DEF FailUnit
<1>15. ASSUME NEW a \in Attempts, FinalRenew(a) PROVE TodoInv'
  BY <1>15 DEF FinalRenew
<1>16. ASSUME NEW a \in Attempts, FinalLock(a) PROVE TodoInv'
  BY <1>16 DEF FinalLock
<1>17. ASSUME NEW a \in Attempts, CloseRun(a) PROVE TodoInv'
  BY <1>17 DEF CloseRun
<1>18. ASSUME NEW a \in Attempts, EffectsFail(a) PROVE TodoInv'
  BY <1>18 DEF EffectsFail
<1>19. ASSUME NEW a \in Attempts, CheckpointFails(a) PROVE TodoInv'
  BY <1>19 DEF CheckpointFails
<1>20. ASSUME NEW a \in Attempts, Crash(a) PROVE TodoInv'
  BY <1>20 DEF Crash
<1> QED BY <1>0, <1>1, <1>2, <1>3, <1>4, <1>5, <1>6, <1>7, <1>8, <1>9, <1>10, <1>11, <1>12, <1>13, <1>14, <1>15, <1>16, <1>17, <1>18, <1>19, <1>20 DEF Next, Work

(* A unit is SUCCEEDED when and only when its effects were committed. *)
LEMMA CheckpointStep == TypeOK /\ OwnerInv /\ CheckpointMatchesEffects /\ [Next]_vars => CheckpointMatchesEffects'
<1> SUFFICES ASSUME TypeOK, OwnerInv, CheckpointMatchesEffects, [Next]_vars PROVE CheckpointMatchesEffects'
  OBVIOUS
<1> USE LeaseAssumption DEF TypeOK, OwnerInv, CheckpointMatchesEffects, At, Goto, ReadClock, ShortTxn, NextUnit, Skip, durable, Fault, Locked, Holds, ClaimedBy, Ended, Pending, Claimable, UnitClaimable, OwnsUnit
<1>0. CASE UNCHANGED vars
  BY <1>0 DEF vars
<1>1. CASE Tick
  BY <1>1 DEF Tick
<1>2. ASSUME NEW a \in Attempts, Dispatch(a) PROVE CheckpointMatchesEffects'
  BY <1>2 DEF Dispatch
<1>3. ASSUME NEW a \in Attempts, SlotOccupied(a) PROVE CheckpointMatchesEffects'
  BY <1>3 DEF SlotOccupied
<1>4. ASSUME NEW a \in Attempts, ClaimRun(a) PROVE CheckpointMatchesEffects'
  BY <1>4 DEF ClaimRun
<1>5. ASSUME NEW a \in Attempts, LockForSnapshot(a) PROVE CheckpointMatchesEffects'
  BY <1>5 DEF LockForSnapshot
<1>6. ASSUME NEW a \in Attempts, TakeSnapshot(a) PROVE CheckpointMatchesEffects'
  BY <1>6 DEF TakeSnapshot, Snapshot
<1>7. ASSUME NEW a \in Attempts, FailRun(a) PROVE CheckpointMatchesEffects'
  BY <1>7 DEF FailRun
<1>8. ASSUME NEW a \in Attempts, RenewRun(a) PROVE CheckpointMatchesEffects'
  BY <1>8 DEF RenewRun
<1>9. ASSUME NEW a \in Attempts, ReadUnitClock(a) PROVE CheckpointMatchesEffects'
  BY <1>9 DEF ReadUnitClock
<1>10. ASSUME NEW a \in Attempts, ClaimUnit(a) PROVE CheckpointMatchesEffects'
  BY <1>10 DEF ClaimUnit
<1>11. ASSUME NEW a \in Attempts, CheckOwner(a) PROVE CheckpointMatchesEffects'
  BY <1>11 DEF CheckOwner
<1>12. ASSUME NEW a \in Attempts, LockUnit(a) PROVE CheckpointMatchesEffects'
  BY <1>12 DEF LockUnit
<1>13. ASSUME NEW a \in Attempts, CommitUnit(a) PROVE CheckpointMatchesEffects'
  BY <1>13 DEF CommitUnit
<1>14. ASSUME NEW a \in Attempts, FailUnit(a) PROVE CheckpointMatchesEffects'
  BY <1>14 DEF FailUnit
<1>15. ASSUME NEW a \in Attempts, FinalRenew(a) PROVE CheckpointMatchesEffects'
  BY <1>15 DEF FinalRenew
<1>16. ASSUME NEW a \in Attempts, FinalLock(a) PROVE CheckpointMatchesEffects'
  BY <1>16 DEF FinalLock
<1>17. ASSUME NEW a \in Attempts, CloseRun(a) PROVE CheckpointMatchesEffects'
  BY <1>17 DEF CloseRun
<1>18. ASSUME NEW a \in Attempts, EffectsFail(a) PROVE CheckpointMatchesEffects'
  BY <1>18 DEF EffectsFail
<1>19. ASSUME NEW a \in Attempts, CheckpointFails(a) PROVE CheckpointMatchesEffects'
  BY <1>19 DEF CheckpointFails
<1>20. ASSUME NEW a \in Attempts, Crash(a) PROVE CheckpointMatchesEffects'
  BY <1>20 DEF Crash
<1> QED BY <1>0, <1>1, <1>2, <1>3, <1>4, <1>5, <1>6, <1>7, <1>8, <1>9, <1>10, <1>11, <1>12, <1>13, <1>14, <1>15, <1>16, <1>17, <1>18, <1>19, <1>20 DEF Next, Work

(* Nothing happens any more under a run that has SUCCEEDED. *)
LEMMA CompleteStep == TypeOK /\ LockInv /\ OwnerInv /\ CheckpointMatchesEffects /\ SucceededRunIsComplete /\ [Next]_vars => SucceededRunIsComplete'
<1> SUFFICES ASSUME TypeOK, LockInv, OwnerInv, CheckpointMatchesEffects, SucceededRunIsComplete, [Next]_vars PROVE SucceededRunIsComplete'
  OBVIOUS
<1> USE LeaseAssumption DEF TypeOK, LockInv, OwnerInv, CheckpointMatchesEffects, SucceededRunIsComplete, At, Goto, ReadClock, ShortTxn, NextUnit, Skip, durable, Fault, Locked, Snapshot, Holds, ClaimedBy, Renewed, Ended, Pending, Claimable, OwnsRun
<1>0. CASE UNCHANGED vars
  BY <1>0 DEF vars
<1>1. CASE Tick
  BY <1>1 DEF Tick
<1>2. ASSUME NEW a \in Attempts, Dispatch(a) PROVE SucceededRunIsComplete'
  BY <1>2 DEF Dispatch
<1>3. ASSUME NEW a \in Attempts, SlotOccupied(a) PROVE SucceededRunIsComplete'
  BY <1>3 DEF SlotOccupied
<1>4. ASSUME NEW a \in Attempts, ClaimRun(a) PROVE SucceededRunIsComplete'
  BY <1>4 DEF ClaimRun
<1>5. ASSUME NEW a \in Attempts, LockForSnapshot(a) PROVE SucceededRunIsComplete'
  BY <1>5 DEF LockForSnapshot
<1>6. ASSUME NEW a \in Attempts, TakeSnapshot(a) PROVE SucceededRunIsComplete'
  BY <1>6 DEF TakeSnapshot
<1>7. ASSUME NEW a \in Attempts, FailRun(a) PROVE SucceededRunIsComplete'
  BY <1>7 DEF FailRun
<1>8. ASSUME NEW a \in Attempts, RenewRun(a) PROVE SucceededRunIsComplete'
  BY <1>8 DEF RenewRun, ValidRows, Rows
<1>9. ASSUME NEW a \in Attempts, ReadUnitClock(a) PROVE SucceededRunIsComplete'
  BY <1>9 DEF ReadUnitClock
<1>10. ASSUME NEW a \in Attempts, ClaimUnit(a) PROVE SucceededRunIsComplete'
  BY <1>10 DEF ClaimUnit
<1>11. ASSUME NEW a \in Attempts, CheckOwner(a) PROVE SucceededRunIsComplete'
  BY <1>11 DEF CheckOwner
<1>12. ASSUME NEW a \in Attempts, LockUnit(a) PROVE SucceededRunIsComplete'
  BY <1>12 DEF LockUnit
<1>13. ASSUME NEW a \in Attempts, CommitUnit(a) PROVE SucceededRunIsComplete'
  BY <1>13 DEF CommitUnit
<1>14. ASSUME NEW a \in Attempts, FailUnit(a) PROVE SucceededRunIsComplete'
  BY <1>14 DEF FailUnit
<1>15. ASSUME NEW a \in Attempts, FinalRenew(a) PROVE SucceededRunIsComplete'
  BY <1>15 DEF FinalRenew, ValidRows, Rows
<1>16. ASSUME NEW a \in Attempts, FinalLock(a) PROVE SucceededRunIsComplete'
  BY <1>16 DEF FinalLock
<1>17. ASSUME NEW a \in Attempts, CloseRun(a) PROVE SucceededRunIsComplete'
  BY <1>17 DEF CloseRun
<1>18. ASSUME NEW a \in Attempts, EffectsFail(a) PROVE SucceededRunIsComplete'
  BY <1>18 DEF EffectsFail
<1>19. ASSUME NEW a \in Attempts, CheckpointFails(a) PROVE SucceededRunIsComplete'
  BY <1>19 DEF CheckpointFails
<1>20. ASSUME NEW a \in Attempts, Crash(a) PROVE SucceededRunIsComplete'
  BY <1>20 DEF Crash
<1> QED BY <1>0, <1>1, <1>2, <1>3, <1>4, <1>5, <1>6, <1>7, <1>8, <1>9, <1>10, <1>11, <1>12, <1>13, <1>14, <1>15, <1>16, <1>17, <1>18, <1>19, <1>20 DEF Next, Work

LEMMA InvInit == Init => IInv
<1> SUFFICES ASSUME Init PROVE IInv
  OBVIOUS
<1> USE LeaseAssumption, CycleAssumption DEF Init
<1>1. TypeOK
  <2>1. run \in ValidRows /\ unit \in [Participations -> ValidRows]
    BY RowFacts
  <2>2. pc \in [Attempts -> Places] /\ lock \in Attempts \cup {NoOwner}
    BY DEF Places, Finished
  <2>3. /\ now \in 0..MaxTime /\ faults \in 0..MaxFaults /\ slot \in BOOLEAN
        /\ applied \in [Participations -> Nat]
        /\ clock \in [Attempts -> 0..MaxTime]
        /\ todo \in [Attempts -> SUBSET Participations]
    <3>1. 0 \in 0..MaxTime /\ 0 \in 0..MaxFaults /\ 0 \in Nat
      OBVIOUS
    <3> QED BY <3>1
  <2> QED BY <2>1, <2>2, <2>3 DEF TypeOK
<1>2. LockInv /\ OwnerInv /\ TodoInv
  BY DEF LockInv, OwnerInv, TodoInv, Locked, InLoop, Attempts, Snapshot, Absent
<1>3. CheckpointMatchesEffects /\ SucceededRunIsComplete
  BY DEF CheckpointMatchesEffects, SucceededRunIsComplete, Absent
<1> QED BY <1>1, <1>2, <1>3 DEF IInv

LEMMA InvStep == IInv /\ [Next]_vars => IInv'
BY TypeStep, LockStep, OwnerStep, TodoStep, CheckpointStep, CompleteStep DEF IInv

(* IInv holds of every reachable state. *)
THEOREM Invariance == Spec => []IInv
<1>1. Init => IInv
  BY InvInit
<1>2. IInv /\ [Next]_vars => IInv'
  BY InvStep
<1> QED BY <1>1, <1>2, PTL DEF Spec

(* The types, and with them the shape of the lease columns. *)
THEOREM TypeCorrect == Spec => []TypeOK
<1>1. IInv => TypeOK
  BY DEF IInv
<1> QED BY <1>1, Invariance, PTL

(* Each unit's effects are committed exactly when its checkpoint says so,  *)
(* and never twice: run_cycle_participation_tasks commits the two together *)
(* and scheduler_runs lets nobody claim a SUCCEEDED unit.                  *)
THEOREM EffectsAtMostOnce == Spec => []CheckpointMatchesEffects
<1>1. IInv => CheckpointMatchesEffects
  BY DEF IInv
<1> QED BY <1>1, Invariance, PTL

(* A date is closed only over a snapshot that is completely applied. *)
THEOREM ClosedDatesAreComplete == Spec => []SucceededRunIsComplete
<1>1. IInv => SucceededRunIsComplete
  BY DEF IInv
<1> QED BY <1>1, Invariance, PTL

(* The row lock protects the owner of an executing transaction, whose      *)
(* lease may have run out.                                                 *)
THEOREM Fencing == Spec => []ExecutorIsOwner
<1>1. IInv => ExecutorIsOwner
  BY DEF IInv, OwnerInv, ExecutorIsOwner, Locked, At, OwnsRun, OwnsUnit
<1> QED BY <1>1, Invariance, PTL

-----------------------------------------------------------------------------
(* Action properties and the refinement of DailyJob.                       *)

(* Every step of the protocol is one step of the abstract day, or none of  *)
(* its business: the snapshot, the committed effects and the closing are   *)
(* all that DailyJob sees.                                                 *)
LEMMA StepRefines == IInv /\ [Next]_vars => [Abstract!Next]_(Abstract!vars)
<1> SUFFICES ASSUME IInv, [Next]_vars PROVE [Abstract!Next]_(Abstract!vars)
  OBVIOUS
<1> USE LeaseAssumption DEF IInv, TypeOK, Snapshot, Locked,
        At, Goto, ReadClock, ShortTxn, NextUnit, Skip, durable, Fault
<1> DEFINE Same == /\ Snapshot' = Snapshot
                   /\ applied' = applied
                   /\ run'.status = "SUCCEEDED" <=> run.status = "SUCCEEDED"
<1>s. Same => UNCHANGED Abstract!vars
  BY DEF Abstract!vars
<1> HIDE DEF Snapshot
<1> USE DEF Same
<1>0. CASE UNCHANGED vars
  BY <1>0, <1>s DEF vars, Snapshot
<1>1. CASE Tick
  BY <1>1, <1>s DEF Tick, Snapshot
<1>2. ASSUME NEW a \in Attempts, Dispatch(a) PROVE [Abstract!Next]_(Abstract!vars)
  BY <1>2, <1>s DEF Dispatch, Snapshot
<1>3. ASSUME NEW a \in Attempts, SlotOccupied(a) PROVE [Abstract!Next]_(Abstract!vars)
  BY <1>3, <1>s DEF SlotOccupied, Snapshot
<1>4. ASSUME NEW a \in Attempts, ClaimRun(a) PROVE [Abstract!Next]_(Abstract!vars)
  BY <1>4, <1>s DEF ClaimRun, Snapshot, Claimable, ClaimedBy
<1>5. ASSUME NEW a \in Attempts, LockForSnapshot(a) PROVE [Abstract!Next]_(Abstract!vars)
  BY <1>5, <1>s DEF LockForSnapshot, Snapshot
<1>6. ASSUME NEW a \in Attempts, TakeSnapshot(a) PROVE [Abstract!Next]_(Abstract!vars)
  <2>1. PICK S \in SUBSET Participations :
          /\ Snapshot # {} => S = Snapshot
          /\ unit' = [p \in Participations |->
                         IF p \in S /\ p \notin Snapshot THEN Pending ELSE unit[p]]
          /\ IF S = {} THEN run' = Ended("SUCCEEDED") ELSE UNCHANGED run
    BY <1>6 DEF TakeSnapshot
  <2>2. run.status = "RUNNING"
    BY <1>6 DEF TakeSnapshot, OwnerInv, OwnsRun
  <2>3. Snapshot' = S /\ applied' = applied
    BY <2>1, <1>6 DEF TakeSnapshot, Snapshot, Pending
  <2>4. CASE S = {}
    <3>1. Snapshot = {} /\ run'.status = "SUCCEEDED"
      BY <2>1, <2>4 DEF Ended
    <3>2. Abstract!Close
      BY <2>2, <2>3, <2>4, <3>1 DEF Abstract!Close
    <3> QED BY <3>2 DEF Abstract!Next
  <2>5. CASE S # {} /\ Snapshot = {}
    <3>1. Abstract!Take
      BY <2>1, <2>2, <2>3, <2>5 DEF Abstract!Take
    <3> QED BY <3>1 DEF Abstract!Next
  <2>6. CASE S # {} /\ Snapshot # {}
    BY <2>1, <2>3, <2>6, <1>s
  <2> QED BY <2>4, <2>5, <2>6
<1>7. ASSUME NEW a \in Attempts, FailRun(a) PROVE [Abstract!Next]_(Abstract!vars)
  BY <1>7, <1>s DEF FailRun, Snapshot, Holds, Ended
<1>8. ASSUME NEW a \in Attempts, RenewRun(a) PROVE [Abstract!Next]_(Abstract!vars)
  BY <1>8, <1>s DEF RenewRun, Snapshot, Holds, Renewed, ValidRows, Rows
<1>9. ASSUME NEW a \in Attempts, ReadUnitClock(a) PROVE [Abstract!Next]_(Abstract!vars)
  BY <1>9, <1>s DEF ReadUnitClock, Snapshot
<1>10. ASSUME NEW a \in Attempts, ClaimUnit(a) PROVE [Abstract!Next]_(Abstract!vars)
  <2>1. Current(a) \in Snapshot
    BY <1>10, CurrentInTodo DEF ClaimUnit, TodoInv, InLoop, Snapshot
  <2>2. Same
    BY <2>1, <1>10 DEF ClaimUnit, Snapshot, ClaimedBy
  <2> QED BY <2>2, <1>s
<1>11. ASSUME NEW a \in Attempts, CheckOwner(a) PROVE [Abstract!Next]_(Abstract!vars)
  BY <1>11, <1>s DEF CheckOwner, Snapshot
<1>12. ASSUME NEW a \in Attempts, LockUnit(a) PROVE [Abstract!Next]_(Abstract!vars)
  BY <1>12, <1>s DEF LockUnit, Snapshot
<1>13. ASSUME NEW a \in Attempts, CommitUnit(a) PROVE [Abstract!Next]_(Abstract!vars)
  <2> DEFINE p == Current(a)
  <2>1. p \in Snapshot
    BY <1>13, CurrentInTodo DEF CommitUnit, TodoInv, InLoop, Snapshot
  <2>2. OwnsUnit(a, p) /\ OwnsRun(a)
    BY <1>13 DEF CommitUnit, OwnerInv
  <2>3. applied[p] = 0
    BY <2>1, <2>2 DEF CheckpointMatchesEffects, OwnsUnit, Snapshot
  <2>4. applied' = [applied EXCEPT ![p] = 1] /\ run' = run
    BY <2>3, <1>13 DEF CommitUnit
  <2>5. Snapshot' = Snapshot
    BY <2>1, <1>13 DEF CommitUnit, Snapshot, Ended
  <2>6. p \in Participations
    BY <2>1 DEF Snapshot
  <2>7. Abstract!Apply(p)
    BY <2>1, <2>2, <2>3, <2>4, <2>5 DEF Abstract!Apply, OwnsRun
  <2> QED BY <2>6, <2>7 DEF Abstract!Next
<1>14. ASSUME NEW a \in Attempts, FailUnit(a) PROVE [Abstract!Next]_(Abstract!vars)
  BY <1>14, <1>s DEF FailUnit, Snapshot, Holds, Ended
<1>15. ASSUME NEW a \in Attempts, FinalRenew(a) PROVE [Abstract!Next]_(Abstract!vars)
  BY <1>15, <1>s DEF FinalRenew, Snapshot, Holds, Renewed, ValidRows, Rows
<1>16. ASSUME NEW a \in Attempts, FinalLock(a) PROVE [Abstract!Next]_(Abstract!vars)
  BY <1>16, <1>s DEF FinalLock, Snapshot
<1>17. ASSUME NEW a \in Attempts, CloseRun(a) PROVE [Abstract!Next]_(Abstract!vars)
  <2>1. Snapshot' = Snapshot /\ applied' = applied
    BY <1>17 DEF CloseRun, Snapshot
  <2>2. run.status = "RUNNING"
    BY <1>17 DEF CloseRun, OwnerInv, OwnsRun
  <2>3. CASE \A p \in Snapshot : unit[p].status = "SUCCEEDED"
    <3>1. run'.status = "SUCCEEDED"
      BY <2>3, <1>17 DEF CloseRun, Ended
    <3>2. \A p \in Snapshot : applied[p] = 1
      BY <2>3 DEF CheckpointMatchesEffects, Snapshot
    <3>3. Abstract!Close
      BY <2>1, <2>2, <3>1, <3>2 DEF Abstract!Close
    <3> QED BY <3>3 DEF Abstract!Next
  <2>4. CASE ~ \A p \in Snapshot : unit[p].status = "SUCCEEDED"
    <3>1. run'.status # "SUCCEEDED"
      BY <2>2, <2>4, <1>17 DEF CloseRun, Ended
    <3> QED BY <2>1, <2>2, <3>1, <1>s
  <2> QED BY <2>3, <2>4
<1>18. ASSUME NEW a \in Attempts, EffectsFail(a) PROVE [Abstract!Next]_(Abstract!vars)
  BY <1>18, <1>s DEF EffectsFail, Snapshot
<1>19. ASSUME NEW a \in Attempts, CheckpointFails(a) PROVE [Abstract!Next]_(Abstract!vars)
  BY <1>19, <1>s DEF CheckpointFails, Snapshot
<1>20. ASSUME NEW a \in Attempts, Crash(a) PROVE [Abstract!Next]_(Abstract!vars)
  BY <1>20, <1>s DEF Crash, Snapshot
<1> QED BY <1>0, <1>1, <1>2, <1>3, <1>4, <1>5, <1>6, <1>7, <1>8, <1>9, <1>10, <1>11, <1>12, <1>13, <1>14, <1>15, <1>16, <1>17, <1>18, <1>19, <1>20 DEF Next, Work

(* run_cycle_participation_tasks implements the abstract day: one fixed     *)
(* snapshot, each unit applied at most once, closed only when complete.    *)
THEOREM Refinement == Spec => ImplementsDailyJob
<1>1. Init => Abstract!Init
  BY DEF Init, Abstract!Init, Snapshot, Absent
<1>2. IInv /\ [Next]_vars => [Abstract!Next]_(Abstract!vars)
  BY StepRefines
<1> QED BY <1>1, <1>2, Invariance, PTL DEF Spec, Abstract!Spec, ImplementsDailyJob
LEMMA SnapshotStep == IInv /\ [Next]_vars => [KeepsSnapshot]_vars
<1> SUFFICES ASSUME IInv, Next PROVE KeepsSnapshot
  OBVIOUS
<1> USE LeaseAssumption DEF IInv, TypeOK, Locked, At, Goto, ReadClock, ShortTxn, NextUnit, Skip, durable, Fault, KeepsSnapshot, Snapshot, OwnerInv, OwnsRun
<1>1. CASE Tick
  BY <1>1 DEF Tick
<1>2. ASSUME NEW a \in Attempts, Dispatch(a) PROVE KeepsSnapshot
  BY <1>2 DEF Dispatch
<1>3. ASSUME NEW a \in Attempts, SlotOccupied(a) PROVE KeepsSnapshot
  BY <1>3 DEF SlotOccupied
<1>4. ASSUME NEW a \in Attempts, ClaimRun(a) PROVE KeepsSnapshot
  BY <1>4 DEF ClaimRun
<1>5. ASSUME NEW a \in Attempts, LockForSnapshot(a) PROVE KeepsSnapshot
  BY <1>5 DEF LockForSnapshot
<1>6. ASSUME NEW a \in Attempts, TakeSnapshot(a) PROVE KeepsSnapshot
  BY <1>6 DEF TakeSnapshot, Pending
<1>7. ASSUME NEW a \in Attempts, FailRun(a) PROVE KeepsSnapshot
  BY <1>7 DEF FailRun
<1>8. ASSUME NEW a \in Attempts, RenewRun(a) PROVE KeepsSnapshot
  BY <1>8 DEF RenewRun
<1>9. ASSUME NEW a \in Attempts, ReadUnitClock(a) PROVE KeepsSnapshot
  BY <1>9 DEF ReadUnitClock
<1>10. ASSUME NEW a \in Attempts, ClaimUnit(a) PROVE KeepsSnapshot
  <2>1. Current(a) \in Snapshot
    BY <1>10, CurrentInTodo DEF ClaimUnit, TodoInv, InLoop
  <2> QED BY <2>1, <1>10 DEF ClaimUnit, ClaimedBy
<1>11. ASSUME NEW a \in Attempts, CheckOwner(a) PROVE KeepsSnapshot
  BY <1>11 DEF CheckOwner
<1>12. ASSUME NEW a \in Attempts, LockUnit(a) PROVE KeepsSnapshot
  BY <1>12 DEF LockUnit
<1>13. ASSUME NEW a \in Attempts, CommitUnit(a) PROVE KeepsSnapshot
  BY <1>13 DEF CommitUnit, OwnsUnit, Ended
<1>14. ASSUME NEW a \in Attempts, FailUnit(a) PROVE KeepsSnapshot
  BY <1>14 DEF FailUnit, Holds, Ended
<1>15. ASSUME NEW a \in Attempts, FinalRenew(a) PROVE KeepsSnapshot
  BY <1>15 DEF FinalRenew
<1>16. ASSUME NEW a \in Attempts, FinalLock(a) PROVE KeepsSnapshot
  BY <1>16 DEF FinalLock
<1>17. ASSUME NEW a \in Attempts, CloseRun(a) PROVE KeepsSnapshot
  BY <1>17 DEF CloseRun
<1>18. ASSUME NEW a \in Attempts, EffectsFail(a) PROVE KeepsSnapshot
  BY <1>18 DEF EffectsFail
<1>19. ASSUME NEW a \in Attempts, CheckpointFails(a) PROVE KeepsSnapshot
  BY <1>19 DEF CheckpointFails
<1>20. ASSUME NEW a \in Attempts, Crash(a) PROVE KeepsSnapshot
  BY <1>20 DEF Crash
<1> QED BY <1>1, <1>2, <1>3, <1>4, <1>5, <1>6, <1>7, <1>8, <1>9, <1>10, <1>11, <1>12, <1>13, <1>14, <1>15, <1>16, <1>17, <1>18, <1>19, <1>20 DEF Next, Work

(* The unit set of a date never changes once it is committed. *)
THEOREM SnapshotNeverChanges == Spec => SnapshotImmutable
<1>1. IInv /\ [Next]_vars => [KeepsSnapshot]_vars
  BY SnapshotStep
<1> QED BY <1>1, Invariance, PTL DEF Spec, SnapshotImmutable

LEMMA RevivalStep == IInv /\ [Next]_vars => [RevivesNobody]_vars
<1> SUFFICES ASSUME IInv, Next PROVE RevivesNobody
  OBVIOUS
<1> USE LeaseAssumption DEF IInv, TypeOK, Locked, At, Goto, ReadClock, ShortTxn, NextUnit, Skip, durable, Fault, RevivesNobody, Holds, Ended, ValidRows, Rows
<1> USE CycleAssumption
<1>1. CASE Tick
  BY <1>1 DEF Tick
<1>2. ASSUME NEW a \in Attempts, Dispatch(a) PROVE RevivesNobody
  BY <1>2 DEF Dispatch
<1>3. ASSUME NEW a \in Attempts, SlotOccupied(a) PROVE RevivesNobody
  BY <1>3 DEF SlotOccupied
<1>4. ASSUME NEW a \in Attempts, ClaimRun(a) PROVE RevivesNobody
  BY <1>4 DEF ClaimRun, ClaimedBy, OwnerInv
<1>5. ASSUME NEW a \in Attempts, LockForSnapshot(a) PROVE RevivesNobody
  BY <1>5 DEF LockForSnapshot
<1>6. ASSUME NEW a \in Attempts, TakeSnapshot(a) PROVE RevivesNobody
  BY <1>6 DEF TakeSnapshot
<1>7. ASSUME NEW a \in Attempts, FailRun(a) PROVE RevivesNobody
  BY <1>7 DEF FailRun
<1>8. ASSUME NEW a \in Attempts, RenewRun(a) PROVE RevivesNobody
  BY <1>8 DEF RenewRun
<1>9. ASSUME NEW a \in Attempts, ReadUnitClock(a) PROVE RevivesNobody
  BY <1>9 DEF ReadUnitClock
<1>10. ASSUME NEW a \in Attempts, ClaimUnit(a) PROVE RevivesNobody
  BY <1>10 DEF ClaimUnit
<1>11. ASSUME NEW a \in Attempts, CheckOwner(a) PROVE RevivesNobody
  BY <1>11 DEF CheckOwner
<1>12. ASSUME NEW a \in Attempts, LockUnit(a) PROVE RevivesNobody
  BY <1>12 DEF LockUnit
<1>13. ASSUME NEW a \in Attempts, CommitUnit(a) PROVE RevivesNobody
  BY <1>13 DEF CommitUnit
<1>14. ASSUME NEW a \in Attempts, FailUnit(a) PROVE RevivesNobody
  BY <1>14 DEF FailUnit
<1>15. ASSUME NEW a \in Attempts, FinalRenew(a) PROVE RevivesNobody
  BY <1>15 DEF FinalRenew
<1>16. ASSUME NEW a \in Attempts, FinalLock(a) PROVE RevivesNobody
  BY <1>16 DEF FinalLock
<1>17. ASSUME NEW a \in Attempts, CloseRun(a) PROVE RevivesNobody
  BY <1>17 DEF CloseRun
<1>18. ASSUME NEW a \in Attempts, EffectsFail(a) PROVE RevivesNobody
  BY <1>18 DEF EffectsFail
<1>19. ASSUME NEW a \in Attempts, CheckpointFails(a) PROVE RevivesNobody
  BY <1>19 DEF CheckpointFails
<1>20. ASSUME NEW a \in Attempts, Crash(a) PROVE RevivesNobody
  BY <1>20 DEF Crash
<1> QED BY <1>1, <1>2, <1>3, <1>4, <1>5, <1>6, <1>7, <1>8, <1>9, <1>10, <1>11, <1>12, <1>13, <1>14, <1>15, <1>16, <1>17, <1>18, <1>19, <1>20 DEF Next, Work

(* renew_run_lease and the other operations never give an expired lease   *)
(* back to its owner. *)
THEOREM NoLeaseRevival == Spec => ExpiredLeaseIsNotRevived
<1>1. IInv /\ [Next]_vars => [RevivesNobody]_vars
  BY RevivalStep
<1> QED BY <1>1, Invariance, PTL DEF Spec, ExpiredLeaseIsNotRevived

LEMMA WriterStep == IInv /\ [Next]_vars => [WrittenByOwner]_vars
<1> SUFFICES ASSUME IInv, Next PROVE WrittenByOwner
  OBVIOUS
<1> USE LeaseAssumption DEF IInv, TypeOK, Locked, At, Goto, ReadClock, ShortTxn, NextUnit, Skip, durable, Fault, WrittenByOwner, Snapshot, OwnerInv, OwnsRun, OwnsUnit, Holds, ClaimedBy
<1>1. CASE Tick
  BY <1>1 DEF Tick
<1>2. ASSUME NEW a \in Attempts, Dispatch(a) PROVE WrittenByOwner
  BY <1>2 DEF Dispatch
<1>3. ASSUME NEW a \in Attempts, SlotOccupied(a) PROVE WrittenByOwner
  BY <1>3 DEF SlotOccupied
<1>4. ASSUME NEW a \in Attempts, ClaimRun(a) PROVE WrittenByOwner
  BY <1>4 DEF ClaimRun
<1>5. ASSUME NEW a \in Attempts, LockForSnapshot(a) PROVE WrittenByOwner
  BY <1>5 DEF LockForSnapshot
<1>6. ASSUME NEW a \in Attempts, TakeSnapshot(a) PROVE WrittenByOwner
  BY <1>6 DEF TakeSnapshot
<1>7. ASSUME NEW a \in Attempts, FailRun(a) PROVE WrittenByOwner
  BY <1>7 DEF FailRun
<1>8. ASSUME NEW a \in Attempts, RenewRun(a) PROVE WrittenByOwner
  BY <1>8 DEF RenewRun
<1>9. ASSUME NEW a \in Attempts, ReadUnitClock(a) PROVE WrittenByOwner
  BY <1>9 DEF ReadUnitClock
<1>10. ASSUME NEW a \in Attempts, ClaimUnit(a) PROVE WrittenByOwner
  BY <1>10 DEF ClaimUnit
<1>11. ASSUME NEW a \in Attempts, CheckOwner(a) PROVE WrittenByOwner
  BY <1>11 DEF CheckOwner
<1>12. ASSUME NEW a \in Attempts, LockUnit(a) PROVE WrittenByOwner
  BY <1>12 DEF LockUnit
<1>13. ASSUME NEW a \in Attempts, CommitUnit(a) PROVE WrittenByOwner
  BY <1>13 DEF CommitUnit
<1>14. ASSUME NEW a \in Attempts, FailUnit(a) PROVE WrittenByOwner
  BY <1>14 DEF FailUnit
<1>15. ASSUME NEW a \in Attempts, FinalRenew(a) PROVE WrittenByOwner
  BY <1>15 DEF FinalRenew
<1>16. ASSUME NEW a \in Attempts, FinalLock(a) PROVE WrittenByOwner
  BY <1>16 DEF FinalLock
<1>17. ASSUME NEW a \in Attempts, CloseRun(a) PROVE WrittenByOwner
  BY <1>17 DEF CloseRun
<1>18. ASSUME NEW a \in Attempts, EffectsFail(a) PROVE WrittenByOwner
  BY <1>18 DEF EffectsFail
<1>19. ASSUME NEW a \in Attempts, CheckpointFails(a) PROVE WrittenByOwner
  BY <1>19 DEF CheckpointFails
<1>20. ASSUME NEW a \in Attempts, Crash(a) PROVE WrittenByOwner
  BY <1>20 DEF Crash
<1> QED BY <1>1, <1>2, <1>3, <1>4, <1>5, <1>6, <1>7, <1>8, <1>9, <1>10, <1>11, <1>12, <1>13, <1>14, <1>15, <1>16, <1>17, <1>18, <1>19, <1>20 DEF Next, Work

(* Only the owner of the run writes its units. *)
THEOREM OwnerWrites == Spec => OnlyOwnerWritesUnits
<1>1. IInv /\ [Next]_vars => [WrittenByOwner]_vars
  BY WriterStep
<1> QED BY <1>1, Invariance, PTL DEF Spec, OnlyOwnerWritesUnits

(* The three things no step may do, whatever leases, crashes and retries do *)
(* (claim_run, claim_unit and the checkpoints of scheduler_runs.py).       *)
THEOREM StepsFenced == Spec => StepsAreFenced
BY SnapshotNeverChanges, NoLeaseRevival, OwnerWrites DEF StepsAreFenced

=============================================================================
