------------------------------ MODULE DailyJob ------------------------------
(***************************************************************************)
(* What the durable daily cycle run promises of one financial date,        *)
(* whatever happens to the workers: the set of units is fixed once, each   *)
(* unit's effects are committed at most once, and the day is closed only   *)
(* when every unit of the snapshot has been applied.                       *)
(***************************************************************************)
EXTENDS Naturals

CONSTANT Participations

VARIABLES snapshot,   \* the units the day consists of; {} until it is taken
          applied,    \* how often the effects of each unit were committed
          closed      \* the day has been closed

vars == <<snapshot, applied, closed>>

Init == /\ snapshot = {}
        /\ applied = [p \in Participations |-> 0]
        /\ closed = FALSE

Take == /\ ~closed
        /\ snapshot = {}
        /\ snapshot' \in SUBSET Participations
        /\ UNCHANGED <<applied, closed>>

Apply(p) == /\ ~closed
            /\ p \in snapshot
            /\ applied[p] = 0
            /\ applied' = [applied EXCEPT ![p] = 1]
            /\ UNCHANGED <<snapshot, closed>>

Close == /\ ~closed
         /\ \A p \in snapshot : applied[p] = 1
         /\ closed' = TRUE
         /\ UNCHANGED <<snapshot, applied>>

Next == \/ Take
        \/ Close
        \/ \E p \in Participations : Apply(p)

Spec == Init /\ [][Next]_vars
=============================================================================
