-------------------------- MODULE MCCycleScheduler --------------------------
(* CycleScheduler for TLC.  Attempts are interchangeable; a configuration    *)
(* with temporal properties, like CycleDay, must not use that.              *)
EXTENDS CycleScheduler, TLC

Symmetry == Permutations(Attempts)
=============================================================================
