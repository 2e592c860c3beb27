------------------------- MODULE MCTriggerScheduler -------------------------
(***************************************************************************)
(* Triggers and jobs on a small instance: schedules that fire at every     *)
(* multiple of a period.  The backends are interchangeable.                *)
(***************************************************************************)
EXTENDS TriggerScheduler, TLC

MCSymmetry == Permutations(Backends)
MCJobs == 1 .. 2
MCSchedules == {1, 2}
MCNextAt == [x \in Schedules \X (0 .. MaxTime) |-> (x[2] \div x[1] + 1) * x[1]]
=============================================================================
