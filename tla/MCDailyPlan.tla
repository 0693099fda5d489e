---------------------------- MODULE MCDailyPlan ----------------------------
(* Two devices, a review task and a test task. *)
EXTENDS DailyPlan, TLC

Symmetry == Permutations(Devices)
=============================================================================
