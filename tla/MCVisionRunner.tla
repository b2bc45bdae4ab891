---------------------------- MODULE MCVisionRunner ----------------------------
(* Two overlapping callers; the tasks are interchangeable. *)
EXTENDS VisionRunner, TLC

CONSTANTS t1, t2
MCTasks == {t1, t2}
Symmetry == Permutations(MCTasks)
=============================================================================
