---------------------------- MODULE MCMilestones ----------------------------
(***************************************************************************)
(* A small instance of Milestones: three runs over three milestones, so    *)
(* that a report can have two others to be compared with, and a report can *)
(* be torn or made anew after another was compared with it.                *)
(***************************************************************************)
EXTENDS Milestones, TLC

CONSTANTS v1, v2, v3

AllDirs == {v1, v2, v3}
Swaps == Permutations(AllDirs)
=============================================================================
