--------------------------- MODULE MCGoalPursuit ---------------------------
(* Small instances of GoalPursuit.  Its runs check liveness, so none declares *)
(* a symmetry.                                                              *)
EXTENDS GoalPursuit
=============================================================================
