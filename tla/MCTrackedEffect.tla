-------------------------- MODULE MCTrackedEffect --------------------------
(* A small instance of TrackedEffect: one driver, one other caller.         *)
EXTENDS TrackedEffect
=============================================================================
