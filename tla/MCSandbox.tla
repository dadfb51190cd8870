---------------------------- MODULE MCSandbox ----------------------------
(* A small instance of Sandbox: two requests, two computers, two process   *)
(* groups, so that a computer outlives a request and a group id is reused. *)
EXTENDS Sandbox, TLC

Symmetry == Permutations(Call) \cup Permutations(Computer) \cup Permutations(Pid)
=============================================================================
