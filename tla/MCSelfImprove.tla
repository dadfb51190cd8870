--------------------------- MODULE MCSelfImprove ---------------------------
(* Small instances of SelfImprove.                                          *)
EXTENDS SelfImprove, TLC

Symmetry == Permutations(Call) \cup Permutations(Candidate) \cup Permutations(Class)
=============================================================================
