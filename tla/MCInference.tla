---------------------------- MODULE MCInference ----------------------------
(* Small instances of Inference.                                            *)
EXTENDS Inference, TLC

Symmetry == Permutations(Call) \cup Permutations(Cred) \cup Permutations(Secret)
=============================================================================
