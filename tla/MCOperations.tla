--------------------------- MODULE MCOperations ---------------------------
(* Small instances of Operations.                                           *)
EXTENDS Operations, TLC

Symmetry == Permutations(Call) \cup Permutations(Decision)
              \cup Permutations(Payload) \cup Permutations(Effect)
=============================================================================
