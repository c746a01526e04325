------------------------------- MODULE MCBench -------------------------------
(* Bench with its two runs interchangeable. *)
EXTENDS Bench, TLC

CONSTANTS b1, b2

Interchangeable == Permutations({b1, b2})
==============================================================================
