------------------------------ MODULE MCJobFile ------------------------------
(* JobFile with a job of a few versions, each longer than the one before   *)
(* (progress adds digits, the end adds finished_at).                       *)
EXTENDS JobFile

Sizes == [v \in 0..Final |-> v]
==============================================================================
