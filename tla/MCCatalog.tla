------------------------------ MODULE MCCatalog ------------------------------
(* Catalog with interchangeable models. *)
EXTENDS Catalog, TLC

CONSTANTS m1, m2

Interchangeable == Permutations({m1, m2})
==============================================================================
