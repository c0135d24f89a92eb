-------------------------------- MODULE MCClient --------------------------------
(* Client with keys and identifiers that are interchangeable.                   *)
EXTENDS Client, TLC

Symmetry == Permutations(Keys) \cup Permutations(Ids)
================================================================================
