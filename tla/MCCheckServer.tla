------------------------------ MODULE MCCheckServer ------------------------------
(* CheckServer with keys that "@" sends to each other, so that redirections may *)
(* also go round.  Agents and cells are interchangeable.                       *)
EXTENDS CheckServer, TLC

CONSTANTS k1, k2
MCAtKey == [k \in Keys |-> IF k = k1 /\ k2 \in Keys THEN k2 ELSE k1]
Symmetry == Permutations(AgentClients) \cup Permutations(Cells)
================================================================================
