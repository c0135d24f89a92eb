---------------------------------- MODULE Ranks ----------------------------------
(*******************************************************************************)
(* Packing an array: the entries that are used move down, in their order, to   *)
(* numbers without holes.  It is what gc_dig and gc_add of the databases        *)
(* compute, with the sorted array of the used indexes.                         *)
(*******************************************************************************)
EXTENDS Naturals, FiniteSets

(* The i-th smallest of the used indexes, and the number of one of them.       *)
Rank(used, j) == Cardinality({h \in used : h <= j})
Nth(used, i) == CHOOSE j \in used : Rank(used, j) = i

(* The entries of a list at the used indexes.                                  *)
Picked(list, used) == [i \in 1 .. Cardinality(used) |-> list[Nth(used, i)]]
================================================================================
