-------------------------------- MODULE MCFileDb --------------------------------
(* FileDb in two instances that TLC explores one beside the other: rules that    *)
(* change their value while no write fails, and all failures with one value.     *)
EXTENDS FileDb, TLC

CONSTANT FirstValue
VARIABLE instance

Symmetry == Permutations(Keys)

MCInit == Init /\ instance \in {"changes", "failures"}

MCNext ==
  \/ /\ instance = "changes"
     /\ Next
     /\ "failed" \notin history'
     /\ UNCHANGED instance
  \/ /\ instance = "failures"
     /\ Next
     /\ \A i \in DOMAIN rules' : rules'[i].value = FirstValue
     /\ UNCHANGED instance

MCSpec == MCInit /\ [][MCNext]_<<vars, instance>>
================================================================================
