-------------------------------- MODULE RecordFifo --------------------------------
(*******************************************************************************)
(* What the protocol of src/src/prot.h promises to the two ends of a stream:   *)
(* the records that one puts are the records that the other gets, each once,   *)
(* whole and in order.                                                         *)
(*******************************************************************************)
EXTENDS Sequences, SequencesExt

CONSTANT Records   (* sequences of fields                                       *)
VARIABLE transit   (* the records put and not released by the receiver          *)

Init == transit = <<>>
PutOne == transit' # <<>> /\ Front(transit') = transit /\ Last(transit') \in Records
TakeOne == transit # <<>> /\ transit' = Tail(transit)
Spec == Init /\ [][PutOne \/ TakeOne]_transit
================================================================================
