------------------------------ MODULE MCAdminServer ------------------------------
(* AdminServer with three clients, checked against AtomicUpdates.               *)
EXTENDS AdminServer, SequencesExt

Atomic == INSTANCE AtomicUpdates WITH
  Actors <- Magics, holder <- magic_locker, line <- Reverse(awaiters), draft <- queue,
  garbled <- torn, spoiled <- cancelled

(* The server implements AtomicUpdates, its list of awaiters being the line    *)
(* from its end to its head (cyn_leave wakes the last of the list).            *)
ImplementsAtomicUpdates == Atomic!ASpec
================================================================================
