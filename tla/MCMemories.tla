------------------------------- MODULE MCMemories -------------------------------
(* The two memories that the code fills byte by byte and shares with nobody: the *)
(* queue of the daemon and the cache of a client.  TLC explores one while the    *)
(* other is as it was created.                                                   *)
(*                                                                               *)
(* The keys of the queue have empty names, as drops of several rules do, and     *)
(* times have some, all or no byte null.  The items of the cache have two        *)
(* lengths, so that one may take the place of two.                               *)
EXTENDS Queue, CacheUse

MCQueueKeys == {<<<<1>>, <<>>, <<2>>, <<1>>>>, <<<<>>, <<>>, <<>>, <<2, 1>>>>}
MCTexts == {<<3>>, <<>>}
MCTimes == {<<0, 0, 0, 0, 0, 0, 0, 0>>, <<7, 8, 9, 7, 0, 0, 0, 0>>,
            <<255, 255, 255, 255, 255, 255, 255, 255>>}
MCLength == [k \in Keys |-> IF k = "d" THEN 2 ELSE 1]

MCInit == Init /\ UsesInit

MCNext ==
  \/ UsesInit /\ Next /\ UNCHANGED useVars
  \/ Init /\ UsesNext /\ UNCHANGED queueVars

MCSpec == MCInit /\ [][MCNext]_<<queueVars, useVars>> /\ WF_queueVars(PlayOne \/ PlayEnd)

(* What is written stays within the memory that was allocated for it, when it  *)
(* grows, and when some of it makes room (qwrite, cache_put).                  *)
MemoriesFit == QueueFits /\ CacheFits
================================================================================
