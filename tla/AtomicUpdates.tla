------------------------------ MODULE AtomicUpdates ------------------------------
(*******************************************************************************)
(* What the critical section promises, without its mechanism: the rules change *)
(* in one step, by the whole of what one holder wrote since it came in, or not *)
(* at all; nobody else writes meanwhile; those who wait are served in the      *)
(* order they came.  Two exceptions, and no other: what a holder asks to write *)
(* after one of its writes was refused for lack of memory, and the content     *)
(* that remains when the changes of a holder could not be made to the end.     *)
(*******************************************************************************)
EXTENDS Naturals, Sequences

CONSTANTS Actors, NoOne, Keys, Values, None

VARIABLES
  holder,   (* the actor that may write                                        *)
  line,     (* the actors that wait, the first to be served first              *)
  draft,    (* what the holder wrote: sequence of [by, keys, value]            *)
  garbled,  (* a write of the holder was refused, and left something           *)
  rules,    (* what everybody reads                                            *)
  spoiled   (* the changes of the last holder failed: the rules are as may be  *)

avars == <<holder, line, draft, garbled, rules, spoiled>>

AInit ==
  /\ holder = NoOne
  /\ line = <<>>
  /\ draft = <<>> /\ garbled = FALSE
  /\ rules = [k \in Keys |-> None] /\ spoiled = FALSE

(* The last write to a key wins.                                              *)
Written(k, i) == k \in draft[i].keys
Result(k) ==
  IF \E i \in DOMAIN draft : Written(k, i)
  THEN LET last == CHOOSE i \in DOMAIN draft :
                     Written(k, i) /\ \A j \in DOMAIN draft : Written(k, j) => j <= i
       IN  draft[last].value
  ELSE rules[k]

AskFor(c) ==
  /\ holder # c
  /\ \A i \in DOMAIN line : line[i] # c
  /\ \/ holder = NoOne /\ holder' = c /\ UNCHANGED line
     \/ holder # NoOne /\ line' = Append(line, c) /\ UNCHANGED holder
  /\ spoiled' = FALSE
  /\ UNCHANGED <<draft, garbled, rules>>

GiveUp(c) ==
  /\ \E i \in DOMAIN line :
       /\ line[i] = c
       /\ line' = SubSeq(line, 1, i - 1) \o SubSeq(line, i + 1, Len(line))
  /\ spoiled' = FALSE
  /\ UNCHANGED <<holder, draft, garbled, rules>>

Write(c, r) ==
  /\ holder = c /\ r.by = c
  /\ draft' = Append(draft, r)
  /\ spoiled' = FALSE
  /\ UNCHANGED <<holder, line, garbled, rules>>

Garble(c) ==
  /\ holder = c
  /\ garbled' = TRUE
  /\ spoiled' = FALSE
  /\ UNCHANGED <<holder, line, draft, rules>>

Any == [Keys -> Values \cup {None}]
Sets == \E i \in DOMAIN draft : draft[i].value # None

End(c) ==
  /\ holder = c
  /\ \/ /\ rules' \in IF garbled THEN Any ELSE {[k \in Keys |-> Result(k)]}
        /\ spoiled' = FALSE
     \/ UNCHANGED rules /\ spoiled' = FALSE
     \/ (garbled \/ Sets) /\ rules' \in Any /\ spoiled' = TRUE
  /\ draft' = <<>> /\ garbled' = FALSE
  /\ \/ line = <<>> /\ holder' = NoOne /\ UNCHANGED line
     \/ line # <<>> /\ holder' = Head(line) /\ line' = Tail(line)

ANext ==
  \E c \in Actors :
    \/ AskFor(c)
    \/ GiveUp(c)
    \/ Garble(c)
    \/ End(c)
    \/ \E ks \in SUBSET Keys, v \in Values \cup {None} :
         Write(c, [by |-> c, keys |-> ks, value |-> v])

ASpec == AInit /\ [][ANext]_avars
================================================================================
