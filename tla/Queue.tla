---------------------------------- MODULE Queue ----------------------------------
(*******************************************************************************)
(* The queue of the changes of a critical section, src/src/queue.c, byte by    *)
(* byte: what queue_drop and queue_set append, what queue_play reads back, and *)
(* the calls that cyn_set, cyn_drop and cyn_leave (src/src/cyn.c) make.        *)
(*                                                                             *)
(* A text is a sequence of bytes that are not 0, a time the sequence of the    *)
(* bytes of a time_t.  Bytes that remain in the memory after the write index   *)
(* are never used: a string counts only when its end is before that index.     *)
(* Texts are never longer than MAX_NAME_LENGTH, 8000: they come in messages of *)
(* 2000 bytes at most (prot.c).                                                *)
(*                                                                             *)
(* An operator named Faulty... is not the code: it is a plausible mistake in    *)
(* the definition it precedes, kept to show which property catches it.         *)
(*******************************************************************************)
EXTENDS Naturals, SequencesExt

CONSTANTS
  QueueKeys,    (* keys: sequences of 4 texts                                  *)
  Texts,        (* values, as texts                                            *)
  Times,        (* expirations, as bytes                                       *)
  Step,         (* by how much the memory grows, 4096 in the code              *)
  MaxRecords    (* bound on the requests of one critical section               *)

TimeSize == 8

ASSUME KeysAssumption == \A k \in QueueKeys : Len(k) = 4
ASSUME TimesAssumption == \A t \in Times : Len(t) = TimeSize
ASSUME BoundsAssumption == Step \in Nat \ {0} /\ MaxRecords \in Nat

VARIABLES
  bytes,      (* the content, up to the write index                            *)
  capacity,   (* the allocated size                                            *)
  read,       (* the read index                                                *)
  rc,         (* what queue_play will return                                   *)
  pc,         (* "records", "plays", or "played": the queue is to be cleared   *)
  asked,      (* history: the changes accepted since the last clear            *)
  refusals,   (* history: number of those that were refused                    *)
  done        (* history: what the replay did to the database, and its failure *)

queueVars == <<bytes, capacity, read, rc, pc, asked, refusals, done>>

Init ==
  /\ bytes = <<>> /\ capacity = 0 /\ read = 0
  /\ rc = "ok" /\ pc = "records"
  /\ asked = <<>> /\ refusals = 0 /\ done = <<>>

--------------------------------------------------------------------------------
Nul == 0
String(text) == text \o <<Nul>>
Change(op, key, value, expire) ==
  [op |-> op, key |-> key, value |-> value, expire |-> expire]
SetChange(key, value, expire) == Change("set", key, value, expire)
DropChange(key) == Change("drop", key, <<>>, <<>>)

(* The strings and the time that are put in the queue for a change.            *)
FaultyParts(c) ==
  [i \in 1 .. 4 |-> String(c.key[i])]
    \o IF c.op = "drop" THEN <<>> ELSE <<String(c.value), c.expire>>

Parts(c) ==
  [i \in 1 .. 4 |-> String(c.key[i])]
    \o IF c.op = "drop" THEN <<String(<<>>)>> ELSE <<String(c.value), c.expire>>

(* The content after the first n parts of a change, and the size it needs.     *)
Grown(c, n) == bytes \o FlattenSeq(SubSeq(Parts(c), 1, n))
Needed(length) ==
  IF length <= capacity THEN capacity
  ELSE CHOOSE size \in {capacity + i * Step : i \in 1 .. length} :
         length <= size /\ size - Step < length

(* queue_set and queue_drop.  A part that does not fit may be refused by       *)
(* realloc: those that precede it remain.                                      *)
Record(c) ==
  /\ pc = "records"
  /\ Len(asked) + refusals < MaxRecords
  /\ \E n \in 0 .. Len(Parts(c)) :
       /\ bytes' = Grown(c, n)
       /\ capacity' = Needed(Len(bytes'))
       /\ \/ /\ n = Len(Parts(c))
             /\ asked' = Append(asked, c)
             /\ UNCHANGED refusals
          \/ /\ n < Len(Parts(c))
             /\ Len(Grown(c, n + 1)) > capacity'
             /\ refusals' = refusals + 1
             /\ UNCHANGED asked
  /\ UNCHANGED <<read, rc, pc, done>>

(* cyn_leave with a commit, the transaction being begun.                       *)
Play ==
  /\ pc = "records"
  /\ pc' = "plays" /\ read' = 0 /\ rc' = "ok" /\ done' = <<>>
  /\ UNCHANGED <<bytes, capacity, asked, refusals>>

(* The bytes of the texts that can be read: the i-th ends at the i-th 0.       *)
Nuls == SelectSeq([i \in 1 .. Len(bytes) - read |-> read + i], LAMBDA p : bytes[p] = Nul)
Text(i) == SubSeq(bytes, (IF i = 1 THEN read ELSE Nuls[i - 1]) + 1, Nuls[i] - 1)
ReadKey == [i \in 1 .. 4 |-> Text(i)]

FaultyAfterTime(at) == at
AfterTime(at) == at + TimeSize

(* The first error is kept.                                                    *)
Returns(result) == rc' = IF rc = "ok" THEN result ELSE rc

(* A turn of the loop of queue_play that finds its 5 texts.  A drop does not   *)
(* fail, db_set may.                                                           *)
PlayDrop ==
  /\ Text(5) = <<>>
  /\ done' = Append(done, DropChange(ReadKey))
  /\ read' = Nuls[5]
  /\ UNCHANGED rc

PlaySet ==
  /\ Text(5) # <<>> /\ Nuls[5] + TimeSize <= Len(bytes)
  /\ done' = Append(done, SetChange(ReadKey, Text(5),
                                    SubSeq(bytes, Nuls[5] + 1, Nuls[5] + TimeSize)))
  /\ read' = AfterTime(Nuls[5])
  /\ \E result \in {"ok", "refused"} : Returns(result)

PlayUntimed ==
  /\ Text(5) # <<>> /\ Nuls[5] + TimeSize > Len(bytes)
  /\ read' = Nuls[5]
  /\ Returns("invalid")
  /\ UNCHANGED done

(* One that does not: what it could read is read, which may be nothing.        *)
PlayPartial ==
  /\ read' = IF Nuls = <<>> THEN read ELSE Last(Nuls)
  /\ Returns("invalid")
  /\ UNCHANGED done

PlayOne ==
  /\ pc = "plays" /\ read < Len(bytes)
  /\ IF Len(Nuls) >= 5 THEN PlayDrop \/ PlaySet \/ PlayUntimed ELSE PlayPartial
  /\ UNCHANGED <<bytes, capacity, pc, asked, refusals>>

PlayEnd ==
  /\ pc = "plays" /\ read >= Len(bytes)
  /\ pc' = "played"
  /\ UNCHANGED <<bytes, capacity, read, rc, asked, refusals, done>>

(* queue_clear, with or without a replay: the memory is kept.                  *)
Clear ==
  /\ pc \in {"records", "played"}
  /\ pc' = "records" /\ bytes' = <<>>
  /\ asked' = <<>> /\ refusals' = 0 /\ done' = <<>> /\ rc' = "ok"
  /\ UNCHANGED <<capacity, read>>

Changes ==
  {SetChange(k, v, t) : k \in QueueKeys, v \in Texts, t \in Times}
    \cup {DropChange(k) : k \in QueueKeys}

Next == (\E c \in Changes : Record(c)) \/ Play \/ PlayOne \/ PlayEnd \/ Clear

Spec == Init /\ [][Next]_queueVars /\ WF_queueVars(PlayOne \/ PlayEnd)

--------------------------------------------------------------------------------
(* The indexes stay in the memory, of which no more is asked than is needed.   *)
QueueFits ==
  /\ read \in 0 .. capacity
  /\ Len(bytes) <= capacity
  /\ capacity % Step = 0
  /\ rc \in {"ok", "refused", "invalid"} /\ pc \in {"records", "plays", "played"}

(* Nothing was refused, and no value was empty: the value is the only text     *)
(* that tells a set from a drop.                                               *)
HasEmpty(changes) == \E i \in DOMAIN changes : changes[i].op = "set" /\ changes[i].value = <<>>
Whole == refusals = 0 /\ ~HasEmpty(asked)

(* The replay makes the changes that were accepted, all of them, in the order  *)
(* in which they were, with the same names, values and expirations, and        *)
(* nothing else: whatever the sections before, refused records included, left  *)
(* in the memory (queue_set, queue_drop, queue_play, queue_clear).             *)
PlaysWhatWasAsked == pc = "played" /\ Whole => done = asked /\ rc # "invalid"

(* The loop of queue_play then ends.                                           *)
WholePlayEnds == pc = "plays" /\ Whole ~> pc = "played"
================================================================================
