----------------------------------- MODULE Cyn -----------------------------------
(*******************************************************************************)
(* The recoverable critical section of src/src/cyn.c and the queue of the      *)
(* changes made inside it (src/src/queue.c), as the actions that the callers   *)
(* of cyn_enter_async, cyn_leave, cyn_set, ... perform.                        *)
(*                                                                             *)
(* An operator named Faulty... is not the code: it is a plausible mistake in    *)
(* the definition it precedes, kept to show which property catches it.         *)
(*                                                                             *)
(* The rule database is abstracted to a function from keys to values.  What    *)
(* the storage does inside a transaction, and what a cancelled transaction     *)
(* gives back, is the subject of modules MemDb and FileDb: here a cancel gives *)
(* back anything.  The bytes of the queue are the subject of module Queue:     *)
(* here the values set are not empty, and what a part of a record makes of the *)
(* replay is anything.                                                         *)
(*******************************************************************************)
EXTENDS Naturals, Sequences

CONSTANTS
  Magics,           (* who can enter: the closures given to cyn_enter_async    *)
  NoOne,            (* the null magic_locker                                   *)
  Keys, Values,     (* keys of the rules and what a rule answers               *)
  None,             (* the value of a key that has no rule                     *)
  ChangeIdModulus   (* 2^32 in the code: the change id is an uint32_t          *)

ASSUME NoOneIsNotAMagic == NoOne \notin Magics
ASSUME NoneIsNotAValue == None \notin Values
ASSUME ModulusAssumption == ChangeIdModulus \in Nat /\ ChangeIdModulus >= 3

VARIABLES
  magic_locker,   (* the magic that is inside the critical section             *)
  awaiters,       (* list of the magics that wait, the newest first            *)
  queue,          (* the changes recorded since the section was entered        *)
  torn,           (* the queue also has a part of a record that was refused    *)
  rules,          (* the content of the database                               *)
  cancelled,      (* history: who left last had its replay fail and cancelled  *)
  changeid        (* identification of the current content, never 0            *)

cynVars == <<magic_locker, awaiters, queue, torn, rules, cancelled, changeid>>

(* A record of the queue.  A set names one key and its value, a drop the keys  *)
(* that its filter matches.  "by" is a history field: the queue of the code    *)
(* does not know who wrote in it.                                              *)
Record == [by : Magics, keys : SUBSET Keys, value : Values \cup {None}]
SetRecord(m, k, v) == [by |-> m, keys |-> {k}, value |-> v]
DropRecord(m, ks)  == [by |-> m, keys |-> ks, value |-> None]

Contents == [Keys -> Values \cup {None}]

CynInit ==
  /\ magic_locker = NoOne
  /\ awaiters = <<>>
  /\ queue = <<>> /\ torn = FALSE
  /\ rules = [k \in Keys |-> None]
  /\ cancelled = FALSE
  /\ changeid = 1

--------------------------------------------------------------------------------
(* Replaying the records in their order leaves each key with the value of the  *)
(* last record that touches it.                                                *)
Touching(q, k) == {i \in 1 .. Len(q) : k \in q[i].keys}
FaultyLastTouch(q, k) == CHOOSE i \in Touching(q, k) : \A j \in Touching(q, k) : i <= j
LastTouch(q, k) == CHOOSE i \in Touching(q, k) : \A j \in Touching(q, k) : j <= i

queue_play(content, q) ==
  [k \in Keys |-> IF Touching(q, k) = {} THEN content[k]
                  ELSE q[LastTouch(q, k)].value]

(* A part of a record shifts the records that follow it: the replay is any.    *)
Replays == IF torn THEN Contents ELSE {queue_play(rules, queue)}

(* A drop never fails, a set may, and so may a queue with a part of a record.  *)
ReplayCanFail == torn \/ \E i \in 1 .. Len(queue) : queue[i].value # None

(* changeid.current + 1 ?: 1                                                   *)
Incremented(id) == (id + 1) % ChangeIdModulus
FaultyNextChangeId(id) == Incremented(id)
NextChangeId(id) == IF Incremented(id) = 0 THEN 1 ELSE Incremented(id)

cyn_changed == changeid' = NextChangeId(changeid)

--------------------------------------------------------------------------------
Listed(list) == {list[i] : i \in 1 .. Len(list)}
NoDuplicate(list) ==
  \A i, j \in 1 .. Len(list) : list[i] = list[j] => i = j

cyn_enter_async(m) ==
  /\ IF magic_locker = NoOne
     THEN magic_locker' = m /\ UNCHANGED awaiters
     ELSE awaiters' = <<m>> \o awaiters /\ UNCHANGED magic_locker
  /\ cancelled' = FALSE
  /\ UNCHANGED <<queue, torn, rules, changeid>>

(* delcb removes the newest entry of m.                                        *)
Without(list, m) ==
  LET mine == {i \in 1 .. Len(list) : list[i] = m}
      at   == CHOOSE i \in mine : \A j \in mine : i <= j
  IN  IF mine = {} THEN list
      ELSE SubSeq(list, 1, at - 1) \o SubSeq(list, at + 1, Len(list))

cyn_enter_async_cancel(m) ==
  /\ awaiters' = Without(awaiters, m)
  /\ cancelled' = FALSE
  /\ UNCHANGED <<magic_locker, queue, torn, rules, changeid>>

(* The critical section goes to the oldest awaiter, the last of the list.      *)
FaultyGiveToNext ==
  IF awaiters = <<>>
  THEN magic_locker' = NoOne /\ UNCHANGED awaiters
  ELSE magic_locker' = Head(awaiters) /\ awaiters' = Tail(awaiters)

GiveToNext ==
  IF awaiters = <<>>
  THEN magic_locker' = NoOne /\ UNCHANGED awaiters
  ELSE /\ magic_locker' = awaiters[Len(awaiters)]
       /\ awaiters' = SubSeq(awaiters, 1, Len(awaiters) - 1)

(* How leaving ends: without commit, or with a commit that succeeds, or one    *)
(* whose db_transaction_begin, queue_play or db_transaction_end fails.  The    *)
(* last one has replaced the content before the failure.                       *)
Outcomes == {"rollback", "committed", "begin failed", "play failed", "end failed"}
Replaces == {"committed", "end failed"}

Faulty_queue_clear == UNCHANGED <<queue, torn>>
queue_clear == queue' = <<>> /\ torn' = FALSE

Faulty_cyn_leave(m, outcome) ==
  /\ magic_locker = m
  /\ CASE outcome \in Replaces      -> rules' \in Replays
       [] outcome = "play failed"   -> ReplayCanFail /\ rules' \in Contents
       [] OTHER                     -> UNCHANGED rules
  /\ IF outcome = "committed" THEN cyn_changed ELSE UNCHANGED changeid
  /\ cancelled' = (outcome = "play failed")
  /\ queue_clear
  /\ GiveToNext

(* A replay that fails is cancelled, and nothing announced.                    *)
cyn_leave(m, outcome) ==
  /\ magic_locker = m
  /\ CASE outcome \in Replaces      -> rules' \in Replays /\ cyn_changed
       [] outcome = "play failed"   -> /\ ReplayCanFail
                                       /\ rules' \in Contents
                                       /\ UNCHANGED changeid
       [] OTHER                     -> UNCHANGED <<rules, changeid>>
  /\ cancelled' = (outcome = "play failed")
  /\ queue_clear
  /\ GiveToNext

(* cyn_set and cyn_drop: refused with -EPERM only when nobody is inside.       *)
cyn_record(r) ==
  /\ magic_locker # NoOne
  /\ queue' = Append(queue, r)
  /\ cancelled' = FALSE
  /\ UNCHANGED <<magic_locker, awaiters, torn, rules, changeid>>

(* The same refused with -ENOMEM after some strings of the record were put.    *)
cyn_record_refused ==
  /\ magic_locker # NoOne
  /\ torn' = TRUE
  /\ cancelled' = FALSE
  /\ UNCHANGED <<magic_locker, awaiters, queue, rules, changeid>>
================================================================================
