----------------------------- MODULE AdminSessionProofs -----------------------------
(*******************************************************************************)
(* Proofs about modules AdminServer and AdminSession, for any set of clients,  *)
(* programs, keys and values, any scripts, any modulus of the change id and    *)
(* any bound on the queue.                                                     *)
(*                                                                             *)
(* The server first.  None of the three invariants is inductive alone: that    *)
(* the queue is empty when nobody is inside follows from QueueIsLockers only   *)
(* together with the type of the records, and the flags of the clients follow  *)
(* the locker only if no awaiter is listed twice.  Their conjunction is.       *)
(* AdminServer then implements AtomicUpdates: each step of the server is a     *)
(* step of the abstract critical section, or changes nothing of it.  The line  *)
(* of the clients that wait is the list of the awaiters read from its end.     *)
(*                                                                             *)
(* Then the scripts.  That one is committed whole or not at all is not         *)
(* inductive: it holds because the queue of the server always is the part of   *)
(* the script that was acknowledged, or that part and the write whose reply is *)
(* on its way; and that, because a connection that is inside belongs to a      *)
(* script that has been inside on this very connection since the queue was     *)
(* empty (InsideInv).                                                          *)
(*******************************************************************************)
EXTENDS AdminSession, MCAdminServer, Lemmas

(* Playing a queue of records gives a content of the database.                 *)
LEMMA QueuePlayType ==
  ASSUME NEW q \in Seq(Record), NEW content \in [Keys -> Values \cup {None}]
  PROVE  queue_play(content, q) \in [Keys -> Values \cup {None}]
<1> SUFFICES ASSUME NEW k \in Keys, Touching(q, k) # {}
             PROVE  q[LastTouch(q, k)].value \in Values \cup {None}
  BY DEF queue_play
<1>1. Len(q) \in Nat /\ Touching(q, k) \subseteq 1 .. Len(q)
  BY LenProperties DEF Touching
<1>2. \E i \in Touching(q, k) : \A j \in Touching(q, k) : j <= i
  BY <1>1, IntervalHasLast
<1>3. LastTouch(q, k) \in 1 .. Len(q)
  BY <1>1, <1>2 DEF LastTouch
<1>4. q[LastTouch(q, k)] \in Record
  BY <1>3, ElementOfSeq
<1> QED BY <1>4 DEF Record

--------------------------------------------------------------------------------

(* Putting a new awaiter at the head of the list (addcb) adds it to those who  *)
(* are listed, and lists nobody twice.                                         *)
LEMMA PrependFacts ==
  ASSUME NEW S, NEW list \in Seq(S), NEW m \in S
  PROVE  /\ <<m>> \o list \in Seq(S)
         /\ <<m>> \o list # <<>>
         /\ Listed(<<m>> \o list) = Listed(list) \cup {m}
         /\ NoDuplicate(list) /\ m \notin Listed(list) => NoDuplicate(<<m>> \o list)
<1> DEFINE new == <<m>> \o list
<1>1. <<m>> \in Seq(S) /\ Len(<<m>>) = 1 /\ Len(list) \in Nat
  BY LenProperties
<1>2. /\ new \in Seq(S)
      /\ Len(new) = Len(list) + 1
      /\ \A i \in 1 .. Len(list) + 1 : new[i] = IF i = 1 THEN m ELSE list[i - 1]
  BY <1>1, ConcatProperties, <<m>>[1] = m
<1> HIDE DEF new
<1>3. Listed(new) = Listed(list) \cup {m}
  <2>1. ASSUME NEW i \in 1 .. Len(new) PROVE new[i] \in Listed(list) \cup {m}
    <3>1. CASE i = 1
      BY <3>1, <1>1, <1>2
    <3>2. CASE i # 1
      <4>1. i - 1 \in 1 .. Len(list) /\ new[i] = list[i - 1]
        BY <3>2, <1>1, <1>2
      <4> QED BY <4>1 DEF Listed
    <3> QED BY <3>1, <3>2
  <2>2. m \in Listed(new)
    <3>1. 1 \in 1 .. Len(new) /\ new[1] = m
      BY <1>1, <1>2
    <3> QED BY <3>1 DEF Listed
  <2>3. ASSUME NEW i \in 1 .. Len(list) PROVE list[i] \in Listed(new)
    <3>1. i + 1 \in 1 .. Len(new) /\ new[i + 1] = list[i]
      BY <1>1, <1>2
    <3> QED BY <3>1 DEF Listed
  <2> QED BY <2>1, <2>2, <2>3 DEF Listed
<1>4. ASSUME NoDuplicate(list), m \notin Listed(list),
             NEW i \in 1 .. Len(new), NEW j \in 1 .. Len(new), new[i] = new[j]
      PROVE  i = j
  <2>1. ASSUME NEW k \in 1 .. Len(new), k # 1
        PROVE  k - 1 \in 1 .. Len(list) /\ new[k] = list[k - 1] /\ new[k] # m
    <3>1. k - 1 \in 1 .. Len(list) /\ new[k] = list[k - 1]
      BY <2>1, <1>1, <1>2
    <3> QED BY <3>1, <1>4 DEF Listed
  <2>2. new[1] = m
    BY <1>1, <1>2
  <2>3. CASE i # 1 /\ j # 1
    <3>1. i - 1 = j - 1
      BY <2>1, <2>3, <1>4 DEF NoDuplicate
    <3> QED BY <3>1, <1>1, <1>2
  <2> QED BY <2>1, <2>2, <2>3, <1>4
<1> QED BY <1>1, <1>2, <1>3, <1>4 DEF NoDuplicate, new

(* Taking the last awaiter (cyn_leave) removes exactly that one.              *)
LEMMA RemoveLastFacts ==
  ASSUME NEW S, NEW list \in Seq(S), list # <<>>
  PROVE  LET last == list[Len(list)]
             new  == SubSeq(list, 1, Len(list) - 1)
         IN  /\ last \in S /\ last \in Listed(list)
             /\ new \in Seq(S)
             /\ NoDuplicate(list) => /\ Listed(new) = Listed(list) \ {last}
                                     /\ NoDuplicate(new)
<1> DEFINE n == Len(list)
           last == list[n]
           new == SubSeq(list, 1, n - 1)
<1>1. n \in Nat \ {0} /\ \A i \in 1 .. n : list[i] \in S
  BY EmptySeq, ElementOfSeq
<1>2. /\ new \in Seq(S)
      /\ Len(new) = n - 1
      /\ \A i \in 1 .. n - 1 : new[i] = list[i]
  <2>1. \A i \in 1 .. n - 1 : list[i] \in S
    BY <1>1
  <2>2. /\ new \in Seq(S)
        /\ Len(new) = IF 1 <= n - 1 THEN (n - 1) - 1 + 1 ELSE 0
        /\ \A i \in 1 .. (n - 1) - 1 + 1 : new[i] = list[1 + i - 1]
    BY <1>1, <2>1, SubSeqProperties, 1 \in Int, n - 1 \in Int
  <2> HIDE DEF new, n
  <2>3. Len(new) = n - 1
    BY <2>2, <1>1
  <2>4. ASSUME NEW i \in 1 .. n - 1 PROVE new[i] = list[i]
    BY <2>2, <1>1
  <2> QED BY <2>2, <2>3, <2>4
<1> HIDE DEF new
<1>3. last \in S /\ last \in Listed(list)
  BY <1>1 DEF Listed
<1>4. ASSUME NoDuplicate(list) PROVE Listed(new) = Listed(list) \ {last}
  <2>1. ASSUME NEW i \in 1 .. n - 1 PROVE list[i] # last
    BY <1>1, <1>4 DEF NoDuplicate
  <2>2. Listed(new) = {list[i] : i \in 1 .. n - 1}
    BY <1>2 DEF Listed
  <2>3. ASSUME NEW i \in 1 .. n, list[i] # last PROVE i \in 1 .. n - 1
    BY <2>3, <1>1
  <2>4. 1 .. n - 1 \subseteq 1 .. n
    BY <1>1
  <2> QED BY <2>1, <2>2, <2>3, <2>4 DEF Listed
<1>5. ASSUME NoDuplicate(list) PROVE NoDuplicate(new)
  BY <1>1, <1>2, <1>5 DEF NoDuplicate
<1> QED BY <1>2, <1>3, <1>4, <1>5 DEF new

(* delcb removes one entry of the awaiter that ends, if it has any.            *)
LEMMA WithoutIs ==
  ASSUME NEW S, NEW list \in Seq(S), NEW m
  PROVE  /\ m \notin Listed(list) => Without(list, m) = list
         /\ m \in Listed(list) =>
              \E at \in 1 .. Len(list) :
                /\ list[at] = m
                /\ Without(list, m) = SubSeq(list, 1, at - 1) \o SubSeq(list, at + 1, Len(list))
<1> DEFINE mine == {i \in 1 .. Len(list) : list[i] = m}
           at == CHOOSE i \in mine : \A j \in mine : i <= j
<1>1. m \in Listed(list) <=> mine # {}
  BY DEF Listed
<1>2. CASE mine = {}
  BY <1>1, <1>2 DEF Without
<1>3. CASE mine # {}
  <2>1. mine \subseteq Nat
    BY LenProperties
  <2>2. \E i \in mine : \A j \in mine : i <= j
    BY <1>3, <2>1, NatHasLeast
  <2>3. at \in mine
    BY <2>2
  <2>4. Without(list, m) = SubSeq(list, 1, at - 1) \o SubSeq(list, at + 1, Len(list))
    BY <1>3 DEF Without
  <2> HIDE DEF at
  <2> QED BY <1>1, <1>3, <2>3, <2>4
<1> QED BY <1>2, <1>3

(* Removing an awaiter that ends removes exactly that one.                     *)
LEMMA WithoutFacts ==
  ASSUME NEW S, NEW list \in Seq(S), NEW m, NoDuplicate(list)
  PROVE  /\ Without(list, m) \in Seq(S)
         /\ Listed(Without(list, m)) = Listed(list) \ {m}
         /\ NoDuplicate(Without(list, m))
<1> DEFINE n == Len(list)
<1>1. n \in Nat /\ \A i \in 1 .. n : list[i] \in S
  BY LenProperties, ElementOfSeq
<1>2. CASE m \notin Listed(list)
  BY <1>2, WithoutIs
<1>3. CASE m \in Listed(list)
  <2>1. PICK at \in 1 .. n :
          /\ list[at] = m
          /\ Without(list, m) = SubSeq(list, 1, at - 1) \o SubSeq(list, at + 1, n)
    BY <1>3, WithoutIs
  <2>2. at \in 1 .. n /\ list[at] = m
    BY <2>1
  <2> DEFINE new == SubSeq(list, 1, at - 1) \o SubSeq(list, at + 1, n)
  <2>3. /\ Without(list, m) = new
        /\ new \in Seq(S)
        /\ Len(new) = n - 1
        /\ \A i \in 1 .. n - 1 : new[i] = IF i <= at - 1 THEN list[i] ELSE list[i + 1]
    BY <2>1, RemoveAtFacts
  <2> HIDE DEF new
  <2>4. ASSUME NEW i \in 1 .. n, i # at PROVE list[i] # m
    BY <2>2, <2>4 DEF NoDuplicate
  <2>5. Listed(new) \subseteq Listed(list) \ {m}
    <3> SUFFICES ASSUME NEW i \in 1 .. n - 1 PROVE new[i] \in Listed(list) \ {m}
      BY <2>3 DEF Listed
    <3>1. CASE i <= at - 1
      <4>1. new[i] = list[i] /\ i \in 1 .. n /\ i # at
        BY <3>1, <2>3, <2>2, <1>1
      <4> QED BY <4>1, <2>4 DEF Listed
    <3>2. CASE ~(i <= at - 1)
      <4>1. new[i] = list[i + 1] /\ i + 1 \in 1 .. n /\ i + 1 # at
        BY <3>2, <2>3, <2>2, <1>1
      <4> QED BY <4>1, <2>4 DEF Listed
    <3> QED BY <3>1, <3>2
  <2>6. Listed(list) \ {m} \subseteq Listed(new)
    <3> SUFFICES ASSUME NEW i \in 1 .. n, list[i] # m PROVE list[i] \in Listed(new)
      BY DEF Listed
    <3>1. CASE i < at
      <4>1. i \in 1 .. Len(new) /\ new[i] = list[i]
        BY <3>1, <2>3, <2>2, <1>1
      <4> QED BY <4>1 DEF Listed
    <3>2. CASE i > at
      <4>1. i - 1 \in 1 .. Len(new) /\ new[i - 1] = list[i]
        BY <3>2, <2>3, <2>2, <1>1
      <4> QED BY <4>1 DEF Listed
    <3>3. i # at
      BY <2>2
    <3> QED BY <3>1, <3>2, <3>3, <2>2
  <2>7. NoDuplicate(new)
    <3> SUFFICES ASSUME NEW i \in 1 .. n - 1, NEW j \in 1 .. n - 1, new[i] = new[j]
                 PROVE  i = j
      BY <2>3 DEF NoDuplicate
    <3> DEFINE src(k) == IF k <= at - 1 THEN k ELSE k + 1
    <3>1. /\ src(i) \in 1 .. n /\ src(j) \in 1 .. n
          /\ new[i] = list[src(i)] /\ new[j] = list[src(j)]
      BY <2>3, <2>2, <1>1
    <3>2. src(i) = src(j)
      BY <3>1 DEF NoDuplicate
    <3> QED BY <3>2, <2>2
  <2> QED BY <2>3, <2>5, <2>6, <2>7
<1> QED BY <1>2, <1>3

(* The next change id is another one, and never 0, also when it wraps.         *)
LEMMA NextChangeIdFacts ==
  ASSUME NEW id \in 1 .. ChangeIdModulus - 1
  PROVE  /\ NextChangeId(id) \in 1 .. ChangeIdModulus - 1
         /\ NextChangeId(id) # id
<1>1. CASE id = ChangeIdModulus - 1
  <2>1. Incremented(id) = 0
    BY <1>1, ModulusAssumption DEF Incremented
  <2> QED BY <2>1, <1>1, ModulusAssumption DEF NextChangeId
<1>2. CASE id < ChangeIdModulus - 1
  <2>1. Incremented(id) = id + 1
    BY <1>2, ModulusAssumption DEF Incremented
  <2> QED BY <2>1, <1>2, ModulusAssumption DEF NextChangeId
<1> QED BY <1>1, <1>2, ModulusAssumption

--------------------------------------------------------------------------------
IInv == TypeOK /\ LockAgreement /\ QueueIsLockers

(* The initial states satisfy the inductive invariant.                        *)
LEMMA InitIInv == Init => IInv
<1> SUFFICES ASSUME Init PROVE IInv
  OBVIOUS
<1> USE DEF Init, CynInit
<1>1. TypeOK
  <2>1. changeid \in 1 .. ChangeIdModulus - 1
    BY ModulusAssumption
  <2>2. queue \in Seq(Record) /\ awaiters \in Seq(Magics)
    BY EmptySeq
  <2>3. rules \in Contents
    BY DEF Contents
  <2> QED BY <2>1, <2>2, <2>3 DEF TypeOK, Clients
<1>2. LockAgreement
  BY NoOneIsNotAMagic
  DEF LockAgreement, EnteredIsLocker, EnteringIsListed, WaitingNeedsLocker,
      LockerDoesNotWait, OnlyConnected, NoDuplicate, Listed, Clients
<1>3. QueueIsLockers
  BY DEF QueueIsLockers
<1> QED BY <1>1, <1>2, <1>3 DEF IInv

(* Nobody is inside only when no change waits to be committed.                *)
LEMMA EmptyQueueWhenFree ==
  ASSUME IInv, magic_locker = NoOne
  PROVE  queue = <<>> /\ ~torn
<1>1. queue \in Seq(Record) /\ \A i \in 1 .. Len(queue) : queue[i].by = NoOne
  BY DEF IInv, TypeOK, QueueIsLockers
<1>2. ASSUME NEW i \in 1 .. Len(queue) PROVE FALSE
  <2>1. queue[i] \in Record
    BY <1>1, ElementOfSeq
  <2> QED BY <2>1, <1>1, NoOneIsNotAMagic DEF Record
<1>3. Len(queue) \in Nat
  BY <1>1, LenProperties
<1>4. Len(queue) = 0
  BY <1>2, <1>3
<1> QED BY <1>1, <1>4, EmptySeq DEF IInv, QueueIsLockers

(* Leaving gives a content of the database, whatever the outcome.              *)
LEMMA LeaveGivesContents ==
  ASSUME TypeOK, NEW c, NEW o, cyn_leave(c, o)
  PROVE  rules' \in Contents
<1>1. queue_play(rules, queue) \in Contents /\ rules \in Contents
  BY QueuePlayType DEF TypeOK, Contents
<1>2. Replays \subseteq Contents
  BY <1>1 DEF Replays
<1> QED BY <1>1, <1>2 DEF cyn_leave

(* What leaving does to the lock, whether asked by a leave request or by the   *)
(* end of the connection: the client is out, and the next one, if any, is in.  *)
LEMMA LeaveKeeps ==
  ASSUME IInv, NEW c \in Clients, NEW o \in Outcomes,
         entered[c], cyn_leave(c, o), entercb(c),
         connected' \in {connected, connected \ {c}}
  PROVE  IInv'
<1> USE DEF Clients
<1>1. /\ magic_locker = c
      /\ awaiters \in Seq(Magics)
      /\ NoDuplicate(awaiters)
      /\ c \notin Listed(awaiters)
      /\ entered \in [Magics -> BOOLEAN] /\ entering \in [Magics -> BOOLEAN]
      /\ \A d \in Magics : entering[d] <=> d \in Listed(awaiters)
      /\ \A d \in Magics : entered[d] <=> d = c
      /\ \A d \in Magics : entering[d] => d \in connected
  BY DEF IInv, TypeOK, LockAgreement, EnteredIsLocker, EnteringIsListed,
         LockerDoesNotWait, OnlyConnected
<1>2. /\ awaiters' \in Seq(Magics)
      /\ NoDuplicate(awaiters')
      /\ \/ magic_locker' = NoOne /\ awaiters' = <<>> /\ Listed(awaiters) = {}
         \/ /\ magic_locker' \in Magics /\ magic_locker' \in Listed(awaiters)
            /\ Listed(awaiters') = Listed(awaiters) \ {magic_locker'}
  <2>1. CASE awaiters = <<>>
    <3>1. magic_locker' = NoOne /\ awaiters' = <<>>
      BY <2>1 DEF cyn_leave, GiveToNext
    <3>2. Listed(awaiters) = {}
      BY <2>1, EmptySeq DEF Listed
    <3> QED BY <3>1, <3>2, <1>1, <2>1
  <2>2. CASE awaiters # <<>>
    <3>1. /\ magic_locker' = awaiters[Len(awaiters)]
          /\ awaiters' = SubSeq(awaiters, 1, Len(awaiters) - 1)
      BY <2>2 DEF cyn_leave, GiveToNext
    <3> QED BY <3>1, <2>2, <1>1, RemoveLastFacts
  <2> QED BY <2>1, <2>2
<1>3. /\ magic_locker' \in Magics \cup {NoOne}
      /\ magic_locker' # c
      /\ Listed(awaiters') = Listed(awaiters) \ {magic_locker'}
      /\ magic_locker' = NoOne => awaiters' = <<>>
  <2>1. Listed(<<>>) = {}
    BY EmptySeq DEF Listed
  <2> QED BY <1>1, <1>2, <2>1, NoOneIsNotAMagic
<1>4. /\ entered' \in [Magics -> BOOLEAN]
      /\ entering' \in [Magics -> BOOLEAN]
      /\ \A d \in Magics : entered'[d] <=> d = magic_locker'
      /\ \A d \in Magics : entering'[d] <=> d \in Listed(awaiters')
  <2>1. ASSUME NEW d \in Magics
        PROVE  /\ entered'[d] <=> \/ d = magic_locker' /\ d # magic_locker
                                  \/ entered[d] /\ d # c
               /\ entering'[d] <=> entering[d] /\ d # magic_locker'
    BY DEF entercb
  <2>2. /\ entered' \in [Magics -> BOOLEAN]
        /\ entering' \in [Magics -> BOOLEAN]
    BY DEF entercb
  <2> QED BY <2>1, <2>2, <1>1, <1>3
<1>5. connected' \subseteq Magics /\ \A d \in Magics : d \in connected /\ d # c => d \in connected'
  BY DEF IInv, TypeOK
<1>6. TypeOK'
  <2>1. queue' \in Seq(Record)
    BY EmptySeq DEF cyn_leave, queue_clear
  <2>2. rules' \in Contents
    BY LeaveGivesContents DEF IInv
  <2>3. changeid' \in 1 .. ChangeIdModulus - 1
    BY NextChangeIdFacts DEF cyn_leave, cyn_changed, IInv, TypeOK
  <2>4. torn' \in BOOLEAN /\ cancelled' \in BOOLEAN
    BY DEF cyn_leave, queue_clear
  <2> QED BY <2>1, <2>2, <2>3, <2>4, <1>2, <1>3, <1>4, <1>5 DEF TypeOK
<1>7. LockAgreement'
  <2>1. OnlyConnected'
    BY <1>1, <1>2, <1>3, <1>4, <1>5, NoOneIsNotAMagic DEF OnlyConnected
  <2>2. EnteredIsLocker' /\ EnteringIsListed'
    BY <1>4 DEF EnteredIsLocker, EnteringIsListed
  <2>3. WaitingNeedsLocker' /\ LockerDoesNotWait'
    BY <1>3 DEF WaitingNeedsLocker, LockerDoesNotWait
  <2> QED BY <2>1, <2>2, <2>3, <1>2 DEF LockAgreement
<1>8. QueueIsLockers'
  <2>1. Len(queue') = 0 /\ torn' = FALSE
    BY EmptySeq DEF cyn_leave, queue_clear
  <2> QED BY <2>1 DEF QueueIsLockers
<1> QED BY <1>6, <1>7, <1>8 DEF IInv

(* Entering, at once or by joining the line.                                  *)
LEMMA EnterKeeps ==
  ASSUME IInv, NEW c \in Clients, Enter(c)
  PROVE  IInv'
<1> USE DEF Clients
<1>1. /\ c \in connected /\ ~entered[c] /\ ~entering[c]
      /\ UNCHANGED <<queue, torn, rules, changeid, connected>> /\ cancelled' = FALSE
      /\ entered' = [entered EXCEPT ![c] = (magic_locker' = c)]
      /\ entering' = [entering EXCEPT ![c] = (magic_locker' # c)]
  BY DEF Enter, cyn_enter_async
<1>2. /\ magic_locker \in Magics \cup {NoOne}
      /\ awaiters \in Seq(Magics)
      /\ NoDuplicate(awaiters)
      /\ entered \in [Magics -> BOOLEAN] /\ entering \in [Magics -> BOOLEAN]
      /\ \A d \in Magics : entering[d] <=> d \in Listed(awaiters)
      /\ \A d \in Magics : entered[d] <=> magic_locker = d
      /\ magic_locker \notin Listed(awaiters)
      /\ \A d \in Magics : entered[d] \/ entering[d] => d \in connected
      /\ magic_locker = NoOne => awaiters = <<>>
  BY DEF IInv, TypeOK, LockAgreement, EnteredIsLocker, EnteringIsListed,
         LockerDoesNotWait, OnlyConnected, WaitingNeedsLocker
<1>3. CASE magic_locker = NoOne
  <2>1. magic_locker' = c /\ awaiters' = awaiters
    BY <1>3 DEF Enter, cyn_enter_async
  <2>2. queue = <<>> /\ ~torn
    BY <1>3, EmptyQueueWhenFree
  <2>3. /\ entered' = [entered EXCEPT ![c] = TRUE]
        /\ entering' = [entering EXCEPT ![c] = FALSE]
    BY <1>1, <2>1
  <2>4. Listed(awaiters) = {}
    BY <1>2, <1>3, EmptySeq DEF Listed
  <2>5. TypeOK'
    BY <1>1, <1>2, <2>1, <2>3 DEF IInv, TypeOK
  <2>6. LockAgreement'
    <3>1. EnteredIsLocker' /\ EnteringIsListed' /\ OnlyConnected'
      BY <1>1, <1>2, <1>3, <2>1, <2>3, <2>4, NoOneIsNotAMagic
      DEF EnteredIsLocker, EnteringIsListed, OnlyConnected
    <3>2. WaitingNeedsLocker' /\ LockerDoesNotWait'
      BY <1>2, <2>1, <2>4, NoOneIsNotAMagic DEF WaitingNeedsLocker, LockerDoesNotWait
    <3> QED BY <3>1, <3>2, <1>2, <2>1 DEF LockAgreement
  <2>7. QueueIsLockers'
    BY <1>1, <2>2, EmptySeq DEF QueueIsLockers
  <2> QED BY <2>5, <2>6, <2>7 DEF IInv
<1>4. CASE magic_locker # NoOne
  <2>1. magic_locker' = magic_locker /\ awaiters' = <<c>> \o awaiters
    BY <1>4 DEF Enter, cyn_enter_async
  <2>2. magic_locker # c
    BY <1>1, <1>2
  <2>3. /\ entered' = [entered EXCEPT ![c] = FALSE]
        /\ entering' = [entering EXCEPT ![c] = TRUE]
    BY <1>1, <2>1, <2>2
  <2>4. /\ awaiters' \in Seq(Magics)
        /\ Listed(awaiters') = Listed(awaiters) \cup {c}
        /\ NoDuplicate(awaiters')
    BY <1>1, <1>2, <2>1, PrependFacts
  <2>5. TypeOK'
    BY <1>1, <1>2, <2>1, <2>3, <2>4 DEF IInv, TypeOK
  <2>6. LockAgreement'
    <3>1. EnteredIsLocker' /\ EnteringIsListed' /\ OnlyConnected'
      BY <1>1, <1>2, <2>1, <2>2, <2>3, <2>4
      DEF EnteredIsLocker, EnteringIsListed, OnlyConnected
    <3>2. WaitingNeedsLocker' /\ LockerDoesNotWait'
      BY <1>2, <1>4, <2>1, <2>2, <2>4 DEF WaitingNeedsLocker, LockerDoesNotWait
    <3> QED BY <3>1, <3>2, <2>4 DEF LockAgreement
  <2>7. QueueIsLockers'
    BY <1>1, <1>4, <2>1 DEF QueueIsLockers, IInv
  <2> QED BY <2>5, <2>6, <2>7 DEF IInv
<1> QED BY <1>3, <1>4

(* A client that waits ends its connection.                                   *)
LEMMA CancelKeeps ==
  ASSUME IInv, NEW c \in Clients, entering[c], cyn_enter_async_cancel(c),
         entering' = [entering EXCEPT ![c] = FALSE],
         connected' = connected \ {c}, UNCHANGED entered
  PROVE  IInv'
<1> USE DEF Clients
<1>1. /\ magic_locker \in Magics \cup {NoOne}
      /\ awaiters \in Seq(Magics)
      /\ NoDuplicate(awaiters)
      /\ entered \in [Magics -> BOOLEAN] /\ entering \in [Magics -> BOOLEAN]
      /\ \A d \in Magics : entering[d] <=> d \in Listed(awaiters)
      /\ \A d \in Magics : entered[d] <=> magic_locker = d
      /\ magic_locker \notin Listed(awaiters)
      /\ \A d \in Magics : entered[d] \/ entering[d] => d \in connected
      /\ magic_locker = NoOne => awaiters = <<>>
  BY DEF IInv, TypeOK, LockAgreement, EnteredIsLocker, EnteringIsListed,
         LockerDoesNotWait, OnlyConnected, WaitingNeedsLocker
<1>2. UNCHANGED <<magic_locker, queue, torn, rules, changeid>> /\ cancelled' = FALSE
  BY DEF cyn_enter_async_cancel
<1>3. /\ awaiters' \in Seq(Magics)
      /\ Listed(awaiters') = Listed(awaiters) \ {c}
      /\ NoDuplicate(awaiters')
  BY <1>1, WithoutFacts DEF cyn_enter_async_cancel
<1>4. magic_locker # NoOne
  <2>1. Listed(<<>>) = {}
    BY EmptySeq DEF Listed
  <2> QED BY <2>1, <1>1
<1>5. TypeOK'
  BY <1>1, <1>2, <1>3 DEF IInv, TypeOK
<1>6. LockAgreement'
  BY <1>1, <1>2, <1>3, <1>4
  DEF LockAgreement, EnteredIsLocker, EnteringIsListed, WaitingNeedsLocker,
      LockerDoesNotWait, OnlyConnected
<1>7. QueueIsLockers'
  BY <1>2 DEF QueueIsLockers, IInv
<1> QED BY <1>5, <1>6, <1>7 DEF IInv

(* Recording a change in the queue, by the client that is inside.             *)
LEMMA RecordKeeps ==
  ASSUME IInv, NEW c \in Clients, entered[c], NEW r \in Record, r.by = c,
         cyn_record(r), UNCHANGED <<connected, entered, entering>>
  PROVE  IInv'
<1> USE DEF Clients
<1>1. magic_locker = c
  BY DEF IInv, LockAgreement, EnteredIsLocker
<1>2. /\ queue' = Append(queue, r)
      /\ UNCHANGED <<magic_locker, awaiters, torn, rules, changeid>>
      /\ cancelled' = FALSE
  BY DEF cyn_record
<1>3. /\ queue' \in Seq(Record)
      /\ Len(queue') = Len(queue) + 1 /\ Len(queue) \in Nat
      /\ \A i \in 1 .. Len(queue) : queue'[i] = queue[i]
      /\ queue'[Len(queue) + 1] = r
  BY <1>2, AppendProperties, LenProperties DEF IInv, TypeOK
<1>4. TypeOK'
  BY <1>2, <1>3 DEF IInv, TypeOK
<1>5. LockAgreement'
  BY <1>2
  DEF IInv, LockAgreement, EnteredIsLocker, EnteringIsListed, WaitingNeedsLocker,
      LockerDoesNotWait, OnlyConnected
<1>6. QueueIsLockers'
  <2> SUFFICES ASSUME NEW i \in 1 .. Len(queue') PROVE queue'[i].by = magic_locker'
    BY <1>2 DEF IInv, QueueIsLockers
  <2>1. CASE i \in 1 .. Len(queue)
    BY <2>1, <1>2, <1>3 DEF IInv, QueueIsLockers
  <2>2. CASE i = Len(queue) + 1
    BY <2>2, <1>1, <1>2, <1>3
  <2> QED BY <2>1, <2>2, <1>3
<1> QED BY <1>4, <1>5, <1>6 DEF IInv

(* A record refused leaves a part of it to the queue of who is inside.        *)
LEMMA RefuseKeeps == ASSUME IInv, NEW c \in Clients, Refuse(c) PROVE IInv'
<1>1. /\ UNCHANGED <<magic_locker, awaiters, queue, rules, changeid,
                      connected, entered, entering>>
      /\ torn' = TRUE /\ cancelled' = FALSE /\ magic_locker # NoOne
  BY DEF Refuse, cyn_record_refused
<1> QED BY <1>1
        DEF IInv, TypeOK, LockAgreement, EnteredIsLocker, EnteringIsListed,
            WaitingNeedsLocker, LockerDoesNotWait, OnlyConnected, QueueIsLockers

(* Every step keeps the inductive invariant.                                  *)
LEMMA NextIInv == IInv /\ [Next]_vars => IInv'
<1> SUFFICES ASSUME IInv, [Next]_vars PROVE IInv'
  OBVIOUS
<1>1. ASSUME NEW c \in Clients, Connect(c) PROVE IInv'
  BY <1>1
  DEF Connect, cynVars, IInv, TypeOK, LockAgreement, EnteredIsLocker, EnteringIsListed,
      WaitingNeedsLocker, LockerDoesNotWait, OnlyConnected, QueueIsLockers
<1>2. ASSUME NEW c \in Clients, Enter(c) PROVE IInv'
  BY <1>2, EnterKeeps
<1>3. ASSUME NEW c \in Clients, NEW k \in Keys, NEW v \in Values, Set(c, k, v)
      PROVE  IInv'
  <2>1. SetRecord(c, k, v) \in Record /\ SetRecord(c, k, v).by = c
    BY DEF SetRecord, Record, Clients
  <2> QED BY <1>3, <2>1, RecordKeeps DEF Set
<1>4. ASSUME NEW c \in Clients, NEW ks \in SUBSET Keys, Drop(c, ks)
      PROVE  IInv'
  <2>1. DropRecord(c, ks) \in Record /\ DropRecord(c, ks).by = c
    BY DEF DropRecord, Record, Clients
  <2> QED BY <1>4, <2>1, RecordKeeps DEF Drop
<1>5. ASSUME NEW c \in Clients, NEW o \in Outcomes, Leave(c, o) PROVE IInv'
  BY <1>5, LeaveKeeps DEF Leave
<1>6. ASSUME NEW c \in Clients, ClearAll(c) PROVE IInv'
  <2>1. changeid' \in 1 .. ChangeIdModulus - 1
    BY <1>6, NextChangeIdFacts DEF ClearAll, cyn_changed, IInv, TypeOK
  <2> QED BY <1>6, <2>1
          DEF ClearAll, IInv, TypeOK, LockAgreement, EnteredIsLocker, EnteringIsListed,
              WaitingNeedsLocker, LockerDoesNotWait, OnlyConnected, QueueIsLockers
<1>7. ASSUME NEW c \in Clients, Destroy(c) PROVE IInv'
  <2>1. CASE /\ entering[c]
             /\ cyn_enter_async_cancel(c)
             /\ entering' = [entering EXCEPT ![c] = FALSE]
             /\ UNCHANGED entered
    BY <1>7, <2>1, CancelKeeps DEF Destroy
  <2>2. CASE entered[c] /\ cyn_leave(c, "rollback") /\ entercb(c)
    BY <1>7, <2>2, LeaveKeeps DEF Destroy, Outcomes
  <2>3. CASE ~entering[c] /\ ~entered[c] /\ UNCHANGED <<cynVars, entered, entering>>
    BY <1>7, <2>3
    DEF Destroy, cynVars, IInv, TypeOK, LockAgreement, EnteredIsLocker, EnteringIsListed,
        WaitingNeedsLocker, LockerDoesNotWait, OnlyConnected, QueueIsLockers
  <2> QED BY <1>7, <2>1, <2>2, <2>3 DEF Destroy
<1>8. ASSUME NEW c \in Clients, Refuse(c) PROVE IInv'
  BY <1>8, RefuseKeeps
<1>9. CASE UNCHANGED vars
  BY <1>9
  DEF vars, IInv, TypeOK, LockAgreement, EnteredIsLocker, EnteringIsListed,
      WaitingNeedsLocker, LockerDoesNotWait, OnlyConnected, QueueIsLockers
<1> QED BY <1>1, <1>2, <1>3, <1>4, <1>5, <1>6, <1>7, <1>8, <1>9 DEF Next

(* The inductive invariant holds in every reachable state.                    *)
LEMMA AlwaysIInv == Spec => []IInv
<1> QED BY InitIInv, NextIInv, PTL DEF Spec

(* The state is always well formed, and the change id never the null one.     *)
THEOREM TypeCorrect == Spec => []TypeOK
<1>1. IInv => TypeOK
  BY DEF IInv
<1> QED BY <1>1, AlwaysIInv, PTL

(* The flags of the connections always agree with the lock: at most one client *)
(* is inside, and exactly the listed awaiters are waiting.                     *)
THEOREM LockAgreementHolds == Spec => []LockAgreement
<1>1. IInv => LockAgreement
  BY DEF IInv
<1> QED BY <1>1, AlwaysIInv, PTL

(* Every change that waits to be committed was written by the client that is   *)
(* inside.                                                                     *)
THEOREM QueueIsLockersHolds == Spec => []QueueIsLockers
<1>1. IInv => QueueIsLockers
  BY DEF IInv
<1> QED BY <1>1, AlwaysIInv, PTL

(* Every change of the rules comes with another change id, but for what the    *)
(* cancel of a replay that failed may give back.                               *)
THEOREM ChangesAreAnnounced == Spec => ChangesAnnounced
<1>1. IInv /\ [Next]_vars => [rules' # rules => changeid' # changeid \/ cancelled']_vars
  <2> SUFFICES ASSUME IInv, [Next]_vars, rules' # rules, ~cancelled'
               PROVE  changeid' # changeid
    OBVIOUS
  <2>1. changeid \in 1 .. ChangeIdModulus - 1
    BY DEF IInv, TypeOK
  <2>2. ASSUME NEW c \in Clients, NEW o, cyn_leave(c, o) PROVE changeid' # changeid
    <3>1. o # "play failed"
      BY <2>2 DEF cyn_leave
    <3>2. cyn_changed
      BY <2>2, <3>1 DEF cyn_leave
    <3> QED BY <2>1, <3>2, NextChangeIdFacts DEF cyn_changed
  <2>3. PICK c \in Clients : \/ \E o \in Outcomes : cyn_leave(c, o)
                             \/ cyn_leave(c, "rollback")
    BY DEF vars, cynVars, Next, Connect, Enter, cyn_enter_async, Set, Drop, cyn_record,
           Refuse, cyn_record_refused, Leave, ClearAll, Destroy, cyn_enter_async_cancel
  <2> QED BY <2>2, <2>3
<1> QED BY <1>1, AlwaysIInv, PTL DEF Spec, ChangesAnnounced

(* Whoever comes in was the oldest of those who wait, or nobody waited.        *)
THEOREM FirstComeIsFirstServed == Spec => FirstComeFirstServed
<1> DEFINE Before(d, c) == \E i, j \in 1 .. Len(awaiters) :
                             awaiters[i] = d /\ awaiters[j] = c /\ i < j
<1>1. ASSUME IInv, Next, NEW c \in Clients, NEW d \in Clients,
             entering[c], Before(d, c) \/ ~entering[d], entered'[d], ~entered[d]
      PROVE  FALSE
  <2>1. /\ awaiters \in Seq(Clients) /\ awaiters # <<>> /\ magic_locker # NoOne
        /\ NoDuplicate(awaiters)
        /\ entered \in [Clients -> BOOLEAN]
        /\ entering[d] <=> d \in Listed(awaiters)
    <3>1. /\ c \in Listed(awaiters) /\ awaiters \in Seq(Clients)
          /\ magic_locker = NoOne => awaiters = <<>>
      BY <1>1 DEF IInv, TypeOK, LockAgreement, EnteringIsListed, WaitingNeedsLocker, Clients
    <3>2. Listed(<<>>) = {}
      BY EmptySeq DEF Listed
    <3> QED BY <1>1, <3>1, <3>2 DEF IInv, TypeOK, LockAgreement, EnteringIsListed
  <2>2. PICK m \in Clients : \E o : magic_locker = m /\ cyn_leave(m, o) /\ entercb(m)
    <3>1. PICK m \in Clients :
            \/ Enter(m)
            \/ \E o \in Outcomes : Leave(m, o)
            \/ Destroy(m)
      BY <1>1 DEF Next, Connect, cynVars, Set, Drop, Refuse, ClearAll
    <3>2. ~Enter(m)
      <4>1. \A x \in Clients : entered[x] <=> magic_locker = x
        BY <1>1 DEF IInv, LockAgreement, EnteredIsLocker
      <4> QED BY <1>1, <2>1, <4>1 DEF Enter, cyn_enter_async
    <3>3. CASE \E o \in Outcomes : Leave(m, o)
      BY <3>3 DEF Leave, cyn_leave
    <3>4. CASE Destroy(m)
      BY <1>1, <3>4 DEF Destroy, cyn_leave
    <3> QED BY <3>1, <3>2, <3>3, <3>4
  <2>3. d = awaiters[Len(awaiters)]
    BY <1>1, <2>1, <2>2 DEF entercb, cyn_leave, GiveToNext
  <2>4. Len(awaiters) \in Nat /\ Len(awaiters) \in 1 .. Len(awaiters)
    BY <2>1, EmptySeq, LenProperties
  <2>5. d \in Listed(awaiters)
    BY <2>3, <2>4 DEF Listed
  <2>6. PICK i \in 1 .. Len(awaiters), j \in 1 .. Len(awaiters) : awaiters[i] = d /\ i < j
    BY <1>1, <2>1, <2>5
  <2>7. i = Len(awaiters)
    BY <2>1, <2>3, <2>4, <2>6 DEF NoDuplicate
  <2> QED BY <2>4, <2>6, <2>7
<1>2. IInv /\ [Next]_vars =>
        [\A c, d \in Clients :
           (/\ entering[c] /\ c \in connected'
            /\ \/ \E i, j \in 1 .. Len(awaiters) :
                    awaiters[i] = d /\ awaiters[j] = c /\ i < j
               \/ ~entering[d])
           => ~(entered'[d] /\ ~entered[d])]_vars
  BY <1>1
<1> QED BY <1>2, AlwaysIInv, PTL DEF Spec, FirstComeFirstServed

--------------------------------------------------------------------------------
(* Reversing a sequence.                                                      *)
LEMMA ReverseFacts ==
  ASSUME NEW S, NEW s \in Seq(S)
  PROVE  /\ Reverse(s) \in Seq(S)
         /\ Len(Reverse(s)) = Len(s)
         /\ \A i \in 1 .. Len(s) : Reverse(s)[i] = s[Len(s) - i + 1]
<1>1. Len(s) \in Nat /\ \A i \in 1 .. Len(s) : s[i] \in S
  BY LenProperties, ElementOfSeq
<1> QED BY <1>1 DEF Reverse

(* Who is put at the head of the list of awaiters is the last of the line.    *)
LEMMA ReversePrepend ==
  ASSUME NEW S, NEW s \in Seq(S), NEW m \in S
  PROVE  Reverse(<<m>> \o s) = Append(Reverse(s), m)
<1> DEFINE new == <<m>> \o s
           n == Len(s)
<1>1. /\ n \in Nat /\ new \in Seq(S) /\ Len(new) = n + 1
      /\ \A i \in 1 .. n + 1 : new[i] = IF i = 1 THEN m ELSE s[i - 1]
  <2>1. <<m>> \in Seq(S) /\ Len(<<m>>) = 1 /\ <<m>>[1] = m
    OBVIOUS
  <2> QED BY <2>1, ConcatProperties, LenProperties
<1> HIDE DEF new
<1>2. /\ Reverse(new) \in Seq(S) /\ Len(Reverse(new)) = n + 1
      /\ \A i \in 1 .. n + 1 : Reverse(new)[i] = new[(n + 1) - i + 1]
  BY <1>1, ReverseFacts
<1>3. /\ Append(Reverse(s), m) \in Seq(S) /\ Len(Append(Reverse(s), m)) = n + 1
      /\ \A i \in 1 .. n : Append(Reverse(s), m)[i] = s[n - i + 1]
      /\ Append(Reverse(s), m)[n + 1] = m
  BY ReverseFacts, AppendProperties
<1>4. ASSUME NEW i \in 1 .. n + 1 PROVE Reverse(new)[i] = Append(Reverse(s), m)[i]
  <2>1. CASE i = n + 1
    <3>1. (n + 1) - i + 1 = 1 /\ 1 \in 1 .. n + 1
      BY <1>1, <2>1
    <3> QED BY <1>1, <1>2, <1>3, <2>1, <3>1
  <2>2. CASE i \in 1 .. n
    <3>1. (n + 1) - i + 1 \in 1 .. n + 1 /\ (n + 1) - i + 1 # 1
      BY <1>1, <2>2
    <3>2. new[(n + 1) - i + 1] = s[((n + 1) - i + 1) - 1]
      BY <1>1, <3>1
    <3>3. ((n + 1) - i + 1) - 1 = n - i + 1
      BY <1>1
    <3> QED BY <1>2, <1>3, <2>2, <3>2, <3>3
  <2>3. i = n + 1 \/ i \in 1 .. n
    BY <1>1
  <2> QED BY <2>1, <2>2, <2>3
<1>5. Reverse(new) = Append(Reverse(s), m)
  BY <1>2, <1>3, <1>4, SeqEqual
<1> QED BY <1>5 DEF new

(* Who is taken out of the list of awaiters is taken out of the line.         *)
LEMMA ReverseRemoveAt ==
  ASSUME NEW S, NEW s \in Seq(S), NEW at \in 1 .. Len(s)
  PROVE  LET n == Len(s)
             line == Reverse(s)
             i == n - at + 1
         IN  /\ i \in DOMAIN line /\ line[i] = s[at]
             /\ Reverse(SubSeq(s, 1, at - 1) \o SubSeq(s, at + 1, n))
                  = SubSeq(line, 1, i - 1) \o SubSeq(line, i + 1, Len(line))
<1> DEFINE n == Len(s)
           line == Reverse(s)
           i == n - at + 1
           new == SubSeq(s, 1, at - 1) \o SubSeq(s, at + 1, n)
           rest == SubSeq(line, 1, i - 1) \o SubSeq(line, i + 1, Len(line))
<1>1. /\ n \in Nat /\ line \in Seq(S) /\ Len(line) = n /\ DOMAIN line = 1 .. n
      /\ \A j \in 1 .. n : line[j] = s[n - j + 1]
  BY ReverseFacts, LenProperties
<1>2. i \in 1 .. n /\ n - i + 1 = at /\ line[i] = s[at]
  BY <1>1
<1>3. /\ new \in Seq(S) /\ Len(new) = n - 1
      /\ \A j \in 1 .. n - 1 : new[j] = IF j <= at - 1 THEN s[j] ELSE s[j + 1]
  <2> HIDE DEF i, line, rest
  <2> QED BY RemoveAtFacts
<1>4. /\ rest \in Seq(S) /\ Len(rest) = n - 1
      /\ \A j \in 1 .. n - 1 : rest[j] = IF j <= i - 1 THEN line[j] ELSE line[j + 1]
  <2>1. line \in Seq(S) /\ i \in 1 .. Len(line) /\ Len(line) = n
    BY <1>1, <1>2
  <2>2. /\ rest \in Seq(S) /\ Len(rest) = Len(line) - 1
        /\ \A j \in 1 .. Len(line) - 1 : rest[j] = IF j <= i - 1 THEN line[j] ELSE line[j + 1]
    <3> HIDE DEF line, i, n
    <3> QED BY <2>1, RemoveAtFacts
  <2> HIDE DEF line, i, n, rest
  <2> QED BY <2>1, <2>2
<1> HIDE DEF new, rest, line
<1>5. /\ Reverse(new) \in Seq(S) /\ Len(Reverse(new)) = n - 1
      /\ \A j \in 1 .. n - 1 : Reverse(new)[j] = new[(n - 1) - j + 1]
  <2>1. /\ Reverse(new) \in Seq(S) /\ Len(Reverse(new)) = Len(new)
        /\ \A j \in 1 .. Len(new) : Reverse(new)[j] = new[Len(new) - j + 1]
    BY <1>3, ReverseFacts
  <2> QED BY <1>3, <2>1
<1>6. ASSUME NEW j \in 1 .. n - 1 PROVE Reverse(new)[j] = rest[j]
  <2>1. (n - 1) - j + 1 \in 1 .. n - 1 /\ (n - 1) - j + 1 = n - j
    BY <1>1
  <2>2. Reverse(new)[j] = IF n - j <= at - 1 THEN s[n - j] ELSE s[n - j + 1]
    BY <1>3, <1>5, <2>1
  <2>3. CASE j <= i - 1
    <3>1. rest[j] = s[n - j + 1] /\ ~(n - j <= at - 1)
      BY <1>1, <1>4, <2>3
    <3> QED BY <2>2, <3>1
  <2>4. CASE ~(j <= i - 1)
    <3>1. rest[j] = line[j + 1] /\ j + 1 \in 1 .. n
      BY <1>1, <1>4, <2>4
    <3>2. line[j + 1] = s[n - j] /\ n - j <= at - 1
      <4>1. n - (j + 1) + 1 = n - j
        BY <1>1
      <4> QED BY <1>1, <2>4, <3>1, <4>1
    <3> QED BY <2>2, <3>1, <3>2
  <2> QED BY <2>3, <2>4
<1>7. Reverse(new) = rest
  BY <1>3, <1>4, <1>5, <1>6, SeqEqual
<1> QED BY <1>1, <1>2, <1>7 DEF new, rest, line

(* Who is at the end of the list is the first of the line.                    *)
LEMMA ReverseHead ==
  ASSUME NEW S, NEW s \in Seq(S), s # <<>>
  PROVE  /\ Reverse(s) # <<>>
         /\ Head(Reverse(s)) = s[Len(s)]
         /\ Tail(Reverse(s)) = Reverse(SubSeq(s, 1, Len(s) - 1))
<1> DEFINE n == Len(s)
<1>1. n \in Nat \ {0}
  BY EmptySeq
<1>2. /\ Reverse(s) \in Seq(S) /\ Len(Reverse(s)) = n
      /\ \A i \in 1 .. n : Reverse(s)[i] = s[n - i + 1]
  BY ReverseFacts
<1>3. Reverse(s) # <<>>
  BY <1>1, <1>2, EmptySeq
<1>4. Head(Reverse(s)) = s[n]
  <2>1. Head(Reverse(s)) = Reverse(s)[1]
    BY <1>2, <1>3
  <2>2. 1 \in 1 .. n /\ n - 1 + 1 = n
    BY <1>1
  <2> QED BY <1>2, <2>1, <2>2
<1> DEFINE new == SubSeq(s, 1, n - 1)
<1>5. /\ new \in Seq(S) /\ Len(new) = n - 1
      /\ \A i \in 1 .. n - 1 : new[i] = s[i]
  <2>1. \A i \in 1 .. n - 1 : s[i] \in S
    BY <1>1, ElementOfSeq
  <2>2. /\ new \in Seq(S)
        /\ Len(new) = IF 1 <= n - 1 THEN (n - 1) - 1 + 1 ELSE 0
        /\ \A i \in 1 .. (n - 1) - 1 + 1 : new[i] = s[1 + i - 1]
    BY <1>1, <2>1, SubSeqProperties, 1 \in Int, n - 1 \in Int
  <2> HIDE DEF new, n
  <2> QED BY <2>2, <1>1
<1> HIDE DEF new
<1>6. /\ Reverse(new) \in Seq(S) /\ Len(Reverse(new)) = n - 1
      /\ \A i \in 1 .. n - 1 : Reverse(new)[i] = s[n - i]
  <2>1. /\ Reverse(new) \in Seq(S) /\ Len(Reverse(new)) = n - 1
        /\ \A i \in 1 .. n - 1 : Reverse(new)[i] = new[(n - 1) - i + 1]
    BY <1>5, ReverseFacts
  <2>2. ASSUME NEW i \in 1 .. n - 1
        PROVE  (n - 1) - i + 1 = n - i /\ n - i \in 1 .. n - 1
    BY <1>1
  <2> QED BY <1>5, <2>1, <2>2
<1>7. /\ Tail(Reverse(s)) \in Seq(S) /\ Len(Tail(Reverse(s))) = n - 1
      /\ \A i \in 1 .. n - 1 : Tail(Reverse(s))[i] = s[n - i]
  <2>1. /\ Tail(Reverse(s)) \in Seq(S) /\ Len(Tail(Reverse(s))) = n - 1
        /\ \A i \in 1 .. n - 1 : Tail(Reverse(s))[i] = Reverse(s)[i + 1]
    BY <1>2, <1>3, HeadTailProperties
  <2>2. ASSUME NEW i \in 1 .. n - 1 PROVE i + 1 \in 1 .. n /\ n - (i + 1) + 1 = n - i
    BY <1>1
  <2> QED BY <1>2, <2>1, <2>2
<1>8. Tail(Reverse(s)) = Reverse(new)
  BY <1>6, <1>7, SeqEqual
<1> QED BY <1>3, <1>4, <1>8 DEF new

--------------------------------------------------------------------------------
(* Replaying the queue gives each key the value of the last write to it.      *)
LEMMA PlayIsResult ==
  ASSUME queue \in Seq(Record)
  PROVE  queue_play(rules, queue) = [k \in Keys |-> Atomic!Result(k)]
<1> SUFFICES ASSUME NEW k \in Keys
             PROVE  (IF Touching(queue, k) = {} THEN rules[k]
                     ELSE queue[LastTouch(queue, k)].value) = Atomic!Result(k)
  BY DEF queue_play
<1>1. Len(queue) \in Nat /\ DOMAIN queue = 1 .. Len(queue)
  BY LenProperties
<1>2. Touching(queue, k) = {i \in DOMAIN queue : k \in queue[i].keys}
  BY <1>1 DEF Touching
<1>3. CASE Touching(queue, k) = {}
  BY <1>2, <1>3 DEF Atomic!Result, Atomic!Written
<1>4. CASE Touching(queue, k) # {}
  <2> DEFINE IsLast(i) == /\ i \in DOMAIN queue /\ k \in queue[i].keys
                          /\ \A j \in DOMAIN queue : k \in queue[j].keys => j <= i
  <2>1. PICK i : IsLast(i)
    <3>1. \E x \in Touching(queue, k) : \A y \in Touching(queue, k) : y <= x
      BY <1>1, <1>2, <1>4, IntervalHasLast
    <3> QED BY <1>2, <3>1
  <2>2. ASSUME NEW j, IsLast(j) PROVE j = i
    <3>1. i \in Nat /\ j \in Nat /\ i <= j /\ j <= i
      BY <1>1, <2>1, <2>2
    <3> QED BY <3>1
  <2>3. LastTouch(queue, k) = i
    BY <1>2, <2>1, <2>2 DEF LastTouch
  <2>4. (CHOOSE j \in DOMAIN queue :
            k \in queue[j].keys /\ \A l \in DOMAIN queue : k \in queue[l].keys => l <= j) = i
    BY <2>1, <2>2
  <2>5. Atomic!Result(k) = queue[i].value
    BY <2>1, <2>4 DEF Atomic!Result, Atomic!Written
  <2> QED BY <1>4, <2>3, <2>5
<1> QED BY <1>3, <1>4

(* The holder leaves: whatever the outcome, all its writes are played or none. *)
LEMMA LeaveIsEnd ==
  ASSUME IInv, NEW c \in Clients, NEW o, cyn_leave(c, o)
  PROVE  Atomic!End(c)
<1>1. queue \in Seq(Record) /\ awaiters \in Seq(Magics)
  BY DEF IInv, TypeOK
<1>2. magic_locker = c /\ queue' = <<>> /\ torn' = FALSE
  BY DEF cyn_leave, queue_clear
<1>3. \/ /\ rules' \in IF torn THEN Atomic!Any ELSE {[k \in Keys |-> Atomic!Result(k)]}
         /\ cancelled' = FALSE
      \/ UNCHANGED rules /\ cancelled' = FALSE
      \/ (torn \/ Atomic!Sets) /\ rules' \in Atomic!Any /\ cancelled' = TRUE
  <2>1. Replays = IF torn THEN Atomic!Any ELSE {[k \in Keys |-> Atomic!Result(k)]}
    BY <1>1, PlayIsResult DEF Replays, Contents, Atomic!Any
  <2>2. ReplayCanFail <=> torn \/ Atomic!Sets
    <3>1. DOMAIN queue = 1 .. Len(queue)
      BY <1>1
    <3> QED BY <3>1 DEF ReplayCanFail, Atomic!Sets
  <2>3. CASE o \in Replaces
    BY <2>1, <2>3 DEF cyn_leave, Replaces
  <2>4. CASE o = "play failed"
    BY <2>2, <2>4 DEF cyn_leave, Replaces, Contents, Atomic!Any
  <2>5. CASE o \notin Replaces /\ o # "play failed"
    BY <2>5 DEF cyn_leave
  <2> QED BY <2>3, <2>4, <2>5
<1>4. \/ Reverse(awaiters) = <<>> /\ magic_locker' = NoOne /\ UNCHANGED Reverse(awaiters)
      \/ /\ Reverse(awaiters) # <<>>
         /\ magic_locker' = Head(Reverse(awaiters))
         /\ Reverse(awaiters') = Tail(Reverse(awaiters))
  <2>1. CASE awaiters = <<>>
    <3>1. magic_locker' = NoOne /\ awaiters' = awaiters
      BY <2>1 DEF cyn_leave, GiveToNext
    <3>2. Reverse(awaiters) = <<>>
      <4>1. Reverse(awaiters) \in Seq(Magics) /\ Len(Reverse(awaiters)) = 0
        BY <1>1, <2>1, ReverseFacts, EmptySeq
      <4> QED BY <4>1, EmptySeq
    <3> QED BY <3>1, <3>2
  <2>2. CASE awaiters # <<>>
    <3>1. /\ magic_locker' = awaiters[Len(awaiters)]
          /\ awaiters' = SubSeq(awaiters, 1, Len(awaiters) - 1)
      BY <2>2 DEF cyn_leave, GiveToNext
    <3> QED BY <1>1, <2>2, <3>1, ReverseHead
  <2> QED BY <2>1, <2>2
<1> QED BY <1>2, <1>3, <1>4 DEF Atomic!End

(* Entering, at once or in the list, is asking for the section.                *)
LEMMA EnterIsAskFor ==
  ASSUME IInv, NEW c \in Clients, Enter(c)
  PROVE  Atomic!AskFor(c)
<1>1. awaiters \in Seq(Magics) /\ magic_locker # c /\ c \notin Listed(awaiters)
  BY DEF IInv, TypeOK, LockAgreement, EnteredIsLocker, EnteringIsListed, Enter, Clients
<1>2. UNCHANGED <<queue, torn, rules>> /\ cancelled' = FALSE
  BY DEF Enter, cyn_enter_async
<1>3. ASSUME NEW i \in DOMAIN Reverse(awaiters) PROVE Reverse(awaiters)[i] # c
  <2>1. /\ Len(awaiters) \in Nat /\ i \in 1 .. Len(awaiters)
        /\ Reverse(awaiters)[i] = awaiters[Len(awaiters) - i + 1]
    BY <1>1, ReverseFacts, LenProperties
  <2>2. Len(awaiters) - i + 1 \in 1 .. Len(awaiters)
    BY <2>1
  <2> QED BY <1>1, <2>1, <2>2 DEF Listed
<1>4. CASE magic_locker = NoOne
  <2>1. magic_locker' = c /\ UNCHANGED Reverse(awaiters)
    BY <1>4 DEF Enter, cyn_enter_async
  <2> QED BY <1>1, <1>2, <1>3, <1>4, <2>1 DEF Atomic!AskFor
<1>5. CASE magic_locker # NoOne
  <2>1. magic_locker' = magic_locker /\ awaiters' = <<c>> \o awaiters
    BY <1>5 DEF Enter, cyn_enter_async
  <2>2. Reverse(awaiters') = Append(Reverse(awaiters), c)
    BY <1>1, <2>1, ReversePrepend DEF Clients
  <2> QED BY <1>1, <1>2, <1>3, <1>5, <2>1, <2>2 DEF Atomic!AskFor
<1> QED BY <1>4, <1>5

(* Cancelling the wait removes the client from the line, wherever it is.       *)
LEMMA CancelIsGiveUp ==
  ASSUME IInv, NEW c \in Clients, entering[c], cyn_enter_async_cancel(c)
  PROVE  Atomic!GiveUp(c)
<1>1. awaiters \in Seq(Magics) /\ c \in Listed(awaiters)
  BY DEF IInv, TypeOK, LockAgreement, EnteringIsListed
<1>2. /\ awaiters' = Without(awaiters, c)
      /\ UNCHANGED <<magic_locker, queue, torn, rules>> /\ cancelled' = FALSE
  BY DEF cyn_enter_async_cancel
<1>3. PICK at \in 1 .. Len(awaiters) :
        /\ awaiters[at] = c
        /\ awaiters' = SubSeq(awaiters, 1, at - 1) \o SubSeq(awaiters, at + 1, Len(awaiters))
  BY <1>1, <1>2, WithoutIs
<1>4. \E i \in DOMAIN Reverse(awaiters) :
        /\ Reverse(awaiters)[i] = c
        /\ Reverse(awaiters') = SubSeq(Reverse(awaiters), 1, i - 1)
                                  \o SubSeq(Reverse(awaiters), i + 1, Len(Reverse(awaiters)))
  BY <1>1, <1>3, ReverseRemoveAt
<1> QED BY <1>2, <1>4 DEF Atomic!GiveUp

(* A record in the queue is a write in the draft of the holder.                *)
LEMMA RecordIsWrite ==
  ASSUME NEW c \in Clients, magic_locker = c, NEW r \in Record, r.by = c, cyn_record(r)
  PROVE  Atomic!ANext
<1>1. /\ r = [by |-> c, keys |-> r.keys, value |-> r.value]
      /\ r.keys \in SUBSET Keys /\ r.value \in Values \cup {None}
  BY DEF Record
<1>2. Atomic!Write(c, r)
  BY DEF Atomic!Write, cyn_record
<1> QED BY <1>1, <1>2 DEF Atomic!ANext, Clients

(* What is left of a refused record garbles the draft.                         *)
LEMMA RefuseIsGarble ==
  ASSUME NEW c \in Clients, magic_locker = c, Refuse(c)
  PROVE  Atomic!ANext
<1>1. Atomic!Garble(c)
  BY DEF Atomic!Garble, Refuse, cyn_record_refused
<1> QED BY <1>1 DEF Atomic!ANext, Clients

(* The server implements the abstract critical section.                       *)
THEOREM ServerIsAtomic == Spec => ImplementsAtomicUpdates
<1>1. Init => Atomic!AInit
  <2> SUFFICES ASSUME Init PROVE Reverse(awaiters) = <<>>
    BY DEF Init, CynInit, Atomic!AInit
  <2>1. awaiters = <<>>
    BY DEF Init, CynInit
  <2>2. Reverse(awaiters) \in Seq(Magics) /\ Len(Reverse(awaiters)) = 0
    BY <2>1, ReverseFacts, EmptySeq
  <2> QED BY <2>2, EmptySeq
<1> DEFINE atomicVars == <<magic_locker, awaiters, queue, torn, rules, cancelled>>
<1>2. IInv /\ [Next]_vars => [Atomic!ANext]_Atomic!avars
  <2> SUFFICES ASSUME IInv, [Next]_vars
               PROVE  Atomic!ANext \/ UNCHANGED atomicVars
    BY DEF Atomic!avars
  <2>1. ASSUME NEW c \in Clients, Connect(c) \/ ClearAll(c)
        PROVE  UNCHANGED atomicVars
    BY <2>1 DEF Connect, ClearAll, cynVars
  <2>2. ASSUME NEW c \in Clients, Enter(c) PROVE Atomic!ANext
    BY <2>2, EnterIsAskFor DEF Atomic!ANext, Clients
  <2>3. ASSUME NEW c \in Clients, entered[c] PROVE magic_locker = c
    BY <2>3 DEF IInv, LockAgreement, EnteredIsLocker
  <2>4. ASSUME NEW c \in Clients, NEW k \in Keys, NEW v \in Values, Set(c, k, v)
        PROVE  Atomic!ANext
    <3>1. SetRecord(c, k, v) \in Record /\ SetRecord(c, k, v).by = c
      BY DEF SetRecord, Record, Clients
    <3> QED BY <2>3, <2>4, <3>1, RecordIsWrite DEF Set
  <2>5. ASSUME NEW c \in Clients, NEW ks \in SUBSET Keys, Drop(c, ks)
        PROVE  Atomic!ANext
    <3>1. DropRecord(c, ks) \in Record /\ DropRecord(c, ks).by = c
      BY DEF DropRecord, Record, Clients
    <3> QED BY <2>3, <2>5, <3>1, RecordIsWrite DEF Drop
  <2>6. ASSUME NEW c \in Clients, NEW o, cyn_leave(c, o) PROVE Atomic!ANext
    BY <2>6, LeaveIsEnd DEF Atomic!ANext, Clients
  <2>7. ASSUME NEW c \in Clients, Destroy(c)
        PROVE  Atomic!ANext \/ UNCHANGED atomicVars
    <3>1. CASE entering[c] /\ cyn_enter_async_cancel(c)
      BY <3>1, CancelIsGiveUp DEF Atomic!ANext, Clients
    <3> QED BY <2>6, <2>7, <3>1 DEF Destroy, cynVars
  <2>8. ASSUME NEW c \in Clients, Refuse(c) PROVE Atomic!ANext
    BY <2>3, <2>8, RefuseIsGarble DEF Refuse
  <2>9. CASE UNCHANGED vars
    BY <2>9 DEF vars
  <2> QED BY <2>1, <2>2, <2>4, <2>5, <2>6, <2>7, <2>8, <2>9 DEF Next, Leave
<1> QED BY <1>1, <1>2, AlwaysIInv, PTL DEF Spec, ImplementsAtomicUpdates, Atomic!ASpec

--------------------------------------------------------------------------------
Pcs == {"idle", "enter", "write", "leave"}
ScriptRecord ==
  [pc : Pcs, kind : Kinds, plan : Seq(Writes), acked : Nat, rc : Results,
   landed : Seq(Writes)]

WellTyped ==
  /\ link \in [Handles -> Clients \cup {NoLink}]
  /\ held \in [Handles -> BOOLEAN]
  /\ call \in [Handles -> Calls]
  /\ script \in [Handles -> ScriptRecord]

(* The server knows the connections the programs hold and those it has yet to  *)
(* see the end of, and no two programs hold the same.                          *)
Tracked ==
  /\ cut \subseteq connected
  /\ \A h \in Handles : link[h] # NoLink => link[h] \in connected \ cut
Apart == \A g, h \in Handles : link[g] = link[h] /\ link[g] # NoLink => g = h

(* The records of q are the first n writes of the plan.                        *)
Matches(q, plan, n) ==
  /\ Len(q) = n
  /\ \A i \in 1 .. n : q[i].keys = plan[i].keys /\ q[i].value = plan[i].value

ScriptInv(s, c) ==
  /\ s.pc = "idle" => c = "none"
  /\ s.pc # "idle" => s.plan \in Plans
  /\ s.pc = "enter" => s.acked = 0
  /\ s.pc = "write" => s.acked < Len(s.plan)
  /\ s.pc = "leave" => s.rc \in {"ok", "failed"}
  /\ s.pc # "leave" => s.landed = <<>>
  /\ s.landed \in {<<>>, s.plan}
  /\ s.pc = "leave" /\ s.rc # "ok" => s.landed = <<>>
  /\ s.pc = "leave" /\ s.rc = "ok" /\ c = "done" => s.landed = s.plan
  /\ c = "waiting" => s.pc = "enter"

(* How a script stands whose connection is inside.                             *)
InsideInv(s, c, flag, q, t) ==
  \/ s.pc = "enter" /\ c = "done" /\ q = <<>> /\ ~t
  \/ /\ s.pc = "write" /\ flag /\ c \in {"none", "sent", "error"}
     /\ Matches(q, s.plan, s.acked) /\ (t => c = "error")
  \/ s.pc = "write" /\ flag /\ c = "done" /\ Matches(q, s.plan, s.acked + 1) /\ ~t
  \/ /\ s.pc = "leave" /\ flag /\ c \in {"none", "sent"}
     /\ s.rc = "ok" => Matches(q, s.plan, Len(s.plan)) /\ ~t

LinkInv(l, s, c, flag) ==
  /\ c \in {"sent", "waiting"} => l # NoLink
  /\ l # NoLink => /\ entering[l] => c = "waiting"
                   /\ entered[l] => InsideInv(s, c, flag, queue, torn)

HandleInv(h) ==
  /\ ScriptInv(script[h], call[h])
  /\ LinkInv(link[h], script[h], call[h], held[h])

SInv == IInv /\ WellTyped /\ Tracked /\ Apart /\ \A h \in Handles : HandleInv(h)

--------------------------------------------------------------------------------
(* What the programs do to the server are steps of module AdminServer.        *)
Acts(c) ==
  \/ Connect(c)
  \/ Enter(c)
  \/ \E k \in Keys, v \in Values : Set(c, k, v)
  \/ \E ks \in SUBSET Keys : Drop(c, ks)
  \/ Refuse(c)
  \/ \E o \in Outcomes : Leave(c, o)
  \/ ClearAll(c)
  \/ Destroy(c)

(* What a client may do to the server is one of its requests or its end.       *)
LEMMA ActsAreSteps == \A c \in Clients : Acts(c) => Next
BY DEF Acts, Next

(* Only a connected client acts, or one that becomes it.                      *)
LEMMA WriteActs ==
  ASSUME NEW c, NEW w \in Writes, Write(c, w)
  PROVE  Acts(c)
<1>1. w.keys \subseteq Keys /\ (w.value # None => w.value \in Values)
  BY DEF Writes
<1>2. CASE w.value # None /\ \E k \in w.keys : Set(c, k, w.value)
  BY <1>1, <1>2 DEF Acts
<1>3. CASE w.value = None /\ Drop(c, w.keys)
  BY <1>1, <1>3 DEF Acts
<1> QED BY <1>2, <1>3 DEF Write

(* What a step of client c does to another one, d: whoever is inside remains   *)
(* with its queue, whoever comes in was waiting and finds the queue empty.     *)
LEMMA Beside ==
  ASSUME IInv, NEW c \in Clients, NEW d \in Clients, c # d, Acts(c)
  PROVE  /\ d \in connected => d \in connected'
         /\ entered[d] => entered'[d] /\ queue' = queue /\ torn' = torn
         /\ ~entered[d] /\ entered'[d] => entering[d] /\ ~entering'[d] /\ queue' = <<>> /\ ~torn'
         /\ entering'[d] => entering[d]
<1>1. /\ \A x \in Clients : entered[x] <=> magic_locker = x
      /\ \A x \in Clients : entering[x] <=> x \in Listed(awaiters)
      /\ awaiters \in Seq(Clients)
      /\ entered \in [Clients -> BOOLEAN] /\ entering \in [Clients -> BOOLEAN]
  BY DEF IInv, TypeOK, LockAgreement, EnteredIsLocker, EnteringIsListed, Clients
<1>2. CASE Connect(c)
  BY <1>2 DEF Connect, cynVars
<1>3. CASE Enter(c)
  BY <1>1, <1>3 DEF Enter, cyn_enter_async
<1>4. CASE \E k \in Keys, v \in Values : Set(c, k, v)
  BY <1>1, <1>4 DEF Set, cyn_record
<1>5. CASE \E ks \in SUBSET Keys : Drop(c, ks)
  BY <1>1, <1>5 DEF Drop, cyn_record
<1>10. CASE Refuse(c)
  BY <1>1, <1>10 DEF Refuse, cyn_record_refused
<1>6. ASSUME NEW o, entered[c], cyn_leave(c, o), entercb(c)
      PROVE  /\ ~entered[d]
             /\ entered'[d] => entering[d] /\ ~entering'[d] /\ queue' = <<>> /\ ~torn'
             /\ entering'[d] => entering[d]
  <2>1. ~entered[d] /\ magic_locker = c
    BY <1>1, <1>6
  <2>2. queue' = <<>> /\ ~torn' /\ GiveToNext
    BY <1>6 DEF cyn_leave, queue_clear
  <2>3. /\ entered'[d] => d = magic_locker'
        /\ entering'[d] => entering[d] /\ d # magic_locker'
    BY <1>6, <2>1 DEF entercb
  <2>4. magic_locker' = d => d \in Listed(awaiters)
    <3>1. CASE awaiters = <<>>
      BY <2>2, <3>1, NoOneIsNotAMagic DEF GiveToNext, Clients
    <3>2. CASE awaiters # <<>>
      BY <1>1, <2>2, <3>2, RemoveLastFacts DEF GiveToNext
    <3> QED BY <3>1, <3>2
  <2> QED BY <1>1, <2>1, <2>2, <2>3, <2>4
<1>7. CASE \E o \in Outcomes : Leave(c, o)
  BY <1>6, <1>7 DEF Leave
<1>8. CASE ClearAll(c)
  BY <1>8 DEF ClearAll
<1>9. CASE Destroy(c)
  <2>1. d \in connected => d \in connected'
    BY <1>9 DEF Destroy
  <2>2. CASE /\ entering[c]
             /\ cyn_enter_async_cancel(c)
             /\ entering' = [entering EXCEPT ![c] = FALSE]
             /\ UNCHANGED entered
    BY <1>1, <2>1, <2>2 DEF cyn_enter_async_cancel
  <2>3. CASE entered[c] /\ cyn_leave(c, "rollback") /\ entercb(c)
    BY <1>6, <2>1, <2>3
  <2>4. CASE ~entering[c] /\ ~entered[c] /\ UNCHANGED <<cynVars, entered, entering>>
    BY <2>1, <2>4 DEF cynVars
  <2> QED BY <1>9, <2>2, <2>3, <2>4 DEF Destroy
<1> QED BY <1>2, <1>3, <1>4, <1>5, <1>7, <1>8, <1>9, <1>10 DEF Acts

(* A program whose script, call and link are not those of the step keeps its   *)
(* invariant: at most, its wait for the critical section ends.                 *)
LEMMA Unconcerned ==
  ASSUME SInv, NEW g \in Handles,
         \/ UNCHANGED vars
         \/ \E c \in Clients : c # link[g] /\ Acts(c),
         link'[g] = link[g], script'[g] = script[g], held'[g] = held[g],
         call'[g] = IF call[g] = "waiting" /\ entered'[link[g]] THEN "done" ELSE call[g]
  PROVE  HandleInv(g)'
<1>1. /\ ScriptInv(script[g], call[g])
      /\ LinkInv(link[g], script[g], call[g], held[g])
      /\ link[g] # NoLink => link[g] \in Clients
  BY DEF SInv, HandleInv, WellTyped
<1>2. ScriptInv(script'[g], call'[g])
  BY <1>1 DEF ScriptInv
<1>3. CASE link[g] = NoLink
  <2>1. call[g] \notin {"sent", "waiting"}
    BY <1>1, <1>3 DEF LinkInv
  <2> QED BY <1>1, <1>2, <1>3, <2>1 DEF HandleInv, LinkInv
<1>4. CASE link[g] # NoLink
  <2> DEFINE d == link[g]
  <2>1. /\ entered[d] => entered'[d] /\ queue' = queue /\ torn' = torn
        /\ ~entered[d] /\ entered'[d] => entering[d] /\ ~entering'[d] /\ queue' = <<>> /\ ~torn'
        /\ entering'[d] => entering[d]
        /\ d \in Clients
        /\ entering[d] => ~entered[d]
    <3>1. entering[d] => ~entered[d]
      BY <1>1, <1>4 DEF LinkInv, InsideInv
    <3>2. CASE UNCHANGED vars
      BY <1>1, <1>4, <3>1, <3>2 DEF vars
    <3>3. CASE \E c \in Clients : c # d /\ Acts(c)
      BY <1>1, <1>4, <3>1, <3>3, Beside DEF SInv
    <3> QED BY <3>2, <3>3
  <2>2. entered[d] => InsideInv(script[g], call[g], held[g], queue, torn) /\ call[g] # "waiting"
    BY <1>1, <1>4 DEF LinkInv, InsideInv
  <2>3. CASE entered[d]
    BY <1>1, <1>2, <1>4, <2>1, <2>2, <2>3 DEF HandleInv, LinkInv
  <2>4. CASE ~entered[d] /\ entered'[d]
    <3>1. call[g] = "waiting" /\ call'[g] = "done" /\ script[g].pc = "enter"
      BY <1>1, <1>4, <2>1, <2>4 DEF LinkInv, ScriptInv
    <3>2. InsideInv(script'[g], call'[g], held'[g], queue', torn')
      BY <3>1, <2>1, <2>4 DEF InsideInv
    <3> QED BY <1>1, <1>2, <1>4, <2>1, <2>4, <3>1, <3>2 DEF HandleInv, LinkInv
  <2>5. CASE ~entered[d] /\ ~entered'[d]
    BY <1>1, <1>2, <1>4, <2>1, <2>5 DEF HandleInv, LinkInv
  <2> QED BY <2>3, <2>4, <2>5
<1> QED BY <1>3, <1>4

--------------------------------------------------------------------------------
(* A step of some programs H on one connection c, or that the server does not  *)
(* see, is only to be looked at for these programs.                            *)
Untouched(g) ==
  /\ link'[g] = link[g] /\ script'[g] = script[g] /\ held'[g] = held[g]
  /\ call'[g] = IF call[g] = "waiting" /\ entered'[link[g]] THEN "done" ELSE call[g]

(* A step of the server keeps SInv if the handles that it does not touch are   *)
(* only woken, and those of H are right after it.                              *)
LEMMA StepKeeps ==
  ASSUME SInv, NEW H \in SUBSET Handles,
         \/ UNCHANGED vars
         \/ \E c \in Clients : Acts(c) /\ \A g \in Handles \ H : link[g] # c,
         \A g \in Handles \ H : Untouched(g),
         \A h \in H : HandleInv(h)',
         WellTyped', Tracked', Apart'
  PROVE  SInv'
<1>1. IInv'
  BY NextIInv, ActsAreSteps DEF SInv
<1>2. ASSUME NEW g \in Handles \ H PROVE HandleInv(g)'
  BY <1>2, Unconcerned DEF Untouched
<1> QED BY <1>1, <1>2 DEF SInv

(* As long as the server sees nothing, a wait goes on.                        *)
LEMMA QuietWait ==
  ASSUME SInv, UNCHANGED vars, NEW g \in Handles, call[g] = "waiting"
  PROVE  ~entered'[link[g]]
BY DEF SInv, HandleInv, LinkInv, InsideInv, vars

(* A step inside a program, that the server does not see.                     *)
LEMMA QuietKeeps ==
  ASSUME SInv, NEW h \in Handles, UNCHANGED <<vars, cut, link>>,
         NEW s \in ScriptRecord, NEW c \in Calls, NEW flag \in BOOLEAN,
         script' = [script EXCEPT ![h] = s],
         call' = [call EXCEPT ![h] = c],
         held' = [held EXCEPT ![h] = flag],
         ScriptInv(s, c), LinkInv(link[h], s, c, flag)
  PROVE  SInv'
<1>1. WellTyped' /\ Tracked' /\ Apart'
  BY DEF SInv, WellTyped, Tracked, Apart, vars
<1>2. HandleInv(h)'
  BY DEF SInv, WellTyped, HandleInv, LinkInv, vars
<1>3. ASSUME NEW g \in Handles \ {h} PROVE Untouched(g)
  BY QuietWait DEF Untouched, SInv, WellTyped
<1>4. /\ {h} \in SUBSET Handles /\ vars' = vars
      /\ \A g \in Handles \ {h} : Untouched(g)
      /\ \A g \in {h} : HandleInv(g)'
  BY <1>2, <1>3
<1> QED BY <1>1, <1>4, StepKeeps

(* The sequences of writes: their elements and their ends.                    *)
LEMMA PlanFacts ==
  ASSUME NEW p \in Plans
  PROVE  /\ p \in Seq(Writes)
         /\ Len(p) \in Nat /\ Len(p) > 0
         /\ \A i \in 1 .. Len(p) : p[i] \in Writes
<1>1. p \in Seq(Writes) /\ Len(p) \in 1 .. MaxQueue
  BY PlansAssumption
<1> QED BY <1>1, LenProperties, ElementOfSeq, MaxQueueAssumption

(* A script starts with nothing acknowledged, and no call in course.           *)
LEMMA StartKeeps == ASSUME SInv, NEW h \in Handles, Start(h) PROVE SInv'
<1>1. PICK p \in Plans, k \in Kinds :
        script' = [script EXCEPT ![h] = Script("enter", k, p, "none")]
  BY DEF Start
<1> DEFINE s == Script("enter", k, p, "none")
<1>2. s \in ScriptRecord
  BY PlanFacts, EmptySeq DEF Script, ScriptRecord, Pcs, Results
<1>3. call[h] = "none" /\ script[h].pc = "idle" /\ held[h] \in BOOLEAN
  BY DEF Start, SInv, HandleInv, ScriptInv, WellTyped
<1>4. ScriptInv(s, "none")
  BY DEF ScriptInv, Script
<1>5. LinkInv(link[h], s, "none", held[h])
  BY <1>3 DEF SInv, HandleInv, LinkInv, InsideInv
<1>6. call' = [call EXCEPT ![h] = "none"] /\ held' = [held EXCEPT ![h] = held[h]]
  BY <1>3 DEF Start, SInv, WellTyped
<1> HIDE DEF s
<1> QED BY <1>1, <1>2, <1>3, <1>4, <1>5, <1>6, QuietKeeps DEF Start, Calls, s

(* How a script goes on: it fails, or it goes to the next call.               *)
LEMMA GoesFacts ==
  ASSUME NEW s \in ScriptRecord, NEW ok \in BOOLEAN, s.pc # "idle"
  PROVE  LET r == Goes(s, ok)
         IN  /\ r \in ScriptRecord
             /\ r.pc # "idle" => r.plan = s.plan /\ r.landed = s.landed
             /\ r.pc = "idle" => r.landed = <<>>
             /\ r.pc # "enter"
             /\ s.pc = "enter" =>
                  IF ok THEN r.pc = "write" /\ r.acked = s.acked ELSE r.pc = "idle"
             /\ s.pc = "write" =>
                  IF ~ok THEN r.pc = "leave" /\ r.rc = "failed"
                  ELSE /\ r.acked = s.acked + 1
                       /\ IF s.acked + 1 < Len(s.plan) THEN r.pc = "write"
                          ELSE r.pc = "leave" /\ r.rc = "ok"
             /\ s.pc = "leave" => r.pc = "idle"
<1> DEFINE r == Goes(s, ok)
<1>1. s.pc \in Pcs /\ s.acked \in Nat /\ s.rc \in Results
  BY DEF ScriptRecord
<1>2. ASSUME NEW rc \in Results
      PROVE  /\ Ended(rc) \in ScriptRecord
             /\ Ended(rc).pc = "idle" /\ Ended(rc).landed = <<>>
  BY EmptySeq DEF Ended, Script, ScriptRecord, Pcs, Kinds
<1>3. CASE s.pc = "enter"
  <2>1. r = IF ok THEN [s EXCEPT !.pc = "write"] ELSE Ended("failed")
    BY <1>3 DEF Goes, AfterEnter
  <2> QED BY <2>1, <1>2, <1>3 DEF ScriptRecord, Pcs, Results
<1>4. CASE s.pc = "write"
  <2> DEFINE n == s.acked + 1
  <2>1. r = IF ~ok THEN [s EXCEPT !.pc = "leave", !.rc = "failed"]
            ELSE IF n < Len(s.plan) THEN [s EXCEPT !.acked = n]
            ELSE [s EXCEPT !.acked = n, !.pc = "leave", !.rc = "ok"]
    BY <1>4 DEF Goes, AfterWrite
  <2>2. n \in Nat
    BY <1>1
  <2> QED BY <2>1, <2>2, <1>4 DEF ScriptRecord, Pcs, Results
<1>5. CASE s.pc = "leave"
  <2>1. r = Ended(IF s.kind = "compat" /\ ~ok THEN "failed" ELSE s.rc)
    BY <1>5 DEF Goes, AfterLeave
  <2> QED BY <2>1, <1>1, <1>2, <1>5 DEF Results
<1> QED BY <1>1, <1>3, <1>4, <1>5 DEF Pcs

(* A call that ends without a request.                                        *)
LEMMA FailedCallKeeps ==
  ASSUME SInv, NEW h \in Handles, script[h].pc # "idle", call[h] = "none",
         link[h] = NoLink \/ Refused(h),
         script' = [script EXCEPT ![h] = Goes(script[h], FALSE)],
         UNCHANGED <<vars, cut, link, held, call>>
  PROVE  SInv'
<1> DEFINE s == script[h]
           r == Goes(s, FALSE)
<1>1. /\ s \in ScriptRecord /\ held[h] \in BOOLEAN
      /\ ScriptInv(s, "none") /\ LinkInv(link[h], s, "none", held[h])
      /\ call' = [call EXCEPT ![h] = "none"] /\ held' = [held EXCEPT ![h] = held[h]]
  BY DEF SInv, HandleInv, WellTyped
<1>2. /\ r \in ScriptRecord
      /\ r.pc # "idle" => r.plan = s.plan /\ r.landed = s.landed
      /\ r.pc = "idle" => r.landed = <<>>
      /\ r.pc \in {"idle", "leave"}
      /\ r.pc = "leave" => r.rc = "failed" /\ s.pc = "write"
  BY <1>1, GoesFacts DEF ScriptRecord, Pcs
<1>3. ScriptInv(r, "none")
  BY <1>1, <1>2 DEF ScriptInv
<1>4. LinkInv(link[h], r, "none", held[h])
  <2>1. link[h] # NoLink => ~entered[link[h]]
    BY <1>1 DEF LinkInv, InsideInv, Refused
  <2> QED BY <1>1, <2>1 DEF LinkInv
<1> HIDE DEF r
<1> QED BY <1>1, <1>2, <1>3, <1>4, QuietKeeps DEF Calls, r

(* A call that returns.                                                       *)
LEMMA ReturnKeeps == ASSUME SInv, NEW h \in Handles, Return(h) PROVE SInv'
<1> DEFINE s == script[h]
           ok == call[h] = "done"
           r == Goes(s, ok)
           flag == Flag(h, ok)
<1>1. /\ s \in ScriptRecord /\ held[h] \in BOOLEAN
      /\ ScriptInv(s, call[h]) /\ LinkInv(link[h], s, call[h], held[h])
      /\ call[h] \in {"done", "error"}
      /\ s.pc \in Pcs /\ s.pc # "idle"
  BY DEF SInv, HandleInv, WellTyped, Return, ScriptInv, ScriptRecord
<1>2. /\ r \in ScriptRecord
      /\ r.pc # "idle" => r.plan = s.plan /\ r.landed = s.landed
      /\ r.pc = "idle" => r.landed = <<>>
      /\ r.pc # "enter"
      /\ s.pc = "enter" => IF ok THEN r.pc = "write" /\ r.acked = s.acked ELSE r.pc = "idle"
      /\ s.pc = "write" =>
           IF ~ok THEN r.pc = "leave" /\ r.rc = "failed"
           ELSE /\ r.acked = s.acked + 1
                /\ IF s.acked + 1 < Len(s.plan) THEN r.pc = "write"
                   ELSE r.pc = "leave" /\ r.rc = "ok"
      /\ s.pc = "leave" => r.pc = "idle"
  <2> HIDE DEF s, ok
  <2>1. ok \in BOOLEAN
    BY DEF ok
  <2> QED BY <1>1, <2>1, GoesFacts
<1>3. flag \in BOOLEAN /\ (s.pc = "enter" /\ ok => flag) /\ (s.pc = "write" => flag = held[h])
  BY <1>1 DEF Flag
<1>4. s.plan \in Plans /\ Len(s.plan) \in Nat /\ Len(s.plan) > 0 /\ s.acked \in Nat
  BY <1>1, PlanFacts DEF ScriptInv, ScriptRecord
<1>5. ScriptInv(r, "none")
  BY <1>1, <1>2, <1>4 DEF ScriptInv, ScriptRecord, Pcs
<1>6. LinkInv(link[h], r, "none", flag)
  <2> SUFFICES ASSUME link[h] # NoLink, entered[link[h]]
               PROVE  InsideInv(r, "none", flag, queue, torn)
    BY <1>1 DEF LinkInv
  <2>1. InsideInv(s, call[h], held[h], queue, torn)
    BY <1>1 DEF LinkInv
  <2>2. CASE s.pc = "enter"
    <3>1. ok /\ queue = <<>> /\ ~torn /\ r.acked = 0
      BY <1>1, <1>2, <2>1, <2>2 DEF InsideInv, ScriptInv
    <3>2. Matches(queue, r.plan, r.acked)
      BY <3>1, EmptySeq DEF Matches
    <3> QED BY <1>2, <1>3, <2>2, <3>1, <3>2 DEF InsideInv
  <2>3. CASE s.pc = "write" /\ ~ok
    BY <1>2, <1>3, <2>1, <2>3 DEF InsideInv
  <2>4. CASE s.pc = "write" /\ ok
    <3>1. held[h] /\ Matches(queue, s.plan, s.acked + 1) /\ ~torn /\ s.acked < Len(s.plan)
      BY <1>1, <2>1, <2>4 DEF InsideInv, ScriptInv
    <3> HIDE DEF r, s
    <3>2. CASE s.acked + 1 < Len(s.plan)
      BY <1>2, <1>3, <2>4, <3>1, <3>2 DEF InsideInv
    <3>3. CASE ~(s.acked + 1 < Len(s.plan))
      <4>1. s.acked + 1 = Len(s.plan)
        BY <1>4, <3>1, <3>3
      <4> QED BY <1>2, <1>3, <2>4, <3>1, <3>3, <4>1 DEF InsideInv
    <3> QED BY <3>2, <3>3
  <2> QED BY <1>1, <2>1, <2>2, <2>3, <2>4 DEF InsideInv
<1>7. /\ script' = [script EXCEPT ![h] = r]
      /\ call' = [call EXCEPT ![h] = "none"]
      /\ held' = [held EXCEPT ![h] = flag]
      /\ UNCHANGED <<vars, cut, link>>
  BY DEF Return
<1> HIDE DEF r, flag
<1> QED BY <1>2, <1>3, <1>5, <1>6, <1>7, QuietKeeps DEF Calls

(* A request that leaves, on the link or on a new one.                        *)
LEMMA SendKeeps == ASSUME SInv, NEW h \in Handles, Send(h) PROVE SInv'
<1> DEFINE s == script[h]
<1>1. /\ s \in ScriptRecord /\ held[h] \in BOOLEAN
      /\ ScriptInv(s, "none") /\ LinkInv(link[h], s, "none", held[h])
      /\ call[h] = "none" /\ s.pc \in Pcs \ {"idle"}
      /\ call' = [call EXCEPT ![h] = "sent"]
      /\ UNCHANGED <<cut, held, script>>
  BY DEF SInv, HandleInv, WellTyped, Send, ScriptRecord
<1>2. ScriptInv(s, "sent")
  BY <1>1 DEF ScriptInv
<1>3. CASE link[h] # NoLink /\ UNCHANGED <<link, vars>>
  <2>1. LinkInv(link[h], s, "sent", held[h])
    BY <1>1, <1>3 DEF LinkInv, InsideInv
  <2>2. script' = [script EXCEPT ![h] = s] /\ held' = [held EXCEPT ![h] = held[h]]
    BY <1>1 DEF SInv, WellTyped
  <2> QED BY <1>1, <1>2, <1>3, <2>1, <2>2, QuietKeeps DEF Calls
<1>4. ASSUME NEW c \in Clients, Connect(c), link' = [link EXCEPT ![h] = c], link[h] = NoLink
      PROVE  SInv'
  <2>1. /\ c \notin connected /\ connected' = connected \cup {c}
        /\ UNCHANGED <<queue, torn, entered, entering>>
        /\ ~entered[c] /\ ~entering[c]
    BY <1>4 DEF Connect, cynVars, SInv, IInv, LockAgreement, OnlyConnected
  <2>2. WellTyped' /\ Tracked' /\ Apart'
    BY <1>1, <1>4, <2>1, NoLinkAssumption DEF SInv, WellTyped, Tracked, Apart, Calls
  <2>3. HandleInv(h)'
    BY <1>1, <1>2, <1>4, <2>1, NoLinkAssumption DEF SInv, WellTyped, HandleInv, LinkInv
  <2>4. ASSUME NEW g \in Handles \ {h} PROVE link[g] # c /\ Untouched(g)
    <3>1. link[g] # c
      BY <2>1, NoLinkAssumption DEF SInv, Tracked, WellTyped
    <3>2. call[g] = "waiting" => ~entered'[link[g]]
      BY <2>1 DEF SInv, HandleInv, LinkInv, InsideInv
    <3> QED BY <1>1, <1>4, <3>1, <3>2 DEF Untouched, SInv, WellTyped
  <2>5. /\ {h} \in SUBSET Handles
        /\ \E d \in Clients : Acts(d) /\ \A g \in Handles \ {h} : link[g] # d
        /\ \A g \in Handles \ {h} : Untouched(g)
        /\ \A g \in {h} : HandleInv(g)'
    BY <1>4, <2>3, <2>4 DEF Acts
  <2> QED BY <2>2, <2>5, StepKeeps
<1> QED BY <1>3, <1>4 DEF Send

--------------------------------------------------------------------------------
(* What the server does of a request of h, that remains connected.            *)
LEMMA ServedKeeps ==
  ASSUME SInv, NEW h \in Handles, link[h] # NoLink,
         UNCHANGED vars \/ Acts(link[h]),
         link[h] \in connected',
         NEW answer \in Calls, Replied(h, answer),
         NEW s \in ScriptRecord, script' = [script EXCEPT ![h] = s],
         HandleInv(h)'
  PROVE  SInv'
<1> DEFINE c == link[h]
<1>1. c \in Clients /\ c \notin cut
  BY DEF SInv, WellTyped, Tracked
<1>2. /\ call' = Woken([call EXCEPT ![h] = answer])
      /\ UNCHANGED <<cut, link, held>>
  BY DEF Replied
<1>3. ASSUME NEW d \in Clients, d # c, d \in connected PROVE d \in connected'
  BY <1>1, <1>3, Beside DEF vars, SInv
<1>4. WellTyped' /\ Tracked' /\ Apart'
  <2>1. WellTyped'
    BY <1>2 DEF SInv, WellTyped, Woken, Calls
  <2>2. connected \subseteq Clients
    BY DEF SInv, IInv, TypeOK
  <2>3. Tracked'
    BY <1>1, <1>2, <1>3, <2>2 DEF SInv, Tracked, WellTyped
  <2> QED BY <1>2, <2>1, <2>3 DEF SInv, Apart
<1>5. ASSUME NEW g \in Handles \ {h} PROVE link[g] # c /\ Untouched(g)
  <2>1. link[g] # c
    BY DEF SInv, Apart
  <2> QED BY <1>2, <2>1 DEF Untouched, SInv, WellTyped, Woken
<1>6. /\ {h} \in SUBSET Handles
      /\ \/ UNCHANGED vars
         \/ \E d \in Clients : Acts(d) /\ \A g \in Handles \ {h} : link[g] # d
      /\ \A g \in Handles \ {h} : Untouched(g)
      /\ \A g \in {h} : HandleInv(g)'
  BY <1>1, <1>5
<1> QED BY <1>4, <1>6, StepKeeps

(* What is known of a request that the server treats.                         *)
LEMMA RequestFacts ==
  ASSUME SInv, NEW h \in Handles, call[h] = "sent"
  PROVE  /\ link[h] # NoLink /\ link[h] \in Clients /\ link[h] \in connected \ cut
         /\ script[h] \in ScriptRecord /\ ScriptInv(script[h], "sent")
         /\ script[h].pc \in Pcs \ {"idle"}
         /\ script = [script EXCEPT ![h] = script[h]]
         /\ held[h] \in BOOLEAN /\ call \in [Handles -> Calls]
         /\ ~entering[link[h]]
         /\ entered[link[h]] => InsideInv(script[h], "sent", held[h], queue, torn)
BY DEF SInv, WellTyped, Tracked, HandleInv, LinkInv, ScriptInv, ScriptRecord

(* Entering gives an empty queue to who gets in, the handle or one that waits. *)
LEMMA ServeEnterKeeps == ASSUME SInv, NEW h \in Handles, ServeEnter(h) PROVE SInv'
<1> DEFINE c == link[h]
           s == script[h]
<1>1. call[h] = "sent" /\ s.pc = "enter" /\ Enter(c) /\ Replied(h, "waiting") /\ script' = script
  BY DEF ServeEnter, Requests
<1>2. /\ c # NoLink /\ c \in Clients /\ c \in connected
      /\ s \in ScriptRecord /\ ScriptInv(s, "sent") /\ call \in [Handles -> Calls]
      /\ script = [script EXCEPT ![h] = s]
  BY <1>1, RequestFacts
<1>3. /\ call'[h] = IF entered'[c] THEN "done" ELSE "waiting"
      /\ link' = link /\ held' = held
  BY <1>1, <1>2 DEF Replied, Woken
<1>4. /\ connected' = connected /\ queue' = queue /\ torn' = torn
      /\ entered'[c] <=> magic_locker' = c
      /\ entering'[c] => ~entered'[c]
      /\ entered'[c] => queue = <<>> /\ ~torn
  <2>1. /\ magic_locker' = c => magic_locker = NoOne
        /\ entered \in [Clients -> BOOLEAN] /\ entering \in [Clients -> BOOLEAN]
        /\ ~entered[c]
    BY <1>1, <1>2
    DEF Enter, cyn_enter_async, SInv, IInv, TypeOK, LockAgreement, EnteredIsLocker
  <2>2. magic_locker = NoOne => queue = <<>> /\ ~torn
    BY EmptyQueueWhenFree DEF SInv
  <2> QED BY <1>1, <1>2, <2>1, <2>2 DEF Enter, cyn_enter_async
<1>5. ScriptInv(s, "waiting") /\ ScriptInv(s, "done")
  BY <1>1, <1>2 DEF ScriptInv
<1>6. HandleInv(h)'
  BY <1>1, <1>2, <1>3, <1>4, <1>5 DEF HandleInv, LinkInv, InsideInv
<1>7. Acts(c) /\ c \in connected'
  BY <1>1, <1>2, <1>4 DEF Acts
<1> QED BY <1>1, <1>2, <1>6, <1>7, ServedKeeps DEF Calls

(* A record more in the queue, and a write more in the matched part.          *)
LEMMA MatchesOneMore ==
  ASSUME NEW q \in Seq(Record), NEW r \in Record, NEW n \in Nat, NEW plan,
         Matches(q, plan, n), r.keys = plan[n + 1].keys, r.value = plan[n + 1].value
  PROVE  Matches(Append(q, r), plan, n + 1)
<1>1. /\ Len(Append(q, r)) = Len(q) + 1 /\ Len(q) = n
      /\ \A i \in 1 .. Len(q) : Append(q, r)[i] = q[i]
      /\ Append(q, r)[Len(q) + 1] = r
  BY AppendProperties DEF Matches
<1>2. ASSUME NEW i \in 1 .. n + 1, i # n + 1 PROVE i \in 1 .. n
  BY <1>2
<1> QED BY <1>1, <1>2 DEF Matches

(* A write served adds to the queue the next write of the plan; one that is    *)
(* refused adds nothing, or a part of a record and the script fails.           *)
LEMMA ServeWriteKeeps == ASSUME SInv, NEW h \in Handles, ServeWrite(h) PROVE SInv'
<1> DEFINE c == link[h]
           s == script[h]
           w == s.plan[s.acked + 1]
<1>1. call[h] = "sent" /\ s.pc = "write" /\ entered[c] /\ script' = script
  BY DEF ServeWrite, Requests
<1>2. /\ c # NoLink /\ c \in Clients /\ c \in connected
      /\ s \in ScriptRecord /\ ScriptInv(s, "sent") /\ call \in [Handles -> Calls]
      /\ script = [script EXCEPT ![h] = s]
      /\ held[h] /\ Matches(queue, s.plan, s.acked) /\ ~torn
      /\ s.acked \in Nat
      /\ ~entering[c]
  BY <1>1, RequestFacts DEF InsideInv, ScriptRecord
<1>3. w \in Writes
  <2>1. s.plan \in Plans /\ s.acked < Len(s.plan)
    BY <1>1, <1>2 DEF ScriptInv
  <2> QED BY <1>2, <2>1, PlanFacts
<1>4. ASSUME NEW answer \in {"done", "error"}, Replied(h, answer)
      PROVE  call'[h] = answer /\ link' = link /\ held' = held
  BY <1>2, <1>4 DEF Replied, Woken
<1>5. ScriptInv(s, "done") /\ ScriptInv(s, "error")
  BY <1>1, <1>2 DEF ScriptInv
<1>6. CASE Write(c, w) /\ Replied(h, "done")
  <2>1. Acts(c)
    BY <1>3, <1>6, WriteActs
  <2>2. PICK r \in Record : cyn_record(r) /\ r.keys = w.keys /\ r.value = w.value
    <3>1. CASE w.value # None /\ \E k \in w.keys : Set(c, k, w.value)
      <4>1. PICK k \in w.keys : cyn_record(SetRecord(c, k, w.value))
        BY <3>1 DEF Set
      <4>2. w.keys = {k} /\ k \in Keys /\ w.value \in Values
        BY <1>3, <3>1, <4>1 DEF Writes
      <4>3. /\ SetRecord(c, k, w.value) \in Record
            /\ SetRecord(c, k, w.value).keys = w.keys
            /\ SetRecord(c, k, w.value).value = w.value
        BY <1>2, <4>2 DEF SetRecord, Record, Clients
      <4> QED BY <4>1, <4>3
    <3>2. CASE w.value = None /\ Drop(c, w.keys)
      <4>1. w.keys \subseteq Keys
        BY <1>3 DEF Writes
      <4>2. /\ DropRecord(c, w.keys) \in Record
            /\ DropRecord(c, w.keys).keys = w.keys
            /\ DropRecord(c, w.keys).value = w.value
        BY <1>2, <3>2, <4>1 DEF DropRecord, Record, Clients
      <4> QED BY <3>2, <4>2 DEF Drop
    <3> QED BY <1>6, <3>1, <3>2 DEF Write
  <2>3. Matches(queue', s.plan, s.acked + 1)
    <3>1. queue \in Seq(Record) /\ queue' = Append(queue, r)
      BY <2>2 DEF SInv, IInv, TypeOK, cyn_record
    <3> HIDE DEF s
    <3> QED BY <1>2, <2>2, <3>1, MatchesOneMore
  <2>4. UNCHANGED <<connected, entered, entering>> /\ torn' = torn
    BY <1>6 DEF Write, Set, Drop, cyn_record
  <2>5. HandleInv(h)'
    BY <1>1, <1>2, <1>4, <1>5, <1>6, <2>3, <2>4 DEF HandleInv, LinkInv, InsideInv
  <2> QED BY <1>1, <1>2, <1>6, <2>1, <2>4, <2>5, ServedKeeps DEF Calls
<1>7. CASE UNCHANGED vars /\ Replied(h, "error")
  <2>1. UNCHANGED <<connected, entered, entering, queue, torn>>
    BY <1>7 DEF vars, cynVars
  <2>2. HandleInv(h)'
    BY <1>1, <1>2, <1>4, <1>5, <1>7, <2>1 DEF HandleInv, LinkInv, InsideInv
  <2> QED BY <1>1, <1>2, <1>7, <2>1, <2>2, ServedKeeps DEF Calls
<1>8. CASE Refuse(c) /\ Replied(h, "error")
  <2>1. UNCHANGED <<connected, entered, entering, queue>>
    BY <1>8 DEF Refuse, cyn_record_refused
  <2>2. HandleInv(h)'
    BY <1>1, <1>2, <1>4, <1>5, <1>8, <2>1 DEF HandleInv, LinkInv, InsideInv
  <2>3. Acts(c)
    BY <1>8 DEF Acts
  <2> QED BY <1>1, <1>2, <1>8, <2>1, <2>2, <2>3, ServedKeeps DEF Calls
<1> QED BY <1>6, <1>7, <1>8 DEF ServeWrite

(* The queue, without the names of the authors, is the plan it matches.       *)
LEMMA BareIsPlan ==
  ASSUME NEW q \in Seq(Record), NEW p \in Seq(Writes), Matches(q, p, Len(p))
  PROVE  Bare(q) = p
<1>1. /\ Len(q) = Len(p) /\ Len(p) \in Nat
      /\ \A i \in 1 .. Len(p) : q[i].keys = p[i].keys /\ q[i].value = p[i].value
  BY LenProperties DEF Matches
<1>2. ASSUME NEW i \in 1 .. Len(p) PROVE Bare(q)[i] = p[i]
  <2>1. p[i] \in Writes
    BY ElementOfSeq
  <2>2. p[i] = [keys |-> p[i].keys, value |-> p[i].value]
    BY <2>1 DEF Writes
  <2> QED BY <1>1, <2>2 DEF Bare
<1>3. /\ DOMAIN p = 1 .. Len(p) /\ p = [i \in 1 .. Len(p) |-> p[i]]
      /\ DOMAIN Bare(q) = 1 .. Len(p)
      /\ Bare(q) = [i \in 1 .. Len(p) |-> Bare(q)[i]]
  BY <1>1, LenProperties DEF Bare
<1> QED BY <1>2, <1>3

(* Leaving commits the queue, which is the whole plan when the script asked    *)
(* for it, and hands the section over with an empty one.                       *)
LEMMA ServeLeaveKeeps == ASSUME SInv, NEW h \in Handles, ServeLeave(h) PROVE SInv'
<1> DEFINE c == link[h]
           s == script[h]
<1>1. call[h] = "sent" /\ s.pc = "leave"
  BY DEF ServeLeave, Requests
<1>2. PICK o \in Outcomes :
        /\ Commits(s) <=> o # "rollback"
        /\ Leave(c, o)
        /\ script' = IF o \in Replaces
                     THEN [script EXCEPT ![h].landed = Landed] ELSE script
        /\ Replied(h, IF o \in {"committed", "rollback"} THEN "done" ELSE "error")
  BY DEF ServeLeave
<1> DEFINE answer == IF o \in {"committed", "rollback"} THEN "done" ELSE "error"
           r == IF o \in Replaces THEN [s EXCEPT !.landed = Landed] ELSE s
<1>3. /\ c # NoLink /\ c \in Clients /\ c \in connected /\ entered[c]
      /\ s \in ScriptRecord /\ ScriptInv(s, "sent") /\ call \in [Handles -> Calls]
      /\ s.rc = "ok" => Matches(queue, s.plan, Len(s.plan)) /\ ~torn
      /\ ~entering[c]
  BY <1>1, <1>2, RequestFacts DEF InsideInv, Leave
<1>4. s.plan \in Plans /\ s.rc \in {"ok", "failed"} /\ s.landed \in {<<>>, s.plan}
  BY <1>1, <1>3 DEF ScriptInv
<1>5. o \in Replaces => s.rc = "ok" /\ Landed = s.plan
  <2>1. queue \in Seq(Record) /\ s.plan \in Seq(Writes)
    BY <1>4, PlanFacts DEF SInv, IInv, TypeOK
  <2> QED BY <1>2, <1>3, <2>1, BareIsPlan DEF Commits, Replaces, Landed
<1>6. /\ r \in ScriptRecord /\ script' = [script EXCEPT ![h] = r]
      /\ r.pc = "leave" /\ r.plan = s.plan /\ r.rc = s.rc
      /\ r.landed = IF o \in Replaces THEN s.plan ELSE s.landed
  <2>1. script \in [Handles -> ScriptRecord]
    BY DEF SInv, WellTyped
  <2> QED BY <1>1, <1>2, <1>3, <1>5, <2>1 DEF ScriptRecord
<1> HIDE DEF r
<1>7. ScriptInv(r, answer)
  <2>1. s.rc = "ok" /\ answer = "done" => o = "committed"
    BY <1>2 DEF Commits
  <2>2. s.rc # "ok" => s.landed = <<>> /\ o \notin Replaces
    BY <1>1, <1>3, <1>5 DEF ScriptInv
  <2> QED BY <1>4, <1>6, <2>1, <2>2 DEF ScriptInv, Replaces
<1>8. ~entered'[c] /\ ~entering'[c] /\ connected' = connected
  <2>1. magic_locker = c
    BY <1>3 DEF SInv, IInv, LockAgreement, EnteredIsLocker
  <2> QED BY <1>2, <1>3, <2>1 DEF Leave, entercb
<1>9. answer \in Calls /\ answer \notin {"sent", "waiting"} /\ Replied(h, answer)
  BY <1>2 DEF Calls
<1> HIDE DEF answer
<1>10. HandleInv(h)'
  <2>1. call'[h] = answer /\ link' = link /\ held' = held /\ script'[h] = r
    BY <1>3, <1>6, <1>9 DEF Replied, Woken, SInv, WellTyped
  <2> QED BY <1>3, <1>7, <1>8, <1>9, <2>1 DEF HandleInv, LinkInv
<1>11. Acts(c) /\ c \in connected'
  BY <1>2, <1>3, <1>8 DEF Acts
<1> QED BY <1>3, <1>6, <1>9, <1>10, <1>11, ServedKeeps

(* A request that is invalid closes the connection; what it had written goes   *)
(* with it.                                                                    *)
LEMMA ServeInvalidKeeps == ASSUME SInv, NEW h \in Handles, ServeInvalid(h) PROVE SInv'
<1> DEFINE c == link[h]
           s == script[h]
<1>1. /\ call[h] = "sent" /\ Destroy(c)
      /\ call' = Woken([call EXCEPT ![h] = "error"])
      /\ link' = [link EXCEPT ![h] = NoLink]
      /\ UNCHANGED <<cut, held, script>>
  BY DEF ServeInvalid
<1>2. /\ c # NoLink /\ c \in Clients /\ c \in connected \ cut
      /\ s \in ScriptRecord /\ ScriptInv(s, "sent") /\ call \in [Handles -> Calls]
  BY <1>1, RequestFacts
<1>3. Acts(c) /\ connected' = connected \ {c}
  BY <1>1 DEF Acts, Destroy
<1>4. call'[h] = "error" /\ link'[h] = NoLink
  BY <1>1, <1>2 DEF Woken, SInv, WellTyped
<1>5. ScriptInv(s, "error")
  BY <1>2 DEF ScriptInv
<1>6. HandleInv(h)'
  BY <1>1, <1>4, <1>5 DEF HandleInv, LinkInv
<1>7. WellTyped' /\ Apart'
  BY <1>1 DEF SInv, WellTyped, Apart, Woken, Calls
<1>8. Tracked'
  BY <1>1, <1>2, <1>3 DEF SInv, Tracked, Apart, WellTyped
<1>9. ASSUME NEW g \in Handles \ {h} PROVE link[g] # c /\ Untouched(g)
  <2>1. link[g] # c
    BY <1>2 DEF SInv, Apart
  <2> QED BY <1>1, <2>1 DEF Untouched, SInv, WellTyped, Woken
<1>10. /\ {h} \in SUBSET Handles
       /\ \E d \in Clients : Acts(d) /\ \A g \in Handles \ {h} : link[g] # d
       /\ \A g \in Handles \ {h} : Untouched(g)
       /\ \A g \in {h} : HandleInv(g)'
  BY <1>2, <1>3, <1>6, <1>9
<1> QED BY <1>7, <1>8, <1>10, StepKeeps

(* A step on a connection that no program of Handles holds.                   *)
LEMMA ElsewhereKeeps ==
  ASSUME SInv, NEW c \in Clients, \A g \in Handles : link[g] # c, Acts(c),
         call' = Woken(call), UNCHANGED <<link, held, script>>,
         cut' \subseteq cut, c \notin cut'
  PROVE  SInv'
<1>1. WellTyped' /\ Apart'
  BY DEF SInv, WellTyped, Apart, Woken, Calls
<1>2. Tracked'
  <2>1. connected \subseteq Clients
    BY DEF SInv, IInv, TypeOK
  <2>2. \A d \in connected : d # c => d \in connected'
    BY <2>1, Beside DEF SInv
  <2> QED BY <2>2 DEF SInv, Tracked
<1>3. ASSUME NEW g \in Handles PROVE Untouched(g)
  BY DEF Untouched, Woken
<1>4. /\ {} \in SUBSET Handles
      /\ \E d \in Clients : Acts(d) /\ \A g \in Handles \ {} : link[g] # d
      /\ \A g \in Handles \ {} : Untouched(g)
      /\ \A g \in {} : HandleInv(g)'
  BY <1>3
<1> QED BY <1>1, <1>2, <1>4, StepKeeps

(* The server sees the end of a connection that no handle holds any more.      *)
LEMMA HangupKeeps == ASSUME SInv, NEW c \in Clients, Hangup(c) PROVE SInv'
<1>1. Acts(c) /\ \A g \in Handles : link[g] # c
  BY NoLinkAssumption DEF Hangup, Acts, SInv, Tracked
<1> QED BY <1>1, ElsewhereKeeps DEF Hangup

(* Other programs change nothing of the connections that handles hold.         *)
LEMMA OtherKeeps ==
  ASSUME SInv, NEW c \in Clients, OtherQuits(c) \/ OtherAsks(c)
  PROVE  SInv'
<1>1. /\ \A g \in Handles : link[g] # c
      /\ c \notin cut /\ call' = Woken(call) /\ UNCHANGED <<cut, link, held, script>>
  BY DEF OtherQuits, OtherAsks, OtherStep, Others
<1>2. Acts(c)
  <2>1. CASE OtherQuits(c)
    BY <2>1 DEF OtherQuits, OtherStep, Quits, Acts
  <2>2. CASE \E w \in OtherWrites : Write(c, w)
    BY <2>2, OtherWritesAssumption, WriteActs
  <2>3. CASE Connect(c) \/ Enter(c) \/ Refuse(c) \/ ClearAll(c) \/ Destroy(c)
    BY <2>3 DEF Acts
  <2> QED BY <2>1, <2>2, <2>3 DEF OtherAsks, OtherStep, Asks
<1> QED BY <1>1, <1>2, ElsewhereKeeps

--------------------------------------------------------------------------------
(* A program loses its link, broken or with its life.                         *)
LEMMA LostLinkKeeps ==
  ASSUME SInv, NEW h \in Handles, UNCHANGED vars,
         cut' = IF link[h] = NoLink THEN cut ELSE cut \cup {link[h]},
         link' = [link EXCEPT ![h] = NoLink],
         NEW s \in ScriptRecord, script' = [script EXCEPT ![h] = s],
         NEW c \in Calls \ {"sent", "waiting"}, call' = [call EXCEPT ![h] = c],
         NEW flag \in BOOLEAN, held' = [held EXCEPT ![h] = flag],
         ScriptInv(s, c)
  PROVE  SInv'
<1>1. WellTyped' /\ Apart'
  BY DEF SInv, WellTyped, Apart
<1>2. Tracked'
  BY DEF SInv, WellTyped, Tracked, Apart, vars
<1>3. HandleInv(h)'
  BY DEF SInv, WellTyped, HandleInv, LinkInv
<1>4. ASSUME NEW g \in Handles \ {h} PROVE Untouched(g)
  BY QuietWait DEF Untouched, SInv, WellTyped
<1>5. /\ {h} \in SUBSET Handles
      /\ \A g \in Handles \ {h} : Untouched(g)
      /\ \A g \in {h} : HandleInv(g)'
  BY <1>3, <1>4
<1> QED BY <1>1, <1>2, <1>5, StepKeeps

(* A link that breaks leaves to the script no connection, hence nothing        *)
(* inside.                                                                     *)
LEMMA BreakKeeps == ASSUME SInv, NEW h \in Handles, Break(h) PROVE SInv'
<1> DEFINE s == script[h]
<1>1. /\ s \in ScriptRecord /\ ScriptInv(s, call[h]) /\ held[h] \in BOOLEAN
      /\ call[h] \in Calls
      /\ script = [script EXCEPT ![h] = s] /\ held = [held EXCEPT ![h] = held[h]]
  BY DEF SInv, WellTyped, HandleInv
<1>2. /\ UNCHANGED <<vars, held, script>>
      /\ cut' = IF link[h] = NoLink THEN cut ELSE cut \cup {link[h]}
      /\ link' = [link EXCEPT ![h] = NoLink]
  BY DEF Break
<1>3. PICK c : /\ call' = [call EXCEPT ![h] = c]
               /\ c \in {call[h], "error"} \ {"sent", "waiting"}
               /\ c = "error" => call[h] # "none"
  <2> DEFINE lost == IF call[h] = "none" THEN "none" ELSE "error"
             read == IF call[h] \in {"sent", "waiting"} THEN "error" ELSE call[h]
  <2>1. call' = [call EXCEPT ![h] = lost] \/ call' = [call EXCEPT ![h] = read]
    BY DEF Break
  <2>2. \A c \in {lost, read} : /\ c \in {call[h], "error"} \ {"sent", "waiting"}
                                /\ c = "error" => call[h] # "none"
    OBVIOUS
  <2> HIDE DEF lost, read
  <2> QED BY <2>1, <2>2
<1>4. ScriptInv(s, c)
  BY <1>1, <1>3 DEF ScriptInv
<1> QED BY <1>1, <1>2, <1>3, <1>4, LostLinkKeeps DEF Calls

(* A killed program leaves an idle script and no connection.                   *)
LEMMA KillKeeps == ASSUME SInv, NEW h \in Handles, Kill(h) PROVE SInv'
<1>1. Ended("none") \in ScriptRecord /\ ScriptInv(Ended("none"), "none")
  BY EmptySeq DEF Ended, Script, ScriptRecord, Pcs, Kinds, Results, ScriptInv
<1> QED BY <1>1, LostLinkKeeps DEF Kill, Calls

--------------------------------------------------------------------------------
(* The initial states satisfy the inductive invariant.                        *)
LEMMA SessionInitSInv == SessionInit => SInv
<1> SUFFICES ASSUME SessionInit PROVE SInv
  OBVIOUS
<1> USE DEF SessionInit
<1>1. IInv
  BY InitIInv
<1>2. Ended("none") \in ScriptRecord /\ ScriptInv(Ended("none"), "none")
  BY EmptySeq DEF Ended, Script, ScriptRecord, Pcs, Kinds, Results, ScriptInv
<1>3. WellTyped /\ Tracked /\ Apart
  BY <1>2 DEF WellTyped, Tracked, Apart, Calls
<1>4. \A h \in Handles : HandleInv(h)
  BY <1>2 DEF HandleInv, LinkInv
<1> QED BY <1>1, <1>3, <1>4 DEF SInv

(* Every step keeps the inductive invariant.                                  *)
LEMMA SessionNextSInv == SInv /\ [SessionNext]_sessionVars => SInv'
<1> SUFFICES ASSUME SInv, [SessionNext]_sessionVars PROVE SInv'
  OBVIOUS
<1>1. ASSUME NEW h \in Handles, CallRefused(h) \/ CannotConnect(h) PROVE SInv'
  BY <1>1, FailedCallKeeps DEF CallRefused, CannotConnect
<1>2. ASSUME NEW h \in Handles, Progress(h) PROVE SInv'
  BY <1>1, <1>2, SendKeeps, ReturnKeeps, ServeEnterKeeps, ServeWriteKeeps,
     ServeLeaveKeeps, ServeInvalidKeeps
  DEF Progress, Serve
<1>3. ASSUME NEW h \in Handles, Start(h) \/ Break(h) \/ Kill(h) PROVE SInv'
  BY <1>3, StartKeeps, BreakKeeps, KillKeeps
<1>4. ASSUME NEW c \in Clients, Hangup(c) \/ OtherQuits(c) \/ OtherAsks(c) PROVE SInv'
  BY <1>4, HangupKeeps, OtherKeeps
<1>5. CASE UNCHANGED sessionVars
  <2>1. UNCHANGED vars /\ UNCHANGED <<cut, link, held, call, script>>
    BY <1>5 DEF sessionVars, handleVars
  <2>2. IInv'
    BY <2>1, NextIInv DEF SInv
  <2>3. UNCHANGED <<queue, torn, connected, entered, entering>>
    BY <2>1 DEF vars
  <2>4. WellTyped' /\ Tracked' /\ Apart'
    BY <2>1, <2>3 DEF SInv, WellTyped, Tracked, Apart
  <2>5. \A h \in Handles : HandleInv(h)'
    BY <2>1, <2>3 DEF SInv, HandleInv, ScriptInv, LinkInv, InsideInv, Matches
  <2> QED BY <2>2, <2>4, <2>5 DEF SInv
<1> QED BY <1>2, <1>3, <1>4, <1>5 DEF SessionNext

(* The inductive invariant holds in every reachable state.                    *)
LEMMA AlwaysSInv == SessionSpec => []SInv
<1> QED BY SessionInitSInv, SessionNextSInv, PTL DEF SessionSpec

(* The state of the server and of the programs is always well formed.         *)
THEOREM SessionTypeCorrect == SessionSpec => []SessionTypeOK
<1>1. SInv => SessionTypeOK
  BY DEF SInv, IInv, WellTyped, Tracked, SessionTypeOK
<1> QED BY <1>1, AlwaysSInv, PTL

(* Whatever the programs do, and whatever breaks between them and the server,  *)
(* the server only sees the steps that module AdminServer gives its clients:   *)
(* what is proved of these holds with these programs.                          *)
THEOREM SessionImplementsServer == SessionSpec => Spec
<1>1. SessionInit => Init
  BY DEF SessionInit
<1>2. SInv /\ [SessionNext]_sessionVars => [Next]_vars
  <2> SUFFICES ASSUME SInv, SessionNext, UNCHANGED vars \/ vars' # vars
               PROVE  UNCHANGED vars \/ Next
    BY DEF sessionVars
  <2>1. ASSUME NEW h \in Handles, Start(h) \/ Break(h) \/ Kill(h) PROVE UNCHANGED vars
    BY <2>1 DEF Start, Break, Kill
  <2>2. ASSUME NEW h \in Handles, CallRefused(h) \/ CannotConnect(h) \/ Return(h)
        PROVE  UNCHANGED vars
    BY <2>2 DEF CallRefused, CannotConnect, Return
  <2>3. ASSUME NEW h \in Handles, Send(h) PROVE UNCHANGED vars \/ Next
    BY <2>3 DEF Send, Next
  <2>4. ASSUME NEW h \in Handles, ServeEnter(h) \/ ServeLeave(h) \/ ServeInvalid(h) PROVE Next
    BY <2>4, RequestFacts DEF ServeEnter, ServeLeave, ServeInvalid, Requests, Next
  <2>5. ASSUME NEW h \in Handles, ServeWrite(h) PROVE UNCHANGED vars \/ Next
    <3> DEFINE s == script[h]
    <3>1. /\ link[h] \in Clients /\ s \in ScriptRecord /\ ScriptInv(s, "sent")
          /\ s.pc = "write"
      BY <2>5, RequestFacts DEF ServeWrite, Requests
    <3>2. s.plan[s.acked + 1] \in Writes
      <4>1. s.plan \in Plans /\ s.acked \in Nat /\ s.acked < Len(s.plan)
        BY <3>1 DEF ScriptInv, ScriptRecord
      <4> QED BY <4>1, PlanFacts
    <3>3. CASE Refuse(link[h])
      BY <3>1, <3>3, ActsAreSteps DEF Acts
    <3>4. CASE Write(link[h], s.plan[s.acked + 1])
      BY <3>1, <3>2, <3>4, WriteActs, ActsAreSteps
    <3> QED BY <2>5, <3>3, <3>4 DEF ServeWrite
  <2>6. ASSUME NEW c \in Clients, Hangup(c) PROVE Next
    BY <2>6 DEF Hangup, Next
  <2>7. ASSUME NEW c \in Clients, OtherQuits(c) \/ OtherAsks(c) PROVE Next
    <3>1. CASE \E w \in OtherWrites : Write(c, w)
      BY <3>1, OtherWritesAssumption, WriteActs, ActsAreSteps
    <3> QED BY <2>7, <3>1 DEF OtherQuits, OtherAsks, OtherStep, Quits, Asks, Next
  <2> QED BY <2>1, <2>2, <2>3, <2>4, <2>5, <2>6, <2>7 DEF SessionNext, Progress, Serve
<1> QED BY <1>1, <1>2, AlwaysSInv, PTL DEF SessionSpec, Spec

(* A script changes the rules by all that it was given to write or by nothing. *)
THEOREM ScriptsAreAtomic == SessionSpec => []AllOrNothing
<1>1. SInv => AllOrNothing
  BY DEF SInv, HandleInv, ScriptInv, AllOrNothing
<1> QED BY <1>1, AlwaysSInv, PTL

(* What a program is told when its script ends is true: success of the         *)
(* compatibility library means committed, failure of the command line means    *)
(* that nothing changed.                                                       *)
THEOREM ReportsAreTrue == SessionSpec => ReportIsTrue
<1> DEFINE True(h) ==
      LET s == script[h]
          rc == script'[h].rc
      IN  s.pc # "idle" /\ script'[h].pc = "idle" =>
            /\ s.kind = "compat" /\ rc = "ok" => s.landed = s.plan
            /\ s.kind = "cli" /\ rc = "failed" => s.landed = <<>>
<1>1. ASSUME SInv, SessionNext, NEW h \in Handles, script[h].pc # "idle",
             script'[h].pc = "idle"
      PROVE  True(h)
  <2> DEFINE s == script[h]
  <2>1. /\ s \in ScriptRecord /\ ScriptInv(s, call[h]) /\ s.pc \in Pcs
        /\ script \in [Handles -> ScriptRecord]
    BY <1>1 DEF SInv, HandleInv, WellTyped, ScriptRecord
  <2>2. \/ script'[h] = Ended("none")
        \/ \E ok \in BOOLEAN : script'[h] = Goes(s, ok) /\ (ok <=> call[h] = "done")
    <3>1. script'[h] # s
      BY <1>1
    <3>2. ~ UNCHANGED script
      BY <3>1
    <3>3. ASSUME NEW g \in Handles, Start(g) PROVE FALSE
      BY <1>1, <2>1, <3>1, <3>3 DEF Start, Script
    <3>4. ASSUME NEW g \in Handles, CallRefused(g) \/ CannotConnect(g)
          PROVE  script'[h] = Goes(s, FALSE) /\ call[h] # "done"
      BY <2>1, <3>1, <3>4 DEF CallRefused, CannotConnect
    <3>5. ASSUME NEW g \in Handles, Return(g)
          PROVE  script'[h] = Goes(s, call[h] = "done")
      BY <2>1, <3>1, <3>5 DEF Return
    <3>6. ASSUME NEW g \in Handles, Send(g) \/ ServeEnter(g) \/ ServeWrite(g)
                                    \/ ServeInvalid(g) \/ Break(g)
          PROVE  FALSE
      BY <3>2, <3>6 DEF Send, ServeEnter, ServeWrite, ServeInvalid, Break
    <3>7. ASSUME NEW g \in Handles, ServeLeave(g) PROVE FALSE
      <4>1. script' \in {script, [script EXCEPT ![g].landed = Landed]}
        BY <3>7 DEF ServeLeave
      <4>2. script'[h].pc = s.pc
        BY <2>1, <4>1 DEF ScriptRecord
      <4> QED BY <1>1, <4>2
    <3>8. ASSUME NEW g \in Handles, Kill(g) PROVE script'[h] = Ended("none")
      BY <2>1, <3>1, <3>8 DEF Kill
    <3>9. ASSUME NEW c \in Clients, Hangup(c) \/ OtherQuits(c) \/ OtherAsks(c) PROVE FALSE
      BY <3>2, <3>9 DEF Hangup, OtherQuits, OtherAsks, OtherStep
    <3> QED BY <1>1, <3>3, <3>4, <3>5, <3>6, <3>7, <3>8, <3>9 DEF SessionNext, Progress, Serve
  <2>3. CASE script'[h] = Ended("none")
    BY <2>3 DEF Ended, Script
  <2>4. ASSUME NEW ok \in BOOLEAN, script'[h] = Goes(s, ok), ok <=> call[h] = "done"
        PROVE  True(h)
    <3>1. CASE s.pc = "enter"
      BY <1>1, <2>1, <2>4, <3>1, GoesFacts
      DEF Goes, AfterEnter, Ended, Script, ScriptInv
    <3>2. CASE s.pc = "write"
      <4>1. script'[h].pc # "idle"
        <5> HIDE DEF s
        <5> QED BY <2>1, <2>4, <3>2, GoesFacts
      <4> QED BY <1>1, <4>1
    <3>3. CASE s.pc = "leave"
      <4>1. script'[h].rc = IF s.kind = "compat" /\ ~ok THEN "failed" ELSE s.rc
        BY <2>4, <3>3 DEF Goes, AfterLeave, Ended, Script
      <4> QED BY <2>1, <2>4, <3>3, <4>1 DEF ScriptInv
    <3> QED BY <1>1, <2>1, <3>1, <3>2, <3>3 DEF Pcs
  <2> QED BY <2>2, <2>3, <2>4
<1>2. SInv /\ [SessionNext]_sessionVars => [\A h \in Handles : True(h)]_sessionVars
  BY <1>1
<1> QED BY <1>2, AlwaysSInv, PTL DEF SessionSpec, ReportIsTrue
================================================================================
