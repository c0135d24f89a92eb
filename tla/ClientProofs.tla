-------------------------------- MODULE ClientProofs --------------------------------
(*******************************************************************************)
(* Proofs about module Client, for any keys, values, identifiers and bound on  *)
(* the questions in flight.                                                    *)
(*                                                                             *)
(* All the library computes is on a handle h: CInv is Sound(Now), and what the *)
(* operators of Client make of a sound handle is sound.  It counts what is on  *)
(* its way for each identifier (InWay).  A request that is pending on the      *)
(* connection has one message, and no identifier has two, which is what keeps  *)
(* an answer from another request; while nothing was cancelled no message is   *)
(* without a request or a call that waits, which is what keeps it from another *)
(* call; and a yes or no that no clear follows is what the rule says, which is *)
(* what keeps the cache right.                                                 *)
(*******************************************************************************)
EXTENDS Client, Lemmas

--------------------------------------------------------------------------------
Message == Answer \cup {Clear}
Handles == [link : {"none", "up", "cut"}, requests : SUBSET Request,
            cache : [Keys -> Cached], in : Seq(Message), facts : SUBSET Facts]

(* What is on its way for an identifier: the same as Places, for the messages  *)
(* that a handle has still to read.                                            *)
QuestionsOf(id) == {q \in Question : q.id = id}
AnswersOf(id) == {a \in Answer : a.id = id}
AskedOf(id) == {q \in asked : q.id = id}
InWay(in, id) ==
  Count(toServer, QuestionsOf(id)) + Count(in, AnswersOf(id)) + Cardinality(AskedOf(id))

(* All of it is about the key k.                                               *)
Bears(in, id, k) ==
  /\ \A q \in Elements(toServer) : q.id = id => q.key = k
  /\ \A q \in asked : q.id = id => q.key = k
  /\ \A a \in Elements(in) : a # Clear /\ a.id = id => a.key = k

(* The callbacks of a request get what is theirs, once.                        *)
OneOfEach(requestSet) == \A r, s \in requestSet : r.id = s.id => r = s
Own(requestSet, in) == \A r \in requestSet : Bears(in, r.id, r.key)
AtMostOnce(in) == \A id \in Ids : InWay(in, id) <= 1
Alive(requestSet, in) == \A r \in requestSet : ~r.lost => InWay(in, r.id) = 1
RequestsSound(h) ==
  /\ OneOfEach(h.requests) /\ Own(h.requests, h.in) /\ AtMostOnce(h.in)
  /\ h.link = "up" => Alive(h.requests, h.in)
  /\ "crossed" \notin h.facts

(* Nothing but what is awaited is on its way.                                  *)
Awaited(requestSet, in) ==
  \A id \in Ids : InWay(in, id) > 0 => \E r \in requestSet : r.id = id
OwnOfCall(call, in) ==
  /\ InWay(in, SyncId) <= 1
  /\ InWay(in, SyncId) > 0 => call # NoCall /\ Bears(in, SyncId, call.key)
SyncSound(h) ==
  "cancelled" \notin h.facts =>
    /\ Awaited(h.requests, h.in) /\ OwnOfCall(sync, h.in)
    /\ h.link = "up" /\ sync # NoCall /\ "nested" \notin h.facts => InWay(h.in, SyncId) = 1
    /\ "foreign" \notin h.facts

(* A yes or no that no clear follows is of the rule, and the server knows that *)
(* the client may cache it.                                                    *)
ClearedAfter(in, i) == \E j \in DOMAIN in : j > i /\ in[j] = Clear
IsDirect(a) == a # Clear /\ ~a.late /\ a.value # "ack"
ComingIsCurrent(in) ==
  \A i \in DOMAIN in :
    IsDirect(in[i]) /\ ~ClearedAfter(in, i) => caching /\ in[i].value = rules[in[i].key]
StoredIsCurrent(store, in) ==
  \A k \in Keys :
    store[k] # None /\ ~store[k].late /\ ~ClearedAfter(in, 0) =>
      caching /\ store[k].value = rules[k]
CacheSound(h) ==
  h.link = "up" /\ "foreign" \notin h.facts =>
    ComingIsCurrent(h.in) /\ StoredIsCurrent(h.cache, h.in)

Sound(h) == h \in Handles /\ RequestsSound(h) /\ SyncSound(h) /\ CacheSound(h)

(* The server, and what it keeps of a connection that is over: nothing.        *)
ServerSound ==
  /\ toServer \in Seq(Question) /\ asked \subseteq Question /\ IsFiniteSet(asked)
  /\ caching \in BOOLEAN /\ rules \in [Keys -> Values \cup {Agent}]
  /\ sync \in Call \cup {NoCall}
  /\ link # "up" => toServer = <<>> /\ asked = {} /\ ~caching

CInv == ServerSound /\ Sound(Now)

--------------------------------------------------------------------------------
(* What is on its way is counted.                                              *)
LEMMA WayFacts ==
  ASSUME ServerSound, NEW in \in Seq(Message), NEW id
  PROVE  /\ Count(toServer, QuestionsOf(id)) \in Nat /\ Count(in, AnswersOf(id)) \in Nat
         /\ Cardinality(AskedOf(id)) \in Nat /\ IsFiniteSet(AskedOf(id)) /\ InWay(in, id) \in Nat
<1>1. Count(toServer, QuestionsOf(id)) \in Nat /\ Count(in, AnswersOf(id)) \in Nat
  BY CountFacts DEF ServerSound
<1>2. IsFiniteSet(AskedOf(id))
  <2>1. AskedOf(id) \in SUBSET asked
    BY DEF AskedOf
  <2> QED BY <2>1, FS_Subset DEF ServerSound
<1>3. Cardinality(AskedOf(id)) \in Nat
  BY <1>2, FS_CardinalityType
<1> QED BY <1>1, <1>2, <1>3 DEF InWay

(* Nothing bears an identifier that is nowhere, and conversely.                *)
LEMMA WayIsEmpty ==
  ASSUME ServerSound, NEW in \in Seq(Message), NEW id
  PROVE  InWay(in, id) = 0 <=>
           /\ \A q \in Elements(toServer) : q.id # id
           /\ \A a \in Elements(in) : a # Clear => a.id # id
           /\ \A q \in asked : q.id # id
<1>1. Count(toServer, QuestionsOf(id)) = 0 <=> \A q \in Elements(toServer) : q.id # id
  <2>1. Elements(toServer) \subseteq Question
    BY DEF ServerSound, Elements
  <2>2. Count(toServer, QuestionsOf(id)) = 0 <=> Elements(toServer) \cap QuestionsOf(id) = {}
    BY CountFacts DEF ServerSound
  <2> QED BY <2>1, <2>2 DEF QuestionsOf
<1>2. Count(in, AnswersOf(id)) = 0 <=> \A a \in Elements(in) : a # Clear => a.id # id
  <2>1. Elements(in) \subseteq Message
    BY DEF Elements
  <2>2. Count(in, AnswersOf(id)) = 0 <=> Elements(in) \cap AnswersOf(id) = {}
    BY CountFacts
  <2> QED BY <2>1, <2>2, NullsAssumption DEF AnswersOf, Message
<1>3. Cardinality(AskedOf(id)) = 0 <=> \A q \in asked : q.id # id
  <2>1. Cardinality(AskedOf(id)) = 0 <=> AskedOf(id) = {}
    BY WayFacts, FS_EmptySet
  <2> QED BY <2>1 DEF AskedOf
<1> QED BY <1>1, <1>2, <1>3, WayFacts DEF InWay

(* Messages that are dropped unread.                                           *)
LEMMA DropWay ==
  ASSUME ServerSound, NEW in \in Seq(Message), NEW id
  PROVE  /\ <<>> \in Seq(Message)
         /\ InWay(<<>>, id) <= InWay(in, id)
         /\ \A k : Bears(in, id, k) => Bears(<<>>, id, k)
<1>1. <<>> \in Seq(Message) /\ Elements(<<>>) = {}
  BY DEF Elements
<1>2. Count(<<>>, AnswersOf(id)) = 0
  BY <1>1, CountFacts
<1> QED BY <1>1, <1>2, WayFacts DEF InWay, Bears

(* A message that is read.                                                     *)
LEMMA TailWay ==
  ASSUME ServerSound, NEW in \in Seq(Message), in # <<>>, NEW id
  PROVE  /\ Tail(in) \in Seq(Message) /\ Head(in) \in Message
         /\ Elements(Tail(in)) \subseteq Elements(in)
         /\ Head(in) = Clear \/ Head(in).id # id => InWay(Tail(in), id) = InWay(in, id)
         /\ Head(in) # Clear /\ Head(in).id = id => InWay(in, id) = InWay(Tail(in), id) + 1
         /\ \A k : Bears(in, id, k) => Bears(Tail(in), id, k)
         /\ \A k : Bears(in, id, k) /\ Head(in) # Clear /\ Head(in).id = id => Head(in).key = k
<1>1. /\ Tail(in) \in Seq(Message) /\ Head(in) \in Elements(in) /\ Elements(in) \subseteq Message
      /\ Elements(Tail(in)) \subseteq Elements(in)
  BY TailFacts
<1>2. Count(in, AnswersOf(id)) = Count(Tail(in), AnswersOf(id))
                                   + IF Head(in) \in AnswersOf(id) THEN 1 ELSE 0
  BY CountTail
<1>3. Head(in) \in AnswersOf(id) <=> Head(in) # Clear /\ Head(in).id = id
  BY <1>1, NullsAssumption DEF AnswersOf, Message
<1>4. \A k : Bears(in, id, k) => Bears(Tail(in), id, k)
  BY <1>1 DEF Bears
<1>5. \A k : Bears(in, id, k) /\ Head(in) # Clear /\ Head(in).id = id => Head(in).key = k
  BY <1>1 DEF Bears
<1>6. InWay(Tail(in), id) \in Nat /\ InWay(in, id) \in Nat
  BY <1>1, WayFacts
<1>7. /\ Head(in) = Clear \/ Head(in).id # id => InWay(Tail(in), id) = InWay(in, id)
      /\ Head(in) # Clear /\ Head(in).id = id => InWay(in, id) = InWay(Tail(in), id) + 1
  <2>1. /\ Count(toServer, QuestionsOf(id)) \in Nat /\ Cardinality(AskedOf(id)) \in Nat
        /\ Count(in, AnswersOf(id)) \in Nat /\ Count(Tail(in), AnswersOf(id)) \in Nat
    BY <1>1, WayFacts
  <2> QED BY <1>2, <1>3, <2>1 DEF InWay
<1> QED BY <1>1, <1>4, <1>5, <1>7

--------------------------------------------------------------------------------
(* A clear is as far as before when a message before it is read.               *)
LEMMA TailClear ==
  ASSUME NEW in \in Seq(Message), in # <<>>
  PROVE  /\ \A i \in DOMAIN Tail(in) : /\ i + 1 \in DOMAIN in /\ Tail(in)[i] = in[i + 1]
                                       /\ ClearedAfter(in, i + 1) => ClearedAfter(Tail(in), i)
         /\ ClearedAfter(in, 0) <=> Head(in) = Clear \/ ClearedAfter(Tail(in), 0)
         /\ ClearedAfter(in, 1) => ClearedAfter(Tail(in), 0)
         /\ 1 \in DOMAIN in /\ in[1] = Head(in)
<1>1. /\ Len(in) \in Nat \ {0} /\ DOMAIN in = 1 .. Len(in) /\ DOMAIN Tail(in) = 1 .. Len(in) - 1
      /\ \A i \in 1 .. Len(in) - 1 : Tail(in)[i] = in[i + 1]
      /\ in[1] = Head(in)
  OBVIOUS
<1>2. ASSUME NEW i \in Nat, ClearedAfter(in, i + 1)
      PROVE  ClearedAfter(Tail(in), i)
  <2>1. PICK j \in 1 .. Len(in) : j > i + 1 /\ in[j] = Clear
    BY <1>1, <1>2 DEF ClearedAfter
  <2>2. j - 1 \in 1 .. Len(in) - 1 /\ j - 1 > i /\ (j - 1) + 1 = j
    BY <1>1, <2>1
  <2> QED BY <1>1, <2>1, <2>2 DEF ClearedAfter
<1>3. ClearedAfter(in, 0) => Head(in) = Clear \/ ClearedAfter(in, 0 + 1)
  <2> SUFFICES ASSUME NEW j \in 1 .. Len(in), in[j] = Clear, Head(in) # Clear
               PROVE  j > 0 + 1
    BY <1>1 DEF ClearedAfter
  <2> QED BY <1>1
<1>4. Head(in) = Clear \/ ClearedAfter(Tail(in), 0) => ClearedAfter(in, 0)
  <2>1. Head(in) = Clear => ClearedAfter(in, 0)
    BY <1>1 DEF ClearedAfter
  <2>2. ASSUME NEW j \in 1 .. Len(in) - 1, Tail(in)[j] = Clear
        PROVE  ClearedAfter(in, 0)
    <3>1. j + 1 \in 1 .. Len(in) /\ j + 1 > 0 /\ in[j + 1] = Clear
      BY <1>1, <2>2
    <3> QED BY <1>1, <3>1 DEF ClearedAfter
  <2> QED BY <1>1, <2>1, <2>2 DEF ClearedAfter
<1>5. \A i \in DOMAIN Tail(in) : i \in Nat /\ i + 1 \in DOMAIN in
  BY <1>1
<1>6. ClearedAfter(in, 1) => ClearedAfter(Tail(in), 0)
  BY <1>2
<1> QED BY <1>1, <1>2, <1>3, <1>4, <1>5, <1>6

(* What comes after a message that is read is current as before, and so is     *)
(* the message.                                                                *)
LEMMA TailIsCurrent ==
  ASSUME NEW in \in Seq(Message), in # <<>>, ComingIsCurrent(in)
  PROVE  /\ ComingIsCurrent(Tail(in))
         /\ IsDirect(Head(in)) /\ ~ClearedAfter(Tail(in), 0) =>
              caching /\ Head(in).value = rules[Head(in).key]
         /\ \A c : StoredIsCurrent(c, in) /\ Head(in) # Clear => StoredIsCurrent(c, Tail(in))
<1>1. ComingIsCurrent(Tail(in))
  BY TailClear DEF ComingIsCurrent
<1>2. IsDirect(Head(in)) /\ ~ClearedAfter(Tail(in), 0) =>
        caching /\ Head(in).value = rules[Head(in).key]
  BY TailClear DEF ComingIsCurrent
<1>3. \A c : StoredIsCurrent(c, in) /\ Head(in) # Clear => StoredIsCurrent(c, Tail(in))
  BY TailClear DEF StoredIsCurrent
<1> QED BY <1>1, <1>2, <1>3

--------------------------------------------------------------------------------
(* A message that is read and kept aside.                                      *)
LEMMA ReadFacts ==
  ASSUME NEW h \in Handles, h.in # <<>>
  PROVE  /\ Read(h) \in Handles /\ Read(h).in = Tail(h.in)
         /\ Read(h).link = h.link /\ Read(h).requests = h.requests
         /\ Read(h).cache = h.cache /\ Read(h).facts = h.facts
         /\ Head(h.in) \in Message
<1>1. h.in \in Seq(Message)
  BY DEF Handles
<1>2. Tail(h.in) \in Seq(Message) /\ Head(h.in) \in Message
  BY <1>1, TailFacts
<1> QED BY <1>2 DEF Read, Handles

(* An answer that is put in the cache.                                         *)
LEMMA PutFacts ==
  ASSUME NEW h \in Handles, NEW k \in Keys, NEW a \in Answer
  PROVE  /\ Put(h, k, a) \in Handles /\ Put(h, k, a).in = h.in
         /\ Put(h, k, a).link = h.link /\ Put(h, k, a).requests = h.requests
         /\ Put(h, k, a).facts = h.facts
         /\ Put(h, k, a).cache = IF a.value = "ack" THEN h.cache
                                 ELSE [h.cache EXCEPT ![k] = [value |-> a.value, late |-> a.late]]
<1>1. CASE a.value = "ack"
  BY <1>1 DEF Put
<1>2. CASE a.value # "ack"
  <2> DEFINE c == [h.cache EXCEPT ![k] = [value |-> a.value, late |-> a.late]]
  <2>1. c \in [Keys -> Cached]
    BY <1>2 DEF Handles, Cached, Answer
  <2>2. Put(h, k, a) = [h EXCEPT !.cache = c]
    BY <1>2 DEF Put, Handles
  <2> HIDE DEF c
  <2>3. [h EXCEPT !.cache = c] \in Handles
    BY <2>1 DEF Handles
  <2> QED BY <1>2, <2>2, <2>3 DEF Handles, c
<1> QED BY <1>1, <1>2

(* The same of a message that was just read.                                   *)
LEMMA ReadPutFacts ==
  ASSUME NEW h \in Handles, h.in # <<>>, NEW k \in Keys, NEW a \in Answer
  PROVE  /\ Put(Read(h), k, a) \in Handles /\ Put(Read(h), k, a).in = Tail(h.in)
         /\ Put(Read(h), k, a).link = h.link /\ Put(Read(h), k, a).requests = h.requests
         /\ Put(Read(h), k, a).facts = h.facts
<1> DEFINE g == Read(h)
<1>1. /\ g \in Handles /\ g.in = Tail(h.in)
      /\ g.link = h.link /\ g.requests = h.requests /\ g.facts = h.facts
  BY ReadFacts
<1> HIDE DEF g
<1>2. /\ Put(g, k, a) \in Handles /\ Put(g, k, a).in = g.in
      /\ Put(g, k, a).link = g.link /\ Put(g, k, a).requests = g.requests
      /\ Put(g, k, a).facts = g.facts
  BY <1>1, PutFacts
<1> QED BY <1>1, <1>2 DEF g

(* The cache is current after it, when the key is that of the answer.          *)
LEMMA PutIsCurrent ==
  ASSUME NEW h \in Handles, h.in # <<>>, Head(h.in) # Clear,
         ComingIsCurrent(h.in), StoredIsCurrent(h.cache, h.in)
  PROVE  StoredIsCurrent(Put(Read(h), Head(h.in).key, Head(h.in)).cache, Tail(h.in))
<1> DEFINE m == Head(h.in)
           g == Put(Read(h), m.key, m)
           rest == Tail(h.in)
<1>1. h.in \in Seq(Message) /\ m \in Answer /\ m.key \in Keys
  BY ReadFacts DEF Message, Answer, Handles
<1>2. g.cache = IF m.value = "ack" THEN h.cache
                ELSE [h.cache EXCEPT ![m.key] = [value |-> m.value, late |-> m.late]]
  BY <1>1, ReadFacts, PutFacts
<1>3. /\ IsDirect(m) /\ ~ClearedAfter(rest, 0) => caching /\ m.value = rules[m.key]
      /\ StoredIsCurrent(h.cache, rest)
  BY <1>1, TailIsCurrent
<1>4. h.cache \in [Keys -> Cached]
  BY DEF Handles
<1> HIDE DEF m, rest, g
<1>5. ASSUME NEW k \in Keys, g.cache[k] # None, ~g.cache[k].late, ~ClearedAfter(rest, 0)
      PROVE  caching /\ g.cache[k].value = rules[k]
  <2>1. CASE m.value # "ack" /\ k = m.key
    <3>1. g.cache[k] = [value |-> m.value, late |-> m.late]
      BY <1>2, <1>4, <2>1
    <3>2. IsDirect(m)
      BY <1>5, <2>1, <3>1 DEF IsDirect, m
    <3> QED BY <1>3, <1>5, <2>1, <3>1, <3>2
  <2>2. CASE ~(m.value # "ack" /\ k = m.key)
    <3>1. g.cache[k] = h.cache[k]
      BY <1>2, <1>4, <2>2
    <3> QED BY <1>3, <1>5, <3>1 DEF StoredIsCurrent
  <2> QED BY <2>1, <2>2
<1> QED BY <1>5 DEF StoredIsCurrent, g, m, rest

(* Nothing is current of a cache where there is nothing.                       *)
LEMMA NothingIsCurrent == \A in : StoredIsCurrent(NothingCached, in)
BY DEF StoredIsCurrent, NothingCached

(* What get_reply does of a message that is for no pending request.            *)
LEMMA SkipSound ==
  ASSUME ServerSound, NEW h, Sound(h), h.in # <<>>,
         Head(h.in) = Clear \/ Expected(h, Head(h.in)) = {},
         Head(h.in) = Clear \/ sync = NoCall \/ "nested" \in h.facts
  PROVE  Sound(Treated(h)) /\ Treated(h).link = h.link /\ Treated(h).facts = h.facts
         /\ Treated(h).in = Tail(h.in)
<1> DEFINE m == Head(h.in)
           rest == Tail(h.in)
           t == Treated(h)
<1>1. h \in Handles /\ h.in \in Seq(Message) /\ h.cache \in [Keys -> Cached]
  BY DEF Sound, Handles
<1>2. /\ t \in Handles /\ t.in = rest /\ t.link = h.link /\ t.requests = h.requests
      /\ t.facts = h.facts /\ t.cache = IF m = Clear THEN NothingCached ELSE h.cache
  <2>1. Expected(Read(h), m) = Expected(h, m)
    BY <1>1, ReadFacts DEF Expected
  <2>2. t = IF m = Clear THEN [Read(h) EXCEPT !.cache = NothingCached] ELSE Read(h)
    BY <2>1 DEF Treated, Treat
  <2>3. NothingCached \in [Keys -> Cached]
    BY DEF NothingCached, Cached
  <2>4. /\ Read(h) \in Handles /\ Read(h).in = rest /\ Read(h).link = h.link
        /\ Read(h).requests = h.requests /\ Read(h).facts = h.facts /\ Read(h).cache = h.cache
    BY <1>1, ReadFacts
  <2>5. CASE m = Clear
    BY <2>2, <2>3, <2>4, <2>5 DEF Handles
  <2>6. CASE m # Clear
    BY <2>2, <2>4, <2>6
  <2> QED BY <2>5, <2>6
<1>3. m \in Message
  BY <1>1, ReadFacts
<1>4. \A r \in h.requests : r \in Request /\ r.id \in Ids
  BY <1>1 DEF Handles, Request
<1>5. \A id : /\ InWay(rest, id) \in Nat /\ InWay(h.in, id) \in Nat
              /\ InWay(rest, id) <= InWay(h.in, id)
              /\ m = Clear \/ m.id # id => InWay(rest, id) = InWay(h.in, id)
              /\ m # Clear /\ m.id = id => InWay(h.in, id) = InWay(rest, id) + 1
              /\ \A k : Bears(h.in, id, k) => Bears(rest, id, k)
  <2> SUFFICES ASSUME NEW id
               PROVE  /\ InWay(rest, id) \in Nat /\ InWay(h.in, id) \in Nat
                      /\ InWay(rest, id) <= InWay(h.in, id)
                      /\ m = Clear \/ m.id # id => InWay(rest, id) = InWay(h.in, id)
                      /\ m # Clear /\ m.id = id => InWay(h.in, id) = InWay(rest, id) + 1
                      /\ \A k : Bears(h.in, id, k) => Bears(rest, id, k)
    OBVIOUS
  <2>1. /\ rest \in Seq(Message)
        /\ m = Clear \/ m.id # id => InWay(rest, id) = InWay(h.in, id)
        /\ m # Clear /\ m.id = id => InWay(h.in, id) = InWay(rest, id) + 1
        /\ \A k : Bears(h.in, id, k) => Bears(rest, id, k)
    BY <1>1, TailWay
  <2>2. InWay(rest, id) \in Nat /\ InWay(h.in, id) \in Nat
    BY <1>1, <2>1, WayFacts
  <2> HIDE DEF m, rest
  <2> QED BY <2>1, <2>2
<1> HIDE DEF t, m, rest
<1>6. RequestsSound(t)
  <2>1. OneOfEach(h.requests) /\ Own(h.requests, rest)
    BY <1>5 DEF Sound, RequestsSound, Own
  <2>2. AtMostOnce(rest)
    BY <1>5 DEF Sound, RequestsSound, AtMostOnce
  <2>3. h.link = "up" => Alive(h.requests, rest)
    <3> SUFFICES ASSUME h.link = "up", NEW r \in h.requests, ~r.lost
                 PROVE  InWay(rest, r.id) = 1
      BY DEF Alive
    <3>1. m = Clear \/ m.id # r.id
      BY DEF Expected, m
    <3>2. InWay(h.in, r.id) = 1
      BY DEF Sound, RequestsSound, Alive
    <3> QED BY <1>5, <3>1, <3>2
  <2> QED BY <1>2, <2>1, <2>2, <2>3 DEF Sound, RequestsSound
<1>7. SyncSound(t)
  <2> SUFFICES ASSUME "cancelled" \notin h.facts
               PROVE  /\ Awaited(h.requests, rest) /\ OwnOfCall(sync, rest)
                      /\ h.link = "up" /\ sync # NoCall /\ "nested" \notin h.facts =>
                           InWay(rest, SyncId) = 1
                      /\ "foreign" \notin h.facts
    BY <1>2 DEF SyncSound
  <2>1. /\ Awaited(h.requests, h.in) /\ OwnOfCall(sync, h.in) /\ "foreign" \notin h.facts
        /\ h.link = "up" /\ sync # NoCall /\ "nested" \notin h.facts => InWay(h.in, SyncId) = 1
    BY DEF Sound, SyncSound
  <2>2. Awaited(h.requests, rest)
    BY <1>5, <2>1 DEF Awaited
  <2>3. OwnOfCall(sync, rest)
    BY <1>5, <2>1 DEF OwnOfCall
  <2>4. ASSUME h.link = "up", sync # NoCall, "nested" \notin h.facts
        PROVE  InWay(rest, SyncId) = 1
    <3>1. m = Clear
      BY <2>4 DEF m
    <3> QED BY <1>5, <2>1, <2>4, <3>1
  <2> QED BY <2>1, <2>2, <2>3, <2>4
<1>8. CacheSound(t)
  <2> SUFFICES ASSUME h.link = "up", "foreign" \notin h.facts
               PROVE  ComingIsCurrent(rest) /\ StoredIsCurrent(t.cache, rest)
    BY <1>2 DEF CacheSound
  <2>1. ComingIsCurrent(h.in) /\ StoredIsCurrent(h.cache, h.in)
    BY DEF Sound, CacheSound
  <2>2. ComingIsCurrent(rest) /\ (m # Clear => StoredIsCurrent(h.cache, rest))
    BY <1>1, <2>1, TailIsCurrent DEF m, rest
  <2> QED BY <1>2, <2>2, NothingIsCurrent
<1> QED BY <1>2, <1>6, <1>7, <1>8 DEF Sound, t, rest

(* What it does of the answer to a pending request.                            *)
LEMMA AnswerSound ==
  ASSUME ServerSound, NEW h, Sound(h), h.in # <<>>,
         Head(h.in) # Clear, Expected(h, Head(h.in)) # {}
  PROVE  Sound(Treated(h)) /\ Treated(h).link = h.link /\ Treated(h).facts = h.facts
         /\ Treated(h).in = Tail(h.in)
<1> DEFINE m == Head(h.in)
           rest == Tail(h.in)
           t == Treated(h)
           r == CHOOSE x \in Expected(h, m) : TRUE
           left == h.requests \ {r}
<1>1. h \in Handles /\ h.in \in Seq(Message) /\ h.cache \in [Keys -> Cached]
  BY DEF Sound, Handles
<1>2. r \in h.requests /\ r.id = m.id /\ h.requests \subseteq Request
  BY <1>1 DEF Expected, Handles
<1>3. m \in Answer
  BY <1>1, ReadFacts DEF Message
<1>4. /\ \A id : Bears(h.in, id, r.key) /\ m.id = id => m.key = r.key
      /\ Bears(h.in, r.id, r.key)
  BY <1>1, <1>2, TailWay DEF Sound, RequestsSound, Own
<1>5. m.key = r.key /\ m.key \in Keys /\ r.id \in Ids /\ r.id # SyncId
  BY <1>2, <1>4, DistinctValues DEF Request
<1>6. t = [Put(Read(h), m.key, m) EXCEPT !.requests = left]
  <2>1. Expected(Read(h), m) = Expected(h, m)
    BY <1>1, ReadFacts DEF Expected
  <2>2. t = [Put(Read(h), r.key, m) EXCEPT !.requests = @ \ {r}, !.facts = @ \cup {}]
    BY <1>5, <2>1 DEF Treated, Treat
  <2>3. /\ Put(Read(h), r.key, m) \in Handles /\ Put(Read(h), r.key, m).requests = h.requests
    BY <1>1, <1>3, <1>5, ReadPutFacts
  <2> DEFINE p == Put(Read(h), r.key, m)
  <2> HIDE DEF p
  <2>4. [p EXCEPT !.requests = @ \ {r}, !.facts = @ \cup {}] = [p EXCEPT !.requests = left]
    BY <2>3 DEF Handles, p
  <2> QED BY <1>5, <2>2, <2>4 DEF p
<1>7. /\ t \in Handles /\ t.in = rest /\ t.link = h.link /\ t.requests = left
      /\ t.facts = h.facts /\ t.cache = Put(Read(h), m.key, m).cache
  <2> DEFINE p == Put(Read(h), m.key, m)
  <2>1. /\ p \in Handles /\ p.in = rest /\ p.link = h.link /\ p.requests = h.requests
        /\ p.facts = h.facts
    BY <1>1, <1>3, <1>5, ReadPutFacts
  <2> HIDE DEF p
  <2>2. t = [p EXCEPT !.requests = left]
    BY <1>6 DEF p
  <2>3. left \subseteq Request
    BY <1>2
  <2> HIDE DEF left, t, rest
  <2>4. t \in Handles /\ t.in = rest /\ t.link = h.link /\ t.requests = left
        /\ t.facts = h.facts /\ t.cache = p.cache
    BY <2>1, <2>2, <2>3 DEF Handles
  <2> QED BY <2>4 DEF p
<1>8. \A id : /\ InWay(rest, id) \in Nat /\ InWay(h.in, id) \in Nat
              /\ m.id # id => InWay(rest, id) = InWay(h.in, id)
              /\ m.id = id => InWay(h.in, id) = InWay(rest, id) + 1
              /\ \A k : Bears(h.in, id, k) => Bears(rest, id, k)
  <2> SUFFICES ASSUME NEW id
               PROVE  /\ InWay(rest, id) \in Nat /\ InWay(h.in, id) \in Nat
                      /\ m.id # id => InWay(rest, id) = InWay(h.in, id)
                      /\ m.id = id => InWay(h.in, id) = InWay(rest, id) + 1
                      /\ \A k : Bears(h.in, id, k) => Bears(rest, id, k)
    OBVIOUS
  <2>1. /\ rest \in Seq(Message)
        /\ m.id # id => InWay(rest, id) = InWay(h.in, id)
        /\ m.id = id => InWay(h.in, id) = InWay(rest, id) + 1
        /\ \A k : Bears(h.in, id, k) => Bears(rest, id, k)
    BY <1>1, TailWay
  <2>2. InWay(rest, id) \in Nat /\ InWay(h.in, id) \in Nat
    BY <1>1, <2>1, WayFacts
  <2> QED BY <2>1, <2>2
<1>9. /\ OneOfEach(h.requests) /\ Own(h.requests, h.in) /\ AtMostOnce(h.in)
      /\ h.link = "up" => Alive(h.requests, h.in)
      /\ "crossed" \notin h.facts
  BY DEF Sound, RequestsSound
<1>10. \A s \in left : s \in h.requests /\ s.id # m.id
  BY <1>2, <1>9 DEF OneOfEach
<1> HIDE DEF t, m, rest, r
<1>11. RequestsSound(t)
  <2>1. OneOfEach(left) /\ Own(left, rest)
    BY <1>8, <1>9 DEF OneOfEach, Own
  <2>2. AtMostOnce(rest)
    <3> SUFFICES ASSUME NEW id \in Ids PROVE InWay(rest, id) <= 1
      BY DEF AtMostOnce
    <3>1. InWay(h.in, id) <= 1
      BY <1>9 DEF AtMostOnce
    <3> QED BY <1>8, <3>1
  <2>3. h.link = "up" => Alive(left, rest)
    BY <1>8, <1>9, <1>10 DEF Alive
  <2> QED BY <1>7, <1>9, <2>1, <2>2, <2>3 DEF RequestsSound
<1>12. SyncSound(t)
  <2> SUFFICES ASSUME "cancelled" \notin h.facts
               PROVE  /\ Awaited(left, rest) /\ OwnOfCall(sync, rest)
                      /\ h.link = "up" /\ sync # NoCall /\ "nested" \notin h.facts =>
                           InWay(rest, SyncId) = 1
                      /\ "foreign" \notin h.facts
    BY <1>7 DEF SyncSound
  <2>1. /\ Awaited(h.requests, h.in) /\ OwnOfCall(sync, h.in) /\ "foreign" \notin h.facts
        /\ h.link = "up" /\ sync # NoCall /\ "nested" \notin h.facts => InWay(h.in, SyncId) = 1
    BY DEF Sound, SyncSound
  <2>2. Awaited(left, rest)
    <3> SUFFICES ASSUME NEW id \in Ids, InWay(rest, id) > 0
                 PROVE  \E s \in left : s.id = id
      BY DEF Awaited
    <3>1. id # m.id
      <4>1. InWay(h.in, id) <= 1
        BY <1>9 DEF AtMostOnce
      <4> QED BY <1>8, <4>1
    <3>2. InWay(h.in, id) > 0
      BY <1>8, <3>1
    <3>3. PICK s \in h.requests : s.id = id
      BY <2>1, <3>2 DEF Awaited
    <3> QED BY <1>2, <3>1, <3>3
  <2>3. SyncId # m.id
    BY <1>2, <1>5
  <2> QED BY <1>8, <2>1, <2>2, <2>3 DEF OwnOfCall
<1>13. CacheSound(t)
  <2> SUFFICES ASSUME h.link = "up", "foreign" \notin h.facts
               PROVE  ComingIsCurrent(rest) /\ StoredIsCurrent(t.cache, rest)
    BY <1>7 DEF CacheSound
  <2>1. ComingIsCurrent(h.in) /\ StoredIsCurrent(h.cache, h.in)
    BY DEF Sound, CacheSound
  <2>2. ComingIsCurrent(rest)
    BY <1>1, <2>1, TailIsCurrent DEF rest
  <2>3. StoredIsCurrent(t.cache, rest)
    BY <1>1, <1>7, <2>1, PutIsCurrent DEF rest, m
  <2> QED BY <2>2, <2>3
<1> QED BY <1>7, <1>11, <1>12, <1>13 DEF Sound, t, rest

(* Both, for a message that no synchronous call waits for.                     *)
LEMMA TreatedSound ==
  ASSUME ServerSound, NEW h, Sound(h), h.in # <<>>, sync = NoCall \/ "nested" \in h.facts
  PROVE  Sound(Treated(h)) /\ Treated(h).link = h.link /\ Treated(h).facts = h.facts
         /\ Treated(h).in = Tail(h.in)
<1>1. CASE Head(h.in) = Clear \/ Expected(h, Head(h.in)) = {}
  BY <1>1, SkipSound
<1>2. CASE Head(h.in) # Clear /\ Expected(h, Head(h.in)) # {}
  BY <1>2, AnswerSound
<1> QED BY <1>1, <1>2

--------------------------------------------------------------------------------
(* What the recursion of Flushed defines: the messages are treated one after   *)
(* the other, and each was the first of what was left.                         *)
LEMMA FlushedIs ==
  ASSUME ServerSound, NEW h, Sound(h), sync = NoCall \/ "nested" \in h.facts
  PROVE  Sound(Flushed(h)) /\ Flushed(h).link = h.link /\ Flushed(h).facts = h.facts
         /\ Flushed(h).in = <<>>
<1> DEFINE N == Len(h.in)
           D == {g \in Handles : /\ Sound(g) /\ g.link = h.link /\ g.facts = h.facts}
           step == [n \in 1 .. N |-> [g \in D |-> IF g.in = <<>> THEN g ELSE Treated(g)]]
           Body(f) == [n \in 0 .. N |-> IF n = 0 THEN h ELSE Treated(f[n - 1])]
<1>1. N \in Nat /\ h \in D
  BY DEF Sound, Handles
<1>2. \A g \in D : g.in # <<>> => Treated(g) \in D /\ Treated(g).in = Tail(g.in)
  <2> SUFFICES ASSUME NEW g \in D, g.in # <<>>
               PROVE  Treated(g) \in D /\ Treated(g).in = Tail(g.in)
    OBVIOUS
  <2>1. Sound(Treated(g)) /\ Treated(g).link = g.link /\ Treated(g).facts = g.facts
        /\ Treated(g).in = Tail(g.in)
    BY TreatedSound
  <2> QED BY <2>1 DEF Sound
<1>3. \A g \in D : g.in \in Seq(Message)
  BY DEF Handles
<1> HIDE DEF D
<1>4. step \in [1 .. N -> [D -> D]]
  BY <1>2
<1>5. PICK f : Recursive(f, N, D, h, step)
  <2> HIDE DEF step, N
  <2> QED BY <1>1, <1>4, Recursion
<1>6. /\ f \in [0 .. N -> D] /\ f[0] = h
      /\ \A n \in 1 .. N : f[n] = IF f[n - 1].in = <<>> THEN f[n - 1] ELSE Treated(f[n - 1])
  <2>1. f \in [0 .. N -> D] /\ f[0] = h /\ \A n \in 1 .. N : f[n] = step[n][f[n - 1]]
    BY <1>5 DEF Recursive
  <2>2. \A n \in 1 .. N : n - 1 \in 0 .. N
    BY <1>1
  <2>3. \A n \in 1 .. N : f[n - 1] \in D
    BY <2>1, <2>2
  <2> QED BY <2>1, <2>3
<1> HIDE DEF step
<1>7. \A n \in 0 .. N : Len(f[n].in) = N - n
  <2> DEFINE S == {n \in Nat : n <= N => Len(f[n].in) = N - n}
  <2>1. 0 \in S
    BY <1>1, <1>6
  <2>2. ASSUME NEW n \in Nat, n \in S
        PROVE  n + 1 \in S
    <3> SUFFICES ASSUME n + 1 <= N
                 PROVE  Len(f[n + 1].in) = N - (n + 1)
      OBVIOUS
    <3>1. n + 1 \in 1 .. N /\ (n + 1) - 1 = n /\ n \in 0 .. N
      BY <1>1
    <3>2. f[n] \in D /\ f[n].in \in Seq(Message) /\ Len(f[n].in) = N - n /\ N - n > 0
      BY <1>1, <1>3, <1>6, <2>2, <3>1
    <3>3. f[n].in # <<>>
      BY <1>1, <3>2
    <3>4. f[n + 1] = Treated(f[n])
      BY <1>6, <3>1, <3>3
    <3>5. f[n + 1].in = Tail(f[n].in)
      BY <1>2, <3>2, <3>3, <3>4
    <3>6. Len(Tail(f[n].in)) = Len(f[n].in) - 1
      BY <3>2, <3>3
    <3> QED BY <1>1, <3>2, <3>5, <3>6
  <2>3. \A n \in Nat : n \in S
    <3> HIDE DEF S, N
    <3> QED BY <2>1, <2>2, SetInduction
  <2> QED BY <1>1, <2>3
<1>8. f = Body(f)
  <2> SUFFICES ASSUME NEW n \in 0 .. N, n # 0
               PROVE  f[n] = Treated(f[n - 1])
    BY <1>6
  <2> HIDE DEF N
  <2>1. n \in 1 .. N /\ n - 1 \in 0 .. N /\ N - (n - 1) > 0
    BY <1>1
  <2>2. Len(f[n - 1].in) > 0
    BY <1>1, <1>7, <2>1
  <2>3. f[n - 1].in # <<>>
    BY <2>2
  <2> QED BY <1>6, <2>1, <2>3
<1> DEFINE after == CHOOSE g : g = Body(g)
<1>9. after = Body(after)
  <2> HIDE DEF Body
  <2> QED BY <1>8
<1>10. Flushed(h) = after[N]
  BY DEF Flushed
<1>11. \A n \in 0 .. N : after[n] = f[n]
  <2> DEFINE S == {n \in Nat : n <= N => after[n] = f[n]}
  <2>1. \A n \in 0 .. N : after[n] = IF n = 0 THEN h ELSE Treated(after[n - 1])
    <3> HIDE DEF after
    <3> QED BY <1>9
  <2>2. \A n \in 0 .. N : f[n] = IF n = 0 THEN h ELSE Treated(f[n - 1])
    BY <1>8
  <2> HIDE DEF after, N
  <2>3. 0 \in S
    BY <1>1, <2>1, <2>2
  <2>4. ASSUME NEW n \in Nat, n \in S
        PROVE  n + 1 \in S
    <3> SUFFICES ASSUME n + 1 <= N
                 PROVE  after[n + 1] = f[n + 1]
      OBVIOUS
    <3>1. n + 1 \in 0 .. N /\ n + 1 # 0 /\ (n + 1) - 1 = n /\ after[n] = f[n]
      BY <1>1, <2>4
    <3> QED BY <2>1, <2>2, <3>1
  <2>5. \A n \in Nat : n \in S
    <3> HIDE DEF S
    <3> QED BY <2>3, <2>4, SetInduction
  <2> QED BY <1>1, <2>5
<1>12. Flushed(h) = f[N] /\ f[N] \in D /\ Len(f[N].in) = 0
  <2> HIDE DEF after
  <2> QED BY <1>1, <1>6, <1>7, <1>10, <1>11
<1>13. Flushed(h).in = <<>>
  BY <1>3, <1>12
<1> QED BY <1>12, <1>13 DEF D

(* The connection that is left, if one was closed, and the one that is used.   *)
LEMMA OpenedSound ==
  ASSUME ServerSound, NEW h, Sound(h), h.link = link,
         sync = NoCall \/ "nested" \in h.facts, NEW o \in Opened(h)
  PROVE  Sound(o) /\ o.facts = h.facts /\ (o = h \/ (link # "up" /\ o.in = <<>>))
<1>1. CASE h.link = "up"
  BY <1>1 DEF Opened
<1>2. CASE h.link # "up"
  <2> DEFINE lost == Lost(h)
  <2>0. h \in Handles /\ h.requests \subseteq Request /\ h.in \in Seq(Message)
    BY DEF Sound, Handles
  <2>1. \A r \in lost : \E s \in h.requests : r = [s EXCEPT !.lost = TRUE] /\ s \in Request
    BY <2>0 DEF Lost
  <2>1a. \A s \in Request : /\ [s EXCEPT !.lost = TRUE] \in Request
                             /\ [s EXCEPT !.lost = TRUE].lost
                             /\ [s EXCEPT !.lost = TRUE].id = s.id
    BY DEF Request
  <2>2. lost \subseteq Request /\ \A r \in lost : r.lost
    <3> HIDE DEF lost
    <3> QED BY <2>1, <2>1a
  <2>3. OneOfEach(lost)
    <3> SUFFICES ASSUME NEW a \in lost, NEW b \in lost, a.id = b.id PROVE a = b
      BY DEF OneOfEach
    <3> HIDE DEF lost
    <3>1. PICK r \in h.requests : a = [r EXCEPT !.lost = TRUE] /\ r \in Request
      BY <2>1
    <3>2. PICK s \in h.requests : b = [s EXCEPT !.lost = TRUE] /\ s \in Request
      BY <2>1
    <3>3. r.id = s.id
      BY <2>1a, <3>1, <3>2
    <3>4. r = s
      BY <3>3 DEF Sound, RequestsSound, OneOfEach
    <3> QED BY <3>1, <3>2, <3>4
  <2>4. <<>> \in Seq(Message)
    OBVIOUS
  <2>5. /\ o \in Handles /\ o.requests = lost /\ o.in = <<>> /\ o.facts = h.facts
        /\ o.link = "up" => o.cache = NothingCached
    <3>1. NothingCached \in [Keys -> Cached]
      BY DEF NothingCached, Cached
    <3>2. /\ Closed(h) \in Handles /\ Closed(h).requests = lost /\ Closed(h).in = <<>>
          /\ Closed(h).facts = h.facts /\ Closed(h).link = "none"
      <4> HIDE DEF lost
      <4>1. Closed(h) = [h EXCEPT !.link = "none", !.in = <<>>, !.requests = lost]
        BY DEF Closed, lost
      <4> QED BY <2>0, <2>2, <2>4, <4>1 DEF Handles
    <3> DEFINE c == Closed(h)
    <3>3. o \in {c, [c EXCEPT !.link = "up", !.cache = NothingCached]}
      BY <1>2 DEF Opened
    <3> HIDE DEF c, lost
    <3>4. /\ c \in Handles /\ c.requests = lost /\ c.in = <<>>
          /\ c.facts = h.facts /\ c.link = "none"
      BY <3>2 DEF c
    <3> QED BY <3>1, <3>3, <3>4 DEF Handles
  <2>6. \A id : InWay(<<>>, id) = 0 /\ \A k : Bears(<<>>, id, k)
    <3> SUFFICES ASSUME NEW id PROVE InWay(<<>>, id) = 0 /\ \A k : Bears(<<>>, id, k)
      OBVIOUS
    <3>1. Elements(<<>>) = {} /\ toServer = <<>> /\ asked = {}
      BY <1>2 DEF Elements, ServerSound
    <3> QED BY <2>4, <3>1, WayIsEmpty DEF Bears
  <2> HIDE DEF lost
  <2>7. RequestsSound(o)
    BY <2>2, <2>3, <2>5, <2>6 DEF Sound, RequestsSound, Own, AtMostOnce, Alive
  <2>8. SyncSound(o)
    BY <2>5, <2>6 DEF Sound, SyncSound, Awaited, OwnOfCall
  <2>9. CacheSound(o)
    <3>1. ComingIsCurrent(<<>>)
      BY DEF ComingIsCurrent
    <3> QED BY <2>5, <3>1, NothingIsCurrent DEF CacheSound
  <2> QED BY <1>2, <2>5, <2>7, <2>8, <2>9 DEF Sound
<1> QED BY <1>1, <1>2

--------------------------------------------------------------------------------
(* The state after a step where the handle becomes h.                          *)
LEMMA BecomesNow ==
  ASSUME NEW h \in Handles, Becomes(h)
  PROVE  Now' = h /\ link' = h.link /\ requests' = h.requests /\ cache' = h.cache
         /\ toClient' = h.in /\ facts' = h.facts
<1>1. Now' = [link |-> h.link, requests |-> h.requests, cache |-> h.cache,
              in |-> h.in, facts |-> h.facts]
  BY DEF Becomes, Now
<1>2. h = [link |-> h.link, requests |-> h.requests, cache |-> h.cache,
           in |-> h.in, facts |-> h.facts]
  BY DEF Handles
<1> QED BY <1>1, <1>2 DEF Becomes

(* A step of the client alone leads to what was sound already.                 *)
LEMMA ClientAlone ==
  ASSUME ServerSound, NEW h, Sound(h), Becomes(h), link = "up" => h.link = "up",
         UNCHANGED <<toServer, sync, server>>
  PROVE  CInv'
<1>1. h \in Handles
  BY DEF Sound
<1>2. Now' = h /\ link' = h.link
  BY <1>1, BecomesNow
<1>3. /\ toServer' = toServer /\ sync' = sync /\ asked' = asked /\ caching' = caching
      /\ rules' = rules
  BY DEF server
<1>4. ServerSound'
  BY <1>2, <1>3 DEF ServerSound
<1>5. \A in, id : InWay(in, id)' = InWay(in, id) /\ \A k : Bears(in, id, k)' <=> Bears(in, id, k)
  BY <1>3 DEF InWay, AskedOf, Bears
<1>6. RequestsSound(h)'
  BY <1>5 DEF Sound, RequestsSound, Own, AtMostOnce, Alive
<1>7. SyncSound(h)'
  BY <1>3, <1>5 DEF Sound, SyncSound, Awaited, OwnOfCall
<1>8. CacheSound(h)'
  BY <1>3 DEF Sound, CacheSound, ComingIsCurrent, StoredIsCurrent
<1>9. Sound(h)'
  BY <1>1, <1>6, <1>7, <1>8 DEF Sound
<1>10. Sound(Now)'
  <2>1. \A g : g = h => (Sound(g)' <=> Sound(h)')
    OBVIOUS
  <2> QED BY <1>2, <1>9
<1> QED BY <1>4, <1>10 DEF CInv

(* A question that is sent.                                                    *)
LEMMA AskWay ==
  ASSUME ServerSound, NEW in \in Seq(Message), NEW q \in Question,
         toServer' = Append(toServer, q), asked' = asked, NEW id
  PROVE  /\ InWay(in, id)' = InWay(in, id) + IF q.id = id THEN 1 ELSE 0
         /\ \A k : Bears(in, id, k) /\ (q.id = id => q.key = k) => Bears(in, id, k)'
<1>1. Elements(toServer)' = Elements(toServer) \cup {q}
  BY AppendFacts DEF ServerSound
<1>2. Count(toServer, QuestionsOf(id))' = Count(toServer, QuestionsOf(id))
                                            + IF q \in QuestionsOf(id) THEN 1 ELSE 0
  <2>1. Count(Append(toServer, q), QuestionsOf(id)) = Count(toServer, QuestionsOf(id))
                                            + IF q \in QuestionsOf(id) THEN 1 ELSE 0
    BY CountAppend DEF ServerSound
  <2> QED BY <2>1
<1>3. q \in QuestionsOf(id) <=> q.id = id
  BY DEF QuestionsOf
<1>4. AskedOf(id)' = AskedOf(id)
  BY DEF AskedOf
<1>5. InWay(in, id)' = InWay(in, id) + IF q.id = id THEN 1 ELSE 0
  BY <1>2, <1>3, <1>4, WayFacts DEF InWay
<1> QED BY <1>1, <1>5 DEF Bears

(* The state is sound when the server and what the handle becomes are.         *)
LEMMA SoundThen ==
  ASSUME NEW h \in Handles, Becomes(h), ServerSound',
         RequestsSound(h)', SyncSound(h)', CacheSound(h)'
  PROVE  CInv'
<1>1. Now' = h
  BY BecomesNow
<1>2. Sound(h)'
  BY DEF Sound
<1>3. \A g : g = h => (Sound(g)' <=> Sound(h)')
  OBVIOUS
<1> QED BY <1>1, <1>2, <1>3 DEF CInv

(* No message of the handle bears a fresh identifier.                          *)
LEMMA FreshIsNowhere ==
  ASSUME ServerSound, NEW h \in Handles, Elements(h.in) \subseteq Elements(toClient),
         NEW id \in Ids, Fresh(h, id)
  PROVE  /\ InWay(h.in, id) = 0 /\ \A k : Bears(h.in, id, k)
         /\ \A r \in h.requests : r.id # id
<1>1. /\ \A q \in Elements(toServer) : q.id # id
      /\ \A a \in Elements(toClient) : a # Clear => a.id # id
      /\ \A q \in asked : q.id # id
  BY DEF Fresh, InFlight, Elements
<1>2. h.in \in Seq(Message)
  BY DEF Handles
<1> QED BY <1>1, <1>2, WayIsEmpty DEF Fresh, Bears

(* A new request and its question.                                             *)
LEMMA RequestSound ==
  ASSUME ServerSound, NEW h, Sound(h), h.link = "up",
         NEW k \in Keys, NEW kind \in Kinds, NEW id \in Ids,
         InWay(h.in, id) = 0, \A j : Bears(h.in, id, j), \A r \in h.requests : r.id # id,
         Becomes([h EXCEPT !.requests = @ \cup {[id |-> id, key |-> k, lost |-> FALSE]}]),
         Send(h, kind, id, k), UNCHANGED <<sync, server>>
  PROVE  CInv'
<1> DEFINE new == [id |-> id, key |-> k, lost |-> FALSE]
           all == h.requests \cup {new}
           g == [h EXCEPT !.requests = all]
           q == [kind |-> kind, id |-> id, key |-> k]
<1>1. h \in Handles /\ h.in \in Seq(Message) /\ h.requests \subseteq Request
  BY DEF Sound, Handles
<1>2. new \in Request /\ q \in Question
  BY DEF Request, Question
<1>3. /\ toServer' = Append(toServer, q) /\ sync' = sync /\ asked' = asked
      /\ caching' = caching /\ rules' = rules
  BY DEF Send, server
<1>4. /\ g \in Handles /\ g.link = h.link /\ g.requests = all /\ g.cache = h.cache
      /\ g.in = h.in /\ g.facts = h.facts
  BY <1>1, <1>2 DEF Handles
<1>5. Becomes(g)
  BY <1>1 DEF Handles
<1>6. /\ \A i : /\ i # id => /\ InWay(h.in, i)' = InWay(h.in, i)
                             /\ \A j : Bears(h.in, i, j) => Bears(h.in, i, j)'
      /\ InWay(h.in, id)' = 1 /\ Bears(h.in, id, k)'
      /\ \A i : InWay(h.in, i) \in Nat
  <2>1. \A i : /\ InWay(h.in, i)' = InWay(h.in, i) + IF q.id = i THEN 1 ELSE 0
               /\ \A j : Bears(h.in, i, j) /\ (q.id = i => q.key = j) => Bears(h.in, i, j)'
    BY <1>1, <1>2, <1>3, AskWay
  <2>2. \A i : InWay(h.in, i) \in Nat
    BY <1>1, WayFacts
  <2> QED BY <2>1, <2>2
<1>7. ServerSound'
  <2>1. link' = "up"
    BY <1>4, <1>5 DEF Becomes
  <2>2. toServer' \in Seq(Question)
    BY <1>2, <1>3, AppendFacts DEF ServerSound
  <2> QED BY <1>3, <2>1, <2>2 DEF ServerSound
<1>8. new.id = id /\ new.key = k /\ ~new.lost /\ id # SyncId
  BY DistinctValues
<1> HIDE DEF new, g, q
<1>9. RequestsSound(g)'
  <2>1. /\ OneOfEach(h.requests) /\ Own(h.requests, h.in) /\ AtMostOnce(h.in)
        /\ Alive(h.requests, h.in) /\ "crossed" \notin h.facts
    BY DEF Sound, RequestsSound
  <2>2. OneOfEach(all)
    BY <1>8, <2>1 DEF OneOfEach
  <2>3. Own(all, h.in)'
    <3> SUFFICES ASSUME NEW r \in all PROVE Bears(h.in, r.id, r.key)'
      BY DEF Own
    <3> QED BY <1>6, <1>8, <2>1 DEF Own
  <2>4. AtMostOnce(h.in)'
    BY <1>6, <2>1 DEF AtMostOnce
  <2>5. Alive(all, h.in)'
    <3> SUFFICES ASSUME NEW r \in all, ~r.lost PROVE InWay(h.in, r.id)' = 1
      BY DEF Alive
    <3> QED BY <1>6, <1>8, <2>1 DEF Alive
  <2>6. OneOfEach(g.requests)' /\ Own(g.requests, g.in)' /\ AtMostOnce(g.in)' /\ Alive(g.requests, g.in)'
    BY <1>4, <2>2, <2>3, <2>4, <2>5
  <2> QED BY <1>4, <2>1, <2>6 DEF RequestsSound
<1>10. SyncSound(g)'
  <2> SUFFICES ASSUME "cancelled" \notin h.facts
               PROVE  /\ Awaited(all, h.in)' /\ OwnOfCall(sync, h.in)'
                      /\ sync # NoCall /\ "nested" \notin h.facts => InWay(h.in, SyncId)' = 1
                      /\ "foreign" \notin h.facts
    BY <1>3, <1>4 DEF SyncSound
  <2>1. /\ Awaited(h.requests, h.in) /\ OwnOfCall(sync, h.in) /\ "foreign" \notin h.facts
        /\ sync # NoCall /\ "nested" \notin h.facts => InWay(h.in, SyncId) = 1
    BY DEF Sound, SyncSound
  <2>2. Awaited(all, h.in)'
    <3> SUFFICES ASSUME NEW i \in Ids, InWay(h.in, i)' > 0
                 PROVE  \E r \in all : r.id = i
      BY DEF Awaited
    <3> QED BY <1>6, <1>8, <2>1 DEF Awaited
  <2>3. OwnOfCall(sync, h.in)'
    BY <1>3, <1>6, <1>8, <2>1 DEF OwnOfCall
  <2> QED BY <1>6, <1>8, <2>1, <2>2, <2>3
<1>11. CacheSound(g)'
  BY <1>3, <1>4 DEF Sound, CacheSound, ComingIsCurrent, StoredIsCurrent
<1> QED BY <1>4, <1>5, <1>7, <1>9, <1>10, <1>11, SoundThen

(* What async_check makes of a sound handle is sound.                          *)
LEMMA AsyncSound ==
  ASSUME ServerSound, NEW start, Sound(start), start.link = link,
         Elements(start.in) \subseteq Elements(toClient),
         sync = NoCall \/ "nested" \in start.facts,
         NEW k \in Keys, NEW kind \in Kinds, NEW force \in BOOLEAN,
         AsyncFrom(start, k, kind, force), UNCHANGED <<sync, server>>
  PROVE  CInv'
<1>1. PICK o \in Opened(start) :
        \/ o.link = "none" /\ Becomes(o) /\ UNCHANGED toServer
        \/ o.link = "up" /\ Becomes(Searching(o, force)) /\ UNCHANGED toServer
        \/ /\ o.link = "up"
           /\ \E id \in Ids :
                /\ Fresh(Searching(o, force), id)
                /\ Becomes([Searching(o, force) EXCEPT
                              !.requests = @ \cup {[id |-> id, key |-> k, lost |-> FALSE]}])
                /\ Send(Searching(o, force), kind, id, k)
  BY DEF AsyncFrom
<1> DEFINE h == Searching(o, force)
<1>2. /\ Sound(o) /\ o.facts = start.facts /\ Elements(o.in) \subseteq Elements(toClient)
      /\ link = "up" => o.link = "up"
  <2>1. Sound(o) /\ o.facts = start.facts /\ (o = start \/ (link # "up" /\ o.in = <<>>))
    BY OpenedSound
  <2> QED BY <2>1 DEF Elements
<1>3. /\ Sound(h) /\ h.link = o.link /\ h \in Handles
      /\ Elements(h.in) \subseteq Elements(toClient)
  <2>1. CASE force
    BY <1>2, <2>1 DEF Searching, Sound
  <2>2. CASE ~force
    <3>1. Sound(Flushed(o)) /\ Flushed(o).link = o.link /\ Flushed(o).in = <<>>
      BY <1>2, FlushedIs
    <3> QED BY <2>2, <3>1 DEF Searching, Sound, Elements
  <2> QED BY <2>1, <2>2
<1> HIDE DEF h
<1>4. CASE o.link = "none" /\ Becomes(o) /\ UNCHANGED toServer
  BY <1>2, <1>4, ClientAlone
<1>5. CASE o.link = "up" /\ Becomes(h) /\ UNCHANGED toServer
  BY <1>2, <1>3, <1>5, ClientAlone
<1>6. ASSUME o.link = "up", NEW id \in Ids, Fresh(h, id),
             Becomes([h EXCEPT !.requests = @ \cup {[id |-> id, key |-> k, lost |-> FALSE]}]),
             Send(h, kind, id, k)
      PROVE  CInv'
  <2>1. /\ InWay(h.in, id) = 0 /\ \A j : Bears(h.in, id, j)
        /\ \A r \in h.requests : r.id # id
    BY <1>3, <1>6, FreshIsNowhere
  <2> QED BY <1>2, <1>3, <1>6, <2>1, RequestSound
<1> QED BY <1>1, <1>4, <1>5, <1>6 DEF h

--------------------------------------------------------------------------------
(* The question of a synchronous call: nothing of an earlier one is left.      *)
LEMMA CallSound ==
  ASSUME ServerSound, NEW h, Sound(h), h.link = "up", sync = NoCall,
         NEW k \in Keys, NEW kind \in Kinds, Becomes(h),
         sync' = [key |-> k, kind |-> kind], Send(h, kind, SyncId, k), UNCHANGED server
  PROVE  CInv'
<1> DEFINE q == [kind |-> kind, id |-> SyncId, key |-> k]
<1>1. h \in Handles /\ h.in \in Seq(Message) /\ h.requests \subseteq Request
  BY DEF Sound, Handles
<1>2. q \in Question /\ sync' \in Call /\ sync' # NoCall /\ sync'.key = k
  BY NullsAssumption DEF Call, Question
<1>3. /\ toServer' = Append(toServer, q) /\ asked' = asked
      /\ caching' = caching /\ rules' = rules
  BY DEF Send, server
<1>4. /\ \A i : /\ i # SyncId => /\ InWay(h.in, i)' = InWay(h.in, i)
                                 /\ \A j : Bears(h.in, i, j) => Bears(h.in, i, j)'
      /\ InWay(h.in, SyncId)' = InWay(h.in, SyncId) + 1
      /\ Bears(h.in, SyncId, k) => Bears(h.in, SyncId, k)'
      /\ InWay(h.in, SyncId) \in Nat
  <2>1. \A i : /\ InWay(h.in, i)' = InWay(h.in, i) + IF q.id = i THEN 1 ELSE 0
               /\ \A j : Bears(h.in, i, j) /\ (q.id = i => q.key = j) => Bears(h.in, i, j)'
    BY <1>1, <1>2, <1>3, AskWay
  <2>2. \A i : InWay(h.in, i) \in Nat
    BY <1>1, WayFacts
  <2>3. q.id = SyncId /\ q.key = k
    OBVIOUS
  <2> HIDE DEF q
  <2>4. \A i : i # SyncId => /\ InWay(h.in, i)' = InWay(h.in, i)
                             /\ \A j : Bears(h.in, i, j) => Bears(h.in, i, j)'
    BY <2>1, <2>2, <2>3
  <2>5. InWay(h.in, SyncId)' = InWay(h.in, SyncId) + 1
    BY <2>1, <2>3
  <2>6. Bears(h.in, SyncId, k) => Bears(h.in, SyncId, k)'
    BY <2>1, <2>3
  <2> QED BY <2>2, <2>4, <2>5, <2>6
<1>5. ServerSound'
  <2>1. link' = "up"
    BY DEF Becomes
  <2>2. toServer' \in Seq(Question)
    BY <1>2, <1>3, AppendFacts DEF ServerSound
  <2> QED BY <1>2, <1>3, <2>1, <2>2 DEF ServerSound
<1>6. \A id \in Ids : id # SyncId
  BY DistinctValues
<1> HIDE DEF q
<1>7. RequestsSound(h)'
  <2>1. \A r \in h.requests : r.id \in Ids
    BY <1>1 DEF Request
  <2> QED BY <1>4, <1>6, <2>1 DEF Sound, RequestsSound, Own, AtMostOnce, Alive
<1>8. SyncSound(h)'
  <2> SUFFICES ASSUME "cancelled" \notin h.facts
               PROVE  /\ Awaited(h.requests, h.in)' /\ OwnOfCall(sync, h.in)'
                      /\ InWay(h.in, SyncId)' = 1 /\ "foreign" \notin h.facts
    BY DEF SyncSound
  <2>1. Awaited(h.requests, h.in) /\ OwnOfCall(sync, h.in) /\ "foreign" \notin h.facts
    BY DEF Sound, SyncSound
  <2>2. InWay(h.in, SyncId) = 0
    BY <1>4, <2>1 DEF OwnOfCall
  <2>3. Bears(h.in, SyncId, k)
    BY <1>1, <2>2, WayIsEmpty DEF Bears
  <2>4. Awaited(h.requests, h.in)'
    BY <1>4, <1>6, <2>1 DEF Awaited
  <2>5. OwnOfCall(sync, h.in)'
    BY <1>2, <1>4, <2>2, <2>3 DEF OwnOfCall
  <2> QED BY <1>4, <2>1, <2>2, <2>4, <2>5
<1>9. CacheSound(h)'
  BY <1>3 DEF Sound, CacheSound, ComingIsCurrent, StoredIsCurrent
<1> QED BY <1>1, <1>5, <1>7, <1>8, <1>9, SoundThen

(* The answer of a synchronous call: it is the one of its question.            *)
LEMMA ReturnSound ==
  ASSUME ServerSound, NEW h, Sound(h), h.link = link, h.in # <<>>, sync # NoCall,
         Head(h.in) # Clear, Expected(h, Head(h.in)) = {},
         NEW g, g = Returned(Read(h), Head(h.in)), Becomes(g), sync' = NoCall,
         UNCHANGED <<toServer, server>>
  PROVE  CInv'
<1> DEFINE m == Head(h.in)
           rest == Tail(h.in)
<1>1. h \in Handles /\ h.in \in Seq(Message) /\ h.requests \subseteq Request
  BY DEF Sound, Handles
<1>2. m \in Answer /\ m.key \in Keys
  BY <1>1, ReadFacts DEF Message, Answer
<1>3. sync.key \in Keys
  BY DEF ServerSound, Call
<1>4. /\ g \in Handles /\ g.link = h.link /\ g.requests = h.requests /\ g.in = rest
      /\ g.facts = h.facts \cup (IF m.key # sync.key THEN {"foreign"} ELSE {})
      /\ g.cache = h.cache \/ g.cache = Put(Read(h), sync.key, m).cache
  <2> DEFINE put == Put(Read(h), sync.key, m)
             p == IF sync.kind = "check" THEN put ELSE Read(h)
             facts1 == h.facts \cup (IF m.key # sync.key THEN {"foreign"} ELSE {})
  <2>1. /\ put \in Handles /\ put.in = rest /\ put.link = h.link
        /\ put.requests = h.requests /\ put.facts = h.facts
    BY <1>1, <1>2, <1>3, ReadPutFacts
  <2>2. /\ Read(h) \in Handles /\ Read(h).in = rest /\ Read(h).link = h.link
        /\ Read(h).requests = h.requests /\ Read(h).facts = h.facts
        /\ Read(h).cache = h.cache
    BY <1>1, ReadFacts
  <2> HIDE DEF put
  <2>3. /\ p \in Handles /\ p.in = rest /\ p.link = h.link
        /\ p.requests = h.requests /\ p.facts = h.facts
        /\ p.cache = h.cache \/ p.cache = put.cache
    BY <2>1, <2>2
  <2>4. g = [p EXCEPT !.facts = @ \cup (IF m.key # sync.key THEN {"foreign"} ELSE {})]
    BY DEF Returned, put
  <2>5. facts1 \subseteq Facts
    BY <1>1 DEF Handles, Facts
  <2> HIDE DEF p, rest
  <2>6. g = [p EXCEPT !.facts = facts1]
    BY <2>3, <2>4
  <2> HIDE DEF facts1
  <2>7. /\ g \in Handles /\ g.link = h.link /\ g.requests = h.requests /\ g.in = rest
        /\ g.facts = facts1 /\ g.cache = p.cache
    BY <2>3, <2>5, <2>6 DEF Handles
  <2> QED BY <2>3, <2>7 DEF facts1, put
<1>5. \A id : /\ InWay(rest, id) \in Nat /\ InWay(h.in, id) \in Nat
              /\ m.id # id => InWay(rest, id) = InWay(h.in, id)
              /\ m.id = id => InWay(h.in, id) = InWay(rest, id) + 1
              /\ \A k : Bears(h.in, id, k) => Bears(rest, id, k)
              /\ \A k : Bears(h.in, id, k) /\ m.id = id => m.key = k
  <2> SUFFICES ASSUME NEW id
               PROVE  /\ InWay(rest, id) \in Nat /\ InWay(h.in, id) \in Nat
                      /\ m.id # id => InWay(rest, id) = InWay(h.in, id)
                      /\ m.id = id => InWay(h.in, id) = InWay(rest, id) + 1
                      /\ \A k : Bears(h.in, id, k) => Bears(rest, id, k)
                      /\ \A k : Bears(h.in, id, k) /\ m.id = id => m.key = k
    OBVIOUS
  <2>1. /\ rest \in Seq(Message)
        /\ m.id # id => InWay(rest, id) = InWay(h.in, id)
        /\ m.id = id => InWay(h.in, id) = InWay(rest, id) + 1
        /\ \A k : Bears(h.in, id, k) => Bears(rest, id, k)
        /\ \A k : Bears(h.in, id, k) /\ m.id = id => m.key = k
    BY <1>1, TailWay
  <2>2. InWay(rest, id) \in Nat /\ InWay(h.in, id) \in Nat
    BY <1>1, <2>1, WayFacts
  <2> QED BY <2>1, <2>2
<1>6. \A r \in h.requests : r.id # m.id /\ r.id \in Ids
  BY <1>1 DEF Expected, Request
<1>7. m.id \in Ids \/ m.id = SyncId
  BY <1>2 DEF Answer
<1>8. /\ toServer' = toServer /\ asked' = asked /\ caching' = caching /\ rules' = rules
      /\ link' = h.link
  BY <1>4 DEF server, Becomes
<1>9. ServerSound'
  BY <1>8 DEF ServerSound
<1>10. \A in, id : InWay(in, id)' = InWay(in, id) /\ \A k : Bears(in, id, k)' <=> Bears(in, id, k)
  BY <1>8 DEF InWay, AskedOf, Bears
<1> HIDE DEF m, rest
<1>11. RequestsSound(g)'
  <2>1. /\ OneOfEach(h.requests) /\ Own(h.requests, h.in) /\ AtMostOnce(h.in)
        /\ h.link = "up" => Alive(h.requests, h.in)
        /\ "crossed" \notin h.facts
    BY DEF Sound, RequestsSound
  <2>2. Own(h.requests, rest)
    BY <1>5, <2>1 DEF Own
  <2>3. AtMostOnce(rest)
    <3> SUFFICES ASSUME NEW id \in Ids PROVE InWay(rest, id) <= 1
      BY DEF AtMostOnce
    <3>1. InWay(h.in, id) <= 1
      BY <2>1 DEF AtMostOnce
    <3> QED BY <1>5, <3>1
  <2>4. h.link = "up" => Alive(h.requests, rest)
    BY <1>5, <1>6, <2>1 DEF Alive
  <2>5. /\ Own(h.requests, rest)' /\ AtMostOnce(rest)'
        /\ h.link = "up" => Alive(h.requests, rest)'
    BY <1>10, <2>2, <2>3, <2>4 DEF Own, AtMostOnce, Alive
  <2>6. "crossed" \notin g.facts
    BY <1>4, <2>1
  <2> QED BY <1>4, <2>1, <2>5, <2>6 DEF RequestsSound
<1>12. ASSUME "cancelled" \notin h.facts
       PROVE  /\ m.id = SyncId /\ m.key = sync.key
              /\ Awaited(h.requests, rest) /\ InWay(rest, SyncId) = 0
  <2>1. Awaited(h.requests, h.in) /\ OwnOfCall(sync, h.in)
    BY <1>12 DEF Sound, SyncSound
  <2>2. m.id \notin Ids
    <3> SUFFICES ASSUME m.id \in Ids PROVE FALSE
      OBVIOUS
    <3>1. InWay(h.in, m.id) > 0
      BY <1>5
    <3>2. PICK r \in h.requests : r.id = m.id
      BY <2>1, <3>1 DEF Awaited
    <3> QED BY <1>6, <3>2
  <2>3. m.id = SyncId
    BY <1>7, <2>2
  <2>4. InWay(h.in, SyncId) = 1 /\ InWay(rest, SyncId) = 0
    BY <1>5, <2>1, <2>3 DEF OwnOfCall
  <2>5. Bears(h.in, SyncId, sync.key)
    BY <2>1, <2>4 DEF OwnOfCall
  <2>6. m.key = sync.key
    BY <1>5, <2>3, <2>5
  <2>7. Awaited(h.requests, rest)
    BY <1>5, <2>1, <2>2 DEF Awaited
  <2> QED BY <2>3, <2>4, <2>6, <2>7
<1>13. SyncSound(g)'
  <2> SUFFICES ASSUME "cancelled" \notin h.facts
               PROVE  /\ Awaited(h.requests, rest)' /\ OwnOfCall(sync, rest)'
                      /\ "foreign" \notin g.facts
    BY <1>4 DEF SyncSound
  <2>1. Awaited(h.requests, rest)'
    BY <1>10, <1>12 DEF Awaited
  <2>2. OwnOfCall(sync, rest)'
    BY <1>10, <1>12 DEF OwnOfCall
  <2>3. "foreign" \notin g.facts
    BY <1>4, <1>12 DEF Sound, SyncSound
  <2> QED BY <2>1, <2>2, <2>3
<1>14. CacheSound(g)'
  <2> SUFFICES ASSUME h.link = "up", "foreign" \notin g.facts
               PROVE  ComingIsCurrent(rest) /\ StoredIsCurrent(g.cache, rest)
    BY <1>4, <1>8 DEF CacheSound, ComingIsCurrent, StoredIsCurrent
  <2>1. "foreign" \notin h.facts /\ m.key = sync.key
    BY <1>4
  <2>2. ComingIsCurrent(h.in) /\ StoredIsCurrent(h.cache, h.in)
    BY <2>1 DEF Sound, CacheSound
  <2>3. ComingIsCurrent(rest) /\ StoredIsCurrent(h.cache, rest)
    BY <1>1, <2>2, TailIsCurrent DEF rest
  <2>4. StoredIsCurrent(Put(Read(h), m.key, m).cache, rest)
    BY <1>1, <2>2, PutIsCurrent DEF rest, m
  <2> QED BY <1>4, <2>1, <2>3, <2>4
<1> QED BY <1>4, <1>9, <1>11, <1>13, <1>14, SoundThen

--------------------------------------------------------------------------------
(* What is on its way after a step of the server: the same, unless a question  *)
(* is with an agent already, which is asked once.                              *)
WayFollows ==
  /\ toClient' \in Seq(Message)
  /\ \A id : /\ InWay(toClient, id)' <= InWay(toClient, id)
             /\ InWay(toClient, id) <= 1 => InWay(toClient, id)' = InWay(toClient, id)
             /\ \A k : Bears(toClient, id, k) => Bears(toClient, id, k)'

(* The current state of the handle.                                            *)
LEMMA NowFacts ==
  ASSUME CInv
  PROVE  /\ Now.link = link /\ Now.requests = requests /\ Now.cache = cache
         /\ Now.in = toClient /\ Now.facts = facts /\ Now \in Handles
         /\ toClient \in Seq(Message) /\ ServerSound /\ Sound(Now)
<1>1. ServerSound /\ Sound(Now) /\ Now \in Handles
  BY DEF CInv, Sound
<1>2. /\ Now.link = link /\ Now.requests = requests /\ Now.cache = cache
      /\ Now.in = toClient /\ Now.facts = facts
  BY DEF Now
<1> QED BY <1>1, <1>2 DEF Handles

(* A step of the server keeps all but the order of answers and clears.         *)
LEMMA ServerStep ==
  ASSUME CInv, UNCHANGED <<handle, facts>>, ServerSound', WayFollows, CacheSound(Now)'
  PROVE  CInv'
<1>1. /\ link' = link /\ requests' = requests /\ cache' = cache /\ sync' = sync /\ facts' = facts
  BY DEF handle
<1>2. /\ Now.link = link /\ Now.requests = requests /\ Now.cache = cache
      /\ Now.in = toClient /\ Now.facts = facts /\ Now \in Handles
      /\ Sound(Now)
  BY NowFacts
<1>3. /\ Now'.link = link /\ Now'.requests = requests /\ Now'.cache = cache
      /\ Now'.in = toClient' /\ Now'.facts = facts
  BY <1>1 DEF Now
<1>4. Now' \in Handles
  <2>1. Now' = [Now EXCEPT !.in = toClient']
    BY <1>1 DEF Now
  <2> QED BY <1>2, <2>1 DEF Handles, WayFollows
<1>5. /\ OneOfEach(requests) /\ Own(requests, toClient) /\ AtMostOnce(toClient)
      /\ link = "up" => Alive(requests, toClient)
      /\ "crossed" \notin facts
  BY <1>2 DEF Sound, RequestsSound
<1>6. RequestsSound(Now)'
  <2>1. Own(requests, toClient)'
    BY <1>1, <1>5 DEF Own, WayFollows
  <2>2. AtMostOnce(toClient)'
    BY <1>5 DEF AtMostOnce, WayFollows
  <2>3. link = "up" => Alive(requests, toClient)'
    <3>1. \A r \in requests : r.id \in Ids
      BY <1>2 DEF Handles, Request
    <3> QED BY <1>1, <1>5, <3>1 DEF Alive, AtMostOnce, WayFollows
  <2>4. OneOfEach(requests)'
    BY <1>1, <1>5
  <2> QED BY <1>1, <1>2, <1>3, <1>5, <2>1, <2>2, <2>3, <2>4 DEF RequestsSound, Now
<1>7. SyncSound(Now)'
  <2> SUFFICES ASSUME "cancelled" \notin facts
               PROVE  /\ Awaited(requests, toClient)' /\ OwnOfCall(sync, toClient)'
                      /\ link = "up" /\ sync # NoCall /\ "nested" \notin facts =>
                           InWay(toClient, SyncId)' = 1
                      /\ "foreign" \notin facts
    BY <1>1 DEF SyncSound, Now
  <2>1. /\ Awaited(requests, toClient) /\ OwnOfCall(sync, toClient) /\ "foreign" \notin facts
        /\ link = "up" /\ sync # NoCall /\ "nested" \notin facts => InWay(toClient, SyncId) = 1
    BY <1>2 DEF Sound, SyncSound
  <2>2. Awaited(requests, toClient)'
    <3> SUFFICES ASSUME NEW id \in Ids, InWay(toClient, id)' > 0
                 PROVE  \E r \in requests : r.id = id
      BY <1>1 DEF Awaited
    <3>1. InWay(toClient, id) <= 1
      BY <1>5 DEF AtMostOnce
    <3>2. InWay(toClient, id) > 0
      BY <3>1 DEF WayFollows
    <3> QED BY <2>1, <3>2 DEF Awaited
  <2>3. InWay(toClient, SyncId)' = InWay(toClient, SyncId)
    BY <2>1 DEF OwnOfCall, WayFollows
  <2>4. OwnOfCall(sync, toClient)'
    BY <1>1, <2>1, <2>3 DEF OwnOfCall, WayFollows
  <2> QED BY <2>1, <2>2, <2>3, <2>4
<1> QED BY <1>4, <1>6, <1>7 DEF CInv, Sound

(* A message that the server sends.                                            *)
LEMMA SendWay ==
  ASSUME ServerSound, NEW in \in Seq(Message), NEW m \in Message, NEW id
  PROVE  /\ Append(in, m) \in Seq(Message) /\ Elements(Append(in, m)) = Elements(in) \cup {m}
         /\ m = Clear \/ m.id # id => Count(Append(in, m), AnswersOf(id)) = Count(in, AnswersOf(id))
         /\ m # Clear /\ m.id = id => Count(Append(in, m), AnswersOf(id)) = Count(in, AnswersOf(id)) + 1
<1>1. m \in AnswersOf(id) <=> m # Clear /\ m.id = id
  BY NullsAssumption DEF AnswersOf, Message
<1>2. Count(Append(in, m), AnswersOf(id)) = Count(in, AnswersOf(id))
                                              + IF m \in AnswersOf(id) THEN 1 ELSE 0
  BY CountAppend
<1>3. Count(in, AnswersOf(id)) \in Nat
  BY WayFacts
<1> QED BY <1>1, <1>2, <1>3, AppendFacts

(* A question that is with one more agent, or with one less.                   *)
LEMMA AskedWay ==
  ASSUME ServerSound, NEW q \in Question, NEW id
  PROVE  /\ \/ Cardinality({p \in asked \cup {q} : p.id = id}) = Cardinality(AskedOf(id))
            \/ /\ Cardinality({p \in asked \cup {q} : p.id = id}) = Cardinality(AskedOf(id)) + 1
               /\ q.id = id
         /\ q \in asked => Cardinality({p \in asked \ {q} : p.id = id})
                             = Cardinality(AskedOf(id)) - IF q.id = id THEN 1 ELSE 0
         /\ q.id = id => Cardinality({p \in asked \cup {q} : p.id = id}) >= 1
<1>1. IsFiniteSet(AskedOf(id)) /\ Cardinality(AskedOf(id)) \in Nat
  <2>1. <<>> \in Seq(Message)
    OBVIOUS
  <2> QED BY <2>1, WayFacts
<1>2. {p \in asked \cup {q} : p.id = id} = IF q.id = id THEN AskedOf(id) \cup {q} ELSE AskedOf(id)
  BY DEF AskedOf
<1>3. {p \in asked \ {q} : p.id = id} = IF q.id = id THEN AskedOf(id) \ {q} ELSE AskedOf(id)
  BY DEF AskedOf
<1>4. /\ IsFiniteSet(AskedOf(id) \cup {q})
      /\ Cardinality(AskedOf(id) \cup {q}) = IF q \in AskedOf(id) THEN Cardinality(AskedOf(id))
                                             ELSE Cardinality(AskedOf(id)) + 1
      /\ Cardinality(AskedOf(id) \ {q}) = IF q \in AskedOf(id) THEN Cardinality(AskedOf(id)) - 1
                                             ELSE Cardinality(AskedOf(id))
  BY <1>1, FS_AddElement, FS_RemoveElement
<1>5. q \in AskedOf(id) <=> q \in asked /\ q.id = id
  BY DEF AskedOf
<1>6. q.id = id => Cardinality(AskedOf(id) \cup {q}) >= 1
  <2>1. Cardinality(AskedOf(id) \cup {q}) \in Nat
    BY <1>4, FS_CardinalityType
  <2>2. Cardinality(AskedOf(id) \cup {q}) # 0
    BY <1>4, FS_EmptySet
  <2> QED BY <2>1, <2>2
<1> DEFINE more == {p \in asked \cup {q} : p.id = id}
           less == {p \in asked \ {q} : p.id = id}
<1>7. CASE q.id = id
  <2>1. more = AskedOf(id) \cup {q} /\ less = AskedOf(id) \ {q}
    BY <1>2, <1>3, <1>7
  <2> HIDE DEF more, less
  <2>2. Cardinality(more) = IF q \in asked THEN Cardinality(AskedOf(id)) ELSE Cardinality(AskedOf(id)) + 1
    BY <1>4, <1>5, <1>7, <2>1
  <2>3. q \in asked => Cardinality(less) = Cardinality(AskedOf(id)) - 1
    BY <1>4, <1>5, <1>7, <2>1
  <2>4. Cardinality(more) >= 1
    BY <1>6, <1>7, <2>1
  <2> QED BY <1>7, <2>2, <2>3, <2>4 DEF more, less
<1>8. CASE q.id # id
  <2>1. more = AskedOf(id) /\ less = AskedOf(id)
    BY <1>2, <1>3, <1>8
  <2> HIDE DEF more, less
  <2>2. Cardinality(less) = Cardinality(AskedOf(id)) - 0
    BY <1>1, <2>1
  <2> QED BY <1>8, <2>1, <2>2 DEF more, less
<1> QED BY <1>7, <1>8

(* An answer comes after what was sent, and tells what the rules say.          *)
LEMMA AnswerIsCurrent ==
  ASSUME NEW in \in Seq(Message), ComingIsCurrent(in), NEW m \in Answer,
         IsDirect(m) => m.value = rules[m.key], caching' = TRUE, rules' = rules
  PROVE  /\ ComingIsCurrent(Append(in, m))'
         /\ \A c : StoredIsCurrent(c, in) => StoredIsCurrent(c, Append(in, m))'
<1> DEFINE n == Len(in)
           out == Append(in, m)
<1>1. /\ n \in Nat /\ DOMAIN in = 1 .. n /\ DOMAIN out = 1 .. n + 1 /\ out[n + 1] = m
      /\ \A i \in 1 .. n : out[i] = in[i] /\ i \in 1 .. n + 1
      /\ \A i \in 1 .. n + 1 : i = n + 1 \/ i \in 1 .. n
  OBVIOUS
<1> HIDE DEF n, out
<1>2. \A i \in Nat : ClearedAfter(in, i) => ClearedAfter(out, i)
  BY <1>1 DEF ClearedAfter
<1>3. ASSUME NEW i \in 1 .. n + 1, IsDirect(out[i]), ~ClearedAfter(out, i)
      PROVE  caching' /\ out[i].value = rules'[out[i].key]
  <2>1. CASE i = n + 1
    BY <1>1, <1>3, <2>1
  <2>2. CASE i \in 1 .. n
    BY <1>1, <1>2, <1>3, <2>2 DEF ComingIsCurrent
  <2> QED BY <1>1, <2>1, <2>2
<1>4. ComingIsCurrent(out)'
  <2> SUFFICES ASSUME NEW i \in 1 .. n + 1, IsDirect(out[i]), ~ClearedAfter(out, i)
               PROVE  caching' /\ out[i].value = rules'[out[i].key]
    BY <1>1 DEF ComingIsCurrent
  <2> QED BY <1>3
<1>5. ASSUME NEW c, StoredIsCurrent(c, in)
      PROVE  StoredIsCurrent(c, out)'
  BY <1>2, <1>5 DEF StoredIsCurrent
<1> QED BY <1>4, <1>5 DEF out

(* After a change all is followed by a clear, the new one when there was none. *)
LEMMA ChangeIsCurrent ==
  ASSUME NEW in \in Seq(Message), ComingIsCurrent(in), caching \in BOOLEAN,
         NEW out, out = IF caching THEN Append(in, Clear) ELSE in
  PROVE  /\ \A i \in DOMAIN out : IsDirect(out[i]) => ClearedAfter(out, i)
         /\ \A c : StoredIsCurrent(c, in) =>
              \A k \in Keys : c[k] # None /\ ~c[k].late => ClearedAfter(out, 0)
<1>1. CASE ~caching
  BY <1>1 DEF ComingIsCurrent, StoredIsCurrent
<1>2. CASE caching
  <2> DEFINE n == Len(in)
  <2>1. /\ n \in Nat /\ DOMAIN out = 1 .. n + 1 /\ out[n + 1] = Clear
        /\ n + 1 \in 1 .. n + 1
        /\ \A i \in 1 .. n + 1 : i = n + 1 \/ n + 1 > i
        /\ n + 1 > 0
    BY <1>2
  <2> HIDE DEF n
  <2>2. \A i : n + 1 > i => ClearedAfter(out, i)
    BY <2>1 DEF ClearedAfter
  <2> QED BY <2>1, <2>2 DEF IsDirect
<1> QED BY <1>1, <1>2

(* A question is read by the server.                                           *)
LEMMA ServerTreatsWay ==
  ASSUME CInv, ServerTreats
  PROVE  ServerSound' /\ WayFollows
<1> DEFINE q == Head(toServer)
           m(v) == [id |-> q.id, key |-> q.key, value |-> v, late |-> FALSE]
<1>1. ServerSound /\ toClient \in Seq(Message) /\ toServer \in Seq(Question) /\ toServer # <<>>
  BY NowFacts DEF ServerSound, ServerTreats
<1>2. /\ q \in Question /\ Tail(toServer) \in Seq(Question) /\ q \in Elements(toServer)
      /\ Elements(Tail(toServer)) \subseteq Elements(toServer)
  BY <1>1, TailFacts
<1>3. /\ toServer' = Tail(toServer) /\ rules' = rules /\ link' = link /\ sync' = sync
      /\ link = "up"
  BY DEF ServerTreats, handle
<1>4. \A v \in Values \cup {"ack"} : m(v) \in Answer
  BY <1>2 DEF Answer, Question
<1>5. \/ asked' = asked \cup {q} /\ toClient' = toClient /\ caching' = caching
      \/ /\ asked' = asked /\ caching' = TRUE
         /\ \E v \in Values \cup {"ack"} : toClient' = Append(toClient, m(v))
  <2>1. rules[q.key] \in Values \cup {Agent}
    BY <1>1, <1>2 DEF ServerSound, Question
  <2> QED BY <2>1 DEF ServerTreats, Replies
<1>6. ServerSound'
  <2>1. IsFiniteSet(asked \cup {q})
    BY <1>1, FS_AddElement DEF ServerSound
  <2> QED BY <1>1, <1>2, <1>3, <1>5, <2>1 DEF ServerSound
<1>7. \A id : Count(toServer, QuestionsOf(id)) = Count(toServer', QuestionsOf(id))
                                                  + IF q.id = id THEN 1 ELSE 0
  <2> SUFFICES ASSUME NEW id
               PROVE  Count(toServer, QuestionsOf(id)) = Count(Tail(toServer), QuestionsOf(id))
                                                  + IF q.id = id THEN 1 ELSE 0
    BY <1>3
  <2>1. q \in QuestionsOf(id) <=> q.id = id
    BY <1>2 DEF QuestionsOf
  <2>2. Count(toServer, QuestionsOf(id)) = Count(Tail(toServer), QuestionsOf(id))
                                             + IF q \in QuestionsOf(id) THEN 1 ELSE 0
    BY <1>1, CountTail
  <2> QED BY <2>1, <2>2
<1>8. \A id : /\ Count(toServer, QuestionsOf(id)) \in Nat /\ Count(toClient, AnswersOf(id)) \in Nat
              /\ Cardinality(AskedOf(id)) \in Nat /\ InWay(toClient, id) \in Nat
              /\ Count(toServer', QuestionsOf(id)) \in Nat
  <2>1. \A id : Count(toServer', QuestionsOf(id)) \in Nat
    BY <1>2, <1>3, CountFacts
  <2> QED BY <1>1, <2>1, WayFacts
<1> HIDE DEF q, m
<1>9. CASE asked' = asked \cup {q} /\ toClient' = toClient
  <2> SUFFICES ASSUME NEW id
               PROVE  /\ InWay(toClient, id)' <= InWay(toClient, id)
                      /\ InWay(toClient, id) <= 1 => InWay(toClient, id)' = InWay(toClient, id)
                      /\ \A k : Bears(toClient, id, k) => Bears(toClient, id, k)'
    BY <1>1, <1>6, <1>9 DEF WayFollows
  <2> DEFINE more == {p \in asked \cup {q} : p.id = id}
  <2>1. AskedOf(id)' = more
    BY <1>9 DEF AskedOf
  <2>2. /\ Cardinality(more) = Cardinality(AskedOf(id))
           \/ (Cardinality(more) = Cardinality(AskedOf(id)) + 1 /\ q.id = id)
        /\ q.id = id => Cardinality(more) >= 1
    BY <1>1, <1>2, AskedWay
  <2> HIDE DEF more
  <2>3. InWay(toClient, id)' = Count(toServer', QuestionsOf(id)) + Count(toClient, AnswersOf(id))
                                 + Cardinality(more)
    BY <1>9, <2>1 DEF InWay
  <2>4. InWay(toClient, id) = Count(toServer, QuestionsOf(id)) + Count(toClient, AnswersOf(id))
                                 + Cardinality(AskedOf(id))
    BY DEF InWay
  <2>5. Cardinality(more) \in Nat
    BY <1>8, <2>2
  <2>6. /\ InWay(toClient, id)' <= InWay(toClient, id)
        /\ InWay(toClient, id) <= 1 => InWay(toClient, id)' = InWay(toClient, id)
    BY <1>7, <1>8, <2>2, <2>3, <2>4, <2>5
  <2>7. \A k : Bears(toClient, id, k) => Bears(toClient, id, k)'
    BY <1>2, <1>3, <1>9 DEF Bears
  <2> QED BY <2>6, <2>7
<1>10. ASSUME NEW v \in Values \cup {"ack"}, asked' = asked, toClient' = Append(toClient, m(v))
       PROVE  WayFollows
  <2>1. m(v) \in Message /\ m(v) # Clear /\ m(v).id = q.id /\ m(v).key = q.key
    BY <1>4, NullsAssumption DEF Message, m
  <2>2. Append(toClient, m(v)) \in Seq(Message)
    BY <1>1, <2>1, SendWay
  <2> SUFFICES ASSUME NEW id
               PROVE  /\ InWay(toClient, id)' = InWay(toClient, id)
                      /\ \A k : Bears(toClient, id, k) => Bears(toClient, id, k)'
    BY <1>8, <1>10, <2>2 DEF WayFollows
  <2>3. /\ Elements(toClient)' = Elements(toClient) \cup {m(v)}
        /\ Count(toClient', AnswersOf(id)) = Count(toClient, AnswersOf(id))
                                               + IF q.id = id THEN 1 ELSE 0
    <3>1. /\ Elements(Append(toClient, m(v))) = Elements(toClient) \cup {m(v)}
          /\ m(v).id # id => Count(Append(toClient, m(v)), AnswersOf(id)) = Count(toClient, AnswersOf(id))
          /\ m(v).id = id => Count(Append(toClient, m(v)), AnswersOf(id)) = Count(toClient, AnswersOf(id)) + 1
      BY <1>1, <2>1, SendWay
    <3> QED BY <1>8, <1>10, <2>1, <3>1
  <2>4. InWay(toClient, id)' = Count(toServer', QuestionsOf(id)) + Count(toClient', AnswersOf(id))
                                 + Cardinality(AskedOf(id))
    BY <1>10 DEF InWay, AskedOf
  <2>5. InWay(toClient, id)' = InWay(toClient, id)
    BY <1>7, <1>8, <2>3, <2>4 DEF InWay
  <2>6. \A k : Bears(toClient, id, k) => Bears(toClient, id, k)'
    BY <1>2, <1>3, <1>10, <2>1, <2>3 DEF Bears
  <2> QED BY <2>5, <2>6
<1> QED BY <1>5, <1>6, <1>9, <1>10

(* ServerTreats and AgentReplies keep the order of answers and clears.         *)
LEMMA ReplyIsCurrent ==
  ASSUME CInv, NEW m \in Answer, UNCHANGED <<handle, facts, rules>>,
         toClient' = Append(toClient, m), caching' = TRUE,
         IsDirect(m) => m.value = rules[m.key]
  PROVE  CacheSound(Now)'
<1>1. /\ link' = link /\ facts' = facts /\ cache' = cache
  BY DEF handle
<1> SUFFICES ASSUME link = "up", "foreign" \notin facts
             PROVE  ComingIsCurrent(toClient)' /\ StoredIsCurrent(cache, toClient)'
  BY <1>1 DEF CacheSound, Now
<1>2. /\ toClient \in Seq(Message) /\ ComingIsCurrent(toClient) /\ StoredIsCurrent(cache, toClient)
  BY NowFacts DEF Sound, CacheSound
<1> QED BY <1>1, <1>2, AnswerIsCurrent

(* The steps of the server.                                                    *)
LEMMA ServerTreatsSound ==
  ASSUME CInv, ServerTreats
  PROVE  CInv'
<1> DEFINE q == Head(toServer)
           m(v) == [id |-> q.id, key |-> q.key, value |-> v, late |-> FALSE]
<1>1. UNCHANGED <<handle, facts, rules>>
  BY DEF ServerTreats
<1>2. ServerSound' /\ WayFollows
  BY ServerTreatsWay
<1>3. /\ q \in Question /\ q.key \in Keys /\ rules[q.key] \in Values \cup {Agent}
  <2>1. toServer \in Seq(Question) /\ toServer # <<>>
    BY NowFacts DEF ServerSound, ServerTreats
  <2>2. q \in Question
    BY <2>1, TailFacts
  <2> QED BY <2>2, NowFacts DEF ServerSound, Question
<1>4. \/ UNCHANGED <<toClient, caching>>
      \/ caching' = TRUE /\ toClient' = Append(toClient, m("ack"))
      \/ /\ rules[q.key] # Agent /\ caching' = TRUE
         /\ toClient' = Append(toClient, m(rules[q.key]))
  BY DEF ServerTreats, Replies
<1>5. ASSUME UNCHANGED <<toClient, caching>>
      PROVE  CacheSound(Now)'
  <2>1. UNCHANGED <<link, requests, cache, toClient, caching, rules, facts>>
    BY <1>1, <1>5 DEF handle
  <2>2. CacheSound(Now)
    BY NowFacts DEF Sound
  <2> QED BY <2>1, <2>2 DEF CacheSound, Now, ComingIsCurrent, StoredIsCurrent, ClearedAfter
<1>6. ASSUME caching' = TRUE, toClient' = Append(toClient, m("ack"))
      PROVE  CacheSound(Now)'
  <2>1. m("ack") \in Answer /\ ~IsDirect(m("ack"))
    BY <1>3 DEF Answer, Question, IsDirect
  <2> HIDE DEF m
  <2> QED BY <1>1, <1>6, <2>1, ReplyIsCurrent
<1>7. ASSUME rules[q.key] # Agent, caching' = TRUE,
             toClient' = Append(toClient, m(rules[q.key]))
      PROVE  CacheSound(Now)'
  <2> DEFINE a == m(rules[q.key])
  <2>1. a \in Answer /\ a.value = rules[a.key]
    BY <1>3, <1>7 DEF Answer, Question
  <2> HIDE DEF a
  <2>2. caching' = TRUE /\ toClient' = Append(toClient, a)
    BY <1>7 DEF a
  <2> QED BY <1>1, <2>1, <2>2, ReplyIsCurrent
<1>8. CacheSound(Now)'
  <2> HIDE DEF m, q
  <2> QED BY <1>4, <1>5, <1>6, <1>7
<1> QED BY <1>1, <1>2, <1>8, ServerStep

(* The answer that an agent gave comes late.                                   *)
LEMMA AgentRepliesSound ==
  ASSUME CInv, NEW q \in asked, NEW v \in Values, AgentReplies(q, v)
  PROVE  CInv'
<1> DEFINE a == [id |-> q.id, key |-> q.key, value |-> v, late |-> TRUE]
<1>1. /\ ServerSound /\ toClient \in Seq(Message) /\ q \in Question
  BY NowFacts DEF ServerSound
<1>2. /\ toServer' = toServer /\ asked' = asked \ {q} /\ caching' = TRUE /\ rules' = rules
      /\ link' = link /\ sync' = sync /\ toClient' = Append(toClient, a)
      /\ UNCHANGED <<handle, facts, rules>>
  BY DEF AgentReplies, Replies, handle
<1>3. a \in Answer /\ a \in Message /\ a # Clear /\ a.id = q.id /\ a.key = q.key /\ ~IsDirect(a)
  <2>1. a \in Answer /\ ~IsDirect(a)
    BY <1>1 DEF Answer, Question, IsDirect
  <2> QED BY <2>1, NullsAssumption DEF Message
<1> HIDE DEF a
<1>4. ServerSound'
  <2>1. IsFiniteSet(asked \ {q})
    BY <1>1, FS_RemoveElement DEF ServerSound
  <2> QED BY <1>1, <1>2, <2>1 DEF ServerSound
<1>5. Append(toClient, a) \in Seq(Message)
  BY <1>1, <1>3, SendWay
<1>6. ASSUME NEW id
      PROVE  /\ InWay(toClient, id)' = InWay(toClient, id) /\ InWay(toClient, id) \in Nat
             /\ \A k : Bears(toClient, id, k) => Bears(toClient, id, k)'
  <2>1. /\ Count(toServer, QuestionsOf(id)) \in Nat /\ Count(toClient, AnswersOf(id)) \in Nat
        /\ Cardinality(AskedOf(id)) \in Nat /\ InWay(toClient, id) \in Nat
    BY <1>1, WayFacts
  <2>2. /\ Elements(toClient)' = Elements(toClient) \cup {a}
        /\ Count(toClient', AnswersOf(id)) = Count(toClient, AnswersOf(id))
                                               + IF q.id = id THEN 1 ELSE 0
    <3>1. /\ Elements(Append(toClient, a)) = Elements(toClient) \cup {a}
          /\ a.id # id => Count(Append(toClient, a), AnswersOf(id)) = Count(toClient, AnswersOf(id))
          /\ a.id = id => Count(Append(toClient, a), AnswersOf(id)) = Count(toClient, AnswersOf(id)) + 1
      BY <1>1, <1>3, SendWay
    <3> QED BY <1>2, <1>3, <2>1, <3>1
  <2>3. Cardinality(AskedOf(id)') = Cardinality(AskedOf(id)) - IF q.id = id THEN 1 ELSE 0
    <3>1. AskedOf(id)' = {p \in asked \ {q} : p.id = id}
      BY <1>2 DEF AskedOf
    <3>2. Cardinality({p \in asked \ {q} : p.id = id})
            = Cardinality(AskedOf(id)) - IF q.id = id THEN 1 ELSE 0
      BY <1>1, AskedWay
    <3> QED BY <3>1, <3>2
  <2>4. InWay(toClient, id)' = Count(toServer, QuestionsOf(id)) + Count(toClient', AnswersOf(id))
                                 + Cardinality(AskedOf(id)')
    BY <1>2 DEF InWay
  <2>5. InWay(toClient, id)' = InWay(toClient, id)
    BY <2>1, <2>2, <2>3, <2>4 DEF InWay
  <2>6. \A k : Bears(toClient, id, k) => Bears(toClient, id, k)'
    BY <1>2, <1>3, <2>2 DEF Bears
  <2> QED BY <2>1, <2>5, <2>6
<1>7. WayFollows
  BY <1>2, <1>5, <1>6 DEF WayFollows
<1>8. CacheSound(Now)'
  BY <1>2, <1>3, ReplyIsCurrent
<1> QED BY <1>2, <1>4, <1>7, <1>8, ServerStep

(* A change of the rules is followed by a clear where one is needed.           *)
LEMMA ChangeSound ==
  ASSUME CInv, NEW k \in Keys, NEW v \in Values \cup {Agent}, Change(k, v)
  PROVE  CInv'
<1>1. /\ ServerSound /\ toClient \in Seq(Message) /\ caching \in BOOLEAN
  BY NowFacts DEF ServerSound
<1>2. /\ toServer' = toServer /\ asked' = asked /\ caching' = FALSE
      /\ rules' = [rules EXCEPT ![k] = v]
      /\ link' = link /\ sync' = sync /\ cache' = cache /\ facts' = facts
      /\ toClient' = IF caching THEN Append(toClient, Clear) ELSE toClient
      /\ UNCHANGED <<handle, facts>>
  BY DEF Change, handle
<1>3. ServerSound'
  BY <1>1, <1>2 DEF ServerSound
<1>4. WayFollows
  <2>1. CASE ~caching
    <3>1. /\ \A id : InWay(toClient, id)' = InWay(toClient, id) /\ InWay(toClient, id) \in Nat
          /\ \A id, j : Bears(toClient, id, j)' <=> Bears(toClient, id, j)
      BY <1>1, <1>2, <2>1, WayFacts DEF InWay, AskedOf, Bears
    <3> QED BY <1>1, <1>2, <2>1, <3>1 DEF WayFollows
  <2>2. CASE caching
    <3>1. Clear \in Message
      BY DEF Message
    <3>2. /\ Append(toClient, Clear) \in Seq(Message)
          /\ Elements(Append(toClient, Clear)) = Elements(toClient) \cup {Clear}
          /\ \A id : Count(Append(toClient, Clear), AnswersOf(id)) = Count(toClient, AnswersOf(id))
      BY <1>1, <3>1, SendWay
    <3>3. \A id : InWay(toClient, id)' = InWay(toClient, id) /\ InWay(toClient, id) \in Nat
      BY <1>1, <1>2, <2>2, <3>2, WayFacts DEF InWay, AskedOf
    <3>4. \A id, j : Bears(toClient, id, j) => Bears(toClient, id, j)'
      BY <1>2, <2>2, <3>2 DEF Bears
    <3> QED BY <1>2, <2>2, <3>2, <3>3, <3>4 DEF WayFollows
  <2> QED BY <1>1, <2>1, <2>2
<1>5. CacheSound(Now)'
  <2> SUFFICES ASSUME link = "up", "foreign" \notin facts
               PROVE  ComingIsCurrent(toClient)' /\ StoredIsCurrent(cache, toClient)'
    BY <1>2 DEF CacheSound, Now
  <2>1. ComingIsCurrent(toClient) /\ StoredIsCurrent(cache, toClient)
    BY NowFacts DEF Sound, CacheSound
  <2>2. /\ \A i \in DOMAIN toClient' : IsDirect(toClient'[i]) => ClearedAfter(toClient', i)
        /\ \A j \in Keys : cache[j] # None /\ ~cache[j].late => ClearedAfter(toClient', 0)
    BY <1>1, <1>2, <2>1, ChangeIsCurrent
  <2> QED BY <1>2, <2>2 DEF ComingIsCurrent, StoredIsCurrent, ClearedAfter
<1> QED BY <1>2, <1>3, <1>4, <1>5, ServerStep

--------------------------------------------------------------------------------
(* The connection that ends: its questions are lost.                           *)
LEMMA CutSound ==
  ASSUME CInv, Cut
  PROVE  CInv'
<1>1. /\ ServerSound /\ toClient \in Seq(Message) /\ Now \in Handles /\ Sound(Now)
  BY NowFacts
<1>2. /\ link' = "cut" /\ toServer' = <<>> /\ asked' = {} /\ caching' = FALSE /\ rules' = rules
      /\ sync' = sync /\ requests' = requests /\ cache' = cache /\ toClient' = toClient
      /\ facts' = facts
  BY DEF Cut, ServerForgets
<1>3. ServerSound'
  <2>1. IsFiniteSet({}) /\ <<>> \in Seq(Question)
    BY FS_EmptySet
  <2> QED BY <1>1, <1>2, <2>1 DEF ServerSound
<1>4. Now' \in Handles
  BY <1>1, <1>2 DEF Now, Handles
<1>5. ASSUME NEW id
      PROVE  /\ InWay(toClient, id)' <= InWay(toClient, id)
             /\ InWay(toClient, id)' \in Nat /\ InWay(toClient, id) \in Nat
             /\ \A k : Bears(toClient, id, k) => Bears(toClient, id, k)'
  <2>1. /\ Count(toServer, QuestionsOf(id)) \in Nat /\ Count(toClient, AnswersOf(id)) \in Nat
        /\ Cardinality(AskedOf(id)) \in Nat
    BY <1>1, WayFacts
  <2>2. Elements(<<>>) = {} /\ Count(<<>>, QuestionsOf(id)) = 0
    <3>1. <<>> \in Seq(Question) /\ Elements(<<>>) = {}
      BY DEF Elements
    <3> QED BY <3>1, CountFacts
  <2>3. Cardinality({}) = 0 /\ AskedOf(id)' = {}
    BY <1>2, FS_EmptySet DEF AskedOf
  <2>4. InWay(toClient, id)' = 0 + Count(toClient, AnswersOf(id)) + 0
    BY <1>2, <2>2, <2>3 DEF InWay
  <2>5. \A k : Bears(toClient, id, k) => Bears(toClient, id, k)'
    BY <1>2, <2>2 DEF Bears
  <2> QED BY <2>1, <2>4, <2>5 DEF InWay
<1>6. /\ OneOfEach(requests) /\ Own(requests, toClient) /\ AtMostOnce(toClient)
      /\ "crossed" \notin facts
  BY <1>1 DEF Sound, RequestsSound, Now
<1>7. RequestsSound(Now)'
  <2>1. Own(requests, toClient)'
    BY <1>2, <1>5, <1>6 DEF Own
  <2>2. AtMostOnce(toClient)'
    <3> SUFFICES ASSUME NEW id \in Ids PROVE InWay(toClient, id)' <= 1
      BY DEF AtMostOnce
    <3>1. InWay(toClient, id) <= 1
      BY <1>6 DEF AtMostOnce
    <3> QED BY <1>5, <3>1
  <2>3. OneOfEach(requests)' /\ "crossed" \notin facts' /\ link' # "up"
    BY <1>2, <1>6
  <2> QED BY <2>1, <2>2, <2>3 DEF RequestsSound, Now
<1>8. SyncSound(Now)'
  <2> SUFFICES ASSUME "cancelled" \notin facts
               PROVE  /\ Awaited(requests, toClient)' /\ OwnOfCall(sync, toClient)'
                      /\ "foreign" \notin facts
    BY <1>2 DEF SyncSound, Now
  <2>1. Awaited(requests, toClient) /\ OwnOfCall(sync, toClient) /\ "foreign" \notin facts
    BY <1>1 DEF Sound, SyncSound, Now
  <2>2. \A id : InWay(toClient, id)' > 0 => InWay(toClient, id) > 0
    BY <1>5
  <2>3. Awaited(requests, toClient)'
    BY <1>2, <2>1, <2>2 DEF Awaited
  <2>4. InWay(toClient, SyncId)' <= 1
    BY <1>5, <2>1 DEF OwnOfCall
  <2>5. OwnOfCall(sync, toClient)'
    BY <1>2, <1>5, <2>1, <2>2, <2>4 DEF OwnOfCall
  <2> QED BY <2>1, <2>3, <2>5
<1>9. CacheSound(Now)'
  BY <1>2 DEF CacheSound, Now
<1> QED BY <1>3, <1>4, <1>7, <1>8, <1>9 DEF CInv, Sound

(* The client that leaves it keeps its requests, and nothing is on its way.    *)
LEMMA DisconnectSound ==
  ASSUME CInv, Disconnect
  PROVE  CInv'
<1>1. /\ ServerSound /\ toClient \in Seq(Message) /\ Now \in Handles /\ Sound(Now)
      /\ Now.requests = requests /\ Now.facts = facts /\ Now.cache = cache
  BY NowFacts
<1> DEFINE lost == Lost(Now)
<1>2. /\ link' = "none" /\ toServer' = <<>> /\ asked' = {} /\ caching' = FALSE /\ rules' = rules
      /\ sync' = NoCall /\ requests' = lost /\ cache' = cache /\ toClient' = <<>>
      /\ facts' = facts
  <2>1. Becomes(Closed(Now)) /\ ServerForgets /\ sync = NoCall /\ sync' = sync /\ rules' = rules
    BY DEF Disconnect
  <2>2. /\ Closed(Now).link = "none" /\ Closed(Now).requests = lost /\ Closed(Now).in = <<>>
        /\ Closed(Now).facts = Now.facts /\ Closed(Now).cache = Now.cache
    BY <1>1 DEF Closed, Handles
  <2> HIDE DEF lost
  <2> QED BY <1>1, <2>1, <2>2 DEF Becomes, ServerForgets
<1>3. ServerSound'
  <2>1. IsFiniteSet({}) /\ <<>> \in Seq(Question)
    BY FS_EmptySet
  <2> QED BY <1>1, <1>2, <2>1 DEF ServerSound
<1>4. lost \subseteq Request /\ OneOfEach(lost)
  <2>0. requests \subseteq Request /\ OneOfEach(requests)
    BY <1>1 DEF Handles, Sound, RequestsSound
  <2>1. \A r \in lost : \E s \in requests : r = [s EXCEPT !.lost = TRUE]
    BY <1>1 DEF Lost
  <2>2. \A s \in Request : [s EXCEPT !.lost = TRUE] \in Request /\ [s EXCEPT !.lost = TRUE].id = s.id
    BY DEF Request
  <2> HIDE DEF lost
  <2>3. lost \subseteq Request
    BY <2>0, <2>1, <2>2
  <2>4. ASSUME NEW a \in lost, NEW b \in lost, a.id = b.id
        PROVE  a = b
    <3>1. PICK r \in requests : a = [r EXCEPT !.lost = TRUE]
      BY <2>1
    <3>2. PICK s \in requests : b = [s EXCEPT !.lost = TRUE]
      BY <2>1
    <3>3. r.id = s.id
      BY <2>0, <2>2, <2>4, <3>1, <3>2
    <3>4. r = s
      BY <2>0, <3>3 DEF OneOfEach
    <3> QED BY <3>1, <3>2, <3>4
  <2> QED BY <2>3, <2>4 DEF OneOfEach
<1> HIDE DEF lost
<1>5. Now' \in Handles
  <2>1. cache \in [Keys -> Cached] /\ facts \subseteq Facts /\ <<>> \in Seq(Message)
    BY <1>1 DEF Handles
  <2> QED BY <1>2, <1>4, <2>1 DEF Now, Handles
<1>6. ASSUME NEW id
      PROVE  (InWay(toClient, id) = 0)' /\ \A k : Bears(toClient, id, k)'
  <2>1. (Elements(<<>>) = {})
    BY DEF Elements
  <2>2. Count(<<>>, QuestionsOf(id)) = 0 /\ Count(<<>>, AnswersOf(id)) = 0
    <3>1. <<>> \in Seq(Question) /\ <<>> \in Seq(Message)
      OBVIOUS
    <3> QED BY <2>1, <3>1, CountFacts
  <2>3. AskedOf(id)' = {} /\ Cardinality({}) = 0
    BY <1>2, FS_EmptySet DEF AskedOf
  <2> QED BY <1>2, <2>1, <2>2, <2>3 DEF InWay, Bears
<1>7. RequestsSound(Now)'
  <2>1. Own(requests, toClient)' /\ AtMostOnce(toClient)'
    BY <1>6 DEF Own, AtMostOnce
  <2>2. "crossed" \notin facts
    BY <1>1 DEF Sound, RequestsSound
  <2> QED BY <1>2, <1>4, <2>1, <2>2 DEF RequestsSound, Now
<1>8. SyncSound(Now)'
  <2>1. "cancelled" \notin facts => "foreign" \notin facts
    BY <1>1 DEF Sound, SyncSound
  <2>2. Awaited(requests, toClient)' /\ OwnOfCall(sync, toClient)'
    BY <1>6 DEF Awaited, OwnOfCall
  <2> QED BY <1>2, <2>1, <2>2 DEF SyncSound, Now
<1>9. CacheSound(Now)'
  BY <1>2 DEF CacheSound, Now
<1> QED BY <1>3, <1>5, <1>7, <1>8, <1>9 DEF CInv, Sound

(* A step of the client that leaves its requests and its messages.             *)
LEMMA ForgetSound ==
  ASSUME CInv, NEW k \in Keys, Forget(k)
  PROVE  CInv'
<1> DEFINE c == [cache EXCEPT ![k] = None]
           h == [Now EXCEPT !.cache = c]
<1>1. /\ ServerSound /\ toClient \in Seq(Message) /\ Now \in Handles /\ Sound(Now)
      /\ Now.link = link /\ Now.requests = requests /\ Now.cache = cache
      /\ Now.in = toClient /\ Now.facts = facts
  BY NowFacts
<1>2. c \in [Keys -> Cached]
  BY <1>1 DEF Handles, Cached
<1> HIDE DEF c
<1>3. /\ h \in Handles /\ h.link = link /\ h.requests = requests /\ h.cache = c
      /\ h.in = toClient /\ h.facts = facts
  BY <1>1, <1>2 DEF Handles
<1> HIDE DEF h
<1>4. Sound(h)
  <2>1. RequestsSound(h)
    BY <1>1, <1>3 DEF Sound, RequestsSound
  <2>2. SyncSound(h)
    BY <1>1, <1>3 DEF Sound, SyncSound
  <2>3. CacheSound(h)
    <3> SUFFICES ASSUME link = "up", "foreign" \notin facts
                 PROVE  ComingIsCurrent(toClient) /\ StoredIsCurrent(c, toClient)
      BY <1>3 DEF CacheSound
    <3>1. ComingIsCurrent(toClient) /\ StoredIsCurrent(cache, toClient)
      BY <1>1 DEF Sound, CacheSound
    <3>2. \A j \in Keys : c[j] = cache[j] \/ c[j] = None
      BY <1>1 DEF Handles, c
    <3> QED BY <3>1, <3>2 DEF StoredIsCurrent
  <2> QED BY <1>3, <2>1, <2>2, <2>3 DEF Sound
<1>5. Becomes(h) /\ UNCHANGED <<toServer, sync, server>>
  BY <1>3 DEF Forget, Becomes, c
<1> QED BY <1>1, <1>3, <1>4, <1>5, ClientAlone

(* All the pending requests are cancelled: what was on its way for them is for *)
(* no one.                                                                     *)
LEMMA SetupSound ==
  ASSUME CInv, Setup
  PROVE  CInv'
<1> DEFINE h == [Now EXCEPT !.requests = {}, !.facts = @ \cup {"cancelled"}]
<1>1. /\ ServerSound /\ toClient \in Seq(Message) /\ Now \in Handles /\ Sound(Now)
      /\ Now.link = link /\ Now.requests = requests /\ Now.cache = cache
      /\ Now.in = toClient /\ Now.facts = facts
  BY NowFacts
<1>3. /\ h \in Handles /\ h.link = link /\ h.requests = {} /\ h.cache = cache
      /\ h.in = toClient /\ h.facts = facts \cup {"cancelled"}
  BY <1>1 DEF Handles, Facts
<1> HIDE DEF h
<1>4. Sound(h)
  <2>1. RequestsSound(h)
    BY <1>1, <1>3 DEF Sound, RequestsSound, OneOfEach, Own, Alive
  <2>2. SyncSound(h)
    BY <1>3 DEF SyncSound
  <2>3. CacheSound(h)
    BY <1>1, <1>3 DEF Sound, CacheSound
  <2> QED BY <1>3, <2>1, <2>2, <2>3 DEF Sound
<1>5. Becomes(h) /\ UNCHANGED <<toServer, sync, server>>
  BY <1>3 DEF Setup, Becomes
<1> QED BY <1>1, <1>3, <1>4, <1>5, ClientAlone

(* A synchronous call that is given up: nothing comes any more.                *)
LEMMA SyncBrokenSound ==
  ASSUME CInv, SyncBroken
  PROVE  CInv'
<1>1. /\ ServerSound /\ Now \in Handles /\ Sound(Now)
      /\ Now.link = link /\ Now.requests = requests /\ Now.in = toClient /\ Now.facts = facts
  BY NowFacts
<1>2. /\ sync' = NoCall /\ link # "up" /\ toClient = <<>>
      /\ UNCHANGED <<link, requests, cache, toServer, toClient, server, facts>>
  BY DEF SyncBroken
<1>3. /\ asked' = asked /\ caching' = caching /\ rules' = rules /\ Now' = Now
  BY <1>2 DEF server, Now
<1>4. ServerSound'
  BY <1>1, <1>2, <1>3 DEF ServerSound
<1>5. \A in, id : InWay(in, id)' = InWay(in, id) /\ \A k : Bears(in, id, k)' <=> Bears(in, id, k)
  BY <1>2, <1>3 DEF InWay, AskedOf, Bears
<1>6. RequestsSound(Now)'
  <2>1. RequestsSound(Now)
    BY <1>1 DEF Sound
  <2>2. \A g : RequestsSound(g)' <=> RequestsSound(g)
    BY <1>5 DEF RequestsSound, Own, AtMostOnce, Alive
  <2> QED BY <1>3, <2>1, <2>2
<1>7. SyncSound(Now)'
  <2>1. "cancelled" \notin facts => Awaited(requests, toClient) /\ "foreign" \notin facts
    BY <1>1 DEF Sound, SyncSound
  <2>2. InWay(toClient, SyncId) = 0
    <3>1. toServer = <<>> /\ asked = {} /\ Elements(<<>>) = {} /\ <<>> \in Seq(Message)
      BY <1>1, <1>2 DEF ServerSound, Elements
    <3> QED BY <1>1, <1>2, <3>1, WayIsEmpty
  <2>3. OwnOfCall(sync, toClient)'
    BY <1>2, <1>5, <2>2 DEF OwnOfCall
  <2>4. Awaited(requests, toClient)' <=> Awaited(requests, toClient)
    BY <1>2, <1>5 DEF Awaited
  <2> QED BY <1>2, <2>1, <2>3, <2>4 DEF SyncSound, Now
<1>8. CacheSound(Now)'
  BY <1>2 DEF CacheSound, Now
<1>9. (Now \in Handles)'
  BY <1>1, <1>3 
<1> QED BY <1>4, <1>6, <1>7, <1>8, <1>9 DEF CInv, Sound

(* A message is read.                                                          *)
LEMMA ReceiveSound ==
  ASSUME CInv, Receive
  PROVE  CInv'
<1>1. /\ ServerSound /\ Now \in Handles /\ Sound(Now) /\ Now.in = toClient /\ Now.link = link
      /\ toClient # <<>>
  BY NowFacts DEF Receive
<1>2. Expected(Read(Now), Head(toClient)) = Expected(Now, Head(toClient))
  BY <1>1, ReadFacts DEF Expected
<1>3. CASE /\ sync # NoCall /\ Head(toClient) # Clear /\ Expected(Now, Head(toClient)) = {}
           /\ Becomes(Returned(Read(Now), Head(toClient))) /\ sync' = NoCall
           /\ UNCHANGED <<toServer, server>>
  <2> DEFINE g == Returned(Read(Now), Head(toClient))
  <2> QED BY <1>1, <1>3, ReturnSound
<1>4. CASE /\ sync = NoCall \/ Head(toClient) = Clear \/ Expected(Now, Head(toClient)) # {}
           /\ Becomes(Treated(Now)) /\ UNCHANGED <<sync, toServer, server>>
  <2>1. Sound(Treated(Now)) /\ Treated(Now).link = link
    <3>1. CASE Head(toClient) # Clear /\ Expected(Now, Head(toClient)) # {}
      BY <1>1, <3>1, AnswerSound
    <3>2. CASE Head(toClient) = Clear \/ Expected(Now, Head(toClient)) = {}
      BY <1>1, <1>4, <3>2, SkipSound
    <3> QED BY <3>1, <3>2
  <2> QED BY <1>1, <1>4, <2>1, ClientAlone
<1> QED BY <1>2, <1>3, <1>4 DEF Receive, IsForCaller

(* All messages are read.                                                      *)
LEMMA CacheCheckSound ==
  ASSUME CInv, CacheCheck
  PROVE  CInv'
<1>1. ServerSound /\ Sound(Now) /\ Now.link = link
  BY NowFacts
<1>2. Sound(Flushed(Now)) /\ Flushed(Now).link = link
  BY <1>1, FlushedIs DEF CacheCheck
<1> QED BY <1>1, <1>2, ClientAlone DEF CacheCheck

(* A check that does not wait.                                                 *)
LEMMA AsyncCheckSound ==
  ASSUME CInv, NEW k \in Keys, NEW kind \in Kinds, NEW force \in BOOLEAN,
         AsyncCheck(k, kind, force)
  PROVE  CInv'
<1>1. ServerSound /\ Sound(Now) /\ Now.link = link /\ Now.in = toClient
  BY NowFacts
<1> QED BY <1>1, AsyncSound DEF AsyncCheck

(* The same in a callback that a message has called.                           *)
LEMMA ReceiveAndAskSound ==
  ASSUME CInv, NEW k \in Keys, NEW kind \in Kinds, NEW force \in BOOLEAN,
         ReceiveAndAsk(k, kind, force)
  PROVE  CInv'
<1> DEFINE t == Treated(Now)
           start == [t EXCEPT !.facts = @ \cup {"nested"}]
<1>1. /\ ServerSound /\ Sound(Now) /\ Now.link = link /\ Now.in = toClient
      /\ toClient \in Seq(Message)
  BY NowFacts
<1>2. /\ toClient # <<>> /\ Head(toClient) # Clear /\ Expected(Now, Head(toClient)) # {}
      /\ AsyncFrom(start, k, kind, force) /\ UNCHANGED <<sync, server>>
  BY DEF ReceiveAndAsk
<1>3. Sound(t) /\ t.link = link /\ t.in = Tail(toClient)
  BY <1>1, <1>2, AnswerSound
<1> HIDE DEF t
<1>4. /\ start \in Handles /\ start.link = t.link /\ start.requests = t.requests
      /\ start.cache = t.cache /\ start.in = t.in /\ start.facts = t.facts \cup {"nested"}
  BY <1>3 DEF Sound, Handles, Facts
<1> HIDE DEF start
<1>5. Sound(start)
  <2>1. RequestsSound(start)
    BY <1>3, <1>4 DEF Sound, RequestsSound
  <2>2. SyncSound(start)
    BY <1>3, <1>4 DEF Sound, SyncSound
  <2>3. CacheSound(start)
    BY <1>3, <1>4 DEF Sound, CacheSound
  <2> QED BY <1>4, <2>1, <2>2, <2>3 DEF Sound
<1>6. Elements(start.in) \subseteq Elements(toClient)
  BY <1>1, <1>2, <1>3, <1>4, TailFacts
<1>7. start.link = link /\ "nested" \in start.facts
  BY <1>3, <1>4
<1> QED BY <1>1, <1>2, <1>5, <1>6, <1>7, AsyncSound

(* A check that waits.                                                         *)
LEMMA CheckOrTestSound ==
  ASSUME CInv, NEW k \in Keys, NEW kind \in Kinds, NEW force \in BOOLEAN,
         CheckOrTest(k, kind, force)
  PROVE  CInv'
<1>1. ServerSound /\ Sound(Now) /\ Now.link = link
  BY NowFacts
<1>2. sync = NoCall /\ UNCHANGED server
  BY DEF CheckOrTest
<1>3. PICK o \in Opened(Now) :
        \/ o.link = "none" /\ Becomes(o) /\ UNCHANGED <<sync, toServer>>
        \/ o.link = "up" /\ Becomes(Searching(o, force)) /\ UNCHANGED <<sync, toServer>>
        \/ /\ o.link = "up" /\ Becomes(Searching(o, force))
           /\ sync' = [key |-> k, kind |-> kind]
           /\ Send(Searching(o, force), kind, SyncId, k)
  BY DEF CheckOrTest
<1> DEFINE h == Searching(o, force)
<1>4. Sound(o) /\ (link = "up" => o.link = "up")
  BY <1>1, <1>2, OpenedSound
<1>5. Sound(h) /\ h.link = o.link
  <2>1. CASE force
    BY <1>4, <2>1 DEF Searching
  <2>2. CASE ~force
    BY <1>1, <1>2, <1>4, <2>2, FlushedIs DEF Searching
  <2> QED BY <2>1, <2>2
<1> HIDE DEF h
<1>6. CASE o.link = "none" /\ Becomes(o) /\ UNCHANGED <<sync, toServer>>
  BY <1>1, <1>2, <1>4, <1>6, ClientAlone
<1>7. CASE o.link = "up" /\ Becomes(h) /\ UNCHANGED <<sync, toServer>>
  BY <1>1, <1>2, <1>5, <1>7, ClientAlone
<1>8. CASE /\ o.link = "up" /\ Becomes(h) /\ sync' = [key |-> k, kind |-> kind]
           /\ Send(h, kind, SyncId, k)
  BY <1>1, <1>2, <1>5, <1>8, CallSound
<1> QED BY <1>3, <1>6, <1>7, <1>8 DEF h

--------------------------------------------------------------------------------
(* The invariant holds at first.                                               *)
LEMMA CInvInit == Init => CInv
<1> SUFFICES ASSUME Init
             PROVE  CInv
  OBVIOUS
<1>1. /\ link = "none" /\ requests = {} /\ cache = NothingCached /\ sync = NoCall
      /\ toServer = <<>> /\ toClient = <<>> /\ asked = {} /\ caching = FALSE
      /\ rules \in [Keys -> Values \cup {Agent}] /\ facts = {}
  BY DEF Init
<1>2. ServerSound
  <2>1. IsFiniteSet({}) /\ <<>> \in Seq(Question)
    BY FS_EmptySet
  <2> QED BY <1>1, <2>1 DEF ServerSound
<1>3. Now \in Handles
  <2>1. NothingCached \in [Keys -> Cached] /\ <<>> \in Seq(Message)
    BY DEF NothingCached, Cached
  <2> QED BY <1>1, <2>1 DEF Handles, Now
<1>4. \A id : InWay(<<>>, id) = 0
  <2>1. <<>> \in Seq(Message) /\ Elements(<<>>) = {}
    BY DEF Elements
  <2> QED BY <1>1, <1>2, <2>1, WayIsEmpty
<1>5. RequestsSound(Now)
  BY <1>1, <1>4 DEF RequestsSound, OneOfEach, Own, AtMostOnce, Now
<1>6. SyncSound(Now)
  BY <1>1, <1>4 DEF SyncSound, Awaited, OwnOfCall, Now
<1>7. CacheSound(Now)
  BY <1>1 DEF CacheSound, Now
<1> QED BY <1>2, <1>3, <1>5, <1>6, <1>7 DEF CInv, Sound

(* One case for each action.                                                   *)
LEMMA CInvNext == CInv /\ [Next]_vars => CInv'
<1> SUFFICES ASSUME CInv, [Next]_vars
             PROVE  CInv'
  OBVIOUS
<1>1. CASE UNCHANGED vars
  <2>1. /\ UNCHANGED <<toServer, sync, server>> /\ Becomes(Now)
    BY <1>1 DEF vars, handle, Becomes, Now
  <2> QED BY <2>1, NowFacts, ClientAlone
<1>2. CASE \E k \in Keys, kind \in Kinds, force \in BOOLEAN :
             \/ AsyncCheck(k, kind, force)
             \/ CheckOrTest(k, kind, force)
             \/ ReceiveAndAsk(k, kind, force)
  BY <1>2, AsyncCheckSound, CheckOrTestSound, ReceiveAndAskSound
<1>3. CASE Receive \/ SyncBroken \/ CacheCheck
  BY <1>3, ReceiveSound, SyncBrokenSound, CacheCheckSound
<1>4. CASE Setup \/ Disconnect
  BY <1>4, SetupSound, DisconnectSound
<1>5. CASE \E k \in Keys : Forget(k)
  BY <1>5, ForgetSound
<1>6. CASE ServerTreats \/ Cut
  BY <1>6, ServerTreatsSound, CutSound
<1>7. CASE \E q \in asked, v \in Values : AgentReplies(q, v)
  BY <1>7, AgentRepliesSound
<1>8. CASE \E k \in Keys, v \in Values \cup {Agent} : Change(k, v)
  BY <1>8, ChangeSound
<1> QED BY <1>1, <1>2, <1>3, <1>4, <1>5, <1>6, <1>7, <1>8 DEF Next

(* It always holds.                                                            *)
LEMMA CInvAlways == Spec => []CInv
<1>1. Init => CInv
  BY CInvInit
<1>2. CInv /\ [Next]_vars => CInv'
  BY CInvNext
<1> QED BY <1>1, <1>2, PTL DEF Spec

(* What is counted on its way is what Places counts.                           *)
LEMMA PlacesAre ==
  ASSUME CInv, NEW id
  PROVE  Places(id) = InWay(toClient, id)
<1>1. toServer \in Seq(Question) /\ toClient \in Seq(Message)
  BY NowFacts DEF ServerSound
<1>2. {i \in DOMAIN toServer : toServer[i].id = id} = Positions(toServer, QuestionsOf(id))
  BY <1>1 DEF Positions, QuestionsOf
<1>3. {i \in DOMAIN toClient : toClient[i] # Clear /\ toClient[i].id = id}
        = Positions(toClient, AnswersOf(id))
  <2>1. \A i \in DOMAIN toClient : toClient[i] \in Message
    BY <1>1
  <2>2. \A m \in Message : m \in AnswersOf(id) <=> m # Clear /\ m.id = id
    BY NullsAssumption DEF AnswersOf, Message
  <2> QED BY <2>1, <2>2 DEF Positions
<1> QED BY <1>2, <1>3 DEF Places, InWay, Count, AskedOf

(* The state is always well formed.                                            *)
LEMMA CInvTypes == CInv => TypeOK
<1> SUFFICES ASSUME CInv
             PROVE  TypeOK
  OBVIOUS
<1>1. ServerSound /\ Now \in Handles /\ RequestsSound(Now)
  BY NowFacts DEF Sound
<1>2. /\ link \in {"none", "up", "cut"} /\ requests \subseteq Request
      /\ cache \in [Keys -> Cached] /\ facts \subseteq Facts /\ toClient \in Seq(Message)
  BY <1>1, NowFacts DEF Handles
<1>3. \A r, s \in requests : r.id = s.id => r = s
  BY <1>1 DEF RequestsSound, OneOfEach, Now
<1>4. \A i \in DOMAIN toClient : toClient[i] = Clear \/ toClient[i] \in Answer
  BY <1>2 DEF Message
<1> QED BY <1>1, <1>2, <1>3, <1>4 DEF TypeOK, ServerSound

--------------------------------------------------------------------------------
(* The callbacks of a request are called with the answer to a question about   *)
(* its key, whatever was cancelled, lost or asked in callbacks before          *)
(* (async_check, async_reply_process).                                         *)
THEOREM AsyncAnswerIsOwnHolds == Spec => []AsyncAnswerIsOwn
<1>1. CInv => AsyncAnswerIsOwn
  BY DEF CInv, Sound, RequestsSound, Now, AsyncAnswerIsOwn
<1> QED BY <1>1, CInvAlways, PTL

(* A synchronous call returns the answer to its own question as long as no     *)
(* pending request was cancelled (check_or_test, get_reply).                   *)
THEOREM SyncAnswerIsOwnUnlessCancelledHolds == Spec => []SyncAnswerIsOwnUnlessCancelled
<1>1. CInv => SyncAnswerIsOwnUnlessCancelled
  BY DEF CInv, Sound, SyncSound, Now, SyncAnswerIsOwnUnlessCancelled, SyncAnswerIsOwn
<1> QED BY <1>1, CInvAlways, PTL

(* What is waited for on a connection that is up is on its way, once, and the  *)
(* state is well formed (async_check, check_or_test, flushr, get_reply).       *)
THEOREM PendingIsAliveHolds == Spec => []PendingIsAlive
<1>1. CInv => PendingIsAlive
  <2> SUFFICES ASSUME CInv
               PROVE  PendingIsAlive
    OBVIOUS
  <2>1. /\ link = "up" => Alive(requests, toClient)
        /\ "cancelled" \notin facts /\ link = "up" /\ sync # NoCall /\ "nested" \notin facts
             => InWay(toClient, SyncId) = 1
    BY DEF CInv, Sound, RequestsSound, SyncSound, Now
  <2> QED BY <2>1, CInvTypes, PlacesAre DEF PendingIsAlive, Alive
<1> QED BY <1>1, CInvAlways, PTL

(* With all messages read, a cached answer that no agent gave is what the rule *)
(* of its key says now (check_or_test, async_check, connection, onchange).     *)
THEOREM CacheIsCurrentHolds == Spec => []CacheIsCurrent
<1>1. CInv => CacheIsCurrent
  <2> SUFFICES ASSUME CInv, link = "up", toClient = <<>>, "foreign" \notin facts
               PROVE  \A k \in Keys : cache[k] # None /\ ~cache[k].late => cache[k].value = rules[k]
    BY DEF CacheIsCurrent
  <2>1. StoredIsCurrent(cache, toClient)
    BY DEF CInv, Sound, CacheSound, Now
  <2>2. ~ClearedAfter(toClient, 0)
    BY DEF ClearedAfter
  <2> QED BY <2>1, <2>2 DEF StoredIsCurrent
<1> QED BY <1>1, CInvAlways, PTL
================================================================================
