---------------------------------- MODULE Answers ----------------------------------
(*******************************************************************************)
(* The way of an answer with a date: from the rule, whose decision ends at     *)
(* that date, by cyn-server.c (exp2check), over the stream of module Prot, to  *)
(* cynagora.c (status_check) and into the cache of module Cache, where it is   *)
(* found until it expires.  Three readings of the clock take part in it.       *)
(*                                                                             *)
(* One handle checks keys with asynchronous requests, and lists the rules with *)
(* cynagora_get, whose records bear the names that rules have.  Rules do not   *)
(* change here: the clear messages are the subject of modules CheckServer and  *)
(* Client.  A record bears here its key where the code puts the identifier of  *)
(* the request for that key.                                                   *)
(*******************************************************************************)
EXTENDS Prot, Expire, Cache

CONSTANTS
  EndOf,        (* the date of the rule of each key: 0, or negative when the   *)
                (* decision is not to be cached                                *)
  Listed,       (* the records of the list of the rules                        *)
  Size,         (* the place for the items of the cache                        *)
  MaxTime,      (* bound on the clock                                          *)
  MaxChecks     (* bound on the checks sent and not answered                   *)

ASSUME EndOfAssumption == EndOf \in [Keys -> Int]
ASSUME MaxTimeAssumption == MaxTime \in Nat
ASSUME SizeAssumption == Size \in Nat

VARIABLES
  now,        (* the clock                                                     *)
  cache,      (* the items of the client                                       *)
  requests,   (* the requests sent and not read by the server: keys, or "get"  *)
  waits,      (* what the client waits for                                     *)
  todo,       (* the records that the server is putting                        *)
  aged,       (* history: the answers that were written before the last tick   *)
  atEnd       (* history: the keys answered at the very second of their date   *)

client == <<cache, waits>>
server == <<requests, todo>>
answerVars == <<protVars, now, client, server, aged, atEnd>>

List == "get"
ASSUME ListAssumption == List \notin Keys
Done == <<<<"d">>>>
Yes == <<"y">>
No == <<"n">>
AnswerTo(key, value, date) == <<value, <<key>>>> \o date
IsAnswer(r) == r[1] \in {Yes, No}
ASSUME SentAssumption ==
  /\ Listed \in Seq(Records) /\ Done \in Records
  /\ \A i \in DOMAIN Listed : ~IsAnswer(Listed[i])
  /\ \A k \in Keys : /\ AnswerTo(k, No, <<>>) \in Records
                    /\ \A t \in 0 .. MaxTime : AnswerTo(k, Yes, exp2check(EndOf[k], t)) \in Records
OnTheWay == {k \in waits \cap Keys : \A i \in DOMAIN requests : requests[i] # k}

AnswersInit ==
  /\ ProtInit
  /\ now = 0 /\ cache = <<>>
  /\ requests = <<>> /\ waits = {} /\ todo = <<>>
  /\ aged = {} /\ atEnd = {}

--------------------------------------------------------------------------------
(* async_check: the cache answers, a pending request for the key is joined, or *)
(* the server is asked.  It is not called while a list is read: cynagora_get    *)
(* is synchronous, and from a callback that runs inside it the flushr of        *)
(* async_check would take the items of the list and its end away.              *)
Check(k) ==
  /\ List \notin waits
  /\ cache' = cache_search(cache, k, now)
  /\ IF At(Unexpired(cache, now), k) # {} \/ k \in waits
     THEN UNCHANGED <<requests, waits>>
     ELSE /\ Cardinality(waits \ {List}) < MaxChecks
          /\ requests' = Append(requests, k)
          /\ waits' = waits \cup {k}
  /\ UNCHANGED <<protVars, now, todo, aged, atEnd>>

(* cynagora_get: its reader waits for the end of the list.  The answers that    *)
(* were asked before come before it: nothing is left in the buffer after it.    *)
GetList ==
  /\ List \notin waits
  /\ requests' = Append(requests, List)
  /\ waits' = waits \cup {List}
  /\ UNCHANGED <<protVars, now, cache, todo, aged, atEnd>>

(* onrequest.  The rule is found at one reading of the clock, and its date is  *)
(* written at another.                                                         *)
InForce(d) == d = 0 \/ (IF d < 0 THEN -(d + 1) ELSE d) > now
WrittenDate(k, t) == IF InForce(EndOf[k]) THEN exp2check(EndOf[k], t) ELSE <<>>

Idle == todo = <<>> /\ count = 0
Serve ==
  /\ Idle /\ requests # <<>>
  /\ requests' = Tail(requests)
  /\ IF Head(requests) = List
     THEN todo' = Listed \o <<Done>> /\ UNCHANGED <<now, atEnd>>
     ELSE \E t \in {now, now + 1} :
            LET k == Head(requests)
            IN  /\ t = now \/ (t <= MaxTime /\ aged = {})
                /\ now' = t
                /\ todo' = <<AnswerTo(k, IF InForce(EndOf[k]) THEN Yes ELSE No, WrittenDate(k, t))>>
                /\ atEnd' = IF WrittenDate(k, t) = <<<<>>>> THEN atEnd \cup {k} ELSE atEnd
  /\ aged' = IF now' = now THEN aged ELSE OnTheWay
  /\ UNCHANGED <<protVars, client>>

(* putx: a record that does not fit waits until the buffer is flushed.         *)
PutNext ==
  /\ todo # <<>>
  /\ Put(Head(todo))
  /\ todo' = Tail(todo)
  /\ UNCHANGED <<now, client, requests, aged, atEnd>>

(* get_reply and its callers: the answer to a pending request goes to the      *)
(* cache, the end of the list to the reader.                                   *)
Take ==
  /\ NextRecord
  /\ IF IsAnswer(fields)
     THEN \E k \in Keys :
            /\ fields[2] = <<k>>
            /\ cache' = cache_put(cache, k, fields[1], DateOf(SubSeq(fields, 3, Len(fields)), now),
                                  now, Size)
            /\ waits' = waits \ {k}
            /\ aged' = aged \ {k}
     ELSE /\ waits' = IF fields = Done THEN waits \ {List} ELSE waits
          /\ UNCHANGED <<cache, aged>>
  /\ UNCHANGED <<now, server, atEnd>>

Stream == (Write \/ Read \/ Get) /\ UNCHANGED <<now, client, server, aged, atEnd>>

(* An answer is on its way for one tick at most.                               *)
Tick ==
  /\ now < MaxTime /\ aged = {}
  /\ now' = now + 1
  /\ aged' = OnTheWay
  /\ UNCHANGED <<protVars, client, server, atEnd>>

Progress == Serve \/ PutNext \/ Stream \/ Take

AnswersNext ==
  \/ \E k \in Keys : Check(k)
  \/ GetList
  \/ Progress
  \/ Tick

(* The server and the client turn while one of them has something to read or   *)
(* to write.                                                                   *)
AnswersSpec == AnswersInit /\ [][AnswersNext]_answerVars /\ WF_answerVars(Progress)

--------------------------------------------------------------------------------
(* A decision is not used after its end: what a search of the cache returns    *)
(* while the rule says "yes" until a date, it returns no later than that date  *)
(* and the tick that the answer took to come; and what is not to be cached is  *)
(* not.  Not so of an answer written in the very second of the date: its date  *)
(* is the empty text, which the client reads as "for ever".                    *)
EndsInTime ==
  \A i \in DOMAIN cache :
    LET item == cache[i]
    IN  item.value = Yes /\ EndOf[item.key] # 0 /\ item.key \notin atEnd =>
          /\ EndOf[item.key] > 0
          /\ Expired(item, now) \/ now <= EndOf[item.key] + 1

(* Checks, and lists asked while checks are pending, come to their end, over   *)
(* buffers that are full and records that come in pieces.                      *)
AnswersArrive ==
  \A S \in {Keys, {List}} : waits \cap S # {} ~> waits \cap S = {}
================================================================================
