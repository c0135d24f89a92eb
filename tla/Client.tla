---------------------------------- MODULE Client ----------------------------------
(*******************************************************************************)
(* The checks of the client library (src/src/cynagora.c): one handle, its      *)
(* pending asynchronous requests, its cache, a synchronous call that waits,    *)
(* and a connection that the server may close.  The application is one thread. *)
(* The server of module CheckServer is reduced here to what one connection     *)
(* sees of it: answers at once or late, and "clear".                           *)
(*                                                                             *)
(* The callbacks of a request are called together and are not modelled one by  *)
(* one; the ids of clear messages and the size of the cache are not either.    *)
(* An operator named Faulty... is not the code: it is a plausible mistake in    *)
(* the definition it precedes, kept to show which property catches it.         *)
(*******************************************************************************)
EXTENDS Naturals, Sequences, FiniteSets

CONSTANTS
  Keys, Values,   (* keys to check; the answers that rules or agents give      *)
  Ids,            (* identifiers of asynchronous requests                      *)
  SyncId,         (* the identifier of every synchronous one, "{sync}"         *)
  Agent,          (* the value of a rule whose answer comes late               *)
  Clear,          (* the message clear                                         *)
  NoCall, None,   (* no synchronous call; not in the cache                     *)
  MaxInFlight     (* bound on the questions that have no answer read yet       *)

ASSUME DistinctValues == Agent \notin Values /\ SyncId \notin Ids
ASSUME MaxInFlightAssumption == MaxInFlight \in Nat

VARIABLES
  link,       (* "none", "up", or "cut": closed by the server only             *)
  requests,   (* the pending asynchronous requests                             *)
  cache,      (* what is cached for each key                                   *)
  sync,       (* the synchronous call that waits for its answer                *)
  toServer,   (* questions sent and not read                                   *)
  toClient,   (* messages received and not read                                *)
  asked,      (* the questions for which the server waits for an agent         *)
  caching,    (* the server's flag that the client may cache                   *)
  rules,      (* the rules of the server                                       *)
  facts       (* history: what happened, a subset of Facts                     *)

handle == <<link, requests, cache, sync>>
server == <<asked, caching, rules>>
vars == <<handle, toServer, toClient, server, facts>>

(* "cancelled": pending requests were cancelled; "nested": a callback asked    *)
(* inside a synchronous call; "foreign", "crossed": a synchronous call, an     *)
(* asynchronous request got the answer to another question.                    *)
Facts == {"cancelled", "nested", "foreign", "crossed"}

(* A request is "lost" when its connection is: a history field.  The key of an *)
(* answer is one as well: the message bears the id only.                       *)
Kinds == {"check", "test"}
Request == [id : Ids, key : Keys, lost : BOOLEAN]
Question == [kind : Kinds, id : Ids \cup {SyncId}, key : Keys]
Answer == [id : Ids \cup {SyncId}, key : Keys, value : Values \cup {"ack"}, late : BOOLEAN]
Cached == [value : Values, late : BOOLEAN] \cup {None}

Call == [key : Keys, kind : Kinds]

ASSUME NullsAssumption == Clear \notin Answer /\ NoCall \notin Call

NothingCached == [k \in Keys |-> None]

Init ==
  /\ link = "none" /\ requests = {} /\ cache = NothingCached /\ sync = NoCall
  /\ toServer = <<>> /\ toClient = <<>>
  /\ asked = {} /\ caching = FALSE /\ rules \in [Keys -> Values \cup {Agent}]
  /\ facts = {}

--------------------------------------------------------------------------------
(* What the handle becomes is computed on h: its link, requests, cache, facts  *)
(* and the messages to read.                                                   *)
Now == [link |-> link, requests |-> requests, cache |-> cache,
        in |-> toClient, facts |-> facts]

Becomes(h) ==
  /\ link' = h.link /\ requests' = h.requests /\ cache' = h.cache
  /\ toClient' = h.in /\ facts' = h.facts

(* cache_put of the answer a to the key k; "ack" is no status to cache.        *)
Put(h, k, a) ==
  IF a.value = "ack" THEN h
  ELSE [h EXCEPT !.cache[k] = [value |-> a.value, late |-> a.late]]

Expected(h, m) == {r \in h.requests : r.id = m.id}

(* get_reply on the message m: a clear, the answer to a pending request, or    *)
(* something that it leaves to its caller.                                     *)
Treat(h, m) ==
  IF m = Clear THEN [h EXCEPT !.cache = NothingCached]
  ELSE IF Expected(h, m) = {} THEN h
  ELSE LET r == CHOOSE r \in Expected(h, m) : TRUE
       IN  [Put(h, r.key, m) EXCEPT
              !.requests = @ \ {r},
              !.facts = @ \cup (IF m.key # r.key THEN {"crossed"} ELSE {})]

FaultyIsForCaller(h, m) == m # Clear
IsForCaller(h, m) == m # Clear /\ Expected(h, m) = {}

(* wait_reply: the first message is read and treated.                          *)
Read(h) == [h EXCEPT !.in = Tail(@)]
Treated(h) == Treat(Read(h), Head(h.in))

(* flushr: treats all that can be read and drops what is for no request.       *)
FaultyFlushed(h) == [h EXCEPT !.in = <<>>]
Flushed(h) ==
  LET after[n \in 0 .. Len(h.in)] == IF n = 0 THEN h ELSE Treated(after[n - 1])
  IN  after[Len(h.in)]

Lost(h) == {[r EXCEPT !.lost = TRUE] : r \in h.requests}
Closed(h) == [h EXCEPT !.link = "none", !.in = <<>>, !.requests = Lost(h)]

(* ensure_opened: a connection that the server closed is left for another one, *)
(* which may fail.  The pending requests are kept; the cache starts again.     *)
FaultyOpened(h) ==
  IF h.link = "up" THEN {h}
  ELSE {Closed(h), [Closed(h) EXCEPT !.link = "up"]}

Opened(h) ==
  IF h.link = "up" THEN {h}
  ELSE {Closed(h), [Closed(h) EXCEPT !.link = "up", !.cache = NothingCached]}

Searching(h, force) == IF force THEN h ELSE Flushed(h)
Hit(h, k, force) == ~force /\ h.cache[k] # None

--------------------------------------------------------------------------------
Send(h, kind, id, k) ==
  /\ Len(toServer) + Cardinality(asked) + Len(SelectSeq(h.in, LAMBDA m : m # Clear))
       < MaxInFlight
  /\ toServer' = Append(toServer, [kind |-> kind, id |-> id, key |-> k])

(* idgen_next until no pending request has the id.  It counts far enough for   *)
(* an id never to come back while a message bears it.                          *)
InFlight(id) ==
  \/ \E i \in DOMAIN toServer : toServer[i].id = id
  \/ \E i \in DOMAIN toClient : toClient[i] # Clear /\ toClient[i].id = id
  \/ \E q \in asked : q.id = id

FaultyFresh(h, id) == ~InFlight(id)
Fresh(h, id) == ~InFlight(id) /\ \A r \in h.requests : r.id # id

(* async_check from the state h of the handle.  A pending request for the same *)
(* key, whatever its connection, is joined and nothing is sent.                *)
AsyncFrom(start, k, kind, force) ==
  \E o \in Opened(start) :
    LET h == Searching(o, force)
        joins == \E r \in h.requests : r.key = k
    IN  \/ /\ o.link = "none"
           /\ Becomes(o) /\ UNCHANGED toServer
        \/ /\ o.link = "up" /\ (Hit(h, k, force) \/ joins)
           /\ Becomes(h) /\ UNCHANGED toServer
        \/ /\ o.link = "up" /\ ~Hit(h, k, force) /\ ~joins
           /\ \E id \in Ids :
                /\ Fresh(h, id)
                /\ Becomes([h EXCEPT !.requests = @ \cup {[id |-> id, key |-> k, lost |-> FALSE]}])
                /\ Send(h, kind, id, k)

AsyncCheck(k, kind, force) ==
  /\ sync = NoCall
  /\ AsyncFrom(Now, k, kind, force)
  /\ UNCHANGED <<sync, server>>

(* check_or_test, up to the sending of its question.                           *)
CheckOrTest(k, kind, force) ==
  /\ sync = NoCall
  /\ \E o \in Opened(Now) :
       LET h == Searching(o, force)
       IN  \/ /\ o.link = "none"
              /\ Becomes(o) /\ UNCHANGED <<sync, toServer>>
           \/ /\ o.link = "up" /\ Hit(h, k, force)
              /\ Becomes(h) /\ UNCHANGED <<sync, toServer>>
           \/ /\ o.link = "up" /\ ~Hit(h, k, force)
              /\ Becomes(h)
              /\ sync' = [key |-> k, kind |-> kind]
              /\ Send(h, kind, SyncId, k)
  /\ UNCHANGED server

(* The rest of check_or_test: the first message that get_reply leaves is taken *)
(* for the answer, its id is not looked at.                                    *)
Returned(h, a) ==
  [(IF sync.kind = "check" THEN Put(h, sync.key, a) ELSE h) EXCEPT
     !.facts = @ \cup (IF a.key # sync.key THEN {"foreign"} ELSE {})]

(* wait_reply treats one message, for the synchronous call that waits or for   *)
(* cynagora_async_process.                                                     *)
Receive ==
  /\ toClient # <<>>
  /\ LET m == Head(toClient)
         h == Read(Now)
     IN  IF sync # NoCall /\ IsForCaller(h, m)
         THEN Becomes(Returned(h, m)) /\ sync' = NoCall
         ELSE Becomes(Treated(Now)) /\ UNCHANGED sync
  /\ UNCHANGED <<toServer, server>>

(* A callback called inside a synchronous call asks in turn: what is read then *)
(* is not left to the call that waits.                                         *)
ReceiveAndAsk(k, kind, force) ==
  /\ sync # NoCall
  /\ toClient # <<>> /\ Head(toClient) # Clear
  /\ Expected(Now, Head(toClient)) # {}
  /\ LET h == Treated(Now)
     IN  AsyncFrom([h EXCEPT !.facts = @ \cup {"nested"}], k, kind, force)
  /\ UNCHANGED <<sync, server>>

(* The synchronous call ends with an error when nothing can come any more.     *)
SyncBroken ==
  /\ sync # NoCall
  /\ link # "up" /\ toClient = <<>>
  /\ sync' = NoCall
  /\ UNCHANGED <<link, requests, cache, toServer, toClient, server, facts>>

(* cynagora_cache_check: no connection is made.                                *)
CacheCheck ==
  /\ sync = NoCall /\ link # "none"
  /\ Becomes(Flushed(Now))
  /\ UNCHANGED <<sync, toServer, server>>

(* The entry of k leaves the cache: it expired, or was the least recently hit  *)
(* when place was needed, or the answer was not to be cached, or the           *)
(* application cleared the cache.                                              *)
Forget(k) ==
  /\ cache[k] # None
  /\ cache' = [cache EXCEPT ![k] = None]
  /\ UNCHANGED <<link, requests, sync, toServer, toClient, server, facts>>

(* cynagora_async_setup: the callbacks are called with -ECANCELED.             *)
Setup ==
  /\ sync = NoCall /\ requests # {}
  /\ requests' = {} /\ facts' = facts \cup {"cancelled"}
  /\ UNCHANGED <<link, cache, sync, toServer, toClient, server>>

(* The server's end of a connection that is over.                              *)
ServerForgets == toServer' = <<>> /\ asked' = {} /\ caching' = FALSE

Disconnect ==
  /\ sync = NoCall /\ link # "none"
  /\ Becomes(Closed(Now)) /\ ServerForgets
  /\ UNCHANGED <<sync, rules>>

--------------------------------------------------------------------------------
(* makecheck: an answer at once, or a question to an agent.                    *)
Replies(q, value, late) ==
  /\ toClient' = Append(toClient, [id |-> q.id, key |-> q.key, value |-> value, late |-> late])
  /\ caching' = TRUE

ServerTreats ==
  /\ link = "up" /\ toServer # <<>>
  /\ LET q == Head(toServer)
     IN  \/ /\ rules[q.key] = Agent /\ q.kind = "check"
            /\ asked' = asked \cup {q}
            /\ UNCHANGED <<toClient, caching>>
         \/ /\ rules[q.key] = Agent /\ q.kind = "test"
            /\ Replies(q, "ack", FALSE)
            /\ UNCHANGED asked
         \/ /\ rules[q.key] # Agent
            /\ Replies(q, rules[q.key], FALSE)
            /\ UNCHANGED asked
  /\ toServer' = Tail(toServer)
  /\ UNCHANGED <<handle, rules, facts>>

AgentReplies(q, value) ==
  /\ q \in asked
  /\ asked' = asked \ {q}
  /\ Replies(q, value, TRUE)
  /\ UNCHANGED <<handle, toServer, rules, facts>>

(* onchange                                                                    *)
Change(k, v) ==
  /\ rules' = [rules EXCEPT ![k] = v]
  /\ toClient' = IF caching THEN Append(toClient, Clear) ELSE toClient
  /\ caching' = FALSE
  /\ UNCHANGED <<handle, toServer, asked, facts>>

(* The server stops or drops the client.  What it sent can still be read.      *)
Cut ==
  /\ link = "up" /\ link' = "cut"
  /\ ServerForgets
  /\ UNCHANGED <<requests, cache, sync, toClient, rules, facts>>

Next ==
  \/ \E k \in Keys, kind \in Kinds, force \in BOOLEAN :
       \/ AsyncCheck(k, kind, force)
       \/ CheckOrTest(k, kind, force)
       \/ ReceiveAndAsk(k, kind, force)
  \/ Receive \/ SyncBroken \/ CacheCheck \/ Setup \/ Disconnect
  \/ \E k \in Keys : Forget(k)
  \/ ServerTreats \/ Cut
  \/ \E q \in asked, v \in Values : AgentReplies(q, v)
  \/ \E k \in Keys, v \in Values \cup {Agent} : Change(k, v)

Spec == Init /\ [][Next]_vars

--------------------------------------------------------------------------------
(* The state is well formed, and no two pending requests share an id.          *)
TypeOK ==
  /\ link \in {"none", "up", "cut"}
  /\ requests \subseteq Request
  /\ \A r, s \in requests : r.id = s.id => r = s
  /\ cache \in [Keys -> Cached]
  /\ sync \in Call \cup {NoCall}
  /\ toServer \in Seq(Question)
  /\ \A i \in DOMAIN toClient : toClient[i] = Clear \/ toClient[i] \in Answer
  /\ asked \subseteq Question /\ caching \in BOOLEAN
  /\ rules \in [Keys -> Values \cup {Agent}]
  /\ facts \subseteq Facts

(* The callbacks of a key are called with the answer to a question about that  *)
(* key, across connections, cancellations and nested calls (async_check,       *)
(* async_reply_process).                                                       *)
AsyncAnswerIsOwn == "crossed" \notin facts

(* A synchronous call returns the answer to its own question, as cynagora.h    *)
(* says of cynagora_check.                                                     *)
SyncAnswerIsOwn == "foreign" \notin facts

(* It does as long as no pending request was cancelled: all other answers that *)
(* arrive meanwhile are taken away by get_reply.                               *)
SyncAnswerIsOwnUnlessCancelled == "cancelled" \in facts \/ SyncAnswerIsOwn

(* What is waited for will be answered by this connection: the question of a   *)
(* pending request is not read, is with an agent, or its answer is not read,   *)
(* and just one of these, until the connection ends; the same of a synchronous *)
(* call, where no callback has read its answer.                                *)
Places(id) ==
  Cardinality({i \in DOMAIN toServer : toServer[i].id = id})
  + Cardinality({i \in DOMAIN toClient : toClient[i] # Clear /\ toClient[i].id = id})
  + Cardinality({q \in asked : q.id = id})

PendingIsAlive ==
  /\ TypeOK
  /\ link = "up" =>
       /\ \A r \in requests : ~r.lost => Places(r.id) = 1
       /\ sync # NoCall /\ {"nested", "cancelled"} \cap facts = {} => Places(SyncId) = 1

(* With all messages read, and no answer ever taken for another, what is       *)
(* cached from a rule that says yes or no is what the rule still says: the     *)
(* order of answers and clears, the flag of the server and the emptying at a   *)
(* new connection suffice together (check_or_test, connection, onchange).      *)
CacheIsCurrent ==
  link = "up" /\ toClient = <<>> /\ "foreign" \notin facts =>
    \A k \in Keys : cache[k] # None /\ ~cache[k].late => cache[k].value = rules[k]
================================================================================
