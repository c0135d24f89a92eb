--------------------------------- MODULE Launcher ---------------------------------
(*******************************************************************************)
(* An agent as src/src/main-cynagora-agent.c makes one out of a program: the   *)
(* program is started for each ask, what it writes is its answer or a sub-     *)
(* query, whose answer is written to its input.  Between the launcher and the  *)
(* server of module CheckServer are the agent calls of src/src/cynagora.c and  *)
(* two streams of messages that keep their order.                              *)
(*                                                                             *)
(* The agent Host of CheckServer is either a launcher ("hosted") or any        *)
(* program of the agent protocol.  A launcher whose connection ends, ends.     *)
(*                                                                             *)
(* The numbers that the launcher gives to queries and to sub-queries and the   *)
(* library to requests are unique until a 31 bits counter turns: here one is   *)
(* used again only when nothing refers to it.                                  *)
(*                                                                             *)
(* An operator named Faulty... is not the code: it is a plausible mistake in    *)
(* the definition it precedes, kept to show which property catches it.         *)
(*******************************************************************************)
EXTENDS CheckServer, Sequences, TLC

CONSTANTS
  Host,         (* the agent client                                            *)
  QueryCount,   (* QUERY_COUNT: the size of the table "queries"                *)
  SubIds,       (* numbers of sub-queries and of the requests that carry them  *)
  Idle,         (* an entry of a table that is not used                        *)
  RuleChanges   (* the values that rules get                                   *)

ASSUME HostAssumption == AgentClients = {Host}
ASSUME RuleChangesAssumption == RuleChanges \subseteq RuleValues
ASSUME QueryCountAssumption == QueryCount \in Nat \ {0}
ASSUME SubIdsAssumption == SubIds \subseteq Nat

VARIABLES
  hosted,     (* Host is a launcher                                            *)
  toHost,     (* what the server sent: asks, and answers to requests           *)
  fromHost,   (* what the launcher sent: replies, and sub-queries              *)
  checkId,    (* checkId[s]: the request that the pending check s answers      *)
  requests,   (* library: what is called when request r is answered (asreq_t)  *)
  queries,    (* the table of the launcher: an ask and its program             *)
  subqs,      (* subqs[m]: the query that asked sub-query m                    *)
  registering,  (* the launcher waits for the done of its command agent        *)
  unread      (* how many messages of toHost were read with that done: they    *)
              (* are in the buffer of the library                              *)

reading == <<registering, unread>>
hostVars == <<toHost, fromHost, checkId, requests, queries, subqs, reading>>
allVars == <<vars, hosted, hostVars>>

Slots == 0 .. QueryCount - 1
Lines == {<<>>, <<"sub">>, <<"answer">>, <<"sub", "answer">>}
Phases == {"new", "waits", "told", "done", "ended"}
Programs == [ask : Cells, phase : Phases, lines : Lines]
Program(s) == [ask |-> s, phase |-> "new", lines |-> <<>>]
NoRequest == [key |-> Idle, calls |-> {}]

ASSUME IdleAssumption == Idle \notin Slots \cup Programs

AskMsg(s) == [what |-> "ask", ask |-> s]
AnswerMsg(r) == [what |-> "answer", id |-> r]
ReplyMsg(s) == [what |-> "reply", ask |-> s]
SubMsg(s, r, k) == [what |-> "sub", ask |-> s, id |-> r, key |-> k]

NothingHosted ==
  /\ toHost' = <<>> /\ fromHost' = <<>>
  /\ checkId' = [s \in Cells |-> Idle]
  /\ requests' = [r \in SubIds |-> NoRequest]
  /\ queries' = [q \in Slots |-> Idle]
  /\ subqs' = [m \in SubIds |-> Idle]
  /\ registering' = FALSE /\ unread' = 0

LInit ==
  /\ Init
  /\ hosted = FALSE
  /\ toHost = <<>> /\ fromHost = <<>>
  /\ checkId = [s \in Cells |-> Idle]
  /\ requests = [r \in SubIds |-> NoRequest]
  /\ queries = [q \in Slots |-> Idle]
  /\ subqs = [m \in SubIds |-> Idle]
  /\ registering = FALSE /\ unread = 0

--------------------------------------------------------------------------------
(* Numbers in use: a request, an entry of subqs or a message names them.       *)
InUseIds == {r \in SubIds : requests[r] # NoRequest \/ subqs[r] # Idle}
NewIds == SubIds \ InUseIds
NextId == CHOOSE m \in NewIds : \A n \in NewIds : m <= n

(* subquery, then async_check.  The code shares a pending request of the same  *)
(* key between checks but never between the sub-queries of agents.             *)
FaultyShared(k) == {r \in SubIds : requests[r].key = k}
Shared(k) == {}

(* The entries of subqs when the query q is cleared (clear).                   *)
FaultySubqsWithout(q, table) == table
SubqsWithout(q, table) == [m \in SubIds |-> IF table[m] = q THEN Idle ELSE table[m]]

(* read_and_dispatch on the output of the program q: each line in turn, and    *)
(* nothing more once an answer cleared the query.  Then terminate, when the    *)
(* program ended: "no" for the query if it is still there.                     *)
SubLine(q) == "sub" \in {queries[q].lines[i] : i \in DOMAIN queries[q].lines}
Closes(q) ==
  \/ "answer" \in {queries[q].lines[i] : i \in DOMAIN queries[q].lines}
  \/ queries[q].phase = "ended"

AfterSub(q, m, k) ==
  LET r == IF Shared(k) = {} THEN m ELSE CHOOSE x \in Shared(k) : TRUE
  IN  [subqs |-> [subqs EXCEPT ![m] = q],
       requests |-> [requests EXCEPT ![r] = [key |-> k, calls |-> @.calls \cup {m}]],
       sent |-> IF Shared(k) = {} THEN <<SubMsg(queries[q].ask, r, k)>> ELSE <<>>]

AfterLines(q, then) ==
  /\ requests' = then.requests
  /\ IF Closes(q)
     THEN /\ queries' = [queries EXCEPT ![q] = Idle]
          /\ subqs' = SubqsWithout(q, then.subqs)
          /\ fromHost' = fromHost \o then.sent \o <<ReplyMsg(queries[q].ask)>>
     ELSE /\ queries' = [queries EXCEPT ![q].lines = <<>>]
          /\ subqs' = then.subqs
          /\ fromHost' = fromHost \o then.sent

(* A sub-query first reads and processes all that came (flushr in async_check):  *)
(* nothing stays unread, and the steps HostInput may follow.                     *)
ProgramEvent(q) ==
  /\ queries[q] # Idle
  /\ queries[q].lines # <<>> \/ queries[q].phase = "ended"
  /\ IF SubLine(q)
     THEN /\ NewIds # {}
          /\ \E k \in Keys : AfterLines(q, AfterSub(q, NextId, k))
          /\ unread' = 0
     ELSE /\ AfterLines(q, [subqs |-> subqs, requests |-> requests, sent |-> <<>>])
          /\ UNCHANGED unread
  /\ UNCHANGED <<vars, hosted, toHost, checkId, registering>>

--------------------------------------------------------------------------------
(* cynagora_async_process: the first message.  An ask takes the last free      *)
(* entry of the table (qidx) and starts its program; without entry, or when    *)
(* the program cannot be started, the library replies an error (agent_ask).    *)
FreeSlots == {q \in Slots : queries[q] = Idle}
LastFree == CHOOSE q \in FreeSlots : \A p \in FreeSlots : p <= q

Faultyagentcb(s) ==
  /\ queries' \in {queries, [queries EXCEPT ![LastFree] = Program(s)]}
  /\ UNCHANGED <<fromHost, requests, subqs>>

agentcb(s) ==
  \/ /\ FreeSlots # {}
     /\ queries' = [queries EXCEPT ![LastFree] = Program(s)]
     /\ UNCHANGED <<fromHost, requests, subqs>>
  \/ /\ fromHost' = Append(fromHost, ReplyMsg(s))
     /\ UNCHANGED <<queries, requests, subqs>>

(* on_subquery_reply, for each callback of the request.  The answer of a       *)
(* sub-query whose query was cleared goes nowhere, and so does the one of the  *)
(* query 0 (q > 0).                                                            *)
Told(calls) ==
  [q \in Slots |->
     IF q > 0 /\ \E m \in calls : subqs[m] = q
     THEN [queries[q] EXCEPT !.phase = IF @ = "waits" THEN "told" ELSE @]
     ELSE queries[q]]

on_subquery_reply(r) ==
  LET calls == requests[r].calls
  IN  /\ queries' = Told(calls)
      /\ subqs' = [m \in SubIds |-> IF m \in calls THEN Idle ELSE subqs[m]]
      /\ requests' = [requests EXCEPT ![r] = NoRequest]
      /\ UNCHANGED fromHost

(* The loop of the launcher calls it when the socket has something to read: what *)
(* is left in the buffer is processed with what comes next.                      *)
HostInput ==
  /\ ~registering
  /\ toHost # <<>> /\ Len(toHost) > unread
  /\ toHost' = Tail(toHost)
  /\ \/ Head(toHost).what = "ask" /\ agentcb(Head(toHost).ask)
     \/ Head(toHost).what = "answer" /\ on_subquery_reply(Head(toHost).id)
  /\ unread' = 0
  /\ UNCHANGED <<vars, hosted, checkId, registering>>

(* The programs: one asks at most one sub-query, may answer before it is told, *)
(* and may end without a word.                                                 *)
ProgramStep(q, from, phase, lines) ==
  /\ queries[q] # Idle
  /\ queries[q].phase \in from
  /\ queries' = [queries EXCEPT ![q].phase = phase, ![q].lines = @ \o lines]
  /\ UNCHANGED <<vars, hosted, toHost, fromHost, checkId, requests, subqs, reading>>

ProgramAsks(q) == ProgramStep(q, {"new"}, "waits", <<"sub">>)
ProgramAnswers(q) == ProgramStep(q, {"new", "waits", "told"}, "done", <<"answer">>)
ProgramEnds(q) == ProgramStep(q, {"new", "waits", "told"}, "ended", <<>>)

--------------------------------------------------------------------------------
(* What the server sends to the launcher in a step: the answers of its checks  *)
(* that were closed, and the ask that was made.                                *)
AskedNow == asks'[Host] \ asks[Host]
ClosedNow == checks[Host] \ checks'[Host]
Sequenced(S) == IF S = {} THEN <<>> ELSE LET x == CHOOSE x \in S : TRUE IN <<x>>

Sends(answers) ==
  toHost' = toHost
    \o answers
    \o Sequenced({AnswerMsg(checkId[s]) : s \in ClosedNow})
    \o Sequenced({AskMsg(s) : s \in AskedNow})

ForgetClosed == [s \in Cells |-> IF s \in ClosedNow THEN Idle ELSE checkId[s]]

(* onrequest for the first message of the launcher.                            *)
ServeReply(s) ==
  /\ AgentReplies(Host, s)
  /\ Sends(<<>>)
  /\ checkId' = ForgetClosed

ServeSub(msg) ==
  \/ /\ Sub(Host, msg.ask, msg.key)
     /\ LET t == checks'[Host] \ checks[Host]
        IN  /\ Sends(IF t = {} THEN <<AnswerMsg(msg.id)>> ELSE <<>>)
            /\ checkId' = [s \in Cells |-> IF s \in t THEN msg.id ELSE checkId[s]]
  \/ /\ Refuse(Host)
     /\ Sends(<<AnswerMsg(msg.id)>>)
     /\ UNCHANGED checkId

ServeHost ==
  /\ fromHost # <<>>
  /\ fromHost' = Tail(fromHost)
  /\ \/ Head(fromHost).what = "reply" /\ ServeReply(Head(fromHost).ask)
     \/ Head(fromHost).what = "sub" /\ ServeSub(Head(fromHost))
  /\ UNCHANGED <<hosted, requests, queries, subqs, reading>>

(* A request of another client, or a change of the rules.                      *)
ServeOther(A) ==
  /\ A
  /\ IF hosted THEN Sends(<<>>) ELSE UNCHANGED toHost
  /\ UNCHANGED <<hosted, fromHost, checkId, requests, queries, subqs, reading>>

OtherRequest ==
  \/ \E c \in Clients \ {Host} : Connect(c) \/ Destroy(c) \/ Refuse(c)
  \/ \E c \in Clients \ {Host}, k \in Keys : Check(c, k) \/ Test(c, k)
  \/ \E k \in Keys, v \in RuleChanges : Change(k, v)

(* Any program that speaks the protocol of agents.                             *)
AnyAgent ==
  /\ ~hosted
  /\ \/ Refuse(Host)
     \/ \E k \in Keys : Check(Host, k) \/ Test(Host, k)
     \/ \E s \in Cells, k \in Keys : Sub(Host, s, k)
     \/ \E n \in AgentNames : AddAgent(Host, n)

AnyAgentReplies(s) ==
  /\ ~hosted
  /\ AgentReplies(Host, s)
  /\ UNCHANGED <<hosted, hostVars>>

(* main of the launcher: it connects and registers its name, or fails.  Then   *)
(* wait_done reads until the done is there, and what came with it stays in the *)
(* buffer: the first asks may be there before the launcher turns its loop.     *)
HostStarts ==
  /\ Connect(Host)
  /\ hosted' \in BOOLEAN
  /\ UNCHANGED hostVars

HostRegisters ==
  /\ hosted /\ ~registering
  /\ \E n \in AgentNames : AddAgent(Host, n)
  /\ registering' = TRUE
  /\ UNCHANGED <<hosted, toHost, fromHost, checkId, requests, queries, subqs, unread>>

HostReadsDone ==
  /\ registering
  /\ registering' = FALSE
  /\ unread' \in 0 .. Len(toHost)
  /\ UNCHANGED <<vars, hosted, toHost, fromHost, checkId, requests, queries, subqs>>

HostEnds ==
  /\ Destroy(Host)
  /\ hosted' = FALSE
  /\ NothingHosted

LNext ==
  \/ HostStarts \/ HostRegisters \/ HostReadsDone \/ HostEnds
  \/ ServeOther(OtherRequest)
  \/ AnyAgent /\ UNCHANGED <<hosted, hostVars>>
  \/ \E s \in Cells : AnyAgentReplies(s)
  \/ ServeHost \/ HostInput
  \/ \E q \in Slots :
       ProgramEvent(q) \/ ProgramAsks(q) \/ ProgramAnswers(q) \/ ProgramEnds(q)

(* The loops of the server and of the launcher turn; a program that waits for  *)
(* nothing answers or ends ("terminates quickly", says the help), and so does  *)
(* an agent that is no launcher.                                               *)
ProgramGoesOn(q) ==
  queries[q] # Idle /\ queries[q].phase # "waits" /\ (ProgramAnswers(q) \/ ProgramEnds(q))

LFairness ==
  /\ WF_allVars(ServeHost \/ HostInput \/ HostReadsDone)
  /\ \A q \in Slots : WF_allVars(ProgramEvent(q) \/ ProgramGoesOn(q))
  /\ \A s \in Cells : WF_allVars(AnyAgentReplies(s))

LSpec == LInit /\ [][LNext]_allVars /\ LFairness

--------------------------------------------------------------------------------
(* The tables of the launcher are well formed.                                 *)
LTypeOK ==
  /\ TypeOK
  /\ hosted => Host \in connected
  /\ registering \in BOOLEAN /\ unread \in Nat
  /\ queries \in [Slots -> Programs \cup {Idle}]
  /\ subqs \in [SubIds -> Slots \cup {Idle}]

(* Between the server that waits for a reply and the program that makes it, an *)
(* ask is in one place: in the stream, in the table, or replied; whatever      *)
(* programs do, none is forgotten and none is replied twice.  It is the same   *)
(* of the requests that carry sub-queries.                                     *)
Places(s) ==
  {<<"to", i>> : i \in {j \in DOMAIN toHost : toHost[j] = AskMsg(s)}}
    \cup {<<"in", q>> : q \in {p \in Slots : queries[p] # Idle /\ queries[p].ask = s}}
    \cup {<<"from", i>> : i \in {j \in DOMAIN fromHost : fromHost[j] = ReplyMsg(s)}}
RequestPlaces(r) ==
  {<<"to", i>> : i \in {j \in DOMAIN toHost : toHost[j] = AnswerMsg(r)}}
    \cup {<<"at", s>> : s \in {t \in checks[Host] : checkId[t] = r}}
    \cup {<<"from", i>> : i \in {j \in DOMAIN fromHost :
                              fromHost[j].what = "sub" /\ fromHost[j].id = r}}

OneReplyPerAsk ==
  /\ LTypeOK
  /\ hosted =>
       /\ \A s \in Cells : Cardinality(Places(s)) = IF s \in asks[Host] THEN 1 ELSE 0
       /\ \A r \in SubIds :
            Cardinality(RequestPlaces(r)) = IF requests[r] # NoRequest THEN 1 ELSE 0

(* The answer of a sub-query comes to the program that asked it, or to none:   *)
(* never to the next program that got the same entry of the table.             *)
AnswersToTheirProgram ==
  \A m \in SubIds : subqs[m] # Idle =>
    queries[subqs[m]] # Idle /\ queries[subqs[m]].phase # "new"

(* Every check is answered or its client goes, whatever sub-queries the        *)
(* programs make on its way: those that wait, wait for asks that are made to   *)
(* the same launcher, but never in a circle.  Provided that no program waits   *)
(* in the entry 0 of the table, that is told nothing, and that something comes *)
(* after the messages that were read with the done of the registration.        *)
EntryZeroWaits == queries[0] # Idle /\ queries[0].phase = "waits"
ChecksAreAnswered ==
  []~EntryZeroWaits /\ []<>(unread = 0) =>
    \A c \in Clients, s \in Cells : s \in checks[c] ~> s \notin checks[c]
================================================================================
