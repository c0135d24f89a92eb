------------------------------- MODULE CheckServer -------------------------------
(*******************************************************************************)
(* Checks, agents and cache invalidation: the queries of src/src/cyn.c and     *)
(* their connections in src/src/cyn-server.c, with the built-in agent "@" of   *)
(* src/src/agent-at.c.  The server is single threaded: each request, with all  *)
(* the callbacks it triggers, is one action; what makes interleavings is that  *)
(* a check may wait for an agent while clients come, ask, change rules and go. *)
(*                                                                             *)
(* A pending check is a cell holding what the code keeps in three blocks that  *)
(* are allocated and freed together (check_t, cynagora_query_t, ask_t); the    *)
(* lists of the clients refer to cells as the code's lists refer to blocks.    *)
(* Identifiers of requests and of asks are the cells themselves.               *)
(* An operator named Faulty... is not the code: it is a plausible mistake in    *)
(* the definition it precedes, kept to show which property catches it.         *)
(*******************************************************************************)
EXTENDS Integers, FiniteSets

CONSTANTS
  Clients, AgentClients,   (* connections; those made to the agent socket      *)
  NoClient,                (* the null client                                  *)
  Keys, AtKey,             (* keys of queries; the key that "@" asks instead   *)
  AgentNames,              (* names of agents other than "@"                   *)
  Cells, Free,             (* where pending checks are kept                    *)
  MaxDepth,                (* CYN_SEARCH_DEEP_MAX                              *)
  Watched                  (* the clients of which the history "told" is kept  *)

ASSUME ClientsAssumption == AgentClients \subseteq Clients /\ NoClient \notin Clients
ASSUME AtKeyAssumption == AtKey \in [Keys -> Keys]
ASSUME MaxDepthAssumption == MaxDepth \in Nat \ {0}
ASSUME AgentNamesAssumption == {"yes", "no", "@"} \cap AgentNames = {}

VARIABLES
  connected,   (* the clients                                                  *)
  rules,       (* the value that db_test finds for each key                    *)
  agents,      (* the client registered for each name                          *)
  heap,        (* the cells: Free, or a pending check                          *)
  checks,      (* checks[c]: the cells of the checks that c waits for          *)
  asks,        (* asks[c]: the cells of the asks that agent c owes a reply     *)
  caching,     (* caching[c]: c may have cached an answer                      *)
  owed,        (* history: number of answers that c was not sent yet           *)
  told         (* history: what c was told of each key since its last "clear", *)
               (* as the value of the rule that the answer came from           *)

vars == <<connected, rules, agents, heap, checks, asks, caching, owed, told>>

Nothing == "nothing"
Direct == {"yes", "no"}
RuleValues == Direct \cup {"@"} \cup AgentNames
Pending == [client : Clients \cup {NoClient}, key : Keys, basis : AgentNames,
            decount : 1 .. MaxDepth, nesting : Nat]

ASSUME FreeAssumption == Free \notin Pending

Init ==
  /\ connected = {}
  /\ rules = [k \in Keys |-> "no"]
  /\ agents = [n \in AgentNames |-> NoClient]
  /\ heap = [s \in Cells |-> Free]
  /\ checks = [c \in Clients |-> {}] /\ asks = [c \in Clients |-> {}]
  /\ caching = [c \in Clients |-> FALSE]
  /\ owed = [c \in Clients |-> 0]
  /\ told = [c \in Clients |-> [k \in Keys |-> Nothing]]

--------------------------------------------------------------------------------
(* agent_at_cb asks for another key, one level deeper, for the same asker.     *)
(* Where the chain ends: the value found, the levels that are left.            *)
Resolve[d \in 0 .. MaxDepth] ==
  [k \in Keys |-> IF rules[k] = "@" /\ d > 0 THEN Resolve[d - 1][AtKey[k]]
                  ELSE [basis |-> rules[k], left |-> d]]

(* required_agent: the client to ask, if there is one and a level is left.     *)
AgentFor(found) ==
  IF found.left > 0 /\ found.basis \in AgentNames THEN agents[found.basis] ELSE NoClient

(* History: what a client, not the null one, is told.                         *)
Tell(c, k, basis) == IF c \in Watched THEN [told EXCEPT ![c][k] = basis] ELSE told

(* replycheck, for the clients "to" that are sent "sent[c]" answers.           *)
Replied(sent) ==
  /\ owed' = [c \in Clients |-> owed[c] - sent[c]]
  /\ caching' = [c \in Clients |-> caching[c] \/ sent[c] > 0]

(* An answer at once: "yes" or "no" as the value found says, and for any other *)
(* value "no" to a check, "ack" to a test.                                    *)
FaultyAnswerNow(c, k, basis) ==
  /\ caching' = [caching EXCEPT ![c] = @ \/ basis = "yes"]
  /\ told' = Tell(c, k, basis)
  /\ UNCHANGED <<heap, checks, asks, owed>>

AnswerNow(c, k, basis) ==
  /\ caching' = [caching EXCEPT ![c] = TRUE]
  /\ told' = Tell(c, k, basis)
  /\ UNCHANGED <<heap, checks, asks, owed>>

(* An ask to the agent.                                                       *)
Ask(c, k, found, agent, nesting) ==
  \E s \in Cells :
    /\ heap[s] = Free
    /\ heap' = [heap EXCEPT ![s] =
         [client |-> c, key |-> k, basis |-> found.basis,
          decount |-> found.left, nesting |-> nesting]]
    /\ checks' = [checks EXCEPT ![c] = @ \cup {s}]
    /\ asks' = [asks EXCEPT ![agent] = @ \cup {s}]
    /\ owed' = [owed EXCEPT ![c] = @ + 1]
    /\ UNCHANGED <<caching, told>>

(* cyn_query_async for the client c.  Without memory for the query or the ask  *)
(* the value found is the answer, as if there were no agent.                  *)
Query(c, k, depth, nesting) ==
  LET found == Resolve[depth][k]
      agent == AgentFor(found)
      hops  == depth - found.left
  IN  \/ (agent = NoClient \/ hops = 0) /\ AnswerNow(c, k, found.basis)
      \/ agent # NoClient /\ Ask(c, k, found, agent, nesting + hops)

Unchanged == UNCHANGED <<connected, rules, agents>>

(* makecheck, through cyn_check_async or cyn_test_async (no level at all).     *)
Check(c, k) ==
  /\ c \in connected
  /\ Query(c, k, MaxDepth, 0)
  /\ Unchanged

Test(c, k) ==
  /\ c \in connected
  /\ AnswerNow(c, k, IF rules[k] \in Direct THEN rules[k] ELSE told[c][k])
  /\ Unchanged

(* No memory for the check, or a "sub" of an ask that is not owed: "no", not   *)
(* to be cached.                                                              *)
Refuse(c) ==
  /\ c \in connected
  /\ caching' = [caching EXCEPT ![c] = TRUE]
  /\ Unchanged /\ UNCHANGED <<heap, checks, asks, owed, told>>

(* makesub: a check in the context of an ask that the agent has not replied.   *)
FaultySubDepth(s) == heap[s].decount
SubDepth(s) == heap[s].decount - 1

Sub(a, s, k) ==
  /\ a \in connected
  /\ s \in asks[a]
  /\ Query(a, k, SubDepth(s), heap[s].nesting + 1)
  /\ Unchanged

--------------------------------------------------------------------------------
(* cyn_query_reply for the cells "done": each asker still there is answered,   *)
(* each cell is freed.                                                        *)
FaultyClosed(done) ==
  /\ heap' = [s \in Cells |-> IF s \in done THEN Free ELSE heap[s]]
  /\ UNCHANGED checks
  /\ Replied([c \in Clients |-> Cardinality(checks[c] \cap done)])

Closed(done) ==
  /\ heap' = [s \in Cells |-> IF s \in done THEN Free ELSE heap[s]]
  /\ checks' = [c \in Clients |-> checks[c] \ done]
  /\ Replied([c \in Clients |-> Cardinality(checks[c] \cap done)])

(* replycb.  An ask that the agent does not owe is ignored.                    *)
AgentReplies(a, s) ==
  /\ a \in connected
  /\ s \in asks[a]
  /\ Closed({s})
  /\ asks' = [asks EXCEPT ![a] = @ \ {s}]
  /\ LET p == heap[s]
     IN  told' = Tell(p.client, p.key, p.basis)
  /\ Unchanged

(* cyn_agent_add                                                               *)
AddAgent(a, n) ==
  /\ a \in connected \cap AgentClients
  /\ agents[n] = NoClient
  /\ agents' = [agents EXCEPT ![n] = a]
  /\ UNCHANGED <<connected, rules, heap, checks, asks, caching, owed, told>>

(* cyn_changed after a commit, or for a request clearall (the rules the same). *)
(* onchange sends "clear" to the clients that may cache.                      *)
onchange ==
  /\ caching' = [c \in Clients |-> FALSE]
  /\ told' = [c \in Clients |-> IF caching[c] THEN [k \in Keys |-> Nothing] ELSE told[c]]

Change(k, v) ==
  /\ rules' = [rules EXCEPT ![k] = v]
  /\ onchange
  /\ UNCHANGED <<connected, agents, heap, checks, asks, owed>>

Connect(c) ==
  /\ c \notin connected
  /\ connected' = connected \cup {c}
  /\ UNCHANGED <<rules, agents, heap, checks, asks, caching, owed, told>>

(* destroy_client: its checks are detached, then each ask it owes is answered  *)
(* "no" for it, not to be cached, then its agents are removed.                 *)
FaultyDetached(c) == heap
Detached(c) ==
  [s \in Cells |-> IF s \in checks[c] THEN [heap[s] EXCEPT !.client = NoClient]
                   ELSE heap[s]]

Unregistered(c) == [n \in AgentNames |-> IF agents[n] = c THEN NoClient ELSE agents[n]]

GivenUp(c) == asks[c]

Destroy(c) ==
  /\ c \in connected
  /\ connected' = connected \ {c}
  /\ heap' = [s \in Cells |-> IF s \in GivenUp(c) THEN Free ELSE Detached(c)[s]]
  /\ checks' = [d \in Clients |-> IF d = c THEN {} ELSE checks[d] \ GivenUp(c)]
  /\ asks' = [asks EXCEPT ![c] = {}]
  /\ owed' = [d \in Clients |-> IF d = c THEN 0
                                ELSE owed[d] - Cardinality(checks[d] \cap GivenUp(c))]
  /\ caching' = [d \in Clients |-> d # c /\ (caching[d] \/ checks[d] \cap GivenUp(c) # {})]
  /\ told' = [told EXCEPT ![c] = [k \in Keys |-> Nothing]]
  /\ agents' = Unregistered(c)
  /\ UNCHANGED rules

Next ==
  \/ \E c \in Clients : Connect(c) \/ Destroy(c) \/ Refuse(c)
  \/ \E c \in Clients, k \in Keys : Check(c, k) \/ Test(c, k)
  \/ \E a \in AgentClients, s \in Cells : AgentReplies(a, s)
  \/ \E a \in AgentClients, s \in Cells, k \in Keys : Sub(a, s, k)
  \/ \E a \in AgentClients, n \in AgentNames : AddAgent(a, n)
  \/ \E k \in Keys, v \in RuleValues : Change(k, v)

Spec == Init /\ [][Next]_vars

--------------------------------------------------------------------------------
(* The state is well formed.                                                   *)
TypeOK ==
  /\ connected \subseteq Clients
  /\ rules \in [Keys -> RuleValues]
  /\ agents \in [AgentNames -> Clients \cup {NoClient}]
  /\ heap \in [Cells -> Pending \cup {Free}]
  /\ checks \in [Clients -> SUBSET Cells] /\ asks \in [Clients -> SUBSET Cells]
  /\ caching \in [Clients -> BOOLEAN]
  /\ owed \in [Clients -> Int]

(* The lists and the blocks agree, over three owners that come and go in any   *)
(* order (the asker, the agent, the agent's registration): a check lives       *)
(* exactly while one agent, connected, owes its reply; it points back to the   *)
(* client in whose list it is; a client that is gone has nothing left in it.   *)
InUse == {s \in Cells : heap[s] # Free}
EachOwedOnce ==
  /\ InUse = UNION {asks[a] : a \in connected}
  /\ \A a, b \in Clients : a # b => asks[a] \cap asks[b] = {}
PointsBack == \A c \in Clients : checks[c] = {s \in InUse : heap[s].client = c}
NothingOfTheGone ==
  /\ \A c \in Clients \ connected : asks[c] = {} /\ checks[c] = {} /\ ~caching[c]
  /\ \A n \in AgentNames : agents[n] \in connected \cup {NoClient}

NoDanglingCheck == TypeOK /\ EachOwedOnce /\ PointsBack /\ NothingOfTheGone

(* Each check gets one answer, not two and not none: what a client is still    *)
(* owed is what it waits for (cyn.h: the callback will always be called either *)
(* before the function returns or else later).                                *)
AnsweredOnce == \A c \in connected : owed[c] = Cardinality(checks[c])

(* A client that caches what it was told by a rule that says yes or no never   *)
(* keeps it past a change of the rule: it is always sent a "clear" that makes  *)
(* it forget, tests and redirections by "@" included (replycheck, onchange).   *)
Current(k) == Resolve[MaxDepth][k].basis
CachedDirectIsCurrent ==
  \A c \in connected, k \in Keys : told[c][k] \in Direct => told[c][k] = Current(k)

(* A client that heard no "clear" holds answers that the current rules give,   *)
(* as protocol.md says of CACHEID.                                            *)
CachedIsCurrent ==
  \A c \in connected, k \in Keys : told[c][k] # Nothing => told[c][k] = Current(k)

(* Agents that ask and redirect each other do not do it for ever: no check is  *)
(* nested in as many others as there are levels (cyn_query_async, decount).    *)
NestingIsBounded == \A s \in InUse : heap[s].nesting < MaxDepth

================================================================================
