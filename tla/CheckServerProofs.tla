---------------------------- MODULE CheckServerProofs ----------------------------
(*******************************************************************************)
(* Proofs about modules CheckServer and Launcher, for any clients, keys,       *)
(* redirections, agents, places for checks, depth and table of the launcher.   *)
(*                                                                             *)
(* Of the server: a check is in the list of its client and, when an agent has  *)
(* it, in the list of that agent's asks; IInv adds to this the count of what   *)
(* is owed, the levels a search of the rules has left (Resolve, level by       *)
(* level) and that the flag caching is up for whoever was told a yes or no.    *)
(*                                                                             *)
(* Of the launcher: it is one of the agents of the server (LauncherIsAnAgent), *)
(* so that all of this stays true with it.  LInv says where each ask and each  *)
(* sub-query is, on one of the two streams or in one of the tables, and in no  *)
(* other place; the order of the streams then makes replies come once, and the *)
(* answer of a sub-query find the program that asked it.                       *)
(*******************************************************************************)
EXTENDS Launcher, Lemmas

--------------------------------------------------------------------------------
Found == [basis : RuleValues, left : 0 .. MaxDepth]

(* The chain of redirections, one level at a time (agent_at_cb).               *)
LEMMA ResolveIs ==
  ASSUME rules \in [Keys -> RuleValues], NEW d \in 0 .. MaxDepth, NEW k \in Keys
  PROVE  /\ rules[k] = "@" /\ d > 0 => /\ d - 1 \in 0 .. MaxDepth
                                       /\ Resolve[d][k] = Resolve[d - 1][AtKey[k]]
         /\ ~(rules[k] = "@" /\ d > 0) => Resolve[d][k] = [basis |-> rules[k], left |-> d]
<1> DEFINE End(i) == [j \in Keys |-> [basis |-> rules[j], left |-> i]]
           Next1(i, g) == [j \in Keys |-> IF rules[j] = "@" THEN g[AtKey[j]]
                                          ELSE [basis |-> rules[j], left |-> i]]
           D == [Keys -> Found]
           step == [i \in 1 .. MaxDepth |-> [g \in D |-> Next1(i, g)]]
           Body(f) == [i \in 0 .. MaxDepth |->
                         [j \in Keys |-> IF rules[j] = "@" /\ i > 0 THEN f[i - 1][AtKey[j]]
                                         ELSE [basis |-> rules[j], left |-> i]]]
<1>1. MaxDepth \in Nat
  BY MaxDepthAssumption
<1>2. \A i \in 0 .. MaxDepth : End(i) \in D
  BY DEF Found
<1>3. step \in [1 .. MaxDepth -> [D -> D]]
  <2> SUFFICES ASSUME NEW i \in 1 .. MaxDepth, NEW g \in D
               PROVE  Next1(i, g) \in D
    OBVIOUS
  <2> QED BY <1>1, AtKeyAssumption DEF Found
<1>4. PICK f : Recursive(f, MaxDepth, D, End(0), step)
  <2> DEFINE base == End(0)
  <2>1. base \in D
    BY <1>1, <1>2
  <2> HIDE DEF D, step, base
  <2>2. \E f : Recursive(f, MaxDepth, D, base, step)
    BY <1>1, <1>3, <2>1, Recursion
  <2> QED BY <2>2 DEF base
<1>4a. /\ f \in [0 .. MaxDepth -> D]
       /\ f[0] = End(0)
       /\ \A n \in 1 .. MaxDepth : f[n] = step[n][f[n - 1]]
  BY <1>4 DEF Recursive
<1>5. f = Body(f)
  <2> SUFFICES ASSUME NEW i \in 0 .. MaxDepth
               PROVE  f[i] = Body(f)[i]
    BY <1>4a
  <2>1. CASE i = 0
    BY <1>4a, <2>1
  <2>2. CASE i # 0
    <3>1. i \in 1 .. MaxDepth /\ i - 1 \in 0 .. MaxDepth /\ i > 0
      BY <1>1, <2>2
    <3>2. f[i - 1] \in D
      BY <1>4a, <3>1
    <3>3. f[i] = Next1(i, f[i - 1])
      BY <1>4a, <3>1, <3>2
    <3> QED BY <3>1, <3>3
  <2> QED BY <2>1, <2>2
<1>6. Resolve = Body(Resolve)
  <2>1. \E g : g = Body(g)
    BY <1>5
  <2>2. Resolve = CHOOSE g : g = Body(g)
    BY DEF Resolve
  <2> HIDE DEF Body
  <2> QED BY <2>1, <2>2
<1>7. Resolve[d][k] = IF rules[k] = "@" /\ d > 0 THEN Resolve[d - 1][AtKey[k]]
                      ELSE [basis |-> rules[k], left |-> d]
  <2>1. Body(Resolve)[d][k] = IF rules[k] = "@" /\ d > 0 THEN Resolve[d - 1][AtKey[k]]
                              ELSE [basis |-> rules[k], left |-> d]
    OBVIOUS
  <2> HIDE DEF Body
  <2> QED BY <1>6, <2>1
<1> QED BY <1>1, <1>7

(* A search ends in a value of a rule, with no more levels than it had.        *)
LEMMA FoundFacts ==
  ASSUME rules \in [Keys -> RuleValues], NEW d \in 0 .. MaxDepth, NEW k \in Keys
  PROVE  Resolve[d][k] \in [basis : RuleValues, left : 0 .. d]
<1> DEFINE S == {i \in Nat : i <= MaxDepth =>
                   \A j \in Keys : Resolve[i][j] \in [basis : RuleValues, left : 0 .. i]}
<1>1. MaxDepth \in Nat
  BY MaxDepthAssumption
<1>2. 0 \in S
  <2> SUFFICES ASSUME NEW j \in Keys
               PROVE  Resolve[0][j] \in [basis : RuleValues, left : 0 .. 0]
    OBVIOUS
  <2>1. Resolve[0][j] = [basis |-> rules[j], left |-> 0]
    BY <1>1, ResolveIs
  <2> QED BY <2>1
<1>3. ASSUME NEW i \in Nat, i \in S
      PROVE  i + 1 \in S
  <2> SUFFICES ASSUME i + 1 <= MaxDepth, NEW j \in Keys
               PROVE  Resolve[i + 1][j] \in [basis : RuleValues, left : 0 .. i + 1]
    OBVIOUS
  <2>1. i + 1 \in 0 .. MaxDepth /\ i + 1 > 0 /\ (i + 1) - 1 = i /\ i <= MaxDepth
    BY <1>1
  <2>2. CASE rules[j] = "@"
    <3>1. Resolve[i + 1][j] = Resolve[i][AtKey[j]]
      <4>1. Resolve[i + 1][j] = Resolve[(i + 1) - 1][AtKey[j]]
        BY <2>1, <2>2, ResolveIs
      <4> QED BY <2>1, <4>1
    <3>2. AtKey[j] \in Keys
      BY AtKeyAssumption
    <3>3. Resolve[i][AtKey[j]] \in [basis : RuleValues, left : 0 .. i]
      BY <1>3, <2>1, <3>2
    <3> QED BY <3>1, <3>3
  <2>3. CASE rules[j] # "@"
    <3>1. Resolve[i + 1][j] = [basis |-> rules[j], left |-> i + 1]
      BY <2>1, <2>3, ResolveIs
    <3> QED BY <3>1
  <2> QED BY <2>2, <2>3
<1>4. \A i \in Nat : i \in S
  <2> HIDE DEF S
  <2> QED BY <1>2, <1>3, SetInduction
<1> QED BY <1>1, <1>4

(* With more levels a search that ended before the last redirection ends in    *)
(* the same value.                                                             *)
LEMMA DeeperFindsTheSame ==
  ASSUME rules \in [Keys -> RuleValues], NEW d \in 0 .. MaxDepth, NEW k \in Keys,
         Resolve[d][k].basis # "@"
  PROVE  Resolve[d][k].basis = Current(k)
<1> DEFINE Same(i) == \A j \in Keys, e \in i .. MaxDepth :
                        Resolve[i][j].basis # "@" => Resolve[e][j].basis = Resolve[i][j].basis
           S == {i \in Nat : i <= MaxDepth => Same(i)}
<1>1. MaxDepth \in Nat
  BY MaxDepthAssumption
<1>2. 0 \in S
  <2> SUFFICES ASSUME NEW j \in Keys, NEW e \in 0 .. MaxDepth, Resolve[0][j].basis # "@"
               PROVE  Resolve[e][j].basis = Resolve[0][j].basis
    OBVIOUS
  <2>1. Resolve[0][j] = [basis |-> rules[j], left |-> 0]
    BY <1>1, ResolveIs
  <2>2. Resolve[e][j] = [basis |-> rules[j], left |-> e]
    BY <2>1, ResolveIs
  <2> QED BY <2>1, <2>2
<1>3. ASSUME NEW i \in Nat, i \in S
      PROVE  i + 1 \in S
  <2> SUFFICES ASSUME i + 1 <= MaxDepth, NEW j \in Keys, NEW e \in i + 1 .. MaxDepth,
                      Resolve[i + 1][j].basis # "@"
               PROVE  Resolve[e][j].basis = Resolve[i + 1][j].basis
    OBVIOUS
  <2>1. /\ i + 1 \in 0 .. MaxDepth /\ i + 1 > 0 /\ (i + 1) - 1 = i /\ i <= MaxDepth
        /\ e \in 0 .. MaxDepth /\ e > 0 /\ e - 1 \in i .. MaxDepth
    BY <1>1
  <2>2. CASE rules[j] = "@"
    <3>1. Resolve[i + 1][j] = Resolve[i][AtKey[j]] /\ Resolve[e][j] = Resolve[e - 1][AtKey[j]]
      <4>1. Resolve[i + 1][j] = Resolve[(i + 1) - 1][AtKey[j]]
        BY <2>1, <2>2, ResolveIs
      <4>2. Resolve[e][j] = Resolve[e - 1][AtKey[j]]
        BY <2>1, <2>2, ResolveIs
      <4> QED BY <2>1, <4>1, <4>2
    <3>2. AtKey[j] \in Keys
      BY AtKeyAssumption
    <3>3. Same(i)
      BY <1>3, <2>1
    <3> HIDE DEF S
    <3> QED BY <2>1, <3>1, <3>2, <3>3
  <2>3. CASE rules[j] # "@"
    <3>1. /\ Resolve[i + 1][j] = [basis |-> rules[j], left |-> i + 1]
          /\ Resolve[e][j] = [basis |-> rules[j], left |-> e]
      BY <2>1, <2>3, ResolveIs
    <3> QED BY <3>1
  <2> QED BY <2>2, <2>3
<1>4. \A i \in Nat : i \in S
  <2> HIDE DEF S
  <2> QED BY <1>2, <1>3, SetInduction
<1>5. Same(d) /\ MaxDepth \in d .. MaxDepth
  BY <1>1, <1>4
<1> HIDE DEF S
<1> QED BY <1>5 DEF Current

--------------------------------------------------------------------------------
(* What makes the invariants inductive: also of a client that is gone, the     *)
(* answers owed are the checks in its list; a check and what it is nested in   *)
(* have used no more levels than there are; and who was told a value of a rule *)
(* is still to be sent a "clear".                                              *)
OwedIsListed ==
  \A c \in Clients : IsFiniteSet(checks[c]) /\ owed[c] = Cardinality(checks[c])
LevelsUsed == \A s \in InUse : heap[s].nesting + heap[s].decount <= MaxDepth
WillBeCleared ==
  /\ told \in [Clients -> [Keys -> RuleValues \cup {Nothing}]]
  /\ \A c \in Clients, k \in Keys :
       told[c][k] \in Direct => caching[c] /\ told[c][k] = Current(k)

IInv == NoDanglingCheck /\ OwedIsListed /\ LevelsUsed /\ WillBeCleared

(* Some values of rules are no names of agents.                                *)
LEMMA ValueFacts ==
  /\ Nothing \notin Direct /\ "@" \notin Direct
  /\ Direct \subseteq RuleValues /\ AgentNames \subseteq RuleValues
  /\ \A n \in AgentNames : n \notin Direct /\ n # "@"
  BY AgentNamesAssumption DEF Nothing, Direct, RuleValues

(* The invariant holds at first: nothing is pending.                           *)
LEMMA InvInit == Init => IInv
<1> SUFFICES ASSUME Init
             PROVE  IInv
  OBVIOUS
<1>1. TypeOK
  BY DEF Init, TypeOK, RuleValues, Direct
<1>2. InUse = {}
  BY DEF Init, InUse
<1>3. EachOwedOnce /\ PointsBack /\ NothingOfTheGone
  BY <1>2 DEF Init, EachOwedOnce, PointsBack, NothingOfTheGone
<1>4. OwedIsListed
  BY FS_EmptySet DEF Init, OwedIsListed
<1>5. LevelsUsed /\ WillBeCleared
  BY <1>2, ValueFacts DEF Init, LevelsUsed, WillBeCleared
<1> QED BY <1>1, <1>3, <1>4, <1>5 DEF IInv, NoDanglingCheck

(* What is current depends on the rules only.                                  *)
LEMMA CurrentStays == ASSUME rules' = rules PROVE \A k \in Keys : Current(k)' = Current(k)
  BY DEF Current, Resolve

(* Telling a client, that may cache from then on, what its question finds.     *)
LEMMA TellKeeps ==
  ASSUME WillBeCleared, rules' = rules, NEW c, NEW k \in Keys,
         NEW basis \in RuleValues \cup {Nothing}, told' = Tell(c, k, basis),
         basis \in Direct => basis = Current(k) /\ (c \in Clients => caching'[c]),
         \A d \in Clients : caching[d] => caching'[d]
  PROVE  WillBeCleared'
<1>1. \A j \in Keys : Current(j)' = Current(j)
  BY CurrentStays
<1>2. \A d \in Clients, j \in Keys :
        told'[d][j] = IF d = c /\ j = k /\ c \in Watched THEN basis ELSE told[d][j]
  BY DEF WillBeCleared, Tell
<1>3. told' \in [Clients -> [Keys -> RuleValues \cup {Nothing}]]
  BY DEF WillBeCleared, Tell
<1>4. ASSUME NEW d \in Clients, NEW j \in Keys, told'[d][j] \in Direct
      PROVE  caching'[d] /\ told'[d][j] = Current(j)'
  <2>1. CASE d = c /\ j = k /\ c \in Watched
    BY <1>1, <1>2, <1>4, <2>1
  <2>2. CASE ~(d = c /\ j = k /\ c \in Watched)
    BY <1>1, <1>2, <1>4, <2>2 DEF WillBeCleared
  <2> QED BY <2>1, <2>2
<1> QED BY <1>3, <1>4 DEF WillBeCleared

(* An answer at once (cyn_query_async, replycheck).                            *)
LEMMA AnswerKeeps ==
  ASSUME IInv, NEW c \in connected, NEW k \in Keys,
         NEW basis \in RuleValues \cup {Nothing},
         basis \in Direct => basis = Current(k),
         AnswerNow(c, k, basis), Unchanged
  PROVE  IInv'
<1>1. /\ caching' = [caching EXCEPT ![c] = TRUE] /\ told' = Tell(c, k, basis)
      /\ heap' = heap /\ checks' = checks /\ asks' = asks /\ owed' = owed
      /\ connected' = connected /\ rules' = rules /\ agents' = agents
  BY DEF AnswerNow, Unchanged
<1>2. TypeOK /\ c \in Clients
  BY DEF IInv, NoDanglingCheck, TypeOK
<1>3. caching' \in [Clients -> BOOLEAN] /\ caching'[c] = TRUE
      /\ \A d \in Clients : d # c => caching'[d] = caching[d]
  BY <1>1, <1>2 DEF TypeOK
<1>4. TypeOK'
  BY <1>1, <1>2, <1>3 DEF TypeOK
<1>5. InUse' = InUse
  BY <1>1 DEF InUse
<1>6. EachOwedOnce' /\ PointsBack'
  BY <1>1, <1>5 DEF IInv, NoDanglingCheck, EachOwedOnce, PointsBack
<1>7. NothingOfTheGone'
  BY <1>1, <1>3 DEF IInv, NoDanglingCheck, NothingOfTheGone
<1>8. OwedIsListed' /\ LevelsUsed'
  BY <1>1, <1>5 DEF IInv, OwedIsListed, LevelsUsed
<1>9. WillBeCleared'
  BY <1>1, <1>3, TellKeeps DEF IInv
<1> QED BY <1>4, <1>6, <1>7, <1>8, <1>9 DEF IInv, NoDanglingCheck

(* An ask to an agent that is there (cyn_query_async, agentcb).                *)
LEMMA AskKeeps ==
  ASSUME IInv, NEW c \in connected, NEW k \in Keys, NEW found \in Found,
         found.left > 0, found.basis \in AgentNames, NEW agent \in connected,
         NEW nesting \in Nat, nesting + found.left <= MaxDepth,
         Ask(c, k, found, agent, nesting), Unchanged
  PROVE  IInv'
<1> DEFINE new == [client |-> c, key |-> k, basis |-> found.basis,
                   decount |-> found.left, nesting |-> nesting]
<1>1. PICK s \in Cells :
        /\ heap[s] = Free
        /\ heap' = [heap EXCEPT ![s] = new]
        /\ checks' = [checks EXCEPT ![c] = @ \cup {s}]
        /\ asks' = [asks EXCEPT ![agent] = @ \cup {s}]
        /\ owed' = [owed EXCEPT ![c] = @ + 1]
        /\ caching' = caching /\ told' = told
  BY DEF Ask
<1>2. connected' = connected /\ rules' = rules /\ agents' = agents
  BY DEF Unchanged
<1>3. /\ TypeOK /\ EachOwedOnce /\ PointsBack /\ NothingOfTheGone
      /\ OwedIsListed /\ LevelsUsed /\ WillBeCleared
      /\ c \in Clients /\ agent \in Clients
  BY DEF IInv, NoDanglingCheck, TypeOK
<1>4. new \in Pending /\ new # Free
  BY <1>3, MaxDepthAssumption, FreeAssumption DEF Pending, Found
<1> HIDE DEF new
<1>5. /\ heap'[s] = new
      /\ \A t \in Cells : t # s => heap'[t] = heap[t]
      /\ \A d \in Clients : checks'[d] = IF d = c THEN checks[d] \cup {s} ELSE checks[d]
      /\ \A d \in Clients : asks'[d] = IF d = agent THEN asks[d] \cup {s} ELSE asks[d]
      /\ \A d \in Clients : owed'[d] = IF d = c THEN owed[d] + 1 ELSE owed[d]
  <2>1. /\ heap'[s] = new
        /\ \A t \in Cells : t # s => heap'[t] = heap[t]
    BY <1>1, <1>3 DEF TypeOK
  <2>2. \A d \in Clients : checks'[d] = IF d = c THEN checks[d] \cup {s} ELSE checks[d]
    BY <1>1, <1>3 DEF TypeOK
  <2>3. \A d \in Clients : asks'[d] = IF d = agent THEN asks[d] \cup {s} ELSE asks[d]
    BY <1>1, <1>3 DEF TypeOK
  <2>4. \A d \in Clients : owed'[d] = IF d = c THEN owed[d] + 1 ELSE owed[d]
    BY <1>1, <1>3 DEF TypeOK
  <2> QED BY <2>1, <2>2, <2>3, <2>4
<1>6. InUse' = InUse \cup {s} /\ s \notin InUse
  BY <1>1, <1>4, <1>5 DEF InUse
<1>7. \A d \in Clients : s \notin checks[d] /\ s \notin asks[d]
  BY <1>3, <1>6 DEF EachOwedOnce, PointsBack, NothingOfTheGone
<1>8. TypeOK'
  BY <1>1, <1>2, <1>3, <1>4, <1>5 DEF TypeOK
<1>9. EachOwedOnce'
  <2>1. InUse' = UNION {asks'[a] : a \in connected'}
    <3>1. \A t : t \in InUse <=> \E a \in connected : t \in asks[a]
      BY <1>3 DEF EachOwedOnce
    <3>2. connected \subseteq Clients
      BY <1>3 DEF TypeOK
    <3>3. \A t : t \in InUse' <=> \E a \in connected : t \in asks'[a]
      BY <1>5, <1>6, <3>1, <3>2
    <3> QED BY <1>2, <3>3
  <2>2. \A a, b \in Clients : a # b => asks'[a] \cap asks'[b] = {}
    BY <1>3, <1>5, <1>7 DEF EachOwedOnce
  <2> QED BY <2>1, <2>2 DEF EachOwedOnce
<1>10. PointsBack'
  <2> SUFFICES ASSUME NEW d \in Clients
               PROVE  checks'[d] = {t \in InUse' : heap'[t].client = d}
    BY DEF PointsBack
  <2>1. new.client = c
    BY DEF new
  <2>2. checks[d] = {t \in InUse : heap[t].client = d} /\ InUse \subseteq Cells
    BY <1>3 DEF PointsBack, InUse
  <2>3. \A t \in InUse : t # s /\ heap'[t] = heap[t]
    BY <1>5, <1>6, <2>2
  <2>4. checks'[d] = IF d = c THEN checks[d] \cup {s} ELSE checks[d]
    BY <1>5
  <2>5. heap'[s].client = c
    BY <1>5, <2>1
  <2> QED BY <1>6, <2>2, <2>3, <2>4, <2>5
<1>11. NothingOfTheGone'
  BY <1>1, <1>2, <1>3, <1>5 DEF NothingOfTheGone
<1>12. OwedIsListed'
  <2>1. Cardinality(checks[c] \cup {s}) = Cardinality(checks[c]) + 1
        /\ IsFiniteSet(checks[c] \cup {s})
    BY <1>3, <1>7, FS_AddElement DEF OwedIsListed
  <2> QED BY <1>3, <1>5, <2>1 DEF OwedIsListed
<1>13. LevelsUsed'
  <2>1. new.nesting = nesting /\ new.decount = found.left
    BY DEF new
  <2>2. InUse \subseteq Cells
    BY DEF InUse
  <2> QED BY <1>3, <1>5, <1>6, <2>1, <2>2 DEF LevelsUsed
<1>14. WillBeCleared'
  BY <1>1, <1>2, <1>3, CurrentStays DEF WillBeCleared
<1> QED
  BY <1>8, <1>9, <1>10, <1>11, <1>12, <1>13, <1>14 DEF IInv, NoDanglingCheck

(* A question in a context where d levels are left (cyn_query_async).          *)
LEMMA QueryKeeps ==
  ASSUME IInv, NEW c \in connected, NEW k \in Keys, NEW d \in 0 .. MaxDepth,
         NEW nesting \in Nat, nesting + d <= MaxDepth,
         Query(c, k, d, nesting), Unchanged
  PROVE  IInv'
<1> DEFINE found == Resolve[d][k]
           agent == AgentFor(found)
           hops  == d - found.left
<1>1. TypeOK /\ NothingOfTheGone
  BY DEF IInv, NoDanglingCheck
<1>2. found \in [basis : RuleValues, left : 0 .. d] /\ found \in Found
  <2>1. found \in [basis : RuleValues, left : 0 .. d]
    BY <1>1, FoundFacts DEF TypeOK
  <2> QED BY <2>1, MaxDepthAssumption DEF Found
<1>3. CASE AnswerNow(c, k, found.basis)
  <2>1. found.basis \in Direct => found.basis = Current(k)
    BY <1>1, DeeperFindsTheSame, ValueFacts DEF TypeOK
  <2>2. found.basis \in RuleValues \cup {Nothing}
    BY <1>2
  <2> QED BY <1>3, <2>1, <2>2, AnswerKeeps
<1>4. CASE agent # NoClient /\ Ask(c, k, found, agent, nesting + hops)
  <2>1. found.left > 0 /\ found.basis \in AgentNames /\ agent = agents[found.basis]
    BY <1>4 DEF AgentFor
  <2>2. agent \in connected
    BY <1>1, <1>4, <2>1 DEF NothingOfTheGone
  <2>3. nesting + hops \in Nat /\ (nesting + hops) + found.left <= MaxDepth
    BY <1>2, MaxDepthAssumption
  <2> HIDE DEF found, agent, hops
  <2> QED BY <1>2, <1>4, <2>1, <2>2, <2>3, AskKeeps
<1> QED BY <1>3, <1>4 DEF Query

(* A refusal: the client may cache it, so it may be sent a "clear" for nothing.*)
LEMMA RefuseKeeps == ASSUME IInv, NEW c \in Clients, Refuse(c) PROVE IInv'
<1>1. /\ caching' = [caching EXCEPT ![c] = TRUE] /\ c \in connected
      /\ UNCHANGED <<connected, rules, agents, heap, checks, asks, owed, told>>
  BY DEF Refuse, Unchanged
<1>2. /\ TypeOK /\ EachOwedOnce /\ PointsBack /\ NothingOfTheGone
      /\ OwedIsListed /\ LevelsUsed /\ WillBeCleared
  BY DEF IInv, NoDanglingCheck
<1>3. /\ caching' \in [Clients -> BOOLEAN] /\ caching'[c] = TRUE
      /\ \A d \in Clients : d # c => caching'[d] = caching[d]
  BY <1>1, <1>2 DEF TypeOK
<1>4. TypeOK' /\ NothingOfTheGone'
  BY <1>1, <1>2, <1>3 DEF TypeOK, NothingOfTheGone
<1>5. InUse' = InUse
  BY <1>1 DEF InUse
<1>6. EachOwedOnce' /\ PointsBack' /\ OwedIsListed' /\ LevelsUsed'
  BY <1>1, <1>2, <1>5 DEF EachOwedOnce, PointsBack, OwedIsListed, LevelsUsed
<1>7. WillBeCleared'
  BY <1>1, <1>2, <1>3, CurrentStays DEF WillBeCleared
<1> QED BY <1>4, <1>6, <1>7 DEF IInv, NoDanglingCheck

(* A test of a key: no level, hence no agent (cyn_test_async).                 *)
LEMMA TestKeeps == ASSUME IInv, NEW c \in Clients, NEW k \in Keys, Test(c, k) PROVE IInv'
<1> DEFINE basis == IF rules[k] \in Direct THEN rules[k] ELSE told[c][k]
<1>1. c \in connected /\ AnswerNow(c, k, basis) /\ Unchanged
  BY DEF Test
<1>2. TypeOK /\ WillBeCleared
  BY DEF IInv, NoDanglingCheck
<1>3. basis \in RuleValues \cup {Nothing}
  BY <1>2 DEF TypeOK, WillBeCleared
<1>4. ASSUME basis \in Direct
      PROVE  basis = Current(k)
  <2>1. CASE rules[k] \in Direct
    <3>1. rules[k] # "@" /\ MaxDepth \in 0 .. MaxDepth
      BY <2>1, ValueFacts, MaxDepthAssumption
    <3>2. Resolve[MaxDepth][k] = [basis |-> rules[k], left |-> MaxDepth]
      BY <1>2, <3>1, ResolveIs DEF TypeOK
    <3> QED BY <2>1, <3>2 DEF Current
  <2>2. CASE rules[k] \notin Direct
    BY <1>2, <1>4, <2>2 DEF WillBeCleared
  <2> QED BY <2>1, <2>2
<1> HIDE DEF basis
<1> QED BY <1>1, <1>3, <1>4, AnswerKeeps

(* A sub-query has one level less than the check it is made for (makesub).     *)
LEMMA SubKeeps ==
  ASSUME IInv, NEW a \in Clients, NEW s \in Cells, NEW k \in Keys, Sub(a, s, k)
  PROVE  IInv'
<1>1. a \in connected /\ s \in asks[a] /\ Query(a, k, SubDepth(s), heap[s].nesting + 1)
      /\ Unchanged
  BY DEF Sub
<1>2. TypeOK /\ EachOwedOnce /\ LevelsUsed
  BY DEF IInv, NoDanglingCheck
<1>3. s \in InUse /\ heap[s] \in Pending
  BY <1>1, <1>2 DEF EachOwedOnce, TypeOK, InUse
<1>4. /\ SubDepth(s) \in 0 .. MaxDepth /\ heap[s].nesting + 1 \in Nat
      /\ (heap[s].nesting + 1) + SubDepth(s) <= MaxDepth
  BY <1>2, <1>3, MaxDepthAssumption DEF SubDepth, Pending, LevelsUsed
<1> QED BY <1>1, <1>4, QueryKeeps

(* A question in no context has all the levels (makecheck).                    *)
LEMMA CheckKeeps == ASSUME IInv, NEW c \in Clients, NEW k \in Keys, Check(c, k) PROVE IInv'
  BY MaxDepthAssumption, QueryKeeps DEF Check

(* A registration, a new connection (cyn_agent_add, on_client_request).        *)
LEMMA ArrivalKeeps ==
  ASSUME IInv,
         \/ \E a \in AgentClients, n \in AgentNames : AddAgent(a, n)
         \/ \E c \in Clients : Connect(c)
  PROVE  IInv'
<1>1. /\ TypeOK /\ EachOwedOnce /\ PointsBack /\ NothingOfTheGone
      /\ OwedIsListed /\ LevelsUsed /\ WillBeCleared
  BY DEF IInv, NoDanglingCheck
<1>2. UNCHANGED <<rules, heap, checks, asks, caching, owed, told>>
  BY DEF AddAgent, Connect
<1>3. connected \subseteq connected' /\ connected' \subseteq Clients
      /\ agents' \in [AgentNames -> connected \cup {NoClient}]
  BY <1>1, ClientsAssumption DEF AddAgent, Connect, TypeOK, NothingOfTheGone
<1>4. TypeOK'
  BY <1>1, <1>2, <1>3 DEF TypeOK
<1>5. InUse' = InUse
  BY <1>2 DEF InUse
<1>6. NothingOfTheGone'
  BY <1>1, <1>2, <1>3 DEF NothingOfTheGone
<1>7. EachOwedOnce'
  <2>1. \A a \in connected' \ connected : asks[a] = {}
    BY <1>1, <1>3 DEF NothingOfTheGone
  <2> QED BY <1>1, <1>2, <1>3, <1>5, <2>1 DEF EachOwedOnce
<1>8. PointsBack' /\ OwedIsListed' /\ LevelsUsed'
  BY <1>1, <1>2, <1>5 DEF PointsBack, OwedIsListed, LevelsUsed
<1>9. WillBeCleared'
  BY <1>1, <1>2, CurrentStays DEF WillBeCleared
<1> QED BY <1>4, <1>6, <1>7, <1>8, <1>9 DEF IInv, NoDanglingCheck

(* A change: who may cache is cleared, and nobody else was told a value that a *)
(* rule gives (onchange).                                                      *)
LEMMA ChangeKeeps ==
  ASSUME IInv, NEW k \in Keys, NEW v \in RuleValues, Change(k, v)
  PROVE  IInv'
<1>1. /\ rules' = [rules EXCEPT ![k] = v]
      /\ caching' = [c \in Clients |-> FALSE]
      /\ told' = [c \in Clients |-> IF caching[c] THEN [j \in Keys |-> Nothing] ELSE told[c]]
      /\ UNCHANGED <<connected, agents, heap, checks, asks, owed>>
  BY DEF Change, onchange
<1>2. /\ TypeOK /\ EachOwedOnce /\ PointsBack /\ NothingOfTheGone
      /\ OwedIsListed /\ LevelsUsed /\ WillBeCleared
  BY DEF IInv, NoDanglingCheck
<1>3. TypeOK'
  BY <1>1, <1>2 DEF TypeOK
<1>4. InUse' = InUse
  BY <1>1 DEF InUse
<1>5. EachOwedOnce' /\ PointsBack' /\ NothingOfTheGone' /\ OwedIsListed' /\ LevelsUsed'
  BY <1>1, <1>2, <1>4
     DEF EachOwedOnce, PointsBack, NothingOfTheGone, OwedIsListed, LevelsUsed
<1>6. WillBeCleared'
  <2>1. told' \in [Clients -> [Keys -> RuleValues \cup {Nothing}]]
    BY <1>1, <1>2 DEF WillBeCleared
  <2>2. \A c \in Clients, j \in Keys : told'[c][j] \notin Direct
    BY <1>1, <1>2, ValueFacts DEF WillBeCleared
  <2> QED BY <2>1, <2>2 DEF WillBeCleared
<1> QED BY <1>3, <1>5, <1>6 DEF IInv, NoDanglingCheck

(* Taking some of the elements out of a finite set.                            *)
LEMMA FewerOwed ==
  ASSUME NEW S, NEW T, IsFiniteSet(S)
  PROVE  /\ IsFiniteSet(S \ T)
         /\ Cardinality(S \ T) = Cardinality(S) - Cardinality(S \cap T)
  BY FS_Difference

(* The reply of an agent: the check is answered once and everywhere forgotten  *)
(* (replycb, cyn_query_reply).                                                 *)
LEMMA ReplyKeeps ==
  ASSUME IInv, NEW a \in Clients, NEW s \in Cells, AgentReplies(a, s)
  PROVE  IInv'
<1>1. /\ a \in connected /\ s \in asks[a]
      /\ heap' = [t \in Cells |-> IF t \in {s} THEN Free ELSE heap[t]]
      /\ checks' = [c \in Clients |-> checks[c] \ {s}]
      /\ owed' = [c \in Clients |-> owed[c] - Cardinality(checks[c] \cap {s})]
      /\ caching' = [c \in Clients |-> caching[c] \/ Cardinality(checks[c] \cap {s}) > 0]
      /\ asks' = [asks EXCEPT ![a] = @ \ {s}]
      /\ told' = Tell(heap[s].client, heap[s].key, heap[s].basis)
      /\ connected' = connected /\ rules' = rules /\ agents' = agents
  BY DEF AgentReplies, Closed, Replied, Unchanged
<1>2. /\ TypeOK /\ EachOwedOnce /\ PointsBack /\ NothingOfTheGone
      /\ OwedIsListed /\ LevelsUsed /\ WillBeCleared
  BY DEF IInv, NoDanglingCheck
<1>3. /\ heap' \in [Cells -> Pending \cup {Free}] /\ heap'[s] = Free
      /\ \A t \in Cells : t # s => heap'[t] = heap[t]
  BY <1>1, <1>2 DEF TypeOK
<1>4. InUse' = InUse \ {s} /\ s \in InUse
  <2>1. s \in InUse
    BY <1>1, <1>2 DEF EachOwedOnce
  <2> QED BY <1>3, <2>1 DEF InUse
<1>5. \A d \in Clients : asks'[d] = IF d = a THEN asks[d] \ {s} ELSE asks[d]
  BY <1>1, <1>2 DEF TypeOK
<1>6. \A d \in Clients : asks'[d] = asks[d] \ {s}
  BY <1>1, <1>2, <1>5 DEF EachOwedOnce
<1>7. asks' \in [Clients -> SUBSET Cells]
  BY <1>1, <1>2 DEF TypeOK
<1>8. \A d \in Clients : /\ IsFiniteSet(checks'[d])
                         /\ owed'[d] = Cardinality(checks'[d])
                         /\ checks[d] \cap {s} # {} => Cardinality(checks[d] \cap {s}) > 0
                         /\ owed'[d] \in Int
  <2> SUFFICES ASSUME NEW d \in Clients
               PROVE  /\ IsFiniteSet(checks'[d])
                      /\ owed'[d] = Cardinality(checks'[d])
                      /\ checks[d] \cap {s} # {} => Cardinality(checks[d] \cap {s}) > 0
                      /\ owed'[d] \in Int
    OBVIOUS
  <2>1. IsFiniteSet(checks[d]) /\ owed[d] = Cardinality(checks[d])
    BY <1>2 DEF OwedIsListed
  <2>2. IsFiniteSet(checks[d] \ {s}) /\ IsFiniteSet(checks[d] \cap {s})
        /\ Cardinality(checks[d] \ {s}) = Cardinality(checks[d]) - Cardinality(checks[d] \cap {s})
    BY <2>1, FewerOwed, FS_Intersection
  <2>3. Cardinality(checks[d] \cap {s}) \in Nat /\ Cardinality(checks[d] \ {s}) \in Nat
        /\ (checks[d] \cap {s} # {} => Cardinality(checks[d] \cap {s}) # 0)
    BY <2>2, FS_CardinalityType, FS_EmptySet
  <2>4. checks'[d] = checks[d] \ {s} /\ owed'[d] = owed[d] - Cardinality(checks[d] \cap {s})
    BY <1>1
  <2> QED BY <2>1, <2>2, <2>3, <2>4
<1>9. TypeOK'
  <2>1. checks' \in [Clients -> SUBSET Cells] /\ caching' \in [Clients -> BOOLEAN]
    BY <1>1, <1>2 DEF TypeOK
  <2>2. owed' \in [Clients -> Int]
    BY <1>1, <1>8
  <2> QED BY <1>1, <1>2, <1>3, <1>7, <2>1, <2>2 DEF TypeOK
<1>10. EachOwedOnce'
  <2>1. \A t : t \in InUse <=> \E b \in connected : t \in asks[b]
    BY <1>2 DEF EachOwedOnce
  <2>2. connected \subseteq Clients
    BY <1>2 DEF TypeOK
  <2>3. \A t : t \in InUse' <=> \E b \in connected : t \in asks'[b]
    BY <1>4, <1>6, <2>1, <2>2
  <2>4. \A b, c \in Clients : b # c => asks'[b] \cap asks'[c] = {}
    BY <1>2, <1>6 DEF EachOwedOnce
  <2> QED BY <1>1, <2>3, <2>4 DEF EachOwedOnce
<1>11. PointsBack'
  <2> SUFFICES ASSUME NEW d \in Clients
               PROVE  checks'[d] = {t \in InUse' : heap'[t].client = d}
    BY DEF PointsBack
  <2>1. checks[d] = {t \in InUse : heap[t].client = d} /\ InUse \subseteq Cells
    BY <1>2 DEF PointsBack, InUse
  <2>2. checks'[d] = checks[d] \ {s}
    BY <1>1
  <2>3. \A t \in InUse' : heap'[t] = heap[t]
    BY <1>3, <1>4, <2>1
  <2> QED BY <1>4, <2>1, <2>2, <2>3
<1>12. NothingOfTheGone'
  <2>1. ASSUME NEW d \in Clients \ connected
        PROVE  asks'[d] = {} /\ checks'[d] = {} /\ ~caching'[d]
    <3>1. asks[d] = {} /\ checks[d] = {} /\ ~caching[d]
      BY <1>2 DEF NothingOfTheGone
    <3>2. checks[d] \cap {s} = {} /\ ~(Cardinality({}) > 0)
      BY <3>1, FS_EmptySet
    <3> QED BY <1>1, <1>6, <3>1, <3>2
  <2> QED BY <1>1, <1>2, <2>1 DEF NothingOfTheGone
<1>13. OwedIsListed'
  BY <1>8 DEF OwedIsListed
<1>14. LevelsUsed'
  <2>1. InUse \subseteq Cells
    BY DEF InUse
  <2> QED BY <1>2, <1>3, <1>4, <2>1 DEF LevelsUsed
<1>15. WillBeCleared'
  <2>1. heap[s] \in Pending
    BY <1>2, <1>4 DEF TypeOK, InUse
  <2>2. heap[s].key \in Keys /\ heap[s].basis \in RuleValues /\ heap[s].basis \notin Direct
    BY <2>1, ValueFacts DEF Pending
  <2>3. \A d \in Clients : caching[d] => caching'[d]
    BY <1>1
  <2> QED BY <1>1, <1>2, <2>2, <2>3, TellKeeps
<1> QED
  BY <1>9, <1>10, <1>11, <1>12, <1>13, <1>14, <1>15 DEF IInv, NoDanglingCheck

(* A client goes: its checks have no client any more, and those that it should *)
(* have replied to are answered (destroy_client).                              *)
LEMMA DestroyKeeps == ASSUME IInv, NEW c \in Clients, Destroy(c) PROVE IInv'
<1> DEFINE gone == asks[c]
<1>1. /\ c \in connected /\ connected' = connected \ {c}
      /\ heap' = [s \in Cells |-> IF s \in gone THEN Free ELSE Detached(c)[s]]
      /\ checks' = [d \in Clients |-> IF d = c THEN {} ELSE checks[d] \ gone]
      /\ asks' = [asks EXCEPT ![c] = {}]
      /\ owed' = [d \in Clients |-> IF d = c THEN 0
                                    ELSE owed[d] - Cardinality(checks[d] \cap gone)]
      /\ caching' = [d \in Clients |-> d # c /\ (caching[d] \/ checks[d] \cap gone # {})]
      /\ told' = [told EXCEPT ![c] = [k \in Keys |-> Nothing]]
      /\ agents' = Unregistered(c)
      /\ rules' = rules
  BY DEF Destroy, GivenUp
<1> HIDE DEF gone
<1>2. /\ TypeOK /\ EachOwedOnce /\ PointsBack /\ NothingOfTheGone
      /\ OwedIsListed /\ LevelsUsed /\ WillBeCleared
  BY DEF IInv, NoDanglingCheck
<1>3. gone \subseteq InUse /\ InUse \subseteq Cells
  BY <1>1, <1>2 DEF EachOwedOnce, InUse, gone
<1>4. /\ heap' \in [Cells -> Pending \cup {Free}]
      /\ \A s \in gone : heap'[s] = Free
      /\ \A s \in InUse \ gone :
           /\ heap'[s] # Free
           /\ heap'[s].client = IF s \in checks[c] THEN NoClient ELSE heap[s].client
           /\ heap'[s].nesting = heap[s].nesting /\ heap'[s].decount = heap[s].decount
      /\ \A s \in Cells \ InUse : heap'[s] = Free
  <2>1. \A s \in checks[c] : s \in InUse
    BY <1>2 DEF PointsBack
  <2>2. \A s \in InUse : heap[s] \in Pending
    BY <1>2 DEF TypeOK, InUse
  <2>3. ASSUME NEW s \in InUse
        PROVE  /\ Detached(c)[s] \in Pending
               /\ Detached(c)[s].client = IF s \in checks[c] THEN NoClient ELSE heap[s].client
               /\ Detached(c)[s].nesting = heap[s].nesting
               /\ Detached(c)[s].decount = heap[s].decount
    <3>1. heap[s] \in Pending /\ s \in Cells
      BY <1>3, <2>2
    <3>2. Detached(c)[s] = IF s \in checks[c] THEN [heap[s] EXCEPT !.client = NoClient] ELSE heap[s]
      BY <3>1 DEF Detached
    <3>3. [heap[s] EXCEPT !.client = NoClient] \in Pending
      BY <3>1 DEF Pending
    <3> QED BY <3>1, <3>2, <3>3 DEF Pending
  <2>4. \A s \in Cells \ InUse : Detached(c)[s] = Free
    BY <2>1 DEF Detached, InUse
  <2>5. \A s \in Cells : heap'[s] = IF s \in gone THEN Free ELSE Detached(c)[s]
    BY <1>1
  <2>6. \A s \in Cells : heap'[s] \in Pending \cup {Free}
    BY <2>3, <2>4, <2>5
  <2>7. heap' \in [Cells -> Pending \cup {Free}]
    BY <1>1, <2>6
  <2> QED BY <1>3, <2>3, <2>4, <2>5, <2>7, FreeAssumption
<1>5. InUse' = InUse \ gone
  BY <1>3, <1>4 DEF InUse
<1>6. /\ \A d \in Clients : asks'[d] = IF d = c THEN {} ELSE asks[d]
      /\ asks' \in [Clients -> SUBSET Cells]
      /\ \A d \in Clients : d # c => asks[d] \cap gone = {}
  BY <1>1, <1>2 DEF TypeOK, EachOwedOnce, gone
<1>7. \A d \in Clients : /\ IsFiniteSet(checks'[d]) /\ owed'[d] = Cardinality(checks'[d])
                         /\ owed'[d] \in Int
  <2> SUFFICES ASSUME NEW d \in Clients
               PROVE  /\ IsFiniteSet(checks'[d]) /\ owed'[d] = Cardinality(checks'[d])
                      /\ owed'[d] \in Int
    OBVIOUS
  <2>1. CASE d = c
    BY <1>1, <2>1, FS_EmptySet
  <2>2. CASE d # c
    <3>1. checks'[d] = checks[d] \ gone /\ owed'[d] = owed[d] - Cardinality(checks[d] \cap gone)
      BY <1>1, <2>2
    <3>2. IsFiniteSet(checks[d]) /\ owed[d] = Cardinality(checks[d])
      BY <1>2 DEF OwedIsListed
    <3>3. /\ IsFiniteSet(checks[d] \ gone)
          /\ Cardinality(checks[d] \ gone) = Cardinality(checks[d]) - Cardinality(checks[d] \cap gone)
      BY <3>2, FewerOwed
    <3>4. Cardinality(checks[d] \ gone) \in Nat
      BY <3>3, FS_CardinalityType
    <3> QED BY <3>1, <3>2, <3>3, <3>4
  <2> QED BY <2>1, <2>2
<1>8. \A n \in AgentNames : agents'[n] = IF agents[n] = c THEN NoClient ELSE agents[n]
  BY <1>1 DEF Unregistered
<1>9. TypeOK'
  <2>1. checks' \in [Clients -> SUBSET Cells] /\ caching' \in [Clients -> BOOLEAN]
        /\ connected' \subseteq Clients
    BY <1>1, <1>2 DEF TypeOK
  <2>2. owed' \in [Clients -> Int]
    BY <1>1, <1>7
  <2>3. agents' \in [AgentNames -> Clients \cup {NoClient}]
    BY <1>1, <1>2 DEF TypeOK, Unregistered
  <2> QED BY <1>1, <1>2, <1>4, <1>6, <2>1, <2>2, <2>3 DEF TypeOK
<1>10. EachOwedOnce'
  <2>1. \A t : t \in InUse <=> \E b \in connected : t \in asks[b]
    BY <1>2 DEF EachOwedOnce
  <2>2. connected \subseteq Clients
    BY <1>2 DEF TypeOK
  <2>3. \A t : t \in InUse' <=> \E b \in connected \ {c} : t \in asks'[b]
    BY <1>5, <1>6, <2>1, <2>2 DEF gone
  <2>4. \A b, d \in Clients : b # d => asks'[b] \cap asks'[d] = {}
    BY <1>2, <1>6 DEF EachOwedOnce
  <2> QED BY <1>1, <2>3, <2>4 DEF EachOwedOnce
<1>11. PointsBack'
  <2> SUFFICES ASSUME NEW d \in Clients
               PROVE  checks'[d] = {t \in InUse' : heap'[t].client = d}
    BY DEF PointsBack
  <2>1. checks[d] = {t \in InUse : heap[t].client = d}
        /\ checks[c] = {t \in InUse : heap[t].client = c} /\ d # NoClient
    BY <1>2, ClientsAssumption DEF PointsBack
  <2>2. CASE d = c
    <3>1. \A t \in InUse' : heap'[t].client # c
      BY <1>4, <1>5, <2>1, <2>2
    <3> QED BY <1>1, <2>2, <3>1
  <2>3. CASE d # c
    <3>1. \A t \in InUse' : heap'[t].client = d <=> heap[t].client = d
      BY <1>4, <1>5, <2>1, <2>3
    <3> QED BY <1>1, <1>5, <2>1, <2>3, <3>1
  <2> QED BY <2>2, <2>3
<1>12. NothingOfTheGone'
  <2>1. ASSUME NEW d \in Clients \ connected'
        PROVE  asks'[d] = {} /\ checks'[d] = {} /\ ~caching'[d]
    BY <1>1, <1>2, <1>6, <2>1 DEF NothingOfTheGone
  <2>2. \A n \in AgentNames : agents'[n] \in connected' \cup {NoClient}
    BY <1>1, <1>2, <1>8 DEF NothingOfTheGone
  <2> QED BY <2>1, <2>2 DEF NothingOfTheGone
<1>13. OwedIsListed'
  BY <1>7 DEF OwedIsListed
<1>14. LevelsUsed'
  BY <1>2, <1>4, <1>5 DEF LevelsUsed
<1>15. WillBeCleared'
  <2>1. \A k \in Keys : Current(k)' = Current(k)
    BY <1>1, CurrentStays
  <2>2. told' \in [Clients -> [Keys -> RuleValues \cup {Nothing}]]
        /\ \A d \in Clients, k \in Keys : told'[d][k] = IF d = c THEN Nothing ELSE told[d][k]
    BY <1>1, <1>2 DEF WillBeCleared
  <2>3. \A d \in Clients : d # c /\ caching[d] => caching'[d]
    BY <1>1
  <2> QED BY <1>2, <2>1, <2>2, <2>3, ValueFacts DEF WillBeCleared
<1> QED
  BY <1>9, <1>10, <1>11, <1>12, <1>13, <1>14, <1>15 DEF IInv, NoDanglingCheck

(* Every step keeps the invariant.                                             *)
LEMMA InvNext == IInv /\ [Next]_vars => IInv'
<1> SUFFICES ASSUME IInv, [Next]_vars
             PROVE  IInv'
  OBVIOUS
<1>1. ASSUME NEW c \in Clients, Destroy(c) \/ Refuse(c)
      PROVE  IInv'
  BY <1>1, DestroyKeeps, RefuseKeeps
<1>2. ASSUME NEW c \in Clients, NEW k \in Keys, Check(c, k) \/ Test(c, k)
      PROVE  IInv'
  BY <1>2, CheckKeeps, TestKeeps
<1>3. ASSUME NEW a \in AgentClients, NEW s \in Cells, AgentReplies(a, s)
      PROVE  IInv'
  BY <1>3, ReplyKeeps, ClientsAssumption
<1>4. ASSUME NEW a \in AgentClients, NEW s \in Cells, NEW k \in Keys, Sub(a, s, k)
      PROVE  IInv'
  BY <1>4, SubKeeps, ClientsAssumption
<1>5. ASSUME NEW k \in Keys, NEW v \in RuleValues, Change(k, v)
      PROVE  IInv'
  BY <1>5, ChangeKeeps
<1>6. CASE UNCHANGED vars
  BY <1>6 DEF vars, IInv, NoDanglingCheck, TypeOK, EachOwedOnce, PointsBack, NothingOfTheGone,
              OwedIsListed, LevelsUsed, WillBeCleared, InUse, Current, Resolve
<1> QED
  BY <1>1, <1>2, <1>3, <1>4, <1>5, <1>6, ArrivalKeeps DEF Next

(* The invariant holds in every behaviour.                                     *)
LEMMA InvAlways == Spec => []IInv
  BY InvInit, InvNext, PTL DEF Spec

--------------------------------------------------------------------------------
(* Lists of clients and pending checks agree, whoever goes while checks wait   *)
(* (destroy_client, cyn_query_reply, makecheck).                               *)
THEOREM NoDanglingCheckHolds == Spec => []NoDanglingCheck
<1>1. IInv => NoDanglingCheck
  BY DEF IInv
<1> QED BY <1>1, InvAlways, PTL

(* Each check gets one answer (replycheck, replycb).                           *)
THEOREM AnsweredOnceHolds == Spec => []AnsweredOnce
<1>1. IInv => AnsweredOnce
  BY DEF IInv, OwedIsListed, NoDanglingCheck, TypeOK, AnsweredOnce
<1> QED BY <1>1, InvAlways, PTL

(* No client keeps a yes or no of a rule that changed (onchange, replycheck).  *)
THEOREM CachedDirectIsCurrentHolds == Spec => []CachedDirectIsCurrent
<1>1. IInv => CachedDirectIsCurrent
  BY DEF IInv, WillBeCleared, NoDanglingCheck, TypeOK, CachedDirectIsCurrent
<1> QED BY <1>1, InvAlways, PTL

(* Questions in questions end: a check is nested in fewer others than there    *)
(* are levels (cyn_query_async, makesub).                                      *)
THEOREM NestingIsBoundedHolds == Spec => []NestingIsBounded
<1>1. IInv => NestingIsBounded
  <2> SUFFICES ASSUME IInv, NEW s \in InUse
               PROVE  heap[s].nesting < MaxDepth
    BY DEF NestingIsBounded
  <2>1. heap[s] \in Pending /\ heap[s].nesting + heap[s].decount <= MaxDepth
    BY DEF IInv, LevelsUsed, InUse, NoDanglingCheck, TypeOK
  <2> QED BY <2>1, MaxDepthAssumption DEF Pending
<1> QED BY <1>1, InvAlways, PTL

--------------------------------------------------------------------------------
(* Only agents are asked, and they are the only ones that owe replies.         *)
OnlyAgentsOwe ==
  /\ \A n \in AgentNames : agents[n] \in AgentClients \cup {NoClient}
  /\ \A c \in Clients \ AgentClients : asks[c] = {}

ToMsgs == {AskMsg(s) : s \in Cells} \cup {AnswerMsg(r) : r \in SubIds}
FromMsgs == {ReplyMsg(s) : s \in Cells}
              \cup {SubMsg(s, r, k) : s \in Cells, r \in SubIds, k \in Keys}

Tables ==
  /\ hosted \in BOOLEAN /\ (hosted => Host \in connected)
  /\ toHost \in Seq(ToMsgs) /\ fromHost \in Seq(FromMsgs)
  /\ checkId \in [Cells -> SubIds \cup {Idle}]
  /\ requests \in [SubIds -> [key : Keys \cup {Idle}, calls : SUBSET SubIds]]
  /\ queries \in [Slots -> Programs \cup {Idle}]
  /\ subqs \in [SubIds -> Slots \cup {Idle}]

Clean ==
  /\ toHost = <<>> /\ fromHost = <<>>
  /\ checkId = [s \in Cells |-> Idle]
  /\ requests = [r \in SubIds |-> NoRequest]
  /\ queries = [q \in Slots |-> Idle]
  /\ subqs = [m \in SubIds |-> Idle]

(* What a program wrote that was not read yet, in each of its phases.          *)
LinesOfPhases ==
  \A q \in Slots : queries[q] # Idle =>
    /\ queries[q].phase = "new" => queries[q].lines = <<>>
    /\ queries[q].phase \in {"waits", "told"} => queries[q].lines \in {<<>>, <<"sub">>}

Runs(q, s) == queries[q] # Idle /\ queries[q].ask = s
IsSub(msg, r) == msg.what = "sub" /\ msg.id = r
Waits(t, r) == t \in checks[Host] /\ checkId[t] = r

(* Where asks and requests are, said without counting.                         *)
AskPlaced(s) ==
  /\ s \in asks[Host] <=> \/ AskMsg(s) \in Elements(toHost)
                          \/ \E q \in Slots : Runs(q, s)
                          \/ ReplyMsg(s) \in Elements(fromHost)
  /\ AskMsg(s) \in Elements(toHost) => ReplyMsg(s) \notin Elements(fromHost)
  /\ \A q \in Slots : Runs(q, s) =>
       /\ AskMsg(s) \notin Elements(toHost) /\ ReplyMsg(s) \notin Elements(fromHost)
       /\ \A p \in Slots : Runs(p, s) => p = q

RequestPlaced(r) ==
  /\ requests[r] # NoRequest <=> \/ AnswerMsg(r) \in Elements(toHost)
                                 \/ \E t \in Cells : Waits(t, r)
                                 \/ \E m \in Elements(fromHost) : IsSub(m, r)
  /\ AnswerMsg(r) \in Elements(toHost) => \A m \in Elements(fromHost) : ~IsSub(m, r)
  /\ \A t \in Cells : Waits(t, r) =>
       /\ AnswerMsg(r) \notin Elements(toHost)
       /\ \A m \in Elements(fromHost) : ~IsSub(m, r)
       /\ \A u \in Cells : Waits(u, r) => t = u
  /\ \A m, n \in Elements(fromHost) : IsSub(m, r) /\ IsSub(n, r) => m = n

Requests ==
  /\ \A r \in SubIds : requests[r] # NoRequest => requests[r].calls = {r}
  /\ \A m \in SubIds : subqs[m] # Idle => requests[m] # NoRequest
  /\ hosted => \A t \in checks[Host] : checkId[t] \in SubIds

EachPlaced ==
  /\ Distinct(toHost) /\ Distinct(fromHost)
  /\ hosted => /\ \A s \in Cells : AskPlaced(s)
               /\ \A r \in SubIds : RequestPlaced(r)

LInv ==
  /\ OnlyAgentsOwe
  /\ Tables
  /\ ~hosted => Clean
  /\ LinesOfPhases
  /\ Requests
  /\ EachPlaced
  /\ AnswersToTheirProgram

--------------------------------------------------------------------------------
(* The messages, told apart by what they say.                                  *)
LEMMA MsgFacts ==
  /\ \A s, t : AskMsg(s) = AskMsg(t) => s = t
  /\ \A r, q : AnswerMsg(r) = AnswerMsg(q) => r = q
  /\ \A s, t : ReplyMsg(s) = ReplyMsg(t) => s = t
  /\ \A s, r : AskMsg(s) # AnswerMsg(r) /\ ~IsSub(ReplyMsg(s), r)
  /\ \A s, r, k, q : IsSub(SubMsg(s, r, k), q) <=> q = r
  /\ \A s, t, r, k : ReplyMsg(t) # SubMsg(s, r, k)
<1>1. \A s, r : AskMsg(s).what = "ask" /\ AskMsg(s).ask = s
                /\ AnswerMsg(r).what = "answer" /\ AnswerMsg(r).id = r
                /\ ReplyMsg(s).what = "reply" /\ ReplyMsg(s).ask = s
  BY DEF AskMsg, AnswerMsg, ReplyMsg
<1>2. \A s, r, k : SubMsg(s, r, k).what = "sub" /\ SubMsg(s, r, k).id = r
  BY DEF SubMsg
<1> QED BY <1>1, <1>2 DEF IsSub

(* What the first message of each stream is.                                   *)
LEMMA FirstMsg ==
  ASSUME Tables
  PROVE  /\ toHost # <<>> =>
              \/ \E s \in Cells : Head(toHost) = AskMsg(s)
              \/ \E r \in SubIds : Head(toHost) = AnswerMsg(r)
         /\ fromHost # <<>> =>
              \/ \E s \in Cells : Head(fromHost) = ReplyMsg(s)
              \/ \E s \in Cells, r \in SubIds, k \in Keys : Head(fromHost) = SubMsg(s, r, k)
<1>1. toHost # <<>> => Head(toHost) \in ToMsgs
  BY TailFacts DEF Tables
<1>2. fromHost # <<>> => Head(fromHost) \in FromMsgs
  BY TailFacts DEF Tables
<1> QED BY <1>1, <1>2 DEF ToMsgs, FromMsgs

(* The server of the launcher is the one of module CheckServer: each of its    *)
(* steps is a step of it or leaves it alone.                                   *)
LEMMA LStepIsStep ==
  ASSUME TypeOK, Tables, [LNext]_allVars
  PROVE  [Next]_vars
<1> SUFFICES ASSUME LNext
             PROVE  [Next]_vars
  BY DEF allVars
<1>0. Host \in AgentClients /\ Host \in Clients
  BY HostAssumption, ClientsAssumption
<1>1. CASE HostStarts \/ HostRegisters \/ HostEnds
  BY <1>0, <1>1 DEF HostStarts, HostRegisters, HostEnds, Next
<1>2. CASE ServeOther(OtherRequest)
  BY <1>2, RuleChangesAssumption DEF ServeOther, OtherRequest, Next
<1>3. CASE AnyAgent
  BY <1>0, <1>3 DEF AnyAgent, Next
<1>4. ASSUME NEW s \in Cells, AnyAgentReplies(s)
      PROVE  Next
  BY <1>0, <1>4 DEF AnyAgentReplies, Next
<1>5. CASE ServeHost
  <2>1. fromHost # <<>>
    BY <1>5 DEF ServeHost
  <2>2. ASSUME NEW s \in Cells, Head(fromHost) = ReplyMsg(s)
        PROVE  Next
    <3>1. Head(fromHost).what = "reply" /\ Head(fromHost).ask = s
      BY <2>2 DEF ReplyMsg
    <3>2. AgentReplies(Host, s)
      BY <1>5, <3>1 DEF ServeHost, ServeReply
    <3> QED BY <1>0, <3>2 DEF Next
  <2>3. ASSUME NEW s \in Cells, NEW r \in SubIds, NEW k \in Keys,
               Head(fromHost) = SubMsg(s, r, k)
        PROVE  Next
    <3>1. Head(fromHost).what = "sub" /\ Head(fromHost).ask = s /\ Head(fromHost).key = k
      BY <2>3 DEF SubMsg
    <3>2. Sub(Host, s, k) \/ Refuse(Host)
      BY <1>5, <3>1 DEF ServeHost, ServeSub
    <3> QED BY <1>0, <3>2 DEF Next
  <2> QED BY <2>1, <2>2, <2>3, FirstMsg
<1>6. CASE HostInput
  BY <1>6 DEF HostInput
<1>7. ASSUME NEW q \in Slots,
             ProgramEvent(q) \/ ProgramAsks(q) \/ ProgramAnswers(q) \/ ProgramEnds(q)
      PROVE  UNCHANGED vars
  BY <1>7 DEF ProgramEvent, ProgramAsks, ProgramAnswers, ProgramEnds, ProgramStep
<1>8. CASE HostReadsDone
  BY <1>8 DEF HostReadsDone
<1> QED BY <1>1, <1>2, <1>3, <1>4, <1>5, <1>6, <1>7, <1>8 DEF LNext

(* Names are registered by agents alone (cyn_agent_add), asks are made to the  *)
(* clients of names.                                                           *)
LEMMA AskedIsHost ==
  ASSUME OnlyAgentsOwe, NEW found, AgentFor(found) # NoClient
  PROVE  AgentFor(found) = Host
  BY HostAssumption DEF OnlyAgentsOwe, AgentFor

(* What a question to the server changes in the lists of the clients: nothing, *)
(* or a check of the one that asks, and an ask to the launcher, in a new place.*)
LEMMA QueryAdds ==
  ASSUME IInv, OnlyAgentsOwe, NEW c \in Clients, NEW k, NEW d, NEW n, Query(c, k, d, n)
  PROVE  \/ checks' = checks /\ asks' = asks
         \/ \E s \in Cells :
              /\ s \notin asks[Host] /\ s \notin checks[Host]
              /\ checks' = [checks EXCEPT ![c] = @ \cup {s}]
              /\ asks' = [asks EXCEPT ![Host] = @ \cup {s}]
<1> DEFINE found == Resolve[d][k]
           agent == AgentFor(found)
           hops  == d - found.left
<1>1. CASE AnswerNow(c, k, found.basis)
  BY <1>1 DEF AnswerNow
<1>2. CASE agent # NoClient /\ Ask(c, k, found, agent, n + hops)
  <2>1. agent = Host
    BY <1>2, AskedIsHost
  <2>2. PICK s \in Cells : /\ heap[s] = Free
                           /\ checks' = [checks EXCEPT ![c] = @ \cup {s}]
                           /\ asks' = [asks EXCEPT ![Host] = @ \cup {s}]
    BY <1>2, <2>1 DEF Ask
  <2>3. s \notin InUse
    BY <2>2 DEF InUse
  <2>4. s \notin asks[Host] /\ s \notin checks[Host]
    BY <2>3, HostAssumption, ClientsAssumption
    DEF IInv, NoDanglingCheck, EachOwedOnce, PointsBack, NothingOfTheGone
  <2> QED BY <2>2, <2>4
<1> QED BY <1>1, <1>2 DEF Query

(* Only agents owe, whatever the server does.                                  *)
LEMMA OnlyAgentsStay ==
  ASSUME IInv, OnlyAgentsOwe, [Next]_vars
  PROVE  OnlyAgentsOwe'
<1>0. Host \in AgentClients /\ Host \in Clients /\ AgentClients \subseteq Clients /\ TypeOK
  BY HostAssumption, ClientsAssumption DEF IInv, NoDanglingCheck
<1>1. ASSUME NEW c \in Clients, NEW k, NEW d, NEW n, Query(c, k, d, n), agents' = agents
      PROVE  OnlyAgentsOwe'
  <2>1. CASE asks' = asks
    BY <1>1, <2>1 DEF OnlyAgentsOwe
  <2>2. ASSUME NEW s \in Cells, asks' = [asks EXCEPT ![Host] = @ \cup {s}]
        PROVE  OnlyAgentsOwe'
    BY <1>0, <1>1, <2>2 DEF OnlyAgentsOwe, TypeOK
  <2> QED BY <1>1, <2>1, <2>2, QueryAdds
<1>2. ASSUME NEW c \in Clients, NEW k \in Keys, Check(c, k)
      PROVE  OnlyAgentsOwe'
  BY <1>1, <1>2 DEF Check, Unchanged
<1>3. ASSUME NEW c \in AgentClients, NEW s \in Cells, NEW k \in Keys, Sub(c, s, k)
      PROVE  OnlyAgentsOwe'
  BY <1>0, <1>1, <1>3 DEF Sub, Unchanged
<1>4. ASSUME NEW c \in AgentClients, NEW s \in Cells, AgentReplies(c, s)
      PROVE  OnlyAgentsOwe'
  BY <1>0, <1>4 DEF AgentReplies, Unchanged, OnlyAgentsOwe, TypeOK
<1>5. ASSUME NEW c \in AgentClients, NEW n \in AgentNames, AddAgent(c, n)
      PROVE  OnlyAgentsOwe'
  BY <1>0, <1>5 DEF AddAgent, OnlyAgentsOwe, TypeOK
<1>6. ASSUME NEW c \in Clients, Destroy(c)
      PROVE  OnlyAgentsOwe'
  BY <1>0, <1>6 DEF Destroy, Unregistered, OnlyAgentsOwe, TypeOK
<1>7. CASE UNCHANGED <<agents, asks>>
  BY <1>7 DEF OnlyAgentsOwe
<1>8. ASSUME NEW c \in Clients, NEW k \in Keys, Connect(c) \/ Refuse(c) \/ Test(c, k)
      PROVE  UNCHANGED <<agents, asks>>
  BY <1>8 DEF Connect, Refuse, Test, AnswerNow, Unchanged
<1>9. ASSUME NEW c \in Clients, Connect(c) \/ Refuse(c)
      PROVE  UNCHANGED <<agents, asks>>
  BY <1>9 DEF Connect, Refuse, Unchanged
<1>10. ASSUME NEW k \in Keys, NEW v \in RuleValues, Change(k, v)
       PROVE  UNCHANGED <<agents, asks>>
  BY <1>10 DEF Change
<1> QED BY <1>2, <1>3, <1>4, <1>5, <1>6, <1>7, <1>8, <1>9, <1>10 DEF Next, vars

--------------------------------------------------------------------------------
AtMostOne(T) == \A x, y \in T : x = y

(* The members of the sequence made of a set that has at most one.             *)
LEMMA SequencedFacts ==
  ASSUME NEW S, NEW T \in SUBSET S, AtMostOne(T)
  PROVE  /\ Sequenced(T) \in Seq(S)
         /\ Elements(Sequenced(T)) = T
         /\ Distinct(Sequenced(T))
<1>1. CASE T = {}
  BY <1>1, ShortFacts DEF Sequenced, Elements, Distinct
<1>2. CASE T # {}
  <2>1. PICK x \in T : T = {x}
    BY <1>2 DEF AtMostOne
  <2>2. Sequenced(T) = <<x>>
    BY <2>1 DEF Sequenced
  <2>3. <<x>> \in Seq(S) /\ Elements(<<x>>) = {x} /\ Distinct(<<x>>)
    BY ShortFacts, x \in S
  <2> QED BY <2>1, <2>2, <2>3
<1> QED BY <1>1, <1>2

(* A sequence that lists the set E, each member once.                          *)
Listing(S, q, E) == q \in Seq(S) /\ Distinct(q) /\ Elements(q) = E

(* Two lists of different members make a list of both.                         *)
LEMMA ListingCat ==
  ASSUME NEW S, NEW p, NEW P, NEW q, NEW Q, Listing(S, p, P), Listing(S, q, Q), P \cap Q = {}
  PROVE  Listing(S, p \o q, P \cup Q)
  BY CatFacts DEF Listing

SentAnswers == {AnswerMsg(checkId[s]) : s \in ClosedNow}
SentAsks == {AskMsg(s) : s \in AskedNow}

(* What the server sends is added to what it sent.                             *)
LEMMA SendsAdds ==
  ASSUME Tables, Distinct(toHost), NEW answers \in Seq(ToMsgs), Distinct(answers),
         Sends(answers),
         SentAnswers \subseteq ToMsgs, SentAsks \subseteq ToMsgs,
         AtMostOne(SentAnswers), AtMostOne(SentAsks),
         Elements(toHost) \cap Elements(answers) = {},
         (Elements(toHost) \cup Elements(answers)) \cap SentAnswers = {},
         (Elements(toHost) \cup Elements(answers) \cup SentAnswers) \cap SentAsks = {}
  PROVE  /\ toHost' \in Seq(ToMsgs) /\ Distinct(toHost')
         /\ Elements(toHost') = Elements(toHost) \cup Elements(answers) \cup SentAnswers \cup SentAsks
<1>1. toHost \in Seq(ToMsgs) /\ toHost' = toHost \o answers \o Sequenced(SentAnswers) \o Sequenced(SentAsks)
  BY DEF Tables, Sends, SentAnswers, SentAsks
<1>2. /\ Listing(ToMsgs, Sequenced(SentAnswers), SentAnswers)
      /\ Listing(ToMsgs, Sequenced(SentAsks), SentAsks)
  BY SequencedFacts DEF Listing
<1> DEFINE c == Sequenced(SentAnswers)
           a == Sequenced(SentAsks)
           To == Elements(toHost)
           An == Elements(answers)
<1>3. /\ Listing(ToMsgs, toHost, To) /\ Listing(ToMsgs, answers, An)
      /\ Listing(ToMsgs, c, SentAnswers) /\ Listing(ToMsgs, a, SentAsks)
      /\ toHost' = toHost \o answers \o c \o a
  BY <1>1, <1>2 DEF Listing
<1>4. To \cap An = {} /\ (To \cup An) \cap SentAnswers = {} /\ (To \cup An \cup SentAnswers) \cap SentAsks = {}
  OBVIOUS
<1> HIDE DEF c, a, To, An
<1>5. Listing(ToMsgs, toHost \o answers, To \cup An)
  BY <1>3, <1>4, ListingCat
<1>6. Listing(ToMsgs, (toHost \o answers) \o c, (To \cup An) \cup SentAnswers)
  BY <1>3, <1>4, <1>5, ListingCat
<1>7. Listing(ToMsgs, ((toHost \o answers) \o c) \o a, ((To \cup An) \cup SentAnswers) \cup SentAsks)
  BY <1>3, <1>4, <1>6, ListingCat
<1> QED BY <1>3, <1>7 DEF Listing, To, An

(* The same for one ask and nothing else.                                      *)
LEMMA SendsAnAsk ==
  ASSUME Tables, Distinct(toHost), Sends(<<>>), NEW u \in Cells, AskedNow = {u},
         ClosedNow = {}, AskMsg(u) \notin Elements(toHost)
  PROVE  /\ toHost' \in Seq(ToMsgs) /\ Distinct(toHost')
         /\ Elements(toHost') = Elements(toHost) \cup {AskMsg(u)}
<1>1. <<>> \in Seq(ToMsgs) /\ Distinct(<<>>) /\ Elements(<<>>) = {}
  BY DEF Distinct, Elements
<1>2. /\ SentAsks = {AskMsg(u)} /\ SentAnswers = {} /\ SentAsks \subseteq ToMsgs
      /\ AtMostOne(SentAsks) /\ AtMostOne(SentAnswers)
  BY DEF SentAsks, SentAnswers, AtMostOne, ToMsgs
<1>3. /\ toHost' \in Seq(ToMsgs) /\ Distinct(toHost')
      /\ Elements(toHost') = Elements(toHost) \cup {} \cup SentAnswers \cup SentAsks
  BY <1>1, <1>2, SendsAdds
<1> QED BY <1>2, <1>3

(* The server has nothing to say when neither the asks nor the checks of the   *)
(* launcher changed.                                                           *)
LEMMA SendsNothing ==
  ASSUME Tables, Sends(<<>>), asks'[Host] = asks[Host], checks'[Host] = checks[Host]
  PROVE  toHost' = toHost
<1>1. Sequenced({AnswerMsg(checkId[s]) : s \in ClosedNow}) = <<>>
      /\ Sequenced({AskMsg(s) : s \in AskedNow}) = <<>>
  BY DEF ClosedNow, AskedNow, Sequenced
<1>2. toHost \o <<>> = toHost
  BY ConcatEmptySeq DEF Tables
<1> QED BY <1>1, <1>2 DEF Sends

--------------------------------------------------------------------------------
(* A launcher that is not there keeps nothing.                                 *)
LEMMA CleanStart ==
  ASSUME Clean', OnlyAgentsOwe', hosted' \in BOOLEAN,
         hosted' => Host \in connected' /\ asks'[Host] = {} /\ checks'[Host] = {}
  PROVE  LInv'
<1>1. /\ toHost' = <<>> /\ fromHost' = <<>>
      /\ checkId' = [s \in Cells |-> Idle]
      /\ requests' = [r \in SubIds |-> [key |-> Idle, calls |-> {}]]
      /\ queries' = [q \in Slots |-> Idle]
      /\ subqs' = [m \in SubIds |-> Idle]
  BY DEF Clean, NoRequest
<1>2. Elements(<<>>) = {} /\ Distinct(<<>>)
  BY DEF Elements, Distinct
<1>3. Tables'
  <2>1. toHost' \in Seq(ToMsgs)' /\ fromHost' \in Seq(FromMsgs)'
    BY <1>1
  <2>2. /\ checkId' \in [Cells -> SubIds \cup {Idle}]
        /\ requests' \in [SubIds -> [key : Keys \cup {Idle}, calls : SUBSET SubIds]]
        /\ queries' \in [Slots -> Programs \cup {Idle}]
        /\ subqs' \in [SubIds -> Slots \cup {Idle}]
    BY <1>1
  <2> QED BY <2>1, <2>2 DEF Tables
<1>4. LinesOfPhases' /\ AnswersToTheirProgram'
  BY <1>1 DEF LinesOfPhases, AnswersToTheirProgram
<1>5. Requests'
  BY <1>1 DEF Requests, NoRequest
<1>6. EachPlaced'
  <2>1. ASSUME hosted', NEW s \in Cells
        PROVE  AskPlaced(s)'
    BY <1>1, <1>2, <2>1 DEF AskPlaced, Runs
  <2>2. ASSUME hosted', NEW r \in SubIds
        PROVE  RequestPlaced(r)'
    BY <1>1, <1>2, <2>2 DEF RequestPlaced, Waits, NoRequest
  <2> QED BY <1>1, <1>2, <2>1, <2>2 DEF EachPlaced
<1> QED BY <1>3, <1>4, <1>5, <1>6 DEF LInv

(* Where asks and requests are does not change with what the program of a      *)
(* query does.                                                                 *)
LEMMA PlacedStays ==
  ASSUME EachPlaced, UNCHANGED <<toHost, fromHost, checkId, hosted>>,
         hosted => asks'[Host] = asks[Host] /\ checks'[Host] = checks[Host],
         \A r \in SubIds : requests'[r] # NoRequest <=> requests[r] # NoRequest,
         \A q \in Slots, s \in Cells : Runs(q, s)' <=> Runs(q, s)
  PROVE  EachPlaced'
<1>1. ASSUME hosted, NEW s \in Cells
      PROVE  AskPlaced(s)'
  BY <1>1 DEF EachPlaced, AskPlaced
<1>2. ASSUME hosted, NEW r \in SubIds
      PROVE  RequestPlaced(r)'
  <2>1. \A t \in Cells : Waits(t, r)' <=> Waits(t, r)
    BY <1>2 DEF Waits
  <2>2. NoRequest' = NoRequest
    BY DEF NoRequest
  <2> QED BY <1>2, <2>1, <2>2 DEF EachPlaced, RequestPlaced
<1> QED BY <1>1, <1>2 DEF EachPlaced

(* Steps of the server that are nothing to the launcher.                       *)
LEMMA ServerQuiet ==
  ASSUME LInv, OnlyAgentsOwe', hosted' = hosted,
         UNCHANGED <<toHost, fromHost, checkId, requests, queries, subqs>>,
         hosted => /\ Host \in connected'
                   /\ asks'[Host] = asks[Host] /\ checks'[Host] = checks[Host]
  PROVE  LInv'
<1>1. UNCHANGED <<toHost, fromHost, checkId, requests, queries, subqs>>
  OBVIOUS
<1>2. Tables' /\ (~hosted' => Clean') /\ LinesOfPhases' /\ AnswersToTheirProgram'
  BY <1>1 DEF LInv, Tables, Clean, LinesOfPhases, AnswersToTheirProgram
<1>3. Requests'
  BY <1>1 DEF LInv, Requests
<1>4. EachPlaced'
  <2>1. \A q \in Slots, s \in Cells : Runs(q, s)' <=> Runs(q, s)
    BY <1>1 DEF Runs
  <2> QED BY <1>1, <2>1, PlacedStays DEF LInv
<1> QED BY <1>2, <1>3, <1>4 DEF LInv

--------------------------------------------------------------------------------
(* The launcher starts from nothing, and leaves nothing.                       *)
LEMMA LInvInit == LInit => LInv
<1> SUFFICES ASSUME LInit
             PROVE  LInv
  OBVIOUS
<1>1. Clean /\ OnlyAgentsOwe /\ hosted = FALSE
  BY ClientsAssumption DEF LInit, Clean, OnlyAgentsOwe, Init
<1>2. Clean /\ ~hosted => Tables /\ LinesOfPhases /\ Requests /\ AnswersToTheirProgram
  <2> SUFFICES ASSUME Clean, ~hosted, hosted = FALSE
               PROVE  Tables /\ LinesOfPhases /\ Requests /\ AnswersToTheirProgram
    BY <1>1
  <2>1. /\ toHost = <<>> /\ fromHost = <<>>
        /\ checkId = [s \in Cells |-> Idle]
        /\ requests = [r \in SubIds |-> [key |-> Idle, calls |-> {}]]
        /\ queries = [q \in Slots |-> Idle]
        /\ subqs = [m \in SubIds |-> Idle]
    BY DEF Clean, NoRequest
  <2>2. /\ checkId \in [Cells -> SubIds \cup {Idle}]
        /\ requests \in [SubIds -> [key : Keys \cup {Idle}, calls : SUBSET SubIds]]
        /\ queries \in [Slots -> Programs \cup {Idle}]
        /\ subqs \in [SubIds -> Slots \cup {Idle}]
    BY <2>1
  <2>3. toHost \in Seq(ToMsgs) /\ fromHost \in Seq(FromMsgs)
    BY <2>1
  <2>4. LinesOfPhases /\ Requests /\ AnswersToTheirProgram
    BY <2>1 DEF LinesOfPhases, Requests, AnswersToTheirProgram, NoRequest
  <2> QED BY <2>2, <2>3, <2>4 DEF Tables
<1>3. EachPlaced
  BY <1>1 DEF EachPlaced, Clean, Distinct
<1> QED BY <1>1, <1>2, <1>3 DEF LInv

(* The agent connects with all its tables empty, and leaves nothing behind.    *)
LEMMA HostComesAndGoes ==
  ASSUME IInv, LInv, OnlyAgentsOwe', HostStarts \/ HostEnds
  PROVE  LInv'
<1>0. Host \in Clients /\ TypeOK /\ NothingOfTheGone
  BY HostAssumption, ClientsAssumption DEF IInv, NoDanglingCheck
<1>1. CASE HostStarts
  <2>1. Host \notin connected /\ Host \in connected' /\ asks' = asks /\ checks' = checks
        /\ UNCHANGED hostVars /\ hosted' \in BOOLEAN
    BY <1>1 DEF HostStarts, Connect
  <2>2. asks[Host] = {} /\ checks[Host] = {}
    BY <1>0, <2>1 DEF NothingOfTheGone
  <2>3. Clean
    BY <2>1 DEF LInv, Tables
  <2>4. Clean'
    BY <2>1, <2>3 DEF Clean, hostVars
  <2> QED BY <2>1, <2>2, <2>4, CleanStart
<1>2. CASE HostEnds
  BY <1>2, CleanStart DEF HostEnds, NothingHosted, Clean
<1> QED BY <1>1, <1>2

(* What other clients do is for the launcher nothing, or one ask more.         *)
LEMMA OtherDoes ==
  ASSUME IInv, OnlyAgentsOwe, OtherRequest
  PROVE  /\ Host \in connected => Host \in connected'
         /\ checks'[Host] = checks[Host]
         /\ \/ asks'[Host] = asks[Host]
            \/ \E s \in Cells : s \notin asks[Host] /\ asks'[Host] = asks[Host] \cup {s}
<1>0. /\ Host \in Clients /\ TypeOK /\ AgentClients = {Host}
      /\ checks \in [Clients -> SUBSET Cells] /\ asks \in [Clients -> SUBSET Cells]
  BY HostAssumption, ClientsAssumption DEF IInv, NoDanglingCheck, TypeOK
<1>1. ASSUME NEW c \in Clients \ {Host}, Destroy(c)
      PROVE  connected' = connected \ {c} /\ checks'[Host] = checks[Host] /\ asks'[Host] = asks[Host]
  <2>1. GivenUp(c) = {}
    BY <1>0, <1>1 DEF OnlyAgentsOwe, GivenUp
  <2> QED BY <1>0, <1>1, <2>1 DEF Destroy
<1>2. ASSUME NEW c \in Clients \ {Host}, Connect(c) \/ Refuse(c)
      PROVE  connected \subseteq connected' /\ checks' = checks /\ asks' = asks
  BY <1>2 DEF Connect, Refuse, Unchanged
<1>3. ASSUME NEW c \in Clients \ {Host}, NEW k \in Keys, Check(c, k)
      PROVE  /\ connected' = connected /\ checks'[Host] = checks[Host]
             /\ \/ asks'[Host] = asks[Host]
                \/ \E s \in Cells : s \notin asks[Host] /\ asks'[Host] = asks[Host] \cup {s}
  <2>1. Query(c, k, MaxDepth, 0) /\ connected' = connected
    BY <1>3 DEF Check, Unchanged
  <2>2. CASE checks' = checks /\ asks' = asks
    BY <2>1, <2>2
  <2>3. ASSUME NEW s \in Cells, s \notin asks[Host],
               checks' = [checks EXCEPT ![c] = @ \cup {s}],
               asks' = [asks EXCEPT ![Host] = @ \cup {s}]
        PROVE  checks'[Host] = checks[Host] /\ asks'[Host] = asks[Host] \cup {s}
    BY <1>0, <2>3
  <2> QED BY <2>1, <2>2, <2>3, QueryAdds
<1>4. ASSUME NEW c \in Clients \ {Host}, NEW k \in Keys, Test(c, k)
      PROVE  connected' = connected /\ checks' = checks /\ asks' = asks
  BY <1>4 DEF Test, AnswerNow, Unchanged
<1>5. ASSUME NEW k \in Keys, NEW v \in RuleChanges, Change(k, v)
      PROVE  connected' = connected /\ checks' = checks /\ asks' = asks
  BY <1>5 DEF Change
<1> QED BY <1>1, <1>2, <1>3, <1>4, <1>5 DEF OtherRequest

(* The ask that another client made is on its way to the launcher.             *)
LEMMA OtherKeeps ==
  ASSUME IInv, LInv, OnlyAgentsOwe', ServeOther(OtherRequest)
  PROVE  LInv'
<1>1. OtherRequest /\ hosted' = hosted
      /\ UNCHANGED <<fromHost, checkId, requests, queries, subqs>>
  BY DEF ServeOther
<1>2. /\ Host \in connected => Host \in connected'
      /\ checks'[Host] = checks[Host]
      /\ \/ asks'[Host] = asks[Host]
         \/ \E s \in Cells : s \notin asks[Host] /\ asks'[Host] = asks[Host] \cup {s}
  BY <1>1, OtherDoes DEF LInv
<1>3. Tables /\ (hosted => Host \in connected')
  BY <1>2 DEF LInv, Tables
<1>4. CASE ~hosted
  <2>1. toHost' = toHost
    BY <1>4 DEF ServeOther
  <2> QED BY <1>1, <1>3, <1>4, <2>1, ServerQuiet
<1>5. CASE hosted /\ asks'[Host] = asks[Host]
  <2>1. toHost' = toHost
    BY <1>2, <1>3, <1>5, SendsNothing DEF ServeOther
  <2> QED BY <1>1, <1>2, <1>3, <1>5, <2>1, ServerQuiet
<1>6. ASSUME hosted, NEW s \in Cells, s \notin asks[Host], asks'[Host] = asks[Host] \cup {s}
      PROVE  LInv'
  <2>1. AskedNow = {s} /\ ClosedNow = {}
    BY <1>2, <1>6 DEF AskedNow, ClosedNow
  <2>3. AskPlaced(s) /\ Distinct(toHost)
    BY <1>6 DEF LInv, EachPlaced
  <2>4. AskMsg(s) \notin Elements(toHost)
    BY <1>6, <2>3 DEF AskPlaced
  <2>5. Sends(<<>>)
    BY <1>6 DEF ServeOther
  <2>6. /\ toHost' \in Seq(ToMsgs) /\ Distinct(toHost')
        /\ Elements(toHost') = Elements(toHost) \cup {AskMsg(s)}
    BY <1>3, <2>1, <2>3, <2>4, <2>5, SendsAnAsk
  <2>7. Tables' /\ LinesOfPhases' /\ AnswersToTheirProgram' /\ Requests'
    BY <1>1, <1>2, <1>3, <1>6, <2>6
    DEF LInv, Tables, LinesOfPhases, AnswersToTheirProgram, Requests
  <2>8. ASSUME NEW t \in Cells
        PROVE  AskPlaced(t)'
    <3>1. AskPlaced(t) /\ (AskMsg(s) = AskMsg(t) => t = s)
      BY <1>6, MsgFacts DEF LInv, EachPlaced
    <3>2. \A q \in Slots : Runs(q, t)' <=> Runs(q, t)
      BY <1>1 DEF Runs
    <3>3. CASE t = s
      BY <1>1, <1>6, <2>6, <3>1, <3>2, <3>3 DEF AskPlaced
    <3>4. CASE t # s
      BY <1>1, <1>6, <2>6, <3>1, <3>2, <3>4 DEF AskPlaced
    <3> QED BY <3>3, <3>4
  <2>9. ASSUME NEW r \in SubIds
        PROVE  RequestPlaced(r)'
    <3>1. RequestPlaced(r) /\ AskMsg(s) # AnswerMsg(r)
      BY <1>6, MsgFacts DEF LInv, EachPlaced
    <3>2. \A t \in Cells : Waits(t, r)' <=> Waits(t, r)
      BY <1>1, <1>2 DEF Waits
    <3> QED BY <1>1, <2>6, <3>1, <3>2 DEF RequestPlaced, NoRequest
  <2>10. EachPlaced'
    BY <1>1, <2>6, <2>8, <2>9 DEF EachPlaced, LInv
  <2> QED BY <1>1, <1>6, <2>7, <2>10 DEF LInv
<1> QED BY <1>2, <1>4, <1>5, <1>6

--------------------------------------------------------------------------------
(* Taking the first message of a stream.                                       *)
LEMMA FromTaken ==
  ASSUME Tables, Distinct(fromHost), fromHost # <<>>, fromHost' = Tail(fromHost)
  PROVE  /\ fromHost' \in Seq(FromMsgs) /\ Distinct(fromHost')
         /\ Head(fromHost) \in Elements(fromHost)
         /\ Elements(fromHost') = Elements(fromHost) \ {Head(fromHost)}
  BY TailFacts DEF Tables

(* The same of the other stream.                                               *)
LEMMA ToTaken ==
  ASSUME Tables, Distinct(toHost), toHost # <<>>, toHost' = Tail(toHost)
  PROVE  /\ toHost' \in Seq(ToMsgs) /\ Distinct(toHost')
         /\ Head(toHost) \in Elements(toHost)
         /\ Elements(toHost') = Elements(toHost) \ {Head(toHost)}
  BY TailFacts DEF Tables

(* The server takes a reply: the ask is over, and when its check was the one   *)
(* of a sub-query, its answer is on its way (replycb, cyn_query_reply).        *)
LEMMA ServeReplyKeeps ==
  ASSUME IInv, LInv, OnlyAgentsOwe', ServeHost, NEW s \in Cells, Head(fromHost) = ReplyMsg(s)
  PROVE  LInv'
<1>0. /\ Host \in Clients /\ TypeOK /\ Tables /\ Distinct(toHost) /\ Distinct(fromHost)
  BY HostAssumption, ClientsAssumption DEF IInv, NoDanglingCheck, LInv, EachPlaced
<1>1. /\ fromHost # <<>> /\ fromHost' = Tail(fromHost) /\ ServeReply(s)
      /\ UNCHANGED <<hosted, requests, queries, subqs>>
  <2>1. Head(fromHost).what = "reply" /\ Head(fromHost).ask = s
    BY DEF ReplyMsg
  <2> QED BY <2>1 DEF ServeHost
<1>2. hosted
  BY <1>1 DEF LInv, Clean
<1>3. /\ fromHost' \in Seq(FromMsgs) /\ Distinct(fromHost')
      /\ ReplyMsg(s) \in Elements(fromHost)
      /\ Elements(fromHost') = Elements(fromHost) \ {ReplyMsg(s)}
  BY <1>0, <1>1, FromTaken
<1>4. /\ connected' = connected
      /\ asks'[Host] = asks[Host] \ {s} /\ checks'[Host] = checks[Host] \ {s}
      /\ Sends(<<>>) /\ checkId' = ForgetClosed
  <2>1. AgentReplies(Host, s) /\ Sends(<<>>) /\ checkId' = ForgetClosed
    BY <1>1 DEF ServeReply
  <2>2. /\ connected' = connected /\ asks' = [asks EXCEPT ![Host] = @ \ {s}]
        /\ checks' = [c \in Clients |-> checks[c] \ {s}]
    BY <2>1 DEF AgentReplies, Closed, Unchanged
  <2> QED BY <1>0, <2>1, <2>2 DEF TypeOK
<1>5. /\ ClosedNow = checks[Host] \cap {s} /\ AskedNow = {}
      /\ checkId \in [Cells -> SubIds \cup {Idle}]
      /\ \A t \in Cells : t # s => checkId'[t] = checkId[t]
      /\ checkId' \in [Cells -> SubIds \cup {Idle}]
  <2>1. ClosedNow = checks[Host] \cap {s} /\ AskedNow = {}
    BY <1>4 DEF ClosedNow, AskedNow
  <2>2. checkId \in [Cells -> SubIds \cup {Idle}]
    BY <1>0 DEF Tables
  <2> QED BY <1>4, <2>1, <2>2 DEF ForgetClosed
<1>6. /\ SentAsks = {} /\ SentAnswers \subseteq ToMsgs /\ AtMostOne(SentAnswers)
      /\ \A r \in SubIds : AnswerMsg(r) \in SentAnswers <=> Waits(s, r)
      /\ \A t : AskMsg(t) \notin SentAnswers
      /\ Elements(toHost) \cap SentAnswers = {}
  <2>1. SentAsks = {}
    BY <1>5 DEF SentAsks
  <2>2. CASE s \notin checks[Host]
    <3>1. SentAnswers = {}
      BY <1>5, <2>2 DEF SentAnswers
    <3> QED BY <2>1, <2>2, <3>1 DEF AtMostOne, Waits
  <2>3. CASE s \in checks[Host]
    <3>1. ClosedNow = {s}
      BY <1>5, <2>3
    <3>2. SentAnswers = {AnswerMsg(checkId[s])} /\ checkId[s] \in SubIds
      BY <1>2, <2>3, <3>1 DEF SentAnswers, LInv, Requests
    <3>3. Waits(s, checkId[s]) /\ RequestPlaced(checkId[s])
      BY <1>2, <2>3, <3>2 DEF Waits, LInv, EachPlaced
    <3>4. AnswerMsg(checkId[s]) \notin Elements(toHost)
      BY <3>3 DEF RequestPlaced
    <3>5. AnswerMsg(checkId[s]) \in ToMsgs
      BY <3>2 DEF ToMsgs
    <3>6. \A r \in SubIds : AnswerMsg(r) \in SentAnswers <=> Waits(s, r)
      BY <2>3, <3>2, MsgFacts DEF Waits
    <3>7. AtMostOne(SentAnswers) /\ \A t : AskMsg(t) \notin SentAnswers
      BY <3>2, MsgFacts DEF AtMostOne
    <3>8. Elements(toHost) \cap SentAnswers = {} /\ SentAnswers \subseteq ToMsgs
      BY <3>2, <3>4, <3>5
    <3> QED BY <2>1, <3>6, <3>7, <3>8
  <2> QED BY <2>2, <2>3
<1>7. /\ toHost' \in Seq(ToMsgs) /\ Distinct(toHost')
      /\ Elements(toHost') = Elements(toHost) \cup SentAnswers
  <2>1. <<>> \in Seq(ToMsgs) /\ Distinct(<<>>) /\ Elements(<<>>) = {}
    BY DEF Distinct, Elements
  <2>2. AtMostOne(SentAsks) /\ SentAsks \subseteq ToMsgs
    BY <1>6 DEF AtMostOne
  <2>3. /\ toHost' \in Seq(ToMsgs) /\ Distinct(toHost')
        /\ Elements(toHost') = Elements(toHost) \cup {} \cup SentAnswers \cup SentAsks
    BY <1>0, <1>4, <1>6, <2>1, <2>2, SendsAdds
  <2> QED BY <1>6, <2>3
<1>8. Tables' /\ LinesOfPhases' /\ AnswersToTheirProgram'
  BY <1>1, <1>3, <1>4, <1>5, <1>7 DEF LInv, Tables, LinesOfPhases, AnswersToTheirProgram
<1>9. Requests'
  BY <1>0, <1>1, <1>4, <1>5 DEF LInv, Requests, NoRequest, TypeOK
<1>10. ASSUME NEW t \in Cells
       PROVE  AskPlaced(t)'
  <2>1. AskPlaced(t) /\ (ReplyMsg(s) = ReplyMsg(t) => t = s)
    BY <1>2, MsgFacts DEF LInv, EachPlaced
  <2>2. \A q \in Slots : Runs(q, t)' <=> Runs(q, t)
    BY <1>1 DEF Runs
  <2>3. AskMsg(t) \in Elements(toHost') <=> AskMsg(t) \in Elements(toHost)
    BY <1>6, <1>7
  <2>4. CASE t = s
    BY <1>3, <1>4, <2>1, <2>2, <2>3, <2>4 DEF AskPlaced
  <2>5. CASE t # s
    BY <1>3, <1>4, <2>1, <2>2, <2>3, <2>5 DEF AskPlaced
  <2> QED BY <2>4, <2>5
<1>11. ASSUME NEW r \in SubIds
       PROVE  RequestPlaced(r)'
  <2>1. RequestPlaced(r) /\ ~IsSub(ReplyMsg(s), r)
    BY <1>2, MsgFacts DEF LInv, EachPlaced
  <2>2. \A t \in Cells : Waits(t, r)' <=> Waits(t, r) /\ t # s
    BY <1>4, <1>5 DEF Waits
  <2>3. AnswerMsg(r) \in Elements(toHost') <=> AnswerMsg(r) \in Elements(toHost) \/ Waits(s, r)
    BY <1>6, <1>7
  <2>4. \A m : m \in Elements(fromHost') /\ IsSub(m, r) <=> m \in Elements(fromHost) /\ IsSub(m, r)
    BY <1>3, <2>1
  <2> QED BY <1>1, <2>1, <2>2, <2>3, <2>4 DEF RequestPlaced, NoRequest
<1>12. EachPlaced'
  BY <1>3, <1>7, <1>10, <1>11 DEF EachPlaced
<1> QED BY <1>1, <1>2, <1>8, <1>9, <1>12 DEF LInv

--------------------------------------------------------------------------------
(* The server takes a sub-query.  Answered at once, its answer is on its way;  *)
(* else its check remembers the request, and the launcher is asked (makesub).  *)
LEMMA SubDoes ==
  ASSUME IInv, LInv, NEW s \in Cells, NEW r \in SubIds, NEW k \in Keys,
         ServeSub(SubMsg(s, r, k))
  PROVE  /\ connected' = connected
         /\ \/ /\ asks'[Host] = asks[Host] /\ checks'[Host] = checks[Host]
               /\ Sends(<<AnswerMsg(r)>>)
               /\ checkId' = checkId
            \/ \E u \in Cells :
                 /\ u \notin asks[Host] /\ u \notin checks[Host]
                 /\ asks'[Host] = asks[Host] \cup {u} /\ checks'[Host] = checks[Host] \cup {u}
                 /\ Sends(<<>>)
                 /\ checkId' = [checkId EXCEPT ![u] = r]
<1>0. /\ Host \in Clients /\ TypeOK /\ OnlyAgentsOwe
      /\ checks \in [Clients -> SUBSET Cells] /\ asks \in [Clients -> SUBSET Cells]
      /\ checkId \in [Cells -> SubIds \cup {Idle}]
  BY HostAssumption, ClientsAssumption DEF IInv, NoDanglingCheck, LInv, TypeOK, Tables
<1> DEFINE msg == SubMsg(s, r, k)
           t == checks'[Host] \ checks[Host]
<1>1. msg.ask = s /\ msg.id = r /\ msg.key = k
  BY DEF SubMsg
<1> HIDE DEF msg
<1>2. CASE Refuse(Host) /\ Sends(<<AnswerMsg(r)>>) /\ UNCHANGED checkId
  BY <1>2 DEF Refuse, Unchanged
<1>3. ASSUME Sub(Host, s, k),
             Sends(IF t = {} THEN <<AnswerMsg(r)>> ELSE <<>>),
             checkId' = [u \in Cells |-> IF u \in t THEN r ELSE checkId[u]]
      PROVE  /\ connected' = connected
             /\ \/ /\ asks'[Host] = asks[Host] /\ checks'[Host] = checks[Host]
                   /\ Sends(<<AnswerMsg(r)>>)
                   /\ checkId' = checkId
                \/ \E u \in Cells :
                     /\ u \notin asks[Host] /\ u \notin checks[Host]
                     /\ asks'[Host] = asks[Host] \cup {u} /\ checks'[Host] = checks[Host] \cup {u}
                     /\ Sends(<<>>)
                     /\ checkId' = [checkId EXCEPT ![u] = r]
  <2>1. connected' = connected /\ Query(Host, k, SubDepth(s), heap[s].nesting + 1)
    BY <1>3 DEF Sub, Unchanged
  <2>2. CASE checks' = checks /\ asks' = asks
    <3>1. t = {}
      BY <2>2
    <3>2. checkId' = checkId
      BY <1>0, <1>3, <3>1
    <3> QED BY <1>3, <2>1, <2>2, <3>1, <3>2
  <2>3. ASSUME NEW u \in Cells, u \notin asks[Host], u \notin checks[Host],
               checks' = [checks EXCEPT ![Host] = @ \cup {u}],
               asks' = [asks EXCEPT ![Host] = @ \cup {u}]
        PROVE  /\ asks'[Host] = asks[Host] \cup {u} /\ checks'[Host] = checks[Host] \cup {u}
               /\ Sends(<<>>)
               /\ checkId' = [checkId EXCEPT ![u] = r]
    <3>1. asks'[Host] = asks[Host] \cup {u} /\ checks'[Host] = checks[Host] \cup {u}
      BY <1>0, <2>3
    <3>2. t = {u}
      BY <2>3, <3>1
    <3>3. Sends(<<>>)
      BY <1>3, <3>2
    <3>4. checkId' = [checkId EXCEPT ![u] = r]
      BY <1>0, <1>3, <3>2
    <3> QED BY <3>1, <3>3, <3>4
  <2> QED BY <1>0, <2>1, <2>2, <2>3, QueryAdds
<1> QED BY <1>1, <1>2, <1>3 DEF ServeSub, msg

(* The server takes a sub-query: its request is then a check that waits, or    *)
(* is answered at once.                                                        *)
LEMMA ServeSubKeeps ==
  ASSUME IInv, LInv, OnlyAgentsOwe', ServeHost,
         NEW s \in Cells, NEW r \in SubIds, NEW k \in Keys, Head(fromHost) = SubMsg(s, r, k)
  PROVE  LInv'
<1>0. /\ Host \in Clients /\ TypeOK /\ Tables /\ Distinct(toHost) /\ Distinct(fromHost)
  BY HostAssumption, ClientsAssumption DEF IInv, NoDanglingCheck, LInv, EachPlaced
<1>1. /\ fromHost # <<>> /\ fromHost' = Tail(fromHost) /\ ServeSub(SubMsg(s, r, k))
      /\ UNCHANGED <<hosted, requests, queries, subqs>>
  <2>1. Head(fromHost).what = "sub"
    BY DEF SubMsg
  <2> QED BY <2>1 DEF ServeHost
<1> DEFINE sub == SubMsg(s, r, k)
<1>2. hosted
  BY <1>1 DEF LInv, Clean
<1>3. /\ fromHost' \in Seq(FromMsgs) /\ Distinct(fromHost')
      /\ sub \in Elements(fromHost)
      /\ Elements(fromHost') = Elements(fromHost) \ {sub}
  BY <1>0, <1>1, FromTaken
<1>4. \A q \in SubIds : IsSub(sub, q) <=> q = r
  BY MsgFacts
<1>5. \A t \in Cells : ReplyMsg(t) # sub
  BY MsgFacts
<1> HIDE DEF sub
<1>6. /\ RequestPlaced(r) /\ requests[r] # NoRequest
      /\ AnswerMsg(r) \notin Elements(toHost) /\ \A t \in Cells : ~Waits(t, r)
      /\ \A m \in Elements(fromHost') : ~IsSub(m, r)
  <2>1. RequestPlaced(r)
    BY <1>2 DEF LInv, EachPlaced
  <2> QED BY <1>3, <1>4, <2>1 DEF RequestPlaced
<1>7. \A q \in SubIds : q # r =>
        \A m : m \in Elements(fromHost') /\ IsSub(m, q) <=> m \in Elements(fromHost) /\ IsSub(m, q)
  BY <1>3, <1>4
<1>8. \A t \in Cells, q \in Slots : /\ Runs(q, t)' <=> Runs(q, t)
                                    /\ ReplyMsg(t) \in Elements(fromHost')
                                         <=> ReplyMsg(t) \in Elements(fromHost)
  BY <1>1, <1>3, <1>5 DEF Runs
<1>8a. \A t \in Cells : ReplyMsg(t) \in Elements(fromHost') <=> ReplyMsg(t) \in Elements(fromHost)
  BY <1>3, <1>5
<1>9. ASSUME connected' = connected,
             asks'[Host] = asks[Host], checks'[Host] = checks[Host],
             Sends(<<AnswerMsg(r)>>), checkId' = checkId
      PROVE  LInv'
  <2>1. /\ <<AnswerMsg(r)>> \in Seq(ToMsgs) /\ Distinct(<<AnswerMsg(r)>>)
        /\ Elements(<<AnswerMsg(r)>>) = {AnswerMsg(r)}
    <3>1. AnswerMsg(r) \in ToMsgs
      BY DEF ToMsgs
    <3> QED BY <3>1, ShortFacts
  <2>2. SentAsks = {} /\ SentAnswers = {}
    BY <1>9 DEF SentAsks, SentAnswers, AskedNow, ClosedNow
  <2>3. /\ toHost' \in Seq(ToMsgs) /\ Distinct(toHost')
        /\ Elements(toHost') = Elements(toHost) \cup {AnswerMsg(r)}
    <3>1. SentAsks \subseteq ToMsgs /\ SentAnswers \subseteq ToMsgs
          /\ AtMostOne(SentAsks) /\ AtMostOne(SentAnswers)
      BY <2>2 DEF AtMostOne
    <3>2. /\ toHost' \in Seq(ToMsgs) /\ Distinct(toHost')
          /\ Elements(toHost') = Elements(toHost) \cup Elements(<<AnswerMsg(r)>>)
                                   \cup SentAnswers \cup SentAsks
      BY <1>0, <1>6, <1>9, <2>1, <2>2, <3>1, SendsAdds
    <3> QED BY <2>1, <2>2, <3>2
  <2>4. Tables' /\ LinesOfPhases' /\ AnswersToTheirProgram' /\ Requests'
    BY <1>1, <1>3, <1>9, <2>3
    DEF LInv, Tables, LinesOfPhases, AnswersToTheirProgram, Requests, NoRequest
  <2>5. ASSUME NEW t \in Cells
        PROVE  AskPlaced(t)'
    <3>1. AskPlaced(t) /\ AskMsg(t) # AnswerMsg(r)
      BY <1>2, MsgFacts DEF LInv, EachPlaced
    <3> QED BY <1>8, <1>8a, <1>9, <2>3, <3>1 DEF AskPlaced
  <2>6. ASSUME NEW q \in SubIds
        PROVE  RequestPlaced(q)'
    <3>1. RequestPlaced(q) /\ (AnswerMsg(q) = AnswerMsg(r) => q = r)
      BY <1>2, MsgFacts DEF LInv, EachPlaced
    <3>2. \A t \in Cells : Waits(t, q)' <=> Waits(t, q)
      BY <1>9 DEF Waits
    <3>3. CASE q = r
      BY <1>1, <1>6, <2>3, <3>2, <3>3 DEF RequestPlaced, NoRequest
    <3>4. CASE q # r
      BY <1>1, <1>7, <2>3, <3>1, <3>2, <3>4 DEF RequestPlaced, NoRequest
    <3> QED BY <3>3, <3>4
  <2> QED BY <1>1, <1>2, <1>3, <2>3, <2>4, <2>5, <2>6 DEF LInv, EachPlaced
<1>10. ASSUME connected' = connected, NEW u \in Cells, u \notin asks[Host], u \notin checks[Host],
              asks'[Host] = asks[Host] \cup {u}, checks'[Host] = checks[Host] \cup {u},
              Sends(<<>>), checkId' = [checkId EXCEPT ![u] = r]
       PROVE  LInv'
  <2>2. AskedNow = {u} /\ ClosedNow = {}
    BY <1>10 DEF AskedNow, ClosedNow
  <2>3. AskPlaced(u) /\ AskMsg(u) \notin Elements(toHost)
    BY <1>2, <1>10 DEF LInv, EachPlaced, AskPlaced
  <2>4. /\ toHost' \in Seq(ToMsgs) /\ Distinct(toHost')
        /\ Elements(toHost') = Elements(toHost) \cup {AskMsg(u)}
    BY <1>0, <1>10, <2>2, <2>3, SendsAnAsk
  <2>5. /\ checkId' \in [Cells -> SubIds \cup {Idle}] /\ checkId'[u] = r
        /\ \A t \in Cells : t # u => checkId'[t] = checkId[t]
    BY <1>0, <1>10 DEF Tables
  <2>6. Tables' /\ LinesOfPhases' /\ AnswersToTheirProgram'
    BY <1>1, <1>3, <1>10, <2>4, <2>5 DEF LInv, Tables, LinesOfPhases, AnswersToTheirProgram
  <2>7. Requests'
    BY <1>0, <1>1, <1>10, <2>5 DEF LInv, Requests, NoRequest, TypeOK
  <2>8. ASSUME NEW t \in Cells
        PROVE  AskPlaced(t)'
    <3>1. AskPlaced(t) /\ (AskMsg(u) = AskMsg(t) => t = u)
      BY <1>2, MsgFacts DEF LInv, EachPlaced
    <3>2. CASE t = u
      BY <1>8, <1>8a, <1>10, <2>3, <2>4, <3>1, <3>2 DEF AskPlaced
    <3>3. CASE t # u
      BY <1>8, <1>8a, <1>10, <2>4, <3>1, <3>3 DEF AskPlaced
    <3> QED BY <3>2, <3>3
  <2>9. ASSUME NEW q \in SubIds
        PROVE  RequestPlaced(q)'
    <3>1. RequestPlaced(q) /\ AskMsg(u) # AnswerMsg(q)
      BY <1>2, MsgFacts DEF LInv, EachPlaced
    <3>2. \A t \in Cells : Waits(t, q)' <=> Waits(t, q) \/ (t = u /\ q = r)
      BY <1>10, <2>5 DEF Waits
    <3>3. CASE q = r
      BY <1>1, <1>6, <2>4, <3>1, <3>2, <3>3 DEF RequestPlaced, NoRequest
    <3>4. CASE q # r
      BY <1>1, <1>7, <2>4, <3>1, <3>2, <3>4 DEF RequestPlaced, NoRequest
    <3> QED BY <3>3, <3>4
  <2> QED BY <1>1, <1>2, <1>3, <2>4, <2>6, <2>7, <2>8, <2>9 DEF LInv, EachPlaced
<1> QED BY <1>1, <1>9, <1>10, SubDoes

--------------------------------------------------------------------------------
(* qidx finds an entry of the table that is free.                              *)
LEMMA LastFreeIsFree == ASSUME FreeSlots # {} PROVE LastFree \in FreeSlots
<1> DEFINE T == {q + 1 : q \in FreeSlots}
<1>1. QueryCount \in Nat /\ FreeSlots \subseteq 0 .. QueryCount - 1
  BY QueryCountAssumption DEF FreeSlots, Slots
<1>2. T \subseteq 1 .. QueryCount /\ T # {}
  BY <1>1
<1>3. PICK x \in T : \A y \in T : y <= x
  <2> HIDE DEF T
  <2> QED BY <1>1, <1>2, IntervalHasLast
<1>4. PICK q \in FreeSlots : x = q + 1
  BY <1>3
<1>5. \A p \in FreeSlots : p + 1 <= q + 1
  BY <1>3, <1>4
<1>6. \A p \in FreeSlots : p <= q
  BY <1>1, <1>5
<1> QED BY <1>4, <1>6 DEF LastFree

(* The launcher takes an ask: it starts a program for it or replies at once    *)
(* (on_agent, qidx).                                                           *)
LEMMA AskTaken ==
  ASSUME IInv, LInv, HostInput, NEW s \in Cells, Head(toHost) = AskMsg(s)
  PROVE  LInv'
<1>0. /\ Tables /\ Distinct(toHost) /\ Distinct(fromHost)
      /\ fromHost \in Seq(FromMsgs) /\ queries \in [Slots -> Programs \cup {Idle}]
  BY DEF LInv, EachPlaced, Tables
<1>1. /\ toHost # <<>> /\ toHost' = Tail(toHost) /\ agentcb(s)
      /\ UNCHANGED <<vars, hosted, checkId>>
  <2>1. Head(toHost).what = "ask" /\ Head(toHost).ask = s
    BY DEF AskMsg
  <2> QED BY <2>1 DEF HostInput
<1>2. hosted
  BY <1>1 DEF LInv, Clean
<1>3. UNCHANGED <<connected, agents, asks, checks, hosted, checkId, requests, subqs>>
  BY <1>1 DEF vars, agentcb
<1>4. /\ toHost' \in Seq(ToMsgs) /\ Distinct(toHost')
      /\ AskMsg(s) \in Elements(toHost)
      /\ Elements(toHost') = Elements(toHost) \ {AskMsg(s)}
  BY <1>0, <1>1, ToTaken
<1>5. /\ AskPlaced(s) /\ s \in asks[Host] /\ ReplyMsg(s) \notin Elements(fromHost)
      /\ \A q \in Slots : ~Runs(q, s)
  BY <1>2, <1>4 DEF LInv, EachPlaced, AskPlaced
<1>6. OnlyAgentsOwe' /\ Requests'
  BY <1>3 DEF LInv, OnlyAgentsOwe, Requests, NoRequest
<1>7. \A r \in SubIds : AnswerMsg(r) \in Elements(toHost') <=> AnswerMsg(r) \in Elements(toHost)
  BY <1>4, MsgFacts
<1>8. \A r \in SubIds, t \in Cells : Waits(t, r)' <=> Waits(t, r)
  BY <1>3 DEF Waits
<1>9. CASE FreeSlots # {} /\ queries' = [queries EXCEPT ![LastFree] = Program(s)]
           /\ fromHost' = fromHost
  <2> DEFINE q0 == LastFree
  <2>1. q0 \in Slots /\ queries[q0] = Idle
    BY <1>9, LastFreeIsFree DEF FreeSlots
  <2> HIDE DEF q0
  <2>2. /\ Program(s) \in Programs /\ Program(s) # Idle /\ Program(s).ask = s
        /\ Program(s).phase = "new" /\ Program(s).lines = <<>>
    <3>1. Program(s) \in Programs
      BY DEF Program, Programs, Phases, Lines
    <3> QED BY <3>1, IdleAssumption DEF Program
  <2>3. /\ queries' \in [Slots -> Programs \cup {Idle}]
        /\ queries'[q0] = Program(s)
        /\ \A q \in Slots : q # q0 => queries'[q] = queries[q]
    BY <1>0, <1>9, <2>1, <2>2 DEF q0
  <2>4. \A q \in Slots, t \in Cells : Runs(q, t)' <=> Runs(q, t) \/ (q = q0 /\ t = s)
    BY <2>1, <2>2, <2>3 DEF Runs
  <2>5. Tables' /\ LinesOfPhases'
    BY <1>3, <1>4, <1>9, <2>2, <2>3 DEF LInv, Tables, LinesOfPhases
  <2>6. AnswersToTheirProgram'
    BY <1>3, <2>1, <2>3 DEF LInv, AnswersToTheirProgram, Tables
  <2>7. ASSUME NEW t \in Cells
        PROVE  AskPlaced(t)'
    <3>1. AskPlaced(t) /\ (AskMsg(s) = AskMsg(t) => t = s)
      BY <1>2, MsgFacts DEF LInv, EachPlaced
    <3>2. CASE t = s
      BY <1>3, <1>4, <1>5, <1>9, <2>1, <2>4, <3>2 DEF AskPlaced
    <3>3. CASE t # s
      BY <1>3, <1>4, <1>9, <2>4, <3>1, <3>3 DEF AskPlaced
    <3> QED BY <3>2, <3>3
  <2>8. ASSUME NEW r \in SubIds
        PROVE  RequestPlaced(r)'
    BY <1>2, <1>3, <1>7, <1>8, <1>9 DEF LInv, EachPlaced, RequestPlaced, NoRequest
  <2> QED BY <1>0, <1>2, <1>3, <1>4, <1>6, <1>9, <2>5, <2>6, <2>7, <2>8 DEF LInv, EachPlaced
<1>10. CASE fromHost' = Append(fromHost, ReplyMsg(s)) /\ queries' = queries
  <2>1. /\ fromHost' \in Seq(FromMsgs) /\ Distinct(fromHost')
        /\ Elements(fromHost') = Elements(fromHost) \cup {ReplyMsg(s)}
    <3>1. ReplyMsg(s) \in FromMsgs
      BY DEF FromMsgs
    <3> QED BY <1>0, <1>5, <1>10, <3>1, AppendFacts
  <2>2. Tables' /\ LinesOfPhases' /\ AnswersToTheirProgram'
    BY <1>3, <1>4, <1>10, <2>1 DEF LInv, Tables, LinesOfPhases, AnswersToTheirProgram
  <2>3. \A q \in Slots, t \in Cells : Runs(q, t)' <=> Runs(q, t)
    BY <1>10 DEF Runs
  <2>4. ASSUME NEW t \in Cells
        PROVE  AskPlaced(t)'
    <3>1. /\ AskPlaced(t) /\ (AskMsg(s) = AskMsg(t) => t = s)
          /\ (ReplyMsg(s) = ReplyMsg(t) => t = s)
      BY <1>2, MsgFacts DEF LInv, EachPlaced
    <3>2. CASE t = s
      BY <1>3, <1>4, <1>5, <2>1, <2>3, <3>2 DEF AskPlaced
    <3>3. CASE t # s
      BY <1>3, <1>4, <2>1, <2>3, <3>1, <3>3 DEF AskPlaced
    <3> QED BY <3>2, <3>3
  <2>5. ASSUME NEW r \in SubIds
        PROVE  RequestPlaced(r)'
    <3>1. \A m : m \in Elements(fromHost') /\ IsSub(m, r) <=> m \in Elements(fromHost) /\ IsSub(m, r)
      BY <2>1, MsgFacts
    <3>2. RequestPlaced(r)
      BY <1>2 DEF LInv, EachPlaced
    <3> QED BY <1>3, <1>7, <1>8, <3>1, <3>2 DEF RequestPlaced, NoRequest
  <2> QED BY <1>2, <1>3, <1>4, <1>6, <2>1, <2>2, <2>4, <2>5 DEF LInv, EachPlaced
<1> QED BY <1>1, <1>9, <1>10 DEF agentcb

(* The launcher takes the answer of a sub-query: the request is over, and the  *)
(* program that asked, if it is still there, may be told (on_subquery_reply).  *)
LEMMA AnswerTaken ==
  ASSUME IInv, LInv, HostInput, NEW r \in SubIds, Head(toHost) = AnswerMsg(r)
  PROVE  LInv'
<1>0. /\ Tables /\ Distinct(toHost) /\ Distinct(fromHost)
      /\ queries \in [Slots -> Programs \cup {Idle}]
      /\ requests \in [SubIds -> [key : Keys \cup {Idle}, calls : SUBSET SubIds]]
      /\ subqs \in [SubIds -> Slots \cup {Idle}]
  BY DEF LInv, EachPlaced, Tables
<1>1. /\ toHost # <<>> /\ toHost' = Tail(toHost) /\ on_subquery_reply(r)
      /\ UNCHANGED <<vars, hosted, checkId>>
  <2>1. Head(toHost).what = "answer" /\ Head(toHost).id = r
    BY DEF AnswerMsg
  <2> QED BY <2>1 DEF HostInput
<1>2. hosted
  BY <1>1 DEF LInv, Clean
<1>3. UNCHANGED <<connected, agents, asks, checks, hosted, checkId, fromHost>>
  BY <1>1 DEF vars, on_subquery_reply
<1>4. /\ toHost' \in Seq(ToMsgs) /\ Distinct(toHost')
      /\ AnswerMsg(r) \in Elements(toHost)
      /\ Elements(toHost') = Elements(toHost) \ {AnswerMsg(r)}
  BY <1>0, <1>1, ToTaken
<1>5. /\ RequestPlaced(r) /\ requests[r] # NoRequest
      /\ \A m \in Elements(fromHost) : ~IsSub(m, r)
      /\ \A t \in Cells : ~Waits(t, r)
  BY <1>2, <1>4 DEF LInv, EachPlaced, RequestPlaced
<1>6. requests[r].calls = {r}
  BY <1>5 DEF LInv, Requests
<1>7. /\ queries' = Told({r})
      /\ subqs' = [m \in SubIds |-> IF m \in {r} THEN Idle ELSE subqs[m]]
      /\ requests' = [requests EXCEPT ![r] = NoRequest]
  BY <1>1, <1>6 DEF on_subquery_reply
<1>8. /\ requests' \in [SubIds -> [key : Keys \cup {Idle}, calls : SUBSET SubIds]]
      /\ requests'[r] = NoRequest
      /\ \A m \in SubIds : m # r => requests'[m] = requests[m]
      /\ subqs' \in [SubIds -> Slots \cup {Idle}]
      /\ subqs'[r] = Idle
      /\ \A m \in SubIds : m # r => subqs'[m] = subqs[m]
  <2>1. NoRequest \in [key : Keys \cup {Idle}, calls : SUBSET SubIds]
    BY DEF NoRequest
  <2> QED BY <1>0, <1>7, <2>1
<1>9. ASSUME NEW q \in Slots
      PROVE  /\ queries[q] = Idle => queries'[q] = Idle
             /\ queries[q] # Idle =>
                  /\ queries'[q] \in Programs /\ queries'[q] # Idle
                  /\ queries'[q].ask = queries[q].ask
                  /\ queries'[q].lines = queries[q].lines
                  /\ \/ queries'[q].phase = queries[q].phase
                     \/ queries[q].phase = "waits" /\ queries'[q].phase = "told"
  <2>1. queries[q] \in Programs \cup {Idle}
    BY <1>0
  <2>2. CASE q > 0 /\ subqs[r] = q
    <3>1. queries[q] # Idle
      BY <1>0, <2>2, IdleAssumption DEF LInv, AnswersToTheirProgram
    <3> DEFINE phase == IF queries[q].phase = "waits" THEN "told" ELSE queries[q].phase
    <3>2. queries'[q] = [queries[q] EXCEPT !.phase = phase]
      BY <1>7, <2>2 DEF Told
    <3>3. queries[q] \in Programs /\ phase \in Phases
      BY <2>1, <3>1 DEF Programs, Phases
    <3>4. queries'[q] \in Programs
      BY <3>2, <3>3 DEF Programs
    <3> QED BY <3>1, <3>2, <3>3, <3>4, IdleAssumption DEF Programs
  <2>3. CASE ~(q > 0 /\ subqs[r] = q)
    <3>1. queries'[q] = queries[q]
      BY <1>7, <2>3 DEF Told
    <3> QED BY <2>1, <3>1
  <2> QED BY <2>2, <2>3
<1>10. queries' \in [Slots -> Programs \cup {Idle}]
  BY <1>0, <1>7, <1>9 DEF Told
<1>11. OnlyAgentsOwe' /\ Tables'
  BY <1>0, <1>3, <1>4, <1>8, <1>10 DEF LInv, OnlyAgentsOwe, Tables
<1>12. LinesOfPhases'
  BY <1>9 DEF LInv, LinesOfPhases
<1>13. Requests'
  BY <1>3, <1>8 DEF LInv, Requests, NoRequest
<1>14. AnswersToTheirProgram'
  <2> SUFFICES ASSUME NEW m \in SubIds, subqs'[m] # Idle
               PROVE  queries'[subqs'[m]] # Idle /\ queries'[subqs'[m]].phase # "new"
    BY DEF AnswersToTheirProgram
  <2>1. subqs'[m] = subqs[m] /\ subqs[m] \in Slots
    BY <1>0, <1>8
  <2>2. queries[subqs[m]] # Idle /\ queries[subqs[m]].phase # "new"
    BY <2>1 DEF LInv, AnswersToTheirProgram
  <2> QED BY <1>9, <2>1, <2>2
<1>15. ASSUME NEW t \in Cells
       PROVE  AskPlaced(t)'
  <2>1. AskPlaced(t) /\ AskMsg(t) # AnswerMsg(r)
    BY <1>2, MsgFacts DEF LInv, EachPlaced
  <2>2. \A q \in Slots : Runs(q, t)' <=> Runs(q, t)
    BY <1>9 DEF Runs
  <2> QED BY <1>3, <1>4, <2>1, <2>2 DEF AskPlaced
<1>16. ASSUME NEW q \in SubIds
       PROVE  RequestPlaced(q)'
  <2>1. RequestPlaced(q) /\ (AnswerMsg(q) = AnswerMsg(r) => q = r)
    BY <1>2, MsgFacts DEF LInv, EachPlaced
  <2>2. \A t \in Cells : Waits(t, q)' <=> Waits(t, q)
    BY <1>3 DEF Waits
  <2>3. CASE q = r
    BY <1>3, <1>4, <1>5, <1>8, <2>2, <2>3 DEF RequestPlaced, NoRequest
  <2>4. CASE q # r
    BY <1>3, <1>4, <1>8, <2>1, <2>2, <2>4 DEF RequestPlaced, NoRequest
  <2> QED BY <2>3, <2>4
<1> QED BY <1>0, <1>2, <1>3, <1>4, <1>11, <1>12, <1>13, <1>14, <1>15, <1>16 DEF LInv, EachPlaced

--------------------------------------------------------------------------------
(* A program writes a line or ends: nothing moves.                             *)
LEMMA ProgramStepKeeps ==
  ASSUME LInv, NEW q \in Slots, NEW from, NEW phase \in Phases \ {"new"}, NEW lines,
         ProgramStep(q, from, phase, lines),
         queries[q].lines \o lines \in Lines,
         phase \in {"waits", "told"} => queries[q].lines \o lines \in {<<>>, <<"sub">>}
  PROVE  LInv'
<1>1. /\ queries[q] # Idle
      /\ queries' = [queries EXCEPT ![q].phase = phase, ![q].lines = @ \o lines]
      /\ UNCHANGED <<connected, agents, asks, checks, hosted, toHost, fromHost, checkId,
                     requests, subqs>>
  BY DEF ProgramStep, vars
<1>2. Tables /\ queries \in [Slots -> Programs \cup {Idle}] /\ queries[q] \in Programs
  BY <1>1 DEF LInv, Tables
<1>3. /\ \A p \in Slots : p # q => queries'[p] = queries[p]
      /\ queries'[q] = [ask |-> queries[q].ask, phase |-> phase,
                        lines |-> queries[q].lines \o lines]
      /\ queries'[q].ask = queries[q].ask /\ queries'[q].phase = phase
      /\ queries'[q].lines = queries[q].lines \o lines
  <2>1. queries'[q] = [queries[q] EXCEPT !.phase = phase, !.lines = @ \o lines]
    BY <1>1, <1>2
  <2>2. queries'[q] = [ask |-> queries[q].ask, phase |-> phase,
                       lines |-> queries[q].lines \o lines]
    BY <1>2, <2>1 DEF Programs
  <2> QED BY <1>1, <1>2, <2>2
<1>4. queries'[q] \in Programs /\ queries'[q] # Idle
  <2>1. queries'[q] \in Programs
    BY <1>2, <1>3 DEF Programs
  <2> QED BY <2>1, IdleAssumption
<1>5. queries' \in [Slots -> Programs \cup {Idle}]
  BY <1>1, <1>2, <1>3, <1>4
<1>6. hosted
  BY <1>1 DEF LInv, Clean
<1>7. OnlyAgentsOwe' /\ Tables' /\ Requests'
  BY <1>1, <1>5 DEF LInv, OnlyAgentsOwe, Tables, Requests, NoRequest
<1>8. LinesOfPhases' /\ AnswersToTheirProgram'
  <2>1. LinesOfPhases'
    <3> SUFFICES ASSUME NEW p \in Slots, queries'[p] # Idle
                 PROVE  /\ queries'[p].phase = "new" => queries'[p].lines = <<>>
                        /\ queries'[p].phase \in {"waits", "told"}
                             => queries'[p].lines \in {<<>>, <<"sub">>}
      BY DEF LinesOfPhases
    <3>1. CASE p = q
      <4>1. queries'[p].phase = phase /\ queries'[p].lines = queries[q].lines \o lines
        BY <1>3, <3>1
      <4> QED BY <4>1
    <3>2. CASE p # q
      BY <1>3, <3>2 DEF LInv, LinesOfPhases
    <3> QED BY <3>1, <3>2
  <2>2. AnswersToTheirProgram'
    BY <1>1, <1>2, <1>3, <1>4 DEF LInv, AnswersToTheirProgram, Tables
  <2> QED BY <2>1, <2>2
<1>9. EachPlaced'
  <2>1. \A p \in Slots, s \in Cells : Runs(p, s)' <=> Runs(p, s)
    <3> SUFFICES ASSUME NEW p \in Slots, NEW s \in Cells
                 PROVE  Runs(p, s)' <=> Runs(p, s)
      OBVIOUS
    <3>1. CASE p = q
      <4>1. queries'[p] # Idle /\ queries[p] # Idle /\ queries'[p].ask = queries[p].ask
        BY <1>1, <1>3, <1>4, <3>1
      <4> QED BY <4>1 DEF Runs
    <3>2. CASE p # q
      BY <1>3, <3>2 DEF Runs
    <3> QED BY <3>1, <3>2
  <2> QED BY <1>1, <2>1, PlacedStays DEF LInv
<1> QED BY <1>1, <1>6, <1>7, <1>8, <1>9 DEF LInv

(* The three things that a program does leave every message where it is.       *)
LEMMA ProgramKeeps ==
  ASSUME LInv, NEW q \in Slots, ProgramAsks(q) \/ ProgramAnswers(q) \/ ProgramEnds(q)
  PROVE  LInv'
<1>1. queries[q] # Idle
  BY DEF ProgramAsks, ProgramAnswers, ProgramEnds, ProgramStep
<1>2. queries[q].lines \in Lines
  BY <1>1 DEF LInv, Tables, Programs
<1>3. CASE ProgramAsks(q)
  <2>1. queries[q].lines = <<>>
    BY <1>1, <1>3 DEF LInv, LinesOfPhases, ProgramAsks, ProgramStep
  <2>2. queries[q].lines \o <<"sub">> = <<"sub">>
    BY <2>1
  <2> QED BY <1>3, <2>2, ProgramStepKeeps DEF ProgramAsks, Lines, Phases
<1>4. CASE ProgramAnswers(q)
  <2>1. queries[q].lines \in {<<>>, <<"sub">>}
    BY <1>1, <1>4 DEF LInv, LinesOfPhases, ProgramAnswers, ProgramStep
  <2>2. <<>> \o <<"answer">> = <<"answer">> /\ <<"sub">> \o <<"answer">> = <<"sub", "answer">>
    <3>1. <<"answer">> \in Seq({"sub", "answer"})
      OBVIOUS
    <3> QED BY <3>1, ConcatEmptySeq, PairCat
  <2>3. queries[q].lines \o <<"answer">> \in Lines
    BY <2>1, <2>2 DEF Lines
  <2> QED BY <1>4, <2>3, ProgramStepKeeps DEF ProgramAnswers, Phases
<1>5. CASE ProgramEnds(q)
  <2>1. queries[q].lines \in Seq({"sub", "answer"})
    <3>1. \A x \in Lines : x \in Seq({"sub", "answer"})
      <4>1. /\ <<>> \in Seq({"sub", "answer"}) /\ <<"sub">> \in Seq({"sub", "answer"})
            /\ <<"answer">> \in Seq({"sub", "answer"})
            /\ <<"sub", "answer">> \in Seq({"sub", "answer"})
        OBVIOUS
      <4> QED BY <4>1 DEF Lines
    <3> QED BY <1>2, <3>1
  <2>2. queries[q].lines \o <<>> = queries[q].lines
    BY <2>1, ConcatEmptySeq
  <2> QED BY <1>2, <1>5, <2>2, ProgramStepKeeps DEF ProgramEnds, Phases
<1> QED BY <1>3, <1>4, <1>5

(* A number that nothing uses is found for a sub-query.                        *)
LEMMA NextIdIsNew == ASSUME NewIds # {} PROVE NextId \in NewIds
<1>1. NewIds \subseteq Nat
  BY SubIdsAssumption DEF NewIds
<1>2. \E m \in NewIds : \A n \in NewIds : m <= n
  BY <1>1, NatHasLeast
<1> QED BY <1>2 DEF NextId

(* What the launcher reads from a program: a sub-query, to which it gives a    *)
(* number, and perhaps the end, by an answer or without (read_and_dispatch,    *)
(* terminate).                                                                 *)
Read(q, sent, subs) ==
  \/ sent = <<>> /\ requests' = requests /\ subs = subqs
  \/ \E m \in SubIds, k \in Keys :
       /\ requests[m] = NoRequest /\ SubLine(q)
       /\ sent = <<SubMsg(queries[q].ask, m, k)>>
       /\ requests' = [requests EXCEPT ![m] = [key |-> k, calls |-> {m}]]
       /\ subs = [subqs EXCEPT ![m] = q]

(* What the launcher does with what a program wrote, whatever it wrote.        *)
LEMMA EventReads ==
  ASSUME Tables, NEW q \in Slots, ProgramEvent(q)
  PROVE  \E sent, subs :
           /\ Read(q, sent, subs)
           /\ Closes(q) =>
                /\ queries' = [queries EXCEPT ![q] = Idle]
                /\ subqs' = SubqsWithout(q, subs)
                /\ fromHost' = fromHost \o sent \o <<ReplyMsg(queries[q].ask)>>
           /\ ~Closes(q) =>
                /\ queries' = [queries EXCEPT ![q].lines = <<>>]
                /\ subqs' = subs
                /\ fromHost' = fromHost \o sent
<1>1. CASE SubLine(q)
  <2>1. PICK k \in Keys : AfterLines(q, AfterSub(q, NextId, k))
    BY <1>1 DEF ProgramEvent
  <2>2. NextId \in SubIds /\ requests[NextId] = NoRequest
    BY <1>1, NextIdIsNew DEF ProgramEvent, NewIds, InUseIds
  <2> DEFINE m == NextId
             then == AfterSub(q, m, k)
  <2> HIDE DEF m
  <2>3. requests[m].calls = {}
    BY <2>2 DEF m, NoRequest
  <2>4. /\ then.subqs = [subqs EXCEPT ![m] = q]
        /\ then.requests = [requests EXCEPT ![m] = [key |-> k, calls |-> {m}]]
        /\ then.sent = <<SubMsg(queries[q].ask, m, k)>>
    <3>1. requests[m].calls \cup {m} = {m}
      BY <2>3
    <3> QED BY <3>1 DEF AfterSub, Shared
  <2>5. Read(q, then.sent, then.subqs)
    BY <1>1, <2>1, <2>2, <2>4 DEF Read, AfterLines, m
  <2> HIDE DEF then
  <2> QED BY <2>1, <2>5 DEF AfterLines, then, m
<1>2. CASE ~SubLine(q)
  <2> DEFINE then == [subqs |-> subqs, requests |-> requests, sent |-> <<>>]
  <2>1. AfterLines(q, then)
    BY <1>2 DEF ProgramEvent
  <2>2. then.subqs = subqs /\ then.requests = requests /\ then.sent = <<>>
    OBVIOUS
  <2> HIDE DEF then
  <2>3. Read(q, then.sent, then.subqs)
    BY <2>1, <2>2 DEF Read, AfterLines
  <2> QED BY <2>1, <2>3 DEF AfterLines
<1> QED BY <1>1, <1>2

--------------------------------------------------------------------------------
(* A sub-query that is read is the only one of its number.                     *)
LEMMA ReadFacts ==
  ASSUME LInv, hosted, NEW q \in Slots, queries[q] # Idle, NEW sent, NEW subs,
         Read(q, sent, subs)
  PROVE  /\ Listing(FromMsgs, sent, Elements(sent)) /\ AtMostOne(Elements(sent))
         /\ Elements(fromHost) \cap Elements(sent) = {}
         /\ \A t \in Cells : ReplyMsg(t) \notin Elements(sent)
         /\ requests' \in [SubIds -> [key : Keys \cup {Idle}, calls : SUBSET SubIds]]
         /\ \A r \in SubIds :
              /\ requests'[r] # NoRequest => requests'[r].calls = {r}
              /\ requests'[r] # NoRequest <=> \/ requests[r] # NoRequest
                                              \/ \E m \in Elements(sent) : IsSub(m, r)
              /\ \A m \in Elements(sent) : IsSub(m, r) => requests[r] = NoRequest
         /\ subs \in [SubIds -> Slots \cup {Idle}]
         /\ \A m \in SubIds : subs[m] # Idle =>
              /\ requests'[m] # NoRequest
              /\ queries[subs[m]] # Idle /\ queries[subs[m]].phase # "new"
<1>1. /\ Tables /\ Requests /\ AnswersToTheirProgram
      /\ requests \in [SubIds -> [key : Keys \cup {Idle}, calls : SUBSET SubIds]]
      /\ subqs \in [SubIds -> Slots \cup {Idle}]
  BY DEF LInv, Tables
<1>2. CASE sent = <<>> /\ requests' = requests /\ subs = subqs
  <2>1. <<>> \in Seq(FromMsgs) /\ Elements(<<>>) = {} /\ Distinct(<<>>)
    BY DEF Elements, Distinct
  <2>2. Listing(FromMsgs, sent, Elements(sent)) /\ Elements(sent) = {}
    BY <1>2, <2>1 DEF Listing
  <2>3. AtMostOne(Elements(sent))
    BY <2>2 DEF AtMostOne
  <2> QED BY <1>1, <1>2, <2>2, <2>3 DEF Requests, AnswersToTheirProgram
<1>3. ASSUME NEW m \in SubIds, NEW k \in Keys, requests[m] = NoRequest, SubLine(q),
             sent = <<SubMsg(queries[q].ask, m, k)>>,
             requests' = [requests EXCEPT ![m] = [key |-> k, calls |-> {m}]],
             subs = [subqs EXCEPT ![m] = q]
      PROVE  /\ Listing(FromMsgs, sent, Elements(sent)) /\ AtMostOne(Elements(sent))
             /\ Elements(fromHost) \cap Elements(sent) = {}
             /\ \A t \in Cells : ReplyMsg(t) \notin Elements(sent)
             /\ requests' \in [SubIds -> [key : Keys \cup {Idle}, calls : SUBSET SubIds]]
             /\ \A r \in SubIds :
                  /\ requests'[r] # NoRequest => requests'[r].calls = {r}
                  /\ requests'[r] # NoRequest <=> \/ requests[r] # NoRequest
                                                  \/ \E n \in Elements(sent) : IsSub(n, r)
                  /\ \A n \in Elements(sent) : IsSub(n, r) => requests[r] = NoRequest
             /\ subs \in [SubIds -> Slots \cup {Idle}]
             /\ \A n \in SubIds : subs[n] # Idle =>
                  /\ requests'[n] # NoRequest
                  /\ queries[subs[n]] # Idle /\ queries[subs[n]].phase # "new"
  <2> DEFINE sub == SubMsg(queries[q].ask, m, k)
  <2>1. queries[q].ask \in Cells
    BY <1>1 DEF Tables, Programs
  <2>2. /\ sub \in FromMsgs
        /\ \A r : IsSub(sub, r) <=> r = m
        /\ \A t : ReplyMsg(t) # sub
    BY <2>1, MsgFacts DEF FromMsgs
  <2> HIDE DEF sub
  <2>3. Listing(FromMsgs, sent, {sub}) /\ Elements(sent) = {sub}
    <3>1. <<sub>> \in Seq(FromMsgs) /\ Elements(<<sub>>) = {sub} /\ Distinct(<<sub>>)
      BY <2>2, ShortFacts
    <3> QED BY <1>3, <3>1 DEF Listing, sub
  <2>4. AtMostOne(Elements(sent))
    BY <2>3 DEF AtMostOne
  <2>5. sub \notin Elements(fromHost)
    <3>1. RequestPlaced(m)
      BY DEF LInv, EachPlaced
    <3> QED BY <1>3, <2>2, <3>1 DEF RequestPlaced
  <2>6. /\ requests' \in [SubIds -> [key : Keys \cup {Idle}, calls : SUBSET SubIds]]
        /\ requests'[m].calls = {m} /\ requests'[m] # NoRequest
        /\ \A r \in SubIds : r # m => requests'[r] = requests[r]
    <3>1. [key |-> k, calls |-> {m}] \in [key : Keys \cup {Idle}, calls : SUBSET SubIds]
      OBVIOUS
    <3>2. [key |-> k, calls |-> {m}].calls = {m} /\ NoRequest.calls = {}
      BY DEF NoRequest
    <3> DEFINE new == [key |-> k, calls |-> {m}]
    <3>3. new.calls = {m} /\ new # NoRequest
      BY <3>2
    <3> HIDE DEF new
    <3>4. requests' = [requests EXCEPT ![m] = new]
      BY <1>3 DEF new
    <3> QED BY <1>1, <3>1, <3>3, <3>4 DEF new
  <2>7. queries[q].phase # "new"
    <3>1. queries[q].lines # <<>>
      BY <1>3 DEF SubLine
    <3> QED BY <3>1 DEF LInv, LinesOfPhases
  <2>8. /\ subs \in [SubIds -> Slots \cup {Idle}] /\ subs[m] = q
        /\ \A n \in SubIds : n # m => subs[n] = subqs[n]
    BY <1>1, <1>3
  <2>9. \A n \in SubIds : subs[n] # Idle =>
          /\ requests'[n] # NoRequest
          /\ queries[subs[n]] # Idle /\ queries[subs[n]].phase # "new"
    BY <1>1, <2>6, <2>7, <2>8 DEF Requests, AnswersToTheirProgram
  <2>10. \A r \in SubIds :
           /\ requests'[r] # NoRequest => requests'[r].calls = {r}
           /\ requests'[r] # NoRequest <=> \/ requests[r] # NoRequest
                                           \/ \E n \in Elements(sent) : IsSub(n, r)
           /\ \A n \in Elements(sent) : IsSub(n, r) => requests[r] = NoRequest
    <3> SUFFICES ASSUME NEW r \in SubIds
                 PROVE  /\ requests'[r] # NoRequest => requests'[r].calls = {r}
                        /\ requests'[r] # NoRequest <=> requests[r] # NoRequest \/ IsSub(sub, r)
                        /\ IsSub(sub, r) => requests[r] = NoRequest
      BY <2>3
    <3>1. CASE r = m
      BY <1>3, <2>2, <2>6, <3>1
    <3>2. CASE r # m
      BY <1>1, <2>2, <2>6, <3>2 DEF Requests
    <3> QED BY <3>1, <3>2
  <2> QED BY <2>2, <2>3, <2>4, <2>5, <2>6, <2>8, <2>9, <2>10
<1> QED BY <1>2, <1>3 DEF Read

(* What a program wrote is read: its sub-query and its reply are on their way, *)
(* and with the reply its entry of the table is free.                          *)
LEMMA EventKeeps ==
  ASSUME LInv, NEW q \in Slots, ProgramEvent(q)
  PROVE  LInv'
<1>0. Tables /\ Distinct(toHost) /\ Distinct(fromHost) /\ Requests
  BY DEF LInv, EachPlaced
<1>1. /\ queries[q] # Idle
      /\ UNCHANGED <<connected, agents, asks, checks, hosted, toHost, checkId>>
  BY DEF ProgramEvent, vars
<1>2. hosted
  BY <1>1 DEF LInv, Clean
<1> DEFINE ask == queries[q].ask
           reply == IF Closes(q) THEN {ReplyMsg(ask)} ELSE {}
           From == Elements(fromHost)
<1>3. /\ ask \in Cells /\ queries \in [Slots -> Programs \cup {Idle}]
      /\ queries[q] \in Programs
  BY <1>0, <1>1 DEF Tables, Programs
<1>4. PICK sent, subs :
        /\ Read(q, sent, subs)
        /\ Closes(q) =>
             /\ queries' = [queries EXCEPT ![q] = Idle]
             /\ subqs' = SubqsWithout(q, subs)
             /\ fromHost' = fromHost \o sent \o <<ReplyMsg(queries[q].ask)>>
        /\ ~Closes(q) =>
             /\ queries' = [queries EXCEPT ![q].lines = <<>>]
             /\ subqs' = subs
             /\ fromHost' = fromHost \o sent
  BY <1>0, EventReads
<1> DEFINE Sent == Elements(sent)
<1>5. /\ Listing(FromMsgs, sent, Sent) /\ AtMostOne(Sent) /\ From \cap Sent = {}
      /\ \A t \in Cells : ReplyMsg(t) \notin Sent
      /\ requests' \in [SubIds -> [key : Keys \cup {Idle}, calls : SUBSET SubIds]]
      /\ subs \in [SubIds -> Slots \cup {Idle}]
  BY <1>1, <1>2, <1>4, ReadFacts
<1>6. \A r \in SubIds :
        /\ requests'[r] # NoRequest => requests'[r].calls = {r}
        /\ requests'[r] # NoRequest <=> requests[r] # NoRequest \/ \E m \in Sent : IsSub(m, r)
        /\ \A m \in Sent : IsSub(m, r) => requests[r] = NoRequest
  BY <1>1, <1>2, <1>4, ReadFacts
<1>7. \A m \in SubIds : subs[m] # Idle =>
        /\ requests'[m] # NoRequest
        /\ queries[subs[m]] # Idle /\ queries[subs[m]].phase # "new"
  BY <1>1, <1>2, <1>4, ReadFacts
<1>8. AskPlaced(ask) /\ Runs(q, ask)
  BY <1>1, <1>2, <1>3 DEF LInv, EachPlaced, Runs
<1>9. /\ ask \in asks[Host] /\ AskMsg(ask) \notin Elements(toHost) /\ ReplyMsg(ask) \notin From
      /\ \A p \in Slots : Runs(p, ask) => p = q
  BY <1>8 DEF AskPlaced
<1>10. Listing(FromMsgs, fromHost', From \cup Sent \cup reply)
  <2>1. Listing(FromMsgs, fromHost, From)
    BY <1>0 DEF Listing, Tables
  <2>2. Listing(FromMsgs, fromHost \o sent, From \cup Sent)
    <3> HIDE DEF From, Sent
    <3> QED BY <1>5, <2>1, ListingCat
  <2>3. CASE Closes(q)
    <3>1. Listing(FromMsgs, <<ReplyMsg(ask)>>, {ReplyMsg(ask)})
      <4>1. ReplyMsg(ask) \in FromMsgs
        BY <1>3 DEF FromMsgs
      <4> QED BY <4>1, ShortFacts DEF Listing
    <3>2. (From \cup Sent) \cap {ReplyMsg(ask)} = {}
      BY <1>3, <1>5, <1>9
    <3>3. Listing(FromMsgs, (fromHost \o sent) \o <<ReplyMsg(ask)>>,
                  (From \cup Sent) \cup {ReplyMsg(ask)})
      <4> DEFINE p == fromHost \o sent
                 P == From \cup Sent
                 v == <<ReplyMsg(ask)>>
                 V == {ReplyMsg(ask)}
      <4>1. Listing(FromMsgs, p, P) /\ Listing(FromMsgs, v, V) /\ P \cap V = {}
        BY <2>2, <3>1, <3>2
      <4> HIDE DEF p, P, v, V
      <4>2. Listing(FromMsgs, p \o v, P \cup V)
        BY <4>1, ListingCat
      <4> QED BY <4>2 DEF p, P, v, V
    <3> QED BY <1>4, <2>3, <3>3
  <2>4. CASE ~Closes(q)
    <3>1. From \cup Sent \cup reply = From \cup Sent
      BY <2>4
    <3> QED BY <1>4, <2>2, <2>4, <3>1
  <2> QED BY <2>3, <2>4
<1>11. /\ fromHost' \in Seq(FromMsgs) /\ Distinct(fromHost')
       /\ Elements(fromHost') = From \cup Sent \cup reply
  BY <1>10 DEF Listing
<1>12. /\ queries' \in [Slots -> Programs \cup {Idle}]
       /\ \A p \in Slots : p # q => queries'[p] = queries[p]
       /\ Closes(q) => queries'[q] = Idle
       /\ ~Closes(q) => /\ queries'[q] # Idle /\ queries'[q].ask = ask
                        /\ queries'[q].phase = queries[q].phase /\ queries'[q].lines = <<>>
  <2>1. CASE Closes(q)
    BY <1>3, <1>4, <2>1
  <2>2. CASE ~Closes(q)
    <3>1. queries' = [queries EXCEPT ![q].lines = <<>>]
      BY <1>4, <2>2
    <3>2. queries'[q] = [queries[q] EXCEPT !.lines = <<>>]
      BY <1>3, <3>1
    <3>3. /\ queries'[q] \in Programs /\ queries'[q].ask = ask
          /\ queries'[q].phase = queries[q].phase /\ queries'[q].lines = <<>>
      BY <1>3, <3>2 DEF Programs, Lines
    <3>4. queries' \in [Slots -> Programs \cup {Idle}]
      BY <1>3, <3>1, <3>3
    <3> QED BY <1>3, <2>2, <3>1, <3>3, <3>4, IdleAssumption
  <2> QED BY <2>1, <2>2
<1>13. /\ subqs' \in [SubIds -> Slots \cup {Idle}]
       /\ \A m \in SubIds : subqs'[m] # Idle =>
            subqs'[m] = subs[m] /\ (Closes(q) => subs[m] # q)
  BY <1>4, <1>5 DEF SubqsWithout
<1> HIDE DEF ask, reply, From, Sent
<1>14. OnlyAgentsOwe' /\ Tables'
  BY <1>0, <1>1, <1>5, <1>11, <1>12, <1>13 DEF LInv, OnlyAgentsOwe, Tables
<1>15. LinesOfPhases'
  BY <1>12 DEF LInv, LinesOfPhases
<1>16. Requests'
  BY <1>0, <1>1, <1>6, <1>7, <1>13 DEF Requests, NoRequest
<1>17. AnswersToTheirProgram'
  <2> SUFFICES ASSUME NEW m \in SubIds, subqs'[m] # Idle
               PROVE  queries'[subqs'[m]] # Idle /\ queries'[subqs'[m]].phase # "new"
    BY DEF AnswersToTheirProgram
  <2>1. subqs'[m] = subs[m] /\ (Closes(q) => subs[m] # q) /\ subs[m] \in Slots
    BY <1>13
  <2>2. queries[subs[m]] # Idle /\ queries[subs[m]].phase # "new"
    BY <1>7, <2>1
  <2> QED BY <1>12, <2>1, <2>2
<1>18. \A p \in Slots, t \in Cells : Runs(p, t)' <=> Runs(p, t) /\ ~(Closes(q) /\ p = q)
  <2> SUFFICES ASSUME NEW p \in Slots, NEW t \in Cells
               PROVE  Runs(p, t)' <=> Runs(p, t) /\ ~(Closes(q) /\ p = q)
    OBVIOUS
  <2>1. CASE p = q
    BY <1>1, <1>12, <2>1 DEF Runs, ask
  <2>2. CASE p # q
    BY <1>12, <2>2 DEF Runs
  <2> QED BY <2>1, <2>2
<1>19. ASSUME NEW t \in Cells
       PROVE  AskPlaced(t)'
  <2>1. AskPlaced(t)
    BY <1>2 DEF LInv, EachPlaced
  <2>2. ReplyMsg(t) \in Elements(fromHost') <=> ReplyMsg(t) \in From \/ (Closes(q) /\ t = ask)
    BY <1>5, <1>11, MsgFacts DEF reply
  <2>3. CASE t = ask
    BY <1>1, <1>8, <1>9, <1>18, <2>2, <2>3 DEF AskPlaced, From
  <2>4. CASE t # ask
    <3>1. \A p \in Slots : Runs(p, t)' <=> Runs(p, t)
      BY <1>18, <2>4 DEF Runs, ask
    <3> QED BY <1>1, <2>1, <2>2, <2>4, <3>1 DEF AskPlaced, From
  <2> QED BY <2>3, <2>4
<1>20. ASSUME NEW r \in SubIds
       PROVE  RequestPlaced(r)'
  <2>1. RequestPlaced(r)
    BY <1>2 DEF LInv, EachPlaced
  <2>2. \A m : m \in Elements(fromHost') /\ IsSub(m, r)
                 <=> (m \in From \/ m \in Sent) /\ IsSub(m, r)
    BY <1>11, MsgFacts DEF reply
  <2>3. \A t \in Cells : Waits(t, r)' <=> Waits(t, r)
    BY <1>1 DEF Waits
  <2>4. CASE \E m \in Sent : IsSub(m, r)
    <3>1. /\ requests[r] = NoRequest /\ requests'[r] # NoRequest
          /\ \A m, n \in Sent : m = n
      BY <1>5, <1>6, <2>4 DEF AtMostOne
    <3>2. /\ AnswerMsg(r) \notin Elements(toHost) /\ \A t \in Cells : ~Waits(t, r)
          /\ \A m \in From : ~IsSub(m, r)
      BY <2>1, <3>1 DEF RequestPlaced, From
    <3> QED BY <1>1, <2>2, <2>3, <2>4, <3>1, <3>2 DEF RequestPlaced, NoRequest
  <2>5. CASE ~ \E m \in Sent : IsSub(m, r)
    <3>1. requests'[r] # NoRequest <=> requests[r] # NoRequest
      BY <1>6, <2>5
    <3> QED BY <1>1, <2>1, <2>2, <2>3, <2>5, <3>1 DEF RequestPlaced, NoRequest, From
  <2> QED BY <2>4, <2>5
<1>21. EachPlaced'
  BY <1>0, <1>1, <1>11, <1>19, <1>20 DEF EachPlaced
<1> QED BY <1>1, <1>2, <1>14, <1>15, <1>16, <1>17, <1>21 DEF LInv

(* Every step of the server and of the launcher keeps the invariant.           *)
LEMMA LInvNext == ASSUME IInv, LInv, [LNext]_allVars PROVE IInv' /\ LInv'
<1>0. TypeOK /\ Tables
  BY DEF IInv, NoDanglingCheck, LInv
<1>1. [Next]_vars
  BY <1>0, LStepIsStep
<1>2. IInv'
  BY <1>1, InvNext
<1> SUFFICES LInv'
  BY <1>2
<1>3. OnlyAgentsOwe'
  BY <1>1, OnlyAgentsStay DEF LInv
<1>4. Host \in Clients
  BY HostAssumption, ClientsAssumption
<1>5. CASE HostStarts \/ HostEnds
  BY <1>3, <1>5, HostComesAndGoes
<1>6. CASE HostRegisters
  <2>1. /\ hosted' = hosted /\ UNCHANGED <<connected, asks, checks>>
        /\ UNCHANGED <<toHost, fromHost, checkId, requests, queries, subqs>>
    BY <1>6 DEF HostRegisters, AddAgent
  <2> QED BY <1>0, <1>3, <2>1, ServerQuiet DEF Tables
<1>7. CASE ServeOther(OtherRequest)
  BY <1>3, <1>7, OtherKeeps
<1>8. CASE AnyAgent /\ UNCHANGED <<hosted, hostVars>>
  BY <1>3, <1>8, ServerQuiet DEF AnyAgent, hostVars
<1>9. ASSUME NEW s \in Cells, AnyAgentReplies(s)
      PROVE  LInv'
  BY <1>3, <1>9, ServerQuiet DEF AnyAgentReplies, hostVars
<1>10. CASE ServeHost
  <2>1. fromHost # <<>>
    BY <1>10 DEF ServeHost
  <2> QED BY <1>0, <1>3, <1>10, <2>1, FirstMsg, ServeReplyKeeps, ServeSubKeeps
<1>11. CASE HostInput
  <2>1. toHost # <<>>
    BY <1>11 DEF HostInput
  <2> QED BY <1>0, <1>11, <2>1, FirstMsg, AskTaken, AnswerTaken
<1>12. ASSUME NEW q \in Slots,
              ProgramEvent(q) \/ ProgramAsks(q) \/ ProgramAnswers(q) \/ ProgramEnds(q)
       PROVE  LInv'
  BY <1>12, EventKeeps, ProgramKeeps
<1>13. CASE UNCHANGED allVars
  <2>1. /\ hosted' = hosted /\ UNCHANGED <<connected, asks, checks>>
        /\ UNCHANGED <<toHost, fromHost, checkId, requests, queries, subqs>>
    BY <1>13 DEF allVars, vars, hostVars
  <2> QED BY <1>0, <1>3, <2>1, ServerQuiet DEF Tables
<1>14. CASE HostReadsDone
  <2>1. /\ hosted' = hosted /\ UNCHANGED <<connected, asks, checks>>
        /\ UNCHANGED <<toHost, fromHost, checkId, requests, queries, subqs>>
    BY <1>14 DEF HostReadsDone, vars
  <2> QED BY <1>0, <1>3, <2>1, ServerQuiet DEF Tables
<1> QED BY <1>2, <1>5, <1>6, <1>7, <1>8, <1>9, <1>10, <1>11, <1>12, <1>13, <1>14 DEF LNext

(* What the launcher has not read stays a count, whatever it does.             *)
Reading == registering \in BOOLEAN /\ unread \in Nat
LEMMA ReadingStays == ASSUME Reading, [LNext]_allVars PROVE Reading'
<1>1. CASE HostStarts \/ HostRegisters \/ HostEnds
  <2>1. CASE HostStarts
    BY <2>1 DEF HostStarts, hostVars, reading, Reading
  <2>2. CASE HostRegisters
    BY <2>2 DEF HostRegisters, Reading
  <2>3. CASE HostEnds
    <3>1. registering' = FALSE /\ unread' = 0
      BY <2>3 DEF HostEnds, NothingHosted
    <3> QED BY <3>1 DEF Reading
  <2> QED BY <1>1, <2>1, <2>2, <2>3
<1>2. CASE HostReadsDone
  <2>1. unread' \in Nat
    BY <1>2 DEF HostReadsDone
  <2> QED BY <1>2, <2>1 DEF HostReadsDone, Reading
<1>3. CASE ServeOther(OtherRequest) \/ ServeHost
  BY <1>3 DEF ServeOther, ServeHost, reading, Reading
<1>4. CASE (AnyAgent /\ UNCHANGED <<hosted, hostVars>>) \/ UNCHANGED allVars
  BY <1>4 DEF allVars, hostVars, reading, Reading
<1>5. ASSUME NEW s \in Cells, AnyAgentReplies(s)
      PROVE  Reading'
  BY <1>5 DEF AnyAgentReplies, hostVars, reading, Reading
<1>6. CASE HostInput
  BY <1>6 DEF HostInput, Reading
<1>7. ASSUME NEW q \in Slots,
             ProgramEvent(q) \/ ProgramAsks(q) \/ ProgramAnswers(q) \/ ProgramEnds(q)
      PROVE  Reading'
  BY <1>7 DEF ProgramEvent, ProgramAsks, ProgramAnswers, ProgramEnds, ProgramStep, reading, Reading
<1> QED BY <1>1, <1>2, <1>3, <1>4, <1>5, <1>6, <1>7 DEF LNext

(* The invariants always hold.                                                 *)
LEMMA LInvAlways == LSpec => [](IInv /\ LInv /\ Reading)
<1>1. LInit => IInv /\ LInv /\ Reading
  <2>1. LInit => Reading
    <3>1. LInit => registering \in BOOLEAN
      BY Zenon DEF LInit
    <3>2. LInit => unread = 0
      BY Zenon DEF LInit
    <3> QED BY <3>1, <3>2 DEF Reading
  <2>2. LInit => IInv
    BY InvInit DEF LInit
  <2> QED BY <2>1, <2>2, LInvInit
<1>2. (IInv /\ LInv /\ Reading) /\ [LNext]_allVars => (IInv /\ LInv /\ Reading)'
  BY LInvNext, ReadingStays
<1> QED BY <1>1, <1>2, PTL DEF LSpec

--------------------------------------------------------------------------------
(* The server, with a launcher among its clients, is a server of module        *)
(* CheckServer: whatever the launcher and its programs do, what is proved of   *)
(* that one holds of it (cyn-server.c knows nothing of launchers).             *)
THEOREM LauncherIsAnAgent == LSpec => Spec
<1>1. LInit => Init
  BY DEF LInit
<1>2. IInv /\ LInv /\ [LNext]_allVars => [Next]_vars
  BY LStepIsStep DEF IInv, NoDanglingCheck, LInv
<1> QED BY <1>1, <1>2, LInvAlways, PTL DEF LSpec, Spec

(* The answer of a sub-query never comes to the next program that got the same *)
(* entry of the table (on_subquery_reply, clear).                              *)
THEOREM AnswersToTheirProgramHolds == LSpec => []AnswersToTheirProgram
<1>1. IInv /\ LInv => AnswersToTheirProgram
  BY DEF LInv
<1> QED BY <1>1, LInvAlways, PTL

(* An ask is in one place, and so is a request: what is proved without         *)
(* counting, counted.                                                          *)
LEMMA CountOfOne ==
  ASSUME NEW S, \A x, y \in S : x = y
  PROVE  Cardinality(S) = IF S = {} THEN 0 ELSE 1
<1>1. CASE S = {}
  BY <1>1, FS_EmptySet
<1>2. CASE S # {}
  <2>1. PICK x \in S : S = {x}
    BY <1>2
  <2> QED BY <1>2, <2>1, FS_Singleton
<1> QED BY <1>1, <1>2

(* The places of an ask are counted from where it is.                          *)
LEMMA AskCounted ==
  ASSUME NEW s \in Cells, Distinct(toHost), Distinct(fromHost), AskPlaced(s)
  PROVE  Cardinality(Places(s)) = IF s \in asks[Host] THEN 1 ELSE 0
<1> DEFINE T == {<<"to", i>> : i \in {j \in DOMAIN toHost : toHost[j] = AskMsg(s)}}
           Q == {<<"in", q>> : q \in {p \in Slots : queries[p] # Idle /\ queries[p].ask = s}}
           F == {<<"from", i>> : i \in {j \in DOMAIN fromHost : fromHost[j] = ReplyMsg(s)}}
<1>1. /\ (T # {} <=> AskMsg(s) \in Elements(toHost)) /\ \A x, y \in T : x = y
  BY DEF Elements, Distinct
<1>2. /\ (F # {} <=> ReplyMsg(s) \in Elements(fromHost)) /\ \A x, y \in F : x = y
  BY DEF Elements, Distinct
<1>3. /\ (Q # {} <=> \E q \in Slots : Runs(q, s)) /\ \A x, y \in Q : x = y
  BY DEF AskPlaced, Runs
<1> HIDE DEF T, Q, F
<1>4. /\ (T # {} => Q = {} /\ F = {}) /\ (Q # {} => F = {})
      /\ (s \in asks[Host] <=> T # {} \/ Q # {} \/ F # {})
  BY <1>1, <1>2, <1>3 DEF AskPlaced
<1>5. Places(s) = T \cup Q \cup F
  BY DEF Places, T, Q, F
<1>6. \A x, y \in Places(s) : x = y
  BY <1>1, <1>2, <1>3, <1>4, <1>5
<1> QED BY <1>4, <1>5, <1>6, CountOfOne

(* So are those of a request.                                                  *)
LEMMA RequestCounted ==
  ASSUME NEW r \in SubIds, Distinct(toHost), Distinct(fromHost), RequestPlaced(r),
         checks[Host] \subseteq Cells
  PROVE  Cardinality(RequestPlaces(r)) = IF requests[r] # NoRequest THEN 1 ELSE 0
<1> DEFINE T == {<<"to", i>> : i \in {j \in DOMAIN toHost : toHost[j] = AnswerMsg(r)}}
           A == {<<"at", s>> : s \in {t \in checks[Host] : checkId[t] = r}}
           F == {<<"from", i>> : i \in {j \in DOMAIN fromHost :
                              fromHost[j].what = "sub" /\ fromHost[j].id = r}}
<1>1. /\ (T # {} <=> AnswerMsg(r) \in Elements(toHost)) /\ \A x, y \in T : x = y
  <2> DEFINE msg == AnswerMsg(r)
  <2> HIDE DEF msg
  <2>1. \A i, j \in DOMAIN toHost : toHost[i] = msg /\ toHost[j] = msg => i = j
    BY DEF Distinct
  <2>2. T = {<<"to", i>> : i \in {j \in DOMAIN toHost : toHost[j] = msg}}
    BY DEF msg
  <2> HIDE DEF T
  <2>3. (T # {} <=> msg \in Elements(toHost)) /\ \A x, y \in T : x = y
    BY <2>1, <2>2 DEF Elements
  <2> QED BY <2>3 DEF msg
<1>2. /\ (F # {} <=> \E m \in Elements(fromHost) : IsSub(m, r)) /\ \A x, y \in F : x = y
  <2>1. \A i, j \in DOMAIN fromHost :
          IsSub(fromHost[i], r) /\ IsSub(fromHost[j], r) => fromHost[i] = fromHost[j]
    BY DEF RequestPlaced, Elements
  <2>2. \A i, j \in DOMAIN fromHost :
          IsSub(fromHost[i], r) /\ IsSub(fromHost[j], r) => i = j
    BY <2>1 DEF Distinct
  <2> QED BY <2>2 DEF Elements, IsSub
<1>3. /\ (A # {} <=> \E t \in Cells : Waits(t, r)) /\ \A x, y \in A : x = y
  BY DEF RequestPlaced, Waits
<1> HIDE DEF T, A, F
<1>4. /\ (T # {} => A = {} /\ F = {}) /\ (A # {} => F = {})
      /\ (requests[r] # NoRequest <=> T # {} \/ A # {} \/ F # {})
  BY <1>1, <1>2, <1>3 DEF RequestPlaced
<1>5. RequestPlaces(r) = T \cup A \cup F
  BY DEF RequestPlaces, T, A, F
<1>6. \A x, y \in RequestPlaces(r) : x = y
  BY <1>1, <1>2, <1>3, <1>4, <1>5
<1> QED BY <1>4, <1>5, <1>6, CountOfOne

(* Each ask is replied once, each request answered once, whatever programs do  *)
(* (clear, terminate, on_subquery_reply).                                      *)
THEOREM OneReplyPerAskHolds == LSpec => []OneReplyPerAsk
<1>1. IInv /\ LInv /\ Reading => OneReplyPerAsk
  <2> SUFFICES ASSUME IInv, LInv, Reading
               PROVE  OneReplyPerAsk
    OBVIOUS
  <2>1. TypeOK /\ Tables /\ Host \in Clients
    BY HostAssumption, ClientsAssumption DEF IInv, NoDanglingCheck, LInv
  <2>2. LTypeOK
    BY <2>1 DEF LTypeOK, Tables, Reading
  <2>3. checks[Host] \subseteq Cells
    BY <2>1 DEF TypeOK
  <2>4. ASSUME hosted, NEW s \in Cells
        PROVE  Cardinality(Places(s)) = IF s \in asks[Host] THEN 1 ELSE 0
    BY <2>4, AskCounted DEF LInv, EachPlaced
  <2>5. ASSUME hosted, NEW r \in SubIds
        PROVE  Cardinality(RequestPlaces(r)) = IF requests[r] # NoRequest THEN 1 ELSE 0
    BY <2>3, <2>5, RequestCounted DEF LInv, EachPlaced
  <2> QED BY <2>2, <2>4, <2>5 DEF OneReplyPerAsk
<1> QED BY <1>1, LInvAlways, PTL
================================================================================
