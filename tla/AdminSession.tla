------------------------------- MODULE AdminSession -------------------------------
(*******************************************************************************)
(* Programs that change the rules, from their call to the database: the        *)
(* scripts of src/src/main-cynagora-admin.c and src/compat/src/lib-compat.c    *)
(* (enter, write, leave), the administration calls of src/src/cynagora.c that  *)
(* they make, and the server of module AdminServer at the other end of the     *)
(* connection.  Calls are synchronous: a handle has at most one request or     *)
(* reply in its socket.                                                        *)
(*                                                                             *)
(* A connection that no handle uses is any other program, that sends what it   *)
(* wants.  A link may break at any time, a program may be killed at any time:  *)
(* the server learns both as a hangup, later than the program may reconnect.   *)
(*                                                                             *)
(* An operator named Faulty... is not the code: it is a plausible mistake in    *)
(* the definition it precedes, kept to show which property catches it.         *)
(*******************************************************************************)
EXTENDS AdminServer

CONSTANTS
  Handles,   (* the cynagora_t of the programs                                 *)
  NoLink,      (* the fd of a handle that has no usable connection             *)
  Plans,       (* what scripts write: sequences of [keys, value]               *)
  OtherWrites  (* what other programs write: [keys, value]                     *)

(* A set is of one key, a drop of the rules of several keys.                   *)
Writes ==
  [keys : {{k} : k \in Keys}, value : Values] \cup [keys : SUBSET Keys, value : {None}]

ASSUME NoLinkAssumption == NoLink \notin Clients
ASSUME PlansAssumption ==
  \A p \in Plans : p \in Seq(Writes) /\ Len(p) \in 1 .. MaxQueue
ASSUME OtherWritesAssumption == OtherWrites \subseteq Writes

VARIABLES
  cut,      (* connections whose hangup the server has not seen                *)
  link,     (* link[h]: the connection of the handle (cynagora_t.fd)           *)
  held,     (* held[h]: the flag cynagora_t.entered                            *)
  call,     (* call[h]: where the request or the reply of the call in course is*)
  script    (* script[h]: the script in course and the result of the last one; *)
            (* "landed" is history: what a commit made of its writes           *)

handleVars == <<cut, link, held, call, script>>
sessionVars == <<vars, handleVars>>

Calls == {"none", "sent", "waiting", "done", "error"}
Kinds == {"cli", "compat"}
Results == {"none", "ok", "failed"}
Script(pc, kind, plan, rc) ==
  [pc |-> pc, kind |-> kind, plan |-> plan, acked |-> 0, rc |-> rc, landed |-> <<>>]
Ended(rc) == Script("idle", "cli", <<>>, rc)

SessionInit ==
  /\ Init
  /\ cut = {}
  /\ link = [h \in Handles |-> NoLink]
  /\ held = [h \in Handles |-> FALSE]
  /\ call = [h \in Handles |-> "none"]
  /\ script = [h \in Handles |-> Ended("none")]

--------------------------------------------------------------------------------
(* How a script goes on when its call returned "ok" or an error.  The command  *)
(* line client ignores how leaving ended, the compatibility library reports it *)
(* when nothing failed before.  Both leave once they entered.                  *)
AfterEnter(s, ok) ==
  IF ok THEN [s EXCEPT !.pc = "write"] ELSE Ended("failed")

FaultyAfterWrite(s, ok) ==
  LET n == s.acked + 1
  IN  IF n < Len(s.plan) THEN [s EXCEPT !.acked = n]
      ELSE [s EXCEPT !.acked = n, !.pc = "leave", !.rc = IF ok THEN "ok" ELSE "failed"]

AfterWrite(s, ok) ==
  LET n == s.acked + 1
  IN  IF ~ok THEN [s EXCEPT !.pc = "leave", !.rc = "failed"]
      ELSE IF n < Len(s.plan) THEN [s EXCEPT !.acked = n]
      ELSE [s EXCEPT !.acked = n, !.pc = "leave", !.rc = "ok"]

FaultyAfterLeave(s, ok) == Ended(s.rc)
AfterLeave(s, ok) ==
  Ended(IF s.kind = "compat" /\ ~ok THEN "failed" ELSE s.rc)

Goes(s, ok) ==
  CASE s.pc = "enter" -> AfterEnter(s, ok)
    [] s.pc = "write" -> AfterWrite(s, ok)
    [] s.pc = "leave" -> AfterLeave(s, ok)

Commits(s) == s.rc = "ok"

Start(h) ==
  /\ script[h].pc = "idle"
  /\ \E p \in Plans, k \in Kinds :
       /\ k = "cli" => Len(p) = 1
       /\ script' = [script EXCEPT ![h] = Script("enter", k, p, "none")]
  /\ UNCHANGED <<vars, cut, link, held, call>>

--------------------------------------------------------------------------------
(* The checks at the head of cynagora_enter, cynagora_set, cynagora_drop and   *)
(* cynagora_leave: -ECANCELED without a request.                               *)
Refused(h) == held[h] <=> script[h].pc = "enter"

CallRefused(h) ==
  /\ script[h].pc # "idle" /\ call[h] = "none"
  /\ Refused(h)
  /\ script' = [script EXCEPT ![h] = Goes(@, FALSE)]
  /\ UNCHANGED <<vars, cut, link, held, call>>

(* ensure_opened, then putxkv: the request leaves on the link, or on a new one *)
(* that the server accepted (the hand-shake is part of the step).              *)
Send(h) ==
  /\ script[h].pc # "idle" /\ call[h] = "none"
  /\ ~Refused(h)
  /\ call' = [call EXCEPT ![h] = "sent"]
  /\ \/ link[h] # NoLink /\ UNCHANGED <<link, vars>>
     \/ link[h] = NoLink
        /\ \E c \in Clients : Connect(c) /\ link' = [link EXCEPT ![h] = c]
  /\ UNCHANGED <<cut, held, script>>

(* connection fails: no server, no memory, or a hand-shake cut short.         *)
CannotConnect(h) ==
  /\ script[h].pc # "idle" /\ call[h] = "none"
  /\ ~Refused(h) /\ link[h] = NoLink
  /\ script' = [script EXCEPT ![h] = Goes(@, FALSE)]
  /\ UNCHANGED <<vars, cut, link, held, call>>

(* The reply is read, or wait_reply says that the link is broken.  The flag    *)
(* follows only a success.                                                     *)
FaultyFlag(h, ok) == IF script[h].pc = "leave" /\ ok THEN FALSE ELSE held[h]
Flag(h, ok) ==
  CASE script[h].pc = "enter" /\ ok -> TRUE
    [] script[h].pc = "leave" /\ ok -> FALSE
    [] OTHER -> held[h]

Return(h) ==
  /\ call[h] \in {"done", "error"}
  /\ call' = [call EXCEPT ![h] = "none"]
  /\ LET ok == call[h] = "done"
     IN  /\ held' = [held EXCEPT ![h] = Flag(h, ok)]
         /\ script' = [script EXCEPT ![h] = Goes(@, ok)]
  /\ UNCHANGED <<vars, cut, link>>

--------------------------------------------------------------------------------
(* onrequest, for the request of h.  An answer sent by entercb reaches a       *)
(* handle that waits for it, whoever made the lock free.                       *)
Woken(calls) ==
  [h \in Handles |-> IF calls[h] = "waiting" /\ entered'[link[h]] THEN "done" ELSE calls[h]]

Replied(h, answer) ==
  /\ call' = Woken([call EXCEPT ![h] = answer])
  /\ UNCHANGED <<cut, link, held>>

Requests(h, pc) == call[h] = "sent" /\ script[h].pc = pc

ServeEnter(h) ==
  /\ Requests(h, "enter")
  /\ Enter(link[h])
  /\ Replied(h, "waiting")
  /\ UNCHANGED script

Write(c, w) ==
  \/ w.value # None /\ \E k \in w.keys : Set(c, k, w.value)
  \/ w.value = None /\ Drop(c, w.keys)

(* cyn_set or cyn_drop, that lack of memory may refuse, with nothing or a part *)
(* of the record in the queue.                                                 *)
ServeWrite(h) ==
  /\ Requests(h, "write")
  /\ entered[link[h]]
  /\ \/ Write(link[h], script[h].plan[script[h].acked + 1]) /\ Replied(h, "done")
     \/ UNCHANGED vars /\ Replied(h, "error")
     \/ Refuse(link[h]) /\ Replied(h, "error")
  /\ UNCHANGED script

(* What a commit makes of a queue: its writes, or what is in no plan.          *)
Bare(q) == [i \in 1 .. Len(q) |-> [keys |-> q[i].keys, value |-> q[i].value]]
Fragment == [keys |-> {}, value |-> NoLink]
Landed == IF torn THEN Append(Bare(queue), Fragment) ELSE Bare(queue)

ServeLeave(h) ==
  /\ Requests(h, "leave")
  /\ \E o \in Outcomes :
       /\ Commits(script[h]) <=> o # "rollback"
       /\ Leave(link[h], o)
       /\ script' = IF o \in Replaces
                    THEN [script EXCEPT ![h].landed = Landed] ELSE script
       /\ Replied(h, IF o \in {"committed", "rollback"} THEN "done" ELSE "error")

(* The jump to "invalid": a write or a leave on a connection that is not       *)
(* inside, an enter on one that is.  The client is told, then its connection   *)
(* is closed.                                                                  *)
ServeInvalid(h) ==
  /\ call[h] = "sent"
  /\ entered[link[h]] <=> script[h].pc = "enter"
  /\ Destroy(link[h])
  /\ call' = Woken([call EXCEPT ![h] = "error"])
  /\ link' = [link EXCEPT ![h] = NoLink]
  /\ UNCHANGED <<cut, held, script>>

Serve(h) == ServeEnter(h) \/ ServeWrite(h) \/ ServeLeave(h) \/ ServeInvalid(h)

(* A hangup: destroy_client for a connection whose other end is gone.         *)
Hangup(c) ==
  /\ c \in cut
  /\ Destroy(c)
  /\ cut' = cut \ {c}
  /\ call' = Woken(call)
  /\ UNCHANGED <<link, held, script>>

--------------------------------------------------------------------------------
(* The link breaks: what is in the socket may be lost, a reply may be read.   *)
Break(h) ==
  /\ link[h] # NoLink
  /\ cut' = cut \cup {link[h]}
  /\ link' = [link EXCEPT ![h] = NoLink]
  /\ call' \in {[call EXCEPT ![h] = IF @ = "none" THEN "none" ELSE "error"],
                [call EXCEPT ![h] = IF @ \in {"sent", "waiting"} THEN "error" ELSE @]}
  /\ UNCHANGED <<vars, held, script>>

(* The program is killed; another one takes its place.                         *)
Kill(h) ==
  /\ script[h].pc # "idle"
  /\ cut' = IF link[h] = NoLink THEN cut ELSE cut \cup {link[h]}
  /\ link' = [link EXCEPT ![h] = NoLink]
  /\ held' = [held EXCEPT ![h] = FALSE]
  /\ call' = [call EXCEPT ![h] = "none"]
  /\ script' = [script EXCEPT ![h] = Ended("none")]
  /\ UNCHANGED vars

(* The programs that use a connection as they like.                           *)
Others == Clients \ ({link[h] : h \in Handles} \cup cut)
Quits(c) == entered[c] /\ (Destroy(c) \/ \E o \in Outcomes : Leave(c, o))
Asks(c) ==
  \/ Connect(c)
  \/ Enter(c)
  \/ \E w \in OtherWrites : Write(c, w)
  \/ Refuse(c)
  \/ ClearAll(c)
  \/ ~entered[c] /\ Destroy(c)

OtherStep(c, A) ==
  /\ c \in Others
  /\ A
  /\ call' = Woken(call)
  /\ UNCHANGED <<cut, link, held, script>>

OtherQuits(c) == OtherStep(c, Quits(c))
OtherAsks(c) == OtherStep(c, Asks(c))

Progress(h) == CallRefused(h) \/ Send(h) \/ CannotConnect(h) \/ Return(h) \/ Serve(h)

SessionNext ==
  \/ \E h \in Handles : Start(h) \/ Progress(h) \/ Break(h) \/ Kill(h)
  \/ \E c \in Clients : Hangup(c) \/ OtherQuits(c) \/ OtherAsks(c)

(* The loops of the server and of the library turn while there is something to *)
(* do, a script makes its next call, a hangup is seen.  That other programs do *)
(* not stay inside for ever is an assumption on them.                          *)
Fairness ==
  /\ \A h \in Handles : WF_sessionVars(Progress(h))
  /\ \A c \in Clients : WF_sessionVars(Hangup(c)) /\ WF_sessionVars(OtherQuits(c))

SessionSpec == SessionInit /\ [][SessionNext]_sessionVars /\ Fairness

--------------------------------------------------------------------------------
(* The state of the handles is well formed.                                    *)
SessionTypeOK ==
  /\ TypeOK
  /\ cut \subseteq connected
  /\ link \in [Handles -> Clients \cup {NoLink}]
  /\ \A h \in Handles : link[h] # NoLink => link[h] \in connected \ cut
  /\ held \in [Handles -> BOOLEAN]
  /\ call \in [Handles -> Calls]

(* A script commits all that it was given to write, or nothing, over           *)
(* reconnections in its middle, replies lost, refused writes that leave a part *)
(* of a record in the queue, and kills: no part of it is ever committed, nor   *)
(* what another program wrote.  What a cancel gives back when a replay fails   *)
(* is not a matter of scripts (MemDb, FileDb).                                 *)
AllOrNothing == \A h \in Handles : script[h].landed \in {<<>>, script[h].plan}

(* What a program is told is true, as far as its library tells: for            *)
(* cynara_admin_set_policies and cynara_admin_erase, success means committed;  *)
(* for the command line, that reports only how the write ended, failure means  *)
(* that nothing was committed.                                                 *)
ReportIsTrue ==
  [][\A h \in Handles :
       LET s == script[h]
           rc == script'[h].rc
       IN  s.pc # "idle" /\ script'[h].pc = "idle" =>
             /\ s.kind = "compat" /\ rc = "ok" => s.landed = s.plan
             /\ s.kind = "cli" /\ rc = "failed" => s.landed = <<>>]_sessionVars

(* Whatever breaks in it, a script comes to its end and a client that waits    *)
(* for the critical section gets it or goes.  (The loop of queue_play is one   *)
(* step here; module Queue says when it ends.)                                 *)
ScriptsEnd == \A h \in Handles : script[h].pc # "idle" ~> script[h].pc = "idle"
WaitersEnd == \A c \in Clients : entering[c] ~> ~entering[c]
================================================================================
