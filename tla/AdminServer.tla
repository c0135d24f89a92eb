------------------------------- MODULE AdminServer -------------------------------
(*******************************************************************************)
(* The administration requests of src/src/cyn-server.c (enter, set, drop,      *)
(* leave, clearall) and the end of a connection, over the critical section of  *)
(* module Cyn.  The server is single threaded: it treats one request, with     *)
(* all the callbacks it triggers, before it looks at the next.                 *)
(*                                                                             *)
(* An operator named Faulty... is not the code: it is a plausible mistake in    *)
(* the definition it precedes, kept to show which property catches it.         *)
(*******************************************************************************)
EXTENDS Cyn

CONSTANTS MaxQueue   (* bound on the records of one critical section           *)

ASSUME MaxQueueAssumption == MaxQueue \in Nat

VARIABLES
  connected,   (* the clients that have a connection                           *)
  entered,     (* entered[c]: the client was told it is inside                 *)
  entering     (* entering[c]: the client waits to be told so                  *)

vars == <<magic_locker, awaiters, queue, torn, rules, cancelled, changeid,
          connected, entered, entering>>

Clients == Magics

Init ==
  /\ CynInit
  /\ connected = {}
  /\ entered = [c \in Clients |-> FALSE]
  /\ entering = [c \in Clients |-> FALSE]

--------------------------------------------------------------------------------
(* create_client                                                              *)
Connect(c) ==
  /\ c \notin connected
  /\ connected' = connected \cup {c}
  /\ UNCHANGED <<cynVars, entered, entering>>

(* entercb: called by cyn_enter_async or cyn_leave for the magic that gets the *)
(* critical section; the client "gone" leaves it.                              *)
entercb(gone) ==
  /\ entered' = [c \in Clients |->
                   \/ c = magic_locker' /\ c # magic_locker
                   \/ entered[c] /\ c # gone]
  /\ entering' = [c \in Clients |-> entering[c] /\ c # magic_locker']

Enter(c) ==
  /\ c \in connected
  /\ ~entered[c] /\ ~entering[c]
  /\ cyn_enter_async(c)
  /\ entered' = [entered EXCEPT ![c] = magic_locker' = c]
  /\ entering' = [entering EXCEPT ![c] = magic_locker' # c]
  /\ UNCHANGED connected

Set(c, k, v) ==
  /\ c \in connected
  /\ entered[c]
  /\ Len(queue) < MaxQueue
  /\ cyn_record(SetRecord(c, k, v))
  /\ UNCHANGED <<connected, entered, entering>>

Drop(c, ks) ==
  /\ c \in connected
  /\ entered[c]
  /\ Len(queue) < MaxQueue
  /\ cyn_record(DropRecord(c, ks))
  /\ UNCHANGED <<connected, entered, entering>>

(* cyn_set or cyn_drop for which memory lacks after a part of the record.      *)
Refuse(c) ==
  /\ c \in connected
  /\ entered[c]
  /\ cyn_record_refused
  /\ UNCHANGED <<connected, entered, entering>>

(* The flag "entered" falls whatever the outcome of the commit.               *)
Leave(c, outcome) ==
  /\ c \in connected
  /\ entered[c]
  /\ cyn_leave(c, outcome)
  /\ entercb(c)
  /\ UNCHANGED connected

ClearAll(c) ==
  /\ c \in connected
  /\ cyn_changed
  /\ UNCHANGED <<magic_locker, awaiters, queue, torn, rules, cancelled,
                 connected, entered, entering>>

(* destroy_client, on a hangup, a read error or an invalid request.  The first *)
(* disjunct of each pair is the client that waits, the second the one inside.  *)
FaultyDestroy(c) ==
  /\ c \in connected
  /\ connected' = connected \ {c}
  /\ \/ entered[c] /\ cyn_leave(c, "rollback") /\ entercb(c)
     \/ ~entered[c] /\ UNCHANGED cynVars /\ UNCHANGED entered
        /\ entering' = [entering EXCEPT ![c] = FALSE]

Destroy(c) ==
  /\ c \in connected
  /\ connected' = connected \ {c}
  /\ \/ /\ entering[c]
        /\ cyn_enter_async_cancel(c)
        /\ entering' = [entering EXCEPT ![c] = FALSE]
        /\ UNCHANGED entered
     \/ /\ entered[c]
        /\ cyn_leave(c, "rollback")
        /\ entercb(c)
     \/ /\ ~entering[c] /\ ~entered[c]
        /\ UNCHANGED <<cynVars, entered, entering>>

Next ==
  \E c \in Clients :
    \/ Connect(c)
    \/ Enter(c)
    \/ \E k \in Keys, v \in Values : Set(c, k, v)
    \/ \E ks \in SUBSET Keys : Drop(c, ks)
    \/ Refuse(c)
    \/ \E o \in Outcomes : Leave(c, o)
    \/ ClearAll(c)
    \/ Destroy(c)

Spec == Init /\ [][Next]_vars

--------------------------------------------------------------------------------
(* The state is well formed; the change id is never the null one that means    *)
(* "no id" to the clients (cyn_changed).                                       *)
TypeOK ==
  /\ magic_locker \in Magics \cup {NoOne}
  /\ awaiters \in Seq(Magics)
  /\ queue \in Seq(Record)
  /\ torn \in BOOLEAN /\ cancelled \in BOOLEAN
  /\ rules \in Contents
  /\ changeid \in 1 .. ChangeIdModulus - 1
  /\ connected \subseteq Clients
  /\ entered \in [Clients -> BOOLEAN]
  /\ entering \in [Clients -> BOOLEAN]

(* The lock of cyn.c and the flags of the connections, two records of the same *)
(* fact kept by two files, agree in every state: a client believes it is       *)
(* inside exactly when it is the locker, so that never two do; and it waits    *)
(* for an answer exactly when it is listed once among the awaiters, so that no *)
(* waiter is forgotten nor woken after its end (entercb, destroy_client).      *)
EnteredIsLocker == \A c \in Clients : entered[c] <=> magic_locker = c
EnteringIsListed == \A c \in Clients : entering[c] <=> c \in Listed(awaiters)
WaitingNeedsLocker == magic_locker = NoOne => awaiters = <<>>
LockerDoesNotWait == magic_locker \notin Listed(awaiters)
OnlyConnected == \A c \in Clients : entered[c] \/ entering[c] => c \in connected

LockAgreement ==
  /\ EnteredIsLocker
  /\ EnteringIsListed
  /\ WaitingNeedsLocker
  /\ LockerDoesNotWait
  /\ OnlyConnected
  /\ NoDuplicate(awaiters)

(* What waits to be committed was written by the client that is inside, and by *)
(* no other, parts of refused writes included: no change survives its author's *)
(* leaving, failing or vanishing to be committed by the next one (queue_clear; *)
(* cyn_set checks no identity).                                                *)
QueueIsLockers ==
  /\ \A i \in 1 .. Len(queue) : queue[i].by = magic_locker
  /\ torn => magic_locker # NoOne

(* A client that waits is never overtaken by one that came after it.          *)
FirstComeFirstServed ==
  [][\A c, d \in Clients :
       (/\ entering[c] /\ c \in connected'
        /\ \/ \E i, j \in 1 .. Len(awaiters) :
                awaiters[i] = d /\ awaiters[j] = c /\ i < j
           \/ ~entering[d])
       => ~(entered'[d] /\ ~entered[d])]_vars

(* Each change of the rules gets another change id than the previous content,  *)
(* also when the commit reports an error or the counter wraps: otherwise the   *)
(* clients' caches would stay valid over it.  The exception is a replay that   *)
(* fails: it is cancelled, the cancel of the databases does not always restore *)
(* (MemDb, FileDb), and the code announces nothing then.                       *)
ChangesAnnounced ==
  [][rules' # rules => changeid' # changeid \/ cancelled']_vars

================================================================================
