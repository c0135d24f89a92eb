-------------------------------- MODULE RuleBase --------------------------------
(*******************************************************************************)
(* The data plane of src/src/db.c: the rules of the memory database, the rules *)
(* of the file database, and the operations that read and change them.  The    *)
(* transaction around the changes is the subject of modules MemDb and FileDb.   *)
(*                                                                             *)
(* An operator named Faulty... is not the code: it is a plausible mistake in    *)
(* the definition it precedes, kept to show which property catches it.         *)
(*******************************************************************************)
EXTENDS AnyDb

CONSTANTS
  SetKeys,   (* keys given to db_set                                           *)
  Filters,   (* keys given to db_drop                                          *)
  Queries,   (* keys given to db_test                                          *)
  Expires,   (* expiration dates given to db_set                               *)
  MaxRules,  (* bound on the number of rules stored                            *)
  MaxTime    (* bound on the clock                                             *)

ASSUME KeysAreKeys == SetKeys \cup Filters \cup Queries \subseteq Key
ASSUME DatesAreIntegers == Expires \subseteq Int /\ MaxTime \in Nat

VARIABLES
  mem,    (* rules of the memory database                                      *)
  file,   (* rules of the file database                                        *)
  now     (* the clock that time(NULL) reads                                   *)

vars == <<mem, file, now>>

Init == mem = {} /\ file = {} /\ now = 0

(* A rule for one session is volatile, a rule for all sessions persistent.    *)
FaultyGoesToFile(key) == key["session"] = Wide
GoesToFile(key) == key["session"] \in {Any, Wide, Empty}

DbSet(key, value, expire) ==
  /\ IF GoesToFile(key)
     THEN file' \in SetResults(file, key, value, expire, now) /\ UNCHANGED mem
     ELSE mem' \in SetResults(mem, key, value, expire, now) /\ UNCHANGED file
  /\ Cardinality(mem' \cup file') <= MaxRules
  /\ UNCHANGED now

DbDrop(filter) ==
  /\ file' \in DropResults(file, filter, now)
  /\ mem' \in DropResults(mem, filter, now)
  /\ UNCHANGED now

(* The decision: the better of the two databases, the memory one on a tie.    *)
DbTestAnswer(query) ==
  LET m == Test(mem, query, now)
      f == Test(file, query, now)
  IN  IF f.score > m.score THEN f ELSE m

(* Asking purges both databases of their dead rules, as db_cleanup does.      *)
DbTest ==
  /\ mem' = Live(mem, now)
  /\ file' = Live(file, now)
  /\ UNCHANGED now

Tick == now < MaxTime /\ now' = now + 1 /\ UNCHANGED <<mem, file>>

Next ==
  \/ \E k \in SetKeys, v \in Values, e \in Expires : DbSet(k, v, e)
  \/ \E k \in Filters : DbDrop(k)
  \/ DbTest
  \/ Tick

Spec == Init /\ [][Next]_vars

--------------------------------------------------------------------------------
(* Rules are well formed; in particular no rule is for ANY client, session or  *)
(* user, a name that no query could ever match, and none has an empty name.    *)
TypeOK ==
  /\ mem \cup file \subseteq Rule
  /\ \A r \in mem \cup file : \A f \in Field :
       r.key[f] # Empty /\ (f # "permission" => r.key[f] # Any)
  /\ now \in 0 .. MaxTime

(* README.md, rule selection: among the rules that match, those with the       *)
(* fewest STARs; among these, the one that matches more exactly in the order   *)
(* session, user, client, permission.                                         *)
Stars(r) == Cardinality({f \in Field : r.key[f] = Wide})
Priority == <<"session", "user", "client", "permission">>

Preferred(r, s) ==
  \/ Stars(r) < Stars(s)
  \/ /\ Stars(r) = Stars(s)
     /\ \E i \in 1 .. 4 :
          /\ r.key[Priority[i]] # Wide /\ s.key[Priority[i]] = Wide
          /\ \A j \in 1 .. i - 1 :
               (r.key[Priority[j]] = Wide) <=> (s.key[Priority[j]] = Wide)

InForce(r) ==
  \/ r.expire \in {0, -1}
  \/ r.expire > now
  \/ r.expire < 0 /\ -(1 + r.expire) > now

Applicable(query) ==
  {r \in mem \cup file :
     InForce(r) /\ \A f \in Field : r.key[f] = Wide \/ SameName(f, r.key[f], query[f])}

(* The best answer to a query, by the README.                                  *)
FollowsReadme(q) ==
  LET answer == DbTestAnswer(q)
  IN  IF Applicable(q) = {} THEN answer = Nothing
      ELSE \E r \in Applicable(q) :
             /\ \A s \in Applicable(q) \ {r} : Preferred(r, s)
             /\ answer.score > 0
             /\ answer.value = r.value
             /\ answer.expire = r.expire

(* Whatever the rules stored in the two databases, a query is answered by the *)
(* rule that the README selects among the rules not expired, and by none when *)
(* no such rule applies.  The code reaches it by adding up scores in each     *)
(* database and comparing the two sums (anydb_test, db_test).  A query for    *)
(* the permission "#" is left out: several rules may have it (OneRulePerKey).  *)
SelectionFollowsReadme ==
  \A q \in Queries : q["permission"] # Any => FollowsReadme(q)

SameKey(a, b) == \A f \in Field : SameName(f, a[f], b[f])

(* Rules are well formed, and no two of them ever bear the same key,           *)
(* permissions compared without case: a set after any history of sets, drops,  *)
(* purges and expirations replaces the former decision and never hides behind  *)
(* it (anydb_set, set_cb).  The permission "#" is left out: a set that gives   *)
(* it as an empty text does not find it.                                      *)
OneRulePerKey ==
  TypeOK /\ \A r, s \in mem \cup file :
    r.key["permission"] # Any /\ SameKey(r.key, s.key) => r = s

(* A rule for one session never reaches the file, and a rule for all sessions  *)
(* is never volatile (README.md: persistence of the rules; db_set).            *)
PersistentExactlyWide ==
  /\ \A r \in file : r.key["session"] = Wide
  /\ \A r \in mem : r.key["session"] # Wide
================================================================================
