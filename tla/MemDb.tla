---------------------------------- MODULE MemDb ----------------------------------
(*******************************************************************************)
(* The memory database (src/src/memdb.c): an array of rules that refer by      *)
(* index to an array of strings, and the transaction that tags the rules to    *)
(* be able to give them back.  The four names of a key are reduced to one.     *)
(*                                                                             *)
(* An operator named Faulty... is not the code: it is a plausible mistake in    *)
(* the definition it precedes, kept to show which property catches it.         *)
(*******************************************************************************)
EXTENDS Sequences, Ranks

CONSTANTS
  Keys, Texts,   (* names: those used as keys, those used as values            *)
  Dangling,      (* what an index past the end of the strings reads            *)
  MaxRules       (* bound on the size of the array of rules                    *)

ASSUME DanglingIsNoName == IsFiniteSet(Keys \cup Texts) /\ Dangling \notin Keys \cup Texts

VARIABLES
  strings,   (* the array of strings                                           *)
  rules,     (* the array of rules [key, value, saved, tag]                    *)
  active,    (* is a transaction active?                                       *)
  count,     (* number of rules when it started                                *)
  ended,     (* history: how the transaction that just ended did so            *)
  atStart    (* history: what the rules said when it started                   *)

vars == <<strings, rules, active, count, ended, atStart>>

Names == Keys \cup Texts
Index == 1 .. Cardinality(Names)
Tags  == {"CLEAN", "DELETED", "CHANGED"}

(* string_itf                                                                 *)
Text(i) == IF i \in DOMAIN strings THEN strings[i] ELSE Dangling

(* What a reader sees of the rules: a function from keys to values.  Inside a  *)
(* transaction the deleted rules are passed over.                             *)
Visible == {i \in DOMAIN rules : rules[i].tag # "DELETED"}
View ==
  [k \in {Text(rules[i].key) : i \in Visible} |->
     Text(rules[CHOOSE i \in Visible : Text(rules[i].key) = k].value)]

Init ==
  /\ strings = <<>> /\ rules = <<>>
  /\ active = FALSE /\ count = 0
  /\ ended = "none" /\ atStart = <<>>

--------------------------------------------------------------------------------
Start ==
  /\ ~active
  /\ active' = TRUE
  /\ count' = Len(rules)
  /\ ended' = "none" /\ atStart' = View
  /\ UNCHANGED <<strings, rules>>

(* index_itf, with create                                                     *)
Interned(strs, name) ==
  IF \E i \in DOMAIN strs : strs[i] = name THEN strs ELSE Append(strs, name)
IndexOf(strs, name) == CHOOSE i \in DOMAIN strs : strs[i] = name

(* anydb_set: updates the rule of the key when it differs, or else adds it.    *)
Set(key, value) ==
  LET strs == Interned(Interned(strings, key), value)
      k    == IndexOf(strs, key)
      v    == IndexOf(strs, value)
      same == {i \in Visible : rules[i].key = k}
      new  == [key |-> k, value |-> v, saved |-> v, tag |-> "CLEAN"]
  IN  /\ active
      /\ strings' = strs
      /\ IF same = {}
         THEN Len(rules) < MaxRules /\ rules' = Append(rules, new)
         ELSE rules' = [i \in DOMAIN rules |->
                          IF i \in same /\ rules[i].value # v
                          THEN [rules[i] EXCEPT !.value = v, !.tag = "CHANGED"]
                          ELSE rules[i]]
      /\ UNCHANGED <<active, count, ended, atStart>>

(* What the history keeps of a transaction is forgotten at the next step.      *)
Forget == IF active THEN UNCHANGED <<ended, atStart>>
          ELSE ended' = "none" /\ atStart' = <<>>

(* Any traversal that removes rules: a drop, or one that meets dead rules.     *)
(* Outside a transaction the rules leave the array at once; their order there  *)
(* is never observed.                                                         *)
Kept(ks) == Picked(rules, {i \in DOMAIN rules : Text(rules[i].key) \notin ks})

Remove(ks) ==
  /\ rules' = IF active
              THEN [i \in DOMAIN rules |->
                      IF Text(rules[i].key) \in ks
                      THEN [rules[i] EXCEPT !.tag = "DELETED"] ELSE rules[i]]
              ELSE Kept(ks)
  /\ Forget
  /\ UNCHANGED <<strings, active, count>>

FaultyCommit ==
  /\ active
  /\ rules' = [i \in DOMAIN rules |-> [rules[i] EXCEPT !.tag = "CLEAN"]]
  /\ active' = FALSE /\ ended' = "commit"
  /\ UNCHANGED <<strings, count, atStart>>

(* The value "saved" is left as it was, older than the one committed.          *)
Commit ==
  /\ active
  /\ LET left == Picked(rules, Visible)
     IN  rules' = [i \in DOMAIN left |-> [left[i] EXCEPT !.tag = "CLEAN"]]
  /\ active' = FALSE /\ ended' = "commit"
  /\ UNCHANGED <<strings, count, atStart>>

FaultyCancel ==
  /\ active
  /\ rules' = [i \in DOMAIN rules |->
                 IF rules[i].tag = "CLEAN" THEN rules[i]
                 ELSE [rules[i] EXCEPT !.value = rules[i].saved, !.tag = "CLEAN"]]
  /\ active' = FALSE /\ ended' = "cancel"
  /\ UNCHANGED <<strings, count, atStart>>

Cancel ==
  /\ active
  /\ rules' = [i \in 1 .. count |->
                 IF rules[i].tag = "CLEAN" THEN rules[i]
                 ELSE [rules[i] EXCEPT !.value = rules[i].saved, !.tag = "CLEAN"]]
  /\ active' = FALSE /\ ended' = "cancel"
  /\ UNCHANGED <<strings, count, atStart>>

(* gc_itf packs the strings in use and renumbers keys and values, but not the  *)
(* saved values.  An index past the end reads garbage from the array renum.    *)
Used(list) == {list[i].key : i \in DOMAIN list} \cup {list[i].value : i \in DOMAIN list}
Packed(used) == Picked(strings, used \cap DOMAIN strings)

FaultyRenumbered(used, i, garbage) ==
  IF i \in DOMAIN strings THEN i ELSE garbage
Renumbered(used, i, garbage) ==
  IF i \in DOMAIN strings THEN Rank(used, i) ELSE garbage

(* anydb_cleanup: the dead rules go, then the strings they alone used.         *)
Cleanup(dead, garbage) ==
  /\ ~active
  /\ LET left == Kept(dead)
         used == Used(left)
     IN  /\ strings' = Packed(used)
         /\ rules' = [i \in DOMAIN left |->
                        [left[i] EXCEPT !.key = Renumbered(used, @, garbage),
                                        !.value = Renumbered(used, @, garbage)]]
  /\ Forget
  /\ UNCHANGED <<active, count>>

Next ==
  \/ Start
  \/ \E k \in Keys, v \in Texts : Set(k, v)
  \/ \E ks \in SUBSET Keys : Remove(ks)
  \/ Commit
  \/ Cancel
  \/ \E dead \in SUBSET Keys, garbage \in Index : Cleanup(dead, garbage)

Spec == Init /\ [][Next]_vars

--------------------------------------------------------------------------------
(* Indexes and tags are well formed: a string is stored once, the key of every *)
(* rule exists, and no tag outlives its transaction.                          *)
TypeOK ==
  /\ \A i, j \in DOMAIN strings : strings[i] = strings[j] => i = j
  /\ strings \in Seq(Names)
  /\ \A i \in DOMAIN rules :
       /\ rules[i].key \in DOMAIN strings /\ strings[rules[i].key] \in Keys
       /\ {rules[i].value, rules[i].saved} \subseteq Index
       /\ rules[i].tag \in Tags
       /\ ~active => rules[i].tag = "CLEAN"
  /\ active => count <= Len(rules)

(* No key has two rules in sight, even when it was dropped and set again in    *)
(* one transaction, which leaves two rules of the key in the array.            *)
OneVisibleRule ==
  \A i, j \in Visible : Text(rules[i].key) = Text(rules[j].key) => i = j

(* Ending a transaction with commit changes nothing of what is seen: tagged    *)
(* rules go, changed ones stay (transaction_itf, Commit).                     *)
CommitKeepsView ==
  [][active /\ ~active' /\ ended' = "commit" => View' = View]_vars

(* A cancelled transaction gives back exactly the keys it found, whatever was  *)
(* dropped, added, or dropped and added again (transaction_itf, Cancel).       *)
CancelRestoresKeys == ended = "cancel" => DOMAIN View = DOMAIN atStart

(* Outside a transaction rules can only disappear: packing and renumbering the *)
(* strings never gives a rule another decision or another key (gc_itf).        *)
DecisionsSurviveGc ==
  [][~active /\ ~active' =>
       /\ DOMAIN View' \subseteq DOMAIN View
       /\ \A k \in DOMAIN View' : View[k] # Dangling => View'[k] = View[k]]_vars

(* A cancelled transaction gives back exactly the rules it found, as anydb.h   *)
(* and db.h say of Anydb_Transaction_Cancel and db_transaction_end.           *)
CancelRestores == ended = "cancel" => View = atStart
================================================================================
