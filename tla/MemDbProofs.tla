------------------------------ MODULE MemDbProofs ------------------------------
(*******************************************************************************)
(* Proofs about module MemDb, for any finite set of names and any size of the  *)
(* array of rules: what starting, ending and packing keep of the rules.        *)
(*******************************************************************************)
EXTENDS MemDb, Lemmas

RuleRecord == [key : Index, value : Index, saved : Index, tag : Tags]

TextIn(ss, i) == IF i \in DOMAIN ss THEN ss[i] ELSE Dangling
Seen(rs) == {i \in DOMAIN rs : rs[i].tag # "DELETED"}
KeysOf(ss, rs, D) == {TextIn(ss, rs[i].key) : i \in D}
ViewOf(ss, rs) ==
  [k \in KeysOf(ss, rs, Seen(rs)) |->
     TextIn(ss, rs[CHOOSE i \in Seen(rs) : TextIn(ss, rs[i].key) = k].value)]

GoodStrings(ss) ==
  ss \in Seq(Names) /\ \A i, j \in DOMAIN ss : ss[i] = ss[j] => i = j
GoodRules(ss, rs) ==
  /\ rs \in Seq(RuleRecord)
  /\ \A i \in DOMAIN rs : rs[i].key \in DOMAIN ss /\ ss[rs[i].key] \in Keys
AllClean(rs) == \A i \in DOMAIN rs : rs[i].tag = "CLEAN"
DistinctKeys(rs, D) == \A i, j \in D : rs[i].key = rs[j].key => i = j

(* The first rules of the array are those that the transaction found: a cancel *)
(* that cuts the array there gives back their keys.                            *)
Found ==
  active => /\ count <= Len(rules)
            /\ DistinctKeys(rules, 1 .. count)
            /\ DOMAIN atStart = KeysOf(strings, rules, 1 .. count)

IInv ==
  /\ GoodStrings(strings) /\ GoodRules(strings, rules)
  /\ active \in BOOLEAN /\ count \in Nat
  /\ ~active => AllClean(rules)
  /\ DistinctKeys(rules, Seen(rules))
  /\ Found
  /\ ended = "cancel" => ~active /\ KeysOf(strings, rules, Seen(rules)) = DOMAIN atStart

--------------------------------------------------------------------------------
(* The view, now and after a step, as a function of the two arrays.            *)
LEMMA ViewIs ==
  /\ View = ViewOf(strings, rules)
  /\ View' = ViewOf(strings', rules')
BY DEF View, ViewOf, KeysOf, Visible, Seen, Text, TextIn

(* With one rule of each key in sight, the view says what each of them says.   *)
LEMMA ViewFacts ==
  ASSUME NEW ss, GoodStrings(ss), NEW rs, GoodRules(ss, rs), DistinctKeys(rs, Seen(rs))
  PROVE  /\ DOMAIN ViewOf(ss, rs) = KeysOf(ss, rs, Seen(rs))
         /\ \A i \in Seen(rs) : /\ ss[rs[i].key] \in DOMAIN ViewOf(ss, rs)
                                /\ ViewOf(ss, rs)[ss[rs[i].key]] = TextIn(ss, rs[i].value)
         /\ \A k \in DOMAIN ViewOf(ss, rs) : \E i \in Seen(rs) : k = ss[rs[i].key]
<1>1. DOMAIN ViewOf(ss, rs) = KeysOf(ss, rs, Seen(rs))
  BY DEF ViewOf
<1>2. \A i \in Seen(rs) : TextIn(ss, rs[i].key) = ss[rs[i].key]
  BY DEF Seen, GoodRules, TextIn
<1>3. ASSUME NEW i \in Seen(rs)
      PROVE  /\ ss[rs[i].key] \in DOMAIN ViewOf(ss, rs)
             /\ ViewOf(ss, rs)[ss[rs[i].key]] = TextIn(ss, rs[i].value)
  <2> DEFINE k == TextIn(ss, rs[i].key)
             c == CHOOSE j \in Seen(rs) : TextIn(ss, rs[j].key) = k
  <2>1. c \in Seen(rs) /\ TextIn(ss, rs[c].key) = k
    OBVIOUS
  <2>2. ss[rs[c].key] = ss[rs[i].key]
    BY <1>2, <2>1
  <2>3. rs[c].key \in DOMAIN ss /\ rs[i].key \in DOMAIN ss
    BY <2>1 DEF Seen, GoodRules
  <2>4. rs[c].key = rs[i].key
    BY <2>2, <2>3 DEF GoodStrings
  <2>5. c = i
    BY <2>1, <2>4 DEF DistinctKeys
  <2>6. k \in KeysOf(ss, rs, Seen(rs))
    BY DEF KeysOf
  <2>7. ViewOf(ss, rs)[k] = TextIn(ss, rs[c].value)
    BY <2>6 DEF ViewOf
  <2> QED
    BY <1>1, <1>2, <2>5, <2>6, <2>7
<1>4. \A k \in KeysOf(ss, rs, Seen(rs)) : \E i \in Seen(rs) : k = ss[rs[i].key]
  BY <1>2 DEF KeysOf
<1> QED
  BY <1>1, <1>3, <1>4

(* Strings without duplicates are no more than the names.                      *)
LEMMA StringsFit ==
  ASSUME NEW ss, GoodStrings(ss)
  PROVE  /\ Len(ss) \in Nat /\ Cardinality(Names) \in Nat
         /\ Len(ss) <= Cardinality(Names)
         /\ DOMAIN ss = 1 .. Len(ss) /\ DOMAIN ss \subseteq Index
<1> DEFINE n == Len(ss)
<1>1. n \in Nat /\ DOMAIN ss = 1 .. n /\ ss \in [1 .. n -> Names]
  BY DEF GoodStrings
<1>2. IsFiniteSet(Names) /\ Cardinality(Names) \in Nat
  BY DanglingIsNoName, FS_CardinalityType DEF Names
<1>3. IsFiniteSet(1 .. n) /\ Cardinality(1 .. n) = n
  <2>1. IsFiniteSet(1 .. n) /\ Cardinality(1 .. n) = (IF 1 > n THEN 0 ELSE n - 1 + 1)
    BY <1>1, FS_Interval, SMTT(20)
  <2>2. (IF 1 > n THEN 0 ELSE n - 1 + 1) = n
    BY <1>1
  <2> QED
    BY <2>1, <2>2
<1> HIDE DEF n
<1>4. n <= Cardinality(Names)
  <2> SUFFICES ASSUME Cardinality(Names) < n PROVE FALSE
    BY <1>1, <1>2
  <2>1. \E i, j \in 1 .. n : i # j /\ ss[i] = ss[j]
    BY <1>1, <1>2, <1>3, FS_PigeonHole
  <2> QED
    BY <1>1, <2>1 DEF GoodStrings
<1> QED
  BY <1>1, <1>2, <1>4 DEF n, Index

(* index_itf: the strings stay where they are, and the name is one of them.    *)
LEMMA InternedFacts ==
  ASSUME NEW ss, GoodStrings(ss), NEW name \in Names
  PROVE  LET tt == Interned(ss, name)
         IN  /\ GoodStrings(tt)
             /\ DOMAIN ss \subseteq DOMAIN tt
             /\ \A i \in DOMAIN ss : tt[i] = ss[i]
             /\ IndexOf(tt, name) \in DOMAIN tt /\ tt[IndexOf(tt, name)] = name
<1> DEFINE tt == Interned(ss, name)
<1>1. /\ GoodStrings(tt) /\ DOMAIN ss \subseteq DOMAIN tt
      /\ \A i \in DOMAIN ss : tt[i] = ss[i]
      /\ \E i \in DOMAIN tt : tt[i] = name
  <2>1. CASE \E i \in DOMAIN ss : ss[i] = name
    <3>1. tt = ss
      BY <2>1 DEF Interned
    <3> QED
      BY <2>1, <3>1
  <2>2. CASE ~ \E i \in DOMAIN ss : ss[i] = name
    <3>1. tt = Append(ss, name)
      BY <2>2 DEF Interned
    <3>2. /\ tt \in Seq(Names) /\ Len(tt) = Len(ss) + 1
          /\ DOMAIN ss = 1 .. Len(ss) /\ Len(ss) \in Nat /\ DOMAIN tt = 1 .. Len(ss) + 1
          /\ \A i \in 1 .. Len(ss) : tt[i] = ss[i]
          /\ tt[Len(ss) + 1] = name
      BY <3>1 DEF GoodStrings
    <3> HIDE DEF tt
    <3>3. ASSUME NEW i \in DOMAIN tt, NEW j \in DOMAIN tt, tt[i] = tt[j] PROVE i = j
      <4>1. CASE i = Len(ss) + 1
        BY <2>2, <3>2, <3>3, <4>1
      <4>2. CASE j = Len(ss) + 1
        BY <2>2, <3>2, <3>3, <4>2
      <4>3. CASE i \in DOMAIN ss /\ j \in DOMAIN ss
        BY <3>2, <3>3, <4>3 DEF GoodStrings
      <4> QED
        BY <3>2, <4>1, <4>2, <4>3
    <3> QED
      BY <3>2, <3>3 DEF GoodStrings
  <2> QED
    BY <2>1, <2>2
<1> HIDE DEF tt
<1>2. IndexOf(tt, name) \in DOMAIN tt /\ tt[IndexOf(tt, name)] = name
  BY <1>1 DEF IndexOf
<1> QED
  BY <1>1, <1>2 DEF tt

--------------------------------------------------------------------------------
(* A new database has no rule and no transaction.                              *)
LEMMA InvInit == Init => IInv
<1> SUFFICES ASSUME Init
             PROVE  IInv
  OBVIOUS
<1>1. strings = <<>> /\ rules = <<>> /\ active = FALSE /\ count = 0 /\ ended = "none"
  BY DEF Init
<1>2. GoodStrings(strings) /\ GoodRules(strings, rules)
  BY <1>1 DEF GoodStrings, GoodRules
<1>3. DOMAIN rules = {} /\ Seen(rules) = {}
  BY <1>1 DEF Seen
<1>4. AllClean(rules) /\ DistinctKeys(rules, Seen(rules))
  BY <1>3 DEF AllClean, DistinctKeys
<1> QED
  BY <1>1, <1>2, <1>4 DEF IInv, Found

(* A transaction starts on rules that are all in sight.                        *)
LEMMA StartKeeps == ASSUME IInv, Start PROVE IInv'
<1>1. /\ ~active /\ active' = TRUE /\ count' = Len(rules) /\ ended' = "none"
      /\ atStart' = View /\ strings' = strings /\ rules' = rules
  BY DEF Start
<1>2. Len(rules) \in Nat /\ DOMAIN rules = 1 .. Len(rules)
  BY DEF IInv, GoodRules
<1>3. Seen(rules) = 1 .. Len(rules)
  BY <1>1, <1>2 DEF IInv, AllClean, Seen
<1>4. DOMAIN atStart' = KeysOf(strings, rules, Seen(rules))
  BY <1>1, ViewIs DEF ViewOf
<1>5. DistinctKeys(rules, 1 .. Len(rules))
  BY <1>3 DEF IInv
<1>6. Found'
  BY <1>1, <1>2, <1>3, <1>4, <1>5 DEF Found
<1> QED
  BY <1>1, <1>2, <1>6 DEF IInv

(* anydb_set: the rule added is of a key that no rule in sight bears, the rule *)
(* changed keeps its key; no rule moves.                                       *)
LEMMA SetKeeps ==
  ASSUME IInv, NEW name \in Keys, NEW text \in Texts, Set(name, text)
  PROVE  IInv'
<1> DEFINE ss == Interned(strings, name)
           tt == Interned(ss, text)
           k == IndexOf(tt, name)
           v == IndexOf(tt, text)
           same == {i \in Seen(rules) : rules[i].key = k}
           new == [key |-> k, value |-> v, saved |-> v, tag |-> "CLEAN"]
           n == Len(rules)
<1>0. name \in Names /\ text \in Names
  BY DEF Names
<1>1. /\ active /\ strings' = tt
      /\ active' = active /\ count' = count /\ ended' = ended /\ atStart' = atStart
      /\ IF same = {} THEN rules' = Append(rules, new)
         ELSE rules' = [i \in DOMAIN rules |->
                          IF i \in same /\ rules[i].value # v
                          THEN [rules[i] EXCEPT !.value = v, !.tag = "CHANGED"]
                          ELSE rules[i]]
  BY DEF Set, Visible, Seen
<1>2. /\ GoodStrings(ss) /\ DOMAIN strings \subseteq DOMAIN ss
      /\ \A i \in DOMAIN strings : ss[i] = strings[i]
      /\ \E i \in DOMAIN ss : ss[i] = name
  <2>1. GoodStrings(strings)
    BY DEF IInv
  <2> QED
    BY <1>0, <2>1, InternedFacts
<1>3. /\ GoodStrings(tt) /\ DOMAIN ss \subseteq DOMAIN tt
      /\ \A i \in DOMAIN ss : tt[i] = ss[i]
      /\ v \in DOMAIN tt
  BY <1>0, <1>2, InternedFacts
<1> HIDE DEF ss, tt
<1>4. k \in DOMAIN tt /\ tt[k] = name
  <2>1. \E i \in DOMAIN tt : tt[i] = name
    BY <1>2, <1>3
  <2> QED
    BY <2>1 DEF IndexOf
<1>5. k \in Index /\ v \in Index
  BY <1>3, <1>4, StringsFit
<1> HIDE DEF k, v
<1>6. /\ DOMAIN strings \subseteq DOMAIN tt
      /\ \A i \in DOMAIN strings : tt[i] = strings[i]
  BY <1>2, <1>3
<1>7. /\ n \in Nat /\ DOMAIN rules = 1 .. n /\ rules \in [1 .. n -> RuleRecord]
      /\ \A i \in 1 .. n : /\ rules[i].key \in DOMAIN strings
                           /\ strings[rules[i].key] \in Keys
  BY DEF IInv, GoodRules
<1>8. /\ count <= n /\ count \in Nat /\ DistinctKeys(rules, 1 .. count)
      /\ DOMAIN atStart = KeysOf(strings, rules, 1 .. count)
      /\ DistinctKeys(rules, Seen(rules)) /\ ended # "cancel"
  BY <1>1 DEF IInv, Found
<1>9. /\ rules' \in Seq(RuleRecord)
      /\ DOMAIN rules' = DOMAIN rules \/ DOMAIN rules' = 1 .. n + 1
      /\ \A i \in 1 .. n : i \in DOMAIN rules' /\ rules'[i].key = rules[i].key
      /\ \A i \in DOMAIN rules' : i \in 1 .. n \/ rules'[i].key = k
      /\ DistinctKeys(rules', Seen(rules'))
  <2>1. CASE same = {}
    <3>1. new \in RuleRecord
      BY <1>5 DEF RuleRecord, Tags
    <3>2. rules' = Append(rules, new)
      BY <1>1, <2>1
    <3> HIDE DEF new
    <3>3. /\ rules' \in Seq(RuleRecord) /\ DOMAIN rules' = 1 .. n + 1
          /\ \A i \in 1 .. n : rules'[i] = rules[i]
          /\ rules'[n + 1] = new
      BY <1>7, <3>1, <3>2
    <3>4. new.key = k
      BY DEF new
    <3>5. ASSUME NEW i \in Seen(rules'), NEW j \in Seen(rules'),
                 rules'[i].key = rules'[j].key
          PROVE  i = j
      <4>1. i \in 1 .. n + 1 /\ j \in 1 .. n + 1
        BY <3>3 DEF Seen
      <4>2. \A h \in 1 .. n : h \in Seen(rules') => h \in Seen(rules)
        BY <1>7, <3>3 DEF Seen
      <4>3. \A h \in Seen(rules) : rules[h].key # k
        BY <2>1
      <4>4. CASE i = n + 1 /\ j # n + 1
        <5>1. j \in 1 .. n
          BY <1>7, <4>1, <4>4
        <5> QED
          BY <3>3, <3>4, <3>5, <4>2, <4>3, <4>4, <5>1
      <4>5. CASE i # n + 1 /\ j = n + 1
        <5>1. i \in 1 .. n
          BY <1>7, <4>1, <4>5
        <5> QED
          BY <3>3, <3>4, <3>5, <4>2, <4>3, <4>5, <5>1
      <4>6. CASE i # n + 1 /\ j # n + 1
        <5>1. i \in 1 .. n /\ j \in 1 .. n
          BY <1>7, <4>1, <4>6
        <5> QED
          BY <1>8, <3>3, <3>5, <4>2, <5>1 DEF DistinctKeys
      <4> QED
        BY <4>4, <4>5, <4>6
    <3>6. \A i \in 1 .. n + 1 : i \in 1 .. n \/ i = n + 1
      BY <1>7
    <3>7. \A i \in 1 .. n : i \in 1 .. n + 1
      BY <1>7
    <3> QED
      BY <3>3, <3>4, <3>5, <3>6, <3>7 DEF DistinctKeys
  <2>2. CASE same # {}
    <3>1. rules' = [i \in 1 .. n |->
                      IF i \in same /\ rules[i].value # v
                      THEN [rules[i] EXCEPT !.value = v, !.tag = "CHANGED"]
                      ELSE rules[i]]
      BY <1>1, <1>7, <2>2
    <3>2. \A i \in 1 .. n : /\ [rules[i] EXCEPT !.value = v, !.tag = "CHANGED"] \in RuleRecord
                            /\ [rules[i] EXCEPT !.value = v, !.tag = "CHANGED"].key = rules[i].key
                            /\ rules[i] \in RuleRecord
      BY <1>5, <1>7 DEF RuleRecord, Tags
    <3>3. rules' \in [1 .. n -> RuleRecord]
      BY <3>1, <3>2
    <3>4. \A i \in 1 .. n : rules'[i].key = rules[i].key
      BY <3>1, <3>2
    <3>5. \A i \in Seen(rules') : i \in Seen(rules)
      <4> SUFFICES ASSUME NEW i \in 1 .. n, rules'[i].tag # "DELETED"
                   PROVE  i \in Seen(rules)
        BY <3>3 DEF Seen
      <4>1. CASE i \in same
        BY <4>1
      <4>2. CASE i \notin same
        BY <1>7, <3>1, <4>2 DEF Seen
      <4> QED
        BY <4>1, <4>2
    <3>6. \A i \in Seen(rules') : i \in 1 .. n
      BY <3>3 DEF Seen
    <3>7. rules' \in Seq(RuleRecord)
      BY <1>7, <3>3, SeqDef
    <3> QED
      BY <1>7, <1>8, <3>3, <3>4, <3>5, <3>6, <3>7 DEF DistinctKeys
  <2> QED
    BY <2>1, <2>2
<1>10. GoodRules(tt, rules')
  <2> SUFFICES ASSUME NEW i \in DOMAIN rules'
               PROVE  rules'[i].key \in DOMAIN tt /\ tt[rules'[i].key] \in Keys
    BY <1>9 DEF GoodRules
  <2> QED
    BY <1>4, <1>6, <1>7, <1>9
<1>11. \A i \in 1 .. count : i \in 1 .. n
  BY <1>7, <1>8
<1>12. DistinctKeys(rules', 1 .. count)
  BY <1>8, <1>9, <1>11 DEF DistinctKeys
<1>13. KeysOf(tt, rules', 1 .. count) = KeysOf(strings, rules, 1 .. count)
  <2>1. \A i \in 1 .. count : TextIn(tt, rules'[i].key) = TextIn(strings, rules[i].key)
    BY <1>6, <1>7, <1>9, <1>11 DEF TextIn
  <2> QED
    BY <2>1 DEF KeysOf
<1>14. count <= Len(rules')
  <2>1. Len(rules') \in Nat /\ DOMAIN rules' = 1 .. Len(rules')
    <3> HIDE DEF n
    <3>1. rules' \in Seq(RuleRecord)
      BY ONLY <1>9, Zenon
    <3> QED
      BY <3>1, LenProperties
  <2>2. \A i \in 1 .. n : i \in 1 .. Len(rules')
    BY <1>9, <2>1
  <2> QED
    BY <1>7, <1>8, <2>1, <2>2
<1> QED
  BY <1>1, <1>3, <1>8, <1>9, <1>10, <1>12, <1>13, <1>14 DEF IInv, Found

(* Removing inside a transaction only takes rules out of sight.                *)
LEMMA RemoveTags ==
  ASSUME IInv, NEW ks, Remove(ks), active
  PROVE  IInv'
<1> DEFINE n == Len(rules)
<1>1. /\ strings' = strings /\ active' = active /\ count' = count
      /\ ended' = ended /\ atStart' = atStart
      /\ rules' = [i \in DOMAIN rules |-> IF Text(rules[i].key) \in ks
                                          THEN [rules[i] EXCEPT !.tag = "DELETED"] ELSE rules[i]]
  BY DEF Remove, Forget
<1>2. /\ n \in Nat /\ DOMAIN rules = 1 .. n /\ rules \in [1 .. n -> RuleRecord]
      /\ \A i \in 1 .. n : /\ rules[i].key \in DOMAIN strings
                           /\ strings[rules[i].key] \in Keys
      /\ DistinctKeys(rules, Seen(rules)) /\ Found /\ ended # "cancel"
  BY DEF IInv, GoodRules
<1>3. \A i \in 1 .. n : /\ [rules[i] EXCEPT !.tag = "DELETED"] \in RuleRecord
                        /\ [rules[i] EXCEPT !.tag = "DELETED"].key = rules[i].key
                        /\ [rules[i] EXCEPT !.tag = "DELETED"].tag = "DELETED"
  BY <1>2 DEF RuleRecord, Tags
<1>4. rules' \in [1 .. n -> RuleRecord]
  BY <1>1, <1>2, <1>3
<1>5. \A i \in 1 .. n : rules'[i].key = rules[i].key
  BY <1>1, <1>2, <1>3
<1>6. \A i \in Seen(rules') : i \in Seen(rules) /\ i \in 1 .. n
  <2> SUFFICES ASSUME NEW i \in 1 .. n, rules'[i].tag # "DELETED"
               PROVE  i \in Seen(rules)
    BY <1>4 DEF Seen
  <2>1. rules'[i] = rules[i]
    BY <1>1, <1>2, <1>3
  <2> QED
    BY <1>2, <2>1 DEF Seen
<1>7. DistinctKeys(rules', Seen(rules'))
  BY <1>2, <1>5, <1>6 DEF DistinctKeys
<1> HIDE DEF n
<1>8. rules' \in Seq(RuleRecord) /\ Len(rules') = n /\ DOMAIN rules' = 1 .. n
  BY <1>2, <1>4, SeqDef
<1>9. GoodRules(strings, rules')
  BY <1>2, <1>5, <1>8 DEF GoodRules
<1>10. Found'
  <2>1. \A i \in 1 .. count : i \in 1 .. n
    BY <1>2 DEF Found, IInv, n
  <2>2. KeysOf(strings, rules', 1 .. count) = KeysOf(strings, rules, 1 .. count)
    <3>1. \A i \in 1 .. count : rules'[i].key = rules[i].key
      BY <1>5, <2>1
    <3> QED
      BY <3>1 DEF KeysOf
  <2>3. DistinctKeys(rules', 1 .. count)
    BY <1>2, <1>5, <2>1 DEF Found, DistinctKeys
  <2> QED
    BY <1>1, <1>2, <1>8, <2>2, <2>3 DEF Found, n
<1> QED
  BY <1>1, <1>2, <1>7, <1>9, <1>10 DEF IInv

(* Rules that leave the array: those that stay are as they were.               *)
LEMMA PickedRules ==
  ASSUME IInv, NEW used \in SUBSET Seen(rules)
  PROVE  LET left == Picked(rules, used)
         IN  /\ GoodRules(strings, left)
             /\ DistinctKeys(left, DOMAIN left)
             /\ \A i \in DOMAIN left : \E j \in used : left[i] = rules[j]
             /\ \A j \in used : \E i \in DOMAIN left : left[i] = rules[j]
<1> DEFINE left == Picked(rules, used)
<1>1. rules \in Seq(RuleRecord) /\ used \in SUBSET DOMAIN rules
  BY DEF IInv, GoodRules, Seen
<1>2. /\ left \in Seq(RuleRecord)
      /\ \A i \in DOMAIN left : Nth(used, i) \in used /\ left[i] = rules[Nth(used, i)]
      /\ \A i, j \in DOMAIN left : Nth(used, i) = Nth(used, j) => i = j
      /\ \A j \in used : Rank(used, j) \in DOMAIN left /\ left[Rank(used, j)] = rules[j]
  BY <1>1, PickedFacts
<1> HIDE DEF left
<1>3. GoodRules(strings, left)
  BY <1>1, <1>2 DEF IInv, GoodRules
<1>4. \A i, j \in used : rules[i].key = rules[j].key => i = j
  BY DEF IInv, DistinctKeys
<1>5. DistinctKeys(left, DOMAIN left)
  BY <1>2, <1>4 DEF DistinctKeys
<1> QED
  BY <1>2, <1>3, <1>5 DEF left

(* A traversal that removes rules outside a transaction (apply_itf).           *)
LEMMA KeptFacts ==
  ASSUME IInv, ~active, NEW ks
  PROVE  /\ GoodRules(strings, Kept(ks)) /\ AllClean(Kept(ks))
         /\ DistinctKeys(Kept(ks), DOMAIN Kept(ks))
         /\ \A i \in DOMAIN Kept(ks) : \E j \in Seen(rules) : Kept(ks)[i] = rules[j]
<1> DEFINE used == {i \in DOMAIN rules : Text(rules[i].key) \notin ks}
<1>1. used \in SUBSET Seen(rules)
  BY DEF IInv, AllClean, Seen
<1>2. Kept(ks) = Picked(rules, used)
  BY DEF Kept
<1> HIDE DEF used
<1>3. /\ GoodRules(strings, Kept(ks)) /\ DistinctKeys(Kept(ks), DOMAIN Kept(ks))
      /\ \A i \in DOMAIN Kept(ks) : \E j \in used : Kept(ks)[i] = rules[j]
  BY <1>1, <1>2, PickedRules
<1>4. \A j \in used : rules[j].tag = "CLEAN"
  BY <1>1 DEF IInv, AllClean, Seen
<1> QED
  BY <1>1, <1>3, <1>4 DEF AllClean

(* A removal tags in a transaction and takes away out of one.                  *)
LEMMA RemoveKeeps == ASSUME IInv, NEW ks, Remove(ks) PROVE IInv'
<1>1. CASE active
  BY <1>1, RemoveTags
<1>2. CASE ~active
  <2>1. /\ strings' = strings /\ active' = active /\ count' = count
        /\ ended' = "none" /\ rules' = Kept(ks)
    BY <1>2 DEF Remove, Forget
  <2>2. /\ GoodRules(strings, rules') /\ AllClean(rules')
        /\ DistinctKeys(rules', DOMAIN rules')
    BY <1>2, <2>1, KeptFacts
  <2>3. DistinctKeys(rules', Seen(rules'))
    BY <2>2 DEF DistinctKeys, Seen
  <2> QED
    BY <1>2, <2>1, <2>2, <2>3 DEF IInv, Found
<1> QED
  BY <1>1, <1>2

(* What a commit makes of the array.                                           *)
LEMMA CommitFacts ==
  ASSUME IInv, Commit
  PROVE  /\ GoodRules(strings, rules') /\ AllClean(rules')
         /\ DistinctKeys(rules', DOMAIN rules')
         /\ \A i \in DOMAIN rules' : \E j \in Seen(rules) :
              rules'[i].key = rules[j].key /\ rules'[i].value = rules[j].value
         /\ \A j \in Seen(rules) : \E i \in DOMAIN rules' :
              rules'[i].key = rules[j].key /\ rules'[i].value = rules[j].value
<1> DEFINE left == Picked(rules, Seen(rules))
<1>1. rules' = [i \in DOMAIN left |-> [left[i] EXCEPT !.tag = "CLEAN"]]
  BY DEF Commit, Visible, Seen
<1>2. /\ GoodRules(strings, left) /\ DistinctKeys(left, DOMAIN left)
      /\ \A i \in DOMAIN left : \E j \in Seen(rules) : left[i] = rules[j]
      /\ \A j \in Seen(rules) : \E i \in DOMAIN left : left[i] = rules[j]
  BY PickedRules
<1> HIDE DEF left
<1>3. Len(left) \in Nat /\ DOMAIN left = 1 .. Len(left) /\ left \in [1 .. Len(left) -> RuleRecord]
  BY <1>2 DEF GoodRules
<1>4. \A i \in DOMAIN left : /\ [left[i] EXCEPT !.tag = "CLEAN"] \in RuleRecord
                             /\ [left[i] EXCEPT !.tag = "CLEAN"].key = left[i].key
                             /\ [left[i] EXCEPT !.tag = "CLEAN"].value = left[i].value
                             /\ [left[i] EXCEPT !.tag = "CLEAN"].tag = "CLEAN"
  BY <1>3 DEF RuleRecord, Tags
<1>5. rules' \in [1 .. Len(left) -> RuleRecord]
  BY <1>1, <1>3, <1>4
<1>6. rules' \in Seq(RuleRecord) /\ DOMAIN rules' = DOMAIN left
  BY <1>3, <1>5, SeqDef
<1>7. \A i \in DOMAIN left : /\ rules'[i].key = left[i].key
                             /\ rules'[i].value = left[i].value /\ rules'[i].tag = "CLEAN"
  BY <1>1, <1>4
<1>8. GoodRules(strings, rules')
  BY <1>2, <1>6, <1>7 DEF GoodRules
<1>9. AllClean(rules') /\ DistinctKeys(rules', DOMAIN rules')
  BY <1>2, <1>6, <1>7 DEF AllClean, DistinctKeys
<1> QED
  BY <1>2, <1>6, <1>7, <1>8, <1>9

(* After a commit all rules are clean, in sight and of different keys.         *)
LEMMA CommitKeeps == ASSUME IInv, Commit PROVE IInv'
<1>1. strings' = strings /\ active' = FALSE /\ ended' = "commit" /\ count' = count
  BY DEF Commit
<1>2. GoodRules(strings, rules') /\ AllClean(rules') /\ DistinctKeys(rules', DOMAIN rules')
  BY CommitFacts
<1>3. DistinctKeys(rules', Seen(rules'))
  BY <1>2 DEF DistinctKeys, Seen
<1> QED
  BY <1>1, <1>2, <1>3 DEF IInv, Found

(* A cancel keeps the first rules, with their keys, and all come into sight.   *)
LEMMA CancelKeeps == ASSUME IInv, Cancel PROVE IInv'
<1> DEFINE back(r) == [r EXCEPT !.value = r.saved, !.tag = "CLEAN"]
<1>1. /\ active /\ active' = FALSE /\ ended' = "cancel" /\ strings' = strings
      /\ count' = count /\ atStart' = atStart
      /\ rules' = [i \in 1 .. count |-> IF rules[i].tag = "CLEAN" THEN rules[i] ELSE back(rules[i])]
  BY DEF Cancel
<1>2. /\ Len(rules) \in Nat /\ DOMAIN rules = 1 .. Len(rules)
      /\ rules \in [1 .. Len(rules) -> RuleRecord]
      /\ count \in Nat /\ count <= Len(rules) /\ DistinctKeys(rules, 1 .. count)
      /\ DOMAIN atStart = KeysOf(strings, rules, 1 .. count)
  <2>1. rules \in Seq(RuleRecord) /\ count \in Nat /\ Found
    BY DEF IInv, GoodRules
  <2>2. /\ count <= Len(rules) /\ DistinctKeys(rules, 1 .. count)
        /\ DOMAIN atStart = KeysOf(strings, rules, 1 .. count)
    BY <1>1, <2>1 DEF Found
  <2> QED
    BY <2>1, <2>2
<1>3. \A i \in 1 .. count : i \in DOMAIN rules /\ rules[i] \in RuleRecord
  BY <1>2
<1>4. \A i \in 1 .. count : /\ back(rules[i]) \in RuleRecord /\ back(rules[i]).key = rules[i].key
                            /\ back(rules[i]).tag = "CLEAN"
  BY <1>3 DEF RuleRecord, Tags
<1> HIDE DEF back
<1>5. rules' \in [1 .. count -> RuleRecord]
  BY <1>1, <1>3, <1>4
<1>6. \A i \in 1 .. count : rules'[i].key = rules[i].key /\ rules'[i].tag = "CLEAN"
  BY <1>1, <1>4
<1>7. rules' \in Seq(RuleRecord) /\ DOMAIN rules' = 1 .. count
  BY <1>2, <1>5, SeqDef
<1>8. GoodRules(strings, rules')
  BY <1>3, <1>6, <1>7 DEF IInv, GoodRules
<1>9. AllClean(rules') /\ Seen(rules') = 1 .. count
  BY <1>6, <1>7 DEF AllClean, Seen
<1>10. DistinctKeys(rules', Seen(rules'))
  BY <1>2, <1>6, <1>9 DEF DistinctKeys
<1>11. KeysOf(strings, rules', Seen(rules')) = DOMAIN atStart
  <2>1. KeysOf(strings, rules', 1 .. count) = KeysOf(strings, rules, 1 .. count)
    BY <1>6 DEF KeysOf
  <2> QED
    BY <1>2, <1>9, <2>1
<1> QED
  BY <1>1, <1>8, <1>9, <1>10, <1>11 DEF IInv, Found

--------------------------------------------------------------------------------
(* gc_itf: the strings used are packed in their order, and an index of one of  *)
(* them is changed into that of the same string.                               *)
LEMMA PackFacts ==
  ASSUME GoodStrings(strings), NEW used \in SUBSET Index
  PROVE  /\ GoodStrings(Packed(used))
         /\ \A garbage : \A i \in used \cap DOMAIN strings :
              /\ Renumbered(used, i, garbage) \in DOMAIN Packed(used)
              /\ Packed(used)[Renumbered(used, i, garbage)] = strings[i]
<1> DEFINE live == used \cap DOMAIN strings
           n == Len(strings)
           packed == Packed(used)
<1>1. n \in Nat /\ DOMAIN strings = 1 .. n /\ live \in SUBSET DOMAIN strings
  BY DEF GoodStrings
<1>2. packed = Picked(strings, live)
  BY DEF Packed
<1> HIDE DEF live, packed, n
<1>3. /\ packed \in Seq(Names)
      /\ \A i \in DOMAIN packed : Nth(live, i) \in live /\ packed[i] = strings[Nth(live, i)]
      /\ \A i, j \in DOMAIN packed : Nth(live, i) = Nth(live, j) => i = j
      /\ \A j \in live : Rank(live, j) \in DOMAIN packed /\ packed[Rank(live, j)] = strings[j]
  BY <1>1, <1>2, PickedFacts DEF GoodStrings
<1>4. GoodStrings(packed)
  <2> SUFFICES ASSUME NEW i \in DOMAIN packed, NEW j \in DOMAIN packed, packed[i] = packed[j]
               PROVE  i = j
    BY <1>3 DEF GoodStrings
  <2>1. strings[Nth(live, i)] = strings[Nth(live, j)]
    BY <1>3
  <2>2. Nth(live, i) \in DOMAIN strings /\ Nth(live, j) \in DOMAIN strings
    BY <1>1, <1>3
  <2>3. Nth(live, i) = Nth(live, j)
    BY <2>1, <2>2 DEF GoodStrings
  <2> QED
    BY <1>3, <2>3
<1>5. ASSUME NEW i \in live, NEW garbage
      PROVE  Renumbered(used, i, garbage) = Rank(live, i)
  <2>1. i \in 1 .. n /\ i \in DOMAIN strings
    BY <1>1
  <2>2. \A h \in used : h \in Nat /\ h >= 1
    <3>1. \A h \in Index : h \in Nat /\ h >= 1
      BY DEF Index
    <3> QED
      BY <3>1
  <2>3. \A h \in used : h <= i => h \in 1 .. n
    BY <1>1, <2>1, <2>2
  <2>4. \A h : (h \in used /\ h <= i) <=> (h \in live /\ h <= i)
    BY <1>1, <2>3 DEF live
  <2>5. {h \in used : h <= i} = {h \in live : h <= i}
    BY <2>4
  <2>6. Rank(used, i) = Rank(live, i)
    BY <2>5 DEF Rank
  <2> QED
    BY <2>1, <2>6 DEF Renumbered
<1> QED
  BY <1>3, <1>4, <1>5 DEF live, packed

(* anydb_cleanup: each rule that is left has its key, and its value if that    *)
(* was a string, under their new indexes.                                      *)
LEMMA CleanupFacts ==
  ASSUME IInv, NEW dead, NEW garbage \in Index, Cleanup(dead, garbage)
  PROVE  /\ GoodStrings(strings') /\ GoodRules(strings', rules') /\ AllClean(rules')
         /\ DistinctKeys(rules', DOMAIN rules')
         /\ \A i \in DOMAIN rules' : \E j \in Seen(rules) :
              /\ strings'[rules'[i].key] = strings[rules[j].key]
              /\ rules[j].value \in DOMAIN strings =>
                   /\ rules'[i].value \in DOMAIN strings'
                   /\ strings'[rules'[i].value] = strings[rules[j].value]
<1> DEFINE left == Kept(dead)
           used == Used(left)
           n == Len(left)
           key(i) == Renumbered(used, left[i].key, garbage)
           value(i) == Renumbered(used, left[i].value, garbage)
<1>1. /\ ~active /\ strings' = Packed(used)
      /\ rules' = [i \in DOMAIN left |->
                     [left[i] EXCEPT !.key = Renumbered(used, @, garbage),
                                     !.value = Renumbered(used, @, garbage)]]
  BY DEF Cleanup
<1>2. /\ GoodRules(strings, left) /\ AllClean(left) /\ DistinctKeys(left, DOMAIN left)
      /\ \A i \in DOMAIN left : \E j \in Seen(rules) : left[i] = rules[j]
  BY <1>1, KeptFacts
<1>3. \A i \in DOMAIN left : left[i].key \in used /\ left[i].value \in used
  BY DEF Used
<1>4. used = {left[i].key : i \in DOMAIN left} \cup {left[i].value : i \in DOMAIN left}
  BY DEF Used
<1> HIDE DEF left, used
<1>5. n \in Nat /\ DOMAIN left = 1 .. n /\ left \in [1 .. n -> RuleRecord]
  BY <1>2 DEF GoodRules
<1>6. used \in SUBSET Index
  <2>1. \A i \in 1 .. n : left[i].key \in Index /\ left[i].value \in Index
    BY <1>5 DEF RuleRecord
  <2> QED
    BY <1>4, <1>5, <2>1
<1>7. GoodStrings(strings)
  BY DEF IInv
<1>8. /\ GoodStrings(strings')
      /\ \A i \in used \cap DOMAIN strings :
           /\ Renumbered(used, i, garbage) \in DOMAIN strings'
           /\ strings'[Renumbered(used, i, garbage)] = strings[i]
  BY <1>1, <1>6, <1>7, PackFacts
<1>9. DOMAIN strings' \subseteq Index
  BY <1>8, StringsFit
<1>10. \A i \in 1 .. n : /\ key(i) \in DOMAIN strings' /\ key(i) \in Index
                         /\ strings'[key(i)] = strings[left[i].key]
  <2>1. \A i \in 1 .. n : left[i].key \in used \cap DOMAIN strings
    BY <1>2, <1>3, <1>5 DEF GoodRules
  <2> QED
    BY <1>8, <1>9, <2>1
<1>11. \A i \in 1 .. n : left[i].value \in DOMAIN strings =>
                           /\ value(i) \in DOMAIN strings'
                           /\ strings'[value(i)] = strings[left[i].value]
  BY <1>3, <1>5, <1>8
<1>12. \A i \in 1 .. n : value(i) \in Index
  <2> SUFFICES ASSUME NEW i \in 1 .. n PROVE value(i) \in Index
    OBVIOUS
  <2>1. CASE left[i].value \in DOMAIN strings
    BY <1>9, <1>11, <2>1
  <2>2. CASE left[i].value \notin DOMAIN strings
    BY <2>2 DEF Renumbered
  <2> QED
    BY <2>1, <2>2
<1>13. rules' = [i \in 1 .. n |-> [left[i] EXCEPT !.key = key(i), !.value = value(i)]]
  BY <1>1, <1>5
<1> HIDE DEF n, key, value
<1>14. \A i \in 1 .. n :
         LET r == [left[i] EXCEPT !.key = key(i), !.value = value(i)]
         IN  /\ r \in RuleRecord
             /\ r.key = key(i) /\ r.value = value(i) /\ r.tag = left[i].tag
  BY <1>5, <1>10, <1>12 DEF RuleRecord
<1>15. rules' \in [1 .. n -> RuleRecord]
  BY <1>13, <1>14
<1>16. \A i \in 1 .. n : /\ rules'[i].key = key(i) /\ rules'[i].value = value(i)
                         /\ rules'[i].tag = left[i].tag
  BY <1>13, <1>14
<1>17. rules' \in Seq(RuleRecord) /\ DOMAIN rules' = 1 .. n
  BY <1>5, <1>15, SeqDef
<1>18. GoodRules(strings', rules')
  <2>1. \A i \in 1 .. n : strings[left[i].key] \in Keys
    BY <1>2, <1>5 DEF GoodRules
  <2> QED
    BY <1>10, <1>16, <1>17, <2>1 DEF GoodRules
<1>19. AllClean(rules')
  BY <1>2, <1>5, <1>16, <1>17 DEF AllClean
<1>20. DistinctKeys(rules', DOMAIN rules')
  <2> SUFFICES ASSUME NEW i \in 1 .. n, NEW j \in 1 .. n, rules'[i].key = rules'[j].key
               PROVE  i = j
    BY <1>17 DEF DistinctKeys
  <2>1. strings[left[i].key] = strings[left[j].key]
    BY <1>10, <1>16
  <2>2. left[i].key \in DOMAIN strings /\ left[j].key \in DOMAIN strings
    BY <1>2, <1>5 DEF GoodRules
  <2>3. left[i].key = left[j].key
    BY <1>7, <2>1, <2>2 DEF GoodStrings
  <2> QED
    BY <1>2, <1>5, <2>3 DEF DistinctKeys
<1>21. ASSUME NEW i \in DOMAIN rules'
       PROVE  \E j \in Seen(rules) :
                /\ strings'[rules'[i].key] = strings[rules[j].key]
                /\ rules[j].value \in DOMAIN strings =>
                     /\ rules'[i].value \in DOMAIN strings'
                     /\ strings'[rules'[i].value] = strings[rules[j].value]
  <2>1. i \in 1 .. n
    BY <1>17
  <2>2. PICK j \in Seen(rules) : left[i] = rules[j]
    BY <1>2, <1>5, <2>1
  <2> QED
    BY <1>10, <1>11, <1>16, <2>1, <2>2
<1> QED
  BY <1>8, <1>18, <1>19, <1>20, <1>21

(* After a packing, keys refer to their strings.                               *)
LEMMA CleanupKeeps ==
  ASSUME IInv, NEW dead, NEW garbage \in Index, Cleanup(dead, garbage)
  PROVE  IInv'
<1>1. ~active /\ active' = active /\ count' = count /\ ended' = "none"
  BY DEF Cleanup, Forget
<1>2. /\ GoodStrings(strings') /\ GoodRules(strings', rules') /\ AllClean(rules')
      /\ DistinctKeys(rules', DOMAIN rules')
  BY CleanupFacts
<1>3. DistinctKeys(rules', Seen(rules'))
  BY <1>2 DEF DistinctKeys, Seen
<1> QED
  BY <1>1, <1>2, <1>3 DEF IInv, Found

(* Every step keeps the invariant.                                             *)
LEMMA InvNext == IInv /\ [Next]_vars => IInv'
<1> SUFFICES ASSUME IInv, [Next]_vars
             PROVE  IInv'
  OBVIOUS
<1>1. CASE Start
  BY <1>1, StartKeeps
<1>2. CASE \E k \in Keys, v \in Texts : Set(k, v)
  BY <1>2, SetKeeps
<1>3. CASE \E ks \in SUBSET Keys : Remove(ks)
  BY <1>3, RemoveKeeps
<1>4. CASE Commit
  BY <1>4, CommitKeeps
<1>5. CASE Cancel
  BY <1>5, CancelKeeps
<1>6. CASE \E dead \in SUBSET Keys, garbage \in Index : Cleanup(dead, garbage)
  BY <1>6, CleanupKeeps
<1>7. CASE UNCHANGED vars
  BY <1>7 DEF vars, IInv, Found
<1> QED
  BY <1>1, <1>2, <1>3, <1>4, <1>5, <1>6, <1>7 DEF Next

(* The invariant holds in every behaviour.                                     *)
LEMMA InvAlways == Spec => []IInv
  BY InvInit, InvNext, PTL DEF Spec

--------------------------------------------------------------------------------
(* Indexes and tags are well formed, whatever was renumbered, given back from  *)
(* old saved values or left by garbage (memdb.c).                              *)
THEOREM TypeCorrect == Spec => []TypeOK
<1>1. IInv => TypeOK
  <2> SUFFICES ASSUME IInv
               PROVE  TypeOK
    OBVIOUS
  <2>1. \A i, j \in DOMAIN strings : strings[i] = strings[j] => i = j
    BY DEF IInv, GoodStrings
  <2>2. strings \in Seq(Names)
    BY DEF IInv, GoodStrings
  <2>3. rules \in [1 .. Len(rules) -> RuleRecord] /\ DOMAIN rules = 1 .. Len(rules)
    BY DEF IInv, GoodRules
  <2>4. \A i \in DOMAIN rules : {rules[i].value, rules[i].saved} \subseteq Index /\ rules[i].tag \in Tags
    BY <2>3 DEF RuleRecord
  <2>5. \A i \in DOMAIN rules : rules[i].key \in DOMAIN strings /\ strings[rules[i].key] \in Keys
    BY DEF IInv, GoodRules
  <2>6. \A i \in DOMAIN rules : ~active => rules[i].tag = "CLEAN"
    BY DEF IInv, AllClean
  <2>7. active => count <= Len(rules)
    BY DEF IInv, Found
  <2> QED
    BY <2>1, <2>2, <2>4, <2>5, <2>6, <2>7 DEF TypeOK
<1> QED
  BY <1>1, InvAlways, PTL

(* No key has two rules in sight, also when a cancel brings back a rule whose  *)
(* key was dropped and set again (apply_itf, add_itf, transaction_itf).        *)
THEOREM OneVisibleRuleHolds == Spec => []OneVisibleRule
<1>1. IInv => OneVisibleRule
  <2> SUFFICES ASSUME IInv, NEW i \in Visible, NEW j \in Visible,
                      Text(rules[i].key) = Text(rules[j].key)
               PROVE  i = j
    BY DEF OneVisibleRule
  <2>1. i \in Seen(rules) /\ j \in Seen(rules)
    BY DEF Visible, Seen
  <2>2. rules[i].key \in DOMAIN strings /\ rules[j].key \in DOMAIN strings
    BY <2>1 DEF IInv, GoodRules, Seen
  <2>3. strings[rules[i].key] = strings[rules[j].key]
    BY <2>2 DEF Text
  <2>4. rules[i].key = rules[j].key
    BY <2>2, <2>3 DEF IInv, GoodStrings
  <2> QED
    BY <2>1, <2>4 DEF IInv, DistinctKeys
<1> QED
  BY <1>1, InvAlways, PTL

(* A cancel gives back the keys that the transaction found (transaction_itf).  *)
THEOREM CancelRestoresKeysHolds == Spec => []CancelRestoresKeys
<1>1. IInv => CancelRestoresKeys
  <2>1. DOMAIN View = KeysOf(strings, rules, Seen(rules))
    BY ViewIs DEF ViewOf
  <2> QED
    BY <2>1 DEF IInv, CancelRestoresKeys
<1> QED
  BY <1>1, InvAlways, PTL

(* A commit changes nothing of what is seen, though rules move in the array    *)
(* and tags are cleaned (transaction_itf).                                     *)
THEOREM CommitKeepsViewHolds == Spec => CommitKeepsView
<1> DEFINE A == active /\ ~active' /\ ended' = "commit" => View' = View
<1>1. IInv /\ [Next]_vars => [A]_vars
  <2> SUFFICES ASSUME IInv, Next, active, ~active', ended' = "commit"
               PROVE  View' = View
    OBVIOUS
  <2>1. Commit
    <3>1. ~(\E dead \in SUBSET Keys, garbage \in Index : Cleanup(dead, garbage))
      BY DEF Cleanup
    <3>2. ~(\E ks \in SUBSET Keys : Remove(ks))
      BY DEF Remove
    <3>3. ~(\E k \in Keys, v \in Texts : Set(k, v))
      BY DEF Set
    <3> QED
      BY <3>1, <3>2, <3>3 DEF Next, Start, Cancel
  <2>2. strings' = strings
    BY <2>1 DEF Commit
  <2>3. /\ GoodRules(strings, rules') /\ AllClean(rules') /\ DistinctKeys(rules', DOMAIN rules')
        /\ \A i \in DOMAIN rules' : \E j \in Seen(rules) :
             rules'[i].key = rules[j].key /\ rules'[i].value = rules[j].value
        /\ \A j \in Seen(rules) : \E i \in DOMAIN rules' :
             rules'[i].key = rules[j].key /\ rules'[i].value = rules[j].value
    BY <2>1, CommitFacts
  <2>4. Seen(rules') = DOMAIN rules'
    BY <2>3 DEF AllClean, Seen
  <2>5. GoodStrings(strings) /\ GoodRules(strings, rules) /\ DistinctKeys(rules, Seen(rules))
    BY DEF IInv
  <2> DEFINE old == ViewOf(strings, rules)
             new == ViewOf(strings, rules')
  <2>6. /\ \A i \in Seen(rules) : /\ strings[rules[i].key] \in DOMAIN old
                                  /\ old[strings[rules[i].key]] = TextIn(strings, rules[i].value)
        /\ \A k \in DOMAIN old : \E i \in Seen(rules) : k = strings[rules[i].key]
    BY <2>5, ViewFacts
  <2>7. /\ \A i \in Seen(rules') : /\ strings[rules'[i].key] \in DOMAIN new
                                   /\ new[strings[rules'[i].key]] = TextIn(strings, rules'[i].value)
        /\ \A k \in DOMAIN new : \E i \in Seen(rules') : k = strings[rules'[i].key]
    BY <2>3, <2>4, <2>5, ViewFacts
  <2>8. new = [k \in DOMAIN new |-> new[k]] /\ old = [k \in DOMAIN old |-> old[k]]
    BY DEF ViewOf
  <2> HIDE DEF old, new
  <2>9. \A k \in DOMAIN old : k \in DOMAIN new /\ new[k] = old[k]
    BY <2>3, <2>4, <2>6, <2>7
  <2>10. \A k \in DOMAIN new : k \in DOMAIN old
    BY <2>3, <2>4, <2>6, <2>7
  <2>11. DOMAIN old = DOMAIN new
    BY <2>9, <2>10
  <2>12. new = old
    BY <2>8, <2>9, <2>11
  <2> QED
    BY <2>2, <2>12, ViewIs DEF old, new
<1> QED
  BY <1>1, InvAlways, PTL DEF Spec, CommitKeepsView

(* Outside a transaction rules only go: packing the strings gives none another *)
(* key, nor another decision if it had one (anydb_cleanup, gc_itf).            *)
THEOREM DecisionsSurviveGcHolds == Spec => DecisionsSurviveGc
<1> DEFINE Smaller ==
             /\ DOMAIN View' \subseteq DOMAIN View
             /\ \A k \in DOMAIN View' : View[k] # Dangling => View'[k] = View[k]
<1>1. IInv /\ [Next]_vars => [~active /\ ~active' => Smaller]_vars
  <2> SUFFICES ASSUME IInv, Next, ~active, ~active'
               PROVE  Smaller
    OBVIOUS
  <2>1. /\ GoodStrings(strings') /\ GoodRules(strings', rules')
        /\ DistinctKeys(rules', DOMAIN rules') /\ AllClean(rules')
        /\ \A i \in DOMAIN rules' : \E j \in Seen(rules) :
             /\ strings'[rules'[i].key] = strings[rules[j].key]
             /\ rules[j].value \in DOMAIN strings =>
                  /\ rules'[i].value \in DOMAIN strings'
                  /\ strings'[rules'[i].value] = strings[rules[j].value]
    <3>1. CASE \E ks \in SUBSET Keys : Remove(ks)
      <4>1. PICK ks \in SUBSET Keys : Remove(ks)
        BY <3>1
      <4>2. rules' = Kept(ks) /\ strings' = strings
        BY <4>1 DEF Remove
      <4> QED
        BY <4>2, KeptFacts DEF IInv
    <3>2. CASE \E dead \in SUBSET Keys, garbage \in Index : Cleanup(dead, garbage)
      BY <3>2, CleanupFacts
    <3>3. ~(\E k \in Keys, v \in Texts : Set(k, v)) /\ ~Commit /\ ~Cancel
      BY DEF Set, Commit, Cancel
    <3>4. ~Start
      BY DEF Start
    <3> QED
      BY <3>1, <3>2, <3>3, <3>4 DEF Next
  <2>2. Seen(rules') = DOMAIN rules' /\ DistinctKeys(rules', Seen(rules'))
    BY <2>1 DEF AllClean, Seen
  <2>3. GoodStrings(strings) /\ GoodRules(strings, rules) /\ DistinctKeys(rules, Seen(rules))
    BY DEF IInv
  <2> DEFINE old == ViewOf(strings, rules)
             new == ViewOf(strings', rules')
  <2>4. \A i \in Seen(rules) : /\ strings[rules[i].key] \in DOMAIN old
                               /\ old[strings[rules[i].key]] = TextIn(strings, rules[i].value)
    BY <2>3, ViewFacts
  <2>5. /\ \A i \in Seen(rules') : new[strings'[rules'[i].key]] = TextIn(strings', rules'[i].value)
        /\ \A k \in DOMAIN new : \E i \in Seen(rules') : k = strings'[rules'[i].key]
    BY <2>1, <2>2, ViewFacts
  <2> HIDE DEF old, new
  <2>6. \A k \in DOMAIN new : k \in DOMAIN old /\ (old[k] # Dangling => new[k] = old[k])
    <3> SUFFICES ASSUME NEW k \in DOMAIN new
                 PROVE  k \in DOMAIN old /\ (old[k] # Dangling => new[k] = old[k])
      OBVIOUS
    <3>1. PICK i \in Seen(rules') : k = strings'[rules'[i].key]
      BY <2>5
    <3>2. PICK j \in Seen(rules) :
            /\ strings'[rules'[i].key] = strings[rules[j].key]
            /\ rules[j].value \in DOMAIN strings =>
                 /\ rules'[i].value \in DOMAIN strings'
                 /\ strings'[rules'[i].value] = strings[rules[j].value]
      BY <2>1, <2>2, <3>1
    <3>3. /\ k \in DOMAIN old /\ old[k] = TextIn(strings, rules[j].value)
          /\ new[k] = TextIn(strings', rules'[i].value)
      BY <2>4, <2>5, <3>1, <3>2
    <3> QED
      BY <3>2, <3>3 DEF TextIn
  <2> QED
    BY <2>6, ViewIs DEF old, new
<1> QED
  BY <1>1, InvAlways, PTL DEF Spec, DecisionsSurviveGc
================================================================================
