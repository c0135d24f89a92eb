----------------------------- MODULE RuleBaseProofs -----------------------------
(*******************************************************************************)
(* Proofs about module RuleBase, for any names, folding of case, rules,        *)
(* queries, dates and bounds.                                                  *)
(*                                                                             *)
(* The two databases are one invariant: that no key is stored twice is proved  *)
(* inside each of them, and across them from the session of their rules, which *)
(* says to which a rule belongs.  That the sums of scores select the rule of   *)
(* the README rests on it: two rules that match a query with the same score    *)
(* are exact in the same fields, hence bear the same key, hence are the same.  *)
(*******************************************************************************)
EXTENDS RuleBase, Lemmas

(* A key as rules bear it.                                                     *)
IsStored(key) ==
  /\ key \in Key
  /\ \A f \in Field : key[f] # Empty /\ (f # "permission" => key[f] # Any)

(* The rules of one database: well formed, and no key twice, but for the keys  *)
(* whose permission is ANY.                                                    *)
Sound(rules) ==
  /\ rules \subseteq Rule
  /\ \A r \in rules : IsStored(r.key)
  /\ \A r, s \in rules :
       r.key["permission"] # Any /\ SameKey(r.key, s.key) => r = s

IInv ==
  /\ Sound(mem) /\ Sound(file)
  /\ PersistentExactlyWide
  /\ now \in 0 .. MaxTime

--------------------------------------------------------------------------------
(* A key as it is stored has no empty name, nor ANY but for the permission,    *)
(* and a set that does not find the key finds no rule that bears it, but for   *)
(* the permission ANY.                                                         *)
LEMMA StoredKeyFacts ==
  ASSUME NEW key \in Key
  PROVE  /\ IsStored(StoredKey(key))
         /\ (StoredKey(key)["session"] = Wide)
               <=> (key["session"] \in {Any, Wide, Empty})
         /\ \A k \in Key : SameKey(k, StoredKey(key)) /\ k["permission"] # Any
              => KeyIs(k, key)
<1>1. IsStored(StoredKey(key))
  BY SpecialNames DEF StoredKey, IsStored, Key, Field, Texts
<1>2. (StoredKey(key)["session"] = Wide) <=> (key["session"] \in {Any, Wide, Empty})
  BY SpecialNames DEF StoredKey, Key, Field, Texts
<1>3. ASSUME NEW k \in Key, SameKey(k, StoredKey(key)), k["permission"] # Any
      PROVE  KeyIs(k, key)
  <2>1. /\ "permission" \in Field
        /\ k["permission"] \in Texts /\ key["permission"] \in Texts
    BY DEF Key, Field
  <2>2. Fold[k["permission"]] = Fold[StoredKey(key)["permission"]]
    BY <1>3, <2>1 DEF SameKey, SameName
  <2>3. StoredKey(key)["permission"] # Any
    BY <1>1, <1>3, <2>1, <2>2, FoldKeepsSpecialNames DEF IsStored, Key, Field, Texts
  <2>4. StoredKey(key)["permission"] = key["permission"]
    BY <2>1, <2>3 DEF StoredKey
  <2>5. \A f \in Field : SameName(f, k[f], StoredKey(key)[f])
    BY <1>3 DEF SameKey
  <2> QED
    BY <2>4, <2>5 DEF KeyIs
<1> QED
  BY <1>1, <1>2, <1>3

(* Keys that are the same are both for ANY permission, or none is.             *)
LEMMA AnyIsAlone ==
  ASSUME NEW a \in Key, NEW b \in Key, SameKey(a, b)
  PROVE  /\ (a["permission"] = Any) <=> (b["permission"] = Any)
         /\ SameKey(b, a)
<1>1. Fold[a["permission"]] = Fold[b["permission"]]
  BY DEF SameKey, SameName, Field
<1>2. a["permission"] \in Texts /\ b["permission"] \in Texts
  BY DEF Key, Field
<1>3. (a["permission"] = Any) <=> (b["permission"] = Any)
  BY <1>1, <1>2, FoldKeepsSpecialNames
<1> QED
  BY <1>3 DEF SameKey, SameName

(* Some of the rules of a sound database are a sound database.                 *)
LEMMA SubsetIsSound ==
  ASSUME NEW rules, Sound(rules), NEW some \in SUBSET rules
  PROVE  Sound(some)
  BY DEF Sound

(* Setting a rule keeps a database sound, and every rule left was there with   *)
(* the same key, or has the key set.                                           *)
LEMMA SetKeepsSound ==
  ASSUME NEW rules, Sound(rules), NEW key \in Key, NEW value \in Values,
         NEW expire \in Int, NEW time,
         NEW left \in SetResults(rules, key, value, expire, time)
  PROVE  /\ Sound(left)
         /\ \A r \in left : \/ \E s \in rules : r.key = s.key
                            \/ r.key = StoredKey(key)
<1> DEFINE live == Live(rules, time)
           same == {r \in live : KeyIs(r.key, key)}
           updated(r) == [r EXCEPT !.value = value, !.expire = expire]
           new == [key |-> StoredKey(key), value |-> value, expire |-> expire]
<1>1. live \subseteq rules
  BY DEF Live
<1>2. CASE same # {}
  <2>0. PICK s0 \in same : left \in Updates(rules, s0, value, expire, time)
    BY <1>2 DEF SetResults
  <2>1. PICK gone \in SUBSET Dead(rules, time), twin \in Twins(s0) :
          left = ((rules \ gone) \ {s0}) \cup twin \cup {updated(s0)}
    BY <2>0 DEF Updates
  <2>2. s0 \in rules /\ s0 \in Rule
    BY <1>1 DEF Sound
  <2>3. updated(s0) \in Rule /\ updated(s0).key = s0.key
    BY <2>2 DEF Rule
  <2>4. \A r \in left : r \in Rule /\ \E s \in rules : r.key = s.key
    BY <2>1, <2>2, <2>3 DEF Sound, Twins
  <2>5. ASSUME NEW r \in left, NEW s \in left,
               r.key["permission"] # Any, SameKey(r.key, s.key)
        PROVE  r = s
    <3> DEFINE U == updated(s0)
    <3> HIDE DEF updated, same, live
    <3>1. s.key["permission"] # Any
      BY <2>4, <2>5, AnyIsAlone DEF Rule
    <3>2. ASSUME NEW x \in {r, s}, x # U
          PROVE  x \in rules /\ x # s0
      <4>1. x \in left /\ x.key["permission"] # Any
        BY <2>5, <3>1
      <4>2. CASE s0.key["permission"] = Any
        BY <2>1, <2>2, <3>2, <4>1, <4>2 DEF Twins
      <4>3. CASE s0.key["permission"] # Any
        BY <2>1, <2>2, <3>2, <4>1, <4>3 DEF Twins
      <4> QED
        BY <4>2, <4>3
    <3>3. CASE r = U /\ s = U
      BY <3>3
    <3>4. CASE r = U /\ s # U
      <4>1. s \in rules /\ s # s0 /\ SameKey(s0.key, s.key)
        BY <2>3, <2>5, <3>2, <3>4
      <4>2. s0.key["permission"] # Any
        BY <2>3, <2>5, <3>4
      <4> QED
        BY <2>2, <4>1, <4>2 DEF Sound
    <3>5. CASE r # U /\ s = U
      <4>1. r \in rules /\ r # s0 /\ SameKey(r.key, s0.key)
        BY <2>3, <2>5, <3>2, <3>5
      <4> QED
        BY <2>2, <2>5, <4>1 DEF Sound
    <3>6. CASE r # U /\ s # U
      BY <2>5, <3>2, <3>6 DEF Sound
    <3> QED
      BY <3>3, <3>4, <3>5, <3>6
  <2>6. \A r \in left : IsStored(r.key)
    BY <2>4 DEF Sound
  <2> QED
    BY <2>4, <2>5, <2>6 DEF Sound
<1>3. CASE same = {}
  <2>1. left = live \cup {new}
    BY <1>3 DEF SetResults
  <2>2. new \in Rule /\ new.key = StoredKey(key) /\ IsStored(new.key)
    BY StoredKeyFacts DEF Rule, IsStored
  <2>3. Sound(live)
    BY <1>1, SubsetIsSound
  <2>4. \A r \in live : r.key["permission"] # Any => ~SameKey(r.key, new.key)
    BY <1>3, <2>2, <2>3, StoredKeyFacts DEF Sound, IsStored
  <2>5. \A r \in live : new.key["permission"] # Any => ~SameKey(new.key, r.key)
    BY <2>2, <2>3, <2>4, AnyIsAlone DEF Sound, IsStored
  <2>6. \A r, s \in left :
          r.key["permission"] # Any /\ SameKey(r.key, s.key) => r = s
    <3> HIDE DEF live, new, same
    <3> QED
      BY <2>1, <2>3, <2>4, <2>5 DEF Sound
  <2>7. \A r \in left : r \in Rule /\ IsStored(r.key)
    BY <2>1, <2>2, <2>3 DEF Sound
  <2> QED
    BY <1>1, <2>1, <2>2, <2>6, <2>7 DEF Sound
<1> QED
  BY <1>2, <1>3

(* Dropping keeps some of the rules.                                           *)
LEMMA DropKeepsSome ==
  ASSUME NEW rules, NEW filter, NEW time,
         NEW left \in DropResults(rules, filter, time)
  PROVE  left \subseteq rules
  BY DEF DropResults, Live

--------------------------------------------------------------------------------
(* The invariant is inductive.                                                 *)
LEMMA InvInit == Init => IInv
  BY DatesAreIntegers DEF Init, IInv, Sound, PersistentExactlyWide

(* A set keeps the databases sound: it replaces the rule of its key or adds    *)
(* one.                                                                        *)
LEMMA SetKeeps ==
  ASSUME IInv, NEW key \in SetKeys, NEW value \in Values, NEW expire \in Expires,
         DbSet(key, value, expire)
  PROVE  IInv'
<1>1. key \in Key /\ expire \in Int
  BY KeysAreKeys, DatesAreIntegers
<1>2. CASE GoesToFile(key)
  <2>1. file' \in SetResults(file, key, value, expire, now) /\ UNCHANGED <<mem, now>>
    BY <1>2 DEF DbSet
  <2>2. /\ Sound(file')
        /\ \A r \in file' : \/ \E s \in file : r.key = s.key
                            \/ r.key = StoredKey(key)
    BY <1>1, <2>1, SetKeepsSound DEF IInv
  <2>3. \A r \in file' : r.key["session"] = Wide
    BY <1>1, <1>2, <2>2, StoredKeyFacts DEF IInv, PersistentExactlyWide, GoesToFile
  <2> QED
    BY <2>1, <2>2, <2>3 DEF IInv, PersistentExactlyWide
<1>3. CASE ~GoesToFile(key)
  <2>1. mem' \in SetResults(mem, key, value, expire, now) /\ UNCHANGED <<file, now>>
    BY <1>3 DEF DbSet
  <2>2. /\ Sound(mem')
        /\ \A r \in mem' : \/ \E s \in mem : r.key = s.key
                           \/ r.key = StoredKey(key)
    BY <1>1, <2>1, SetKeepsSound DEF IInv
  <2>3. \A r \in mem' : r.key["session"] # Wide
    BY <1>1, <1>3, <2>2, StoredKeyFacts DEF IInv, PersistentExactlyWide, GoesToFile
  <2> QED
    BY <2>1, <2>2, <2>3 DEF IInv, PersistentExactlyWide
<1> QED
  BY <1>2, <1>3

(* Drops, purges and the clock only take rules away.                           *)
LEMMA FewerKeeps ==
  ASSUME IInv, mem' \subseteq mem, file' \subseteq file, now' \in 0 .. MaxTime
  PROVE  IInv'
<1>1. Sound(mem') /\ Sound(file')
  BY SubsetIsSound DEF IInv
<1> QED
  BY <1>1 DEF IInv, PersistentExactlyWide

(* Every step keeps the invariant.                                             *)
LEMMA InvNext == IInv /\ [Next]_vars => IInv'
<1> SUFFICES ASSUME IInv, [Next]_vars
             PROVE  IInv'
  OBVIOUS
<1>0. now \in 0 .. MaxTime
  BY DEF IInv
<1>1. ASSUME NEW k \in SetKeys, NEW v \in Values, NEW e \in Expires, DbSet(k, v, e)
      PROVE  IInv'
  BY <1>1, SetKeeps
<1>2. ASSUME NEW k \in Filters, DbDrop(k)
      PROVE  IInv'
  BY <1>0, <1>2, DropKeepsSome, FewerKeeps DEF DbDrop
<1>3. CASE DbTest
  BY <1>0, <1>3, FewerKeeps DEF DbTest, Live
<1>4. CASE Tick
  <2>1. now' \in 0 .. MaxTime
    BY <1>0, <1>4, DatesAreIntegers DEF Tick
  <2> QED
    BY <1>4, <2>1, FewerKeeps DEF Tick
<1>5. CASE UNCHANGED vars
  BY <1>0, <1>5, FewerKeeps DEF vars
<1> QED
  BY <1>1, <1>2, <1>3, <1>4, <1>5 DEF Next

(* The invariant holds in every behaviour.                                     *)
LEMMA InvAlways == Spec => []IInv
  BY InvInit, InvNext, PTL DEF Spec

(* Rules of the two databases never bear the same key: their sessions differ.  *)
LEMMA InvGivesOneRule == IInv => OneRulePerKey
<1> SUFFICES ASSUME IInv
             PROVE  OneRulePerKey
  OBVIOUS
<1>1. TypeOK
  BY DEF IInv, Sound, IsStored, TypeOK
<1>2. ASSUME NEW r \in mem \cup file, NEW s \in mem \cup file,
             r.key["permission"] # Any, SameKey(r.key, s.key)
      PROVE  r = s
  <2>1. r.key["session"] = s.key["session"]
    BY <1>2 DEF SameKey, SameName, Field
  <2> QED
    BY <1>2, <2>1 DEF IInv, Sound, PersistentExactlyWide
<1> QED
  BY <1>1, <1>2 DEF OneRulePerKey

(* Rules are well formed and no key is stored twice, in either database or     *)
(* across them, but for the keys of the permission "#", after any history of sets, drops, purges and expirations       *)
(* (anydb_set, anydb_drop, anydb_cleanup, db_set).                             *)
THEOREM OneRulePerKeyHolds == Spec => []OneRulePerKey
  BY InvAlways, InvGivesOneRule, PTL

(* What is on its way to the disk is exactly what is for all sessions (db_set).*)
THEOREM PersistentExactlyWideHolds == Spec => []PersistentExactlyWide
<1>1. IInv => PersistentExactlyWide
  BY DEF IInv
<1> QED
  BY <1>1, InvAlways, PTL

--------------------------------------------------------------------------------
(* One when the field is a STAR, else zero.                                    *)
Star(key, f) == IF key[f] = Wide THEN 1 ELSE 0

(* Adding an element on a condition.                                           *)
LEMMA AddIf ==
  ASSUME NEW S, IsFiniteSet(S), NEW x, x \notin S, NEW b \in BOOLEAN
  PROVE  LET T == S \cup (IF b THEN {x} ELSE {})
         IN  IsFiniteSet(T) /\ Cardinality(T) = Cardinality(S) + (IF b THEN 1 ELSE 0)
<1>1. Cardinality(S) \in Nat
  BY FS_CardinalityType
<1>2. CASE b
  BY <1>2, FS_AddElement
<1>3. CASE ~b
  BY <1>1, <1>3
<1> QED
  BY <1>2, <1>3

(* The number of STARs of a rule is the sum over its four fields.              *)
LEMMA StarsIsSum ==
  ASSUME NEW r \in Rule
  PROVE  Stars(r) = Star(r.key, "session") + Star(r.key, "user")
                    + Star(r.key, "client") + Star(r.key, "permission")
<1> DEFINE wide(f) == r.key[f] = Wide
           S1 == {} \cup (IF wide("session") THEN {"session"} ELSE {})
           S2 == S1 \cup (IF wide("user") THEN {"user"} ELSE {})
           S3 == S2 \cup (IF wide("client") THEN {"client"} ELSE {})
           S4 == S3 \cup (IF wide("permission") THEN {"permission"} ELSE {})
<1>1. IsFiniteSet({}) /\ Cardinality({}) = 0
  BY FS_EmptySet
<1>2. IsFiniteSet(S1) /\ Cardinality(S1) = 0 + Star(r.key, "session")
  BY <1>1, AddIf DEF Star
<1>3. IsFiniteSet(S2) /\ Cardinality(S2) = Cardinality(S1) + Star(r.key, "user")
  <2>1. "user" \notin S1
    OBVIOUS
  <2> HIDE DEF S1
  <2> QED
    BY <1>2, <2>1, AddIf DEF Star
<1>4. IsFiniteSet(S3) /\ Cardinality(S3) = Cardinality(S2) + Star(r.key, "client")
  <2>1. "client" \notin S2
    OBVIOUS
  <2> HIDE DEF S2
  <2> QED
    BY <1>3, <2>1, AddIf DEF Star
<1>5. IsFiniteSet(S4) /\ Cardinality(S4) = Cardinality(S3) + Star(r.key, "permission")
  <2>1. "permission" \notin S3
    OBVIOUS
  <2> HIDE DEF S3
  <2> QED
    BY <1>4, <2>1, AddIf DEF Star
<1>6. S4 = {f \in Field : r.key[f] = Wide}
  BY DEF Field
<1> HIDE DEF S1, S2, S3, S4
<1>7. Stars(r) = Cardinality(S4)
  BY <1>6 DEF Stars
<1> QED
  BY <1>2, <1>3, <1>4, <1>5, <1>7 DEF Star

(* The score counts each exact field for 16, and gives each a rank.            *)
LEMMA ScoreIsSum ==
  ASSUME NEW key
  PROVE  /\ Score(key) = 95 - 24 * Star(key, "session") - 20 * Star(key, "user")
                            - 18 * Star(key, "client") - 17 * Star(key, "permission")
         /\ Score(key) \in 16 .. 95
  BY DEF Score, SomeMatchScore, Worth, FieldScore, Star

(* A higher score is what the README prefers.                                  *)
LEMMA HigherIsPreferred ==
  ASSUME NEW r \in Rule, NEW s \in Rule, Score(s.key) < Score(r.key)
  PROVE  Preferred(r, s)
<1> DEFINE R(f) == Star(r.key, f)
           S(f) == Star(s.key, f)
<1>1. Stars(r) = R("session") + R("user") + R("client") + R("permission")
  BY StarsIsSum
<1>2. Stars(s) = S("session") + S("user") + S("client") + S("permission")
  BY StarsIsSum
<1>3. \A f \in Field : R(f) \in {0, 1} /\ S(f) \in {0, 1}
  BY DEF Star
<1>4. \/ Stars(r) < Stars(s)
      \/ /\ Stars(r) = Stars(s)
         /\ \/ R("session") < S("session")
            \/ R("session") = S("session") /\ R("user") < S("user")
            \/ /\ R("session") = S("session") /\ R("user") = S("user")
               /\ R("client") < S("client")
            \/ /\ R("session") = S("session") /\ R("user") = S("user")
               /\ R("client") = S("client") /\ R("permission") < S("permission")
  <2>1. /\ Score(r.key) = 95 - 24 * R("session") - 20 * R("user")
                             - 18 * R("client") - 17 * R("permission")
        /\ Score(s.key) = 95 - 24 * S("session") - 20 * S("user")
                             - 18 * S("client") - 17 * S("permission")
    BY ScoreIsSum
  <2>2. /\ {R("session"), R("user"), R("client"), R("permission")} \subseteq {0, 1}
        /\ {S("session"), S("user"), S("client"), S("permission")} \subseteq {0, 1}
    BY <1>3 DEF Field
  <2> HIDE DEF R, S
  <2> QED
    BY <1>1, <1>2, <2>1, <2>2
<1>5. \A f \in Field : /\ (R(f) = S(f)) => ((r.key[f] = Wide) <=> (s.key[f] = Wide))
                       /\ (R(f) < S(f)) => (r.key[f] # Wide /\ s.key[f] = Wide)
  BY DEF Star
<1>6. CASE Stars(r) < Stars(s)
  BY <1>6 DEF Preferred
<1>7. ASSUME Stars(r) = Stars(s), NEW i \in 1 .. 4,
             R(Priority[i]) < S(Priority[i]),
             \A j \in 1 .. i - 1 : R(Priority[j]) = S(Priority[j])
      PROVE  Preferred(r, s)
  <2>1. \A j \in 1 .. 4 : Priority[j] \in Field
    BY DEF Priority, Field
  <2>2. r.key[Priority[i]] # Wide /\ s.key[Priority[i]] = Wide
    BY <1>5, <1>7, <2>1
  <2>3. \A j \in 1 .. i - 1 : (r.key[Priority[j]] = Wide) <=> (s.key[Priority[j]] = Wide)
    BY <1>5, <1>7, <2>1
  <2> QED
    BY <1>7, <2>2, <2>3 DEF Preferred
<1>8. /\ Priority[1] = "session" /\ Priority[2] = "user"
      /\ Priority[3] = "client" /\ Priority[4] = "permission"
  BY DEF Priority
<1>9. CASE Stars(r) = Stars(s) /\ R("session") < S("session")
  BY <1>7, <1>8, <1>9
<1>10. CASE Stars(r) = Stars(s) /\ R("session") = S("session") /\ R("user") < S("user")
  BY <1>7, <1>8, <1>10
<1>11. CASE /\ Stars(r) = Stars(s) /\ R("session") = S("session")
            /\ R("user") = S("user") /\ R("client") < S("client")
  <2>1. \A j \in 1 .. 3 - 1 : R(Priority[j]) = S(Priority[j])
    BY <1>8, <1>11
  <2> QED
    BY <1>7, <1>8, <1>11, <2>1
<1>12. CASE /\ Stars(r) = Stars(s) /\ R("session") = S("session")
            /\ R("user") = S("user") /\ R("client") = S("client")
            /\ R("permission") < S("permission")
  <2>1. \A j \in 1 .. 4 - 1 : R(Priority[j]) = S(Priority[j])
    BY <1>8, <1>12
  <2> QED
    BY <1>7, <1>8, <1>12, <2>1
<1> HIDE DEF R, S
<1> QED
  BY <1>4, <1>6, <1>9, <1>10, <1>11, <1>12

(* Among rules there is always one of highest score.                           *)
LEMMA SomeIsHighest ==
  ASSUME NEW found, found \subseteq Rule, found # {}
  PROVE  \E r \in found : \A s \in found : Score(s.key) <= Score(r.key)
<1> DEFINE M == {95 - Score(r.key) : r \in found}
           Less == OpToRel(<, Nat)
<1>1. M \subseteq Nat /\ M # {}
  BY ScoreIsSum
<1>2. \E x \in M : \A y \in M : ~ (<<y, x>> \in Less)
  BY <1>1, NatLessThanWellFounded, WFMin
<1>3. PICK r \in found : \A y \in M : ~ (<<y, 95 - Score(r.key)>> \in Less)
  BY <1>2
<1>4. ASSUME NEW s \in found
      PROVE  Score(s.key) <= Score(r.key)
  <2>1. ~ (<<95 - Score(s.key), 95 - Score(r.key)>> \in Less)
    BY <1>3
  <2>2. ~ (95 - Score(s.key) < 95 - Score(r.key))
    BY <1>1, <2>1 DEF OpToRel
  <2> QED
    BY <2>2, ScoreIsSum
<1> QED
  BY <1>4

(* What a database answers: the rule of highest score, or no match.            *)
LEMMA TestFacts ==
  ASSUME NEW rules, rules \subseteq Rule, NEW query, NEW time,
         NEW found, found = {r \in Live(rules, time) : TestMatch(r.key, query)}
  PROVE  /\ found = {} => Test(rules, query, time) = Nothing
         /\ found # {} =>
              \E r \in found :
                /\ \A s \in found : Score(s.key) <= Score(r.key)
                /\ Test(rules, query, time)
                     = [score |-> Score(r.key), value |-> r.value, expire |-> r.expire]
<1>1. CASE found = {}
  BY <1>1 DEF Test
<1>2. CASE found # {}
  <2> DEFINE r == CHOOSE r \in found : \A s \in found : Score(s.key) <= Score(r.key)
  <2>1. found \subseteq Rule
    BY DEF Live
  <2>2. r \in found /\ \A s \in found : Score(s.key) <= Score(r.key)
    BY <1>2, <2>1, SomeIsHighest
  <2>3. Test(rules, query, time)
          = [score |-> Score(r.key), value |-> r.value, expire |-> r.expire]
    BY <1>2 DEF Test
  <2> QED
    BY <1>2, <2>2, <2>3
<1> QED
  BY <1>1, <1>2

(* The ranks of the fields cannot make up for one another: keys of the same    *)
(* score have their STARs in the same fields.                                  *)
LEMMA ScoreTellsStars ==
  ASSUME NEW a, NEW b, Score(a) = Score(b)
  PROVE  \A f \in Field : (a[f] = Wide) <=> (b[f] = Wide)
<1>1. /\ Star(a, "session") \in 0 .. 1 /\ Star(a, "user") \in 0 .. 1
      /\ Star(a, "client") \in 0 .. 1 /\ Star(a, "permission") \in 0 .. 1
      /\ Star(b, "session") \in 0 .. 1 /\ Star(b, "user") \in 0 .. 1
      /\ Star(b, "client") \in 0 .. 1 /\ Star(b, "permission") \in 0 .. 1
  BY DEF Star
<1>2. 95 - 24 * Star(a, "session") - 20 * Star(a, "user")
         - 18 * Star(a, "client") - 17 * Star(a, "permission")
      = 95 - 24 * Star(b, "session") - 20 * Star(b, "user")
           - 18 * Star(b, "client") - 17 * Star(b, "permission")
  BY ScoreIsSum
<1>3. Star(a, "permission") = Star(b, "permission")
  BY <1>1, <1>2
<1>4. Star(a, "client") = Star(b, "client")
  BY <1>1, <1>2, <1>3
<1>5. Star(a, "session") = Star(b, "session") /\ Star(a, "user") = Star(b, "user")
  BY <1>1, <1>2, <1>3, <1>4
<1> QED
  BY <1>3, <1>4, <1>5 DEF Field, Star

(* Two rules that match a query with the same score bear the same key.         *)
LEMMA SameScoreSameKey ==
  ASSUME NEW r \in Rule, NEW s \in Rule, NEW query,
         TestMatch(r.key, query), TestMatch(s.key, query),
         Score(r.key) = Score(s.key)
  PROVE  SameKey(r.key, s.key)
<1>1. \A f \in Field : (r.key[f] = Wide) <=> (s.key[f] = Wide)
  BY ScoreTellsStars
<1> QED
  BY <1>1 DEF TestMatch, SameName, SameKey

(* Not expired for the traversals is in force for the README.                  *)
LEMMA LiveIsInForce ==
  ASSUME IInv, NEW r \in mem \cup file
  PROVE  InForce(r) <=> ~Expired(r.expire, now)
<1>1. r.expire \in Int /\ now \in Nat
  BY DatesAreIntegers DEF IInv, Sound, Rule
<1> QED
  BY <1>1 DEF InForce, Expired, Deadline

(* In sound databases the greatest score is that of the rule that the README   *)
(* prefers.                                                                    *)
LEMMA InvGivesSelection == IInv => SelectionFollowsReadme
<1> SUFFICES ASSUME IInv, NEW q \in Queries, q["permission"] # Any
             PROVE  LET answer == DbTestAnswer(q)
                    IN  IF Applicable(q) = {} THEN answer = Nothing
                        ELSE \E r \in Applicable(q) :
                               /\ \A s \in Applicable(q) \ {r} : Preferred(r, s)
                               /\ answer.score > 0
                               /\ answer.value = r.value
                               /\ answer.expire = r.expire
  BY DEF SelectionFollowsReadme, FollowsReadme
<1> DEFINE found(rules) == {r \in Live(rules, now) : TestMatch(r.key, q)}
           m == Test(mem, q, now)
           f == Test(file, q, now)
           Said(r) == [score |-> Score(r.key), value |-> r.value, expire |-> r.expire]
<1>1. mem \subseteq Rule /\ file \subseteq Rule
  BY DEF IInv, Sound
<1>2. Applicable(q) = found(mem) \cup found(file)
  BY LiveIsInForce DEF Applicable, TestMatch, Live, Dead
<1>3. /\ found(mem) = {} => m = Nothing
      /\ found(mem) # {} =>
           \E r \in found(mem) :
             /\ \A s \in found(mem) : Score(s.key) <= Score(r.key)
             /\ m = Said(r)
  BY <1>1, TestFacts
<1>4. /\ found(file) = {} => f = Nothing
      /\ found(file) # {} =>
           \E r \in found(file) :
             /\ \A s \in found(file) : Score(s.key) <= Score(r.key)
             /\ f = Said(r)
  BY <1>1, TestFacts
<1>5. DbTestAnswer(q) = IF f.score > m.score THEN f ELSE m
  BY DEF DbTestAnswer
<1>6. Applicable(q) \subseteq Rule
  BY <1>1, <1>2 DEF Live
<1>7. \A r : Said(r).score = Score(r.key) /\ Score(r.key) \in 16 .. 95
  BY ScoreIsSum
<1>8. Nothing.score = 0
  BY DEF Nothing, NoMatchScore
<1>9. q["permission"] \in Texts
  BY KeysAreKeys DEF Key, Field
<1>10. CASE Applicable(q) = {}
  BY <1>2, <1>3, <1>4, <1>5, <1>8, <1>10
<1>11. CASE Applicable(q) # {}
  <2>1. PICK r \in Applicable(q) :
          /\ \A s \in Applicable(q) : Score(s.key) <= Score(r.key)
          /\ DbTestAnswer(q) = Said(r)
    <3> HIDE DEF found, m, f, Said
    <3>1. CASE found(mem) = {}
      <4>1. Applicable(q) = found(file) /\ found(file) # {}
        BY <1>2, <1>11, <3>1
      <4>2. PICK b \in found(file) :
              (\A s \in found(file) : Score(s.key) <= Score(b.key)) /\ f = Said(b)
        BY <1>4, <4>1
      <4>3. m.score = 0
        BY <1>3, <1>8, <3>1
      <4>4. f.score > m.score /\ f.score \in Int
        BY <1>7, <4>2, <4>3
      <4>5. DbTestAnswer(q) = f
        BY <1>5, <4>3, <4>4
      <4> QED
        BY <4>1, <4>2, <4>5
    <3>2. CASE found(file) = {}
      <4>1. Applicable(q) = found(mem) /\ found(mem) # {}
        BY <1>2, <1>11, <3>2
      <4>2. PICK a \in found(mem) :
              (\A s \in found(mem) : Score(s.key) <= Score(a.key)) /\ m = Said(a)
        BY <1>3, <4>1
      <4>3. f.score = 0
        BY <1>4, <1>8, <3>2
      <4>4. m.score > f.score /\ m.score \in Int
        BY <1>7, <4>2, <4>3
      <4>5. DbTestAnswer(q) = m
        BY <1>5, <4>3, <4>4
      <4> QED
        BY <4>1, <4>2, <4>5
    <3>3. CASE found(mem) # {} /\ found(file) # {}
      <4>1. PICK a \in found(mem) :
              (\A s \in found(mem) : Score(s.key) <= Score(a.key)) /\ m = Said(a)
        BY <1>3, <3>3
      <4>2. PICK b \in found(file) :
              (\A s \in found(file) : Score(s.key) <= Score(b.key)) /\ f = Said(b)
        BY <1>4, <3>3
      <4>3. CASE Score(b.key) > Score(a.key)
        <5>1. \A s \in found(mem) \cup found(file) : Score(s.key) <= Score(b.key)
          BY <1>7, <4>1, <4>2, <4>3
        <5> QED
          BY <1>2, <1>5, <1>7, <4>1, <4>2, <4>3, <5>1
      <4>4. CASE ~(Score(b.key) > Score(a.key))
        <5>1. \A s \in found(mem) \cup found(file) : Score(s.key) <= Score(a.key)
          BY <1>7, <4>1, <4>2, <4>4
        <5> QED
          BY <1>2, <1>5, <1>7, <4>1, <4>2, <4>4, <5>1
      <4> QED
        BY <4>3, <4>4
    <3> QED
      BY <3>1, <3>2, <3>3
  <2>2. ASSUME NEW s \in Applicable(q) \ {r}
        PROVE  Preferred(r, s)
    <3>1. TestMatch(r.key, q) /\ TestMatch(s.key, q) /\ {r, s} \subseteq mem \cup file
      BY DEF Applicable, TestMatch
    <3>2. r.key["permission"] # Any
      <4>1. SameName("permission", Any, q["permission"]) => Any = q["permission"]
        BY <1>9, FoldKeepsSpecialNames DEF SameName, Texts
      <4> QED
        BY <3>1, <4>1, SpecialNames DEF TestMatch, Field
    <3>3. Score(s.key) # Score(r.key)
      BY <1>6, <3>1, <3>2, SameScoreSameKey, InvGivesOneRule DEF OneRulePerKey
    <3>4. Score(s.key) < Score(r.key)
      BY <1>7, <2>1, <3>3
    <3> QED
      BY <1>6, <3>4, HigherIsPreferred
  <2>3. /\ DbTestAnswer(q).score > 0
        /\ DbTestAnswer(q).value = r.value
        /\ DbTestAnswer(q).expire = r.expire
    BY <1>7, <2>1
  <2> QED
    BY <1>11, <2>2, <2>3
<1> QED
  BY <1>10, <1>11

(* Whatever rules were stored and by what history, each query is answered by   *)
(* the rule that the README selects: the sum of scores of searchkey_test and   *)
(* the comparison of the two databases in db_test never choose another.        *)
THEOREM SelectionFollowsReadmeHolds == Spec => []SelectionFollowsReadme
  BY InvAlways, InvGivesSelection, PTL
================================================================================
