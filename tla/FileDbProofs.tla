------------------------------ MODULE FileDbProofs ------------------------------
(*******************************************************************************)
(* Proofs about module FileDb, for any keys and values, and whether writes and *)
(* links may fail or not: what a sync skips is on disk, what a stop finds      *)
(* there, what a recovery reads and what the first cancel gives back.          *)
(*******************************************************************************)
EXTENDS FileDb, Lemmas, SequenceTheorems

GoodNames(ns) ==
  ns \in Seq(Keys) /\ \A i, j \in DOMAIN ns : ns[i] = ns[j] => i = j
GoodRules(rs) ==
  rs \in Seq(Rule) /\ \A i, j \in DOMAIN rs : rs[i].name = rs[j].name => i = j
Refers(rs, ns) == \A i \in DOMAIN rs : rs[i].name \in DOMAIN ns

NoBuffer == {Missing, Fresh, Unreadable}
Files(file) ==
  /\ file = [f \in Both |-> file[f]]
  /\ file["names"] \in NoBuffer \/ GoodNames(file["names"])
  /\ file["rules"] \in NoBuffer \/ GoodRules(file["rules"])

(* The file f is being written: it is not what it was, nor what it will be.    *)
Writing(f) == step # "none" /\ Current = f

Shape ==
  /\ GoodNames(names) /\ GoodRules(rules) /\ Refers(rules, names)
  /\ Files(disk) /\ Files(copy)
  /\ size \in [Both -> Nat] /\ saved \in [Both -> Nat]
  /\ \A f \in Both : saved[f] <= SizeOf(Buffer(f))
  /\ has_backup \in BOOLEAN /\ is_changed \in BOOLEAN /\ need_cleanup \in BOOLEAN
  /\ backuped \subseteq Both /\ linked \subseteq Both /\ history \subseteq Facts

(* The order of a commit: names first, and cancels are between transactions.   *)
Order ==
  /\ phase = "transaction" => has_backup
  /\ Running /\ step # "none" => Syncing /\ is_changed
  /\ phase \in {"commit_rules", "last_rules"} =>
       /\ is_changed
       /\ "failed" \notin history => disk["names"] = names /\ saved["names"] # 0
  /\ "cancelled" \in history => phase \in {"idle", "stuck", "closed", "exited", "broken"}

(* What "saved" and "size" tell of the file f, whose buffer is "buffer".  A    *)
(* packing may raise "saved" from 0 after a recovery: the size of the backup,  *)
(* not 1 then, is what tells that the file is to be written.                   *)
AsSaved(f, buffer) ==
  saved[f] # 0 =>
    \/ saved[f] = 1 /\ size[f] # 1
    \/ /\ disk[f] \notin NoBuffer
       /\ size[f] = SizeOf(disk[f])
       /\ \A i \in 1 .. saved[f] - 1 : i \in DOMAIN disk[f] /\ disk[f][i] = buffer[i]

NeverWritten(f, buffer) ==
  saved[f] = 0 => /\ ~is_changed => ~need_cleanup /\ size[f] \in {0, SizeOf(buffer)}
                  /\ phase = "cleanup" /\ need_cleanup => size[f] # 1

SizesTell ==
  Running /\ "failed" \notin history =>
    /\ \A f \in Both : /\ Writing(f) \/ AsSaved(f, Buffer(f))
                       /\ NeverWritten(f, Buffer(f))
    /\ phase = "cleanup" /\ is_changed => need_cleanup

(* A file that shares its inode with its backup has its content.               *)
LinkedIsCopy ==
  /\ \A f \in linked : disk[f] = copy[f] /\ disk[f] # Missing
  /\ Running /\ step # "none" => Current \notin linked

(* Until both backups are made since the files were opened, no transaction     *)
(* was ever begun: the files are as they were opened, readable, and a backup   *)
(* that is made already is a copy of them.  From then on the backups stay.     *)
CanRecover(file) == Recoverable(file) /\ ~IsNew(file["names"])
BackupsAreOfOneMoment ==
  Running =>
    IF backuped = Both THEN "fresh" \notin history => CanRecover(copy)
    ELSE /\ phase \in {"idle", "stuck"} /\ ~has_backup
         /\ Readable(disk) /\ \A f \in Both : disk[f] # Missing
         /\ "fresh" \notin history => CanRecover(disk)
         /\ \A f \in backuped : copy[f] = disk[f]

Extends(ns, ms) == \A i \in DOMAIN ms : i \in DOMAIN ns /\ ns[i] = ms[i]

(* The names in memory extend those on disk, so that the rules on disk say the *)
(* same under both, and while the names are written too.                      *)
OnDisk == Says(Loaded(disk["names"]), Loaded(disk["rules"]))
NothingLost ==
  {"failed", "renumbered"} \cap history = {} =>
    /\ step = "none" => /\ Readable(disk) /\ OnDisk = written
                        /\ Running => Extends(names, Loaded(disk["names"]))
    /\ Running /\ ~Writing("rules") =>
         /\ disk["rules"] # Unreadable /\ Refers(Loaded(disk["rules"]), names)
         /\ Says(names, Loaded(disk["rules"])) = written

(* Until the first write since the files were opened they are as they were, the *)
(* backups are copies of them, and between transactions the memory has their   *)
(* names and some of their rules; inside, the rules at the start are theirs.   *)
SomeOf(rs, qs) == \A i \in DOMAIN rs : \E j \in DOMAIN qs : rs[i] = qs[j]
Part(s, t) == \A k \in DOMAIN s : k \in DOMAIN t /\ s[k] = t[k]
AsOnDisk == names = Loaded(disk["names"]) /\ SomeOf(rules, Loaded(disk["rules"]))
Pristine ==
  {"synced", "failed"} \cap history = {} =>
    /\ "cancelled" \in history => GivenBack
    /\ Running /\ ~(Syncing /\ is_changed) =>
         /\ Readable(disk)
         /\ \A f \in backuped : copy[f] = disk[f]
         /\ ~is_changed \/ phase \in {"idle", "stuck"} => AsOnDisk
    /\ phase = "transaction" =>
         /\ Part(atStart, OnDisk)
         /\ ~is_changed => GivenBack

IInv ==
  /\ Shape /\ Order /\ SizesTell
  /\ LinkedIsCopy /\ BackupsAreOfOneMoment
  /\ NothingLost /\ Pristine

--------------------------------------------------------------------------------
(* A buffer is not what stands for a file without one.                         *)
LEMMA BuffersAreBuffers ==
  /\ \A ns : GoodNames(ns) => ns \notin NoBuffer /\ ~IsNew(ns) /\ Loaded(ns) = ns
  /\ \A rs : GoodRules(rs) => rs \notin NoBuffer /\ ~IsNew(rs) /\ Loaded(rs) = rs
  BY NoFileIsABuffer DEF GoodNames, GoodRules, NoBuffer, IsNew, Loaded

LEMMA EmptyIsGood == GoodNames(<<>>) /\ GoodRules(<<>>) /\ Refers(<<>>, <<>>)
<1>1. <<>> \in Seq(Keys) /\ <<>> \in Seq(Rule) /\ DOMAIN <<>> = {}
  OBVIOUS
<1> QED
  BY <1>1 DEF GoodNames, GoodRules, Refers

(* What is read from files that can be opened.                                 *)
LEMMA LoadedIsGood ==
  ASSUME NEW file, Files(file)
  PROVE  /\ file["names"] # Unreadable => GoodNames(Loaded(file["names"]))
         /\ file["rules"] # Unreadable => GoodRules(Loaded(file["rules"]))
<1>1. \A x : x \in NoBuffer /\ x # Unreadable => Loaded(x) = <<>>
  BY DEF NoBuffer, Loaded, IsNew
<1> QED
  BY <1>1, BuffersAreBuffers, EmptyIsGood DEF Files

LEMMA ReadableIsGood ==
  ASSUME NEW file, Files(file), Readable(file)
  PROVE  /\ GoodNames(Loaded(file["names"])) /\ GoodRules(Loaded(file["rules"]))
         /\ Refers(Loaded(file["rules"]), Loaded(file["names"]))
  BY LoadedIsGood DEF Readable, Refers

LEMMA RecoverableIsGood ==
  ASSUME NEW file, Files(file), CanRecover(file)
  PROVE  /\ GoodNames(file["names"]) /\ GoodRules(file["rules"])
         /\ Refers(file["rules"], file["names"])
         /\ Loaded(file["names"]) = file["names"] /\ Loaded(file["rules"]) = file["rules"]
<1>1. Loaded(file["names"]) = file["names"] /\ Loaded(file["rules"]) = file["rules"]
  BY DEF CanRecover, Recoverable, Loaded
<1> QED
  BY <1>1, ReadableIsGood DEF CanRecover, Recoverable

LEMMA GoodFiles ==
  ASSUME NEW ns, NEW rs, ns \in NoBuffer \/ GoodNames(ns), rs \in NoBuffer \/ GoodRules(rs),
         NEW file, file = [f \in Both |-> IF f = "names" THEN ns ELSE rs]
  PROVE  Files(file)
<1>1. file["names"] = ns /\ file["rules"] = rs /\ DOMAIN file = Both
  BY DEF Both
<1> QED
  BY <1>1 DEF Files

Replaced(new, file, f, x) == new = [file EXCEPT ![f] = x]
LEMMA FilesExcept ==
  ASSUME NEW file, Files(file), NEW f \in Both, NEW x,
         f = "names" => x \in NoBuffer \/ GoodNames(x),
         f = "rules" => x \in NoBuffer \/ GoodRules(x),
         NEW new, Replaced(new, file, f, x)
  PROVE  /\ Files(new)
         /\ \A g \in Both : new[g] = IF g = f THEN x ELSE file[g]
<1>1. DOMAIN file = Both
  BY DEF Files
<1>2. \A g \in Both : new[g] = IF g = f THEN x ELSE file[g]
  BY <1>1 DEF Replaced
<1>3. new = [g \in Both |-> new[g]]
  BY <1>1 DEF Replaced
<1>4. "names" \in Both /\ "rules" \in Both /\ "names" # "rules"
  BY DEF Both
<1>5. Files(new)
  BY <1>2, <1>3, <1>4 DEF Files
<1> QED
  BY <1>2, <1>5

--------------------------------------------------------------------------------
(* What the rules say, key by key.                                             *)
LEMMA SaysFacts ==
  ASSUME NEW ns, GoodNames(ns), NEW rs, GoodRules(rs), Refers(rs, ns)
  PROVE  /\ \A i \in DOMAIN rs : /\ ns[rs[i].name] \in DOMAIN Says(ns, rs)
                                 /\ Says(ns, rs)[ns[rs[i].name]] = rs[i].value
         /\ \A k \in DOMAIN Says(ns, rs) : \E i \in DOMAIN rs : ns[rs[i].name] = k
<1>1. ASSUME NEW i \in DOMAIN rs
      PROVE  Says(ns, rs)[ns[rs[i].name]] = rs[i].value
  <2> DEFINE k == ns[rs[i].name]
             j == CHOOSE j \in DOMAIN rs : ns[rs[j].name] = k
  <2>1. j \in DOMAIN rs /\ ns[rs[j].name] = k
    OBVIOUS
  <2>2. j = i
    BY <2>1 DEF GoodNames, GoodRules, Refers
  <2>3. k \in {ns[rs[l].name] : l \in DOMAIN rs}
    OBVIOUS
  <2>4. Says(ns, rs)[k] = rs[j].value
    BY <2>3 DEF Says
  <2> QED
    BY <2>2, <2>4
<1> QED
  BY <1>1 DEF Says

(* Rules say the same under names that agree on them.                          *)
LEMMA SaysUnderMoreNames ==
  ASSUME NEW ns, NEW ms, NEW rs, \A i \in DOMAIN rs : ns[rs[i].name] = ms[rs[i].name]
  PROVE  Says(ns, rs) = Says(ms, rs)
<1> DEFINE old(k) == CHOOSE i \in DOMAIN rs : ns[rs[i].name] = k
           new(k) == CHOOSE i \in DOMAIN rs : ms[rs[i].name] = k
<1>1. {ns[rs[i].name] : i \in DOMAIN rs} = {ms[rs[i].name] : i \in DOMAIN rs}
  OBVIOUS
<1>2. \A k : old(k) = new(k)
  OBVIOUS
<1>3. /\ Says(ns, rs) = [k \in {ns[rs[i].name] : i \in DOMAIN rs} |-> rs[old(k)].value]
      /\ Says(ms, rs) = [k \in {ms[rs[i].name] : i \in DOMAIN rs} |-> rs[new(k)].value]
  BY DEF Says
<1> HIDE DEF old, new
<1> QED
  BY <1>1, <1>2, <1>3

LEMMA ExtendsFacts ==
  ASSUME NEW ns, NEW ms, Extends(ns, ms), NEW rs, Refers(rs, ms)
  PROVE  Refers(rs, ns) /\ Says(ns, rs) = Says(ms, rs)
<1>1. Refers(rs, ns)
  BY DEF Extends, Refers
<1>2. \A i \in DOMAIN rs : ns[rs[i].name] = ms[rs[i].name]
  BY DEF Extends, Refers
<1> QED
  BY <1>1, <1>2, SaysUnderMoreNames

(* Some of the rules say part of what all say.                                 *)
LEMMA SaysPart ==
  ASSUME NEW ns, GoodNames(ns), NEW qs, GoodRules(qs), Refers(qs, ns),
         NEW rs, GoodRules(rs), SomeOf(rs, qs)
  PROVE  Part(Says(ns, rs), Says(ns, qs))
<1>1. Refers(rs, ns)
  BY DEF SomeOf, Refers
<1>2. ASSUME NEW k \in DOMAIN Says(ns, rs)
      PROVE  k \in DOMAIN Says(ns, qs) /\ Says(ns, rs)[k] = Says(ns, qs)[k]
  <2>1. PICK i \in DOMAIN rs : ns[rs[i].name] = k
    BY <1>1, SaysFacts
  <2>2. Says(ns, rs)[ns[rs[i].name]] = rs[i].value
    BY <1>1, SaysFacts
  <2>3. PICK j \in DOMAIN qs : rs[i] = qs[j]
    BY DEF SomeOf
  <2>4. ns[qs[j].name] \in DOMAIN Says(ns, qs) /\ Says(ns, qs)[ns[qs[j].name]] = qs[j].value
    BY SaysFacts
  <2> QED
    BY <2>1, <2>2, <2>3, <2>4
<1> QED
  BY <1>2 DEF Part

--------------------------------------------------------------------------------
(* Names that are looked for, and added if they are not there.                 *)
LEMMA InternedFacts ==
  ASSUME GoodNames(names), NEW key \in Keys
  PROVE  /\ GoodNames(Interned(key)) /\ Extends(Interned(key), names)
         /\ \E n \in DOMAIN Interned(key) : Interned(key)[n] = key
         /\ \/ Interned(key) = names
            \/ /\ \A n \in DOMAIN names : Interned(key)[n] # key
               /\ Len(Interned(key)) = Len(names) + 1
<1>1. names \in Seq(Keys) /\ \A i, j \in DOMAIN names : names[i] = names[j] => i = j
  BY DEF GoodNames
<1>2. CASE \E i \in DOMAIN names : names[i] = key
  BY <1>1, <1>2 DEF Interned, GoodNames, Extends
<1>3. CASE ~\E i \in DOMAIN names : names[i] = key
  <2> DEFINE ns == Append(names, key)
             n == Len(names) + 1
  <2>1. /\ ns \in Seq(Keys) /\ Len(ns) = n /\ DOMAIN ns = 1 .. n
        /\ ns[n] = key /\ n \in DOMAIN ns
        /\ \A i \in DOMAIN names : i \in DOMAIN ns /\ ns[i] = names[i]
        /\ \A i \in DOMAIN ns : i = n \/ i \in DOMAIN names
    BY <1>1
  <2>2. Interned(key) = ns
    BY <1>3 DEF Interned
  <2> HIDE DEF ns, n
  <2>3. \A i, j \in DOMAIN ns : ns[i] = ns[j] => i = j
    BY <1>1, <1>3, <2>1
  <2>4. GoodNames(ns) /\ Extends(ns, names)
    BY <2>1, <2>3 DEF GoodNames, Extends
  <2>5. \A i \in DOMAIN names : ns[i] # key
    BY <1>3, <2>1
  <2> QED
    BY <2>1, <2>2, <2>4, <2>5 DEF n
<1> QED
  BY <1>2, <1>3

(* A rule added, changed in place, or removed by moving the last to its place. *)
LEMMA AddedRule ==
  ASSUME GoodRules(rules), NEW r \in Rule, \A i \in DOMAIN rules : rules[i].name # r.name
  PROVE  LET rs == Append(rules, r)
         IN  /\ GoodRules(rs) /\ Len(rs) = Len(rules) + 1
             /\ \A i \in DOMAIN rs : rs[i] = r \/ (i \in DOMAIN rules /\ rs[i] = rules[i])
             /\ \A i \in DOMAIN rules : rs[i] = rules[i]
<1> DEFINE rs == Append(rules, r)
           n == Len(rules) + 1
<1>1. rules \in Seq(Rule) /\ \A i, j \in DOMAIN rules : rules[i].name = rules[j].name => i = j
  BY DEF GoodRules
<1>2. /\ rs \in Seq(Rule) /\ Len(rs) = n /\ DOMAIN rs = 1 .. n /\ rs[n] = r
      /\ \A i \in DOMAIN rules : rs[i] = rules[i]
      /\ \A i \in DOMAIN rs : i = n \/ i \in DOMAIN rules
  BY <1>1
<1> HIDE DEF rs, n
<1>3. \A i, j \in DOMAIN rs : rs[i].name = rs[j].name => i = j
  BY <1>1, <1>2
<1>4. GoodRules(rs)
  BY <1>2, <1>3 DEF GoodRules
<1>5. \A i \in DOMAIN rs : rs[i] = r \/ (i \in DOMAIN rules /\ rs[i] = rules[i])
  BY <1>2
<1>6. Len(rs) = Len(rules) + 1 /\ \A i \in DOMAIN rules : rs[i] = rules[i]
  BY <1>2 DEF n
<1> QED
  BY <1>4, <1>5, <1>6 DEF rs

LEMMA ChangedRule ==
  ASSUME GoodRules(rules), NEW i \in DOMAIN rules, NEW value \in Values
  PROVE  LET rs == [rules EXCEPT ![i].value = value]
         IN  /\ GoodRules(rs) /\ Len(rs) = Len(rules) /\ DOMAIN rs = DOMAIN rules
             /\ \A j \in DOMAIN rs : rs[j].name = rules[j].name
             /\ \A j \in DOMAIN rs : j # i => rs[j] = rules[j]
<1> DEFINE rs == [rules EXCEPT ![i].value = value]
<1>1. rules \in Seq(Rule) /\ \A j, l \in DOMAIN rules : rules[j].name = rules[l].name => j = l
  BY DEF GoodRules
<1>2. /\ DOMAIN rs = DOMAIN rules
      /\ \A j \in DOMAIN rules : rs[j] = IF j = i THEN [rules[i] EXCEPT !.value = value] ELSE rules[j]
  BY <1>1
<1>3. \A j \in DOMAIN rules : rules[j] \in Rule
  BY <1>1
<1>4. /\ [rules[i] EXCEPT !.value = value] \in Rule
      /\ [rules[i] EXCEPT !.value = value].name = rules[i].name
  BY <1>3 DEF Rule
<1> HIDE DEF rs
<1>5. \A j \in DOMAIN rules : rs[j] \in Rule /\ rs[j].name = rules[j].name
  BY <1>2, <1>3, <1>4
<1>6. rs \in Seq(Rule) /\ Len(rs) = Len(rules)
  <2>1. Len(rules) \in Nat /\ DOMAIN rules = 1 .. Len(rules)
    BY <1>1
  <2>2. rs = [j \in 1 .. Len(rules) |-> rs[j]]
    BY <2>1 DEF rs
  <2>3. rs \in [1 .. Len(rules) -> Rule]
    BY <1>5, <2>1, <2>2
  <2> QED
    BY <2>1, <2>3, SeqDef, LenProperties
<1> QED
  BY <1>1, <1>2, <1>5, <1>6 DEF GoodRules, rs

LEMMA WithoutFacts ==
  ASSUME GoodRules(rules), NEW i \in DOMAIN rules
  PROVE  /\ GoodRules(Without(i)) /\ Len(Without(i)) = Len(rules) - 1
         /\ \A j \in DOMAIN Without(i) : j \in DOMAIN rules /\ \E l \in DOMAIN rules : Without(i)[j] = rules[l]
         /\ \A j \in DOMAIN Without(i) : j # i => Without(i)[j] = rules[j]
<1> DEFINE n == Len(rules)
           moved == [rules EXCEPT ![i] = rules[n]]
           rs == SubSeq(moved, 1, n - 1)
<1>1. /\ rules \in Seq(Rule) /\ n \in Nat /\ DOMAIN rules = 1 .. n /\ n >= 1 /\ i \in 1 .. n
      /\ \A j, l \in DOMAIN rules : rules[j].name = rules[l].name => j = l
  BY DEF GoodRules
<1>2. \A j \in 1 .. n : rules[j] \in Rule
  BY <1>1
<1>3. /\ moved \in [1 .. n -> Rule] /\ moved \in Seq(Rule) /\ Len(moved) = n
      /\ \A j \in 1 .. n : moved[j] = IF j = i THEN rules[n] ELSE rules[j]
  <2>1. moved \in [1 .. n -> Rule]
    BY <1>1, <1>2
  <2> QED
    BY <1>1, <2>1, SeqDef, LenProperties
<1> HIDE DEF moved, n
<1>4. rs \in Seq(Rule) /\ Len(rs) = n - 1 /\ \A j \in 1 .. n - 1 : rs[j] = moved[j]
  <2>1. \A j \in 1 .. n - 1 : j \in 1 .. n
    BY <1>1
  <2>2. 1 \in 1 .. n + 1 /\ n - 1 \in 1 - 1 .. n
    BY <1>1
  <2> QED
    BY <1>1, <1>3, <2>1, <2>2, SubSeqProperties
<1> HIDE DEF rs
<1>5. DOMAIN rs = 1 .. n - 1
  BY <1>1, <1>4
<1>6. \A j \in DOMAIN rs : j \in 1 .. n /\ j # n /\ rs[j] = IF j = i THEN rules[n] ELSE rules[j]
  BY <1>1, <1>3, <1>4, <1>5
<1>7. \A j, l \in DOMAIN rs : rs[j].name = rs[l].name => j = l
  <2> SUFFICES ASSUME NEW j \in DOMAIN rs, NEW l \in DOMAIN rs, rs[j].name = rs[l].name
               PROVE  j = l
    OBVIOUS
  <2> DEFINE a == IF j = i THEN n ELSE j
             b == IF l = i THEN n ELSE l
  <2>1. a \in DOMAIN rules /\ b \in DOMAIN rules /\ rs[j] = rules[a] /\ rs[l] = rules[b]
    BY <1>1, <1>6
  <2>2. a = b
    BY <1>1, <2>1
  <2> QED
    BY <1>6, <2>2
<1>8. Without(i) = rs
  BY DEF Without, rs, moved, n
<1>9. \A j \in DOMAIN rs : j \in DOMAIN rules /\ \E l \in DOMAIN rules : rs[j] = rules[l]
  BY <1>1, <1>6
<1> QED
  BY <1>1, <1>4, <1>6, <1>7, <1>8, <1>9 DEF GoodRules, n

(* What is left of a buffer that was cut.                                      *)
LEMMA CutBuffer ==
  ASSUME NEW S, NEW s \in Seq(S), NEW n \in 0 .. Len(s) - 1
  PROVE  /\ SubSeq(s, 1, n) \in Seq(S) /\ DOMAIN SubSeq(s, 1, n) \subseteq DOMAIN s
         /\ \A i \in DOMAIN SubSeq(s, 1, n) : SubSeq(s, 1, n)[i] = s[i]
<1> DEFINE cut == SubSeq(s, 1, n)
<1>1. Len(s) \in Nat /\ n \in Nat /\ n <= Len(s) /\ DOMAIN s = 1 .. Len(s)
  OBVIOUS
<1>2. 1 \in 1 .. Len(s) + 1 /\ n \in 1 - 1 .. Len(s)
  BY <1>1
<1>3. cut \in Seq(S) /\ Len(cut) = n /\ \A i \in 1 .. n : cut[i] = s[i]
  <2>1. \A i \in 1 .. n : s[i] \in S
    BY <1>1
  <2> QED
    BY <1>1, <1>2, <2>1, SubSeqProperties
<1> HIDE DEF cut
<1>4. DOMAIN cut = 1 .. n
  BY <1>3
<1> QED
  BY <1>1, <1>3, <1>4 DEF cut

(* Packing: each rule keeps its name and its value, under another number.      *)
LEMMA PackFacts ==
  ASSUME GoodNames(names), GoodRules(rules), Refers(rules, names)
  PROVE  LET ns == PackedNames(UsedNames)
             rs == Renumbered(UsedNames)
         IN  /\ GoodNames(ns) /\ GoodRules(rs) /\ Refers(rs, ns)
             /\ \A i \in DOMAIN rs : /\ i \in DOMAIN rules
                                     /\ rs[i].value = rules[i].value
                                     /\ ns[rs[i].name] = names[rules[i].name]
<1> DEFINE n == Len(names)
           used == UsedNames
           ns == PackedNames(used)
           rs == Renumbered(used)
<1>1. /\ names \in Seq(Keys) /\ n \in Nat /\ DOMAIN names = 1 .. n
      /\ \A i, j \in DOMAIN names : names[i] = names[j] => i = j
  BY DEF GoodNames
<1>2. rules \in Seq(Rule) /\ \A i, j \in DOMAIN rules : rules[i].name = rules[j].name => i = j
  BY DEF GoodRules
<1>3. used \in SUBSET (1 .. n) /\ \A i \in DOMAIN rules : rules[i].name \in used
  BY <1>1 DEF UsedNames, Refers
<1> HIDE DEF n, used
<1>4. /\ ns \in Seq(Keys) /\ DOMAIN ns = 1 .. Cardinality(used)
      /\ \A i \in DOMAIN ns : Nth(used, i) \in used /\ ns[i] = names[Nth(used, i)]
  <2>1. used \in SUBSET DOMAIN names
    BY <1>1, <1>3
  <2> QED
    BY <1>1, <2>1, PickedFacts DEF PackedNames
<1>5. \A i, j \in DOMAIN ns : ns[i] = ns[j] => i = j
  <2> SUFFICES ASSUME NEW i \in DOMAIN ns, NEW j \in DOMAIN ns, ns[i] = ns[j]
               PROVE  i = j
    OBVIOUS
  <2>1. Nth(used, i) = Nth(used, j)
    BY <1>1, <1>3, <1>4
  <2>2. Rank(used, Nth(used, i)) = i /\ Rank(used, Nth(used, j)) = j
    BY <1>1, <1>3, <1>4, NthFacts
  <2> QED
    BY <2>1, <2>2
<1>6. /\ \A j \in used : Rank(used, j) \in DOMAIN ns /\ Nth(used, Rank(used, j)) = j
      /\ \A i, j \in used : Rank(used, i) = Rank(used, j) => i = j
  BY <1>1, <1>3, <1>4, RankFacts, NthOfRank
<1>7. rs = [i \in DOMAIN rules |-> [rules[i] EXCEPT !.name = Rank(used, rules[i].name)]]
  BY DEF Renumbered
<1>8. \A i \in DOMAIN rules : rules[i] \in Rule
  BY <1>2
<1>9. DOMAIN rs = DOMAIN rules
  BY <1>7
<1>10. \A i \in DOMAIN rules : /\ rs[i].name = Rank(used, rules[i].name)
                               /\ rs[i].value = rules[i].value
  BY <1>7, <1>8 DEF Rule
<1>11. \A i \in DOMAIN rules : rs[i] \in Rule
  <2> SUFFICES ASSUME NEW i \in DOMAIN rules PROVE rs[i] \in Rule
    OBVIOUS
  <2>1. Rank(used, rules[i].name) \in Nat
    <3>1. Cardinality(used) \in Nat /\ Rank(used, rules[i].name) \in 1 .. Cardinality(used)
      BY <1>1, <1>3, RankFacts
    <3> QED
      BY <3>1
  <2>2. [rules[i] EXCEPT !.name = Rank(used, rules[i].name)] \in Rule
    BY <1>8, <2>1 DEF Rule
  <2> QED
    BY <1>7, <2>2
<1> HIDE DEF rs, ns
<1>12. rs \in Seq(Rule)
  <2>1. Len(rules) \in Nat /\ DOMAIN rules = 1 .. Len(rules)
    BY <1>2
  <2>2. rs = [i \in 1 .. Len(rules) |-> rs[i]]
    BY <1>7, <2>1
  <2>3. rs \in [1 .. Len(rules) -> Rule]
    BY <1>11, <2>1, <2>2
  <2> QED
    BY <2>1, <2>3, SeqDef
<1>13. \A i, j \in DOMAIN rs : rs[i].name = rs[j].name => i = j
  <2> SUFFICES ASSUME NEW i \in DOMAIN rules, NEW j \in DOMAIN rules, rs[i].name = rs[j].name
               PROVE  i = j
    BY <1>9
  <2>1. Rank(used, rules[i].name) = Rank(used, rules[j].name)
    BY <1>10
  <2>2. rules[i].name = rules[j].name
    BY <1>3, <1>6, <2>1
  <2> QED
    BY <1>2, <2>2
<1>14. \A i \in DOMAIN rs : rs[i].name \in DOMAIN ns /\ ns[rs[i].name] = names[rules[i].name]
  BY <1>3, <1>4, <1>6, <1>9, <1>10
<1> QED
  BY <1>4, <1>5, <1>9, <1>10, <1>12, <1>13, <1>14 DEF GoodNames, GoodRules, Refers, ns, rs, used

--------------------------------------------------------------------------------
(* A database that was never opened.                                           *)
LEMMA InvInit == Init => IInv
<1> SUFFICES ASSUME Init
             PROVE  IInv
  OBVIOUS
<1>1. Files(disk) /\ Files(copy)
  <2>1. disk = [f \in Both |-> IF f = "names" THEN Missing ELSE Missing] /\ copy = disk
    BY DEF Init
  <2>2. Missing \in NoBuffer
    BY DEF NoBuffer
  <2> QED
    BY <2>1, <2>2, GoodFiles
<1> USE DEF Init
<1>2. Shape
  <2>1. \A f \in Both : NoSize[f] = 0
    BY DEF NoSize
  <2>2. NoSize \in [Both -> Nat]
    BY DEF NoSize
  <2>3. \A f \in Both : saved[f] <= SizeOf(Buffer(f))
    <3>1. SizeOf(<<>>) = 1
      BY DEF SizeOf
    <3> QED
      BY <2>1, <3>1 DEF Buffer
  <2> QED
    BY <1>1, <2>2, <2>3, EmptyIsGood DEF Shape
<1>3. ~Running /\ phase = "closed"
  BY DEF Running
<1>4. Order /\ SizesTell /\ LinkedIsCopy /\ BackupsAreOfOneMoment
  BY <1>3 DEF Order, SizesTell, LinkedIsCopy, BackupsAreOfOneMoment
<1>5. NothingLost
  <2>1. disk["names"] = Missing /\ disk["rules"] = Missing
    BY DEF Both
  <2>2. Loaded(Missing) = <<>>
    BY DEF Loaded, IsNew
  <2>3. Readable(disk)
    BY <2>1, <2>2, NoFileIsABuffer DEF Readable
  <2>4. Says(<<>>, <<>>) = <<>>
    BY DEF Says
  <2> QED
    BY <1>3, <2>1, <2>2, <2>3, <2>4 DEF NothingLost, OnDisk
<1>6. Pristine
  BY <1>3 DEF Pristine
<1> QED
  BY <1>2, <1>4, <1>5, <1>6 DEF IInv

LEMMA StutterKeeps == ASSUME IInv, UNCHANGED vars PROVE IInv'
<1>1. /\ UNCHANGED <<names, rules, saved, size, is_changed, need_cleanup, has_backup, backuped>>
      /\ UNCHANGED <<disk, copy, linked, phase, step, written, atStart, history>>
  BY DEF vars, buffers, files
<1>2. Shape'
  BY <1>1 DEF IInv, Shape, Buffer
<1>3. Order'
  BY <1>1 DEF IInv, Order, Running, Syncing
<1>4. SizesTell'
  BY <1>1 DEF IInv, SizesTell, Running, Writing, Current, AsSaved, NeverWritten, Buffer
<1>5. LinkedIsCopy' /\ BackupsAreOfOneMoment'
  BY <1>1 DEF IInv, LinkedIsCopy, BackupsAreOfOneMoment, Running, Current
<1>6. NothingLost'
  BY <1>1 DEF IInv, NothingLost, OnDisk, Running, Writing, Current
<1>7. Pristine'
  BY <1>1 DEF IInv, Pristine, GivenBack, Content, Running, Syncing, OnDisk, AsOnDisk
<1> QED
  BY <1>2, <1>3, <1>4, <1>5, <1>6, <1>7 DEF IInv

(* A daemon that ends leaves the files as they are.                            *)
LEMMA EndKeeps ==
  ASSUME IInv, Running, Lost, phase' \in {"closed", "exited", "broken"},
         UNCHANGED <<files, step, written, history>>
  PROVE  IInv'
<1>1. /\ names' = <<>> /\ rules' = <<>> /\ saved' = NoSize /\ size' = NoSize
      /\ is_changed' = FALSE /\ need_cleanup' = FALSE /\ has_backup' = FALSE
      /\ backuped' = {} /\ atStart' = <<>>
      /\ UNCHANGED <<disk, copy, linked, step, written, history>>
  BY DEF Lost, files
<1>2. ~Running' /\ phase' \notin {"transaction", "commit_rules", "last_rules"}
  BY DEF Running
<1>3. Shape'
  <2>1. NoSize \in [Both -> Nat] /\ \A f \in Both : NoSize[f] = 0
    BY DEF NoSize
  <2>2. \A f \in Both : saved'[f] <= SizeOf(Buffer(f))'
    <3>1. SizeOf(<<>>) = 1
      BY DEF SizeOf
    <3>2. \A f \in Both : Buffer(f)' = <<>>
      BY <1>1 DEF Buffer
    <3>3. \A f \in Both : SizeOf(Buffer(f))' = 1
      BY <3>1, <3>2 DEF SizeOf
    <3> QED
      BY <1>1, <2>1, <3>3
  <2> QED
    BY <1>1, <2>1, <2>2, EmptyIsGood DEF IInv, Shape
<1>4. Order'
  BY <1>2 DEF Order
<1>5. SizesTell' /\ BackupsAreOfOneMoment'
  BY <1>2 DEF SizesTell, BackupsAreOfOneMoment
<1>6. LinkedIsCopy'
  BY <1>1, <1>2 DEF IInv, LinkedIsCopy
<1>7. NothingLost'
  BY <1>1, <1>2 DEF IInv, NothingLost, OnDisk
<1>8. Pristine'
  <2>1. DOMAIN <<>> = {}
    OBVIOUS
  <2>2. GivenBack'
    BY <1>1, <2>1 DEF GivenBack
  <2> QED
    BY <1>2, <2>2 DEF Pristine
<1> QED
  BY <1>3, <1>4, <1>5, <1>6, <1>7, <1>8 DEF IInv

LEMMA StopKeeps == ASSUME IInv, Stop PROVE IInv'
  BY EndKeeps DEF Stop

(* What is opened is what is on disk, and a backup that is the file itself is  *)
(* known.                                                                      *)
LEMMA OpenKeeps == ASSUME IInv, Open PROVE IInv'
<1>1. /\ phase \in {"closed", "exited"} /\ ~Running
      /\ UNCHANGED <<copy, linked, atStart>>
      /\ disk' = [f \in Both |-> IF f = "rules" /\ disk["names"] = Unreadable THEN disk[f]
                                 ELSE Created(disk[f])]
  BY DEF Open, Running
<1>2. Files(disk) /\ Files(copy)
  BY DEF IInv, Shape
<1>3. /\ disk'["names"] = Created(disk["names"])
      /\ disk'["rules"] \in {disk["rules"], Created(disk["rules"])}
      /\ disk["names"] # Unreadable => disk'["rules"] = Created(disk["rules"])
  BY <1>1 DEF Both
<1>4. \A x : Loaded(Created(x)) = Loaded(x) /\ (x # Missing => Created(x) = x)
              /\ Created(x) # Missing /\ (Created(x) = Unreadable <=> x = Unreadable)
              /\ (IsNew(Created(x)) <=> IsNew(x))
  BY NoFileIsABuffer DEF Created, Loaded, IsNew
<1>5. Files(disk')
  <2>1. \A x : x \in NoBuffer => Created(x) \in NoBuffer
    BY DEF Created, NoBuffer
  <2>2. \A x : Created(x) = x \/ x \in NoBuffer
    BY DEF Created, NoBuffer
  <2>3. disk'["names"] \in NoBuffer \/ GoodNames(disk'["names"])
    BY <1>2, <1>3, <2>1, <2>2 DEF Files
  <2>4. disk'["rules"] \in NoBuffer \/ GoodRules(disk'["rules"])
    BY <1>2, <1>3, <2>1, <2>2 DEF Files
  <2>5. disk' = [f \in Both |-> disk'[f]]
    BY <1>1
  <2> QED
    BY <2>3, <2>4, <2>5 DEF Files
<1>6. \A f \in linked : f \in Both /\ disk'[f] = disk[f]
  BY <1>1, <1>4 DEF IInv, Shape, LinkedIsCopy
<1>7. CASE Readable(disk)
  <2>1. /\ names' = Loaded(disk["names"]) /\ rules' = Loaded(disk["rules"])
        /\ size' = [f \in Both |-> IF IsNew(disk[f]) THEN 0 ELSE SizeOf(disk[f])]
        /\ saved' = size' /\ backuped' = linked
        /\ is_changed' = FALSE /\ need_cleanup' = FALSE /\ has_backup' = FALSE
        /\ history' = (IF \E f \in Both : IsNew(disk[f]) THEN {"fresh"} ELSE {})
        /\ written' = OnDisk
        /\ step' = "none" /\ phase' = "idle"
    BY <1>7 DEF Open, OnDisk
  <2>2. /\ GoodNames(names') /\ GoodRules(rules') /\ Refers(rules', names')
        /\ disk["names"] # Unreadable /\ disk["rules"] # Unreadable
    BY <1>2, <1>7, <2>1, ReadableIsGood DEF Readable
  <2>3. \A f \in Both : Buffer(f)' = Loaded(disk[f])
    BY <2>1 DEF Buffer, Both
  <2>4. \A f \in Both : disk'[f] = Created(disk[f])
    BY <1>3, <2>2 DEF Both
  <2>5. \A f \in Both : Len(Buffer(f)') \in Nat
    BY <2>2 DEF Buffer, GoodNames, GoodRules
  <2>6. \A f \in Both : ~IsNew(disk[f]) => disk'[f] = disk[f] /\ Buffer(f)' = disk[f]
    BY <1>4, <2>3, <2>4 DEF IsNew, Loaded
  <2>7. \A f \in Both : size'[f] = IF IsNew(disk[f]) THEN 0 ELSE SizeOf(Buffer(f)')
    BY <2>1, <2>6
  <2>8. Shape'
    <3>1. \A f \in Both : size'[f] \in Nat /\ size'[f] <= SizeOf(Buffer(f)')
      BY <2>5, <2>7 DEF SizeOf
    <3>2. size' \in [Both -> Nat] /\ saved' \in [Both -> Nat]
      BY <2>1, <3>1
    <3>3. \A f \in Both : saved'[f] <= SizeOf(Buffer(f)')
      BY <2>1, <3>1
    <3>4. history' \subseteq Facts
      BY <2>1 DEF Facts
    <3> QED
      BY <1>1, <1>2, <1>5, <2>1, <2>2, <3>2, <3>3, <3>4 DEF IInv, Shape
  <2>9. Order'
    BY <2>1 DEF Order
  <2>10. SizesTell'
    <3>1. \A f \in Both : AsSaved(f, Buffer(f))'
      <4> SUFFICES ASSUME NEW f \in Both, saved'[f] # 0 PROVE AsSaved(f, Buffer(f))'
        BY DEF AsSaved
      <4>1. ~IsNew(disk[f]) /\ disk'[f] = Buffer(f)' /\ size'[f] = SizeOf(disk'[f])
        BY <2>1, <2>6, <2>7
      <4>2. disk'[f] \notin NoBuffer
        BY <2>2, <4>1, BuffersAreBuffers DEF Buffer
      <4>3. saved'[f] - 1 = Len(Buffer(f)') /\ DOMAIN Buffer(f)' = 1 .. Len(Buffer(f)')
        BY <2>1, <2>2, <2>5, <2>7, <4>1 DEF SizeOf, Buffer, GoodNames, GoodRules
      <4> QED
        BY <4>1, <4>2, <4>3 DEF AsSaved
    <3>2. \A f \in Both : NeverWritten(f, Buffer(f))'
      BY <2>1, <2>7 DEF NeverWritten
    <3> QED
      BY <2>1, <3>1, <3>2 DEF SizesTell
  <2>11. LinkedIsCopy'
    BY <1>1, <1>6, <2>1 DEF IInv, LinkedIsCopy
  <2>12. BackupsAreOfOneMoment'
    <3>1. Readable(disk')
      BY <1>4, <1>7, <2>2, <2>4 DEF Readable, Both
    <3>2. "fresh" \notin history' => CanRecover(disk')
      BY <1>4, <2>1, <2>4, <3>1 DEF CanRecover, Recoverable, Both
    <3>3. \A f \in linked : copy'[f] = disk'[f]
      BY <1>1, <1>6 DEF IInv, LinkedIsCopy
    <3>4. linked = Both /\ CanRecover(disk') => CanRecover(copy')
      BY <3>3 DEF CanRecover, Recoverable, Readable, Both
    <3>5. \A f \in Both : disk'[f] # Missing
      BY <1>4, <2>4
    <3> QED
      BY <2>1, <3>1, <3>2, <3>3, <3>4, <3>5 DEF BackupsAreOfOneMoment
  <2>13. OnDisk' = OnDisk /\ Loaded(disk'["names"]) = names' /\ Loaded(disk'["rules"]) = rules'
    BY <1>4, <2>1, <2>4 DEF OnDisk, Both
  <2>14. Readable(disk')
    BY <1>4, <1>7, <2>2, <2>4 DEF Readable, Both
  <2>15. NothingLost'
    <3>1. Extends(names', names') /\ disk'["rules"] # Unreadable
      BY <1>4, <2>2, <2>4 DEF Extends, Both
    <3>2. Says(names', rules') = OnDisk
      BY <2>1 DEF OnDisk
    <3> QED
      BY <2>1, <2>2, <2>13, <2>14, <3>1, <3>2 DEF NothingLost
  <2>16. Pristine'
    <3>1. AsOnDisk'
      BY <2>13 DEF AsOnDisk, SomeOf
    <3>2. \A f \in linked : copy'[f] = disk'[f]
      BY <1>1, <1>6 DEF IInv, LinkedIsCopy
    <3> QED
      BY <2>1, <2>14, <3>1, <3>2 DEF Pristine
  <2> QED
    BY <2>8, <2>9, <2>10, <2>11, <2>12, <2>15, <2>16 DEF IInv
<1>8. CASE ~Readable(disk)
  <2>1. /\ phase' = "broken" /\ ~Running'
        /\ UNCHANGED <<names, rules, saved, size, is_changed, need_cleanup, has_backup, backuped>>
        /\ UNCHANGED <<step, written, history>>
    BY <1>8 DEF Open, buffers, Running
  <2>2. Shape'
    BY <1>1, <1>5, <2>1 DEF IInv, Shape, Buffer
  <2>3. Order' /\ SizesTell' /\ BackupsAreOfOneMoment'
    BY <2>1 DEF Order, SizesTell, BackupsAreOfOneMoment
  <2>4. LinkedIsCopy'
    BY <1>1, <1>6, <2>1 DEF IInv, LinkedIsCopy
  <2>5. NothingLost'
    BY <1>8, <2>1 DEF IInv, NothingLost
  <2>6. Pristine'
    BY <1>1, <2>1 DEF IInv, Pristine, GivenBack, Content
  <2> QED
    BY <2>2, <2>3, <2>4, <2>5, <2>6 DEF IInv
<1> QED
  BY <1>7, <1>8

(* Outside a sync nothing is being written; inside a transaction and a sync    *)
(* both backups are made.                                                      *)
LEMMA Outside ==
  ASSUME IInv, Running, ~Syncing
  PROVE  step = "none" /\ \A f \in Both : ~Writing(f)
  BY DEF IInv, Order, Writing

LEMMA Inside ==
  ASSUME IInv, Running, phase \notin {"idle", "stuck"}
  PROVE  backuped = Both /\ "cancelled" \notin history /\ ("fresh" \notin history => CanRecover(copy))
<1>1. phase \notin {"idle", "stuck", "closed", "exited", "broken"}
  BY DEF Running
<1> QED
  BY <1>1 DEF IInv, Order, BackupsAreOfOneMoment

(* A transaction ends without a file to write, or starts to write them.        *)
LEMMA MoveOnKeeps ==
  ASSUME IInv, Running, step = "none",
         phase \in {"transaction", "commit_names", "last_names"},
         phase' \in {"commit_names", "cleanup", "idle"},
         phase' = "commit_names" => ~Syncing,
         phase' # "commit_names" => ~is_changed,
         UNCHANGED <<buffers, files, step, written, history>>
  PROVE  IInv'
<1>1. /\ UNCHANGED <<names, rules, saved, size, is_changed, need_cleanup, has_backup, backuped>>
      /\ UNCHANGED <<disk, copy, linked, step, written, history>>
  BY DEF buffers, files
<1>2. Running' /\ phase' \notin {"transaction", "commit_rules", "last_rules"}
  BY DEF Running
<1>3. backuped = Both /\ "cancelled" \notin history /\ ("fresh" \notin history => CanRecover(copy))
  BY Inside
<1>4. Shape'
  BY <1>1 DEF IInv, Shape, Buffer
<1>5. Order'
  BY <1>1, <1>2, <1>3 DEF Order
<1>6. SizesTell'
  <2>1. ASSUME "failed" \notin history, NEW f \in Both
        PROVE  AsSaved(f, Buffer(f))' /\ NeverWritten(f, Buffer(f))'
    BY <1>1, <2>1 DEF IInv, SizesTell, Writing, AsSaved, NeverWritten, Buffer
  <2> QED
    BY <1>1, <2>1 DEF SizesTell
<1>7. LinkedIsCopy' /\ BackupsAreOfOneMoment'
  BY <1>1, <1>3 DEF IInv, LinkedIsCopy, BackupsAreOfOneMoment
<1>8. NothingLost'
  BY <1>1, <1>2 DEF IInv, NothingLost, OnDisk, Writing
<1>9. Pristine'
  BY <1>1, <1>2, <1>3 DEF IInv, Pristine, Syncing, OnDisk, AsOnDisk
<1> QED
  BY <1>4, <1>5, <1>6, <1>7, <1>8, <1>9 DEF IInv

LEMMA CommitKeeps == ASSUME IInv, Commit PROVE IInv'
<1>1. phase = "transaction" /\ phase' = "commit_names" /\ Running /\ ~Syncing
  BY DEF Commit, Running, Syncing
<1> QED
  BY <1>1, Outside, MoveOnKeeps DEF Commit

LEMMA NothingToSyncKeeps == ASSUME IInv, NothingToSync PROVE IInv'
<1>1. phase \in {"commit_names", "last_names"} /\ phase' \in {"cleanup", "idle"} /\ Running
  BY DEF NothingToSync, AfterSync, Running
<1> QED
  BY <1>1, MoveOnKeeps DEF NothingToSync

(* The backups made by a begin, whether it succeeds or not.                    *)
LEMMA BackUpFacts ==
  ASSUME IInv, NEW links, NEW lost, links \subseteq Both \ backuped,
         lost \subseteq Both \ backuped, links \cap lost = {}, BackUp(links, lost),
         Running, links \cup lost # {}
  PROVE  /\ Files(copy') /\ linked' \subseteq Both /\ backuped' \subseteq Both
         /\ \A f \in linked' : disk[f] = copy'[f] /\ disk[f] # Missing
         /\ \A f \in backuped' : copy'[f] = disk[f]
         /\ backuped' = backuped \cup links
<1>1. /\ copy' = [f \in Both |-> IF f \in links THEN disk[f]
                                 ELSE IF f \in lost THEN Missing ELSE copy[f]]
      /\ linked' = (linked \cup links) \ lost
      /\ backuped' = backuped \cup links
  BY DEF BackUp
<1>2. Files(disk) /\ Files(copy) /\ linked \subseteq Both /\ backuped \subseteq Both
  BY DEF IInv, Shape
<1>3. Files(copy')
  <2>1. \A f \in Both : copy'[f] \in {disk[f], copy[f], Missing}
    BY <1>1
  <2>2. Missing \in NoBuffer
    BY DEF NoBuffer
  <2>3. "names" \in Both /\ "rules" \in Both
    BY DEF Both
  <2>4. copy' = [f \in Both |-> copy'[f]]
    BY <1>1
  <2> QED
    BY <1>2, <2>1, <2>2, <2>3, <2>4 DEF Files
<1>4. backuped # Both
  OBVIOUS
<1>5. \A f \in Both : disk[f] # Missing
  BY <1>4 DEF IInv, BackupsAreOfOneMoment
<1>6. \A f \in backuped : copy[f] = disk[f]
  BY <1>4 DEF IInv, BackupsAreOfOneMoment
<1>7. \A f \in linked : disk[f] = copy[f] /\ disk[f] # Missing
  BY DEF IInv, LinkedIsCopy
<1>8. \A f \in linked' : disk[f] = copy'[f] /\ disk[f] # Missing
  BY <1>1, <1>2, <1>5, <1>7
<1>9. \A f \in backuped' : copy'[f] = disk[f]
  BY <1>1, <1>2, <1>6
<1> QED
  BY <1>1, <1>2, <1>3, <1>8, <1>9

LEMMA BeginKeeps == ASSUME IInv, Begin PROVE IInv'
<1>1. /\ phase \in {"idle", "stuck"} /\ Running /\ ~Syncing
      /\ history' = history \ {"cancelled"} /\ has_backup' = TRUE
      /\ UNCHANGED <<names, rules, saved, size, is_changed, need_cleanup, disk, step, written>>
      /\ \/ phase' = "stuck"
         \/ phase' = "transaction" /\ atStart' = Content
  BY DEF Begin, Running, Syncing
<1>2. step = "none" /\ \A f \in Both : ~Writing(f)
  BY <1>1, Outside
<1>3. Running' /\ ~Syncing' /\ phase' \in {"stuck", "transaction"}
  BY <1>1 DEF Running, Syncing
<1>4. /\ backuped' = Both /\ Files(copy') /\ linked' \subseteq Both
      /\ \A f \in linked' : disk[f] = copy'[f] /\ disk[f] # Missing
      /\ "fresh" \notin history => CanRecover(copy')
      /\ (\A f \in backuped : copy[f] = disk[f]) => \A f \in Both : copy'[f] = disk[f]
  <2>1. /\ Files(copy) /\ Files(disk) /\ linked \subseteq Both /\ backuped \subseteq Both
        /\ \A f \in linked : disk[f] = copy[f] /\ disk[f] # Missing
    BY DEF IInv, Shape, LinkedIsCopy
  <2>2. CASE UNCHANGED <<backuped, copy, linked>> /\ has_backup
    <3>1. backuped = Both /\ ("fresh" \notin history => CanRecover(copy))
      BY <1>1, <2>2 DEF IInv, BackupsAreOfOneMoment
    <3> QED
      BY <2>1, <2>2, <3>1
  <2>3. CASE BackUp(Both \ backuped, {}) /\ backuped = Both
    <3>1. /\ copy' = [f \in Both |-> IF f \in Both \ backuped THEN disk[f]
                                     ELSE IF f \in {} THEN Missing ELSE copy[f]]
          /\ linked' = (linked \cup (Both \ backuped)) \ {}
          /\ backuped' = backuped \cup (Both \ backuped)
      BY <2>3 DEF BackUp
    <3>2. /\ copy' = [f \in Both |-> copy[f]]
          /\ linked' = linked /\ backuped' = Both
      BY <2>3, <3>1
    <3>3. copy' = copy
      BY <2>1, <3>2 DEF Files
    <3>4. "fresh" \notin history => CanRecover(copy)
      BY <1>1, <2>3 DEF IInv, BackupsAreOfOneMoment
    <3> QED
      BY <2>1, <2>3, <3>2, <3>3, <3>4
  <2>4. CASE BackUp(Both \ backuped, {}) /\ backuped # Both
    <3>1. (Both \ backuped) \cup {} # {}
      BY <2>1, <2>4
    <3>2. /\ Files(copy') /\ linked' \subseteq Both /\ backuped' = backuped \cup (Both \ backuped)
          /\ \A f \in linked' : disk[f] = copy'[f] /\ disk[f] # Missing
          /\ \A f \in backuped' : copy'[f] = disk[f]
      BY <1>1, <2>4, <3>1, BackUpFacts
    <3>3. backuped' = Both
      BY <2>1, <3>2
    <3>4. "fresh" \notin history => CanRecover(disk)
      BY <1>1, <2>4 DEF IInv, BackupsAreOfOneMoment
    <3>5. copy'["names"] = disk["names"] /\ copy'["rules"] = disk["rules"]
      BY <3>2, <3>3 DEF Both
    <3>6. CanRecover(disk) => CanRecover(copy')
      BY <3>5 DEF CanRecover, Recoverable, Readable
    <3> QED
      BY <3>2, <3>3, <3>4, <3>6
  <2> QED
    BY <2>2, <2>3, <2>4 DEF Begin
<1>5. Shape'
  BY <1>1, <1>4 DEF IInv, Shape, Buffer
<1>6. Order'
  BY <1>1, <1>2, <1>3 DEF Order
<1>7. SizesTell'
  <2>1. ASSUME "failed" \notin history, NEW f \in Both
        PROVE  AsSaved(f, Buffer(f))' /\ NeverWritten(f, Buffer(f))'
    BY <1>1, <1>2, <1>3, <2>1 DEF IInv, SizesTell, AsSaved, NeverWritten, Buffer
  <2> QED
    BY <1>1, <1>3, <2>1 DEF SizesTell
<1>8. LinkedIsCopy' /\ BackupsAreOfOneMoment'
  BY <1>1, <1>2, <1>4 DEF LinkedIsCopy, BackupsAreOfOneMoment
<1>9. NothingLost'
  BY <1>1, <1>2 DEF IInv, NothingLost, OnDisk, Writing, Both
<1>10. Pristine'
  <2> SUFFICES ASSUME {"synced", "failed"} \cap history = {}
               PROVE  /\ Readable(disk) /\ \A f \in backuped' : copy'[f] = disk[f]
                      /\ AsOnDisk'
                      /\ phase' = "transaction" => Part(Content, OnDisk)
                      /\ phase' = "transaction" => GivenBack'
    BY <1>1 DEF Pristine, OnDisk
  <2>1. /\ Readable(disk) /\ \A f \in backuped : copy[f] = disk[f]
        /\ AsOnDisk
    BY <1>1 DEF IInv, Pristine
  <2>2. Part(Content, OnDisk)
    <3>1. GoodNames(names) /\ GoodRules(rules) /\ Files(disk)
      BY DEF IInv, Shape
    <3>2. /\ GoodNames(Loaded(disk["names"])) /\ GoodRules(Loaded(disk["rules"]))
          /\ Refers(Loaded(disk["rules"]), Loaded(disk["names"]))
      BY <2>1, <3>1, ReadableIsGood
    <3>3. names = Loaded(disk["names"]) /\ SomeOf(rules, Loaded(disk["rules"]))
      BY <2>1 DEF AsOnDisk
    <3>4. Part(Says(Loaded(disk["names"]), rules), Says(Loaded(disk["names"]), Loaded(disk["rules"])))
      BY <3>1, <3>2, <3>3, SaysPart
    <3> QED
      BY <3>3, <3>4 DEF Content, OnDisk
  <2>3. phase' = "transaction" => GivenBack'
    BY <1>1 DEF GivenBack, Content
  <2> QED
    BY <1>1, <1>4, <2>1, <2>2, <2>3 DEF AsOnDisk
<1> QED
  BY <1>5, <1>6, <1>7, <1>8, <1>9, <1>10 DEF IInv

LEMMA BeginFailsKeeps == ASSUME IInv, BeginFails PROVE IInv'
<1>1. /\ phase \in {"idle", "stuck"} /\ Running /\ ~Syncing
      /\ phase' = "stuck" /\ ~has_backup
      /\ UNCHANGED <<names, rules, saved, size, is_changed, need_cleanup, has_backup,
                     disk, step, written, atStart, history>>
  BY DEF BeginFails, Running, Syncing
<1>2. step = "none" /\ \A f \in Both : ~Writing(f)
  BY <1>1, Outside
<1>3. Running' /\ ~Syncing'
  BY <1>1 DEF Running, Syncing
<1>4. PICK f \in Both \ backuped :
        \E links \in SUBSET ({"names"} \ ({f} \cup backuped)) : BackUp(links, {f})
  <2>1. CASE "names" \notin backuped /\ BackUp({}, {"names"})
    BY <2>1 DEF Both
  <2>2. CASE "rules" \notin backuped /\ BackUp({"names"} \ backuped, {"rules"})
    BY <2>2 DEF Both
  <2> QED
    BY <2>1, <2>2 DEF BeginFails, LinkFails
<1>4a. PICK links \in SUBSET ({"names"} \ ({f} \cup backuped)) : BackUp(links, {f})
  BY <1>4
<1>5. /\ Files(copy') /\ linked' \subseteq Both /\ backuped' \subseteq Both
      /\ \A g \in linked' : disk[g] = copy'[g] /\ disk[g] # Missing
      /\ \A g \in backuped' : copy'[g] = disk[g]
      /\ backuped' = backuped \cup links
  <2>1. links \subseteq Both \ backuped /\ {f} \subseteq Both \ backuped
    BY <1>4a DEF Both
  <2>2. links \cap {f} = {} /\ links \cup {f} # {}
    BY <1>4a
  <2> QED
    BY <1>1, <1>4a, <2>1, <2>2, BackUpFacts
<1>6. backuped # Both /\ backuped' # Both
  BY <1>4a, <1>5
<1>7. Shape'
  BY <1>1, <1>5 DEF IInv, Shape, Buffer
<1>8. Order'
  BY <1>1, <1>2 DEF IInv, Order
<1>9. SizesTell'
  <2>1. ASSUME "failed" \notin history, NEW g \in Both
        PROVE  AsSaved(g, Buffer(g))' /\ NeverWritten(g, Buffer(g))'
    BY <1>1, <1>2, <1>3, <2>1 DEF IInv, SizesTell, AsSaved, NeverWritten, Buffer
  <2> QED
    BY <1>1, <1>3, <2>1 DEF SizesTell
<1>10. LinkedIsCopy'
  BY <1>1, <1>2, <1>5 DEF LinkedIsCopy
<1>11. BackupsAreOfOneMoment'
  BY <1>1, <1>5, <1>6 DEF IInv, BackupsAreOfOneMoment
<1>12. NothingLost'
  BY <1>1, <1>2 DEF IInv, NothingLost, OnDisk, Writing, Both
<1>13. Pristine'
  BY <1>1, <1>3, <1>5 DEF IInv, Pristine, AsOnDisk, GivenBack, Content
<1> QED
  BY <1>7, <1>8, <1>9, <1>10, <1>11, <1>12, <1>13 DEF IInv

--------------------------------------------------------------------------------
(* The entry i that changed is the first that is not known to be saved.        *)
LEMMA TouchedFacts ==
  ASSUME saved \in [Both -> Nat], NEW i \in Nat \ {0}
  PROVE  /\ Touched(i) \in [Both -> Nat] /\ Touched(i)["names"] = saved["names"]
         /\ Touched(i)["rules"] <= saved["rules"] /\ Touched(i)["rules"] <= i
         /\ Touched(i)["rules"] = 0 => saved["rules"] = 0
<1> DEFINE x == IF i < saved["rules"] THEN i ELSE saved["rules"]
<1>1. "names" \in Both /\ "rules" \in Both /\ "names" # "rules"
  BY DEF Both
<1>2. Touched(i) = [saved EXCEPT !["rules"] = x]
  BY DEF Touched
<1>3. saved["rules"] \in Nat /\ x \in Nat /\ x <= saved["rules"] /\ x <= i /\ (x = 0 => saved["rules"] = 0)
  BY <1>1
<1> HIDE DEF x
<1> QED
  BY <1>1, <1>2, <1>3

(* A transaction goes on: what is saved stays so, but for what is changed.     *)
LEMMA ChangeKeeps ==
  ASSUME IInv, phase = "transaction", is_changed' = TRUE, need_cleanup' \in BOOLEAN,
         GoodNames(names'), GoodRules(rules'), Refers(rules', names'), Extends(names', names),
         saved' \in [Both -> Nat], \A f \in Both : saved'[f] <= SizeOf(Buffer(f)'),
         \A f \in Both : /\ saved'[f] <= saved[f]
                         /\ \A i \in 1 .. saved'[f] - 1 : Buffer(f)'[i] = Buffer(f)[i],
         UNCHANGED <<size, has_backup, backuped, files, phase, step, written, atStart, history>>
  PROVE  IInv'
<1>1. /\ UNCHANGED <<size, has_backup, backuped, disk, copy, linked>>
      /\ UNCHANGED <<phase, step, written, atStart, history>>
  BY DEF files
<1>2. Running /\ ~Syncing /\ Running' /\ phase' = "transaction"
  BY DEF Running, Syncing
<1>3. step = "none" /\ \A f \in Both : ~Writing(f)
  BY <1>2, Outside
<1>4. backuped = Both /\ "cancelled" \notin history /\ ("fresh" \notin history => CanRecover(copy))
  BY <1>2, Inside
<1>5. Shape'
  BY <1>1 DEF IInv, Shape
<1>6. Order'
  BY <1>1, <1>2, <1>3 DEF IInv, Order
<1>7. SizesTell'
  <2>1. ASSUME "failed" \notin history, NEW f \in Both, saved'[f] # 0
        PROVE  \/ saved'[f] = 1 /\ size[f] # 1
               \/ /\ disk[f] \notin NoBuffer
                  /\ size[f] = SizeOf(disk[f])
                  /\ \A i \in 1 .. saved'[f] - 1 : i \in DOMAIN disk[f] /\ disk[f][i] = Buffer(f)'[i]
    <3>1. saved[f] \in Nat /\ saved'[f] \in Nat /\ saved[f] # 0 /\ saved'[f] <= saved[f]
      BY <2>1 DEF IInv, Shape
    <3>2. AsSaved(f, Buffer(f))
      BY <1>2, <1>3, <2>1 DEF IInv, SizesTell
    <3>3. CASE saved[f] = 1 /\ size[f] # 1
      BY <2>1, <3>1, <3>3
    <3>4. CASE ~(saved[f] = 1 /\ size[f] # 1)
      <4>1. /\ disk[f] \notin NoBuffer /\ size[f] = SizeOf(disk[f])
            /\ \A i \in 1 .. saved[f] - 1 : i \in DOMAIN disk[f] /\ disk[f][i] = Buffer(f)[i]
        BY <3>1, <3>2, <3>4 DEF AsSaved
      <4>2. \A i \in 1 .. saved'[f] - 1 : i \in 1 .. saved[f] - 1
        BY <3>1
      <4> QED
        BY <4>1, <4>2
    <3> QED
      BY <3>3, <3>4
  <2>2. ASSUME "failed" \notin history, NEW f \in Both PROVE AsSaved(f, Buffer(f))'
    BY <1>1, <2>1, <2>2 DEF AsSaved
  <2>3. \A f \in Both : NeverWritten(f, Buffer(f))'
    BY <1>2 DEF NeverWritten
  <2> QED
    BY <1>1, <1>2, <2>2, <2>3 DEF SizesTell
<1>8. LinkedIsCopy' /\ BackupsAreOfOneMoment'
  BY <1>1, <1>3, <1>4 DEF IInv, LinkedIsCopy, BackupsAreOfOneMoment
<1>9. NothingLost'
  <2> SUFFICES ASSUME {"failed", "renumbered"} \cap history = {}
               PROVE  /\ Readable(disk) /\ OnDisk = written /\ Extends(names', Loaded(disk["names"]))
                      /\ disk["rules"] # Unreadable /\ Refers(Loaded(disk["rules"]), names')
                      /\ Says(names', Loaded(disk["rules"])) = written
    BY <1>1 DEF NothingLost, OnDisk
  <2>1. /\ Readable(disk) /\ OnDisk = written /\ Extends(names, Loaded(disk["names"]))
        /\ disk["rules"] # Unreadable /\ Refers(Loaded(disk["rules"]), names)
        /\ Says(names, Loaded(disk["rules"])) = written
    BY <1>2, <1>3 DEF IInv, NothingLost, Both
  <2>2. Extends(names', Loaded(disk["names"]))
    BY <2>1 DEF Extends
  <2>3. Refers(Loaded(disk["rules"]), names') /\ Says(names', Loaded(disk["rules"])) = written
    BY <2>1, ExtendsFacts
  <2> QED
    BY <2>1, <2>2, <2>3
<1>10. Pristine'
  BY <1>1, <1>2, <1>4 DEF IInv, Pristine, OnDisk
<1> QED
  BY <1>5, <1>6, <1>7, <1>8, <1>9, <1>10 DEF IInv

LEMMA SetKeeps == ASSUME IInv, NEW k \in Keys, NEW v \in Values, Set(k, v) PROVE IInv'
<1> DEFINE n == CHOOSE n \in DOMAIN names' : names'[n] = k
<1>1. /\ phase = "transaction" /\ names' = Interned(k)
      /\ UNCHANGED <<size, has_backup, backuped, files, phase, step, written, atStart, history>>
  BY DEF Set
<1>2. /\ GoodNames(names) /\ GoodRules(rules) /\ Refers(rules, names) /\ need_cleanup \in BOOLEAN
      /\ saved \in [Both -> Nat] /\ \A f \in Both : saved[f] <= SizeOf(Buffer(f))
  BY DEF IInv, Shape
<1>3. /\ GoodNames(names') /\ Extends(names', names)
      /\ n \in DOMAIN names' /\ names'[n] = k
      /\ names' = names \/ (n \notin DOMAIN names /\ Len(names') = Len(names) + 1)
  BY <1>1, <1>2, InternedFacts
<1> HIDE DEF n
<1>4. /\ Len(names) \in Nat /\ DOMAIN names = 1 .. Len(names)
      /\ Len(rules) \in Nat /\ DOMAIN rules = 1 .. Len(rules)
      /\ Len(names') \in Nat /\ DOMAIN names' = 1 .. Len(names')
      /\ saved["names"] \in Nat /\ saved["rules"] \in Nat
      /\ saved["names"] <= 1 + Len(names) /\ saved["rules"] <= 1 + Len(rules)
  <2>1. names \in Seq(Keys) /\ rules \in Seq(Rule) /\ names' \in Seq(Keys)
    BY <1>2, <1>3 DEF GoodNames, GoodRules
  <2>2. saved["names"] \in Nat /\ saved["rules"] \in Nat
    BY <1>2 DEF Both
  <2>3. saved["names"] <= SizeOf(Buffer("names")) /\ saved["rules"] <= SizeOf(Buffer("rules"))
    BY <1>2 DEF Both
  <2>4. saved["names"] <= 1 + Len(names) /\ saved["rules"] <= 1 + Len(rules)
    BY <2>3 DEF Buffer, SizeOf
  <2> QED
    BY <2>1, <2>2, <2>4
<1>5. n \in Nat /\ Len(names) <= Len(names')
  <2>1. n \in 1 .. Len(names')
    BY <1>3, <1>4
  <2>2. Len(names') = Len(names) \/ Len(names') = Len(names) + 1
    BY <1>3
  <2>3. Len(names) \in Nat /\ Len(names') \in Nat
    BY <1>4
  <2> QED
    BY <2>1, <2>2, <2>3
<1>6. \/ /\ RulesOf(n) = {}
         /\ rules' = Append(rules, [name |-> n, value |-> v])
         /\ is_changed' = TRUE
         /\ UNCHANGED <<saved, need_cleanup>>
      \/ \E i \in RulesOf(n) :
           IF rules[i].value = v
           THEN UNCHANGED <<rules, saved, is_changed, need_cleanup>>
           ELSE /\ rules' = [rules EXCEPT ![i].value = v]
                /\ saved' = Touched(i)
                /\ is_changed' = TRUE /\ need_cleanup' = TRUE
  BY DEF Set, n
<1>7. CASE /\ RulesOf(n) = {}
           /\ rules' = Append(rules, [name |-> n, value |-> v])
           /\ is_changed' = TRUE
           /\ UNCHANGED <<saved, need_cleanup>>
  <2>1. [name |-> n, value |-> v] \in Rule /\ [name |-> n, value |-> v].name = n
    BY <1>5 DEF Rule
  <2>2. \A i \in DOMAIN rules : rules[i].name # n
    BY <1>7 DEF RulesOf
  <2>3. /\ GoodRules(rules') /\ Len(rules') = Len(rules) + 1
        /\ \A i \in DOMAIN rules' : rules'[i] = [name |-> n, value |-> v]
                                    \/ (i \in DOMAIN rules /\ rules'[i] = rules[i])
        /\ \A i \in DOMAIN rules : rules'[i] = rules[i]
    BY <1>2, <1>7, <2>1, <2>2, AddedRule
  <2>4. Refers(rules', names')
    BY <1>2, <1>3, <2>1, <2>3 DEF Refers, Extends
  <2>5. \A f \in Both : saved'[f] <= SizeOf(Buffer(f)')
    <3>1. saved'["names"] <= 1 + Len(names') /\ saved'["rules"] <= 1 + Len(rules')
      BY <1>4, <1>5, <1>7, <2>3
    <3> QED
      BY <3>1 DEF SizeOf, Buffer, Both
  <2>6. \A i \in 1 .. saved["names"] - 1 : names'[i] = names[i]
    <3>1. \A i \in 1 .. saved["names"] - 1 : i \in DOMAIN names
      BY <1>4
    <3> QED
      BY <1>3, <3>1 DEF Extends
  <2>7. \A i \in 1 .. saved["rules"] - 1 : rules'[i] = rules[i]
    BY <1>4, <2>3
  <2>8. \A f \in Both : /\ saved'[f] <= saved[f]
                        /\ \A i \in 1 .. saved'[f] - 1 : Buffer(f)'[i] = Buffer(f)[i]
    BY <1>4, <1>7, <2>6, <2>7 DEF Buffer, Both
  <2> QED
    BY <1>1, <1>2, <1>3, <1>7, <2>3, <2>4, <2>5, <2>8, ChangeKeeps
<1>8. ASSUME NEW i \in RulesOf(n),
             IF rules[i].value = v
             THEN UNCHANGED <<rules, saved, is_changed, need_cleanup>>
             ELSE /\ rules' = [rules EXCEPT ![i].value = v]
                  /\ saved' = Touched(i)
                  /\ is_changed' = TRUE /\ need_cleanup' = TRUE
      PROVE  IInv'
  <2>1. i \in DOMAIN rules /\ rules[i].name = n
    BY DEF RulesOf
  <2>2. names' = names
    BY <1>2, <1>3, <2>1 DEF Refers
  <2>3. CASE rules[i].value = v
    BY <1>1, <1>8, <2>2, <2>3, StutterKeeps DEF vars, buffers
  <2>4. CASE rules[i].value # v
    <3>1. /\ rules' = [rules EXCEPT ![i].value = v] /\ saved' = Touched(i)
          /\ is_changed' = TRUE /\ need_cleanup' = TRUE
      BY <1>8, <2>4
    <3>2. /\ GoodRules(rules') /\ Len(rules') = Len(rules) /\ DOMAIN rules' = DOMAIN rules
          /\ \A j \in DOMAIN rules' : rules'[j].name = rules[j].name
          /\ \A j \in DOMAIN rules' : j # i => rules'[j] = rules[j]
      BY <1>2, <2>1, <3>1, ChangedRule
    <3>3. i \in Nat \ {0}
      BY <1>4, <2>1
    <3>4. /\ saved' \in [Both -> Nat] /\ saved'["names"] = saved["names"]
          /\ saved'["rules"] <= saved["rules"] /\ saved'["rules"] <= i
      BY <1>2, <3>1, <3>3, TouchedFacts
    <3>5. saved'["names"] \in Nat /\ saved'["rules"] \in Nat
      BY <1>4, <3>4 DEF Both
    <3>6. Refers(rules', names')
      BY <1>2, <2>2, <3>2 DEF Refers
    <3>7. \A f \in Both : saved'[f] <= SizeOf(Buffer(f)')
      BY <1>4, <2>2, <3>2, <3>4, <3>5 DEF SizeOf, Buffer, Both
    <3>8. \A j \in 1 .. saved'["rules"] - 1 : rules'[j] = rules[j]
      BY <1>4, <3>2, <3>3, <3>4, <3>5
    <3>9. \A f \in Both : /\ saved'[f] <= saved[f]
                          /\ \A j \in 1 .. saved'[f] - 1 : Buffer(f)'[j] = Buffer(f)[j]
      BY <1>4, <2>2, <3>4, <3>8 DEF Buffer, Both
    <3> QED
      BY <1>1, <1>3, <3>1, <3>2, <3>4, <3>6, <3>7, <3>9, ChangeKeeps
  <2> QED
    BY <2>3, <2>4
<1> QED
  BY <1>6, <1>7, <1>8

(* A rule removed: in a cleanup after a recovery the size of the backup, where *)
(* it was, tells that the file is to be written.                               *)
LEMMA RemoveKeeps == ASSUME IInv, NEW i \in DOMAIN rules, Remove(i) PROVE IInv'
<1>1. /\ phase \in {"idle", "stuck", "transaction", "cleanup"} /\ Running /\ ~Syncing
      /\ rules' = Without(i) /\ saved' = Touched(i)
      /\ is_changed' = TRUE /\ need_cleanup' = TRUE
      /\ history' = history \ {"cancelled"}
      /\ phase = "transaction" => atStart' = atStart
      /\ UNCHANGED <<names, size, has_backup, backuped, disk, copy, linked, phase, step, written>>
  BY DEF Remove, files, Running, Syncing
<1>2. step = "none" /\ \A f \in Both : ~Writing(f)
  BY <1>1, Outside
<1>3. /\ GoodNames(names) /\ GoodRules(rules) /\ Refers(rules, names)
      /\ saved \in [Both -> Nat] /\ \A f \in Both : saved[f] <= SizeOf(Buffer(f))
  BY DEF IInv, Shape
<1>4. /\ names \in Seq(Keys) /\ Len(names) \in Nat /\ DOMAIN names = 1 .. Len(names)
      /\ rules \in Seq(Rule) /\ Len(rules) \in Nat /\ DOMAIN rules = 1 .. Len(rules)
      /\ saved["names"] \in Nat /\ saved["rules"] \in Nat
      /\ saved["names"] <= 1 + Len(names) /\ saved["rules"] <= 1 + Len(rules)
      /\ i \in 1 .. Len(rules) /\ i \in Nat \ {0}
  BY <1>3 DEF GoodNames, GoodRules, Buffer, SizeOf, Both
<1>5. /\ GoodRules(rules') /\ Len(rules') = Len(rules) - 1
      /\ \A j \in DOMAIN rules' : j \in DOMAIN rules /\ \E l \in DOMAIN rules : rules'[j] = rules[l]
      /\ \A j \in DOMAIN rules' : j # i => rules'[j] = rules[j]
  BY <1>1, <1>3, WithoutFacts
<1>6. /\ saved' \in [Both -> Nat] /\ saved'["names"] = saved["names"]
      /\ saved'["rules"] <= saved["rules"] /\ saved'["rules"] <= i
      /\ saved'["rules"] = 0 => saved["rules"] = 0
  BY <1>1, <1>3, <1>4, TouchedFacts
<1>7. saved'["names"] \in Nat /\ saved'["rules"] \in Nat /\ DOMAIN rules' = 1 .. Len(rules) - 1
  BY <1>4, <1>5, <1>6 DEF Both, GoodRules
<1>8. Shape'
  <2>1. Refers(rules', names)
    BY <1>3, <1>5 DEF Refers
  <2>2. saved'["rules"] <= SizeOf(rules') /\ saved'["names"] <= SizeOf(names)
    BY <1>4, <1>5, <1>6, <1>7 DEF SizeOf
  <2>3. \A f \in Both : saved'[f] <= SizeOf(Buffer(f))'
    BY <1>1, <2>2 DEF SizeOf, Buffer, Both
  <2> QED
    BY <1>1, <1>5, <1>6, <2>1, <2>3 DEF IInv, Shape
<1>9. Order'
  BY <1>1, <1>2 DEF IInv, Order
<1>10. SizesTell'
  <2> SUFFICES ASSUME "failed" \notin history, NEW f \in Both
               PROVE  AsSaved(f, Buffer(f))' /\ NeverWritten(f, Buffer(f))'
    BY <1>1 DEF SizesTell
  <2>1. /\ AsSaved(f, Buffer(f)) /\ NeverWritten(f, Buffer(f))
        /\ phase = "cleanup" /\ is_changed => need_cleanup
    BY <1>1, <1>2 DEF IInv, SizesTell
  <2>2. AsSaved(f, Buffer(f))'
    <3>1. CASE f = "names"
      BY <1>1, <1>6, <2>1, <3>1 DEF AsSaved, Buffer
    <3>2. CASE f = "rules"
      <4> SUFFICES ASSUME saved'["rules"] # 0
                   PROVE  \/ saved'["rules"] = 1 /\ size["rules"] # 1
                          \/ /\ disk["rules"] \notin NoBuffer
                             /\ size["rules"] = SizeOf(disk["rules"])
                             /\ \A j \in 1 .. saved'["rules"] - 1 :
                                  j \in DOMAIN disk["rules"] /\ disk["rules"][j] = rules'[j]
        BY <1>1, <3>2 DEF AsSaved, Buffer
      <4>1. saved["rules"] # 0
        BY <1>4, <1>6, <1>7
      <4>2. CASE saved["rules"] = 1 /\ size["rules"] # 1
        BY <1>4, <1>6, <1>7, <4>2
      <4>3. CASE ~(saved["rules"] = 1 /\ size["rules"] # 1)
        <5>1. /\ disk["rules"] \notin NoBuffer
              /\ size["rules"] = SizeOf(disk["rules"])
              /\ \A j \in 1 .. saved["rules"] - 1 :
                   j \in DOMAIN disk["rules"] /\ disk["rules"][j] = rules[j]
          BY <2>1, <3>2, <4>1, <4>3 DEF AsSaved, Buffer
        <5>2. /\ saved'["rules"] \in Nat /\ saved["rules"] \in Nat /\ i \in 1 .. Len(rules)
              /\ saved'["rules"] <= saved["rules"] /\ saved'["rules"] <= i
              /\ Len(rules) \in Nat /\ DOMAIN rules' = 1 .. Len(rules) - 1
          BY <1>4, <1>6, <1>7
        <5>3. \A j \in 1 .. saved'["rules"] - 1 :
                 j \in 1 .. saved["rules"] - 1 /\ j \in DOMAIN rules' /\ j # i
          BY ONLY <5>2
        <5> QED
          BY <1>5, <5>1, <5>3
      <4> QED
        BY <4>2, <4>3
    <3> QED
      BY <3>1, <3>2 DEF Both
  <2>3. NeverWritten(f, Buffer(f))'
    <3> SUFFICES ASSUME saved'[f] = 0, phase = "cleanup"
                 PROVE  size[f] # 1
      BY <1>1 DEF NeverWritten
    <3>1. saved[f] = 0
      BY <1>6 DEF Both
    <3>2. Len(names) # 0
      <4>1. rules[i].name \in 1 .. Len(names)
        BY <1>3, <1>4 DEF Refers
      <4> QED
        BY <1>4, <4>1
    <3>3. SizeOf(Buffer(f)) # 1
      BY <1>4, <3>2 DEF SizeOf, Buffer
    <3> QED
      BY <2>1, <3>1, <3>3 DEF NeverWritten
  <2> QED
    BY <2>2, <2>3
<1>11. LinkedIsCopy' /\ BackupsAreOfOneMoment'
  BY <1>1, <1>2 DEF IInv, LinkedIsCopy, BackupsAreOfOneMoment, Running
<1>12. NothingLost'
  BY <1>1, <1>2 DEF IInv, NothingLost, OnDisk, Running, Writing, Both
<1>13. Pristine'
  <2>1. SomeOf(rules, Loaded(disk["rules"])) => SomeOf(rules', Loaded(disk["rules"]))
    BY <1>5 DEF SomeOf
  <2> QED
    BY <1>1, <2>1 DEF IInv, Pristine, Running, Syncing, OnDisk, AsOnDisk
<1> QED
  BY <1>8, <1>9, <1>10, <1>11, <1>12, <1>13 DEF IInv

(* What a recovery gives back is the backup, which has everything to be        *)
(* written again, and until the first write is what the transaction found.     *)
LEMMA CancelKeeps == ASSUME IInv, Cancel PROVE IInv'
<1>1. /\ phase = "transaction" /\ Running /\ ~Syncing
      /\ UNCHANGED <<files, disk, copy, linked, step, written>>
  BY DEF Cancel, files, Running, Syncing
<1>2. step = "none" /\ \A f \in Both : ~Writing(f)
  BY <1>1, Outside
<1>3. backuped = Both /\ "cancelled" \notin history /\ ("fresh" \notin history => CanRecover(copy))
  BY <1>1, Inside
<1>4. CASE ~is_changed \/ ~has_backup
  <2>1. /\ ~is_changed /\ phase' = "idle" /\ history' = history \cup {"cancelled"}
        /\ UNCHANGED <<names, rules, saved, size, is_changed, need_cleanup, has_backup, backuped>>
        /\ atStart' = atStart
    BY <1>1, <1>4 DEF Cancel, buffers, IInv, Order
  <2>2. Running' /\ ~Syncing'
    BY <2>1 DEF Running, Syncing
  <2>3. Shape'
    BY <1>1, <2>1 DEF IInv, Shape, Buffer, Facts
  <2>4. Order'
    BY <1>1, <1>2, <2>1 DEF Order
  <2>5. SizesTell'
    <3>1. ASSUME "failed" \notin history, NEW f \in Both
          PROVE  AsSaved(f, Buffer(f))' /\ NeverWritten(f, Buffer(f))'
      BY <1>1, <1>2, <2>1, <3>1 DEF IInv, SizesTell, AsSaved, NeverWritten, Buffer
    <3> QED
      BY <2>1, <3>1 DEF SizesTell
  <2>6. LinkedIsCopy' /\ BackupsAreOfOneMoment'
    BY <1>1, <1>2, <1>3, <2>1 DEF IInv, LinkedIsCopy, BackupsAreOfOneMoment
  <2>7. NothingLost'
    BY <1>1, <1>2, <2>1 DEF IInv, NothingLost, OnDisk, Writing, Both
  <2>8. Pristine'
    BY <1>1, <2>1 DEF IInv, Pristine, AsOnDisk, GivenBack, Content
  <2> QED
    BY <2>3, <2>4, <2>5, <2>6, <2>7, <2>8 DEF IInv
<1>5. CASE is_changed /\ has_backup /\ CanRecover(copy)
  <2>1. /\ names' = copy["names"] /\ rules' = copy["rules"]
        /\ size' = [f \in Both |-> SizeOf(copy[f])] /\ saved' = NoSize
        /\ backuped' = Both
        /\ is_changed' = FALSE /\ need_cleanup' = FALSE
        /\ UNCHANGED <<has_backup, atStart>>
        /\ phase' = "idle" /\ history' = history \cup {"cancelled", "renumbered"}
    BY <1>5 DEF Cancel, Recover, CanRecover
  <2>2. Files(copy) /\ history \subseteq Facts
    BY DEF IInv, Shape
  <2>3. /\ GoodNames(names') /\ GoodRules(rules') /\ Refers(rules', names')
        /\ Loaded(copy["names"]) = names' /\ Loaded(copy["rules"]) = rules'
    BY <1>5, <2>1, <2>2, RecoverableIsGood
  <2>4. /\ \A f \in Both : size'[f] = SizeOf(Buffer(f)') /\ SizeOf(Buffer(f)') \in Nat /\ saved'[f] = 0
        /\ size' \in [Both -> Nat] /\ saved' \in [Both -> Nat]
    <3>1. \A f \in Both : copy[f] = Buffer(f)'
      BY <2>1 DEF Buffer, Both
    <3>2. \A f \in Both : SizeOf(Buffer(f)') \in Nat
      BY <2>3 DEF SizeOf, Buffer, GoodNames, GoodRules
    <3> QED
      BY <2>1, <3>1, <3>2 DEF NoSize
  <2>5. Shape'
    <3>1. \A f \in Both : saved'[f] <= SizeOf(Buffer(f))'
      BY <2>4 DEF SizeOf
    <3>2. history' \subseteq Facts
      BY <2>1, <2>2 DEF Facts
    <3> QED
      BY <1>1, <2>1, <2>3, <2>4, <3>1, <3>2 DEF IInv, Shape
  <2>6. Order'
    BY <1>1, <1>2, <2>1 DEF Order
  <2>7. SizesTell'
    <3>1. \A f \in Both : size'[f] = SizeOf(Buffer(f))'
      BY <2>4 DEF SizeOf
    <3> QED
      BY <2>1, <2>4, <3>1 DEF SizesTell, AsSaved, NeverWritten
  <2>8. LinkedIsCopy' /\ BackupsAreOfOneMoment'
    BY <1>1, <1>2, <1>3, <2>1 DEF IInv, LinkedIsCopy, BackupsAreOfOneMoment
  <2>9. NothingLost'
    BY <2>1 DEF NothingLost
  <2>10. Pristine'
    <3> SUFFICES ASSUME {"synced", "failed"} \cap history = {}
                 PROVE  GivenBack' /\ Readable(disk) /\ (\A f \in Both : copy[f] = disk[f]) /\ AsOnDisk'
      BY <1>1, <2>1 DEF Pristine
    <3>1. Readable(disk) /\ (\A f \in Both : copy[f] = disk[f]) /\ Part(atStart, OnDisk)
      BY <1>1, <1>3 DEF IInv, Pristine
    <3>2. names' = Loaded(disk["names"]) /\ rules' = Loaded(disk["rules"])
      BY <2>3, <3>1 DEF Both
    <3>3. AsOnDisk'
      BY <1>1, <3>2 DEF AsOnDisk, SomeOf
    <3>4. GivenBack'
      BY <2>1, <3>1, <3>2 DEF GivenBack, Content, OnDisk, Part
    <3> QED
      BY <3>1, <3>3, <3>4
  <2> QED
    BY <2>5, <2>6, <2>7, <2>8, <2>9, <2>10 DEF IInv
<1>6. CASE is_changed /\ has_backup /\ ~CanRecover(copy)
  <2>1. Lost /\ UNCHANGED history /\ phase' \in {"broken", "exited"}
    BY <1>6 DEF Cancel, CanRecover
  <2> QED
    BY <1>1, <2>1, EndKeeps
<1> QED
  BY <1>4, <1>5, <1>6

--------------------------------------------------------------------------------
(* What fbuf_sync skips is on disk.                                            *)
LEMMA SkippedIsOnDisk ==
  ASSUME IInv, Running, "failed" \notin history, NEW f \in Both, ~Writing(f), ~NeedsWrite(f)
  PROVE  disk[f] = Buffer(f)
<1>1. /\ SizeOf(Buffer(f)) = saved[f] /\ SizeOf(Buffer(f)) = size[f]
      /\ AsSaved(f, Buffer(f))
  BY DEF NeedsWrite, IInv, SizesTell
<1>2. /\ Files(disk) /\ GoodNames(names) /\ GoodRules(rules)
  BY DEF IInv, Shape
<1>3. PICK S : Buffer(f) \in Seq(S) /\ (disk[f] \in NoBuffer \/ disk[f] \in Seq(S))
  BY <1>2 DEF Buffer, GoodNames, GoodRules, Files, Both
<1>4. saved[f] = 1 + Len(Buffer(f)) /\ Len(Buffer(f)) \in Nat
  BY <1>1, <1>3 DEF SizeOf
<1>5. /\ disk[f] \notin NoBuffer /\ size[f] = SizeOf(disk[f])
      /\ \A i \in 1 .. saved[f] - 1 : i \in DOMAIN disk[f] /\ disk[f][i] = Buffer(f)[i]
  <2>1. ~(saved[f] = 1 /\ size[f] # 1) /\ saved[f] # 0
    <3>1. saved[f] = size[f]
      BY <1>1
    <3>2. saved[f] # 0
      BY <1>4
    <3> QED
      BY <3>1, <3>2
  <2> QED
    BY <1>1, <2>1 DEF AsSaved
<1>6. disk[f] \in Seq(S) /\ Len(disk[f]) = Len(Buffer(f))
  BY <1>1, <1>3, <1>4, <1>5 DEF SizeOf
<1>7. \A i \in 1 .. Len(Buffer(f)) : disk[f][i] = Buffer(f)[i]
  BY <1>4, <1>5
<1> QED
  BY <1>3, <1>6, <1>7, SeqEqual

(* A file is done: it is what its buffer is, unless a write failed before.     *)
LEMMA SyncedKeeps ==
  ASSUME IInv, Syncing, is_changed, Synced, step' = "none",
         UNCHANGED <<names, rules, need_cleanup, backuped, copy, linked, atStart>>,
         Files(disk'), size' \in [Both -> Nat], saved' \in [Both -> Nat],
         \A f \in Both : saved'[f] <= SizeOf(Buffer(f)),
         \A f \in Both : f # Current => /\ ~Writing(f)
                                        /\ disk'[f] = disk[f]
                                        /\ saved'[f] = saved[f] /\ size'[f] = size[f],
         \A f \in linked : disk'[f] = disk[f],
         "failed" \notin history => /\ disk'[Current] = Buffer(Current)
                                    /\ saved'[Current] = SizeOf(Buffer(Current))
                                    /\ size'[Current] = SizeOf(Buffer(Current))
  PROVE  IInv'
<1>1. Running /\ phase \notin {"idle", "stuck", "transaction", "cleanup"} /\ Running'
      /\ phase' \in {"commit_rules", "last_rules", "cleanup", "idle"}
  BY DEF Running, Syncing, Synced, AfterSync
<1>2. /\ backuped = Both /\ "cancelled" \notin history /\ ("fresh" \notin history => CanRecover(copy))
      /\ history \subseteq Facts /\ Current \in Both
      /\ GoodNames(names) /\ GoodRules(rules) /\ Refers(rules, names)
  BY <1>1, Inside DEF IInv, Shape, Current, Both
<1>3. /\ phase \in {"commit_names", "last_names"} => Current = "names"
      /\ phase \in {"commit_rules", "last_rules"} => Current = "rules"
  BY DEF Current
<1>4. \/ /\ phase \in {"commit_names", "last_names"}
         /\ phase' \in {"commit_rules", "last_rules"}
         /\ UNCHANGED <<is_changed, has_backup, written, history>>
      \/ /\ phase \in {"commit_rules", "last_rules"}
         /\ phase' \in {"cleanup", "idle"}
         /\ is_changed' = FALSE /\ has_backup' = FALSE
         /\ written' = (IF "failed" \in history THEN written ELSE Content)
         /\ history' = (history \ {"renumbered"}) \cup {"synced"}
  BY DEF Synced, AfterSync
<1>5. "failed" \in history' <=> "failed" \in history
  BY <1>4
<1>6. "failed" \notin history => disk'["names"] = names /\ saved'["names"] # 0
  <2> SUFFICES ASSUME "failed" \notin history
               PROVE  disk'["names"] = names /\ saved'["names"] # 0
    OBVIOUS
  <2>1. CASE phase \in {"commit_names", "last_names"}
    <3>1. Len(names) \in Nat
      BY <1>2 DEF GoodNames
    <3> QED
      <4>1. Current = "names" /\ Buffer("names") = names /\ SizeOf(names) # 0
        BY <1>3, <2>1, <3>1 DEF SizeOf, Buffer
      <4> QED
        BY <4>1
  <2>2. CASE phase \in {"commit_rules", "last_rules"}
    <3>1. disk["names"] = names /\ saved["names"] # 0
      BY <2>2 DEF IInv, Order
    <3> QED
      BY <1>3, <2>2, <3>1 DEF Both
  <2> QED
    BY <1>4, <2>1, <2>2
<1>7. Shape'
  <2>1. \A f \in Both : saved'[f] <= SizeOf(Buffer(f))'
    BY DEF SizeOf, Buffer
  <2>2. is_changed' \in BOOLEAN /\ has_backup' \in BOOLEAN /\ history' \subseteq Facts
    BY <1>2, <1>4 DEF IInv, Shape, Facts
  <2> QED
    BY <2>1, <2>2 DEF IInv, Shape
<1>8. Order'
  BY <1>1, <1>2, <1>4, <1>5, <1>6 DEF Order
<1>9. SizesTell'
  <2> SUFFICES ASSUME "failed" \notin history, NEW f \in Both
               PROVE  AsSaved(f, Buffer(f))' /\ NeverWritten(f, Buffer(f))'
    BY <1>4, <1>5 DEF SizesTell
  <2>1. CASE f = Current
    <3>1. Len(Buffer(f)) \in Nat /\ DOMAIN Buffer(f) = 1 .. Len(Buffer(f)) /\ Buffer(f) \notin NoBuffer
      BY <1>2, BuffersAreBuffers DEF Buffer, GoodNames, GoodRules
    <3>2. Buffer(f)' = Buffer(f)
      BY DEF Buffer
    <3>3. /\ disk'[f] = Buffer(f)' /\ size'[f] = SizeOf(disk'[f]) /\ saved'[f] - 1 = Len(Buffer(f))
          /\ saved'[f] # 0
      BY <2>1, <3>1, <3>2 DEF SizeOf
    <3> QED
      BY <3>1, <3>2, <3>3 DEF AsSaved, NeverWritten
  <2>2. CASE f # Current
    <3>1. AsSaved(f, Buffer(f)) /\ disk'[f] = disk[f] /\ saved'[f] = saved[f] /\ size'[f] = size[f]
      BY <1>1, <2>2 DEF IInv, SizesTell
    <3>2. AsSaved(f, Buffer(f))'
      BY <3>1 DEF AsSaved, Buffer
    <3>3. (is_changed' /\ phase' # "cleanup") \/ saved'[f] # 0
      BY <1>3, <1>4, <1>6, <2>2 DEF Both
    <3> QED
      BY <3>2, <3>3 DEF NeverWritten
  <2> QED
    BY <2>1, <2>2
<1>10. LinkedIsCopy'
  BY DEF IInv, LinkedIsCopy
<1>11. BackupsAreOfOneMoment'
  BY <1>2, <1>4 DEF BackupsAreOfOneMoment
<1>12. NothingLost'
  <2> SUFFICES ASSUME {"failed", "renumbered"} \cap history' = {}
               PROVE  /\ Readable(disk') /\ OnDisk' = written' /\ Extends(names, Loaded(disk'["names"]))
                      /\ disk'["rules"] # Unreadable /\ Refers(Loaded(disk'["rules"]), names)
                      /\ Says(names, Loaded(disk'["rules"])) = written'
    BY DEF NothingLost
  <2>1. /\ "failed" \notin history
        /\ disk'["names"] = names /\ Loaded(names) = names /\ names # Unreadable
    BY <1>2, <1>5, <1>6, BuffersAreBuffers DEF NoBuffer
  <2>2. /\ disk'["rules"] # Unreadable /\ Refers(Loaded(disk'["rules"]), names)
        /\ Says(names, Loaded(disk'["rules"])) = written'
    <3>1. CASE phase \in {"commit_names", "last_names"}
      <4>1. disk'["rules"] = disk["rules"] /\ ~Writing("rules") /\ UNCHANGED <<written, history>>
        BY <1>3, <1>4, <3>1 DEF Both
      <4> QED
        BY <1>1, <4>1 DEF IInv, NothingLost
    <3>2. CASE phase \in {"commit_rules", "last_rules"}
      <4>1. disk'["rules"] = rules /\ Loaded(rules) = rules /\ rules # Unreadable
        BY <1>2, <1>3, <2>1, <3>2, BuffersAreBuffers DEF NoBuffer, Buffer
      <4>2. written' = Says(names, rules)
        BY <1>4, <2>1, <3>2 DEF Content
      <4> QED
        BY <1>2, <4>1, <4>2
    <3> QED
      BY <1>4, <3>1, <3>2
  <2> QED
    BY <2>1, <2>2 DEF Readable, OnDisk, Refers, Extends
<1>13. Pristine'
  BY <1>1, <1>2, <1>4 DEF Pristine, Syncing
<1> QED
  BY <1>7, <1>8, <1>9, <1>10, <1>11, <1>12, <1>13 DEF IInv

LEMMA SkipFileKeeps == ASSUME IInv, SkipFile PROVE IInv'
<1>1. /\ Syncing /\ step = "none" /\ is_changed /\ ~NeedsWrite(Current) /\ Synced
      /\ UNCHANGED <<names, rules, saved, size, need_cleanup, backuped, step, atStart>>
      /\ UNCHANGED <<disk, copy, linked>>
  BY DEF SkipFile, files
<1>2. Running /\ Current \in Both /\ \A f \in Both : ~Writing(f)
  BY <1>1 DEF Running, Syncing, Current, Both, Writing
<1>3. Files(disk) /\ size \in [Both -> Nat] /\ saved \in [Both -> Nat]
      /\ \A f \in Both : saved[f] <= SizeOf(Buffer(f))
  BY DEF IInv, Shape
<1>4. "failed" \notin history => disk[Current] = Buffer(Current)
  BY <1>1, <1>2, SkippedIsOnDisk
<1>5. saved[Current] = SizeOf(Buffer(Current)) /\ size[Current] = SizeOf(Buffer(Current))
  BY <1>1 DEF NeedsWrite
<1> QED
  BY <1>1, <1>2, <1>3, <1>4, <1>5, SyncedKeeps

LEMMA WriteFileKeeps == ASSUME IInv, WriteFile PROVE IInv'
<1> DEFINE c == Current
           new == Buffer(Current)
<1>1. /\ Syncing /\ step = "created" /\ Synced /\ step' = "none"
      /\ disk' = [disk EXCEPT ![c] = new]
      /\ size' = [size EXCEPT ![c] = SizeOf(new)]
      /\ saved' = [saved EXCEPT ![c] = SizeOf(new)]
      /\ UNCHANGED <<names, rules, need_cleanup, backuped, copy, linked, atStart>>
  BY DEF WriteFile
<1>2. Running /\ is_changed /\ c \in Both /\ c \notin linked /\ \A f \in Both : f # c => ~Writing(f)
  BY <1>1 DEF IInv, Order, LinkedIsCopy, Running, Syncing, Current, Both, Writing
<1>3. /\ Files(disk) /\ size \in [Both -> Nat] /\ saved \in [Both -> Nat]
      /\ GoodNames(names) /\ GoodRules(rules) /\ linked \subseteq Both
      /\ \A f \in Both : saved[f] <= SizeOf(Buffer(f))
  BY DEF IInv, Shape
<1>4. /\ c = "names" => GoodNames(new)
      /\ c = "rules" => GoodRules(new)
      /\ SizeOf(new) \in Nat
  BY <1>3 DEF Buffer, SizeOf, GoodNames, GoodRules
<1>5. new = Buffer(c) /\ c = Current
  OBVIOUS
<1> HIDE DEF c, new
<1>6. /\ Files(disk')
      /\ \A f \in Both : disk'[f] = IF f = c THEN new ELSE disk[f]
  <2>1. c = "names" => new \in NoBuffer \/ GoodNames(new)
    BY <1>4
  <2>2. c = "rules" => new \in NoBuffer \/ GoodRules(new)
    BY <1>4
  <2>3. Replaced(disk', disk, c, new)
    BY <1>1 DEF Replaced
  <2> QED
    BY <1>2, <1>3, <2>1, <2>2, <2>3, FilesExcept
<1>7. /\ size' \in [Both -> Nat] /\ saved' \in [Both -> Nat]
      /\ \A f \in Both : /\ size'[f] = IF f = c THEN SizeOf(new) ELSE size[f]
                         /\ saved'[f] = IF f = c THEN SizeOf(new) ELSE saved[f]
  BY <1>1, <1>2, <1>3, <1>4
<1>8. \A f \in Both : saved'[f] <= SizeOf(Buffer(f))
  BY <1>3, <1>4, <1>5, <1>7
<1>9. \A f \in linked : disk'[f] = disk[f]
  BY <1>2, <1>3, <1>6
<1> QED
  BY <1>1, <1>2, <1>5, <1>6, <1>7, <1>8, <1>9, SyncedKeeps

(* While a file is written, it is one with nothing in it.                      *)
LEMMA WritingKeeps ==
  ASSUME IInv, Syncing, is_changed, NEW x \in {Missing, Fresh},
         Replaced(disk', disk, Current, x), linked' = linked \ {Current}, step' # "none",
         UNCHANGED <<buffers, copy, phase, written, atStart, history>>
  PROVE  IInv'
<1>1. /\ UNCHANGED <<names, rules, saved, size, is_changed, need_cleanup, has_backup, backuped>>
      /\ UNCHANGED <<copy, phase, written, atStart, history>>
  BY DEF buffers
<1>2. Running /\ Current \in Both /\ Current' = Current /\ Running' /\ Syncing'
      /\ phase \notin {"idle", "stuck", "transaction", "cleanup"}
  BY <1>1 DEF Running, Syncing, Current, Both
<1>3. backuped = Both /\ "cancelled" \notin history /\ ("fresh" \notin history => CanRecover(copy))
  BY <1>2, Inside
<1>4. /\ Files(disk')
      /\ \A f \in Both : disk'[f] = IF f = Current THEN x ELSE disk[f]
  <2>1. Files(disk) /\ x \in NoBuffer
    BY DEF IInv, Shape, NoBuffer
  <2>2. /\ Current = "names" => x \in NoBuffer \/ GoodNames(x)
        /\ Current = "rules" => x \in NoBuffer \/ GoodRules(x)
    BY <2>1
  <2> QED
    BY <1>2, <2>1, <2>2, FilesExcept
<1>5. \A f \in Both : f # Current => ~Writing(f) /\ disk'[f] = disk[f]
  BY <1>4 DEF Writing
<1>6. Shape'
  BY <1>1, <1>4 DEF IInv, Shape, Buffer
<1>7. Order'
  <2>1. phase \in {"commit_rules", "last_rules"} => Current # "names"
    BY DEF Current
  <2> QED
    BY <1>1, <1>2, <1>3, <1>5, <2>1 DEF IInv, Order, Both
<1>8. SizesTell'
  <2>1. ASSUME "failed" \notin history, NEW f \in Both
        PROVE  (Writing(f) \/ AsSaved(f, Buffer(f)))' /\ NeverWritten(f, Buffer(f))'
    <3>1. CASE f = Current
      BY <1>1, <1>2, <2>1, <3>1 DEF IInv, SizesTell, NeverWritten, Buffer, Writing
    <3>2. CASE f # Current
      <4>1. AsSaved(f, Buffer(f)) /\ NeverWritten(f, Buffer(f)) /\ disk'[f] = disk[f]
        BY <1>2, <1>5, <2>1, <3>2 DEF IInv, SizesTell
      <4> QED
        BY <1>1, <4>1 DEF AsSaved, NeverWritten, Buffer
    <3> QED
      BY <3>1, <3>2
  <2> QED
    BY <1>1, <1>2, <2>1 DEF SizesTell
<1>9. LinkedIsCopy'
  BY <1>1, <1>2, <1>5 DEF IInv, Shape, LinkedIsCopy
<1>10. BackupsAreOfOneMoment'
  BY <1>1, <1>3 DEF BackupsAreOfOneMoment
<1>11. NothingLost'
  <2>1. ~Writing("rules")' => Current # "rules"
    BY <1>2 DEF Writing
  <2>2. "rules" \in Both
    BY DEF Both
  <2> QED
    BY <1>1, <1>2, <1>5, <2>1, <2>2 DEF IInv, NothingLost
<1>12. Pristine'
  BY <1>1, <1>2, <1>3 DEF Pristine
<1> QED
  BY <1>6, <1>7, <1>8, <1>9, <1>10, <1>11, <1>12 DEF IInv

LEMMA UnlinkFileKeeps == ASSUME IInv, UnlinkFile PROVE IInv'
  BY WritingKeeps DEF UnlinkFile, Replaced

LEMMA CreateFileKeeps == ASSUME IInv, CreateFile PROVE IInv'
<1>1. Syncing /\ step = "unlinked" /\ Running
  BY DEF CreateFile, Syncing, Running
<1>2. is_changed /\ Current \notin linked
  BY <1>1 DEF IInv, Order, LinkedIsCopy
<1>3. linked' = linked \ {Current}
  BY <1>2 DEF CreateFile
<1> QED
  BY <1>1, <1>2, <1>3, WritingKeeps DEF CreateFile, Replaced

LEMMA WriteFailsKeeps == ASSUME IInv, WriteFails PROVE IInv'
<1>1. /\ Syncing /\ step # "none" /\ Running
      /\ step' = "none" /\ phase' \in {"cleanup", "idle"} /\ Running'
      /\ history' = history \cup {"failed"}
      /\ UNCHANGED <<names, rules, saved, size, is_changed, need_cleanup, has_backup, backuped>>
      /\ UNCHANGED <<copy, linked, written, atStart>>
  BY DEF WriteFails, buffers, AfterSync, Running, Syncing
<1>2. PICK left \in LeftBy(step) : disk' = [disk EXCEPT ![Current] = left]
  BY DEF WriteFails
<1>3. /\ Files(disk) /\ GoodNames(names) /\ GoodRules(rules) /\ Current \in Both
      /\ linked \subseteq Both /\ Current \notin linked
  BY <1>1 DEF IInv, Shape, LinkedIsCopy, Current, Both
<1>4. backuped = Both /\ "cancelled" \notin history /\ ("fresh" \notin history => CanRecover(copy))
  BY <1>1, Inside DEF Syncing
<1>5. left \in NoBuffer \/ \E n \in 0 .. Len(Buffer(Current)) - 1 : left = SubSeq(Buffer(Current), 1, n)
  BY <1>2 DEF LeftBy, NoBuffer
<1>6. Current = "names" => left \in NoBuffer \/ GoodNames(left)
  <2> SUFFICES ASSUME Current = "names", left \notin NoBuffer PROVE GoodNames(left)
    OBVIOUS
  <2>1. PICK n \in 0 .. Len(names) - 1 : left = SubSeq(names, 1, n)
    BY <1>5 DEF Buffer
  <2>2. names \in Seq(Keys) /\ \A i, j \in DOMAIN names : names[i] = names[j] => i = j
    BY <1>3 DEF GoodNames
  <2>3. /\ left \in Seq(Keys) /\ DOMAIN left \subseteq DOMAIN names
        /\ \A i \in DOMAIN left : left[i] = names[i]
    BY <2>1, <2>2, CutBuffer
  <2> QED
    BY <2>2, <2>3 DEF GoodNames
<1>7. Current = "rules" => left \in NoBuffer \/ GoodRules(left)
  <2> SUFFICES ASSUME Current = "rules", left \notin NoBuffer PROVE GoodRules(left)
    OBVIOUS
  <2>1. PICK n \in 0 .. Len(rules) - 1 : left = SubSeq(rules, 1, n)
    BY <1>5 DEF Buffer
  <2>2. rules \in Seq(Rule) /\ \A i, j \in DOMAIN rules : rules[i].name = rules[j].name => i = j
    BY <1>3 DEF GoodRules
  <2>3. /\ left \in Seq(Rule) /\ DOMAIN left \subseteq DOMAIN rules
        /\ \A i \in DOMAIN left : left[i] = rules[i]
    BY <2>1, <2>2, CutBuffer
  <2> QED
    BY <2>2, <2>3 DEF GoodRules
<1>8. Files(disk') /\ \A f \in Both : f # Current => disk'[f] = disk[f]
  <2>1. /\ Files(disk')
        /\ \A g \in Both : disk'[g] = IF g = Current THEN left ELSE disk[g]
    <3>1. Replaced(disk', disk, Current, left)
      BY <1>2 DEF Replaced
    <3> QED
      BY <1>3, <1>6, <1>7, <3>1, FilesExcept
  <2> QED
    BY <2>1
<1>9. Shape'
  <2>1. history' \subseteq Facts
    BY <1>1 DEF IInv, Shape, Facts
  <2> QED
    BY <1>1, <1>8, <2>1 DEF IInv, Shape, Buffer
<1>10. Order'
  BY <1>1, <1>4 DEF Order
<1>11. SizesTell' /\ NothingLost' /\ Pristine'
  BY <1>1 DEF SizesTell, NothingLost, Pristine
<1>12. LinkedIsCopy'
  BY <1>1, <1>3, <1>8 DEF IInv, LinkedIsCopy
<1>13. BackupsAreOfOneMoment'
  BY <1>1, <1>4 DEF BackupsAreOfOneMoment
<1> QED
  BY <1>9, <1>10, <1>11, <1>12, <1>13 DEF IInv

(* A packing: the names on disk are not extended any more, and what is saved   *)
(* of both buffers is the identifier, or nothing known by another size.        *)
LEMMA GcKeeps == ASSUME IInv, Gc PROVE IInv'
<1> DEFINE used  == UsedNames
           count == Cardinality(used)
           packs == need_cleanup /\ count + (count \div 4) < Len(names)
<1>1. /\ phase = "cleanup" /\ phase' = "last_names" /\ need_cleanup' = FALSE
      /\ IF packs
         THEN /\ names' = PackedNames(used) /\ rules' = Renumbered(used)
              /\ saved' = [f \in Both |-> 1]
              /\ is_changed' = TRUE
              /\ history' = history \cup {"renumbered"}
         ELSE UNCHANGED <<names, rules, saved, is_changed, history>>
      /\ UNCHANGED <<size, has_backup, backuped, disk, copy, linked, step, written, atStart>>
  BY DEF Gc, files
<1> HIDE DEF packs
<1>2. Running /\ ~Syncing /\ Running' /\ Syncing'
  BY <1>1 DEF Running, Syncing
<1>3. step = "none" /\ \A f \in Both : ~Writing(f)
  BY <1>2, Outside
<1>4. backuped = Both /\ "cancelled" \notin history /\ ("fresh" \notin history => CanRecover(copy))
  BY <1>1, <1>2, Inside
<1>5. /\ GoodNames(names) /\ GoodRules(rules) /\ Refers(rules, names)
  BY DEF IInv, Shape
<1>6. "cancelled" \notin history' /\ ("fresh" \in history' <=> "fresh" \in history)
  BY <1>1, <1>4
<1>7. Shape'
  <2>1. CASE packs
    <3>1. GoodNames(names') /\ GoodRules(rules') /\ Refers(rules', names')
      BY <1>1, <1>5, <2>1, PackFacts
    <3>2. saved' \in [Both -> Nat] /\ \A f \in Both : saved'[f] = 1
      BY <1>1, <2>1
    <3>3. \A f \in Both : SizeOf(Buffer(f))' \in Nat /\ SizeOf(Buffer(f))' >= 1
      BY <3>1 DEF SizeOf, Buffer, GoodNames, GoodRules
    <3>4. \A f \in Both : saved'[f] <= SizeOf(Buffer(f))'
      BY <3>2, <3>3
    <3>5. history' \subseteq Facts /\ is_changed' \in BOOLEAN
      BY <1>1, <2>1 DEF IInv, Shape, Facts
    <3> QED
      BY <1>1, <3>1, <3>2, <3>4, <3>5 DEF IInv, Shape
  <2>2. CASE ~packs
    BY <1>1, <2>2 DEF IInv, Shape, Buffer
  <2> QED
    BY <2>1, <2>2
<1>8. Order'
  BY <1>1, <1>3, <1>6 DEF Order
<1>9. SizesTell'
  <2> SUFFICES ASSUME "failed" \notin history, NEW f \in Both
               PROVE  AsSaved(f, Buffer(f))' /\ NeverWritten(f, Buffer(f))'
    BY <1>1 DEF SizesTell
  <2>1. AsSaved(f, Buffer(f)) /\ NeverWritten(f, Buffer(f))
    BY <1>2, <1>3 DEF IInv, SizesTell
  <2>2. CASE packs
    <3>1. saved'[f] = 1 /\ size' = size /\ disk' = disk /\ need_cleanup
      BY <1>1, <2>2 DEF packs
    <3>2. size[f] # 1 \/ (disk[f] \notin NoBuffer /\ size[f] = SizeOf(disk[f]))
      BY <1>1, <2>1, <3>1 DEF AsSaved, NeverWritten
    <3>3. \A i \in 1 .. saved'[f] - 1 : FALSE
      BY <3>1
    <3> QED
      BY <3>1, <3>2, <3>3 DEF AsSaved, NeverWritten
  <2>3. CASE ~packs
    <3>1. UNCHANGED <<names, rules, saved, size, is_changed, disk>> /\ need_cleanup' = FALSE
      BY <1>1, <2>3
    <3> QED
      BY <1>1, <2>1, <3>1 DEF AsSaved, NeverWritten, Buffer
  <2> QED
    BY <2>2, <2>3
<1>10. LinkedIsCopy' /\ BackupsAreOfOneMoment'
  BY <1>1, <1>3, <1>4, <1>6 DEF IInv, LinkedIsCopy, BackupsAreOfOneMoment
<1>11. NothingLost'
  <2>1. CASE packs
    BY <1>1, <2>1 DEF NothingLost
  <2>2. CASE ~packs
    BY <1>1, <1>2, <1>3, <2>2 DEF IInv, NothingLost, OnDisk, Writing, Both
  <2> QED
    BY <2>1, <2>2
<1>12. Pristine'
  <2>1. CASE packs
    BY <1>1, <1>2, <1>6, <2>1 DEF Pristine
  <2>2. CASE ~packs
    BY <1>1, <1>2, <1>6, <2>2 DEF IInv, Pristine, AsOnDisk
  <2> QED
    BY <2>1, <2>2
<1> QED
  BY <1>7, <1>8, <1>9, <1>10, <1>11, <1>12 DEF IInv

LEMMA InvNext == IInv /\ [Next]_vars => IInv'
<1> SUFFICES ASSUME IInv, [Next]_vars
             PROVE  IInv'
  OBVIOUS
<1>1. CASE UNCHANGED vars \/ OpenAgain
  BY <1>1, StutterKeeps DEF OpenAgain
<1>2. CASE Stop \/ Open \/ Begin \/ BeginFails
  BY <1>2, StopKeeps, OpenKeeps, BeginKeeps, BeginFailsKeeps
<1>3. ASSUME NEW k \in Keys, NEW v \in Values, Set(k, v)
      PROVE  IInv'
  BY <1>3, SetKeeps
<1>4. ASSUME NEW i \in DOMAIN rules, Remove(i)
      PROVE  IInv'
  BY <1>4, RemoveKeeps
<1>5. CASE Commit \/ Cancel \/ NothingToSync \/ Gc
  BY <1>5, CommitKeeps, CancelKeeps, NothingToSyncKeeps, GcKeeps
<1>6. CASE SkipFile \/ UnlinkFile \/ CreateFile \/ WriteFile \/ WriteFails
  BY <1>6, SkipFileKeeps, UnlinkFileKeeps, CreateFileKeeps, WriteFileKeeps, WriteFailsKeeps
<1> QED
  BY <1>1, <1>2, <1>3, <1>4, <1>5, <1>6 DEF Next

LEMMA InvAlways == Spec => []IInv
<1> QED
  BY InvInit, InvNext, PTL DEF Spec

--------------------------------------------------------------------------------
(* The buffers are well formed, after packing, recovering and opening as well, *)
(* and nothing is known to be saved past their end (filedb.c, fbuf.c).         *)
THEOREM TypeCorrect == Spec => []TypeOK
<1>1. IInv => TypeOK
  BY DEF IInv, Shape, GoodNames, GoodRules, Refers, TypeOK
<1> QED
  BY <1>1, InvAlways, PTL

(* What the comparison of sizes in fbuf_sync would skip is on disk, whatever    *)
(* was added, removed, packed or recovered, as long as no write failed.        *)
THEOREM SavedIsOnDiskHolds == Spec => []SavedIsOnDisk
<1>1. IInv => SavedIsOnDisk
  BY SkippedIsOnDisk DEF SavedIsOnDisk, Writing
<1> QED
  BY <1>1, InvAlways, PTL

(* Stopping the daemon out of the writing of a file loses nothing that was     *)
(* written, as long as no write failed and the names were not renumbered since *)
(* both files were last written (syncdb, opendb).                              *)
THEOREM StopLosesNothingWrittenHolds == Spec => []StopLosesNothingWritten
<1>1. IInv => StopLosesNothingWritten
  BY DEF IInv, NothingLost, OnDisk, StopLosesNothingWritten
<1> QED
  BY <1>1, InvAlways, PTL

(* A recovery can read the backups it relies on, whatever writes and links     *)
(* failed, unless a file was empty when it was opened (backupdb, recoverdb).   *)
THEOREM BackupsReadableHolds == Spec => []BackupsReadable
<1>1. IInv => BackupsReadable
  BY DEF IInv, BackupsAreOfOneMoment, CanRecover, BackupsReadable
<1> QED
  BY <1>1, InvAlways, PTL

(* Until the first write after the files are opened, a cancelled transaction   *)
(* gives back the rules it found, whatever backups existed already and however *)
(* many begins failed (backupdb, recoverdb).                                   *)
THEOREM FirstCancelRestoresHolds == Spec => []FirstCancelRestores
<1>1. IInv => FirstCancelRestores
  BY DEF IInv, Pristine, FirstCancelRestores
<1> QED
  BY <1>1, InvAlways, PTL

(* Removing the dead rules and packing the names change no decision, whatever  *)
(* names are used (anydb_cleanup, gc_itf).                                     *)
THEOREM DecisionsSurviveGcHolds == Spec => DecisionsSurviveGc
<1>1. ASSUME IInv, [Next]_vars, phase = "cleanup", phase' \in {"cleanup", "last_names"}
      PROVE  Part(Content', Content)
  <2>1. GoodNames(names) /\ GoodRules(rules) /\ Refers(rules, names)
    BY <1>1 DEF IInv, Shape
  <2>2. Part(Content, Content)
    BY DEF Part
  <2>3. Gc \/ (\E i \in DOMAIN rules : Remove(i)) \/ UNCHANGED vars
    BY <1>1 DEF Next, Stop, Open, OpenAgain, Begin, BeginFails, Set, Commit, Cancel, NothingToSync,
                SkipFile, UnlinkFile, CreateFile, WriteFile, WriteFails, Syncing
  <2>4. CASE UNCHANGED vars
    BY <2>2, <2>4 DEF Content, vars, buffers
  <2>5. ASSUME NEW i \in DOMAIN rules, Remove(i)
        PROVE  Part(Content', Content)
    <3>1. names' = names /\ rules' = Without(i)
      BY <2>5 DEF Remove
    <3>2. GoodRules(rules') /\ SomeOf(rules', rules)
      BY <2>1, <3>1, WithoutFacts DEF SomeOf
    <3> QED
      BY <2>1, <3>1, <3>2, SaysPart DEF Content
  <2>6. CASE Gc
    <3>1. CASE UNCHANGED <<names, rules>>
      BY <2>2, <3>1 DEF Content
    <3>2. CASE names' = PackedNames(UsedNames) /\ rules' = Renumbered(UsedNames)
      <4>1. /\ GoodNames(names') /\ GoodRules(rules') /\ Refers(rules', names')
            /\ \A i \in DOMAIN rules' : /\ i \in DOMAIN rules
                                        /\ rules'[i].value = rules[i].value
                                        /\ names'[rules'[i].name] = names[rules[i].name]
        BY <2>1, <3>2, PackFacts
      <4>2. ASSUME NEW k \in DOMAIN Content'
            PROVE  k \in DOMAIN Content /\ Content'[k] = Content[k]
        <5>1. PICK i \in DOMAIN rules' : names'[rules'[i].name] = k
          BY <4>1, SaysFacts DEF Content
        <5>2. Content'[k] = rules'[i].value
          BY <4>1, <5>1, SaysFacts DEF Content
        <5>3. i \in DOMAIN rules /\ names[rules[i].name] = k /\ rules[i].value = rules'[i].value
          BY <4>1, <5>1
        <5>4. k \in DOMAIN Content /\ Content[k] = rules[i].value
          BY <2>1, <5>3, SaysFacts DEF Content
        <5> QED
          BY <5>2, <5>3, <5>4
      <4> QED
        BY <4>2 DEF Part
    <3> QED
      BY <2>6, <3>1, <3>2 DEF Gc
  <2> QED
    BY <2>3, <2>4, <2>5, <2>6
<1>2. IInv /\ [Next]_vars =>
        [phase = "cleanup" /\ phase' \in {"cleanup", "last_names"} =>
           \A k \in DOMAIN Content' : k \in DOMAIN Content /\ Content'[k] = Content[k]]_vars
  BY <1>1 DEF Part
<1> QED
  BY <1>2, InvAlways, PTL DEF Spec, DecisionsSurviveGc
================================================================================
