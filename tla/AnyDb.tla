---------------------------------- MODULE AnyDb ----------------------------------
(*******************************************************************************)
(* The matching engine of a rule database (src/src/anydb.c), as operators on a *)
(* set of rules.  memdb.c and filedb.c store the rules in arrays; the order of *)
(* an array only matters where a traversal stops early, and there the set of   *)
(* rules already visited is left open (see SetResults).                        *)
(*                                                                             *)
(* An operator named Faulty... is not the code: it is a plausible mistake in    *)
(* the definition it precedes, kept to show which property catches it.         *)
(*******************************************************************************)
EXTENDS Integers, FiniteSets

CONSTANTS
  Names,    (* the proper names that clients, sessions, users, permissions bear *)
  Any,      (* "#": in a search, matches every name; in a new rule, means Wide  *)
  Empty,    (* "": taken for Any where names are searched, not where texts are  *)
  Wide,     (* "*": in a rule, matches every queried name                       *)
  Fold,     (* the case folding that strcasecmp applies to permissions          *)
  Values    (* what a rule can answer: "yes", "no" or an agent description      *)

Texts == Names \cup {Any, Wide, Empty}

ASSUME SpecialNames ==
  /\ Any # Wide /\ Any # Empty /\ Wide # Empty
  /\ {Any, Wide, Empty} \cap Names = {}
ASSUME FoldKeepsSpecialNames ==
  /\ Fold \in [Texts -> Texts]
  /\ \A n \in Texts : Fold[Fold[n]] = Fold[n]
  /\ \A n \in Texts, special \in {Any, Wide, Empty} :
       (Fold[n] = special) <=> (n = special)

Field == {"client", "session", "user", "permission"}
Key   == [Field -> Texts]
Rule  == [key : Key, value : Values, expire : Int]

--------------------------------------------------------------------------------
(* Client, session and user are compared by their index, a permission by its  *)
(* text and whatever its case.                                                *)
SameName(f, a, b) == IF f = "permission" THEN Fold[a] = Fold[b] ELSE a = b

(* A negative date -(1+x) forbids caching and expires at x; 0 never expires.  *)
Deadline(expire) == IF expire < 0 THEN -(expire + 1) ELSE expire
Expired(expire, now) == LET d == Deadline(expire) IN d # 0 /\ d <= now
Dead(rules, now) == {r \in rules : Expired(r.expire, now)}
Live(rules, now) == rules \ Dead(rules, now)

(* The key under which a rule is stored: ANY and the empty name are widened,   *)
(* but for the permission, whose empty name is stored as ANY.                  *)
StoredKey(key) ==
  [f \in Field |-> CASE key[f] \notin {Any, Empty} -> key[f]
                     [] f = "permission"           -> Any
                     [] OTHER                      -> Wide]

FaultyKeyIs(stored, key) ==
  \A f \in Field : stored[f] = IF f = "permission" THEN key[f] ELSE StoredKey(key)[f]

(* Does a set find that rule?  The permission is compared as it was given: an  *)
(* empty one is not the text "#" of the rule that it would store.              *)
KeyIs(stored, key) ==
  \A f \in Field :
    SameName(f, stored[f], IF f = "permission" THEN key[f] ELSE StoredKey(key)[f])

SearchMatch(stored, filter) ==
  \A f \in Field : filter[f] \in {Any, Empty} \/ SameName(f, stored[f], filter[f])

(* No rule has a client, session or user that is ANY or empty: such a query    *)
(* matches the rules that are Wide there, as the code looks for.               *)
TestMatch(stored, query) ==
  \A f \in Field : stored[f] = Wide \/ SameName(f, stored[f], query[f])

--------------------------------------------------------------------------------
(* The score of a matching rule: SOME_MATCH_SCORE (0x10) plus, for each field  *)
(* that is not Wide, 0x18, 0x14, 0x12 or 0x11.  The high digit counts the      *)
(* exact fields, the low one ranks them.                                       *)
NoMatchScore   == 0
SomeMatchScore == 16
FieldScore == [session |-> 24, user |-> 20, client |-> 18, permission |-> 17]
Worth(stored, f) == IF stored[f] = Wide THEN 0 ELSE FieldScore[f]

FaultyScore(stored) ==
  LET bit(f) == IF stored[f] = Wide THEN 0 ELSE FieldScore[f] - 16
  IN  SomeMatchScore + bit("client") + bit("session") + bit("user") + bit("permission")

Score(stored) ==
  SomeMatchScore + Worth(stored, "client") + Worth(stored, "session")
                 + Worth(stored, "user") + Worth(stored, "permission")

(* The best live rule for a query, as [score, value, expire].                 *)
Nothing == [score |-> NoMatchScore]

Test(rules, query, now) ==
  LET found == {r \in Live(rules, now) : TestMatch(r.key, query)}
  IN  IF found = {} THEN Nothing
      ELSE LET r == CHOOSE r \in found :
                      \A s \in found : Score(s.key) <= Score(r.key)
           IN  [score |-> Score(r.key), value |-> r.value, expire |-> r.expire]

(* What updating a rule can leave: the traversal stops at the first rule found,*)
(* so any part of the dead rules may be gone.  Only rules whose permission is  *)
(* ANY can be found more than once (see KeyIs): some of them may be alike in    *)
(* all and one in this set, so that one is left where another is updated.      *)
Twins(r) == IF r.key["permission"] = Any THEN {{}, {r}} ELSE {{}}
Updates(rules, r, value, expire, now) ==
  {((rules \ gone) \ {r}) \cup twin \cup {[r EXCEPT !.value = value, !.expire = expire]}
   : gone \in SUBSET Dead(rules, now), twin \in Twins(r)}

(* What setting a rule can leave: an update of the rule found first, or an     *)
(* addition, which has visited all and purged the dead.                        *)
SetResults(rules, key, value, expire, now) ==
  LET same == {r \in Live(rules, now) : KeyIs(r.key, key)}
  IN  IF same # {}
      THEN UNION {Updates(rules, r, value, expire, now) : r \in same}
      ELSE {Live(rules, now)
              \cup {[key |-> StoredKey(key), value |-> value, expire |-> expire]}}

(* What dropping can leave: a filter with a name the database never met stops *)
(* before the traversal, which then purges nothing.                           *)
DropResults(rules, filter, now) ==
  LET hit == {r \in rules : SearchMatch(r.key, filter)}
  IN  {Live(rules, now) \ hit} \cup (IF hit = {} THEN {rules} ELSE {})
================================================================================
