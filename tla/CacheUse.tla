--------------------------------- MODULE CacheUse ---------------------------------
(*******************************************************************************)
(* What a client does to its cache (src/src/cache.c), with the order in which  *)
(* the items were used: put, or found by a search.  The answers come in any    *)
(* order, for any key, with any date (status_check, async_reply_process).      *)
(*******************************************************************************)
EXTENDS Cache, FiniteSets

CONSTANTS
  Size,     (* the place for the items                                         *)
  MaxTime   (* bound on the clock                                              *)

ASSUME SizeAssumption == Size \in Nat
ASSUME MaxTimeAssumption == MaxTime \in Nat

VARIABLES
  now,      (* the clock                                                       *)
  cache,    (* the items                                                       *)
  uses      (* history: the items as they were last used, the oldest use first *)

useVars == <<now, cache, uses>>

KeysOf(c) == {c[i].key : i \in DOMAIN c}
Use(key, found) == [key |-> key, found |-> found]

UsesInit == now = 0 /\ cache = <<>> /\ uses = <<>>

(* The uses of what is still in the cache, then the one of this key.           *)
UsedNow(key, found) ==
  LET Still(use) == use.key # key /\ use.key \in KeysOf(cache')
      old == SelectSeq(uses, Still)
  IN  uses' = IF key \in KeysOf(cache') THEN Append(old, Use(key, found)) ELSE old

Put(key, expire) ==
  /\ cache' = cache_put(cache, key, "yes", expire, now, Size)
  /\ UsedNow(key, FALSE)
  /\ UNCHANGED now

Search(key) ==
  /\ cache' = cache_search(cache, key, now)
  /\ UsedNow(key, TRUE)
  /\ UNCHANGED now

(* The clear of a change of the rules.                                         *)
cache_clear ==
  /\ cache' = <<>> /\ uses' = <<>>
  /\ UNCHANGED now

Tick ==
  /\ now < MaxTime
  /\ now' = now + 1
  /\ UNCHANGED <<cache, uses>>

UsesNext ==
  \/ \E key \in Keys, expire \in 0 .. MaxTime : Put(key, expire)
  \/ \E key \in Keys : Search(key)
  \/ cache_clear
  \/ Tick

UsesSpec == UsesInit /\ [][UsesNext]_useVars

--------------------------------------------------------------------------------
(* The items fit in the block, there is one for a key, and the history names   *)
(* each of them once.                                                          *)
CacheFits ==
  /\ Used(cache) <= Size
  /\ Cardinality(KeysOf(cache)) = Len(cache)
  /\ KeysOf(uses) = KeysOf(cache) /\ Len(uses) = Len(cache)
  /\ \A i \in DOMAIN cache : cache[i].hit \in 0 .. HitMax

(* The item i makes room while the item j is kept.                             *)
Dropped(i, j) ==
  /\ ~Expired(cache[i], now)
  /\ cache[i].key \notin KeysOf(cache')
  /\ cache[j].key \in KeysOf(cache')
LastUse(i) == CHOOSE u \in DOMAIN uses : uses[u].key = cache[i].key

(* An item that was found is not dropped to make room while one that was last  *)
(* used before is kept (drop_lre, hit), however the searches, the answers and  *)
(* the expirations follow one another: as long as less than HitMax other       *)
(* searches were answered since, its counter is not 0.                         *)
FoundOutlivesOlder ==
  [][\A i, j \in DOMAIN cache :
       Dropped(i, j) /\ uses[LastUse(i)].found /\ cache[i].hit > 0
         => LastUse(i) < LastUse(j)]_useVars
================================================================================
