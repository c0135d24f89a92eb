---------------------------------- MODULE Cache ----------------------------------
(*******************************************************************************)
(* The cache of the client library (src/src/cache.c): items one after another  *)
(* in a block of bounded size, each with its date and its hit counter.  A      *)
(* cache is here the sequence of its items; a key is one name.                 *)
(*                                                                             *)
(* An operator named Faulty... is not the code: it is a plausible mistake in    *)
(* the definition it precedes, kept to show which property catches it.         *)
(*******************************************************************************)
EXTENDS Integers, Sequences, SequencesExt, Ranks

CONSTANTS
  Keys,     (* the keys                                                        *)
  Length,   (* the place that the item of each key takes                       *)
  HitMax    (* the hit of an item just used: 255                               *)

ASSUME LengthAssumption == Length \in [Keys -> Nat \ {0}]
ASSUME HitMaxAssumption == HitMax \in Nat \ {0}

Used(cache) ==
  LET used[i \in 0 .. Len(cache)] == IF i = 0 THEN 0 ELSE used[i - 1] + Length[cache[i].key]
  IN  used[Len(cache)]

(* drop_lre: the last of the items whose hit is the least.                     *)
Faulty_drop_lre(cache) == Tail(cache)
drop_lre(cache) ==
  LET least == CHOOSE i \in DOMAIN cache :
                 /\ \A j \in DOMAIN cache : cache[i].hit <= cache[j].hit
                 /\ \A j \in i + 1 .. Len(cache) : cache[i].hit < cache[j].hit
  IN  RemoveAt(cache, least)

(* drop_lre until there is place for n.  Each turn drops one item.             *)
FaultyMakeRoom(cache, n, size) ==
  IF Used(cache) + n > size THEN drop_lre(cache) ELSE cache
MakeRoom(cache, n, size) ==
  LET room[i \in 0 .. Len(cache)] ==
        IF i = 0 THEN cache
        ELSE IF Used(room[i - 1]) + n > size THEN drop_lre(room[i - 1]) ELSE room[i - 1]
  IN  room[Len(cache)]

(* search, in two parts: the expired items go, then the item is found.         *)
Expired(item, t) == item.expire # 0 /\ item.expire < t
Unexpired(cache, t) == Picked(cache, {i \in DOMAIN cache : ~Expired(cache[i], t)})
At(cache, key) == {i \in DOMAIN cache : cache[i].key = key}

(* hit                                                                         *)
Hit(cache, key) ==
  [i \in DOMAIN cache |->
     IF cache[i].key = key THEN [cache[i] EXCEPT !.hit = HitMax]
     ELSE [cache[i] EXCEPT !.hit = IF @ = 0 THEN 0 ELSE @ - 1]]

(* cache_put at the time t of an absolute date, in a cache of a given size.    *)
(* Other items keep their hit.                                                 *)
cache_put(cache, key, value, expire, t, size) ==
  LET live == Unexpired(cache, t)
      item == [key |-> key, value |-> value, expire |-> expire, hit |-> HitMax]
  IN  IF expire < 0 THEN cache
      ELSE IF At(live, key) # {}
      THEN [i \in DOMAIN live |-> IF live[i].key = key THEN item ELSE live[i]]
      ELSE IF Length[key] > size THEN live
      ELSE Append(MakeRoom(live, Length[key], size), item)

(* cache_search: what the cache becomes.                                       *)
cache_search(cache, key, t) ==
  LET live == Unexpired(cache, t)
  IN  IF At(live, key) = {} THEN live ELSE Hit(live, key)
================================================================================
