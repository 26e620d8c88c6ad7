-------------------------------- MODULE LRU --------------------------------
(***************************************************************************)
(* The groupcache lru.Cache that krd uses, by the order of its keys: a     *)
(* sequence without repetition, the most recently used key first.  Every   *)
(* key of krd's caches has one value for its whole life, so the values are *)
(* left to the modules that use the cache.                                 *)
(***************************************************************************)
EXTENDS Naturals, Sequences, SequencesExt

(* A cache over the keys K holds each of its keys once.                    *)
IsCache(c, K) == c \in Seq(K) /\ IsInjective(c)

LruRemove(c, k) ==
    IF Contains(c, k) THEN RemoveAt(c, CHOOSE i \in 1..Len(c) : c[i] = k) ELSE c

(* Get moves a key it finds to the front.                                  *)
LruGet(c, k) == IF Contains(c, k) THEN <<k>> \o LruRemove(c, k) ELSE c

LruRemoveOldest(c) == IF c = <<>> THEN c ELSE Front(c)

UnboundedAdd(c, k, maxEntries) == <<k>> \o LruRemove(c, k)

(* Add evicts the oldest key when a new one exceeds maxEntries.  (The form *)
(* above forgets to, and is not used.)                                     *)
LruAdd(c, k, maxEntries) ==
    LET added == <<k>> \o LruRemove(c, k)
    IN  IF maxEntries # 0 /\ Len(added) > maxEntries
        THEN LruRemoveOldest(added) ELSE added
=============================================================================
