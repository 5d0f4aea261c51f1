------------------------------- MODULE TTLCache -------------------------------
(***************************************************************************)
(* services/cache/cache.go: Cache, as the set of its keys with the time at *)
(* which each expires. The values are left out: an answer is stored with   *)
(* its key or not at all. There is one cache for each of the Services.     *)
(***************************************************************************)
EXTENDS HttpRequests

CONSTANTS
    Services,       \* the caches: "search" for places, "route" for routes
    KeysOf,         \* KeysOf[s]: the cache keys that requests to s may have
    EmptyKey,       \* the key ""
    MaxSize,        \* c.maxSize
    TTL             \* c.ttl, in ticks

AllKeys == UNION {KeysOf[s] : s \in Services}

ASSUME CacheAssumption ==
    /\ Services \subseteq {"search", "route"}
    /\ DOMAIN KeysOf = Services
    /\ MaxSize \in Nat \ {0}
    /\ TTL \in Nat

VARIABLE entries    \* entries[s]: expiresAt for every key in the cache

CacheTypeOK ==
    /\ DOMAIN entries = Services
    /\ \A s \in Services :
        /\ DOMAIN entries[s] \subseteq KeysOf[s]
        /\ \A k \in DOMAIN entries[s] : entries[s][k] \in Nat

CacheInit == entries = [s \in Services |-> [k \in {} |-> 0]]

\* Get
Hit(s, k) == k \in DOMAIN entries[s] /\ now <= entries[s][k]

\* The keys of S that expire first.
Oldest(cached, S) == {k \in S : \A j \in S : cached[k] <= cached[j]}

\* (mutant of Evictable: the comparison is the wrong way round)
EvictableLatest(cached) ==
    {k \in DOMAIN cached : \A j \in DOMAIN cached : cached[j] <= cached[k]}

\* What evictOldest may delete, depending on the order in which Go ranges over
\* the map; EmptyKey stands for nothing. The loop takes oldestKey = "" for "no
\* key yet": the entry with that key is passed over, but if it expires before
\* all those seen so far, they are passed over with it.
Evictable(cached) ==
    LET others == DOMAIN cached \ {EmptyKey}
        seenLater == {S \in SUBSET others :
                        /\ EmptyKey \in DOMAIN cached
                        /\ S # others
                        /\ \A k \in others \ S : cached[EmptyKey] < cached[k]}
    IN Oldest(cached, others)
         \cup UNION {Oldest(cached, S) : S \in seenLater}
         \cup {k \in {EmptyKey} : others = {} \/ {} \in seenLater}

\* delete(c.entries, oldestKey), unless oldestKey is "".
Without(cached, k) ==
    IF k = EmptyKey THEN cached ELSE [j \in DOMAIN cached \ {k} |-> cached[j]]

With(cached, k) ==
    [j \in DOMAIN cached \cup {k} |-> IF j = k THEN now + TTL ELSE cached[j]]

IsFullByOne(cached) == Cardinality(DOMAIN cached) > MaxSize  \* (mutant of IsFull)

IsFull(cached) == Cardinality(DOMAIN cached) >= MaxSize

\* Set: a full cache evicts an entry, even if key is one of its own.
Set(s, key) ==
    \/ /\ ~IsFull(entries[s])
       /\ entries' = [entries EXCEPT ![s] = With(@, key)]
    \/ /\ IsFull(entries[s])
       /\ \E k \in Evictable(entries[s]) :
            entries' = [entries EXCEPT ![s] = With(Without(@, k), key)]

-----------------------------------------------------------------------------
\* "a max-entry cap"
Bounded(s) == Cardinality(DOMAIN entries[s]) <= MaxSize

\* The cap holds for a cache that is never asked for the key "", such as the
\* one of routes.
CapIsKept == \A s \in Services : EmptyKey \notin KeysOf[s] => Bounded(s)

\* What a Set evicts expires no later than anything that stays, in a cache
\* without the key "".
OldestGoesFirst ==
    [][\A s \in Services : EmptyKey \notin KeysOf[s] =>
          \A gone \in DOMAIN entries[s] \ DOMAIN entries'[s],
             kept \in DOMAIN entries[s] \cap DOMAIN entries'[s] :
                 entries[s][gone] <= entries[s][kept]]_entries
=============================================================================
