---------------------------- MODULE MCAccountPool ---------------------------
(* Small instances of AccountPool for TLC. *)
EXTENDS AccountPool, TLC

CONSTANTS a, b, c, s1, s2

\* A place for every identity; the two orders disagree.
MCListOrder   == a :> 1 @@ b :> 2 @@ c :> 3
MCLocaleOrder == a :> 2 @@ b :> 1 @@ c :> 3

\* Hash values: s1 prefers a, s2 prefers b; c ties with a for s2.
MCBase   == s1 :> (a :> 3 @@ b :> 2 @@ c :> 2) @@ s2 :> (a :> 1 @@ b :> 3 @@ c :> 1)
MCBucket == s1 :> 0 @@ s2 :> 1

Only(f, S) == [x \in S |-> f[x]]
ListOrderOf   == Only(MCListOrder, Identities)
LocaleOrderOf == Only(MCLocaleOrder, Identities)
BaseOf        == [s \in Sessions |-> Only(MCBase[s], Identities)]
BucketOf      == Only(MCBucket, Sessions)

Pools(strategies, ttls, cooldowns, thresholds, enabled) ==
  [strategy : strategies, ttl : ttls, cooldown : cooldowns, threshold : thresholds,
   enabled : enabled]

StickyPool   == Pools({"sticky-affinity"}, {1}, {1}, {2}, {TRUE})
StrictPool   == Pools({"sticky-affinity"}, {1}, {1}, {1}, {TRUE})
PatientPool  == Pools({"sticky-affinity"}, {1}, {1}, {3}, {TRUE})
ServingPools == StickyPool \cup Pools({"least-loaded", "round-robin"}, {1}, {1}, {1}, {TRUE})
                 \cup Pools({"least-loaded"}, {1}, {1}, {1}, {FALSE})

Interchangeable == Permutations(Requests)
=============================================================================
