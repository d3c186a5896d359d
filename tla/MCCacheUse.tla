----------------------------- MODULE MCCacheUse -----------------------------
(* The cache alone: three entries, three pages of which two differ in the case *)
(* of their letters.                                                          *)
EXTENDS CacheUse, TLC

CONSTANTS
    home, about, HOME,
    MaxFetches      \* fetches on their way and ids of entries (bound)

Pages    == {home, HOME, about}
Keys     == home :> home @@ HOME :> home @@ about :> about
Lifetime == home :> 0 @@ HOME :> Never @@ about :> Never
Whole    == [p \in Pages |-> {"whole"}]

(* What MaxFetches bounds: the fetches on their way, and the ids of entries.  *)
Fetches == FoldSet(LAMBDA q, n : misses[q] + n, FrontId(cache), Page)

BoundedNext == Next /\ Fetches' <= MaxFetches
BoundedSpec == Init /\ [][BoundedNext]_vars
=============================================================================
