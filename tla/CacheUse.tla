------------------------------ MODULE CacheUse ------------------------------
(***************************************************************************)
(* The cache as its user works it, src/HTTP/proxy.c without sockets: a page  *)
(* is looked up; a page that is missing is fetched, others being looked up,  *)
(* fetched and inserted meanwhile; the response that comes is inserted.      *)
(* "misses" counts, for each page, the fetches on their way.                 *)
(***************************************************************************)
EXTENDS HttpCache

VARIABLE misses

vars == <<cacheVars, now, misses>>

Init == CacheInit /\ misses = [p \in Page |-> 0]

Hit(p) ==
    /\ GoodEntry(p)
    /\ UpdateEntry(p)
    /\ UNCHANGED <<now, misses>>

(* No entry, or an expired one, which is removed; the fetch may fail.         *)
Miss(p) ==
    /\ ~GoodEntry(p)
    /\ IF Hits(p) # {} THEN RemoveEntry(p) ELSE UNCHANGED cacheVars
    /\ UNCHANGED now
    /\ UNCHANGED misses \/ misses' = [misses EXCEPT ![p] = @ + 1]

Insert(p, r) ==
    /\ misses[p] > 0
    /\ r.page = p
    /\ AddEntry(p, r)
    /\ misses' = [misses EXCEPT ![p] = @ - 1]
    /\ UNCHANGED now

Tick ==
    /\ now < MaxNow
    /\ now' = now + 1
    /\ UNCHANGED <<cacheVars, misses>>

Next ==
    \/ \E p \in Page : Hit(p) \/ Miss(p)
    \/ \E p \in Page, t \in Time : \E r \in ResponsesAt(p, t) : t <= now /\ Insert(p, r)
    \/ Tick

Spec == Init /\ [][Next]_vars

-----------------------------------------------------------------------------
(* The counter of entries covers the list, never passes the limit, and is at  *)
(* the limit only with an entry to evict: add_entry always finds one, and its *)
(* loop makes at most one round.  Concurrent misses put one page in the cache *)
(* twice, and removing both entries lowers the counter by one.                *)
EvictionSafe ==
    /\ Cardinality(cache) <= num_entries /\ num_entries <= MAX_NUM_ENTRIES
    /\ num_entries = MAX_NUM_ENTRIES => cache # {}

Inserting == \E p \in Page : misses'[p] = misses[p] - 1

NoTwins == \A e, f \in cache : key[e.page] = key[f.page] => e = f

(* While no page is in the cache twice, an insertion evicts at most one entry, *)
(* only from a full cache, and none that is kept was used before it, although *)
(* entries that expired leave holes in the count and in the list.             *)
EvictsOneLeastRecent ==
    [][Inserting /\ NoTwins =>
         LET gone == cache \ cache'
         IN  /\ Cardinality(gone) <= 1
             /\ gone # {} => num_entries = MAX_NUM_ENTRIES
             /\ \A e \in gone, f \in cache \cap cache' : e.atime <= f.atime]_vars

(* cache.c: "Evict least recent used.": what the insertion of a response       *)
(* removes was not used after anything that it keeps, the entries in the cache *)
(* having been used at different times.                                        *)
EvictsLeastRecent ==
    [][Inserting /\ (\A e, f \in cache : e.atime = f.atime => e = f) =>
         \A e \in cache \ cache', f \in cache \cap cache' : e.atime <= f.atime]_vars
=============================================================================
