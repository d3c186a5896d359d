--------------------------- MODULE HttpCacheProofs ---------------------------
(***************************************************************************)
(* Lemmas about the operations of the cache, for the proofs about whoever    *)
(* uses it.                                                                 *)
(***************************************************************************)
EXTENDS HttpCache, NodesProofs

-----------------------------------------------------------------------------
(* The entry counter covers the list, never passes the limit, and is at the   *)
(* limit only with an entry to evict.                                         *)
CacheOk ==
    /\ CacheTypeOK
    /\ IsFiniteSet(cache)
    /\ Cardinality(cache) <= num_entries /\ num_entries <= MAX_NUM_ENTRIES
    /\ num_entries = MAX_NUM_ENTRIES => cache # {}

(* The initial cache is empty.                                               *)
LEMMA EmptyCache == CacheInit => CacheOk
<1> SUFFICES ASSUME CacheInit
             PROVE  CacheOk
  OBVIOUS
<1>1. cache = {} /\ num_entries = 0 /\ now = 0
  BY DEF CacheInit
<1>2. IsFiniteSet(cache) /\ Cardinality(cache) = 0
  BY <1>1, FS_EmptySet
<1>3. CacheTypeOK
  BY <1>1, CacheAssumption DEF CacheTypeOK, Time
<1> QED
  BY <1>1, <1>2, <1>3, CacheAssumption DEF CacheOk

(* A step that leaves the cache alone, while time may pass.                   *)
LEMMA KeepsCache ==
    ASSUME CacheOk, UNCHANGED cacheVars, now' \in Time
    PROVE  CacheOk'
  BY DEF CacheOk, CacheTypeOK, cacheVars

(* The entry that a full cache evicts is in it, and no entry was used before. *)
LEMMA OldestProperties ==
    ASSUME CacheTypeOK, IsFiniteSet(cache), cache # {}
    PROVE  Oldest \in cache /\ \A f \in cache : Oldest.atime <= f.atime
<1> DEFINE T == {e.atime : e \in cache}
           L == {e \in cache : \A f \in cache : e.atime <= f.atime}
<1>1. \A e \in cache : e.id \in Nat /\ e.atime \in Nat
  BY CacheAssumption DEF CacheTypeOK, Entry, Time
<1>2. T \subseteq Nat /\ T # {}
  BY <1>1
<1>3. PICK x \in T : \A y \in T : x <= y
  BY <1>2, LeastExists
<1>4. L # {}
  BY <1>3
<1>5. IsFiniteSet(L)
  BY FS_Subset
<1>6. First(L) \in L
  <2>1. \A n \in L : n.id \in Int
    BY <1>1
  <2> HIDE DEF L
  <2> QED
    BY <1>4, <1>5, <2>1, FirstProperties
<1> QED
  BY <1>6 DEF Oldest

(* The entry found for a page is in the cache.                                *)
LEMMA FoundProperties ==
    ASSUME CacheTypeOK, IsFiniteSet(cache), NEW p, Hits(p) # {}
    PROVE  find_entry(p) \in Hits(p)
<1>1. IsFiniteSet(Hits(p))
  BY FS_Subset DEF Hits
<1>2. \A e \in Hits(p) : e.id \in Int
  BY DEF Hits, CacheTypeOK, Entry
<1> QED
  BY <1>1, <1>2, FirstProperties DEF find_entry

(* The entry of a new response.                                               *)
LEMMA NewEntryType ==
    ASSUME CacheTypeOK, IsFiniteSet(cache), NEW p \in Page, NEW r \in Response
    PROVE  NewEntry(p, r) \in Entry /\ NewEntry(p, r) \notin cache
<1>1. FrontId(cache) \in Nat /\ \A n \in cache : n.id < FrontId(cache)
  <2>1. \A n \in cache : n.id \in Nat
    BY DEF CacheTypeOK, Entry
  <2> QED
    BY <2>1, FrontIdProperties
<1>2. r.expires \in Int \cup {Never}
  <2>1. PICK q \in Page, t \in Time : r \in ResponsesAt(q, t)
    BY DEF Response
  <2>2. r.expires = ExpiresAt(q, t)
    BY <2>1 DEF ResponsesAt
  <2>3. t \in Int /\ lifetime[q] \in Int \cup {Never}
    BY <2>1, CacheAssumption DEF Time
  <2> QED
    BY <2>2, <2>3 DEF ExpiresAt
<1>3. (IF r.expires = Never THEN Never ELSE r.expires + TzShift) \in Int \cup {Never}
  BY <1>2, CacheAssumption
<1>4. now \in Time
  BY DEF CacheTypeOK
<1>5. NewEntry(p, r) \in Entry
  BY <1>1, <1>3, <1>4 DEF NewEntry, Entry
<1>6. NewEntry(p, r).id = FrontId(cache)
  BY DEF NewEntry
<1> QED
  BY <1>1, <1>5, <1>6

(* update_entry renews the access time of one entry.                          *)
LEMMA UpdateKeepsCache ==
    ASSUME CacheOk, NEW p, Hits(p) # {}, UpdateEntry(p), now' = now
    PROVE  CacheOk'
<1>0. CacheTypeOK /\ IsFiniteSet(cache)
  BY DEF CacheOk
<1>1. find_entry(p) \in cache
  BY <1>0, FoundProperties DEF Hits
<1> DEFINE old == find_entry(p)
           new == [old EXCEPT !.atime = now]
<1>2. cache' = Replace(cache, old, new) /\ num_entries' = num_entries
  BY DEF UpdateEntry
<1>3. /\ IsFiniteSet(cache') /\ Cardinality(cache') <= Cardinality(cache)
      /\ \A k \in cache' : k \in cache \/ k = new
      /\ cache' # {}
  <2> HIDE DEF old, new
  <2>1. \A k \in cache : (IF k = old THEN new ELSE k) \in cache'
    BY <1>0, <1>2, ReplaceProperties
  <2>2. cache' # {}
    BY <1>1, <2>1
  <2> QED
    BY <1>0, <1>2, <2>2, ReplaceProperties
<1>4. new \in Entry
  <2>1. old \in Entry /\ now \in Time
    BY <1>0, <1>1 DEF CacheTypeOK
  <2> HIDE DEF old
  <2> QED
    BY <2>1 DEF Entry
<1>5. CacheTypeOK'
  BY <1>0, <1>2, <1>3, <1>4 DEF CacheTypeOK
<1>6. Cardinality(cache) \in Nat /\ Cardinality(cache') \in Nat /\ num_entries \in Nat
  BY <1>0, <1>3, FS_CardinalityType DEF CacheTypeOK
<1> QED
  BY <1>2, <1>3, <1>5, <1>6, CacheAssumption DEF CacheOk

(* remove_entry removes one entry or several, and counts one: the counter     *)
(* still covers what is left, and is below the limit then.                    *)
LEMMA RemoveKeepsCache ==
    ASSUME CacheOk, NEW p, Hits(p) # {}, RemoveEntry(p), now' = now
    PROVE  CacheOk'
<1>0. CacheTypeOK /\ IsFiniteSet(cache) /\ num_entries \in Nat
  BY DEF CacheOk, CacheTypeOK
<1>1. cache' = cache \ Hits(p) /\ num_entries' = num_entries - 1
  BY DEF RemoveEntry
<1>2. cache' \subseteq cache /\ cache' # cache
  BY <1>1 DEF Hits
<1>3. /\ IsFiniteSet(cache') /\ Cardinality(cache') < Cardinality(cache)
      /\ Cardinality(cache) \in Nat /\ Cardinality(cache') \in Nat
  BY <1>0, <1>2, FS_Subset, FS_CardinalityType
<1>4. num_entries' \in Nat
  BY <1>0, <1>1, <1>3 DEF CacheOk
<1>5. CacheTypeOK'
  BY <1>0, <1>2, <1>4 DEF CacheTypeOK
<1> QED
  BY <1>0, <1>1, <1>3, <1>5, CacheAssumption DEF CacheOk

(* add_entry counts one, or evicts from a full cache the entries of a page,    *)
(* one or several, and adds one.                                              *)
LEMMA AddKeepsCache ==
    ASSUME CacheOk, NEW p \in Page, NEW r \in Response, AddEntry(p, r), now' = now
    PROVE  /\ CacheOk'
           /\ cache \ cache' \subseteq (IF cache = {} THEN {} ELSE Hits(Oldest.page))
<1>0. CacheTypeOK /\ IsFiniteSet(cache) /\ num_entries \in Nat
  BY DEF CacheOk, CacheTypeOK
<1> DEFINE new == NewEntry(p, r)
<1>1. new \in Entry /\ new \notin cache
  BY <1>0, NewEntryType
<1>2. PICK kept \in SUBSET cache :
        /\ cache' = kept \cup {new}
        /\ \/ num_entries' = num_entries + 1 /\ num_entries < MAX_NUM_ENTRIES /\ kept = cache
           \/ /\ num_entries' = num_entries /\ num_entries >= MAX_NUM_ENTRIES
              /\ cache # {} /\ kept = cache \ Hits(Oldest.page) /\ kept # cache
  <2>1. CASE num_entries >= MAX_NUM_ENTRIES
    <3>1. cache # {}
      BY <1>0, <2>1, CacheAssumption DEF CacheOk
    <3>2. Oldest \in Hits(Oldest.page)
      BY <1>0, <3>1, OldestProperties DEF Hits, Same
    <3>3. Hits(Oldest.page) \subseteq cache
      BY DEF Hits
    <3>4. cache' = (cache \ Hits(Oldest.page)) \cup {new} /\ num_entries' = num_entries
      BY <2>1 DEF AddEntry
    <3> QED
      BY <2>1, <3>1, <3>2, <3>3, <3>4
  <2>2. CASE ~ (num_entries >= MAX_NUM_ENTRIES)
    <3>1. cache' = cache \cup {new} /\ num_entries' = num_entries + 1
      BY <2>2 DEF AddEntry
    <3> QED
      BY <1>0, <2>2, <3>1, CacheAssumption
  <2> QED
    BY <2>1, <2>2
<1> HIDE DEF new
<1>3. /\ IsFiniteSet(kept) /\ Cardinality(kept) <= Cardinality(cache)
      /\ kept # cache => Cardinality(kept) < Cardinality(cache)
      /\ Cardinality(cache) \in Nat /\ Cardinality(kept) \in Nat
  BY <1>0, FS_Subset, FS_CardinalityType
<1>4. IsFiniteSet(cache') /\ Cardinality(cache') = Cardinality(kept) + 1
  BY <1>1, <1>2, <1>3, FS_AddElement
<1>5. CacheTypeOK'
  BY <1>0, <1>1, <1>2 DEF CacheTypeOK
<1>6. cache' # {}
  BY <1>2
<1>7. CacheOk'
  BY <1>0, <1>2, <1>3, <1>4, <1>5, <1>6, CacheAssumption DEF CacheOk
<1>8. cache \ cache' \subseteq (IF cache = {} THEN {} ELSE Hits(Oldest.page))
  BY <1>2
<1> QED
  BY <1>7, <1>8

(* With no page in the cache twice, add_entry removes at most one entry, only  *)
(* when the cache is full, and none that it keeps was used before it.         *)
LEMMA AddEvictsOneLeastRecent ==
    ASSUME CacheOk, NEW p \in Page, NEW r \in Response, AddEntry(p, r), now' = now,
           \A e, f \in cache : key[e.page] = key[f.page] => e = f
    PROVE  /\ Cardinality(cache \ cache') <= 1
           /\ cache \ cache' # {} => num_entries = MAX_NUM_ENTRIES
           /\ \A e \in cache \ cache', f \in cache \cap cache' : e.atime <= f.atime
<1> DEFINE gone == cache \ cache'
<1>1. gone \subseteq (IF cache = {} THEN {} ELSE Hits(Oldest.page))
  BY AddKeepsCache
<1>0. gone # {} => num_entries = MAX_NUM_ENTRIES
  <2>1. CASE num_entries >= MAX_NUM_ENTRIES
    BY <2>1, CacheAssumption DEF CacheOk, CacheTypeOK
  <2>2. CASE ~ (num_entries >= MAX_NUM_ENTRIES)
    BY <2>2 DEF AddEntry
  <2> QED
    BY <2>1, <2>2
<1>2. CASE cache = {}
  <2>1. gone = {}
    BY <1>2
  <2> QED
    BY <2>1, FS_EmptySet
<1>3. CASE cache # {}
  <2>1. Oldest \in cache /\ \A f \in cache : Oldest.atime <= f.atime
    BY <1>3, OldestProperties DEF CacheOk
  <2>2. gone \subseteq {Oldest}
    BY <1>1, <1>3, <2>1 DEF Hits, Same
  <2>3. IsFiniteSet({Oldest}) /\ Cardinality({Oldest}) = 1
    BY FS_Singleton
  <2> HIDE DEF gone
  <2>4. Cardinality(gone) <= 1
    BY <2>2, <2>3, FS_Subset
  <2>5. \A e \in gone, f \in cache : e.atime <= f.atime
    BY <2>1, <2>2
  <2> QED
    BY <1>0, <2>4, <2>5 DEF gone
<1> QED
  BY <1>2, <1>3
=============================================================================
