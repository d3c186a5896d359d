--------------------------- MODULE CacheUseProofs ---------------------------
(***************************************************************************)
(* Machine-checked proofs about CacheUse, for every set of pages, every     *)
(* lifetime of responses, every limit of entries and every number of        *)
(* fetches.                                                                 *)
(***************************************************************************)
EXTENDS CacheUse, HttpCacheProofs

-----------------------------------------------------------------------------
(* The cache is all right, and the fetches are counted by naturals.           *)
CacheInv == CacheOk /\ misses \in [Page -> Nat]

(* Every step keeps the invariant.                                            *)
LEMMA NextCacheInv == CacheInv /\ [Next]_vars => CacheInv'
<1> SUFFICES ASSUME CacheInv, [Next]_vars
             PROVE  CacheInv'
  OBVIOUS
<1>0. CacheOk /\ misses \in [Page -> Nat] /\ now \in Time
  BY DEF CacheInv, CacheOk, CacheTypeOK
<1>1. ASSUME NEW p \in Page, Hit(p)
      PROVE  CacheInv'
  <2>1. Hits(p) # {} /\ UpdateEntry(p) /\ now' = now /\ misses' = misses
    BY <1>1 DEF Hit, GoodEntry
  <2> QED
    BY <1>0, <2>1, UpdateKeepsCache DEF CacheInv
<1>2. ASSUME NEW p \in Page, Miss(p)
      PROVE  CacheInv'
  <2>1. now' = now /\ misses' \in [Page -> Nat]
    BY <1>0, <1>2 DEF Miss
  <2>2. CASE Hits(p) = {}
    BY <1>0, <1>2, <2>1, <2>2, KeepsCache DEF Miss, CacheInv
  <2>3. CASE Hits(p) # {}
    BY <1>0, <1>2, <2>1, <2>3, RemoveKeepsCache DEF Miss, CacheInv
  <2> QED
    BY <2>2, <2>3
<1>3. ASSUME NEW p \in Page, NEW t \in Time, NEW r \in ResponsesAt(p, t), Insert(p, r)
      PROVE  CacheInv'
  <2>1. r \in Response
    BY DEF Response
  <2>2. AddEntry(p, r) /\ now' = now /\ misses' \in [Page -> Nat]
    BY <1>0, <1>3 DEF Insert
  <2> QED
    BY <1>0, <2>1, <2>2, AddKeepsCache DEF CacheInv
<1>4. CASE Tick
  <2>1. now' \in Time /\ UNCHANGED cacheVars /\ misses' = misses
    BY <1>0, <1>4, CacheAssumption DEF Tick, Time
  <2> QED
    BY <1>0, <2>1, KeepsCache DEF CacheInv
<1>5. CASE UNCHANGED vars
  <2>1. now' = now /\ UNCHANGED cacheVars /\ misses' = misses
    BY <1>5 DEF vars
  <2> QED
    BY <1>0, <2>1, KeepsCache DEF CacheInv
<1> QED
  BY <1>1, <1>2, <1>3, <1>4, <1>5 DEF Next

-----------------------------------------------------------------------------
(* The strengthening is an invariant: types, finiteness and EvictionSafe.     *)
THEOREM CacheInvariant == Spec => []CacheInv
<1>1. Init => CacheInv
  BY EmptyCache DEF Init, CacheInv
<1>2. CacheInv /\ [Next]_vars => CacheInv'
  BY NextCacheInv
<1> QED
  BY <1>1, <1>2, PTL DEF Spec

(* add_entry always finds an entry to evict, and the counter neither falls    *)
(* behind the list nor passes the limit, whatever misses interleave.          *)
THEOREM CacheEvictionSafe == Spec => []EvictionSafe
<1>1. CacheInv => EvictionSafe
  BY DEF CacheInv, CacheOk, EvictionSafe
<1> QED
  BY <1>1, CacheInvariant, PTL

(* With no page in the cache twice, an insertion evicts at most one entry,    *)
(* only from a full cache, and none that it keeps was used before it.         *)
THEOREM CacheEvictsOneLeastRecent == Spec => EvictsOneLeastRecent
<1> DEFINE gone == cache \ cache'
           A == Inserting /\ NoTwins =>
                  /\ Cardinality(gone) <= 1
                  /\ gone # {} => num_entries = MAX_NUM_ENTRIES
                  /\ \A e \in gone, f \in cache \cap cache' : e.atime <= f.atime
<1>1. ASSUME CacheInv, [Next]_vars
      PROVE  [A]_vars
  <2> SUFFICES ASSUME Inserting, NoTwins
               PROVE  /\ Cardinality(gone) <= 1
                      /\ gone # {} => num_entries = MAX_NUM_ENTRIES
                      /\ \A e \in gone, f \in cache \cap cache' : e.atime <= f.atime
    OBVIOUS
  <2>0. misses \in [Page -> Nat]
    BY <1>1 DEF CacheInv
  <2>1. PICK q \in Page : misses'[q] = misses[q] - 1
    BY DEF Inserting
  <2>2. misses' # misses /\ ~ (misses'[q] >= misses[q])
    BY <2>0, <2>1
  <2>3. PICK p \in Page, r \in Response : Insert(p, r)
    <3>1. ~ Tick /\ ~ UNCHANGED vars
      BY <2>2 DEF Tick, vars
    <3>2. ASSUME NEW p \in Page, Hit(p) \/ Miss(p)
          PROVE  FALSE
      <4>1. misses' = misses \/ misses' = [misses EXCEPT ![p] = @ + 1]
        BY <3>2 DEF Hit, Miss
      <4> QED
        BY <2>0, <2>2, <4>1
    <3>3. \A p \in Page, t \in Time : ResponsesAt(p, t) \subseteq Response
      BY DEF Response
    <3> QED
      BY <1>1, <3>1, <3>2, <3>3 DEF Next
  <2>4. AddEntry(p, r) /\ now' = now
    BY <2>3 DEF Insert
  <2> QED
    BY <1>1, <2>4, AddEvictsOneLeastRecent DEF CacheInv, NoTwins
<1>2. CacheInv /\ [Next]_vars => [A]_vars
  BY <1>1
<1> QED
  BY <1>2, CacheInvariant, PTL DEF Spec, EvictsOneLeastRecent
=============================================================================
