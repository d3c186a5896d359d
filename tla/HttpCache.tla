----------------------------- MODULE HttpCache -----------------------------
(***************************************************************************)
(* The response cache of the HTTP proxy, src/HTTP/cache.c: a list with the  *)
(* newest entry first, a counter of its entries, and the eviction of the    *)
(* least recently used one.  Time is counted in ticks ("now"), for the       *)
(* access times of gettimeofday() and the expiry times of time() alike.      *)
(***************************************************************************)
EXTENDS Nodes, FiniteSetsExt

CONSTANTS
    Page,            \* the pages: a host and a relative URL
    key,             \* key[p]: p up to the case of its letters (streqi)
    lifetime,        \* lifetime[p]: ticks until a response for p expires, or Never
    endings,         \* endings[p]: how its response may end, "whole" or "cut"
    Never,           \* the expiry of a response without an Expires header
    TzShift,         \* mktime() of a GMT time minus that time: the local time zone
    MAX_NUM_ENTRIES,
    MaxNow           \* the clock stops here (bound)

ASSUME CacheAssumption ==
    /\ DOMAIN key = Page
    /\ Never \notin Int
    /\ lifetime \in [Page -> Int \cup {Never}]
    /\ endings \in [Page -> SUBSET {"whole", "cut"}]
    /\ TzShift \in Int
    /\ MAX_NUM_ENTRIES \in Nat \ {0}
    /\ MaxNow \in Nat

VARIABLES
    cache,           \* the list of entries
    num_entries,
    now              \* the clock

cacheVars == <<cache, num_entries>>

Time == 0..MaxNow

(* A response: the page it answers, the time its Expires header gives (one   *)
(* that cannot be parsed counts as long past), and how it ends.               *)
ExpiresAt(p, t) == IF lifetime[p] = Never THEN Never ELSE t + lifetime[p]
ResponsesAt(p, t) == [page : {p}, expires : {ExpiresAt(p, t)}, end : endings[p]]
Response == UNION {ResponsesAt(p, t) : p \in Page, t \in Time}
Entry    == [id : Nat, page : Page, response : Response, expiry_time : Int \cup {Never},
             atime : Time]

CacheInit == cache = {} /\ num_entries = 0 /\ now = 0

CacheTypeOK ==
    /\ \A e \in cache : e \in Entry
    /\ num_entries \in Nat
    /\ now \in Time

Same(e, p) == key[e.page] = key[p]

Hits(p) == {e \in cache : Same(e, p)}

(* Variant: the head of the list.                                             *)
find_entryHead(p) == First(cache)
(* find_entry: the first that matches, if any.                                 *)
find_entry(p) == First(Hits(p))

(* Variant: one tick late.                                                     *)
ExpiredLate(e) == e.expiry_time # Never /\ e.expiry_time + 1 < now
Expired(e)     == e.expiry_time # Never /\ e.expiry_time < now

GoodEntry(p) == Hits(p) # {} /\ ~Expired(find_entry(p))

(* remove_entry: every entry that matches; the counter drops by one.          *)
RemoveEntry(p) ==
    /\ cache' = cache \ Hits(p)
    /\ num_entries' = num_entries - 1

(* Variant: the newest entry.                                                  *)
OldestHead == First(cache)
(* The entry a full cache evicts: the first with the least access time.       *)
Oldest == First({e \in cache : \A f \in cache : e.atime <= f.atime})

NewEntry(p, r) ==
    [id |-> FrontId(cache), page |-> p, response |-> r, atime |-> now,
     expiry_time |-> IF r.expires = Never THEN Never ELSE r.expires + TzShift]

(* Variant: one entry more than there is room for.                            *)
AddEntryOver(p, r) ==
    IF num_entries > MAX_NUM_ENTRIES
    THEN /\ cache' = (cache \ Hits(Oldest.page)) \cup {NewEntry(p, r)}
         /\ num_entries' = num_entries
    ELSE /\ cache' = cache \cup {NewEntry(p, r)}
         /\ num_entries' = num_entries + 1

(* add_entry.  num_entries is never over MAX_NUM_ENTRIES, so the loop that     *)
(* evicts makes one round at most; the list must not be empty then.            *)
AddEntry(p, r) ==
    IF num_entries >= MAX_NUM_ENTRIES
    THEN /\ cache' = (cache \ Hits(Oldest.page)) \cup {NewEntry(p, r)}
         /\ num_entries' = num_entries
    ELSE /\ cache' = cache \cup {NewEntry(p, r)}
         /\ num_entries' = num_entries + 1

(* update_entry: the access time of the first that matches.                    *)
UpdateEntry(p) ==
    /\ cache' = Replace(cache, find_entry(p), [find_entry(p) EXCEPT !.atime = now])
    /\ UNCHANGED num_entries
=============================================================================
