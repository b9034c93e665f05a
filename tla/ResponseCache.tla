--------------------------- MODULE ResponseCache ---------------------------
(***************************************************************************)
(* The cache of responses in the memory of a server: its limits on items   *)
(* and bytes, and the calls that use it at once.                           *)
(*   src/backend/internal/httpapi/r2_cache.go, lines 10-124                *)
(*                                                                         *)
(* One action is one critical section of the cache's lock, or the reading  *)
(* of the clock outside of it.  A response is its size in bytes; whether   *)
(* an item that is not dead yet is an answer, or only where stale ones are *)
(* asked for, is FileListing.                                              *)
(***************************************************************************)
EXTENDS Integers, FiniteSets, Functions

CONSTANTS CacheKeys,   \* keys, r2:list:... and r2:stat:...
          Sizes,       \* of a response in bytes
          Callers,     \* goroutines with a call of the cache
          MaxItems,    \* responseCacheMaxItems
          MaxBytes,    \* responseCacheMaxBytes
          Lifetime,    \* PANSHOW_R2_CACHE_TTL_SECONDS and PANSHOW_R2_STALE_CACHE_TTL_SECONDS
          MaxClock     \* bound: the last moment

ASSUME CacheLimitsAssumption ==
  /\ MaxItems \in Nat \ {0} /\ MaxBytes \in Nat \ {0}
  /\ Sizes \subseteq Nat /\ IsFiniteSet(CacheKeys)
ASSUME LifetimeAssumption == Lifetime \in Nat \ {0} /\ MaxClock \in Nat

\* A definition named MUTANT_D is D with a mistake the properties are to find.

VARIABLES items,       \* key -> item, for the keys that have one
          totalBytes,
          clock,
          caller       \* the call of each goroutine

cacheVars == <<items, totalBytes, clock, caller>>

Item(n, now) == [createdAt |-> now, size |-> n, stale |-> now + Lifetime]

CallerIdle == [phase |-> "idle"]
Goes(c, state) == caller' = [caller EXCEPT ![c] = state]

CacheInit == /\ items = <<>> /\ totalBytes = 0
             /\ clock = 0
             /\ caller = [c \in Callers |-> CallerIdle]

Without(k) == Restrict(items, DOMAIN items \ {k})
SizeOf(k) == IF k \in DOMAIN items THEN items[k].size ELSE 0

-----------------------------------------------------------------------------
(* SetJSON.                                                                 *)

BeginSet(c) ==
  /\ caller[c] = CallerIdle
  /\ \E k \in CacheKeys, n \in Sizes :
       Goes(c, [phase |-> IF n > MaxBytes THEN "tooLarge" ELSE "set",
                key |-> k, size |-> n, now |-> clock])
  /\ UNCHANGED <<items, totalBytes, clock>>

\* deleteLocked, on behalf of caller c, which is then done.
Delete(c, k) == /\ items' = Without(k)
                /\ totalBytes' = totalBytes - SizeOf(k)
                /\ Goes(c, CallerIdle)

SetTooLarge(c) == /\ caller[c].phase = "tooLarge"
                  /\ Delete(c, caller[c].key)
                  /\ UNCHANGED clock

\* The bytes of some items of a cache, counted as a set of them.
BytesOf(cache, keys) == Cardinality(UNION {{k} \X (1 .. cache[k].size) : k \in keys})

\* Where pruneLocked may end, having begun with some keys of a cache and a count
\* of their bytes: the oldest are gone, or any of several that are the oldest, and
\* only as many as it takes until both limits hold.
Evictions(cache, bytes, keys) ==
  LET Left(kept) == [keys |-> kept, bytes |-> bytes - BytesOf(cache, keys \ kept)]
      Fits(kept) == Cardinality(kept) <= MaxItems /\ Left(kept).bytes <= MaxBytes
      Older(k, others) == \A j \in others : cache[k].createdAt <= cache[j].createdAt
      Last(kept) == {k \in keys \ kept : \A j \in keys \ kept : Older(j, {k})}
  IN  {Left(kept) : kept \in {s \in SUBSET keys :
         /\ \A k \in keys \ s : Older(k, s)
         /\ s = keys \/ \E k \in Last(s) : ~Fits(s \cup {k})
         /\ s = {} \/ Fits(s)}}

MUTANT_Replace(cache, k, item) ==
  [items |-> [j \in DOMAIN cache \cup {k} |-> IF j = k THEN item ELSE cache[j]],
   bytes |-> totalBytes + item.size]

\* deleteLocked of what the key had, and the new item in its place.
Replace(cache, k, item) ==
  [items |-> [j \in DOMAIN cache \cup {k} |-> IF j = k THEN item ELSE cache[j]],
   bytes |-> totalBytes - SizeOf(k) + item.size]

\* The lock is taken after the clock was read: meanwhile others may have stored
\* items that are newer, under this key too.
Set(c) ==
  LET h == caller[c]
      next == Replace(items, h.key, Item(h.size, h.now))
      live == {k \in DOMAIN next.items : h.now <= next.items[k].stale}
      dead == BytesOf(next.items, DOMAIN next.items \ live)
  IN  /\ h.phase = "set"
      /\ \E end \in Evictions(next.items, next.bytes - dead, live) :
           items' = Restrict(next.items, end.keys) /\ totalBytes' = end.bytes
      /\ Goes(c, CallerIdle)
      /\ UNCHANGED clock

-----------------------------------------------------------------------------
(* GetJSON and GetStaleJSON, which tell their callers apart by what they    *)
(* answer only: a miss, or an item within its lifetime.                     *)

ReadItem(c) ==
  /\ caller[c] = CallerIdle
  /\ \E k \in DOMAIN items : Goes(c, [phase |-> "read", key |-> k, item |-> items[k]])
  /\ UNCHANGED <<items, totalBytes, clock>>

CheckItem(c) ==
  LET h == caller[c]
  IN  /\ h.phase = "read"
      /\ Goes(c, IF clock > h.item.stale THEN [h EXCEPT !.phase = "remove"] ELSE CallerIdle)
      /\ UNCHANGED <<items, totalBytes, clock>>

MUTANT_Same(c) == caller[c].key \in DOMAIN items

\* Whether the key still has the item that was read: one that dies when it does.
Same(c) == LET h == caller[c]
           IN  h.key \in DOMAIN items /\ items[h.key].stale = h.item.stale

RemoveItem(c) ==
  /\ caller[c].phase = "remove"
  /\ IF Same(c) THEN Delete(c, caller[c].key)
     ELSE Goes(c, CallerIdle) /\ UNCHANGED <<items, totalBytes>>
  /\ UNCHANGED clock

-----------------------------------------------------------------------------
\* DeletePatterns of a refresh; which keys a pattern means is Paths.
DeletePatterns ==
  /\ \E gone \in SUBSET DOMAIN items \ {{}} :
       /\ items' = Restrict(items, DOMAIN items \ gone)
       /\ totalBytes' = totalBytes - BytesOf(items, gone)
  /\ UNCHANGED <<clock, caller>>

Tick == /\ clock < MaxClock
        /\ clock' = clock + 1
        /\ UNCHANGED <<items, totalBytes, caller>>

CacheNext ==
  \/ \E c \in Callers : \/ BeginSet(c) \/ Set(c) \/ SetTooLarge(c)
                        \/ ReadItem(c) \/ CheckItem(c) \/ RemoveItem(c)
  \/ DeletePatterns \/ Tick

CacheSpec == CacheInit /\ [][CacheNext]_cacheVars

-----------------------------------------------------------------------------
(* Properties.                                                              *)

ItemType == [createdAt: Nat, size: Sizes, stale: Nat]

\* Every variable has its type.
CacheTypeOK ==
  /\ DOMAIN items \subseteq CacheKeys /\ \A k \in DOMAIN items : items[k] \in ItemType
  /\ totalBytes \in Nat /\ clock \in Nat
  /\ \A c \in Callers : caller[c] \in
       {CallerIdle} \cup [phase: {"set", "tooLarge"}, key: CacheKeys, size: Sizes, now: Nat]
                    \cup [phase: {"read", "remove"}, key: CacheKeys, item: ItemType]

\* Between critical sections the count of bytes is that of the items, and both
\* limits hold, whatever is replaced, evicted, expired and deleted: a count that
\* drifted would in the end empty the cache at every store, or never again
\* (r2_cache.go:79-82, 99-124).
WithinLimits == /\ totalBytes = BytesOf(items, DOMAIN items)
                /\ totalBytes <= MaxBytes /\ Cardinality(DOMAIN items) <= MaxItems

\* Why an item is no longer there after a step of caller c.
MayLeave(c, k) ==
  CASE caller[c].phase = "remove" -> clock > items[k].stale
    [] caller[c].phase = "tooLarge" -> k = caller[c].key
    [] caller[c].phase = "set" ->
         \/ k = caller[c].key \/ clock > items[k].stale
         \/ \A j \in DOMAIN items' : items[k].createdAt <= items'[j].createdAt
    [] OTHER -> FALSE

\* A call that found a dead item removes no other: not the new one that took its
\* place between two critical sections.  A store removes what it replaces, what
\* is dead, and to make room nothing that is newer than what it keeps, though
\* stores may come in another order than the one they read the clock in
\* (r2_cache.go:47-51, 77-82, 106-117).
OnlyOldItemsLeave ==
  [][\A c \in Callers : caller'[c] # caller[c] =>
       \A k \in DOMAIN items \ DOMAIN items' : MayLeave(c, k)]_cacheVars
=============================================================================
