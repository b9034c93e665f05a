---------------------------- MODULE FileListing ----------------------------
(***************************************************************************)
(* The listings of directories and the details of files: the bucket, the   *)
(* file index in PostgreSQL, the shared cache in Redis, the cache in each  *)
(* server's memory, the handlers that answer with a listing or with the    *)
(* details of a file, and those that refresh a directory.                  *)
(*   src/backend/internal/httpapi/router.go, lines 204-388, 432-462 and    *)
(*     1264-1304                                                           *)
(*   src/backend/internal/httpapi/file_index.go, lines 28-96, 112-154 and  *)
(*     253-323                                                             *)
(*                                                                         *)
(* One action is one call to R2, PostgreSQL or Redis, or one critical      *)
(* section of the local cache.  A listing is the number of changes the     *)
(* directory had seen in the bucket when it was read there, and so are the *)
(* details of a file in it.  An instance of a mode with details has the    *)
(* entries r2:stat:* of one file of each directory as its caches, the      *)
(* others the entries r2:list:*.  The access check before a handler's      *)
(* first step is DirectoryAccess; the size of the local cache is           *)
(* ResponseCache, and here it may drop any entry at any moment.            *)
(***************************************************************************)
EXTENDS Integers, Sequences, FiniteSets, SequencesExt

CONSTANTS Servers,       \* processes of the backend
          Readers,       \* slots for requests that list a directory
          Refreshers,    \* slots for refreshes: requests, the refresher of today, the backfill
          Dirs,          \* directories, each the sequence of its names
          Modes,         \* of the configuration, and of what is asked for
          EmptyStates,   \* the numbers of changes after which a directory is empty
          GoneStates,    \* those after which the file asked for is not there
          Faults,        \* the calls that may fail in this instance
          MaxChanges,    \* bound: changes of one directory in the bucket
          Counted,       \* the overlapping requests of which promised takes no notice
          None

Mode == [index: BOOLEAN,    \* PANSHOW_INDEX_ENABLED
         details: BOOLEAN,  \* the requests are for the details of a file
         public: BOOLEAN]   \* PANSHOW_R2_PUBLIC_BASE_URL is set

ASSUME BoundsAssumption == /\ MaxChanges \in Nat
                           /\ EmptyStates \subseteq GoneStates /\ GoneStates \subseteq Nat
ASSUME ModeAssumption == Modes \subseteq Mode /\ Counted \subseteq {"held", "refilled"}
ASSUME FaultsAssumption ==
  Faults \subseteq {"redisGet", "redisSet", "redisDel", "bucket", "postgres"}
ASSUME NamesAssumption == /\ None \notin Refreshers \cup Dirs \cup Int
                         /\ \A d \in Dirs : Len(d) \in Nat

\* A definition named MUTANT_D is D with a mistake the properties are to find.

VARIABLES
  mode,       \* the mode, which never changes
  bucket,     \* directory -> the changes it has seen in R2
  indexed,    \* directory -> the listing in tables file_index_*, or None
  redis,      \* directory -> the listing in Redis, or None
  local,      \* server -> directory -> the entry of responseCache, or None
  lock,       \* server -> directory -> the refresher that holds its lock, or None
  reader,     \* the handlers of listFiles
  refresher,  \* the callers of refreshDirectoryIndex, or the handlers of refreshFileCache
  promised    \* history, no guard reads it: directory -> the changes a request must show,
              \* those the bucket had seen when a refresh began that has been answered

caches == <<redis, local>>
vars == <<mode, bucket, indexed, redis, local, lock, reader, refresher, promised>>

Synthetic == -1  \* a listing made up from the indexed directories below
Missing == -2    \* the answer without the data: an empty listing of a directory
                 \* that is not indexed, a file without metadata; as a promise, none

Below(dir) == {d \in Dirs : IsPrefix(dir, d)}

Entry(n) == [listing |-> n, fresh |-> TRUE]
Fresh(entry) == IF entry = None THEN FALSE ELSE entry.fresh
ReaderIdle == [phase |-> "idle"]
RefresherIdle == [phase |-> "idle"]

Init ==
  /\ mode \in Modes
  /\ bucket = [d \in Dirs |-> 0]
  /\ indexed = [d \in Dirs |-> None] /\ redis = [d \in Dirs |-> None]
  /\ local = [s \in Servers |-> [d \in Dirs |-> None]]
  /\ lock = [s \in Servers |-> [d \in Dirs |-> None]]
  /\ reader = [r \in Readers |-> ReaderIdle]
  /\ refresher = [f \in Refreshers |-> RefresherIdle]
  /\ promised = [d \in Dirs |-> Missing]

-----------------------------------------------------------------------------
(* A request that lists a directory, listFiles, or asks for a file of it,   *)
(* fileDetail.                                                              *)

InFlight(r) == reader[r].phase \notin {"idle", "answered"}

ReaderGoes(r, phase) == reader' = [reader EXCEPT ![r] = [@ EXCEPT !.phase = phase]]
ReaderGets(r, n, phase) ==
  reader' = [reader EXCEPT ![r] = [@ EXCEPT !.phase = phase, !.listing = n]]

BeginList(r) ==
  /\ reader[r] = ReaderIdle
  /\ \E s \in Servers, d \in Dirs :
       reader' = [reader EXCEPT ![r] =
         [phase |-> "local", at |-> s, dir |-> d, listing |-> 0, promised |-> promised[d]]]
  /\ UNCHANGED <<mode, bucket, indexed, caches, lock, refresher, promised>>

\* cachedJSON: the local cache, then Redis; an error of Redis is a miss.
ReadLocal(r) ==
  LET entry == local[reader[r].at][reader[r].dir]
  IN  /\ reader[r].phase = "local"
      /\ IF Fresh(entry) THEN ReaderGets(r, entry.listing, "answered")
                         ELSE ReaderGoes(r, "redis")
      /\ UNCHANGED <<mode, bucket, indexed, caches, lock, refresher, promised>>

MUTANT_ReadRedis(r) ==
  /\ reader[r].phase = "redis"
  /\ ReaderGets(r, redis[reader[r].dir], "fill")
  /\ UNCHANGED <<mode, bucket, indexed, caches, lock, refresher, promised>>

ReadRedis(r) ==
  /\ reader[r].phase = "redis"
  /\ \/ redis[reader[r].dir] # None /\ ReaderGets(r, redis[reader[r].dir], "fill")
     \/ (redis[reader[r].dir] = None \/ "redisGet" \in Faults) /\ ReaderGoes(r, "source")
  /\ UNCHANGED <<mode, bucket, indexed, caches, lock, refresher, promised>>

SetLocal(s, d, n) == local' = [local EXCEPT ![s][d] = Entry(n)]

\* SetJSON of what Redis held, with a TTL of its own, or of what the source did.
StoreLocal(r) ==
  /\ reader[r].phase \in {"fill", "store"}
  /\ SetLocal(reader[r].at, reader[r].dir, reader[r].listing)
  /\ ReaderGoes(r, IF reader[r].phase = "fill" THEN "answered" ELSE "share")
  /\ UNCHANGED <<mode, bucket, indexed, redis, lock, refresher, promised>>

\* An error of Redis is only logged.
StoreRedis(r) ==
  /\ reader[r].phase = "share"
  /\ \/ redis' = [redis EXCEPT ![reader[r].dir] = reader[r].listing]
     \/ "redisSet" \in Faults /\ UNCHANGED redis
  /\ ReaderGoes(r, "answered")
  /\ UNCHANGED <<mode, bucket, indexed, local, lock, refresher, promised>>

PublicDetails == mode.details /\ mode.public
Shown(n) == n # None /\ (mode.details => n \notin GoneStates)

\* ListDirectory: the rows of the directory, if it is indexed; StatFile: the row
\* of the file.
ReadIndex(r) ==
  LET d == reader[r].dir
  IN  /\ reader[r].phase = "source" /\ mode.index
      /\ \/ IF Shown(indexed[d]) THEN ReaderGets(r, indexed[d], "store")
            ELSE ReaderGoes(r, IF mode.details THEN "stale" ELSE "below")
         \/ "postgres" \in Faults /\ reader' = [reader EXCEPT ![r] = ReaderIdle]
      /\ UNCHANGED <<mode, bucket, indexed, caches, lock, refresher, promised>>

\* ListSyntheticDirectory: a later query, for the indexed directories below.
ReadBelow(r) ==
  LET d == reader[r].dir
  IN  /\ reader[r].phase = "below"
      /\ \/ IF \E b \in Below(d) \ {d} : indexed[b] # None
            THEN ReaderGets(r, Synthetic, "store") ELSE ReaderGoes(r, "stale")
         \/ "postgres" \in Faults /\ reader' = [reader EXCEPT ![r] = ReaderIdle]
      /\ UNCHANGED <<mode, bucket, indexed, caches, lock, refresher, promised>>

\* storage.List, or Stat, which is an error if there is no such file.
ListBucket(r) ==
  /\ reader[r].phase = "source" /\ ~mode.index /\ ~PublicDetails
  /\ \/ IF Shown(bucket[reader[r].dir]) THEN ReaderGets(r, bucket[reader[r].dir], "store")
                                         ELSE ReaderGoes(r, "stale")
     \/ "bucket" \in Faults /\ ReaderGoes(r, "stale")
  /\ UNCHANGED <<mode, bucket, indexed, caches, lock, refresher, promised>>

\* With a public URL and no index R2 is not asked for the details of a file.
SkipBucket(r) ==
  /\ reader[r].phase = "source" /\ ~mode.index /\ PublicDetails
  /\ ReaderGoes(r, "stale")
  /\ UNCHANGED <<mode, bucket, indexed, caches, lock, refresher, promised>>

\* staleCachedJSON: an entry of the local cache whose TTL is over; without one an
\* empty listing if the index is enabled, the file without metadata if it has a
\* public URL, and an error otherwise.
MUTANT_ReadStale(r) ==
  /\ reader[r].phase = "stale"
  /\ ReaderGets(r, Missing, "store")
  /\ UNCHANGED <<mode, bucket, indexed, caches, lock, refresher, promised>>

ReadStale(r) ==
  LET entry == local[reader[r].at][reader[r].dir]
  IN  /\ reader[r].phase = "stale"
      /\ IF entry # None THEN ReaderGets(r, entry.listing, "answered")
         ELSE IF IF mode.details THEN mode.public ELSE mode.index
              THEN ReaderGets(r, Missing, "answered")
         ELSE reader' = [reader EXCEPT ![r] = ReaderIdle]
      /\ UNCHANGED <<mode, bucket, indexed, caches, lock, refresher, promised>>

EndList(r) == /\ reader[r].phase = "answered"
              /\ reader' = [reader EXCEPT ![r] = ReaderIdle]
              /\ UNCHANGED <<mode, bucket, indexed, caches, lock, refresher, promised>>

-----------------------------------------------------------------------------
(* A refresh: refreshFileCache, and refreshDirectoryIndex it calls where    *)
(* the index is enabled, as the refresher of today and the backfill do.     *)

RefresherGoes(f, phase) == refresher' = [refresher EXCEPT ![f] = [@ EXCEPT !.phase = phase]]

\* Which directories get a new listing: the caches below are cleared, but the
\* index has new rows for the directory only.
Renewed(dir) == IF mode.index THEN {dir} ELSE Below(dir)

\* The order in which the caches are cleared.
MUTANT_Clearings == <<"dropLocal", "dropRedis">>
Clearings == IF mode.index THEN <<"dropLocal", "dropRedis">> ELSE <<"dropRedis", "dropLocal">>

\* A refresh promises what the directories it renews held when it began.
BeginRefresh(f) ==
  /\ refresher[f] = RefresherIdle
  /\ \E s \in Servers, d \in Dirs :
       refresher' = [refresher EXCEPT ![f] =
         [phase |-> IF mode.index THEN "lock" ELSE Clearings[1], at |-> s, dir |-> d,
          listing |-> 0,
          promise |-> [e \in Dirs |-> IF e \in Renewed(d) THEN bucket[e] ELSE Missing]]]
  /\ UNCHANGED <<mode, bucket, indexed, caches, lock, reader, promised>>

\* lockDirectoryIndexRefresh: the lock of the directory on this server.
MUTANT_Lock(f) ==
  /\ refresher[f].phase = "lock"
  /\ RefresherGoes(f, "list")
  /\ UNCHANGED <<mode, bucket, indexed, caches, lock, reader, promised>>

Lock(f) ==
  LET h == refresher[f]
  IN  /\ h.phase = "lock" /\ lock[h.at][h.dir] = None
      /\ lock' = [lock EXCEPT ![h.at][h.dir] = f]
      /\ RefresherGoes(f, "list")
      /\ UNCHANGED <<mode, bucket, indexed, caches, reader, promised>>

\* The deferred unlock, where the index is enabled.
Unlock(f) ==
  LET h == refresher[f]
  IN  lock' = IF mode.index THEN [lock EXCEPT ![h.at][h.dir] = None] ELSE lock

Later(m, n) == IF m >= n THEN m ELSE n

\* The refresh is answered with ok, and its promise is given.
Acknowledge(f, promise) ==
  /\ refresher' = [refresher EXCEPT ![f] = RefresherIdle]
  /\ promised' = [d \in Dirs |-> Later(promised[d], promise[d])]

\* An error answer.
MUTANT_Fail(f) == refresher' = [refresher EXCEPT ![f] = RefresherIdle] /\ UNCHANGED lock

Fail(f) == refresher' = [refresher EXCEPT ![f] = RefresherIdle] /\ Unlock(f)

ListForIndex(f) ==
  /\ refresher[f].phase = "list"
  /\ \/ /\ refresher' = [refresher EXCEPT ![f] =
             [@ EXCEPT !.phase = "replace", !.listing = bucket[refresher[f].dir]]]
        /\ UNCHANGED lock
     \/ "bucket" \in Faults /\ Fail(f)
  /\ UNCHANGED <<mode, bucket, indexed, caches, reader, promised>>

\* ReplaceDirectory, in one transaction.  An empty listing keeps the rows that
\* are there: the refresh is answered with indexed = false, and clears no cache.
\* A transaction that fails may have been committed.
MUTANT_Replace(f) ==
  LET h == refresher[f]
  IN  /\ h.phase = "replace" /\ h.listing \notin EmptyStates
      /\ indexed' = [indexed EXCEPT ![h.dir] = h.listing]
      /\ RefresherGoes(f, "dropLocal") /\ Unlock(f)
      /\ UNCHANGED <<mode, bucket, caches, reader, promised>>

Replace(f) ==
  LET h == refresher[f]
  IN  /\ h.phase = "replace"
      /\ \/ /\ h.listing \in EmptyStates
            /\ refresher' = [refresher EXCEPT ![f] = RefresherIdle] /\ Unlock(f)
            /\ UNCHANGED <<mode, indexed, promised>>
         \/ /\ h.listing \notin EmptyStates
            /\ indexed' = [indexed EXCEPT ![h.dir] = h.listing]
            /\ RefresherGoes(f, Clearings[1])
            /\ UNCHANGED <<mode, lock, promised>>
         \/ /\ "postgres" \in Faults /\ h.listing \notin EmptyStates
            /\ indexed' \in {indexed, [indexed EXCEPT ![h.dir] = h.listing]}
            /\ Fail(f) /\ UNCHANGED promised
      /\ UNCHANGED <<mode, bucket, caches, reader>>

\* A cache is cleared: the other is next, or the listing is stored if there is an
\* index, or the refresh is answered.
Cleared(f, promise) ==
  LET h == refresher[f]
      next == IF h.phase = Clearings[1] THEN Clearings[2] ELSE "storeLocal"
  IN  IF h.phase = Clearings[2] /\ ~mode.index
      THEN Acknowledge(f, promise)
      ELSE /\ refresher' = [refresher EXCEPT ![f] = [@ EXCEPT !.phase = next, !.promise = promise]]
           /\ UNCHANGED promised

\* DeletePatterns: the entries of this server for the directory and all below.
DropLocal(f) ==
  LET h == refresher[f]
  IN  /\ h.phase = "dropLocal"
      /\ local' = [local EXCEPT ![h.at] = [d \in Dirs |-> IF d \in Below(h.dir) THEN None ELSE @[d]]]
      /\ Cleared(f, h.promise)
      /\ UNCHANGED <<mode, bucket, indexed, redis, lock, reader>>

\* A request has read what it will store, or will conclude what to store from it.
Holding(r) == reader[r].phase \in {"fill", "below", "store", "share"}

\* No promise is made of a directory for which, when Redis is cleared, a request
\* holds what it read before, nor of files whose details a request has put in the
\* local cache between the clearings of a refresh with the index.
Undercut(h, d) ==
  \/ "held" \notin Counted /\ \E r \in Readers : Holding(r) /\ reader[r].dir = d
  \/ "refilled" \notin Counted /\ mode.index /\ mode.details /\ local[h.at][d] # None

\* DeleteCachePatterns: a SCAN and DEL of the keys found, which may fail half way.
\* That ends a refresh without index, and is only logged by one with: its listing
\* is stored next, but old entries may stay in Redis, so that it promises none.
DropRedis(f) ==
  LET h == refresher[f]
  IN  /\ h.phase = "dropRedis"
      /\ \/ /\ redis' = [d \in Dirs |-> IF d \in Below(h.dir) THEN None ELSE redis[d]]
            /\ Cleared(f, [d \in Dirs |-> IF Undercut(h, d) THEN Missing ELSE h.promise[d]])
         \/ /\ "redisDel" \in Faults
            /\ \E some \in SUBSET Below(h.dir) :
                 redis' = [d \in Dirs |-> IF d \in some THEN None ELSE redis[d]]
            /\ IF mode.index THEN Cleared(f, [d \in Dirs |-> Missing])
               ELSE refresher' = [refresher EXCEPT ![f] = RefresherIdle] /\ UNCHANGED promised
      /\ UNCHANGED <<mode, bucket, indexed, local, lock, reader>>

\* storeCachedJSONContext of the listing, then the answer.
RefreshStoresLocal(f) ==
  LET h == refresher[f]
  IN  /\ h.phase = "storeLocal"
      /\ IF mode.details THEN UNCHANGED local ELSE SetLocal(h.at, h.dir, h.listing)
      /\ RefresherGoes(f, "storeRedis")
      /\ UNCHANGED <<mode, bucket, indexed, redis, lock, reader, promised>>

RefreshStoresRedis(f) ==
  LET h == refresher[f]
  IN  /\ h.phase = "storeRedis"
      /\ \/ ~mode.details /\ redis' = [redis EXCEPT ![h.dir] = h.listing]
         \/ (mode.details \/ "redisSet" \in Faults) /\ UNCHANGED redis
      /\ Acknowledge(f, h.promise) /\ Unlock(f)
      /\ UNCHANGED <<mode, bucket, indexed, local, reader>>

-----------------------------------------------------------------------------
(* The bucket, and time.                                                    *)

\* Files of a directory are uploaded, replaced or removed, by other programs.
BucketChanges(d) == /\ bucket[d] < MaxChanges
                    /\ bucket' = [bucket EXCEPT ![d] = @ + 1]
                    /\ UNCHANGED <<mode, indexed, caches, lock, reader, refresher, promised>>

\* PANSHOW_R2_CACHE_TTL_SECONDS is over, in the local cache or in Redis.
LocalExpires(s, d) ==
  /\ Fresh(local[s][d])
  /\ local' = [local EXCEPT ![s][d] = [@ EXCEPT !.fresh = FALSE]]
  /\ UNCHANGED <<mode, bucket, indexed, redis, lock, reader, refresher, promised>>

MUTANT_RedisExpires(d) == FALSE /\ d \in Dirs /\ UNCHANGED vars

RedisExpires(d) ==
  /\ redis[d] # None
  /\ redis' = [redis EXCEPT ![d] = None]
  /\ UNCHANGED <<mode, bucket, indexed, local, lock, reader, refresher, promised>>

\* PANSHOW_R2_STALE_CACHE_TTL_SECONDS is over, or the cache is at its limit.
LocalGoes(s, d) ==
  /\ local[s][d] # None
  /\ local' = [local EXCEPT ![s][d] = None]
  /\ UNCHANGED <<mode, bucket, indexed, redis, lock, reader, refresher, promised>>

-----------------------------------------------------------------------------
ReaderStep(r) == \/ ReadLocal(r) \/ ReadRedis(r) \/ StoreLocal(r) \/ StoreRedis(r)
                 \/ ReadIndex(r) \/ ReadBelow(r) \/ ListBucket(r) \/ SkipBucket(r) \/ ReadStale(r) \/ EndList(r)
RefresherStep(f) ==
  \/ ListForIndex(f) \/ Replace(f) \/ DropLocal(f) \/ DropRedis(f)
  \/ RefreshStoresLocal(f) \/ RefreshStoresRedis(f)

Next == \/ \E r \in Readers : BeginList(r) \/ ReaderStep(r)
        \/ \E f \in Refreshers : BeginRefresh(f) \/ Lock(f) \/ RefresherStep(f)
        \/ \E d \in Dirs : BucketChanges(d) \/ RedisExpires(d)
        \/ \E s \in Servers, d \in Dirs : LocalExpires(s, d) \/ LocalGoes(s, d)

Spec == Init /\ [][Next]_vars

\* A handler that can go on does, a waiting one gets the lock in the end, and
\* time passes.  Nobody has to send a request, and no call has to fail.
Fairness == /\ \A r \in Readers : WF_vars(ReaderStep(r))
            /\ \A f \in Refreshers : WF_vars(RefresherStep(f)) /\ SF_vars(Lock(f))
            /\ \A d \in Dirs : WF_vars(RedisExpires(d))
            /\ \A s \in Servers, d \in Dirs : WF_vars(LocalExpires(s, d)) /\ WF_vars(LocalGoes(s, d))

FairSpec == Spec /\ Fairness

-----------------------------------------------------------------------------
(* Properties.                                                              *)

Listings == Nat \cup {Synthetic, Missing}
Promise == Nat \cup {Missing}
LocalEntry == [listing: Nat \cup {Synthetic}, fresh: BOOLEAN]
ReaderType ==
  [phase: {"local", "redis", "fill", "source", "below", "store", "share", "stale", "answered"},
   at: Servers, dir: Dirs, listing: Listings, promised: Promise]
RefresherType ==
  [phase: {"lock", "list", "replace", "dropLocal", "dropRedis", "storeLocal", "storeRedis"},
   at: Servers, dir: Dirs, listing: Nat, promise: [Dirs -> Promise]]

StoresType ==
  /\ mode \in Mode /\ bucket \in [Dirs -> Nat] /\ indexed \in [Dirs -> Nat \cup {None}]
  /\ redis \in [Dirs -> Nat \cup {Synthetic, None}]
  /\ local \in [Servers -> [Dirs -> LocalEntry \cup {None}]]
  /\ promised \in [Dirs -> Promise]

HandlersType ==
  /\ lock \in [Servers -> [Dirs -> Refreshers \cup {None}]]
  /\ reader \in [Readers -> ReaderType \cup {ReaderIdle}]
  /\ refresher \in [Refreshers -> RefresherType \cup {RefresherIdle}]
  /\ \A r \in Readers : reader[r].phase \in {"fill", "store", "share"} => reader[r].listing # Missing

\* Every variable has its type; what may be stored in a cache is a listing.
TypeOK == StoresType /\ HandlersType

Answered(r) == reader[r].phase = "answered"

\* After a refresh has been answered, a request shows each directory it renewed,
\* and the files in it, at least as they were when the refresh began, with any
\* call failing, other refreshes under way and requests at every step
\* (README.md:57).  Clearing this server's cache before Redis where nothing is
\* stored afterwards, or leaving one out, would let old data flow back to a later
\* request (router.go:456-460; file_index.go:297-303).  README.md:57 promises it
\* of every refresh.  It holds of one server, as the caches of the others are not
\* cleared, and with Counted empty: without the two cases of Undercut, in which
\* the code lets old data survive.
RefreshSeen ==
  \A r \in Readers : Answered(r) =>
    \/ reader[r].listing >= reader[r].promised
    \/ mode.details /\ reader[r].listing = Missing

\* On one server the rows of a directory are never replaced by older ones: the
\* lock keeps listing and replacing together (file_index.go:277-288).
IndexMovesForward ==
  [][\A d \in Dirs : indexed[d] # None => indexed'[d] >= indexed[d]]_indexed

\* What a request shows once the caches are left to themselves.
Source(d) ==
  LET n == IF mode.index THEN indexed[d] ELSE bucket[d]
  IN  IF mode.details /\ (~Shown(n) \/ (mode.public /\ ~mode.index)) THEN Missing ELSE n

\* When the bucket no longer changes, every answer comes to be the one of the
\* source: no cache keeps an old listing for ever, although each refills the
\* other and a stale entry is used when the bucket cannot be read
\* (router.go:1286, 290; r2_cache.go:46-56).
EventuallyCurrent ==
  <>[](\A r \in Readers : Answered(r) /\ Source(reader[r].dir) # None
         => reader[r].listing = Source(reader[r].dir))

\* Every refresh is answered, also when others of the directory wait for its
\* lock and when a call fails.
RefreshesEnd == \A f \in Refreshers : refresher[f] # RefresherIdle ~> refresher[f] = RefresherIdle
=============================================================================
