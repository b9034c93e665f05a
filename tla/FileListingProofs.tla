------------------------- MODULE FileListingProofs -------------------------
(***************************************************************************)
(* Proofs about FileListing for every number of requests, refreshes,       *)
(* directories and changes, and for every mode.                            *)
(***************************************************************************)
EXTENDS FileListing, TLAPS

\* A handler of a refresh is past the lock; it has replaced the rows.
Working(f) == refresher[f].phase \notin {"idle", "lock"}
Replaced(f) == refresher[f].phase \in {"dropLocal", "dropRedis", "storeLocal", "storeRedis"}

-----------------------------------------------------------------------------
(* Types.                                                                   *)

\* A request that goes on, and one that goes on with a listing.
LEMMA ReaderGoesFacts ==
  ASSUME HandlersType, NEW r \in Readers, InFlight(r), NEW phase, ReaderGoes(r, phase)
  PROVE  /\ reader[r] \in ReaderType /\ DOMAIN reader' = Readers
         /\ reader' = [x \in Readers |-> reader'[x]]
         /\ \A x \in Readers : x # r => reader'[x] = reader[x]
         /\ reader'[r] = [reader[r] EXCEPT !.phase = phase]
         /\ reader'[r].phase = phase /\ reader'[r].listing = reader[r].listing
         /\ reader'[r].at = reader[r].at /\ reader'[r].dir = reader[r].dir
         /\ reader'[r].promised = reader[r].promised
         /\ (phase \in {"local", "redis", "fill", "source", "below", "store", "share", "stale", "answered"}
             => reader'[r] \in ReaderType)
<1>1. reader[r] \in ReaderType
  BY DEF HandlersType, InFlight, ReaderIdle
<1>2. /\ reader' = [reader EXCEPT ![r] = [reader[r] EXCEPT !.phase = phase]]
      /\ reader \in [Readers -> ReaderType \cup {ReaderIdle}]
  BY DEF ReaderGoes, HandlersType
<1>3. PICK q \in ReaderType : q = reader[r]
  BY <1>1
<1>4. LET w == [q EXCEPT !.phase = phase]
      IN  /\ w.phase = phase /\ w.listing = q.listing /\ w.at = q.at /\ w.dir = q.dir
          /\ w.promised = q.promised
          /\ (phase \in {"local", "redis", "fill", "source", "below", "store", "share", "stale", "answered"}
              => w \in ReaderType)
  BY DEF ReaderType
<1> QED
  BY <1>1, <1>2, <1>3, <1>4

LEMMA ReaderGetsFacts ==
  ASSUME HandlersType, NEW r \in Readers, InFlight(r), NEW n, NEW phase, ReaderGets(r, n, phase)
  PROVE  /\ reader[r] \in ReaderType /\ DOMAIN reader' = Readers
         /\ reader' = [x \in Readers |-> reader'[x]]
         /\ \A x \in Readers : x # r => reader'[x] = reader[x]
         /\ reader'[r].phase = phase /\ reader'[r].listing = n
         /\ reader'[r].at = reader[r].at /\ reader'[r].dir = reader[r].dir
         /\ reader'[r].promised = reader[r].promised
         /\ (/\ phase \in {"local", "redis", "fill", "source", "below", "store", "share", "stale", "answered"}
             /\ n \in Listings
             => reader'[r] \in ReaderType)
<1>1. reader[r] \in ReaderType
  BY DEF HandlersType, InFlight, ReaderIdle
<1>2. /\ reader' = [reader EXCEPT ![r] = [reader[r] EXCEPT !.phase = phase, !.listing = n]]
      /\ reader \in [Readers -> ReaderType \cup {ReaderIdle}]
  BY DEF ReaderGets, HandlersType
<1>3. PICK q \in ReaderType : q = reader[r]
  BY <1>1
<1>4. LET w == [q EXCEPT !.phase = phase, !.listing = n]
      IN  /\ w.phase = phase /\ w.listing = n /\ w.at = q.at /\ w.dir = q.dir
          /\ w.promised = q.promised
          /\ (/\ phase \in {"local", "redis", "fill", "source", "below", "store", "share", "stale", "answered"}
              /\ n \in Listings
              => w \in ReaderType)
  BY DEF ReaderType
<1> QED
  BY <1>1, <1>2, <1>3, <1>4

\* A refresh that goes on.
LEMMA RefresherGoesFacts ==
  ASSUME HandlersType, NEW f \in Refreshers, refresher[f] # RefresherIdle, NEW phase,
         RefresherGoes(f, phase)
  PROVE  /\ refresher[f] \in RefresherType
         /\ refresher' = [x \in Refreshers |-> refresher'[x]]
         /\ \A x \in Refreshers : x # f => refresher'[x] = refresher[x]
         /\ refresher'[f].phase = phase /\ refresher'[f].listing = refresher[f].listing
         /\ refresher'[f].at = refresher[f].at /\ refresher'[f].dir = refresher[f].dir
         /\ refresher'[f].promise = refresher[f].promise
         /\ (phase \in {"lock", "list", "replace", "dropLocal", "dropRedis", "storeLocal", "storeRedis"}
             => refresher'[f] \in RefresherType)
<1>1. refresher[f] \in RefresherType
  BY DEF HandlersType
<1>2. /\ refresher' = [refresher EXCEPT ![f] = [refresher[f] EXCEPT !.phase = phase]]
      /\ refresher \in [Refreshers -> RefresherType \cup {RefresherIdle}]
  BY DEF RefresherGoes, HandlersType
<1>3. PICK q \in RefresherType : q = refresher[f]
  BY <1>1
<1>4. LET w == [q EXCEPT !.phase = phase]
      IN  /\ w.phase = phase /\ w.listing = q.listing /\ w.at = q.at /\ w.dir = q.dir
          /\ w.promise = q.promise
          /\ (phase \in {"lock", "list", "replace", "dropLocal", "dropRedis", "storeLocal", "storeRedis"}
              => w \in RefresherType)
  BY DEF RefresherType
<1> QED
  BY <1>1, <1>2, <1>3, <1>4

\* A refresh that ends, with an answer or with an error.
LEMMA RefresherEndsFacts ==
  ASSUME HandlersType, NEW f \in Refreshers,
         refresher' = [refresher EXCEPT ![f] = RefresherIdle]
  PROVE  /\ refresher' = [x \in Refreshers |-> refresher'[x]]
         /\ \A x \in Refreshers : x # f => refresher'[x] = refresher[x]
         /\ refresher'[f] = RefresherIdle /\ refresher'[f].phase = "idle"
         /\ refresher' \in [Refreshers -> RefresherType \cup {RefresherIdle}]
  BY DEF HandlersType, RefresherIdle

\* The order in which the caches are cleared.
LEMMA Order ==
  /\ mode.index => Clearings[1] = "dropLocal" /\ Clearings[2] = "dropRedis"
  /\ ~mode.index => Clearings[1] = "dropRedis" /\ Clearings[2] = "dropLocal"
  BY DEF Clearings

\* A refresh that has cleared a cache goes on, or is answered.
LEMMA ClearedFacts ==
  ASSUME HandlersType, NEW f \in Refreshers, refresher[f] \in RefresherType,
         refresher[f].phase \in {"dropLocal", "dropRedis"},
         NEW p \in [Dirs -> Promise], Cleared(f, p)
  PROVE  \/ /\ ~mode.index /\ refresher[f].phase = "dropLocal" /\ Acknowledge(f, p)
         \/ /\ mode.index \/ refresher[f].phase = "dropRedis"
            /\ UNCHANGED promised
            /\ refresher' = [x \in Refreshers |-> refresher'[x]]
            /\ \A x \in Refreshers : x # f => refresher'[x] = refresher[x]
            /\ refresher'[f] \in RefresherType
            /\ refresher'[f].phase = IF refresher[f].phase = "dropLocal" THEN "dropRedis"
                                     ELSE IF mode.index THEN "storeLocal" ELSE "dropLocal"
            /\ refresher'[f].listing = refresher[f].listing
            /\ refresher'[f].at = refresher[f].at /\ refresher'[f].dir = refresher[f].dir
            /\ refresher'[f].promise = p
<1> DEFINE next == IF refresher[f].phase = Clearings[1] THEN Clearings[2] ELSE "storeLocal"
<1>1. \/ ~mode.index /\ refresher[f].phase = "dropLocal"
      \/ next = IF refresher[f].phase = "dropLocal" THEN "dropRedis"
                ELSE IF mode.index THEN "storeLocal" ELSE "dropLocal"
  BY Order
<1>2. CASE ~mode.index /\ refresher[f].phase = "dropLocal"
  BY <1>2, Order DEF Cleared
<1>3. CASE mode.index \/ refresher[f].phase = "dropRedis"
  <2>1. /\ refresher' = [refresher EXCEPT ![f] = [@ EXCEPT !.phase = next, !.promise = p]]
        /\ UNCHANGED promised
    BY <1>3, Order DEF Cleared
  <2>2. next \in {"dropRedis", "dropLocal", "storeLocal"}
    BY Order
  <2> HIDE DEF next
  <2>3. PICK q \in RefresherType : q = refresher[f]
    OBVIOUS
  <2>4. LET w == [q EXCEPT !.phase = next, !.promise = p]
        IN  /\ w \in RefresherType /\ w.phase = next /\ w.promise = p
            /\ w.listing = q.listing /\ w.at = q.at /\ w.dir = q.dir
    BY <2>2 DEF RefresherType
  <2>5. /\ \A x \in Refreshers : x # f => refresher'[x] = refresher[x]
        /\ refresher' = [x \in Refreshers |-> refresher'[x]]
        /\ refresher'[f] = [q EXCEPT !.phase = next, !.promise = p]
    BY <2>1, <2>3 DEF HandlersType
  <2> QED
    BY <1>1, <1>3, <2>1, <2>3, <2>4, <2>5
<1> QED
  BY <1>2, <1>3

\* A handler that is not idle has the fields of one that runs.
LEMMA Fields ==
  ASSUME TypeOK
  PROVE  /\ \A r \in Readers : reader[r].phase # "idle" =>
              /\ reader[r] \in ReaderType /\ reader[r].at \in Servers /\ reader[r].dir \in Dirs
              /\ reader[r].listing \in Listings /\ reader[r].promised \in Promise
         /\ \A f \in Refreshers : refresher[f].phase # "idle" =>
              /\ refresher[f] # RefresherIdle
              /\ refresher[f] \in RefresherType /\ refresher[f].at \in Servers
              /\ refresher[f].dir \in Dirs /\ refresher[f].listing \in Nat
              /\ refresher[f].promise \in [Dirs -> Promise]
<1>1. ASSUME NEW r \in Readers, reader[r].phase # "idle"
      PROVE  reader[r] \in ReaderType
  BY <1>1 DEF TypeOK, HandlersType, ReaderIdle
<1>2. ASSUME NEW f \in Refreshers, refresher[f].phase # "idle"
      PROVE  refresher[f] \in RefresherType
  BY <1>2 DEF TypeOK, HandlersType, RefresherIdle
<1>3. ASSUME NEW f \in Refreshers, refresher[f].phase # "idle"
      PROVE  refresher[f] # RefresherIdle
  BY <1>3 DEF RefresherIdle
<1> QED
  BY <1>1, <1>2, <1>3 DEF ReaderType, RefresherType

\* The initial state is well typed.
LEMMA InitType == Init => TypeOK
  BY ModeAssumption DEF Init, TypeOK, StoresType, HandlersType, Promise, ReaderIdle

\* The steps of requests.
LEMMA ReaderTypeStep ==
  ASSUME TypeOK, NEW r \in Readers
  PROVE  BeginList(r) \/ ReaderStep(r) => TypeOK'
<1> USE DEF TypeOK
<1>0. UNCHANGED <<mode, bucket, indexed, promised>> /\ redis' \in [Dirs -> Nat \cup {Synthetic, None}]
      /\ local' \in [Servers -> [Dirs -> LocalEntry \cup {None}]] => StoresType'
  BY DEF StoresType
<1>1. CASE BeginList(r)
  <2>1. PICK s \in Servers, d \in Dirs :
          reader' = [reader EXCEPT ![r] =
            [phase |-> "local", at |-> s, dir |-> d, listing |-> 0, promised |-> promised[d]]]
    BY <1>1 DEF BeginList
  <2>2. [phase |-> "local", at |-> s, dir |-> d, listing |-> 0, promised |-> promised[d]] \in ReaderType
    BY DEF ReaderType, StoresType, Listings
  <2>3. \A x \in Readers : reader'[x].phase \in {"fill", "store", "share"} => reader'[x].listing # Missing
    BY <2>1 DEF HandlersType
  <2>4. reader' \in [Readers -> ReaderType \cup {ReaderIdle}]
    BY <2>1, <2>2 DEF HandlersType
  <2> QED
    BY <1>1, <2>3, <2>4 DEF BeginList, StoresType, HandlersType, caches
<1>2. ASSUME NEW n \in Listings, NEW phase \in {"fill", "store", "stale", "answered", "below", "source", "share"},
             InFlight(r), ReaderGets(r, n, phase), n = Missing => phase = "answered",
             UNCHANGED <<lock, refresher>>
      PROVE  HandlersType'
  <2>1. reader' \in [Readers -> ReaderType \cup {ReaderIdle}]
    BY <1>2, ReaderGetsFacts DEF HandlersType
  <2>2. \A x \in Readers : reader'[x].phase \in {"fill", "store", "share"} => reader'[x].listing # Missing
    BY <1>2, ReaderGetsFacts DEF HandlersType
  <2> QED
    BY <1>2, <2>1, <2>2 DEF HandlersType
<1>3. ASSUME NEW phase \in {"redis", "stale", "answered", "below", "source", "share"},
             InFlight(r), ReaderGoes(r, phase), phase = "share" => reader[r].listing # Missing,
             UNCHANGED <<lock, refresher>>
      PROVE  HandlersType'
  <2>1. reader' \in [Readers -> ReaderType \cup {ReaderIdle}]
    BY <1>3, ReaderGoesFacts DEF HandlersType
  <2>2. \A x \in Readers : reader'[x].phase \in {"fill", "store", "share"} => reader'[x].listing # Missing
    <3>1. /\ \A x \in Readers : x # r => reader'[x] = reader[x]
          /\ reader'[r].phase = phase /\ reader'[r].listing = reader[r].listing
      BY <1>3, ReaderGoesFacts
    <3> QED
      BY <1>3, <3>1 DEF HandlersType
  <2> QED
    BY <1>3, <2>1, <2>2 DEF HandlersType
<1>4. ASSUME reader' = [reader EXCEPT ![r] = ReaderIdle], UNCHANGED <<lock, refresher>>
      PROVE  HandlersType'
  BY <1>4 DEF HandlersType, ReaderIdle
<1>5. reader[r].phase \notin {"idle", "answered"} =>
        /\ InFlight(r) /\ reader[r].dir \in Dirs /\ reader[r].at \in Servers /\ reader[r].listing \in Listings
  BY Fields DEF InFlight
<1>6. CASE ReadLocal(r)
  <2> DEFINE entry == local[reader[r].at][reader[r].dir]
  <2>1. InFlight(r) /\ entry \in LocalEntry \cup {None}
    BY <1>5, <1>6 DEF ReadLocal, StoresType
  <2>2. CASE Fresh(entry)
    <3>1. entry.listing \in Listings \ {Missing}
      BY <2>1, <2>2 DEF Fresh, LocalEntry, Listings, Synthetic, Missing
    <3> QED
      BY <1>0, <1>2, <1>6, <2>1, <2>2, <3>1 DEF ReadLocal, StoresType, caches
  <2> QED
    BY <1>0, <1>3, <1>6, <2>1, <2>2 DEF ReadLocal, StoresType, caches
<1>7. CASE ReadRedis(r)
  <2>1. InFlight(r) /\ redis[reader[r].dir] \in Nat \cup {Synthetic, None}
    BY <1>5, <1>7 DEF ReadRedis, StoresType
  <2>2. CASE redis[reader[r].dir] # None /\ ReaderGets(r, redis[reader[r].dir], "fill")
    <3>1. redis[reader[r].dir] \in Listings \ {Missing}
      BY <2>1, <2>2 DEF Listings, Synthetic, Missing
    <3> QED
      BY <1>0, <1>2, <1>7, <2>1, <2>2, <3>1 DEF ReadRedis, StoresType, caches
  <2> QED
    BY <1>0, <1>3, <1>7, <2>1, <2>2 DEF ReadRedis, StoresType, caches
<1>8. CASE StoreLocal(r)
  <2>1. InFlight(r) /\ reader[r].listing \in Nat \cup {Synthetic}
    BY <1>5, <1>8 DEF StoreLocal, HandlersType, Listings
  <2>2. Entry(reader[r].listing) \in LocalEntry
    BY <2>1 DEF Entry, LocalEntry
  <2>3. StoresType'
    BY <1>0, <1>5, <1>8, <2>2 DEF StoreLocal, SetLocal, StoresType
  <2>4. HandlersType'
    BY <1>3, <1>8, <2>1 DEF StoreLocal, Missing, Synthetic
  <2> QED
    BY <2>3, <2>4
<1>9. CASE StoreRedis(r)
  <2>1. InFlight(r) /\ reader[r].listing \in Nat \cup {Synthetic}
    BY <1>5, <1>9 DEF StoreRedis, HandlersType, Listings
  <2>2. redis' \in [Dirs -> Nat \cup {Synthetic, None}]
    BY <1>5, <1>9, <2>1 DEF StoreRedis, StoresType
  <2> QED
    BY <1>0, <1>3, <1>9, <2>1, <2>2 DEF StoreRedis, StoresType
<1>10. CASE ReadIndex(r) \/ ListBucket(r)
  <2>1. /\ InFlight(r) /\ indexed[reader[r].dir] \in Nat \cup {None} /\ bucket[reader[r].dir] \in Nat
        /\ UNCHANGED <<mode, bucket, indexed, redis, local, lock, refresher, promised>>
    BY <1>5, <1>10 DEF ReadIndex, ListBucket, StoresType, caches
  <2>2. \/ \E n \in Nat : ReaderGets(r, n, "store")
        \/ \E phase \in {"stale", "below"} : ReaderGoes(r, phase)
        \/ reader' = [reader EXCEPT ![r] = ReaderIdle]
    BY <1>10, <2>1 DEF ReadIndex, ListBucket, Shown
  <2>3. HandlersType'
    BY <1>2, <1>3, <1>4, <2>1, <2>2 DEF Listings, Missing
  <2> QED
    BY <1>0, <2>1, <2>3 DEF StoresType
<1>11. CASE ReadBelow(r) \/ SkipBucket(r) \/ EndList(r)
  <2>1. UNCHANGED <<mode, bucket, indexed, redis, local, lock, refresher, promised>>
    BY <1>11 DEF ReadBelow, SkipBucket, EndList, caches
  <2>2. \/ ReaderGets(r, Synthetic, "store") /\ InFlight(r)
        \/ ReaderGoes(r, "stale") /\ InFlight(r)
        \/ reader' = [reader EXCEPT ![r] = ReaderIdle]
    BY <1>5, <1>11 DEF ReadBelow, SkipBucket, EndList
  <2>3. HandlersType'
    BY <1>2, <1>3, <1>4, <2>1, <2>2 DEF Listings, Missing, Synthetic
  <2> QED
    BY <1>0, <2>1, <2>3 DEF StoresType
<1>12. CASE ReadStale(r)
  <2> DEFINE entry == local[reader[r].at][reader[r].dir]
  <2>1. InFlight(r) /\ entry \in LocalEntry \cup {None}
    BY <1>5, <1>12 DEF ReadStale, StoresType
  <2>2. entry # None => entry.listing \in Listings
    BY <2>1 DEF LocalEntry, Listings
  <2>3. \/ \E n \in Listings : ReaderGets(r, n, "answered")
        \/ reader' = [reader EXCEPT ![r] = ReaderIdle]
    BY <1>12, <2>2 DEF ReadStale, Listings
  <2>4. HandlersType'
    BY <1>2, <1>4, <1>12, <2>1, <2>3 DEF ReadStale
  <2> QED
    BY <1>0, <1>12, <2>4 DEF ReadStale, StoresType, caches
<1> QED
  BY <1>1, <1>6, <1>7, <1>8, <1>9, <1>10, <1>11, <1>12 DEF ReaderStep

\* The steps of refreshes.
LEMMA RefresherTypeStep ==
  ASSUME TypeOK, NEW f \in Refreshers
  PROVE  BeginRefresh(f) \/ Lock(f) \/ RefresherStep(f) => TypeOK'
<1> USE DEF TypeOK
<1>1. ASSUME NEW phase \in {"list", "dropLocal", "dropRedis", "storeLocal", "storeRedis"},
             refresher[f].phase # "idle", RefresherGoes(f, phase), UNCHANGED reader,
             lock' \in [Servers -> [Dirs -> Refreshers \cup {None}]]
      PROVE  HandlersType'
  <2>1. refresher' \in [Refreshers -> RefresherType \cup {RefresherIdle}]
    BY <1>1, Fields, RefresherGoesFacts DEF HandlersType
  <2> QED
    BY <1>1, <2>1 DEF HandlersType
<1>2. lock \in [Servers -> [Dirs -> Refreshers \cup {None}]]
  BY DEF HandlersType
<1>3. refresher[f].phase # "idle" /\ Unlock(f)
      => lock' \in [Servers -> [Dirs -> Refreshers \cup {None}]]
  BY <1>2, Fields DEF Unlock
<1>4. ASSUME refresher[f].phase # "idle", refresher' = [refresher EXCEPT ![f] = RefresherIdle],
             UNCHANGED reader, Unlock(f) \/ UNCHANGED lock
      PROVE  HandlersType'
  BY <1>2, <1>3, <1>4, RefresherEndsFacts DEF HandlersType
<1>5. refresher[f].phase # "idle" =>
        /\ refresher[f] \in RefresherType
        /\ refresher[f].at \in Servers /\ refresher[f].dir \in Dirs /\ refresher[f].listing \in Nat
        /\ refresher[f].promise \in [Dirs -> Promise]
  BY Fields
<1>6. \A p \in [Dirs -> Promise] : Acknowledge(f, p) => promised' \in [Dirs -> Promise]
  BY DEF Acknowledge, Later, StoresType
<1>15. ASSUME refresher[f].phase \in {"dropLocal", "dropRedis"}, UNCHANGED <<reader, lock>>,
              NEW p \in [Dirs -> Promise], Cleared(f, p)
       PROVE  HandlersType' /\ promised' \in [Dirs -> Promise]
  <2>1. HandlersType /\ refresher[f] \in RefresherType
    BY <1>5, <1>15
  <2>2. CASE Acknowledge(f, p)
    BY <1>4, <1>6, <1>15, <2>2 DEF Acknowledge
  <2>3. CASE /\ UNCHANGED promised /\ refresher' = [x \in Refreshers |-> refresher'[x]]
             /\ \A x \in Refreshers : x # f => refresher'[x] = refresher[x]
             /\ refresher'[f] \in RefresherType
    <3>1. refresher' \in [Refreshers -> RefresherType \cup {RefresherIdle}]
      BY <2>3 DEF HandlersType
    <3> QED
      BY <1>15, <2>3, <3>1 DEF HandlersType, StoresType
  <2> QED
    BY <1>15, <2>1, <2>2, <2>3, ClearedFacts
<1>7. CASE BeginRefresh(f)
  <2>1. PICK s \in Servers, d \in Dirs :
          refresher' = [refresher EXCEPT ![f] =
            [phase |-> IF mode.index THEN "lock" ELSE Clearings[1], at |-> s, dir |-> d, listing |-> 0,
             promise |-> [e \in Dirs |-> IF e \in Renewed(d) THEN bucket[e] ELSE Missing]]]
    BY <1>7 DEF BeginRefresh
  <2>2. [e \in Dirs |-> IF e \in Renewed(d) THEN bucket[e] ELSE Missing] \in [Dirs -> Promise]
    BY DEF StoresType, Promise
  <2>3. [phase |-> IF mode.index THEN "lock" ELSE Clearings[1], at |-> s, dir |-> d, listing |-> 0,
         promise |-> [e \in Dirs |-> IF e \in Renewed(d) THEN bucket[e] ELSE Missing]] \in RefresherType
    BY <2>2, Order DEF RefresherType
  <2>4. refresher' \in [Refreshers -> RefresherType \cup {RefresherIdle}]
    BY <2>1, <2>3 DEF HandlersType
  <2> QED
    BY <1>7, <2>4 DEF BeginRefresh, StoresType, HandlersType, caches
<1>8. CASE Lock(f)
  <2>1. lock' \in [Servers -> [Dirs -> Refreshers \cup {None}]]
    BY <1>2, <1>5, <1>8 DEF Lock
  <2>2. HandlersType'
    BY <1>1, <1>8, <2>1 DEF Lock
  <2> QED
    BY <1>8, <2>2 DEF Lock, StoresType, caches
<1>9. CASE ListForIndex(f)
  <2>1. HandlersType'
    <3>1. CASE Fail(f)
      BY <1>4, <1>9, <3>1 DEF ListForIndex, Fail
    <3>2. CASE /\ refresher' = [refresher EXCEPT ![f] =
                    [@ EXCEPT !.phase = "replace", !.listing = bucket[refresher[f].dir]]]
               /\ UNCHANGED lock
      <4>1. PICK q \in RefresherType, n \in Nat : q = refresher[f] /\ n = bucket[refresher[f].dir]
        BY <1>5, <1>9 DEF ListForIndex, StoresType
      <4>2. [q EXCEPT !.phase = "replace", !.listing = n] \in RefresherType
        BY DEF RefresherType
      <4>3. refresher' \in [Refreshers -> RefresherType \cup {RefresherIdle}]
        BY <3>2, <4>1, <4>2 DEF HandlersType
      <4> QED
        BY <1>9, <3>2, <4>3 DEF ListForIndex, HandlersType
    <3> QED
      BY <1>9, <3>1, <3>2 DEF ListForIndex
  <2> QED
    BY <1>9, <2>1 DEF ListForIndex, StoresType, caches
<1>10. CASE Replace(f)
  <2>1. indexed' \in [Dirs -> Nat \cup {None}]
    BY <1>5, <1>10 DEF Replace, StoresType
  <2>2. HandlersType'
    BY <1>1, <1>2, <1>4, <1>10, Order DEF Replace, Fail
  <2> QED
    BY <1>10, <2>1, <2>2 DEF Replace, StoresType, caches
<1>11. CASE DropLocal(f)
  <2>1. local' \in [Servers -> [Dirs -> LocalEntry \cup {None}]]
    BY <1>5, <1>11 DEF DropLocal, StoresType
  <2>2. refresher[f].phase = "dropLocal" /\ Cleared(f, refresher[f].promise)
    BY <1>11 DEF DropLocal
  <2>3. HandlersType' /\ promised' \in [Dirs -> Promise]
    BY <1>5, <1>11, <1>15, <2>2 DEF DropLocal
  <2> QED
    BY <1>11, <2>1, <2>3 DEF DropLocal, StoresType
<1>12. CASE DropRedis(f)
  <2>1. redis' \in [Dirs -> Nat \cup {Synthetic, None}]
    BY <1>12 DEF DropRedis, StoresType
  <2>2. HandlersType' /\ promised' \in [Dirs -> Promise]
    <3>1. CASE refresher' = [refresher EXCEPT ![f] = RefresherIdle] /\ UNCHANGED promised
      BY <1>4, <1>12, <3>1 DEF DropRedis, StoresType
    <3>2. CASE \E p \in [Dirs -> Promise] : Cleared(f, p)
      BY <1>12, <1>15, <3>2 DEF DropRedis
    <3>3. /\ [d \in Dirs |-> Missing] \in [Dirs -> Promise]
          /\ [d \in Dirs |-> IF Undercut(refresher[f], d) THEN Missing ELSE refresher[f].promise[d]]
               \in [Dirs -> Promise]
      BY <1>5, <1>12 DEF DropRedis, Promise
    <3> QED
      BY <1>12, <3>1, <3>2, <3>3 DEF DropRedis
  <2> QED
    BY <1>12, <2>1, <2>2 DEF DropRedis, StoresType
<1>13. CASE RefreshStoresLocal(f)
  <2>1. local' \in [Servers -> [Dirs -> LocalEntry \cup {None}]]
    <3>1. refresher[f].phase # "idle" => Entry(refresher[f].listing) \in LocalEntry
      BY <1>5 DEF Entry, LocalEntry
    <3> QED
      BY <1>5, <1>13, <3>1, SMTT(30) DEF RefreshStoresLocal, SetLocal, StoresType
  <2>2. HandlersType'
    BY <1>1, <1>2, <1>13 DEF RefreshStoresLocal
  <2> QED
    BY <1>13, <2>1, <2>2 DEF RefreshStoresLocal, StoresType
<1>14. CASE RefreshStoresRedis(f)
  <2>1. redis' \in [Dirs -> Nat \cup {Synthetic, None}]
    BY <1>5, <1>14 DEF RefreshStoresRedis, StoresType
  <2>2. HandlersType'
    BY <1>4, <1>14 DEF RefreshStoresRedis, Acknowledge
  <2> QED
    BY <1>5, <1>6, <1>14, <2>1, <2>2 DEF RefreshStoresRedis, StoresType
<1> QED
  BY <1>7, <1>8, <1>9, <1>10, <1>11, <1>12, <1>13, <1>14 DEF RefresherStep

\* Every step keeps the types.
LEMMA TypeStep == TypeOK /\ [Next]_vars => TypeOK'
<1> SUFFICES ASSUME TypeOK, [Next]_vars PROVE TypeOK'
  OBVIOUS
<1>1. ASSUME NEW d \in Dirs, BucketChanges(d) \/ RedisExpires(d) PROVE TypeOK'
  BY <1>1, SMTT(30) DEF BucketChanges, RedisExpires, TypeOK, StoresType, HandlersType, caches
<1>2. ASSUME NEW s \in Servers, NEW d \in Dirs, LocalExpires(s, d) \/ LocalGoes(s, d) PROVE TypeOK'
  <2>1. local' \in [Servers -> [Dirs -> LocalEntry \cup {None}]]
    <3>1. local \in [Servers -> [Dirs -> LocalEntry \cup {None}]]
      BY DEF TypeOK, StoresType
    <3>2. CASE LocalExpires(s, d)
      <4>1. PICK entry \in LocalEntry : entry = local[s][d]
        BY <3>1, <3>2 DEF LocalExpires, Fresh
      <4>2. [entry EXCEPT !.fresh = FALSE] \in LocalEntry
        BY DEF LocalEntry
      <4>3. local' = [local EXCEPT ![s] = [local[s] EXCEPT ![d] = [local[s][d] EXCEPT !.fresh = FALSE]]]
        BY <3>2 DEF LocalExpires
      <4>4. [local[s] EXCEPT ![d] = [local[s][d] EXCEPT !.fresh = FALSE]] \in [Dirs -> LocalEntry \cup {None}]
        BY <3>1, <4>1, <4>2
      <4> QED
        BY <3>1, <4>3, <4>4
    <3>3. CASE LocalGoes(s, d)
      BY <3>1, <3>3 DEF LocalGoes
    <3> QED
      BY <1>2, <3>2, <3>3
  <2> QED
    BY <1>2, <2>1 DEF LocalExpires, LocalGoes, TypeOK, StoresType, HandlersType
<1>3. CASE UNCHANGED vars
  BY <1>3 DEF vars, caches, TypeOK, StoresType, HandlersType
<1> QED
  BY <1>1, <1>2, <1>3, ReaderTypeStep, RefresherTypeStep DEF Next

\* Every variable has its type, for any number of requests and refreshes at once,
\* and no answer without data is ever put in a cache (router.go:283-293).
THEOREM TypeCorrect == Spec => []TypeOK
<1>1. Init => TypeOK
  BY InitType
<1>2. TypeOK /\ [Next]_vars => TypeOK'
  BY TypeStep
<1> QED
  BY <1>1, <1>2, PTL DEF Spec

-----------------------------------------------------------------------------
(* The rows of the index, on one server.                                    *)

OneServer == \A s, t \in Servers : s = t

\* Without the index a refresh only clears the caches.
PhaseInv ==
  ~mode.index => \A f \in Refreshers : refresher[f].phase \in {"idle", "dropRedis", "dropLocal"}

\* With it a refresh past the lock holds it.
LockInv ==
  mode.index => \A f \in Refreshers : Working(f) => lock[refresher[f].at][refresher[f].dir] = f

\* What a refresh has listed is not older than the rows of the directory, and is
\* what they hold once it has replaced them.
RowsInv(f) ==
  LET h == refresher[f]
  IN  /\ h.phase = "replace" => /\ h.listing <= bucket[h.dir]
                                /\ indexed[h.dir] # None => indexed[h.dir] <= h.listing
      /\ Replaced(f) => indexed[h.dir] = h.listing

\* The rows of a directory were listed in the bucket.
IndexInv == /\ \A d \in Dirs : indexed[d] # None => indexed[d] <= bucket[d]
            /\ mode.index => \A f \in Refreshers : RowsInv(f)

TableInv == PhaseInv /\ LockInv /\ IndexInv

\* On one server a directory has one refresh past the lock.
LEMMA Alone ==
  ASSUME OneServer, TypeOK, LockInv, mode.index,
         NEW f \in Refreshers, NEW g \in Refreshers, Working(f), Working(g),
         refresher[f].dir = refresher[g].dir
  PROVE  f = g
<1>1. refresher[f].at = refresher[g].at
  BY Fields DEF Working, OneServer
<1> QED
  BY <1>1 DEF LockInv

\* No step changes the mode.
LEMMA ModeStays == [Next]_vars => mode' = mode
<1> SUFFICES ASSUME [Next]_vars PROVE mode' = mode
  OBVIOUS
<1>1. ASSUME NEW r \in Readers, BeginList(r) \/ ReaderStep(r) PROVE mode' = mode
  BY <1>1 DEF BeginList, ReaderStep, ReadLocal, ReadRedis, StoreLocal, StoreRedis, ReadIndex,
     ReadBelow, ListBucket, SkipBucket, ReadStale, EndList
<1>2. ASSUME NEW f \in Refreshers, BeginRefresh(f) \/ Lock(f) \/ RefresherStep(f) PROVE mode' = mode
  BY <1>2 DEF BeginRefresh, Lock, RefresherStep, ListForIndex, Replace, DropLocal, DropRedis,
     RefreshStoresLocal, RefreshStoresRedis
<1>3. ASSUME NEW d \in Dirs, BucketChanges(d) \/ RedisExpires(d) PROVE mode' = mode
  BY <1>3 DEF BucketChanges, RedisExpires
<1>4. ASSUME NEW s \in Servers, NEW d \in Dirs, LocalExpires(s, d) \/ LocalGoes(s, d) PROVE mode' = mode
  BY <1>4 DEF LocalExpires, LocalGoes
<1> QED
  BY <1>1, <1>2, <1>3, <1>4 DEF Next, vars

\* A step of no refresh leaves the invariant of the rows alone.
LEMMA TableFrame ==
  ASSUME TypeOK, TypeOK', TableInv, UNCHANGED <<mode, indexed, lock>>,
         \A d \in Dirs : bucket'[d] >= bucket[d],
         \A f \in Refreshers :
           /\ refresher'[f].phase = refresher[f].phase
           /\ refresher[f].phase # "idle" => /\ refresher'[f].at = refresher[f].at
                                             /\ refresher'[f].dir = refresher[f].dir
                                             /\ refresher'[f].listing = refresher[f].listing
  PROVE  TableInv'
<1>1. PhaseInv' /\ LockInv'
  BY DEF TableInv, PhaseInv, LockInv, Working
<1>2. \A d \in Dirs : bucket[d] \in Nat /\ bucket'[d] \in Nat /\ indexed[d] \in Nat \cup {None}
  BY DEF TypeOK, StoresType
<1>3. \A d \in Dirs : indexed'[d] # None => indexed'[d] <= bucket'[d]
  BY <1>2, NamesAssumption DEF TableInv, IndexInv
<1>4. ASSUME NEW f \in Refreshers, mode.index PROVE RowsInv(f)'
  <2>1. RowsInv(f)
    BY <1>4 DEF TableInv, IndexInv
  <2>2. CASE refresher[f].phase = "idle"
    BY <2>2 DEF RowsInv, Replaced
  <2>3. CASE refresher[f].phase # "idle"
    <3>1. refresher[f].dir \in Dirs /\ refresher[f].listing \in Nat
      BY <2>3, Fields
    <3> QED
      BY <1>2, <2>1, <2>3, <3>1 DEF RowsInv, Replaced
  <2> QED
    BY <2>2, <2>3
<1> QED
  BY <1>1, <1>3, <1>4 DEF TableInv, IndexInv

\* The step of one refresh leaves the others what they know: it can change the
\* rows or the lock of a directory only where no other refresh is past the lock.
LEMMA TableOthers ==
  ASSUME OneServer, TypeOK, TypeOK', TableInv, mode.index, UNCHANGED <<mode, bucket>>,
         NEW f \in Refreshers, refresher[f].phase # "idle",
         \A x \in Refreshers : x # f => refresher'[x] = refresher[x],
         \A d \in Dirs : d # refresher[f].dir =>
           indexed'[d] = indexed[d] /\ \A s \in Servers : lock'[s][d] = lock[s][d],
         Working(f) \/ (UNCHANGED indexed /\ lock[refresher[f].at][refresher[f].dir] = None)
  PROVE  \A x \in Refreshers : x # f =>
           RowsInv(x)' /\ (Working(x)' => lock'[refresher'[x].at][refresher'[x].dir] = x)
<1> SUFFICES ASSUME NEW x \in Refreshers, x # f, Working(x)
             PROVE  RowsInv(x)' /\ lock'[refresher'[x].at][refresher'[x].dir] = x
  BY DEF Working, RowsInv, Replaced
<1>1. /\ refresher[x].dir \in Dirs /\ refresher[x].at \in Servers
      /\ refresher[f].dir \in Dirs /\ refresher[f].at \in Servers
  BY Fields DEF Working
<1>2. RowsInv(x) /\ lock[refresher[x].at][refresher[x].dir] = x
  BY DEF TableInv, LockInv, IndexInv
<1>3. refresher[x].dir # refresher[f].dir
  <2>1. CASE Working(f)
    BY <2>1, Alone DEF TableInv
  <2>2. CASE lock[refresher[f].at][refresher[f].dir] = None
    <3>1. refresher[x].at = refresher[f].at
      BY <1>1 DEF OneServer
    <3> QED
      BY <1>2, <2>2, <3>1, NamesAssumption
  <2> QED
    BY <2>1, <2>2
<1> QED
  BY <1>1, <1>2, <1>3 DEF RowsInv, Replaced

\* A refresh clears a cache: it goes on, or ends.
LEMMA ClearsFacts ==
  ASSUME TypeOK, NEW f \in Refreshers, DropLocal(f) \/ DropRedis(f)
  PROVE  \/ /\ ~mode.index /\ refresher' = [refresher EXCEPT ![f] = RefresherIdle]
         \/ /\ \A x \in Refreshers : x # f => refresher'[x] = refresher[x]
            /\ refresher'[f].phase \in IF mode.index THEN {"dropRedis", "storeLocal"} ELSE {"dropLocal"}
            /\ refresher'[f].listing = refresher[f].listing
            /\ refresher'[f].at = refresher[f].at /\ refresher'[f].dir = refresher[f].dir
<1>1. /\ refresher[f].phase \in {"dropLocal", "dropRedis"} /\ refresher[f] \in RefresherType
      /\ refresher[f].promise \in [Dirs -> Promise] /\ HandlersType
  BY Fields DEF DropLocal, DropRedis, TypeOK
<1>2. ASSUME NEW p \in [Dirs -> Promise], Cleared(f, p)
      PROVE  \/ /\ ~mode.index /\ refresher' = [refresher EXCEPT ![f] = RefresherIdle]
             \/ /\ \A x \in Refreshers : x # f => refresher'[x] = refresher[x]
                /\ refresher'[f].phase \in IF mode.index THEN {"dropRedis", "storeLocal"} ELSE {"dropLocal"}
                /\ refresher'[f].listing = refresher[f].listing
                /\ refresher'[f].at = refresher[f].at /\ refresher'[f].dir = refresher[f].dir
  BY <1>1, <1>2, ClearedFacts DEF Acknowledge
<1>3. /\ [d \in Dirs |-> Missing] \in [Dirs -> Promise]
      /\ [d \in Dirs |-> IF Undercut(refresher[f], d) THEN Missing ELSE refresher[f].promise[d]]
           \in [Dirs -> Promise]
  BY <1>1 DEF Promise
<1>4. \/ \E p \in [Dirs -> Promise] : Cleared(f, p)
      \/ ~mode.index /\ refresher' = [refresher EXCEPT ![f] = RefresherIdle]
  BY <1>1, <1>3 DEF DropLocal, DropRedis
<1> QED
  BY <1>2, <1>4

\* The steps of refreshes keep it.
LEMMA TableRefresher ==
  ASSUME OneServer, TypeOK, TypeOK', TableInv, NEW f \in Refreshers,
         BeginRefresh(f) \/ Lock(f) \/ RefresherStep(f)
  PROVE  TableInv'
<1> DEFINE h == refresher[f]
<1>0. /\ h.phase # "idle" => /\ h \in RefresherType /\ h # RefresherIdle
                             /\ h.at \in Servers /\ h.dir \in Dirs /\ h.listing \in Nat
      /\ \A d \in Dirs : bucket[d] \in Nat /\ indexed[d] \in Nat \cup {None}
      /\ HandlersType /\ mode' = mode
  BY Fields, ModeStays DEF TypeOK, StoresType, Next
<1>1. ASSUME UNCHANGED bucket, PhaseInv',
             \A d \in Dirs : indexed'[d] # None => indexed'[d] <= bucket'[d],
             mode.index => /\ RowsInv(f)'
                           /\ Working(f)' => lock'[refresher'[f].at][refresher'[f].dir] = f
                           /\ \A x \in Refreshers : x # f =>
                                RowsInv(x)' /\ (Working(x)' => lock'[refresher'[x].at][refresher'[x].dir] = x)
      PROVE  TableInv'
  BY <1>0, <1>1 DEF TableInv, LockInv, IndexInv
<1>2. CASE BeginRefresh(f)
  <2>1. PICK s \in Servers, d \in Dirs :
          refresher' = [refresher EXCEPT ![f] =
            [phase |-> IF mode.index THEN "lock" ELSE Clearings[1], at |-> s, dir |-> d, listing |-> 0,
             promise |-> [e \in Dirs |-> IF e \in Renewed(d) THEN bucket[e] ELSE Missing]]]
    BY <1>2 DEF BeginRefresh
  <2>2. /\ refresher'[f].phase = IF mode.index THEN "lock" ELSE "dropRedis"
        /\ \A x \in Refreshers : x # f => refresher'[x] = refresher[x]
    BY <1>0, <2>1, Order DEF HandlersType
  <2> QED
    BY <1>0, <1>1, <1>2, <2>2 DEF BeginRefresh, TableInv, PhaseInv, LockInv, IndexInv, RowsInv, Working, Replaced
<1>3. CASE Lock(f)
  <2>1. /\ refresher'[f].phase = "list" /\ refresher'[f].at = h.at /\ refresher'[f].dir = h.dir
        /\ \A x \in Refreshers : x # f => refresher'[x] = refresher[x]
    BY <1>0, <1>3, RefresherGoesFacts DEF Lock
  <2>2. mode.index
    BY <1>3 DEF Lock, TableInv, PhaseInv
  <2>3. /\ lock'[h.at][h.dir] = f
        /\ \A d \in Dirs : d # h.dir => \A s \in Servers : lock'[s][d] = lock[s][d]
    BY <1>0, <1>3 DEF Lock, HandlersType
  <2>4. \A x \in Refreshers : x # f =>
          RowsInv(x)' /\ (Working(x)' => lock'[refresher'[x].at][refresher'[x].dir] = x)
    BY <1>0, <1>3, <2>1, <2>2, <2>3, TableOthers DEF Lock, Working
  <2>5. RowsInv(f)' /\ PhaseInv'
    BY <1>0, <2>1, <2>2 DEF RowsInv, Replaced, PhaseInv
  <2> QED
    BY <1>0, <1>1, <1>3, <2>1, <2>2, <2>3, <2>4, <2>5 DEF Lock, TableInv, IndexInv
<1>4. ASSUME mode.index, Working(f), UNCHANGED bucket,
             refresher' = [refresher EXCEPT ![f] = RefresherIdle], Unlock(f),
             \/ UNCHANGED indexed
             \/ h.phase = "replace" /\ indexed' = [indexed EXCEPT ![h.dir] = h.listing]
      PROVE  TableInv'
  <2>1. /\ \A x \in Refreshers : x # f => refresher'[x] = refresher[x]
        /\ refresher'[f].phase = "idle"
    BY <1>0, <1>4, RefresherEndsFacts
  <2>2. \A d \in Dirs : d # h.dir =>
          indexed'[d] = indexed[d] /\ \A s \in Servers : lock'[s][d] = lock[s][d]
    BY <1>0, <1>4 DEF Unlock, HandlersType, TypeOK, StoresType, Working
  <2>3. \A x \in Refreshers : x # f =>
          RowsInv(x)' /\ (Working(x)' => lock'[refresher'[x].at][refresher'[x].dir] = x)
    <3>1. h.phase # "idle" /\ Working(f) /\ mode.index /\ UNCHANGED <<mode, bucket>>
      BY <1>0, <1>4 DEF Working
    <3> QED
      BY <2>1, <2>2, <3>1, TableOthers
  <2>4. \A d \in Dirs : indexed'[d] # None => indexed'[d] <= bucket'[d]
    BY <1>0, <1>4, NamesAssumption DEF TableInv, IndexInv, RowsInv, TypeOK, StoresType
  <2>5. RowsInv(f)' /\ ~Working(f)' /\ PhaseInv'
    BY <1>0, <1>4, <2>1 DEF RowsInv, Replaced, Working, PhaseInv
  <2> QED
    BY <1>1, <1>4, <2>3, <2>4, <2>5
<1>5. ASSUME mode.index, Working(f), UNCHANGED <<bucket, lock>>,
             \A x \in Refreshers : x # f => refresher'[x] = refresher[x],
             refresher'[f].at = h.at, refresher'[f].dir = h.dir,
             Working(f)', RowsInv(f)',
             \/ UNCHANGED indexed
             \/ h.phase = "replace" /\ indexed' = [indexed EXCEPT ![h.dir] = h.listing]
      PROVE  TableInv'
  <2>1. \A d \in Dirs : d # h.dir => indexed'[d] = indexed[d]
    BY <1>5 DEF TypeOK, StoresType
  <2>2. \A x \in Refreshers : x # f =>
          RowsInv(x)' /\ (Working(x)' => lock'[refresher'[x].at][refresher'[x].dir] = x)
    <3>1. /\ h.phase # "idle" /\ Working(f) /\ mode.index /\ UNCHANGED <<mode, bucket>>
          /\ \A x \in Refreshers : x # f => refresher'[x] = refresher[x]
          /\ \A d \in Dirs : d # h.dir =>
               indexed'[d] = indexed[d] /\ \A s \in Servers : lock'[s][d] = lock[s][d]
      BY <1>0, <1>5, <2>1 DEF Working
    <3> QED
      BY <3>1, TableOthers
  <2>3. \A d \in Dirs : indexed'[d] # None => indexed'[d] <= bucket'[d]
    BY <1>0, <1>5, NamesAssumption DEF TableInv, IndexInv, RowsInv, TypeOK, StoresType
  <2>4. PhaseInv'
    BY <1>0, <1>5 DEF PhaseInv
  <2> QED
    BY <1>0, <1>1, <1>5, <2>2, <2>3, <2>4 DEF TableInv, LockInv
<1>6. CASE ListForIndex(f)
  <2>1. mode.index /\ Working(f) /\ h.phase = "list"
    BY <1>6 DEF ListForIndex, TableInv, PhaseInv, Working
  <2>2. CASE Fail(f)
    BY <1>4, <1>6, <2>1, <2>2 DEF ListForIndex, Fail
  <2>3. CASE /\ refresher' = [refresher EXCEPT ![f] =
                  [@ EXCEPT !.phase = "replace", !.listing = bucket[refresher[f].dir]]]
             /\ UNCHANGED lock
    <3>1. PICK q \in RefresherType, n \in Nat : q = refresher[f] /\ n = bucket[refresher[f].dir]
      BY <1>0, <2>1
    <3>2. LET w == [q EXCEPT !.phase = "replace", !.listing = n]
          IN  w.phase = "replace" /\ w.listing = n /\ w.at = q.at /\ w.dir = q.dir
      BY DEF RefresherType
    <3>3. /\ \A x \in Refreshers : x # f => refresher'[x] = refresher[x]
          /\ refresher'[f].phase = "replace" /\ refresher'[f].listing = bucket[h.dir]
          /\ refresher'[f].at = h.at /\ refresher'[f].dir = h.dir
      BY <1>0, <2>3, <3>1, <3>2 DEF HandlersType
    <3>4. RowsInv(f)' /\ Working(f)'
      BY <1>0, <1>6, <2>1, <3>3 DEF ListForIndex, RowsInv, Replaced, Working, TableInv, IndexInv
    <3> QED
      BY <1>5, <1>6, <2>1, <2>3, <3>3, <3>4 DEF ListForIndex
  <2> QED
    BY <1>6, <2>2, <2>3 DEF ListForIndex
<1>7. CASE Replace(f)
  <2>1. mode.index /\ Working(f) /\ h.phase = "replace" /\ h.dir \in Dirs /\ UNCHANGED bucket
    BY <1>0, <1>7 DEF Replace, TableInv, PhaseInv, Working
  <2>2. CASE RefresherGoes(f, Clearings[1]) /\ indexed' = [indexed EXCEPT ![h.dir] = h.listing] /\ UNCHANGED lock
    <3>1. /\ \A x \in Refreshers : x # f => refresher'[x] = refresher[x]
          /\ refresher'[f].phase = "dropLocal" /\ refresher'[f].listing = h.listing
          /\ refresher'[f].at = h.at /\ refresher'[f].dir = h.dir
      BY <1>0, <2>1, <2>2, RefresherGoesFacts, Order
    <3>2. RowsInv(f)' /\ Working(f)'
      BY <1>0, <2>1, <2>2, <3>1 DEF RowsInv, Working, TypeOK, StoresType
    <3> QED
      BY <1>5, <2>1, <2>2, <3>1, <3>2
  <2>3. CASE /\ refresher' = [refresher EXCEPT ![f] = RefresherIdle] /\ Unlock(f)
             /\ indexed' \in {indexed, [indexed EXCEPT ![h.dir] = h.listing]}
    BY <1>4, <2>1, <2>3
  <2> QED
    BY <1>7, <2>2, <2>3 DEF Replace, Fail
<1>8. CASE ~mode.index
  <2>1. CASE DropLocal(f) \/ DropRedis(f)
    <3>1. /\ \A x \in Refreshers : x # f => refresher'[x] = refresher[x]
          /\ refresher'[f].phase \in {"idle", "dropLocal"}
      BY <1>0, <1>8, <2>1, ClearsFacts, RefresherEndsFacts DEF Acknowledge
    <3>3. UNCHANGED <<bucket, indexed>>
      BY <2>1 DEF DropLocal, DropRedis
    <3> QED
      BY <1>0, <1>1, <1>8, <3>1, <3>3 DEF TableInv, PhaseInv, IndexInv
  <2>2. h.phase \in {"idle", "dropRedis", "dropLocal"}
    BY <1>8 DEF TableInv, PhaseInv
  <2> QED
    BY <1>2, <1>3, <1>6, <1>7, <2>1, <2>2 DEF RefresherStep, RefreshStoresLocal, RefreshStoresRedis
<1>9. CASE mode.index /\ (DropLocal(f) \/ DropRedis(f) \/ RefreshStoresLocal(f))
  <2>1. Working(f) /\ Replaced(f) /\ UNCHANGED <<bucket, lock, indexed>>
    BY <1>9 DEF DropLocal, DropRedis, RefreshStoresLocal, Working, Replaced
  <2>2. /\ \A x \in Refreshers : x # f => refresher'[x] = refresher[x]
        /\ refresher'[f].phase \in {"dropRedis", "storeLocal", "storeRedis"}
        /\ refresher'[f].listing = h.listing /\ refresher'[f].at = h.at /\ refresher'[f].dir = h.dir
    <3>1. CASE DropLocal(f) \/ DropRedis(f)
      BY <1>9, <3>1, ClearsFacts
    <3>2. CASE RefreshStoresLocal(f)
      BY <1>0, <2>1, <3>2, RefresherGoesFacts DEF RefreshStoresLocal, Working
    <3> QED
      BY <1>9, <3>1, <3>2
  <2>3. RowsInv(f)' /\ Working(f)'
    BY <1>9, <2>1, <2>2 DEF TableInv, IndexInv, RowsInv, Working, Replaced
  <2> QED
    BY <1>5, <1>9, <2>1, <2>2, <2>3
<1>10. CASE mode.index /\ RefreshStoresRedis(f)
  <2>1. Working(f)
    BY <1>10 DEF RefreshStoresRedis, Working
  <2> QED
    BY <1>4, <1>10, <2>1 DEF RefreshStoresRedis, Acknowledge
<1> QED
  BY <1>2, <1>3, <1>6, <1>7, <1>8, <1>9, <1>10 DEF RefresherStep

\* Every step keeps it, on one server.
LEMMA TableStep ==
  ASSUME OneServer, TypeOK, TypeOK', TableInv, [Next]_vars
  PROVE  TableInv'
<1>0. mode' = mode /\ \A d \in Dirs : bucket[d] \in Nat
  BY ModeStays DEF TypeOK, StoresType
<1>1. ASSUME NEW r \in Readers, BeginList(r) PROVE TableInv'
  BY <1>0, <1>1, TableFrame DEF BeginList
<1>2. ASSUME NEW r \in Readers, ReaderStep(r) PROVE TableInv'
  <2>1. UNCHANGED <<bucket, indexed, lock, refresher>>
    BY <1>2 DEF ReaderStep, ReadLocal, ReadRedis, StoreLocal, StoreRedis, ReadIndex,
       ReadBelow, ListBucket, SkipBucket, ReadStale, EndList
  <2> QED
    BY <1>0, <2>1, TableFrame
<1>3. ASSUME NEW d \in Dirs, BucketChanges(d) PROVE TableInv'
  BY <1>0, <1>3, TableFrame DEF BucketChanges, TypeOK, StoresType
<1>4. ASSUME NEW d \in Dirs, RedisExpires(d) PROVE TableInv'
  BY <1>0, <1>4, TableFrame DEF RedisExpires
<1>5. ASSUME NEW s \in Servers, NEW d \in Dirs, LocalExpires(s, d) \/ LocalGoes(s, d) PROVE TableInv'
  BY <1>0, <1>5, TableFrame DEF LocalExpires, LocalGoes
<1>6. CASE UNCHANGED vars
  BY <1>0, <1>6, TableFrame DEF vars
<1> QED
  BY <1>1, <1>2, <1>3, <1>4, <1>5, <1>6, TableRefresher DEF Next

LEMMA InitTable == Init => TableInv
  BY DEF Init, TableInv, PhaseInv, LockInv, IndexInv, RowsInv, Working, Replaced, RefresherIdle

\* The only step that changes rows moves those of one directory forward.
LEMMA RowsStep ==
  ASSUME OneServer, TypeOK, TableInv, [Next]_vars
  PROVE  \A d \in Dirs : indexed[d] # None =>
           indexed'[d] # None /\ indexed'[d] >= indexed[d]
<1>0. \A d \in Dirs : indexed[d] \in Nat \cup {None}
  BY DEF TypeOK, StoresType
<1>1. CASE UNCHANGED indexed
  BY <1>0, <1>1
<1>2. ASSUME NEW f \in Refreshers, Replace(f), ~UNCHANGED indexed
      PROVE  \A d \in Dirs : indexed[d] # None =>
               indexed'[d] # None /\ indexed'[d] >= indexed[d]
  <2> DEFINE h == refresher[f]
  <2>1. /\ indexed' = [indexed EXCEPT ![h.dir] = h.listing] /\ h.phase = "replace"
        /\ h.dir \in Dirs /\ h.listing \in Nat
    BY <1>2, Fields DEF Replace
  <2>2. indexed[h.dir] # None => indexed[h.dir] <= h.listing
    BY <2>1 DEF TableInv, PhaseInv, IndexInv, RowsInv
  <2>3. \A d \in Dirs : indexed'[d] = IF d = h.dir THEN h.listing ELSE indexed[d]
    BY <2>1 DEF TypeOK, StoresType
  <2> QED
    BY <1>0, <2>1, <2>2, <2>3, NamesAssumption
<1>3. CASE \A f \in Refreshers : ~Replace(f)
  <2>1. ASSUME NEW r \in Readers, BeginList(r) \/ ReaderStep(r) PROVE UNCHANGED indexed
    BY <2>1 DEF BeginList, ReaderStep, ReadLocal, ReadRedis, StoreLocal, StoreRedis, ReadIndex,
       ReadBelow, ListBucket, SkipBucket, ReadStale, EndList
  <2>2. ASSUME NEW f \in Refreshers, BeginRefresh(f) \/ Lock(f) \/ RefresherStep(f)
        PROVE  UNCHANGED indexed
    BY <1>3, <2>2 DEF BeginRefresh, Lock, RefresherStep, ListForIndex, DropLocal, DropRedis,
       RefreshStoresLocal, RefreshStoresRedis
  <2>3. UNCHANGED indexed
    BY <2>1, <2>2 DEF Next, vars, BucketChanges, RedisExpires, LocalExpires, LocalGoes
  <2> QED
    BY <1>1, <2>3
<1> QED
  BY <1>1, <1>2, <1>3

\* On one server the rows of a directory are never replaced by older ones, for
\* any number of refreshes at once: the lock keeps listing and replacing together
\* (file_index.go:277-288).
THEOREM RowsMoveForward == ASSUME OneServer PROVE Spec => IndexMovesForward
<1>1. Init => TypeOK /\ TableInv
  BY InitType, InitTable
<1>2. TypeOK /\ TableInv /\ [Next]_vars => (TypeOK /\ TableInv)'
  BY TypeStep, TableStep
<1>3. TypeOK /\ TableInv /\ [Next]_vars
      => [\A d \in Dirs : indexed[d] # None => indexed'[d] >= indexed[d]]_indexed
  BY RowsStep
<1> QED
  BY <1>1, <1>2, <1>3, PTL DEF Spec, IndexMovesForward

-----------------------------------------------------------------------------
(* What a request shows after a refresh.                                    *)

\* What has been promised of a directory is in the bucket and in the rows, and
\* no cache is behind it.
DirInv(d) ==
  /\ promised[d] <= bucket[d]
  /\ mode.index /\ promised[d] # Missing => indexed[d] # None /\ indexed[d] >= promised[d]
  /\ redis[d] # None => redis[d] >= promised[d]
  /\ \A s \in Servers : local[s][d] # None => local[s][d].listing >= promised[d]

\* What a request will store is not behind a promise, although one may be given
\* after it has begun.
Storing(r) == reader[r].phase \in {"fill", "store", "share"}

ReaderInv(r) ==
  LET q == reader[r]
  IN  /\ InFlight(r) => q.promised <= promised[q.dir]
      /\ Storing(r) => q.listing >= promised[q.dir]
      /\ q.phase = "answered" => q.listing >= q.promised \/ (mode.details /\ q.listing = Missing)
      /\ q.phase = "below" => mode.index /\ ~mode.details /\ promised[q.dir] = Missing
      /\ q.phase = "stale" /\ mode.index /\ ~mode.details => q.promised = Missing

\* A refresh has cleared Redis.
RedisCleared(f) ==
  refresher[f].phase \in IF mode.index THEN {"storeLocal", "storeRedis"} ELSE {"dropLocal"}

\* It has left no entry in the cache of its server but its own.
LocalCleared(f) ==
  /\ mode.index
  /\ refresher[f].phase = "storeRedis" \/ (mode.details /\ refresher[f].phase = "storeLocal")

\* While a refresh promises something of a directory, what it has cleared of it
\* stays clear or gets nothing behind the promise, and once Redis is cleared no
\* request is about to store anything else.
PromiseInv(f, d) ==
  LET h == refresher[f]
  IN  /\ h.promise[d] <= bucket[d] /\ d \in Below(h.dir)
      /\ mode.index => d = h.dir /\ (h.phase \notin {"lock", "list"} => h.listing >= h.promise[d])
      /\ RedisCleared(f) =>
           /\ redis[d] # None => redis[d] >= h.promise[d]
           /\ \A r \in Readers : reader[r].phase # "idle" /\ reader[r].dir = d =>
                reader[r].phase # "below" /\ (Storing(r) => reader[r].listing >= h.promise[d])
      /\ LocalCleared(f) /\ local[h.at][d] # None => local[h.at][d].listing >= h.promise[d]

Promising(f, d) == refresher[f].phase # "idle" /\ refresher[f].promise[d] # Missing

SeenInv == /\ \A d \in Dirs : DirInv(d)
           /\ \A r \in Readers : ReaderInv(r)
           /\ \A f \in Refreshers : \A d \in Dirs : Promising(f, d) => PromiseInv(f, d)

LEMMA Numbers ==
  ASSUME TypeOK
  PROVE  \A d \in Dirs : /\ bucket[d] \in Nat /\ indexed[d] \in Nat \cup {None}
                         /\ redis[d] \in Nat \cup {Synthetic, None} /\ promised[d] \in Promise
                         /\ \A s \in Servers : /\ local[s][d] \in LocalEntry \cup {None}
                                               /\ local[s][d] # None =>
                                                    local[s][d].listing \in Nat \cup {Synthetic}
  BY DEF TypeOK, StoresType, LocalEntry

\* What a request can read of a directory once a refresh that promises something
\* of it has cleared Redis.
LEMMA Sources ==
  ASSUME TypeOK, TableInv, SeenInv, NEW f \in Refreshers, NEW d \in Dirs,
         Promising(f, d), RedisCleared(f)
  PROVE  /\ redis[d] # None => redis[d] >= refresher[f].promise[d]
         /\ bucket[d] >= refresher[f].promise[d]
         /\ mode.index => indexed[d] # None /\ indexed[d] >= refresher[f].promise[d]
<1>1. PromiseInv(f, d)
  BY DEF SeenInv
<1>2. /\ bucket[d] \in Nat /\ refresher[f].promise[d] \in Promise
      /\ refresher[f].listing \in Nat /\ refresher[f].dir \in Dirs
  BY Fields, Numbers DEF Promising
<1>3. mode.index => d = refresher[f].dir /\ indexed[d] = refresher[f].listing
                    /\ refresher[f].listing >= refresher[f].promise[d]
  BY <1>1 DEF RedisCleared, TableInv, IndexInv, RowsInv, Replaced, PromiseInv
<1> QED
  BY <1>1, <1>2, <1>3, NamesAssumption DEF PromiseInv, Promise, Missing

\* What is left to show of a step of a request: its own directory.
LEMMA SeenByRequest ==
  ASSUME TypeOK, TypeOK', TableInv, SeenInv, NEW r \in Readers,
         UNCHANGED <<mode, bucket, indexed, refresher, promised>>,
         \A x \in Readers : x # r => reader'[x] = reader[x],
         NEW d \in Dirs, (reader[r].phase # "idle")' => reader'[r].dir = d,
         \A e \in Dirs : e # d =>
           redis'[e] = redis[e] /\ \A s \in Servers : local'[s][e] = local[s][e],
         ReaderInv(r)', DirInv(d)',
         \A f \in Refreshers : Promising(f, d) /\ PromiseInv(f, d) => PromiseInv(f, d)'
  PROVE  SeenInv'
<1>1. ASSUME NEW f \in Refreshers, NEW e \in Dirs, Promising(f, e)'
      PROVE  PromiseInv(f, e)'
  <2>1. Promising(f, e) /\ PromiseInv(f, e)
    BY <1>1 DEF Promising, SeenInv
  <2>2. CASE e = d
    BY <2>1, <2>2
  <2>3. CASE e # d
    <3>1. redis'[e] = redis[e] /\ local'[refresher[f].at][e] = local[refresher[f].at][e]
      BY <2>1, <2>3, Fields DEF Promising
    <3>2. RedisCleared(f)' = RedisCleared(f) /\ LocalCleared(f)' = LocalCleared(f)
      BY DEF RedisCleared, LocalCleared
    <3>3. ASSUME RedisCleared(f), NEW x \in Readers, (reader[x].phase # "idle")', reader'[x].dir = e
          PROVE  reader'[x].phase # "below" /\ (Storing(x)' => reader'[x].listing >= refresher[f].promise[e])
      <4>1. reader'[x] = reader[x]
        BY <2>3, <3>3
      <4> QED
        BY <2>1, <3>3, <4>1 DEF PromiseInv, Storing
    <3> QED
      BY <2>1, <3>1, <3>2, <3>3 DEF PromiseInv
  <2> QED
    BY <2>2, <2>3
<1>2. ASSUME NEW x \in Readers, x # r PROVE ReaderInv(x)'
  <2>1. ReaderInv(x) /\ reader'[x] = reader[x]
    BY <1>2 DEF SeenInv
  <2> QED
    BY <2>1 DEF ReaderInv, InFlight, Storing
<1>3. ASSUME NEW e \in Dirs, e # d PROVE DirInv(e)'
  BY <1>3 DEF SeenInv, DirInv
<1> QED
  BY <1>1, <1>2, <1>3 DEF SeenInv

\* The steps of requests after the first.
LEMMA SeenReader ==
  ASSUME TypeOK, TypeOK', TableInv, SeenInv, NEW r \in Readers, ReaderStep(r),
         NEW d, reader[r].dir = d
  PROVE  SeenInv'
<1> DEFINE q == reader[r]
<1>0. /\ q.phase # "idle" /\ HandlersType
      /\ d \in Dirs /\ q.at \in Servers /\ q.listing \in Listings /\ q.promised \in Promise
      /\ UNCHANGED <<mode, bucket, indexed, refresher, promised>>
  <2>1. q.phase # "idle"
    BY DEF ReaderStep, ReadLocal, ReadRedis, StoreLocal, StoreRedis, ReadIndex,
       ReadBelow, ListBucket, SkipBucket, ReadStale, EndList
  <2>2. UNCHANGED <<mode, bucket, indexed, refresher, promised>>
    BY DEF ReaderStep, ReadLocal, ReadRedis, StoreLocal, StoreRedis, ReadIndex,
       ReadBelow, ListBucket, SkipBucket, ReadStale, EndList, caches
  <2> QED
    BY <2>1, <2>2, Fields DEF TypeOK
<1>1. /\ ReaderInv(r) /\ DirInv(d)
      /\ (InFlight(r) => q.promised <= promised[d])
      /\ redis[d] \in Nat \cup {Synthetic, None} /\ bucket[d] \in Nat
      /\ indexed[d] \in Nat \cup {None} /\ promised[d] \in Promise
      /\ local[q.at][d] \in LocalEntry \cup {None}
      /\ local[q.at][d] # None => local[q.at][d].listing \in Nat \cup {Synthetic}
  BY <1>0, Numbers DEF SeenInv, ReaderInv
\* The refreshes that promise something of the directory.
<1>2. ASSUME NEW f \in Refreshers, Promising(f, d)
      PROVE  /\ PromiseInv(f, d) /\ refresher[f].at \in Servers
             /\ refresher[f].promise[d] \in Promise
             /\ LocalCleared(f) => RedisCleared(f)
             /\ RedisCleared(f)' = RedisCleared(f) /\ LocalCleared(f)' = LocalCleared(f)
             /\ RedisCleared(f) => /\ q.phase # "below"
                                   /\ Storing(r) => q.listing >= refresher[f].promise[d]
  BY <1>0, <1>2, Fields DEF SeenInv, Promising, PromiseInv, RedisCleared, LocalCleared
\* A step that stores in no cache.
<1>3. ASSUME UNCHANGED caches, ReaderInv(r)',
             \A x \in Readers : x # r => reader'[x] = reader[x],
             (reader[r].phase # "idle")' => reader'[r].dir = d,
             \A f \in Refreshers : Promising(f, d) /\ RedisCleared(f) /\ (reader[r].phase # "idle")' =>
                 reader'[r].phase # "below" /\ (Storing(r)' => reader'[r].listing >= refresher[f].promise[d])
      PROVE  SeenInv'
  <2>1. DirInv(d)'
    BY <1>0, <1>1, <1>3 DEF DirInv, caches
  <2>2. ASSUME NEW f \in Refreshers, Promising(f, d), PromiseInv(f, d)
        PROVE  PromiseInv(f, d)'
    <3>1. ASSUME RedisCleared(f), NEW x \in Readers, (reader[x].phase # "idle")', reader'[x].dir = d
          PROVE  reader'[x].phase # "below" /\ (Storing(x)' => reader'[x].listing >= refresher[f].promise[d])
      <4>1. CASE x = r
        BY <1>3, <2>2, <3>1, <4>1
      <4>2. CASE x # r
        <5>1. reader'[x] = reader[x]
          BY <1>3, <4>2
        <5> QED
          BY <2>2, <3>1, <5>1 DEF PromiseInv, Storing
      <4> QED
        BY <4>1, <4>2
    <3> QED
      BY <1>0, <1>2, <1>3, <2>2, <3>1 DEF PromiseInv, caches
  <2> QED
    BY <1>0, <1>3, <2>1, <2>2, SeenByRequest DEF caches
<1>4. ASSUME InFlight(r), UNCHANGED caches, NEW n, ReaderGets(r, n, "answered"),
             n >= q.promised \/ (mode.details /\ n = Missing)
      PROVE  SeenInv'
  <2>1. /\ \A x \in Readers : x # r => reader'[x] = reader[x]
        /\ reader'[r].phase = "answered" /\ reader'[r].listing = n
        /\ reader'[r].dir = d /\ reader'[r].promised = q.promised
    BY <1>0, <1>4, ReaderGetsFacts
  <2>2. ReaderInv(r)' /\ ~Storing(r)'
    BY <1>0, <1>4, <2>1 DEF ReaderInv, InFlight, Storing
  <2> QED
    BY <1>3, <1>4, <2>1, <2>2
<1>5. ASSUME InFlight(r), UNCHANGED caches, NEW n, NEW phase \in {"fill", "store"},
             ReaderGets(r, n, phase), n >= promised[d],
             \A f \in Refreshers : Promising(f, d) /\ RedisCleared(f) => n >= refresher[f].promise[d]
      PROVE  SeenInv'
  <2>1. /\ \A x \in Readers : x # r => reader'[x] = reader[x]
        /\ reader'[r].phase = phase /\ reader'[r].listing = n
        /\ reader'[r].dir = d /\ reader'[r].promised = q.promised
    BY <1>0, <1>5, ReaderGetsFacts
  <2>2. ReaderInv(r)'
    BY <1>0, <1>1, <1>5, <2>1 DEF ReaderInv, InFlight, Storing
  <2> QED
    BY <1>3, <1>5, <2>1, <2>2
<1>6. ASSUME InFlight(r), UNCHANGED caches, NEW phase \in {"redis", "source", "stale"}, ReaderGoes(r, phase),
             phase = "stale" /\ mode.index /\ ~mode.details => q.promised = Missing
      PROVE  SeenInv'
  <2>1. /\ \A x \in Readers : x # r => reader'[x] = reader[x]
        /\ reader'[r].phase = phase /\ reader'[r].dir = d /\ reader'[r].promised = q.promised
    BY <1>0, <1>6, ReaderGoesFacts
  <2>2. ReaderInv(r)' /\ ~Storing(r)'
    BY <1>0, <1>1, <1>6, <2>1 DEF ReaderInv, InFlight, Storing
  <2> QED
    BY <1>3, <1>6, <2>1, <2>2
<1>7. ASSUME UNCHANGED caches, reader' = [reader EXCEPT ![r] = ReaderIdle] PROVE SeenInv'
  <2>1. /\ \A x \in Readers : x # r => reader'[x] = reader[x]
        /\ reader'[r].phase = "idle"
    BY <1>0, <1>7 DEF HandlersType, ReaderIdle
  <2>2. ReaderInv(r)'
    BY <2>1 DEF ReaderInv, InFlight, Storing
  <2> QED
    BY <1>3, <1>7, <2>1, <2>2
<1>8. CASE ReadLocal(r)
  <2>1. InFlight(r) /\ UNCHANGED caches
    BY <1>8 DEF ReadLocal, InFlight
  <2>2. CASE Fresh(local[q.at][d])
    <3>1. local[q.at][d].listing >= promised[d] /\ local[q.at][d].listing \in Nat \cup {Synthetic}
      BY <1>0, <1>1, <2>2 DEF Fresh, DirInv
    <3>2. local[q.at][d].listing >= q.promised
      BY <1>0, <1>1, <2>1, <3>1 DEF Promise, Missing, Synthetic
    <3> QED
      BY <1>4, <1>8, <2>1, <2>2, <3>2 DEF ReadLocal
  <2>3. CASE ~Fresh(local[q.at][d])
    BY <1>6, <1>8, <2>1, <2>3 DEF ReadLocal
  <2> QED
    BY <2>2, <2>3
<1>9. CASE ReadRedis(r)
  <2>1. InFlight(r) /\ UNCHANGED caches
    BY <1>9 DEF ReadRedis, InFlight
  <2>2. CASE redis[d] # None /\ ReaderGets(r, redis[d], "fill")
    <3>1. redis[d] >= promised[d]
      BY <1>1, <2>2 DEF DirInv
    <3>2. \A f \in Refreshers : Promising(f, d) /\ RedisCleared(f) => redis[d] >= refresher[f].promise[d]
      BY <1>0, <2>2, Sources
    <3> QED
      BY <1>5, <2>1, <2>2, <3>1, <3>2
  <2> QED
    BY <1>6, <1>9, <2>1, <2>2 DEF ReadRedis
\* What a request stores is behind no promise.
<1>10. ASSUME NEW phase \in {"answered", "share"}, Storing(r), ReaderGoes(r, phase),
              redis' = redis \/ redis' = [redis EXCEPT ![d] = q.listing],
              local' = local \/ local' = [local EXCEPT ![q.at][d] = Entry(q.listing)]
       PROVE  SeenInv'
  <2>1. InFlight(r) /\ q.listing >= promised[d] /\ q.listing >= q.promised
    BY <1>0, <1>1, <1>10 DEF Storing, InFlight, ReaderInv, Promise, Missing, Listings, Synthetic
  <2>2. /\ \A x \in Readers : x # r => reader'[x] = reader[x]
        /\ reader'[r].phase = phase /\ reader'[r].listing = q.listing
        /\ reader'[r].dir = d /\ reader'[r].promised = q.promised
    BY <1>0, <1>10, <2>1, ReaderGoesFacts
  <2>3. ReaderInv(r)'
    BY <1>0, <1>1, <1>10, <2>1, <2>2 DEF ReaderInv, InFlight, Storing
  <2>4. /\ \A e \in Dirs : e # d =>
             redis'[e] = redis[e] /\ \A s \in Servers : local'[s][e] = local[s][e]
        /\ redis'[d] \in {redis[d], q.listing}
        /\ \A s \in Servers : local'[s][d] = local[s][d] \/ local'[s][d].listing = q.listing
    <3>1. /\ \A e \in Dirs : e # d => redis'[e] = redis[e]
          /\ redis'[d] \in {redis[d], q.listing}
      BY <1>0, <1>10 DEF TypeOK, StoresType
    <3>2. ASSUME NEW s \in Servers, NEW e \in Dirs
          PROVE  local'[s][e] = local[s][e] \/ (e = d /\ local'[s][e] = Entry(q.listing))
      BY <1>0, <1>10 DEF TypeOK, StoresType
    <3>3. Entry(q.listing).listing = q.listing
      BY DEF Entry
    <3>4. \A s \in Servers : local'[s][d] = local[s][d] \/ local'[s][d].listing = q.listing
      BY <1>0, <3>2, <3>3
    <3>5. \A e \in Dirs : e # d => \A s \in Servers : local'[s][e] = local[s][e]
      BY <3>2
    <3> QED
      BY <3>1, <3>4, <3>5
  <2>5. DirInv(d)'
    BY <1>0, <1>1, <2>1, <2>4 DEF DirInv
  <2>6. ASSUME NEW f \in Refreshers, Promising(f, d), PromiseInv(f, d)
        PROVE  PromiseInv(f, d)'
    <3>1. RedisCleared(f) => q.listing >= refresher[f].promise[d]
      BY <1>2, <1>10, <2>6
    <3>2. ASSUME RedisCleared(f), NEW x \in Readers, (reader[x].phase # "idle")', reader'[x].dir = d
          PROVE  reader'[x].phase # "below" /\ (Storing(x)' => reader'[x].listing >= refresher[f].promise[d])
      <4>1. CASE x = r
        BY <1>10, <2>2, <3>1, <3>2, <4>1
      <4>2. CASE x # r
        <5>1. reader'[x] = reader[x]
          BY <2>2, <4>2
        <5> QED
          BY <2>6, <3>2, <5>1 DEF PromiseInv, Storing
      <4> QED
        BY <4>1, <4>2
    <3>3. RedisCleared(f) => (redis'[d] # None => redis'[d] >= refresher[f].promise[d])
      BY <2>4, <2>6, <3>1 DEF PromiseInv
    <3>4. LocalCleared(f) /\ local'[refresher[f].at][d] # None
          => local'[refresher[f].at][d].listing >= refresher[f].promise[d]
      BY <1>2, <2>4, <2>6, <3>1 DEF PromiseInv
    <3> QED
      BY <1>0, <1>2, <2>6, <3>2, <3>3, <3>4 DEF PromiseInv
  <2> QED
    BY <1>0, <2>2, <2>3, <2>4, <2>5, <2>6, SeenByRequest
<1>11. CASE StoreLocal(r)
  BY <1>10, <1>11 DEF StoreLocal, SetLocal, Storing
<1>12. CASE StoreRedis(r)
  BY <1>10, <1>12 DEF StoreRedis, Storing
<1>13. CASE ReadIndex(r)
  <2>1. InFlight(r) /\ UNCHANGED caches /\ mode.index
    BY <1>13 DEF ReadIndex, InFlight
  <2>2. \A f \in Refreshers : Promising(f, d) /\ RedisCleared(f) =>
          indexed[d] # None /\ indexed[d] >= refresher[f].promise[d]
    BY <1>0, <2>1, Sources
  <2>3. indexed[d] # None => indexed[d] >= promised[d]
    BY <1>1, <2>1, NamesAssumption DEF DirInv, Promise, Missing
  <2>4. CASE Shown(indexed[d]) /\ ReaderGets(r, indexed[d], "store")
    BY <1>5, <2>1, <2>2, <2>3, <2>4 DEF Shown
  <2>5. CASE mode.details /\ ReaderGoes(r, "stale")
    BY <1>6, <2>1, <2>5
  <2>6. CASE ~mode.details /\ ~Shown(indexed[d]) /\ ReaderGoes(r, "below")
    <3>1. indexed[d] = None /\ promised[d] = Missing
      BY <1>1, <2>1, <2>6 DEF Shown, DirInv
    <3>2. /\ \A x \in Readers : x # r => reader'[x] = reader[x]
          /\ reader'[r].phase = "below" /\ reader'[r].dir = d /\ reader'[r].promised = q.promised
      BY <1>0, <2>1, <2>6, ReaderGoesFacts
    <3>3. ReaderInv(r)'
      BY <1>0, <1>1, <2>1, <2>6, <3>1, <3>2 DEF ReaderInv, InFlight, Storing
    <3>4. \A f \in Refreshers : ~(Promising(f, d) /\ RedisCleared(f))
      BY <2>2, <3>1
    <3> QED
      BY <1>3, <2>1, <3>2, <3>3, <3>4
  <2> QED
    BY <1>7, <1>13, <2>1, <2>4, <2>5, <2>6 DEF ReadIndex
<1>14. CASE ReadBelow(r)
  <2>1. /\ InFlight(r) /\ UNCHANGED caches /\ q.phase = "below"
        /\ mode.index /\ ~mode.details /\ promised[d] = Missing
    BY <1>1, <1>14 DEF ReadBelow, InFlight, ReaderInv
  <2>2. Synthetic >= promised[d] /\ q.promised = Missing
    BY <1>0, <1>1, <2>1 DEF Synthetic, Missing, Promise
  <2>3. \A f \in Refreshers : ~(Promising(f, d) /\ RedisCleared(f))
    BY <1>2, <2>1
  <2>4. CASE ReaderGets(r, Synthetic, "store")
    BY <1>5, <2>1, <2>2, <2>3, <2>4
  <2>5. CASE ReaderGoes(r, "stale")
    BY <1>6, <2>1, <2>2, <2>5
  <2> QED
    BY <1>7, <1>14, <2>1, <2>4, <2>5 DEF ReadBelow
<1>15. CASE ListBucket(r)
  <2>1. InFlight(r) /\ UNCHANGED caches /\ ~mode.index
    BY <1>15 DEF ListBucket, InFlight
  <2>2. bucket[d] >= promised[d]
    BY <1>1 DEF DirInv, Promise, Missing
  <2>3. \A f \in Refreshers : Promising(f, d) /\ RedisCleared(f) => bucket[d] >= refresher[f].promise[d]
    BY <1>0, Sources
  <2> QED
    BY <1>5, <1>6, <1>15, <2>1, <2>2, <2>3 DEF ListBucket
<1>16. CASE SkipBucket(r)
  BY <1>6, <1>16 DEF SkipBucket, InFlight
<1>17. CASE ReadStale(r)
  <2>1. InFlight(r) /\ UNCHANGED caches
    BY <1>17 DEF ReadStale, InFlight
  <2>2. CASE local[q.at][d] # None
    <3>1. local[q.at][d].listing >= promised[d]
      BY <1>0, <1>1, <2>2 DEF DirInv
    <3>2. local[q.at][d].listing >= q.promised
      BY <1>0, <1>1, <2>1, <2>2, <3>1 DEF Promise, Missing, Synthetic
    <3> QED
      BY <1>4, <1>17, <2>1, <2>2, <3>2 DEF ReadStale
  <2>3. CASE local[q.at][d] = None /\ ReaderGets(r, Missing, "answered")
                                   /\ IF mode.details THEN mode.public ELSE mode.index
    <3>1. ~mode.details => Missing >= q.promised
      BY <1>1, <1>17, <2>3 DEF ReadStale, ReaderInv, Missing
    <3> QED
      BY <1>4, <2>1, <2>3, <3>1
  <2> QED
    BY <1>7, <1>17, <2>1, <2>2, <2>3 DEF ReadStale
<1>18. CASE EndList(r)
  BY <1>7, <1>18 DEF EndList
<1> QED
  BY <1>8, <1>9, <1>11, <1>12, <1>13, <1>14, <1>15, <1>16, <1>17, <1>18 DEF ReaderStep

\* The first step of a request.
LEMMA SeenBegin ==
  ASSUME TypeOK, TypeOK', TableInv, SeenInv, NEW r \in Readers, BeginList(r)
  PROVE  SeenInv'
<1>1. PICK s \in Servers, d \in Dirs :
        reader' = [reader EXCEPT ![r] =
          [phase |-> "local", at |-> s, dir |-> d, listing |-> 0, promised |-> promised[d]]]
  BY DEF BeginList
<1>2. /\ UNCHANGED <<mode, bucket, indexed, redis, local, promised, refresher>> /\ HandlersType
      /\ promised[d] \in Promise
  BY Numbers DEF BeginList, caches, TypeOK
<1>3. /\ reader'[r].phase = "local" /\ reader'[r].dir = d /\ reader'[r].promised = promised[d]
      /\ \A x \in Readers : x # r => reader'[x] = reader[x]
  BY <1>1, <1>2 DEF HandlersType
<1>4. DirInv(d)'
  BY <1>2 DEF SeenInv, DirInv
<1>5. ReaderInv(r)' /\ ~Storing(r)'
  BY <1>2, <1>3 DEF ReaderInv, InFlight, Storing, Promise, Missing
<1>6. ASSUME NEW f \in Refreshers, Promising(f, d), PromiseInv(f, d)
      PROVE  PromiseInv(f, d)'
  <2>1. ASSUME RedisCleared(f), NEW x \in Readers, (reader[x].phase # "idle")', reader'[x].dir = d
        PROVE  reader'[x].phase # "below" /\ (Storing(x)' => reader'[x].listing >= refresher[f].promise[d])
    <3>1. CASE x = r
      BY <1>3, <1>5, <3>1
    <3>2. CASE x # r
      <4>1. reader'[x] = reader[x]
        BY <1>3, <3>2
      <4> QED
        BY <1>6, <2>1, <4>1 DEF PromiseInv, Storing
    <3> QED
      BY <3>1, <3>2
  <2>2. RedisCleared(f)' = RedisCleared(f) /\ LocalCleared(f)' = LocalCleared(f)
    BY <1>2 DEF RedisCleared, LocalCleared
  <2> QED
    BY <1>2, <1>6, <2>1, <2>2 DEF PromiseInv
<1> QED
  BY <1>2, <1>3, <1>4, <1>5, <1>6, SeenByRequest

\* What is left to show of a step of a refresh: the promises of the others stand,
\* as it only stores in a cache while it holds the lock of the directory.
LEMMA SeenByRefresh ==
  ASSUME OneServer, TypeOK, TypeOK', TableInv, SeenInv, NEW f \in Refreshers,
         UNCHANGED <<mode, bucket, reader>>,
         \A x \in Refreshers : x # f => refresher'[x] = refresher[x],
         \A d \in Dirs :
           \/ redis'[d] \in {redis[d], None} /\ \A s \in Servers : local'[s][d] \in {local[s][d], None}
           \/ mode.index /\ Working(f) /\ d = refresher[f].dir,
         \A d \in Dirs :
           \/ promised'[d] = promised[d]
           \/ /\ Promising(f, d) /\ RedisCleared(f) /\ promised'[d] >= promised[d]
              /\ promised'[d] = refresher[f].promise[d],
         \A d \in Dirs : DirInv(d)',
         \A d \in Dirs : Promising(f, d)' => PromiseInv(f, d)'
  PROVE  SeenInv'
<1>1. ASSUME NEW r \in Readers PROVE ReaderInv(r)'
  <2>1. ReaderInv(r) /\ reader'[r] = reader[r]
    BY DEF SeenInv
  <2>2. CASE reader[r].phase = "idle"
    BY <2>1, <2>2 DEF ReaderInv, InFlight, Storing
  <2>3. CASE reader[r].phase # "idle"
    <3> DEFINE d == reader[r].dir
    <3>1. d \in Dirs /\ reader[r].promised \in Promise /\ promised[d] \in Promise /\ promised'[d] \in Promise
      BY <2>3, Fields DEF TypeOK, StoresType
    <3>2. CASE promised'[d] = promised[d]
      BY <2>1, <3>2 DEF ReaderInv, InFlight, Storing
    <3>3. CASE /\ Promising(f, d) /\ RedisCleared(f) /\ promised'[d] >= promised[d]
               /\ promised'[d] = refresher[f].promise[d]
      <4>1. reader[r].phase # "below" /\ (Storing(r) => reader[r].listing >= promised'[d])
        BY <2>3, <3>1, <3>3 DEF SeenInv, PromiseInv
      <4>2. InFlight(r) => reader[r].promised <= promised'[d]
        BY <2>1, <3>1, <3>3 DEF ReaderInv, Promise, Missing
      <4> QED
        BY <2>1, <4>1, <4>2 DEF ReaderInv, InFlight, Storing
    <3> QED
      BY <3>1, <3>2, <3>3
  <2> QED
    BY <2>2, <2>3
<1>2. ASSUME NEW x \in Refreshers, NEW d \in Dirs, Promising(x, d)', x # f
      PROVE  PromiseInv(x, d)'
  <2>1. Promising(x, d) /\ PromiseInv(x, d) /\ refresher'[x] = refresher[x]
    BY <1>2 DEF SeenInv, Promising
  <2>2. /\ refresher[x].at \in Servers
        /\ RedisCleared(x)' = RedisCleared(x) /\ LocalCleared(x)' = LocalCleared(x)
        /\ \A r \in Readers : Storing(r)' = Storing(r)
    BY <2>1, Fields DEF Promising, RedisCleared, LocalCleared, Storing
  <2>3. CASE redis'[d] \in {redis[d], None} /\ \A s \in Servers : local'[s][d] \in {local[s][d], None}
    BY <2>1, <2>2, <2>3 DEF PromiseInv
  <2>4. CASE mode.index /\ Working(f) /\ d = refresher[f].dir
    <3>1. ~Working(x)
      BY <1>2, <2>1, <2>4, Alone DEF PromiseInv, TableInv
    <3>2. refresher[x].phase = "lock"
      BY <2>1, <3>1 DEF Promising, Working
    <3>3. ~RedisCleared(x) /\ ~LocalCleared(x)
      BY <2>4, <3>2 DEF RedisCleared, LocalCleared
    <3> QED
      BY <2>1, <2>2, <3>3 DEF PromiseInv
  <2> QED
    BY <2>3, <2>4
<1> QED
  BY <1>1, <1>2 DEF SeenInv

\* A directory is below itself.
LEMMA BelowItself == ASSUME NEW d \in Dirs PROVE d \in Below(d)
  BY NamesAssumption DEF Below, IsPrefix

\* The steps of refreshes.
LEMMA SeenRefresher ==
  ASSUME OneServer, Counted = {}, TypeOK, TypeOK', TableInv, SeenInv,
         NEW f \in Refreshers, BeginRefresh(f) \/ Lock(f) \/ RefresherStep(f)
  PROVE  SeenInv'
<1> DEFINE h == refresher[f]
<1>0. /\ mode' = mode /\ HandlersType /\ local \in [Servers -> [Dirs -> LocalEntry \cup {None}]]
      /\ redis \in [Dirs -> Nat \cup {Synthetic, None}] /\ promised \in [Dirs -> Promise]
      /\ h.phase # "idle" => /\ h \in RefresherType /\ h # RefresherIdle
                             /\ h.at \in Servers /\ h.dir \in Dirs /\ h.listing \in Nat
                             /\ h.promise \in [Dirs -> Promise]
      /\ \A d \in Dirs : /\ bucket[d] \in Nat /\ indexed[d] \in Nat \cup {None}
                         /\ promised[d] \in Promise
  BY Fields, ModeStays, Numbers DEF Next, TypeOK, StoresType
<1>1. ASSUME UNCHANGED <<bucket, redis, local, promised>>
      PROVE  \A d \in Dirs : DirInv(d)'
  <2> SUFFICES ASSUME NEW d \in Dirs PROVE DirInv(d)'
    OBVIOUS
  <2>1. indexed[d] # None => indexed'[d] # None /\ indexed'[d] >= indexed[d]
    BY RowsStep DEF Next
  <2>2. indexed'[d] # None => indexed'[d] \in Nat
    BY DEF TypeOK, StoresType
  <2>3. mode.index /\ promised[d] # Missing => indexed'[d] # None /\ indexed'[d] >= promised[d]
    BY <1>0, <2>1, <2>2, NamesAssumption DEF SeenInv, DirInv, Promise, Missing
  <2> QED
    BY <1>0, <1>1, <2>3 DEF SeenInv, DirInv
<1>2. ASSUME UNCHANGED <<bucket, redis, local, promised, reader>>,
             \A x \in Refreshers : x # f => refresher'[x] = refresher[x],
             \A d \in Dirs : Promising(f, d)' => PromiseInv(f, d)'
      PROVE  SeenInv'
  BY <1>0, <1>1, <1>2, SeenByRefresh
<1>3. ASSUME UNCHANGED <<bucket, redis, local, promised, reader>>,
             refresher' = [refresher EXCEPT ![f] = RefresherIdle]
      PROVE  SeenInv'
  BY <1>0, <1>2, <1>3, RefresherEndsFacts DEF Promising
<1>4. CASE BeginRefresh(f)
  <2>1. PICK s \in Servers, d \in Dirs :
          refresher' = [refresher EXCEPT ![f] =
            [phase |-> IF mode.index THEN "lock" ELSE Clearings[1], at |-> s, dir |-> d, listing |-> 0,
             promise |-> [e \in Dirs |-> IF e \in Renewed(d) THEN bucket[e] ELSE Missing]]]
    BY <1>4 DEF BeginRefresh
  <2>2. /\ refresher'[f].phase = IF mode.index THEN "lock" ELSE "dropRedis"
        /\ refresher'[f].dir = d
        /\ refresher'[f].promise = [e \in Dirs |-> IF e \in Renewed(d) THEN bucket[e] ELSE Missing]
        /\ \A x \in Refreshers : x # f => refresher'[x] = refresher[x]
    BY <1>0, <2>1, Order DEF HandlersType
  <2>3. ASSUME NEW e \in Dirs, Promising(f, e)' PROVE PromiseInv(f, e)'
    <3>1. e \in Renewed(d) /\ refresher'[f].promise[e] = bucket[e]
      BY <2>2, <2>3 DEF Promising
    <3>2. e \in Below(d) /\ (mode.index => e = d)
      BY <3>1, BelowItself DEF Renewed
    <3>3. UNCHANGED <<bucket, reader>> /\ bucket[e] \in Nat
      BY <1>0, <1>4 DEF BeginRefresh
    <3>4. ~RedisCleared(f)' /\ ~LocalCleared(f)'
      BY <1>0, <2>2 DEF RedisCleared, LocalCleared
    <3>5. mode'.index => e = refresher'[f].dir /\ refresher'[f].phase = "lock"
      BY <1>0, <2>2, <3>2
    <3> QED
      BY <2>2, <3>1, <3>2, <3>3, <3>4, <3>5 DEF PromiseInv
  <2> QED
    BY <1>2, <1>4, <2>2, <2>3 DEF BeginRefresh, caches
\* A step of a refresh with the index before it clears a cache.
<1>5. ASSUME UNCHANGED <<bucket, redis, local, promised, reader>>, h.phase # "idle",
             \A x \in Refreshers : x # f => refresher'[x] = refresher[x],
             refresher'[f].phase # "idle", refresher'[f].at = h.at, refresher'[f].dir = h.dir,
             refresher'[f].promise = h.promise,
             refresher'[f].phase \in {"list", "replace", "dropLocal"}, mode.index,
             refresher'[f].phase # "list" =>
               \A d \in Dirs : Promising(f, d) /\ d = h.dir => refresher'[f].listing >= h.promise[d]
      PROVE  SeenInv'
  <2>1. ASSUME NEW d \in Dirs, Promising(f, d)' PROVE PromiseInv(f, d)'
    <3>1. Promising(f, d) /\ PromiseInv(f, d)
      BY <1>5, <2>1 DEF Promising, SeenInv
    <3>2. ~RedisCleared(f)' /\ ~LocalCleared(f)'
      BY <1>0, <1>5 DEF RedisCleared, LocalCleared
    <3> QED
      BY <1>0, <1>5, <3>1, <3>2 DEF PromiseInv
  <2> QED
    BY <1>2, <1>5, <2>1
<1>6. CASE Lock(f)
  <2>1. /\ h.phase # "idle" /\ mode.index
        /\ UNCHANGED <<bucket, redis, local, promised, reader>>
    BY <1>6 DEF Lock, TableInv, PhaseInv, caches
  <2>2. /\ refresher'[f].phase = "list" /\ refresher'[f].at = h.at /\ refresher'[f].dir = h.dir
        /\ refresher'[f].promise = h.promise
        /\ \A x \in Refreshers : x # f => refresher'[x] = refresher[x]
    BY <1>0, <1>6, <2>1, RefresherGoesFacts DEF Lock
  <2> QED
    BY <1>5, <2>1, <2>2
<1>7. CASE ListForIndex(f)
  <2>1. /\ h.phase # "idle" /\ mode.index
        /\ UNCHANGED <<bucket, redis, local, promised, reader>>
    BY <1>7 DEF ListForIndex, TableInv, PhaseInv, caches
  <2>2. CASE Fail(f)
    BY <1>3, <2>1, <2>2 DEF Fail
  <2>3. CASE refresher' = [refresher EXCEPT ![f] =
               [@ EXCEPT !.phase = "replace", !.listing = bucket[refresher[f].dir]]]
    <3>1. PICK q \in RefresherType, n \in Nat : q = refresher[f] /\ n = bucket[refresher[f].dir]
      BY <1>0, <2>1
    <3>2. LET w == [q EXCEPT !.phase = "replace", !.listing = n]
          IN  /\ w.phase = "replace" /\ w.listing = n /\ w.at = q.at /\ w.dir = q.dir
              /\ w.promise = q.promise
      BY DEF RefresherType
    <3>3. /\ \A x \in Refreshers : x # f => refresher'[x] = refresher[x]
          /\ refresher'[f].phase = "replace" /\ refresher'[f].listing = bucket[h.dir]
          /\ refresher'[f].at = h.at /\ refresher'[f].dir = h.dir
          /\ refresher'[f].promise = h.promise
      BY <1>0, <2>3, <3>1, <3>2 DEF HandlersType
    <3>4. \A d \in Dirs : Promising(f, d) /\ d = h.dir => refresher'[f].listing >= h.promise[d]
      BY <1>0, <2>1, <3>3 DEF SeenInv, PromiseInv, Promise, Missing
    <3> QED
      BY <1>5, <2>1, <3>3, <3>4
  <2> QED
    BY <1>7, <2>2, <2>3 DEF ListForIndex
<1>8. CASE Replace(f)
  <2>1. /\ h.phase = "replace" /\ mode.index
        /\ UNCHANGED <<bucket, redis, local, promised, reader>>
    BY <1>8 DEF Replace, Fail, TableInv, PhaseInv, caches
  <2>2. CASE RefresherGoes(f, Clearings[1])
    <3>1. /\ refresher'[f].phase = "dropLocal" /\ refresher'[f].at = h.at /\ refresher'[f].dir = h.dir
          /\ refresher'[f].promise = h.promise /\ refresher'[f].listing = h.listing
          /\ \A x \in Refreshers : x # f => refresher'[x] = refresher[x]
      BY <1>0, <2>1, <2>2, RefresherGoesFacts, Order
    <3>2. \A d \in Dirs : Promising(f, d) /\ d = h.dir => refresher'[f].listing >= h.promise[d]
      BY <2>1, <3>1 DEF SeenInv, PromiseInv
    <3> QED
      BY <1>5, <2>1, <3>1, <3>2
  <2> QED
    BY <1>3, <1>8, <2>1, <2>2 DEF Replace, Fail
\* An answered refresh gives its promise: the caches of a directory hold nothing
\* behind it, and neither does what requests will store.
<1>9. ASSUME Acknowledge(f, h.promise), UNCHANGED <<bucket, indexed, reader>>, RedisCleared(f),
             \A d \in Dirs :
               \/ redis'[d] \in {redis[d], None} /\ \A s \in Servers : local'[s][d] \in {local[s][d], None}
               \/ mode.index /\ Working(f) /\ d = refresher[f].dir,
             \A d \in Dirs : /\ redis'[d] # None => redis'[d] >= promised[d]
                             /\ \A s \in Servers : local'[s][d] # None => local'[s][d].listing >= promised[d],
             \A d \in Dirs : Promising(f, d) =>
               /\ redis'[d] # None => redis'[d] >= h.promise[d]
               /\ \A s \in Servers : local'[s][d] # None => local'[s][d].listing >= h.promise[d]
      PROVE  SeenInv'
  <2>0. h.phase # "idle"
    BY <1>9 DEF RedisCleared
  <2>1. /\ \A x \in Refreshers : x # f => refresher'[x] = refresher[x]
        /\ refresher'[f].phase = "idle"
    BY <1>0, <1>9, RefresherEndsFacts DEF Acknowledge
  <2>2. ASSUME NEW d \in Dirs
        PROVE  promised'[d] = IF promised[d] >= h.promise[d] THEN promised[d] ELSE h.promise[d]
    BY <1>9 DEF Acknowledge, Later
  <2>3. ASSUME NEW d \in Dirs
        PROVE  \/ promised'[d] = promised[d]
               \/ Promising(f, d) /\ promised'[d] >= promised[d] /\ promised'[d] = h.promise[d]
    BY <1>0, <2>0, <2>2 DEF Promising, Promise, Missing
  <2>4. ASSUME NEW d \in Dirs PROVE DirInv(d)'
    <3>1. CASE promised'[d] = promised[d]
      BY <1>0, <1>9, <3>1 DEF SeenInv, DirInv
    <3>2. CASE Promising(f, d) /\ promised'[d] = h.promise[d]
      <4>1. h.promise[d] <= bucket[d] /\ (mode.index => indexed[d] # None /\ indexed[d] >= h.promise[d])
        BY <1>9, <3>2, Sources DEF SeenInv, PromiseInv
      <4> QED
        BY <1>0, <1>9, <3>2, <4>1 DEF DirInv
    <3> QED
      BY <2>3, <3>1, <3>2
  <2>5. \A d \in Dirs :
          \/ promised'[d] = promised[d]
          \/ /\ Promising(f, d) /\ RedisCleared(f) /\ promised'[d] >= promised[d]
             /\ promised'[d] = refresher[f].promise[d]
    BY <1>9, <2>3
  <2> QED
    BY <1>0, <1>9, <2>1, <2>4, <2>5, SeenByRefresh DEF Promising
\* A step that goes on, and stores in no cache or does so with the lock.
<1>10. ASSUME UNCHANGED <<bucket, indexed, promised, reader>>, h.phase # "idle",
              \A x \in Refreshers : x # f => refresher'[x] = refresher[x],
              \A d \in Dirs :
                \/ redis'[d] \in {redis[d], None} /\ \A s \in Servers : local'[s][d] \in {local[s][d], None}
                \/ /\ mode.index /\ Working(f) /\ d = refresher[f].dir
                   /\ redis'[d] # None => redis'[d] >= promised[d]
                   /\ \A s \in Servers : local'[s][d] # None => local'[s][d].listing >= promised[d],
              \A d \in Dirs : Promising(f, d)' => PromiseInv(f, d)'
       PROVE  SeenInv'
  <2>1. ASSUME NEW d \in Dirs PROVE DirInv(d)'
    BY <1>0, <1>10, <2>1 DEF SeenInv, DirInv
  <2> QED
    BY <1>0, <1>10, <2>1, SeenByRefresh
<1>11. mode.index /\ Replaced(f) => h.listing >= promised[h.dir] /\ indexed[h.dir] = h.listing
  BY <1>0, NamesAssumption DEF TableInv, IndexInv, RowsInv, SeenInv, DirInv, Promise, Missing, Replaced
<1>12. CASE DropLocal(f)
  <2>1. /\ h.phase = "dropLocal" /\ UNCHANGED <<bucket, indexed, redis, reader>>
        /\ \A d \in Dirs, s \in Servers :
             local'[s][d] = IF s = h.at /\ d \in Below(h.dir) THEN None ELSE local[s][d]
        /\ Cleared(f, h.promise)
    BY <1>0, <1>12 DEF DropLocal
  <2>2. CASE mode.index
    <3>1. /\ refresher'[f].phase = "dropRedis" /\ refresher'[f].at = h.at /\ refresher'[f].dir = h.dir
          /\ refresher'[f].promise = h.promise /\ refresher'[f].listing = h.listing
          /\ \A x \in Refreshers : x # f => refresher'[x] = refresher[x]
          /\ UNCHANGED promised
      BY <1>0, <2>1, <2>2, ClearedFacts
    <3>2. ASSUME NEW d \in Dirs, Promising(f, d)' PROVE PromiseInv(f, d)'
      <4>1. Promising(f, d) /\ PromiseInv(f, d)
        BY <2>1, <3>1, <3>2 DEF Promising, SeenInv
      <4>2. ~RedisCleared(f)' /\ ~LocalCleared(f)'
        BY <1>0, <2>2, <3>1 DEF RedisCleared, LocalCleared
      <4> QED
        BY <1>0, <2>1, <2>2, <3>1, <4>1, <4>2 DEF PromiseInv
    <3> QED
      BY <1>10, <2>1, <3>1, <3>2
  <2>3. CASE ~mode.index
    <3>1. Acknowledge(f, h.promise) /\ RedisCleared(f)
      BY <1>0, <2>1, <2>3, ClearedFacts DEF RedisCleared
    <3>2. ASSUME NEW d \in Dirs, Promising(f, d)
          PROVE  /\ redis'[d] # None => redis'[d] >= h.promise[d]
                 /\ \A s \in Servers : local'[s][d] = None
      <4>1. PromiseInv(f, d)
        BY <3>2 DEF SeenInv
      <4> QED
        BY <1>0, <2>1, <3>1, <4>1 DEF PromiseInv, OneServer
    <3>3. \A d \in Dirs : /\ redis'[d] # None => redis'[d] >= promised[d]
                          /\ \A s \in Servers : local'[s][d] # None => local'[s][d].listing >= promised[d]
      BY <2>1 DEF SeenInv, DirInv
    <3> QED
      BY <1>9, <2>1, <3>1, <3>2, <3>3
  <2> QED
    BY <2>2, <2>3
<1>13. CASE DropRedis(f)
  <2> DEFINE kept == [d \in Dirs |-> IF Undercut(h, d) THEN Missing ELSE h.promise[d]]
             none == [d \in Dirs |-> Missing]
  <2>1. /\ h.phase = "dropRedis" /\ UNCHANGED <<bucket, indexed, local, reader>>
        /\ \A d \in Dirs : redis'[d] \in {redis[d], None}
    BY <1>0, <1>13 DEF DropRedis
  <2>2. kept \in [Dirs -> Promise] /\ none \in [Dirs -> Promise]
    BY <1>0, <2>1 DEF Promise
  <2>3. CASE /\ redis' = [d \in Dirs |-> IF d \in Below(h.dir) THEN None ELSE redis[d]]
             /\ Cleared(f, kept)
    <3> HIDE DEF kept
    <3>1. /\ refresher'[f].phase = IF mode.index THEN "storeLocal" ELSE "dropLocal"
          /\ refresher'[f].at = h.at /\ refresher'[f].dir = h.dir
          /\ refresher'[f].promise = kept /\ refresher'[f].listing = h.listing
          /\ \A x \in Refreshers : x # f => refresher'[x] = refresher[x]
          /\ UNCHANGED promised
      BY <1>0, <2>1, <2>2, <2>3, ClearedFacts
    <3>2. ASSUME NEW d \in Dirs, Promising(f, d)' PROVE PromiseInv(f, d)'
      <4>1. ~Undercut(h, d) /\ refresher'[f].promise[d] = h.promise[d]
        BY <3>1, <3>2 DEF Promising, kept
      <4>2. Promising(f, d) /\ PromiseInv(f, d)
        BY <2>1, <3>2, <4>1 DEF Promising, SeenInv
      <4>3. redis'[d] = None
        BY <2>3, <4>2 DEF PromiseInv
      <4>4. \A r \in Readers : Holding(r) => reader[r].dir # d
        BY <4>1 DEF Undercut
      <4>5. \A r \in Readers : (reader[r].phase # "idle")' /\ reader'[r].dir = d =>
              reader'[r].phase # "below" /\ ~Storing(r)'
        BY <2>1, <4>4 DEF Holding, Storing
      <4>6. LocalCleared(f)' => local'[h.at][d] = None
        BY <1>0, <2>1, <3>1, <4>1 DEF Undercut, LocalCleared
      <4> QED
        BY <1>0, <2>1, <3>1, <4>1, <4>2, <4>3, <4>5, <4>6 DEF PromiseInv
    <3> QED
      BY <1>10, <2>1, <3>1, <3>2
  <2>4. CASE mode.index /\ Cleared(f, none)
    <3> HIDE DEF none
    <3>1. /\ \A x \in Refreshers : x # f => refresher'[x] = refresher[x]
          /\ refresher'[f].promise = none /\ UNCHANGED promised
      BY <1>0, <2>1, <2>2, <2>4, ClearedFacts
    <3>2. \A d \in Dirs : ~Promising(f, d)'
      BY <3>1 DEF Promising, none
    <3> QED
      BY <1>10, <2>1, <3>1, <3>2
  <2>5. CASE refresher' = [refresher EXCEPT ![f] = RefresherIdle] /\ UNCHANGED promised
    <3>1. /\ \A x \in Refreshers : x # f => refresher'[x] = refresher[x]
          /\ refresher'[f].phase = "idle"
      BY <1>0, <2>5, RefresherEndsFacts
    <3> QED
      BY <1>10, <2>1, <2>5, <3>1 DEF Promising
  <2> QED
    BY <1>13, <2>3, <2>4, <2>5 DEF DropRedis
<1>14. CASE RefreshStoresLocal(f)
  <2>1. /\ h.phase = "storeLocal" /\ mode.index /\ Working(f) /\ Replaced(f)
        /\ UNCHANGED <<bucket, indexed, redis, reader, promised>>
    BY <1>14 DEF RefreshStoresLocal, TableInv, PhaseInv, Working, Replaced
  <2>2. \A d \in Dirs, s \in Servers :
          \/ local'[s][d] = local[s][d] /\ (mode.details \/ s # h.at \/ d # h.dir)
          \/ s = h.at /\ d = h.dir /\ local'[s][d].listing = h.listing
    BY <1>0, <1>14 DEF RefreshStoresLocal, SetLocal, Entry
  <2>3. /\ refresher'[f].phase = "storeRedis" /\ refresher'[f].at = h.at /\ refresher'[f].dir = h.dir
        /\ refresher'[f].promise = h.promise /\ refresher'[f].listing = h.listing
        /\ \A x \in Refreshers : x # f => refresher'[x] = refresher[x]
    BY <1>0, <1>14, <2>1, RefresherGoesFacts DEF RefreshStoresLocal
  <2>4. ASSUME NEW d \in Dirs, Promising(f, d)' PROVE PromiseInv(f, d)'
    <3>1. Promising(f, d) /\ PromiseInv(f, d) /\ d = h.dir /\ h.listing >= h.promise[d]
      BY <2>1, <2>3, <2>4 DEF Promising, SeenInv, PromiseInv
    <3>2. RedisCleared(f) /\ RedisCleared(f)' /\ \A r \in Readers : Storing(r)' = Storing(r)
      BY <1>0, <2>1, <2>3 DEF RedisCleared, Storing
    <3>3. local'[h.at][d] # None => local'[h.at][d].listing >= h.promise[d]
      BY <1>0, <2>1, <2>2, <3>1 DEF PromiseInv, LocalCleared
    <3> QED
      BY <1>0, <2>1, <2>3, <3>1, <3>2, <3>3 DEF PromiseInv
  <2>5. ASSUME NEW d \in Dirs
        PROVE  \/ \A s \in Servers : local'[s][d] = local[s][d]
               \/ d = h.dir /\ \A s \in Servers : local'[s][d] # None => local'[s][d].listing >= promised[d]
    BY <1>0, <1>11, <2>1, <2>2, <2>5 DEF SeenInv, DirInv
  <2>6. \A d \in Dirs : redis[d] # None => redis[d] >= promised[d]
    BY DEF SeenInv, DirInv
  <2> QED
    BY <1>10, <2>1, <2>3, <2>4, <2>5, <2>6
<1>15. CASE RefreshStoresRedis(f)
  <2>1. /\ h.phase = "storeRedis" /\ mode.index /\ Working(f) /\ Replaced(f)
        /\ UNCHANGED <<bucket, indexed, local, reader>> /\ Acknowledge(f, h.promise)
    BY <1>15 DEF RefreshStoresRedis, TableInv, PhaseInv, Working, Replaced
  <2>2. RedisCleared(f) /\ LocalCleared(f)
    BY <2>1 DEF RedisCleared, LocalCleared
  <2>3. \/ \A d \in Dirs : redis'[d] = IF d = h.dir THEN h.listing ELSE redis[d]
        \/ UNCHANGED redis
    BY <1>0, <1>15 DEF RefreshStoresRedis
  <2>4. \A d \in Dirs : /\ redis'[d] # None => redis'[d] >= promised[d]
                        /\ \A s \in Servers : local'[s][d] # None => local'[s][d].listing >= promised[d]
    BY <1>0, <1>11, <2>1, <2>3 DEF SeenInv, DirInv
  <2>5. ASSUME NEW d \in Dirs, Promising(f, d)
        PROVE  /\ redis'[d] # None => redis'[d] >= h.promise[d]
               /\ \A s \in Servers : local'[s][d] # None => local'[s][d].listing >= h.promise[d]
    <3>1. PromiseInv(f, d)
      BY <2>5 DEF SeenInv
    <3>2. d = h.dir /\ h.listing >= h.promise[d]
      BY <2>1, <3>1 DEF PromiseInv
    <3>3. \A s \in Servers : local'[s][d] # None => local'[s][d].listing >= h.promise[d]
      BY <1>0, <2>1, <2>2, <3>1 DEF PromiseInv, OneServer
    <3>4. redis'[d] # None => redis'[d] >= h.promise[d]
      BY <2>2, <2>3, <3>1, <3>2 DEF PromiseInv
    <3> QED
      BY <3>3, <3>4
  <2>6. \A d \in Dirs :
          \/ redis'[d] \in {redis[d], None} /\ \A s \in Servers : local'[s][d] \in {local[s][d], None}
          \/ mode.index /\ Working(f) /\ d = refresher[f].dir
    BY <2>1, <2>3
  <2> QED
    BY <1>9, <2>1, <2>2, <2>4, <2>5, <2>6
<1> QED
  BY <1>4, <1>6, <1>7, <1>8, <1>12, <1>13, <1>14, <1>15 DEF RefresherStep

\* The bucket and time.
LEMMA SeenEnvironment ==
  ASSUME TypeOK, TypeOK', SeenInv,
         \/ \E d \in Dirs : BucketChanges(d) \/ RedisExpires(d)
         \/ \E s \in Servers, d \in Dirs : LocalExpires(s, d) \/ LocalGoes(s, d)
         \/ UNCHANGED vars
  PROVE  SeenInv'
<1>1. UNCHANGED <<mode, indexed, reader, refresher, promised>>
  BY DEF BucketChanges, RedisExpires, LocalExpires, LocalGoes, vars, caches
<1>2. \A d \in Dirs : bucket'[d] >= bucket[d] /\ redis'[d] \in {redis[d], None}
  BY Numbers DEF BucketChanges, RedisExpires, LocalExpires, LocalGoes, vars, caches, TypeOK, StoresType
<1>3. ASSUME NEW s \in Servers, NEW d \in Dirs
      PROVE  /\ local[s][d] = None => local'[s][d] = None
             /\ local'[s][d] # None => local'[s][d].listing = local[s][d].listing
  <2>1. local[s][d] \in LocalEntry \cup {None} /\ local \in [Servers -> [Dirs -> LocalEntry \cup {None}]]
    BY DEF TypeOK, StoresType
  <2>2. ASSUME NEW t \in Servers, NEW e \in Dirs, LocalExpires(t, e)
        PROVE  /\ local[s][d] = None => local'[s][d] = None
               /\ local'[s][d] # None => local'[s][d].listing = local[s][d].listing
    <3>1. PICK entry \in LocalEntry : entry = local[t][e]
      BY <2>1, <2>2 DEF LocalExpires, Fresh, TypeOK, StoresType
    <3>2. LET w == [entry EXCEPT !.fresh = FALSE] IN w.listing = entry.listing
      BY DEF LocalEntry
    <3>3. local' = [local EXCEPT ![t] = [local[t] EXCEPT ![e] = [local[t][e] EXCEPT !.fresh = FALSE]]]
      BY <2>2 DEF LocalExpires
    <3>4. local[t][e] # None
      BY <2>2 DEF LocalExpires, Fresh
    <3> QED
      BY <2>1, <3>1, <3>2, <3>3, <3>4
  <2>3. ASSUME NEW t \in Servers, NEW e \in Dirs, LocalGoes(t, e)
        PROVE  local'[s][d] \in {local[s][d], None}
    BY <2>1, <2>3 DEF LocalGoes
  <2>4. (\E e \in Dirs : BucketChanges(e) \/ RedisExpires(e)) \/ UNCHANGED vars => local' = local
    BY DEF BucketChanges, RedisExpires, vars, caches
  <2> QED
    BY <2>2, <2>3, <2>4
<1>4. ASSUME NEW d \in Dirs PROVE DirInv(d)'
  <2>1. DirInv(d) /\ bucket[d] \in Nat /\ bucket'[d] \in Nat /\ promised[d] \in Promise
    BY Numbers, <1>4 DEF SeenInv, TypeOK, StoresType
  <2>2. promised'[d] <= bucket'[d]
    BY <1>1, <1>2, <2>1 DEF DirInv, Promise, Missing
  <2> QED
    BY <1>1, <1>2, <1>3, <2>1, <2>2 DEF DirInv
<1>5. ASSUME NEW r \in Readers PROVE ReaderInv(r)'
  BY <1>1 DEF SeenInv, ReaderInv, InFlight, Storing
<1>6. ASSUME NEW f \in Refreshers, NEW d \in Dirs, Promising(f, d)' PROVE PromiseInv(f, d)'
  <2>1. Promising(f, d) /\ PromiseInv(f, d)
    BY <1>1, <1>6 DEF SeenInv, Promising
  <2>2. /\ refresher[f].at \in Servers /\ refresher[f].promise[d] \in Promise
        /\ bucket[d] \in Nat /\ bucket'[d] \in Nat
    BY <2>1, Fields, Numbers DEF Promising, TypeOK, StoresType
  <2>3. refresher[f].promise[d] <= bucket'[d]
    BY <1>2, <2>1, <2>2 DEF PromiseInv, Promise, Missing
  <2>4. /\ RedisCleared(f)' = RedisCleared(f) /\ LocalCleared(f)' = LocalCleared(f)
        /\ \A r \in Readers : Storing(r)' = Storing(r)
    BY <1>1 DEF RedisCleared, LocalCleared, Storing
  <2> QED
    BY <1>1, <1>2, <1>3, <2>1, <2>2, <2>3, <2>4 DEF PromiseInv
<1> QED
  BY <1>4, <1>5, <1>6 DEF SeenInv

\* Nothing is promised in the beginning.
LEMMA InitSeen == Init => SeenInv
<1> SUFFICES ASSUME Init PROVE SeenInv
  OBVIOUS
<1>1. \A d \in Dirs : DirInv(d)
  BY DEF Init, DirInv, Missing
<1>2. \A r \in Readers : ReaderInv(r)
  BY DEF Init, ReaderInv, InFlight, Storing, ReaderIdle
<1>3. \A f \in Refreshers : \A d \in Dirs : ~Promising(f, d)
  BY DEF Init, Promising, RefresherIdle
<1> QED
  BY <1>1, <1>2, <1>3 DEF SeenInv

\* After a refresh has been answered, a request shows each directory it renewed,
\* and the files in it, at least as they were when the refresh began
\* (README.md:57): for one server and any number of requests and refreshes at
\* once, whatever calls fail, and for the promises that Undercut does not take
\* back.  It rests on the order in which the two caches are cleared and on the
\* lock (router.go:456-460; file_index.go:277-303).
THEOREM RefreshIsSeen ==
  ASSUME OneServer, Counted = {}
  PROVE  Spec => []RefreshSeen
<1> DEFINE Inv == TypeOK /\ TableInv /\ SeenInv
<1>1. Init => Inv
  BY InitType, InitTable, InitSeen
<1>2. Inv /\ [Next]_vars => Inv'
  <2> SUFFICES ASSUME Inv, [Next]_vars PROVE Inv'
    OBVIOUS
  <2>1. TypeOK'
    BY TypeStep
  <2>2. TableInv'
    BY <2>1, TableStep
  <2>3. SeenInv'
    BY <2>1, SeenBegin, SeenReader, SeenRefresher, SeenEnvironment DEF Next
  <2> QED
    BY <2>1, <2>2, <2>3
<1>3. Inv => RefreshSeen
  BY DEF SeenInv, ReaderInv, RefreshSeen, Answered
<1> QED
  BY <1>1, <1>2, <1>3, PTL DEF Spec

=============================================================================
