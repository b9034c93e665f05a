# PanShow: models, checks and proofs

PanShow is a Go backend, with a browser front end, that lists and serves the files of an R2
bucket. It protects directories with passwords, keeps an index of directories in PostgreSQL,
caches listings in Redis and in memory, limits failed logins and shows announcements. Several
backend processes may share one PostgreSQL and one Redis.

This directory holds TLA+ modules of its stateful parts, TLC configurations that check them on
small instances, and proofs for every value of the constants that TLAPS checks. Paths such as
`router.go:304` are under `backend/internal/httpapi/` unless they say otherwise;
`redis_store.go` is in `backend/internal/session/`, and `README.md:57` is the repository's.

    tlc -workers 2 -config DirectoryAccess_freshness.cfg MCDirectoryAccess   # model-check
    tlapm DirectoryAccessProofs.tla                                          # check proofs

`PROJECT.json` lists the runs, the source lines behind each definition, the hazards and, for each
property, a mutated definition (`MUTANT_*`) under which its run fails.

## 1. The system's parts

**Directory passwords** (`router.go:464-492, 735-870, 1014-1076`, `access_index.go`,
`redis_store.go:95-105, 149-185`). *State*: the rules in PostgreSQL, each with a path, a secret,
a switch and a version; a counter in Redis; in each process an index of the enforced rules with
the version it was filed under, a time to live and a lock; passes in Redis under token, path and
rule version, with nothing that tells one rule from another: every rule starts at version 1.
*Operations*: administrators create, update and delete rules, which commits, drops
the process's index and increments the counter; visitors submit a password, which stores a pass;
every request for a path below a rule reads the counter, then the index (loading it where the
version differs), then the passes. *Hard*: the counter, the table and the index are changed and
read in separate steps by many processes, Redis may fail at any of them, a process may stop
between two. *Correct* if an answered change is seen by all later requests, and a changed password
invalidates the passes given for the old one; the second is so only in part (section 3).

**File listings** (`router.go:204-312, 432-463, 1264-1305, 1342-1372`, `file_index.go`,
`r2_cache.go`). *State*: the bucket, the index tables, Redis keys `r2:list:*`, a cache in each
process whose entries are fresh, then stale, then gone, one lock per directory in each process.
*Operations*: list a directory (local cache, Redis, then the index or the bucket, then a stale
entry), refresh one (clear the caches; with the index, list the bucket, replace the rows, clear
and refill). The refresher of today's directory and the backfill call the same refresh. *Hard*:
readers store what they read earlier; two caches refill each other; Redis, R2 and PostgreSQL
fail in between. *Correct* if a refresh is seen, the index never goes back, and no cache keeps an
old listing for ever.

**Index backfill** (`file_index_backfill.go`). *State*: one run at a time, its counters, a
feeder goroutine, an unbuffered channel, up to eight workers. *Operations*: start, cancel, poll;
each worker takes a date, skips, refreshes and records it. *Hard*: cancel at any moment, workers
counting together, ends of runs. *Correct* if each date is counted once, a run not reported as
canceled did all, nothing outlives a run, and each run ends.

**Login limiter** (`router.go:152-191, 957-1013`, `redis_store.go:119-147`). *State*: counters
with a TTL for client addresses and user names. *Operations*: a login reads both, checks the
password, then increments both, or deletes the user's. *Hard*: check, increment and `EXPIRE` are
commands of their own. *Correct* if no counter lives for ever and the limit is overshot by no
more than the requests in flight.

**Announcements** (`router.go:609-733, 1091-1161`, `redis_store.go:107-117`). *State*: rows in
PostgreSQL, a counter in Redis and lists of the enabled ones, filed for five minutes under the
counter's value. *Operations*: administrators create, update, delete and refresh, which commits,
increments and deletes the lists; a request for a listing starts a goroutine that reads the counter,
then a list or the table, files it, and sends the result to the handler, which may have returned. *Hard*: as for directory passwords, and Redis may lose the counter, which then
passes old values again. *Correct* in the sense of directory passwords, and if no goroutine hangs.

**Local response cache** (`r2_cache.go`). *State*: items with their times and sizes, a count of
bytes, a lock. *Operations*: set, get, delete by patterns, prune to 128 items and 16 MB. *Hard*: the
clock is read outside the lock, an expired item is read and removed in two critical sections.
*Correct* if both limits hold, the count is right and only old items are evicted.

**Users and sessions** (`router.go:152-202, 513-598, 875-955`, `redis_store.go:48-89`,
`cmd/server/main.go:79-102`). *State*: users in PostgreSQL, sessions in Redis, each server's start.
*Operations*: log in, log out, authenticate a request, create and update users, make sure at start
that there is an administrator. *Hard*: a user changes between the steps of a login or a request;
several servers start at once. *Correct* if a handler works for a user as they were since its
request began, and servers can start.

**Paths** (`service/path.go`, `storage/r2.go:214-246`, `router.go:1342-1383`): functions that give
the normal form, ancestors, keys of the bucket and of the caches, and two kinds of patterns. *Hard*:
they have to agree with each other. **Log files** (`cmd/server/logging.go`): the active file and
its archives, rotated by day and size. *Hard*: any call of the file system may fail half-way through.
**Browser** (`frontend/src/App.tsx:139-269`): route, history of the buttons, loads that are not
cancelled. *Hard*: answers out of order. **R2 client** (`storage/r2.go`): calls of the S3 API.
**Configuration**, **serving of the front end**: no state.

*Interactions*. Handlers of files first pass the access check of directory passwords; listings
also wait for the announcements loaded by a goroutine. Backfill, refresher of today and the
refresh button all run `refreshDirectoryIndex`. Everything shared between processes is in
PostgreSQL and Redis; inside a process there are the rule index, the local cache, the directory
locks and the runner of the backfill, each with a mutex of its own.

## 2. Modules

| Module | What it is |
|---|---|
| `FreshReads` | abstract: a table read through a cache that honours acknowledged changes |
| `DirectoryAccess`, `MCDirectoryAccess` | directory passwords; implements `FreshReads` |
| `DirectoryAccessProofs`, `DirectoryAccessRefines` | its invariants and refinement, proved |
| `BatchJob` | abstract: a job over items, each settled once, stopped only when asked |
| `Backfill`, `BackfillProofs` | the backfill; implements `BatchJob`, proved |
| `LoginLimiter` | the login limiter |
| `Accounts` | users, sessions, servers that start |
| `LoginsProofs` | the invariants of these two, proved |
| `MCLogins` | instances of `LoginLimiter` and `Accounts`, each behaviour of one |
| `FileListing`, `MCFileListing` | listings, details, refreshes, both caches and the index |
| `FileListingProofs` | its invariants, proved on one server |
| `Announcements`, `MCAnnouncements` | announcements; implements `FreshReads` |
| `AnnouncementsProofs` | its invariant and refinement, proved |
| `ResponseCache`, `LogFile`, `Browser` | one module for each of these parts |
| `PartsProofs` | the invariants of these three, proved |
| `Paths`, `PathsProofs` | paths, keys and patterns; proved for strings of any length |
| `MCParts` | their instances, each behaviour of one |

*Grain of steps.* One action is one call to PostgreSQL, Redis or R2, or one critical section of
a mutex: what other processes or goroutines can see. A handler is a record with a phase, its
local variables and, in history fields, what it was promised. Errors of a call are a disjunct
enabled by a name in `Faults`. A crash (`DirectoryAccess`) ends all handlers of a server and
empties its index.

*Data.* A path is the sequence of its names, so that "below" is `IsPrefix`. A bcrypt hash is the
secret it was made from. A listing is the number of changes its directory had seen in the bucket
when it was read; `Synthetic` and `Missing` are the made-up and the empty listing of a directory
without rows. A backfill date is its position in the run. A TTL is an action that may happen at any
moment after it was set, so that no property depends on how long it is. `owners` is a history
variable that no guard reads: which rules each path has ever had.

*DirectoryAccess.* `CreateRule`, `ReadRule`/`WriteRule` (an update reads the row first, and writes
`version + 1` of what it read), `DeleteRule` commit; `Invalidate` waits for the index's lock as the
code does; `Bump` is the `INCR`, and `BumpFails` one that returns an error, applied or not; `Reply`
the answer, before which the row is read again. That go-redis repeats a command whose answer is lost
is one `INCR` here: a second one only makes indexes and lists stale once more, and in `LoginLimiter`
counts an attempt twice, by which `OvershootBounded` would have to be relaxed. A check is
`BeginCheck`, `GetVersion` (on an error: drop the index and use a version nobody else has), `Hit` or
`Load`/`Publish` under the lock, `CheckPasses`, `Finish`. A submit is `SubmitRead`, `MarkPassed`. A
pass is its key (token, path, version) and, as a history field, the secret it was given for. The
version made of the nanosecond clock is the request's own name: two requests get different ones, and
none is a counter value. Administrators' own checks return at once and are left out.

*Backfill.* `main` is the goroutine of the run: spawn, feed, wait, finish; `observed` is the
`ctx.Err()` its deferred function read before `Finish`. Workers go from the channel through
begin, check, refresh, record and leave, each a critical section of the runner or a call.

*LoginLimiter.* One action per Redis command and one for the look at the password. Windows are
not counted: any counter that has a TTL may expire.

*FileListing.* `mode` is what the configuration and the kind of request decide, fixed for a
behaviour: with or without the index, listings of directories or details of a file in them, with or
without a public URL. `ReadLocal`, `ReadRedis`, `StoreLocal` (a fill from Redis, or the first half of
a store), `StoreRedis`, `ReadIndex` and `ReadBelow` (two queries), `ListBucket`, `ReadStale` are
`listFiles` and `fileDetail`, where `SkipBucket` answers without the bucket for a public URL; `Lock`
to `RefreshStoresRedis` are `refreshDirectoryIndex`, and `DropRedis`, `DropLocal` alone are a refresh
without the index. The `SCAN` and `DEL` that clear Redis are one step, which may clear only some of
the keys if it fails; a list of several pages is one read. The rows of a directory are read at its
second query: rows are never removed once there, so the first one's finding stays true. A cache TTL
of zero, which switches the caches off, is left out, and so is a server that stops: its cache and
locks go with it, and Redis is written last.

*Announcements.* `CreateAnnouncement`, `FindAnnouncement`/`UpdateAnnouncement`,
`DeleteAnnouncement` commit, then `Increment`, `DropLists`, and for an update the reading again. The
goroutine of a request is a process of its own: `ReadVersion`, `ReadList`, `SelectEnabled`,
`StoreList`, `Send`; its handler receives, returns early (a wrong path, a missing password) or goes
away. `RedisLosesData` sets the counter back. Whether a pattern matches is `Paths`.

*Accounts.* A request keeps the number of changes each user had when it began; an update may write
any role and state (only the named columns are written, so two updates do not undo each other).
Passwords are left out: who may try is `LoginLimiter`. A name and a password for the initial
administrator are configured; without either `ensureInitialAdmin` does nothing (`main.go:80-82`).

*ResponseCache.* A response is its size. `Set` is one critical section; `Evictions` says which caches
`pruneLocked` may leave: the oldest items are gone, and no more of them than the limits ask for (items
of one moment in any order). `BytesOf` is the sum of the sizes, as the number of members of a set of
bytes, which can be reasoned about with the library's facts on cardinalities where a sum by recursion
cannot; `ReadItem`, `CheckItem`, `RemoveItem` are the two critical
sections and the clock between them.

*LogFile.* One action per call of the file system inside `Write`, each able to fail, half a line
included. A file knows the numbers of its lines, its size and its time. A `Close` that fails leaves
`writer.file = "broken"`: it never closes again, and no later rotation succeeds.

*Paths.* Strings are sequences of symbols, the operators have the names of the code's functions, and
the two variables are inputs that grow. What the code does in a loop over a string is a recursive
function of the position (`Split`, `Dropping`, `Joined`, `matchPathParts`, `escapeCachePattern`).
`path.Match` and the globs of Redis are one external operator, without character classes, so that
`PatternsMatch` is about patterns without brackets. `Char` is the symbols of the inputs and those
the code adds; the root prefix is written with them (`SymbolsAssumption`).

*Browser.* An event with the render and the effects after it is one action. React runs the effect
that loads when the route is another object, so a route has a number. `tab` is the tab's own history:
`popstate` does not say which way it went, and `syncRouteHistory` guesses.

## 3. What the runs check

| Run | Instance | Shows |
|---|---|---|
| `access_freshness` | 2 servers, 1 administrator, 2 requests, create and delete, failing `INCR` | every answer is by the rules of one moment not before the last answered change (`AckedChangesSeen`); the cache implements `FreshReads` |
| `access_failures` | 2 servers, 1 administrator and 1 request, 2 nested paths, 2 secrets, 2 rules, all faults, crashes, fairness; visitors either ask for directories (one change) or enter passwords (two changes of every kind) | requests to the handling server see its changes even if the counter was not incremented (`OwnChangesSeen`); the inductive invariant; every request is answered; old rules do not outlive an index's TTL; on a path that has had one rule only, a pass that opens belongs to the rule's present secret (`PassesMatchRules`) |
| `access_lost_update` | 2 administrators | **violation**: two changes of one secret write the same version, and passes of the first stay valid |
| `access_recreated` | 1 server, 1 administrator, create and delete | **violation**: the rule that takes a deleted one's place has its version, and the passes of the deleted one open it |
| `backfill_runs` | 3 dates, 2 workers, 2 runs, faults, cancel | counters, completeness, nothing left over, refinement of `BatchJob`, and the run ends |
| `logins` | limiter: 2 concurrent logins, 2 users, faults but `EXPIRE`; accounts: 2 servers, 2 requests, 2 users, 1 session | no counter without a TTL for ever, overshoot below the requests in flight, lockouts end; handlers act for current users, the initial administrator is created only where there is none, servers come up unless the last administrator was made a user and the name is taken |
| `login_forever` | `EXPIRE` may fail | **violation**: a counter that got no TTL locks out for ever (`redis_store.go:133`) |
| `listing_fair` | all modes, 1 directory, 2 refreshes, 1 request, failing calls, empty bucket, fairness | rows never go back, caches come to be current, refreshes end |
| `listing_below` | 1 server, all modes, a directory and one below, 1 refresh, 1 request at any step, all faults | a refresh is seen (`RefreshSeen`), but for two cases |
| `listing_race` | no index, 2 requests, no fault | **violation**: a request that read before a refresh stores after it, and the old listing is served again (`README.md:57`) |
| `announcements` | 2 administrators, 1 request and its goroutine, all faults, a Redis that loses its data | lists are filed under versions that do not vouch for more (`FilingInv`); `FreshReads` is implemented as long as Redis keeps its data; answers come to be current; goroutines end |
| `parts` | cache: 3 keys, 2 callers, 2 items, 4 bytes; log: 2 sizes of line, 2 days, 2 backups, faults, restarts; paths: 5 symbols, inputs of 4 and 3; browser: 3 pages, 4 loads | `WithinLimits`, `OnlyOldItemsLeave`; `LinesKept`, `FilesBounded`; `PatternsMatch`, `ListingsLead`, `RefreshForgetsBelow`; `ShowsWhereItIs` |

In the violation runs the property is what the code's comments, documents or tests say of it;
`PROJECT.json` quotes the line under "findings".

*OldPassesInvalidated* and *PassesMatchRules* are two answers to one question. The first is what the
repository promises, that a changed password invalidates all old passes; two runs refute it, for
changes that overlap and for a rule that takes another's place. The second is what remains: about
paths that have had one rule, with one administrator.

*RefreshSeen* says of one server, as the local caches of the others are not cleared
(`router.go:460`), that what an answered refresh found is seen by later requests, whatever requests
do while it runs. It does not hold in two cases, which `Undercut` names; `Counted` is the set of those
in which the promise is given all the same, empty in `listing_below`:

- `"held"`: a request holds what it read of the directory when Redis is cleared, and stores it
  afterwards. Run `listing_race` counts it in and is a violation.
- `"refilled"`: with the index and details, a request puts an old detail from Redis into the local
  cache between the clearing of the local one and of Redis (`file_index.go:299-300` clears in this
  order). A listing put there is overwritten by the one the refresh stores; a detail stays for its
  TTL. No run counts it in: it needs the same kind of overlap as `listing_race`.

The order of clearing does matter for what remains: without the index the code clears Redis first
(`router.go:456-460`), and the mutant that swaps the two lets a request carry an old listing over.
With the index an error of the `DEL` is only logged; such a refresh promises nothing, because what
it stores next may expire before what stayed in Redis.

*Bounds.* Two servers, or two requests and a change, are what each of the races needs: one actor
that reads early and acts late, and one that does all its steps in between; the mutants show that
they do happen within the bounds. `MaxRules`, `MaxChanges`, `MaxRuns` and the like stop counters
that only grow; two changes allow an old, a present and a next content. `Limit` is 2 where the code
has 8: two is the least at which a counter can be below, at and above it. The symmetry sets permute
servers and request slots, and are only in the runs `access_freshness`, `access_lost_update` and
`access_recreated`, which check no liveness. A behaviour of `DirectoryAccess` follows one of the
`Plans`, which say what its requests do and how many changes there are: the rules a request is
answered by do not depend on the passes, so that `access_failures` has a plan for requests that ask
and one for requests that enter passwords. The single change of the first is a creation; the writing
of a row that was read before, with its faults, is in the second. `EventuallyCurrent` has one
directory, so that no listing is made up; made-up ones are in `listing_below`.

*Parts that share no state* have a run together: `part`, chosen at the start, says which of them the
behaviour is of, and the others rest. `CacheTypeOK`, `LogTypeOK`, `BrowserTypeOK` and `AccountTypeOK`
state what the variables of those modules hold; they are in no run, because what could go wrong is
in the properties that are, and are proved as parts of the invariants of section 4.

*What `parts` leaves open.* `ShowsWhereItIs` is conditional, and its condition is the finding: the
tab shows another page than its address after an answer for a page that was left came after the
newer one, or asked for a password (which sets the route back), or after a refresh of it was done.
`RefreshForgetsBelow` lets a server's cache forget too much for a path that ends with a star, which
`cachePatternMatches` takes for a pattern. `PatternsMatch` leaves out stored patterns that end with
a space (from `/a /`): they are trimmed at every match and mean another directory.
`ListingsLead` is about keys with proper names: one with `//`, `.` or `..` in it is listed and
cannot be opened. An archive is the newest kept or young enough in `LinesKept`, or it may be gone.

*Bounds of `parts`.* Two items and four bytes with sizes 1, 3 and 5 reach each limit alone, both,
and an item too large; three moments make an item fresh, dead and replaced meanwhile. A limit of 2
with lines of 1 and 3 makes files that are full by one line, by several, and by one that is
larger than the limit; two rotations in a second, three archives and two days are in reach. Strings
of four symbols include `a/**`, `**/a`, `/a*` and `/a /`, those of three a path two names deep. Four loads are a
visit, a step back and another visit.

*Deadlock* is off where the bounds make the system stop (the last run of a backfill ended, no
change left).

*Fairness.* Goroutines that can go on do (the Go scheduler is fair), and each call to Redis,
PostgreSQL or R2 returns, with an answer or an error (`config.go:75`, `r2.go:283` bound those of
R2). Waiting for a mutex is strongly fair: Go's `sync.Mutex` hands over to a waiter that starves.
TTLs pass. A server that is down is started again, and its database answers in the end. Nobody has to send a request, cancel a run or change a file; no call has to succeed.

## 4. What is proved

All for any number of servers, requests, administrators, workers, dates and directories, and any set
of faults, unless a hypothesis is named. Each argument is an inductive invariant that TLC checked
before it was proved; the module names its parts.

- **Types.** `TypeCorrect` in `DirectoryAccessProofs`, `BackfillProofs`, `LoginsProofs`,
  `FileListingProofs` and `AnnouncementsProofs`, `AccountsTypeCorrect` in `LoginsProofs`,
  `TextsAlways` in `PathsProofs`; in `PartsProofs` the types are part of the invariants.
- **DirectoryAccess.** `Freshness`: `FreshnessInv` is inductive together with `TypeOK`. The
  argument: number the contents of the table by their order (`history`). A version `v` of the
  counter *vouches* for the position `covers[v]` the table had when it became `v`, and positions
  only grow (`CounterInv`); an administrator is answered after an increment that covers the change
  (`AdminInv`). Rules filed under `v` were read after `v` was read, so they are at least as
  recent as `v` vouches for; an index in use is at least as recent as its last drop, because the
  lock keeps a drop out of a load (`IndexFresh`). A request carries a version at least as recent as
  what was acknowledged when it began (`RequestFresh`). Without the strengthening the goal says
  nothing of the index. From it `AckedFreshness` and `OwnFreshness`, the two properties of the runs,
  and `RegisterImplemented`: every behaviour is one of `FreshReads` under the mapping at the end of
  `DirectoryAccess`.
- **Passes.** `PassesMatch`, for one administrator (`OneAdministrator`): `PassInv` says that a pass,
  stored or about to be, whose path has had one rule only is of a version not later than that rule's,
  and of the same version only with the same secret; that `owners` has every rule of each path
  (`OwnersInv`), so that whoever enters a password for such a path has read the row of its one rule;
  that ids not given out have no row; and that what an administrator has read of a row is still its
  version. Both hypotheses are needed: run `access_lost_update` has two administrators, and
  `access_recreated` a path that gets a second rule.
- **Backfill.** `Accounting`: `BackfillInv` is inductive. A date that was sent is recorded or held by
  exactly one worker unless the run is canceled (`DatesInv`), workers exist only while `main` feeds or
  waits (`PhaseInv`), the counters are cardinalities (`CountsAgree`, with the library's facts on
  finite sets), and what `observed` read fits what was recorded (`EndInv`). From it `CountersAgree`,
  `RunComplete`, `NothingLeft`, and `JobImplemented`, the refinement of `BatchJob`.
- **LoginLimiter.** `NothingLeftBehind`: if `EXPIRE` does not fail, a key without TTL has a
  handler that is about to set it (run `login_forever` shows what happens if it does);
  `OvershootLimited`: the counter plus the requests that have passed the check and may still
  increment it stays below `Limit + |Attempts|`, which is inductive as it stands.
- **FileListing**, on one server (`OneServer`), where the lock of a directory excludes.
  `RowsMoveForward`: a refresh past the lock holds it (`LockInv`), so that what it has listed is not
  older than the rows, and is the rows once it has replaced them (`RowsInv`).
  `RefreshIsSeen`, for `Counted = {}`: what has been promised of a directory is in the bucket and in
  the rows, and no cache is behind it (`DirInv`); what a refresh has cleared stays empty or gets
  nothing behind its promise, and once Redis is cleared no request is about to store anything else
  (`PromiseInv`); no request stores what is behind a promise given since it began (`ReaderInv`).
  Faults, requests and refreshes are any. Without `OneServer` the caches of the others break it; run
  `listing_race` shows what counting `"held"` does.
- **Announcements.** `ListsFiled`: `FilingInv` is inductive with the types. As for the rule index a
  version vouches for a position of the table, but there is no lock: `LoaderFresh` says that the list
  a goroutine holds is at least as recent as the version it read, however late it files it. From it
  `RegisterImplemented`, the refinement of the same `FreshReads`. Both are about Redis before it has
  lost its data, as `FilingInv` and the mapping say.
- **Accounts.** `HandlersCurrent` (property `HandlersActForCurrentUsers`): users only grow in number
  of changes, and the row a handler acts for is at least as recent as its request (`ClientInv`).
  `InitialAdminOnce` (`InitialAdminOnly`): nobody exists before the initial administrator
  (`InitialFirst`).
- **ResponseCache.** `CacheBounded` (`WithinLimits`): `CacheInv` adds that a caller's clock is not
  ahead of the real one, and that an item found dead stays so; the bytes of disjoint sets of items add
  up (`BytesSplit`). `OldItemsLeave` (`OnlyOldItemsLeave`) follows.
- **LogFile.** `LinesStay` (`LinesKept`) and `FilesStayBounded` (`FilesBounded`) from `LogInv`. `FileInv`
  orders the lines of each file before its time, `WriterInv` ties the size and the day the writer knows
  to the file that is open, `CallInv` states what each phase of a `Write` may rely on: a rename only
  when the file is closed, an append only to a file of the day with room for the line. That a new
  archive gets a name of its own is a lemma (`NameIsNew`, by the pigeonhole principle).
- **Browser.** `PageIsShown` (`ShowsWhereItIs`) from `BrowserInv`: as long as no answer of a page that
  was left has come in between, address and history stand at the route, and the latest load is of the
  route, or has been answered with its page (`OnRoute`).
- **Paths**, for texts of any length over any symbols, and any root prefixes. The invariant is only
  that the inputs are texts (`TextsAlways`); the work is in the lemmas, which are about data. The
  library's induction theorems take an operator, which the prover cannot instantiate; from its
  theorem that `<` on the naturals is well founded comes `LeastNumber`, and from that `Induction`
  with a *set* in the place of the formula, `SeqInduction` over sequences, `TextInduction` (a text
  is a part without slashes, or a text, a slash and such a part), and `Recursion` and `Fold`, by
  which a recursive function has the values its definition says. With them: what `Split`,
  `Dropping`, `Joined`, `escapeCachePattern` and `Read` give for a text with one more symbol or part
  (`SplitIs` to `ReadIs`); splitting what was joined gives the parts again (`DroppingSplitJoined`),
  so that a normal form stays as it is (`CleanIs`) and an ancestor is a prefix of the parts
  (`AncestorsArePrefixes`). `MatchesAsLaidOut`: `matchPathParts` accepts the names along which the
  parts can be laid out, either way by induction over the number of last parts (`MatchRest`).
  `PatternsAgree` (`PatternsMatch`) adds that a normal form is not refused (`CalmClean`) and is not
  changed by a second normalisation (`NormalizedAgain`), and what `/**` matches
  (`DeepMatchesBelow`). `RefreshForgets` (`RefreshForgetsBelow`): what a pattern of the escapes
  means is the text it was made from (`RedisMatchesEscaped`, `CacheMatchesEscaped`), and the keys
  with a directory's prefix are those of the paths below it (`KeysBelow`). `ListingsLeadOn`
  (`ListingsLead`): a directory's prefix is the root, its path and a slash (`DirKey`); the root
  comes off again because no path goes on with a slash (`PathFromKey`), and the first name of what
  follows is the entry's (`ListedIs`, `SyntheticIs`).

The assumptions are the named ones of the modules: bounds are natural numbers, `Faults` names
known calls, `None` is none of the other values, `Attempts` is finite, a symbol of `Paths` is not one
of the two names by which globs know their wildcards.

Only model-checked: all liveness (`RequestsAnswered`, `EventuallyEnforced`, `RunEnds`,
`LockoutEnds`, `EventuallyCurrent`, `RefreshesEnd`, `EventuallyAnnounced`, `LoadersEnd`,
`ServersComeUp`), which is outside what the prover does. Every safety property of a passing run is
stated by a theorem, where it says so under the hypotheses named there.

## 5. Not modelled, and why

- Download and preview make a URL and change nothing; the R2 client, beside its keys, keeps no
  state between calls. Pages of a long list may be of different moments; `FileListing` has one read.
- Configuration is read once and is the constants of the modules. Serving the embedded front end
  is a function of the path.
- The calendar: a date of the backfill is its position. Where daylight saving skips a midnight
  (`file_index_backfill.go:260`) the last date is left out; the default zone has no such midnight.
- What GORM writes for a false value with a true default is decided in the library.
- The administrators' pages of the front end: forms over the operations that are modelled.
- Two servers that refresh the same directory hold different locks; `IndexMovesForward` is claimed,
  and checked, for one.

## 6. Plan

The modules are written, and each safety property of a passing run is proved. What may follow:

1. The rows of the index on two servers: which weaker order they keep when two refreshes of one
   directory hold different locks.
2. `PassesMatchRules` for several administrators who change different rules, with the hypothesis on
   what overlaps instead of on who there is.
3. Character classes in the patterns of announcements, which `PatternsMatch` leaves out.
