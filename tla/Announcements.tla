--------------------------- MODULE Announcements ---------------------------
(***************************************************************************)
(* Announcements: their rows in PostgreSQL, the version counter and the    *)
(* lists of enabled announcements filed under its values in Redis, the     *)
(* administrators' handlers that change rows, and the goroutine with which *)
(* a request for a directory loads the list beside its other work.         *)
(*   src/backend/internal/httpapi/router.go, lines 204-225, 618-733,       *)
(*     1091-1161 and 1350                                                  *)
(*   src/backend/internal/session/redis_store.go, lines 107-117, 188-235   *)
(*                                                                         *)
(* One action is one statement sent to PostgreSQL, one command sent to     *)
(* Redis, or one operation on the channel.  Title, pattern, content and    *)
(* sort order of a row are its text; a request's list is taken before it   *)
(* is filtered by the directory (MatchPathPattern of Paths).               *)
(***************************************************************************)
EXTENDS Integers, Sequences, Functions

CONSTANTS Requests,    \* slots for requests that list a directory
          Admins,      \* administrators, one request at a time each
          Operations,  \* what each of them does in this instance
          Texts,       \* what an announcement may say
          Faults,      \* the calls that may fail in this instance
          MaxRows,     \* bound: announcements ever created
          MaxChanges,  \* bound: changes of the table
          MaxVersion   \* bound: a value of the counter at which no operation begins

ASSUME BoundsAssumption == MaxRows \in Nat /\ MaxChanges \in Nat /\ MaxVersion \in Nat
ASSUME OperationsAssumption ==
  Operations \in [Admins -> SUBSET {"create", "update", "delete", "refresh"}]
ASSUME FaultsAssumption == Faults \subseteq {"get", "set", "incr", "del", "select", "crash", "loss"}

\* A definition named MUTANT_D is D with a mistake the properties are to find.

VARIABLES
  rows,      \* table announcements: id -> row, for the ids that exist
  nextId,    \* next id of its sequence
  version,   \* Redis counter of BumpAnnouncementVersion
  lists,     \* Redis keys announcements:enabled:<n>: n -> list, for those that exist
  admin,     \* the handler each administrator waits for
  request,   \* the handler listFiles in each slot
  loader,    \* the goroutine of startAnnouncementsLoad that it started
  \* History variables: a guard reads them only to stay within MaxChanges.
  history,   \* every list of enabled announcements the table has had, oldest first
  covers,    \* covers[n]: Len(history) when version became n, until Redis loses its data
  acked,     \* the position of history acknowledged to administrators until then
  lost       \* whether Redis has lost its data

db == <<rows, nextId, history>>
redis == <<version, lists, covers, lost>>
handlers == <<request, loader>>
vars == <<rows, nextId, version, lists, admin, request, loader, history, covers, acked, lost>>

RowIds == 1 .. MaxRows
Row(text, on) == [text |-> text, enabled |-> on]

\* The SELECT of enabledAnnouncements.
Enabled(table) == {[id |-> i, text |-> table[i].text] : i \in {j \in DOMAIN table : table[j].enabled}}

\* announcementListCacheKey.
MUTANT_ListKey(n) == 0
ListKey(n) == n

AdminIdle == [phase |-> "idle", op |-> "none", id |-> 0, change |-> 1]
RequestIdle == [phase |-> "idle", list |-> {}, floor |-> 1]
LoaderIdle == [phase |-> "idle", version |-> 0, cached |-> FALSE, list |-> {}]

Init ==
  /\ rows = <<>> /\ nextId = 1
  /\ version = 0 /\ lists = <<>>
  /\ admin = [a \in Admins |-> AdminIdle]
  /\ request = [r \in Requests |-> RequestIdle]
  /\ loader = [r \in Requests |-> LoaderIdle]
  /\ history = <<{}>> /\ covers = <<>> /\ acked = 1 /\ lost = FALSE

-----------------------------------------------------------------------------
(* Administrators: change the table, bump the counter in Redis, answer.     *)

MayStart(a, op) == admin[a] = AdminIdle /\ op \in Operations[a] /\ version < MaxVersion
MayChange == Len(history) <= MaxChanges

AdminGoes(a, op, id, phase, change) ==
  admin' = [admin EXCEPT ![a] = [phase |-> phase, op |-> op, id |-> id, change |-> change]]
AdminEnds(a) == admin' = [admin EXCEPT ![a] = AdminIdle]

Commit(table) == rows' = table /\ history' = Append(history, Enabled(table))

MUTANT_CreateAnnouncement(a) ==
  /\ MayStart(a, "create") /\ MayChange /\ nextId \in RowIds
  /\ \E text \in Texts : Commit([i \in DOMAIN rows \cup {nextId} |->
                                   IF i = nextId THEN Row(text, TRUE) ELSE rows[i]])
  /\ nextId' = nextId + 1
  /\ AdminEnds(a) /\ acked' = Len(history')
  /\ UNCHANGED <<redis, handlers>>

\* INSERT.  An enabled flag of false is stored as true: the column has a
\* default, and the ORM leaves a zero value out of the statement.
CreateAnnouncement(a) ==
  /\ MayStart(a, "create") /\ MayChange /\ nextId \in RowIds
  /\ \E text \in Texts : Commit([i \in DOMAIN rows \cup {nextId} |->
                                   IF i = nextId THEN Row(text, TRUE) ELSE rows[i]])
  /\ nextId' = nextId + 1
  /\ AdminGoes(a, "create", 0, "bump", Len(history'))
  /\ UNCHANGED <<redis, handlers, acked>>

\* updateAnnouncement looks for the row ...
FindAnnouncement(a) ==
  /\ MayStart(a, "update") /\ MayChange
  /\ \E id \in DOMAIN rows : AdminGoes(a, "update", id, "write", 1)
  /\ UNCHANGED <<db, redis, handlers, acked>>

\* ... and writes the fields it was sent, which is no error if it is gone.
UpdateAnnouncement(a) ==
  LET id == admin[a].id
  IN  /\ admin[a].phase = "write"
      /\ \/ /\ id \in DOMAIN rows
            /\ \E text \in Texts, on \in BOOLEAN : Commit([rows EXCEPT ![id] = Row(text, on)])
         \/ id \notin DOMAIN rows /\ UNCHANGED <<rows, history>>
      /\ AdminGoes(a, "update", id, "bump", Len(history'))
      /\ UNCHANGED <<nextId, redis, handlers, acked>>

\* DELETE of a row, or of none.
MUTANT_DeleteAnnouncement(a) ==
  /\ MayStart(a, "delete") /\ MayChange
  /\ \E id \in DOMAIN rows :
        /\ Commit([rows EXCEPT ![id] = [enabled |-> FALSE]])
        /\ AdminGoes(a, "delete", 0, "bump", Len(history'))
  /\ UNCHANGED <<nextId, redis, handlers, acked>>

DeleteAnnouncement(a) ==
  /\ MayStart(a, "delete") /\ MayChange
  /\ \E id \in RowIds :
        /\ Commit(Restrict(rows, DOMAIN rows \ {id}))
        /\ AdminGoes(a, "delete", 0, "bump", Len(history'))
  /\ UNCHANGED <<nextId, redis, handlers, acked>>

\* The button "refresh" of the administrators' page changes no row.
RefreshAnnouncementCache(a) ==
  /\ MayStart(a, "refresh")
  /\ AdminGoes(a, "refresh", 0, "bump", Len(history))
  /\ UNCHANGED <<db, redis, handlers, acked>>

Acknowledge(a) == /\ AdminEnds(a)
                  /\ acked' = IF ~lost /\ admin[a].change > acked THEN admin[a].change ELSE acked

Increment == /\ version' = version + 1
             /\ covers' = IF lost THEN covers ELSE Append(covers, Len(history))

\* invalidateAnnouncements.  An INCR that fails may have been carried out.
InvalidateAnnouncements(a) ==
  /\ admin[a].phase = "bump"
  /\ \/ /\ Increment
        /\ CASE admin[a].op = "update" -> admin' = [admin EXCEPT ![a].phase = "reread"] /\ UNCHANGED acked
             [] admin[a].op = "refresh" -> admin' = [admin EXCEPT ![a].phase = "drop"] /\ UNCHANGED acked
             [] OTHER -> Acknowledge(a)
     \/ /\ "incr" \in Faults
        /\ Increment \/ UNCHANGED <<version, covers>>
        /\ AdminEnds(a) /\ UNCHANGED acked
  /\ UNCHANGED <<db, lists, lost, handlers>>

\* An update reads the row again for its answer: another handler may have
\* deleted it.
RereadAnnouncement(a) ==
  /\ admin[a].phase = "reread"
  /\ IF admin[a].id \in DOMAIN rows THEN Acknowledge(a) ELSE AdminEnds(a) /\ UNCHANGED acked
  /\ UNCHANGED <<db, redis, handlers>>

\* A refresh deletes the lists: SCAN, and DEL of what it found.
DropLists(a) ==
  /\ admin[a].phase = "drop"
  /\ \/ lists' = <<>> /\ Acknowledge(a)
     \/ /\ "del" \in Faults
        /\ \E kept \in SUBSET DOMAIN lists : lists' = Restrict(lists, kept)
        /\ AdminEnds(a) /\ UNCHANGED acked
  /\ UNCHANGED <<db, version, covers, lost, handlers>>

\* The process stops before it answers.
AdminCrashes(a) ==
  /\ "crash" \in Faults /\ admin[a] # AdminIdle
  /\ AdminEnds(a)
  /\ UNCHANGED <<db, redis, handlers, acked>>

-----------------------------------------------------------------------------
(* A request for a directory: the handler, and the goroutine it starts.     *)

RequestEnds(r) == request' = [request EXCEPT ![r] = RequestIdle]
LoaderEnds(r) == loader' = [loader EXCEPT ![r] = LoaderIdle]

BeginRequest(r) ==
  /\ request[r] = RequestIdle /\ loader[r] = LoaderIdle
  /\ request' = [request EXCEPT ![r] = [RequestIdle EXCEPT !.phase = "open", !.floor = acked]]
  /\ loader' = [loader EXCEPT ![r] = [LoaderIdle EXCEPT !.phase = "version"]]
  /\ UNCHANGED <<db, redis, admin, acked>>

\* The rest of listFiles may return without the announcements, which cancels
\* the context of the goroutine, or comes to need them: loadAnnouncements waits
\* for the result, and without a list the answer is an error.
ReturnEarly(r) ==
  /\ request[r].phase = "open"
  /\ RequestEnds(r)
  /\ IF loader[r].phase \in {"sent", "failed"} THEN LoaderEnds(r) ELSE UNCHANGED loader
  /\ UNCHANGED <<db, redis, admin, acked>>

Receive(r) ==
  /\ request[r].phase = "open" /\ loader[r].phase \in {"sent", "failed"}
  /\ IF loader[r].phase = "sent"
     THEN request' = [request EXCEPT ![r].phase = "answered", ![r].list = loader[r].list]
     ELSE RequestEnds(r)
  /\ LoaderEnds(r)
  /\ UNCHANGED <<db, redis, admin, acked>>

EndRequest(r) == /\ request[r].phase = "answered"
                 /\ RequestEnds(r) /\ UNCHANGED loader
                 /\ UNCHANGED <<db, redis, admin, acked>>

\* The calls of a goroutine whose context is cancelled may fail.
Cancelled(r) == request[r] = RequestIdle
MayFail(r, call) == call \in Faults \/ Cancelled(r)

LoaderGoes(r, phase, list) == loader' = [loader EXCEPT ![r].phase = phase, ![r].list = list]

\* The channel has room for the result: the goroutine ends whether or not its
\* handler is still there to receive it.
MUTANT_Send(r, phase, list) == LoaderGoes(r, phase, list)
Send(r, phase, list) == IF Cancelled(r) THEN LoaderEnds(r) ELSE LoaderGoes(r, phase, list)

\* announcementsForPath: AnnouncementVersion; after an error no cache is used.
ReadVersion(r) ==
  /\ loader[r].phase = "version"
  /\ \/ loader' = [loader EXCEPT ![r] =
          [phase |-> "cache", version |-> version, cached |-> TRUE, list |-> {}]]
     \/ MayFail(r, "get") /\ LoaderGoes(r, "select", {})
  /\ UNCHANGED <<db, redis, admin, request, acked>>

\* enabledAnnouncements: the list filed under the version, if there is one.
ReadList(r) ==
  LET key == ListKey(loader[r].version)
  IN  /\ loader[r].phase = "cache"
      /\ \/ key \in DOMAIN lists /\ Send(r, "sent", lists[key])
         \/ key \notin DOMAIN lists /\ LoaderGoes(r, "select", {})
         \/ /\ MayFail(r, "get")
            /\ loader' = [loader EXCEPT ![r] = [LoaderIdle EXCEPT !.phase = "select"]]
      /\ UNCHANGED <<db, redis, admin, request, acked>>

SelectEnabled(r) ==
  /\ loader[r].phase = "select"
  /\ \/ loader[r].cached /\ LoaderGoes(r, "store", Enabled(rows))
     \/ ~loader[r].cached /\ Send(r, "sent", Enabled(rows))
     \/ MayFail(r, "select") /\ Send(r, "failed", {})
  /\ UNCHANGED <<db, redis, admin, request, acked>>

StoreList(r) ==
  LET key == ListKey(loader[r].version)
  IN  /\ loader[r].phase = "store"
      /\ \/ lists' = [n \in DOMAIN lists \cup {key} |-> IF n = key THEN loader[r].list ELSE lists[n]]
         \/ MayFail(r, "set") /\ UNCHANGED lists
      /\ Send(r, "sent", loader[r].list)
      /\ UNCHANGED <<db, version, covers, lost, admin, request, acked>>

-----------------------------------------------------------------------------
(* Redis.                                                                   *)

\* announcementCacheTTL is over.
MUTANT_ListExpires(n) == n \in DOMAIN lists /\ FALSE /\ UNCHANGED vars
ListExpires(n) ==
  /\ n \in DOMAIN lists
  /\ lists' = Restrict(lists, DOMAIN lists \ {n})
  /\ UNCHANGED <<db, version, covers, lost, admin, handlers, acked>>

\* Redis comes back without its data: the counter is 0 again.
RedisLosesData ==
  /\ "loss" \in Faults /\ ~lost
  /\ version' = 0 /\ lists' = <<>> /\ covers' = <<>> /\ lost' = TRUE
  /\ UNCHANGED <<db, admin, handlers, acked>>

-----------------------------------------------------------------------------
AdminStep(a) == \/ UpdateAnnouncement(a) \/ InvalidateAnnouncements(a)
                \/ RereadAnnouncement(a) \/ DropLists(a)
RequestStep(r) == ReturnEarly(r) \/ Receive(r) \/ EndRequest(r)
LoaderStep(r) == ReadVersion(r) \/ ReadList(r) \/ SelectEnabled(r) \/ StoreList(r)

Next == \/ \E a \in Admins : \/ CreateAnnouncement(a) \/ FindAnnouncement(a)
                             \/ DeleteAnnouncement(a) \/ RefreshAnnouncementCache(a)
                             \/ AdminStep(a) \/ AdminCrashes(a)
        \/ \E r \in Requests : BeginRequest(r) \/ RequestStep(r) \/ LoaderStep(r)
        \/ \E n \in 0 .. MaxVersion + 1 : ListExpires(n)
        \/ RedisLosesData

Spec == Init /\ [][Next]_vars

\* A handler and a goroutine that can go on do, and a list's TTL ends.  Nobody
\* has to send a request, and no call has to fail.
Fairness == /\ \A a \in Admins : WF_vars(AdminStep(a))
            /\ \A r \in Requests : WF_vars(RequestStep(r)) /\ WF_vars(LoaderStep(r))
            /\ \A n \in 0 .. MaxVersion + 1 : WF_vars(ListExpires(n))

FairSpec == Spec /\ Fairness

-----------------------------------------------------------------------------
(* Properties.                                                              *)

Lists == SUBSET [id: RowIds, text: Texts]
Handler ==
  [phase: {"idle", "write", "bump", "reread", "drop"},
   op: {"none", "create", "update", "delete", "refresh"}, id: Nat, change: Nat \ {0}]
Request == [phase: {"idle", "open", "answered"}, list: Lists, floor: Nat \ {0}]
Loader ==
  [phase: {"idle", "version", "cache", "select", "store", "sent", "failed"},
   version: Nat, cached: BOOLEAN, list: Lists]

TableType == /\ nextId \in 1 .. MaxRows + 1
             /\ DOMAIN rows \subseteq 1 .. nextId - 1
             /\ \A i \in DOMAIN rows : rows[i] \in [text: Texts, enabled: BOOLEAN]
             /\ history \in Seq(Lists) /\ history # <<>> /\ acked \in 1 .. Len(history)
RedisType == /\ version \in Nat /\ DOMAIN lists \subseteq Nat
             /\ \A n \in DOMAIN lists : lists[n] \in Lists
             /\ covers \in Seq(Nat \ {0}) /\ lost \in BOOLEAN
HandlerType == /\ admin \in [Admins -> Handler]
               /\ request \in [Requests -> Request] /\ loader \in [Requests -> Loader]

\* Every variable has its type.
TypeOK == TableType /\ RedisType /\ HandlerType

Answered(r) == request[r].phase = "answered"

\* Once nothing changes any more, every answer comes to have the announcements
\* of the table, also where the counter was not incremented, or is 0 again and
\* counts once more to versions under which a list is filed (router.go:28, 1150).
EventuallyAnnounced == <>[](\A r \in Requests : Answered(r) => request[r].list = Enabled(rows))

\* Every goroutine that loads the announcements ends, whether its handler takes
\* the result or has returned without it (router.go:1092, 209-217).
LoadersEnd == \A r \in Requests : loader[r] # LoaderIdle ~> loader[r] = LoaderIdle

\* The list was the table's at some moment since position n of history.
Since(list, n) == \E k \in n .. Len(history) : list = history[k]

\* The position of history that version n of the counter vouches for.
Cover(n) == IF n = 0 THEN 1 ELSE covers[n]

\* Versions vouch for ever later positions, and the present one for those that
\* were acknowledged or are about to be.
CounterInv ==
  /\ history[Len(history)] = Enabled(rows)
  /\ Len(covers) = version
  /\ \A n \in 1 .. version : covers[n] \in 1 .. Len(history)
  /\ \A n, m \in 1 .. version : n <= m => covers[n] <= covers[m]
  /\ acked <= Cover(version)
  /\ \A a \in Admins : /\ admin[a].change <= Len(history)
                       /\ admin[a].phase \in {"reread", "drop"} => admin[a].change <= Cover(version)

\* A list is filed under a version that was read before the list was.
ListsInv == \A n \in DOMAIN lists : n <= version /\ Since(lists[n], Cover(n))

\* What a request knows in each phase of its goroutine.
LoaderFresh(q, g) ==
  /\ g.phase # "idle" /\ q.phase # "idle" => q.floor <= acked
  /\ (g.phase = "version" => ~g.cached) /\ (g.phase \in {"cache", "store"} => g.cached)
  /\ g.phase \in {"cache", "select", "store"} /\ g.cached =>
       g.version <= version /\ (q.phase # "idle" => q.floor <= Cover(g.version))
  /\ g.phase = "store" => Since(g.list, Cover(g.version))
  /\ g.phase = "sent" /\ q.phase # "idle" => Since(g.list, q.floor)

\* As long as Redis keeps its data, no list under a version is older than the
\* changes that version vouches for, although a request may file its list long
\* after the version was incremented (router.go:1103-1108, 1143-1151).
FilingInv ==
  ~lost => /\ CounterInv /\ ListsInv
           /\ \A r \in Requests : LoaderFresh(request[r], loader[r])

-----------------------------------------------------------------------------
(* The lists in Redis are a FreshReads register, until Redis loses its data: *)
(* what requests are told afterwards is not bound by it.                     *)

AbstractReader(r) ==
  LET q == request[r]
  IN  CASE lost \/ q.phase = "idle" -> [phase |-> "idle"]
        [] ~lost /\ q.phase = "answered" -> [phase |-> "decided", floor |-> q.floor, used |-> q.list]
        [] OTHER -> [phase |-> "open", floor |-> q.floor]

Register == INSTANCE FreshReads
  WITH Readers <- Requests, Contents <- Lists, Initial <- {},
       reader <- [r \in Requests |-> AbstractReader(r)]

\* The counter, the lists filed under its values and the handlers implement the
\* register: an administrator who was told that a change succeeded finds it in
\* every list that is asked for from then on (README.md:57; router.go:633, 696).
ImplementsRegister == Register!Spec
=============================================================================
