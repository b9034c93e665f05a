-------------------------- MODULE DirectoryAccess --------------------------
(***************************************************************************)
(* Password-protected directories: the rules in PostgreSQL, the version    *)
(* counter and the pass tokens in Redis, the rule index each server keeps  *)
(* in memory, the administrators' handlers that change rules and the       *)
(* visitors' handlers that check them.                                     *)
(*   src/backend/internal/httpapi/access_index.go                          *)
(*   src/backend/internal/httpapi/router.go, lines 464-492 and 735-1076    *)
(*   src/backend/internal/session/redis_store.go                           *)
(*                                                                         *)
(* One action is one step another process can see: a statement sent to     *)
(* PostgreSQL, a command sent to Redis, or a critical section of the       *)
(* index.  A handler is the sequence of its actions.                       *)
(*                                                                         *)
(* A path is the sequence of its names; a bcrypt hash is the secret it was *)
(* made from.  Requests of an administrator return before they read        *)
(* anything (router.go:1015) and are left out.                             *)
(***************************************************************************)
EXTENDS Integers, Sequences, FiniteSets, SequencesExt

CONSTANTS Servers,     \* processes of the backend that share the database
          Admins,      \* administrators, one request at a time each
          Visitors,    \* slots for visitors' requests
          Tokens,      \* access tokens of visitors' sessions
          Paths,       \* directories
          Secrets,     \* directory passwords
          Plans,       \* what administrators and visitors do in a behaviour of this instance
          Faults,      \* the calls that may fail in this instance
          MaxRules,    \* bound: rules ever created
          None         \* the holder of a free lock, the path of no row

Operations == {"create", "update", "secret", "delete", "check", "submit"}

\* changes is a bound: of changes of the rules table, and bumps of the counter.
Plan == [operations: SUBSET Operations, changes: Nat]

ASSUME BoundsAssumption == MaxRules \in Nat
ASSUME PlansAssumption == Plans \subseteq Plan
ASSUME FaultsAssumption == Faults \subseteq {"get", "incr", "mget", "set", "load", "write", "crash"}
ASSUME NamesAssumption == None \notin Paths /\ None \notin Visitors /\ Visitors \cap Int = {}

\* A definition named MUTANT_D is D with a mistake the properties are to find.

VARIABLES
  plan,           \* which of the plans this behaviour follows
  rows,           \* table directory_passwords: id -> row or NoRow
  nextId,         \* next id of its sequence
  accessVersion,  \* Redis counter of BumpDirectoryAccessVersion
  passes,         \* Redis keys of MarkPasswordPassed
  idx,            \* the directoryAccessIndex of each server
  mu,             \* its mutex: the request that loads, or None
  admin,          \* the handler each administrator waits for
  visitor,        \* the handler in each request slot
  \* History variables: a guard reads them only to stay within the plan.
  history,        \* every content of the enforced rules, oldest first
  owners,         \* path -> every rule that has ever been the rule of it
  covers,         \* covers[v]: Len(history) when accessVersion became v
  acked,          \* the position of history acknowledged to administrators
  dropped         \* Len(history) at each server's last local Invalidate

db == <<rows, nextId, history, owners>>
redis == <<accessVersion, covers>>
index == <<idx, mu, dropped>>
vars == <<plan, rows, nextId, accessVersion, passes, idx, mu, admin, visitor,
          history, owners, covers, acked, dropped>>

-----------------------------------------------------------------------------
(* Rules, the enforced part of the table, and what protects a directory.   *)

RuleIds == 1 .. MaxRules
NoRow == [path |-> None]
Row(p, secret, on, v) == [path |-> p, secret |-> secret, enabled |-> on, version |-> v]

EnabledRows(table, p) ==
  {id \in RuleIds : table[id] # NoRow /\ table[id].path = p /\ table[id].enabled}

\* What the SELECT of snapshot() returns: path -> version of its enabled rule,
\* 0 for a path without one.
Enforced(table) ==
  [p \in Paths |-> IF EnabledRows(table, p) = {} THEN 0
                   ELSE table[CHOOSE id \in EnabledRows(table, p) : TRUE].version]

\* The unique index on path also counts disabled rules.
PathTaken(p, but) == \E id \in RuleIds \ {but} : rows[id].path = p

\* DirectoryAncestors: the directory itself and every directory above it.
DirectoryAncestors(p) == {q \in Paths : IsPrefix(q, p)}

\* RulesFor: the protected ancestors under a snapshot of the rules.
RulesFor(rules, p) == {q \in DirectoryAncestors(p) : rules[q] # 0}

NoRules == [p \in Paths |-> 0]
MUTANT_EmptyIndex == [rules |-> NoRules, tag |-> -1, live |-> FALSE]
EmptyIndex == [rules |-> NoRules, tag |-> 0, live |-> FALSE]

\* A handler that does not run.  The fields of a record are those of the
\* handlers' local variables; each keeps its idle value until it is assigned.
AdminIdle == [phase |-> "idle", at |-> None, op |-> "none", id |-> 0,
              version |-> 0, change |-> 1]
VisitorIdle == [phase |-> "idle", at |-> None, path |-> None, token |-> None,
                tag |-> 0, rules |-> NoRules, pass |-> None, floor |-> 1, own |-> 1]

Init ==
  /\ plan \in Plans
  /\ rows = [id \in RuleIds |-> NoRow] /\ nextId = 1
  /\ accessVersion = 0 /\ covers = <<>>
  /\ passes = {}
  /\ idx = [s \in Servers |-> EmptyIndex] /\ mu = [s \in Servers |-> None]
  /\ admin = [a \in Admins |-> AdminIdle]
  /\ visitor = [r \in Visitors |-> VisitorIdle]
  /\ history = <<NoRules>> /\ owners = [p \in Paths |-> {}] /\ acked = 1
  /\ dropped = [s \in Servers |-> 1]

-----------------------------------------------------------------------------
(* Administrators: change the table, drop the local index, bump the counter *)
(* in Redis, answer.                                                        *)

MayStart(a, op) == /\ admin[a] = AdminIdle /\ op \in plan.operations
                   /\ Len(history) <= plan.changes /\ accessVersion < plan.changes

Commit(table) ==
  /\ rows' = table /\ history' = Append(history, Enforced(table))
  /\ owners' = [p \in Paths |-> owners[p] \cup {id \in RuleIds : table[id].path = p}]

\* The statement of handler a on server s is done; change is the position the
\* handler vouches for when it answers.
Committed(a, s, op, id) ==
  admin' = [admin EXCEPT ![a] = [AdminIdle EXCEPT !.phase = "invalidate", !.at = s,
                                   !.op = op, !.id = id, !.change = Len(history')]]

\* INSERT.  An enabled flag of false is stored as true: the column has a
\* default, and the ORM leaves a zero value out of the statement.
CreateRule(a) ==
  /\ MayStart(a, "create") /\ nextId \in RuleIds
  /\ \E s \in Servers, p \in Paths, secret \in Secrets :
        /\ ~PathTaken(p, nextId)
        /\ Commit([rows EXCEPT ![nextId] = Row(p, secret, TRUE, 1)])
        /\ Committed(a, s, "create", nextId)
  /\ nextId' = nextId + 1
  /\ UNCHANGED <<plan, redis, passes, index, visitor, acked>>

\* updateDirectoryPassword and updateDirectoryPasswordSecret read the row ...
ReadRule(a) ==
  /\ \E op \in {"update", "secret"}, s \in Servers, id \in RuleIds :
        /\ MayStart(a, op) /\ rows[id] # NoRow
        /\ admin' = [admin EXCEPT ![a] = [AdminIdle EXCEPT !.phase = "write", !.at = s,
                        !.op = op, !.id = id, !.version = rows[id].version]]
  /\ UNCHANGED <<plan, db, redis, passes, index, visitor, acked>>

MUTANT_NextVersion(version) == version
NextVersion(version) == version + 1

\* ... and write the changed columns with the version after the one they read.  The
\* UPDATE of a row deleted meanwhile matches none and is no error.
WriteRule(a) ==
  /\ admin[a].phase = "write"
  /\ LET id == admin[a].id
         version == NextVersion(admin[a].version)
     IN  /\ \/ /\ rows[id] = NoRow
               /\ UNCHANGED <<rows, history, owners>>
            \/ /\ rows[id] # NoRow /\ admin[a].op = "secret"
               /\ \E secret \in Secrets :
                     Commit([rows EXCEPT ![id].secret = secret, ![id].version = version])
            \/ /\ rows[id] # NoRow /\ admin[a].op = "update"
               /\ \E p \in Paths, secret \in Secrets, on \in BOOLEAN :
                     /\ ~PathTaken(p, id)
                     /\ Commit([rows EXCEPT ![id] = Row(p, secret, on, version)])
         /\ Committed(a, admin[a].at, admin[a].op, id)
  /\ UNCHANGED <<plan, nextId, redis, passes, index, visitor, acked>>

\* The statement fails, or a new path is taken: an error answer, no change.
WriteFails(a) ==
  /\ admin[a].phase = "write"
  /\ \/ "write" \in Faults
     \/ admin[a].op = "update" /\ \E p \in Paths : PathTaken(p, admin[a].id)
  /\ admin' = [admin EXCEPT ![a] = AdminIdle]
  /\ UNCHANGED <<plan, db, redis, passes, index, visitor, acked>>

\* disableDirectoryPassword deletes; a second DELETE of a row matches none.
DeleteRule(a) ==
  /\ MayStart(a, "delete")
  /\ \E s \in Servers, id \in RuleIds :
        /\ IF rows[id] = NoRow THEN UNCHANGED <<rows, history, owners>>
           ELSE Commit([rows EXCEPT ![id] = NoRow])
        /\ Committed(a, s, "delete", id)
  /\ UNCHANGED <<plan, nextId, redis, passes, index, visitor, acked>>

\* Without the lock, in the middle of a load.
MUTANT_Drop(s) == /\ idx' = [idx EXCEPT ![s].live = FALSE]
                  /\ dropped' = [dropped EXCEPT ![s] = Len(history)]
                  /\ UNCHANGED mu

\* Invalidate: the index of server s is expired, under its lock.
Drop(s) == /\ mu[s] = None
           /\ idx' = [idx EXCEPT ![s].live = FALSE]
           /\ dropped' = [dropped EXCEPT ![s] = Len(history)]
           /\ UNCHANGED mu

\* Only the local index, never the counter the other servers look at.
MUTANT_Invalidate(a) ==
  /\ admin[a].phase = "invalidate"
  /\ Drop(admin[a].at)
  /\ admin' = [admin EXCEPT ![a].phase = "reply"]
  /\ UNCHANGED <<plan, db, redis, passes, visitor, acked>>

Invalidate(a) ==
  /\ admin[a].phase = "invalidate"
  /\ Drop(admin[a].at)
  /\ admin' = [admin EXCEPT ![a].phase = "bump"]
  /\ UNCHANGED <<plan, db, redis, passes, visitor, acked>>

\* BumpDirectoryAccessVersion.
Increment == accessVersion' = accessVersion + 1 /\ covers' = Append(covers, Len(history))

Bump(a) ==
  /\ admin[a].phase = "bump"
  /\ Increment
  /\ admin' = [admin EXCEPT ![a].phase = "reply"]
  /\ UNCHANGED <<plan, db, passes, index, visitor, acked>>

\* INCR fails, or its answer is lost: an error answer, although the change is
\* committed.
BumpFails(a) ==
  /\ admin[a].phase = "bump" /\ "incr" \in Faults
  /\ UNCHANGED redis \/ Increment
  /\ admin' = [admin EXCEPT ![a] = AdminIdle]
  /\ UNCHANGED <<plan, db, passes, index, visitor, acked>>

\* The success answer.  After an update the row is read again: an error answer
\* when it is gone by then or the SELECT fails.
Reply(a) ==
  /\ admin[a].phase = "reply"
  /\ LET read == admin[a].op \in {"update", "secret"}
         gone == rows[admin[a].id] = NoRow
     IN  \/ /\ ~(read /\ gone)
            /\ acked' = IF admin[a].change < acked THEN acked ELSE admin[a].change
         \/ read /\ (gone \/ "load" \in Faults) /\ UNCHANGED acked
  /\ admin' = [admin EXCEPT ![a] = AdminIdle]
  /\ UNCHANGED <<plan, db, redis, passes, index, visitor>>

-----------------------------------------------------------------------------
(* A visitor asks for a directory: ensureDirectoryAccess.                   *)

Answer(r) == visitor' = [visitor EXCEPT ![r] = VisitorIdle]

BeginCheck(r) ==
  /\ visitor[r] = VisitorIdle /\ "check" \in plan.operations
  /\ \E s \in Servers, t \in Tokens, p \in Paths :
        visitor' = [visitor EXCEPT ![r] = [VisitorIdle EXCEPT
          !.phase = "version", !.at = s, !.token = t, !.path = p,
          !.floor = acked, !.own = dropped[s]]]
  /\ UNCHANGED <<plan, db, redis, passes, index, admin, acked>>

\* DirectoryAccessVersion.
GetVersion(r) ==
  /\ visitor[r].phase = "version"
  /\ visitor' = [visitor EXCEPT ![r] = [@ EXCEPT !.phase = "snapshot", !.tag = accessVersion]]
  /\ UNCHANGED <<plan, db, redis, passes, index, admin, acked>>

\* The version of an absent counter instead of a tag of its own.
MUTANT_GetVersionFails(r) ==
  /\ visitor[r].phase = "version" /\ "get" \in Faults
  /\ Drop(visitor[r].at)
  /\ visitor' = [visitor EXCEPT ![r] = [@ EXCEPT !.phase = "snapshot", !.tag = 0]]
  /\ UNCHANGED <<plan, db, redis, passes, admin, acked>>

\* When Redis does not answer, the index is expired and the clock's nanoseconds
\* stand for the version: a tag no other request has, here the slot itself.
GetVersionFails(r) ==
  /\ visitor[r].phase = "version" /\ "get" \in Faults
  /\ Drop(visitor[r].at)
  /\ visitor' = [visitor EXCEPT ![r] = [@ EXCEPT !.phase = "snapshot", !.tag = r]]
  /\ UNCHANGED <<plan, db, redis, passes, admin, acked>>

MUTANT_Current(s, tag) == idx[s].tag = tag
Current(s, tag) == idx[s].live /\ idx[s].tag = tag

\* snapshot(), when the index is current: under the read lock, or under the
\* write lock when another request has just loaded it.
Hit(r) ==
  /\ visitor[r].phase = "snapshot"
  /\ mu[visitor[r].at] = None /\ Current(visitor[r].at, visitor[r].tag)
  /\ visitor' = [visitor EXCEPT
                   ![r] = [@ EXCEPT !.phase = "passes", !.rules = idx[visitor[r].at].rules]]
  /\ UNCHANGED <<plan, db, redis, passes, index, admin, acked>>

\* snapshot(), when it is not: the rules are read under the write lock ...
Load(r) ==
  /\ visitor[r].phase = "snapshot"
  /\ mu[visitor[r].at] = None /\ ~Current(visitor[r].at, visitor[r].tag)
  /\ mu' = [mu EXCEPT ![visitor[r].at] = r]
  /\ visitor' = [visitor EXCEPT
                   ![r] = [@ EXCEPT !.phase = "publish", !.rules = Enforced(rows)]]
  /\ UNCHANGED <<plan, db, redis, passes, idx, dropped, admin, acked>>

MUTANT_LoadFails(r) ==
  /\ visitor[r].phase = "publish" /\ "load" \in Faults
  /\ Answer(r)
  /\ UNCHANGED <<plan, db, redis, passes, index, admin, acked>>

\* ... or the SELECT fails and the deferred Unlock releases it, ...
LoadFails(r) ==
  /\ visitor[r].phase = "publish" /\ "load" \in Faults
  /\ mu' = [mu EXCEPT ![visitor[r].at] = None]
  /\ Answer(r)
  /\ UNCHANGED <<plan, db, redis, passes, idx, dropped, admin, acked>>

\* Filed under the version of now.
MUTANT_Publish(r) ==
  /\ visitor[r].phase = "publish"
  /\ idx' = [idx EXCEPT ![visitor[r].at] =
               [rules |-> visitor[r].rules, tag |-> accessVersion, live |-> TRUE]]
  /\ mu' = [mu EXCEPT ![visitor[r].at] = None]
  /\ visitor' = [visitor EXCEPT ![r].phase = "passes"]
  /\ UNCHANGED <<plan, db, redis, passes, dropped, admin, acked>>

\* ... and they become the index, under the version asked for.
Publish(r) ==
  /\ visitor[r].phase = "publish"
  /\ idx' = [idx EXCEPT ![visitor[r].at] =
               [rules |-> visitor[r].rules, tag |-> visitor[r].tag, live |-> TRUE]]
  /\ mu' = [mu EXCEPT ![visitor[r].at] = None]
  /\ visitor' = [visitor EXCEPT ![r].phase = "passes"]
  /\ UNCHANGED <<plan, db, redis, passes, dropped, admin, acked>>

\* accessKey: the secret a pass was given for is not part of the key, nor is the
\* rule; every rule begins with version 1.
Key(pass) == <<pass.token, pass.path, pass.version>>
Passed(t, p, v) == \E pass \in passes : Key(pass) = <<t, p, v>>

\* Without a protected ancestor nothing is read; HasPasswordsPassed otherwise.
CheckPasses(r) ==
  LET request == visitor[r]
      needed == RulesFor(request.rules, request.path)
  IN  /\ request.phase = "passes"
      /\ visitor' = [visitor EXCEPT ![r].phase =
           IF \A q \in needed : Passed(request.token, q, request.rules[q])
           THEN "granted" ELSE "denied"]
      /\ UNCHANGED <<plan, db, redis, passes, index, admin, acked>>

CheckFails(r) ==
  /\ visitor[r].phase = "passes" /\ "mget" \in Faults
  /\ RulesFor(visitor[r].rules, visitor[r].path) # {}
  /\ Answer(r)
  /\ UNCHANGED <<plan, db, redis, passes, index, admin, acked>>

\* The handler serves the directory or answers directory_password_required.
Finish(r) ==
  /\ visitor[r].phase \in {"granted", "denied"}
  /\ Answer(r)
  /\ UNCHANGED <<plan, db, redis, passes, index, admin, acked>>

-----------------------------------------------------------------------------
(* A visitor submits a password: submitDirectoryPassword.                   *)

\* The rule is read and the secret compared with its hash.
SubmitRead(r) ==
  /\ visitor[r] = VisitorIdle /\ "submit" \in plan.operations
  /\ \E s \in Servers, t \in Tokens, id \in RuleIds :
        /\ rows[id] # NoRow /\ rows[id].enabled
        /\ visitor' = [visitor EXCEPT ![r] = [VisitorIdle EXCEPT
             !.phase = "mark", !.at = s,
             !.pass = [token |-> t, path |-> rows[id].path, version |-> rows[id].version,
                       secret |-> rows[id].secret]]]
  /\ UNCHANGED <<plan, db, redis, passes, index, admin, acked>>

\* A wrong secret or an unprotected directory: an error answer, no change.
SubmitRejected(r) == /\ visitor[r] = VisitorIdle /\ "submit" \in plan.operations
                     /\ UNCHANGED vars

\* MarkPasswordPassed: SET replaces a key that is there.
MarkPassed(r) ==
  /\ visitor[r].phase = "mark"
  /\ passes' = {pass \in passes : Key(pass) # Key(visitor[r].pass)} \cup {visitor[r].pass}
  /\ Answer(r)
  /\ UNCHANGED <<plan, db, redis, index, admin, acked>>

MarkFails(r) ==
  /\ visitor[r].phase = "mark" /\ "set" \in Faults
  /\ Answer(r)
  /\ UNCHANGED <<plan, db, redis, passes, index, admin, acked>>

-----------------------------------------------------------------------------
(* Time and failures.                                                       *)

\* The session TTL of a pass runs out.
PassExpires == /\ \E pass \in passes : passes' = passes \ {pass}
               /\ UNCHANGED <<plan, db, redis, index, admin, visitor, acked>>

\* directoryAccessIndexTTL runs out.
IndexExpires(s) == /\ idx[s].live
                   /\ idx' = [idx EXCEPT ![s].live = FALSE]
                   /\ UNCHANGED <<plan, db, redis, passes, mu, dropped, admin, visitor, acked>>

\* A server stops, with every handler it runs, and starts with an empty index.
Crash(s) ==
  /\ "crash" \in Faults
  /\ idx' = [idx EXCEPT ![s] = EmptyIndex]
  /\ mu' = [mu EXCEPT ![s] = None]
  /\ admin' = [a \in Admins |-> IF admin[a].at = s THEN AdminIdle ELSE admin[a]]
  /\ visitor' = [r \in Visitors |-> IF visitor[r].at = s THEN VisitorIdle ELSE visitor[r]]
  /\ UNCHANGED <<plan, db, redis, passes, dropped, acked>>

-----------------------------------------------------------------------------
\* The steps of a handler that has begun, without and with those that wait for
\* the lock of an index.
AdminStep(a) == WriteRule(a) \/ WriteFails(a) \/ Bump(a) \/ BumpFails(a) \/ Reply(a)
VisitorStep(r) ==
  \/ GetVersion(r) \/ GetVersionFails(r) \/ LoadFails(r) \/ Publish(r)
  \/ CheckPasses(r) \/ CheckFails(r) \/ Finish(r) \/ MarkPassed(r) \/ MarkFails(r)
Locked(r) == Hit(r) \/ Load(r)

Next == \/ \E a \in Admins : CreateRule(a) \/ ReadRule(a) \/ DeleteRule(a)
                             \/ AdminStep(a) \/ Invalidate(a)
        \/ \E r \in Visitors : BeginCheck(r) \/ SubmitRead(r) \/ SubmitRejected(r)
                               \/ VisitorStep(r) \/ Locked(r)
        \/ \E s \in Servers : IndexExpires(s) \/ Crash(s)
        \/ PassExpires

Spec == Init /\ [][Next]_vars

\* A goroutine that can run does run; the index TTL runs out; and the runtime's
\* mutex does not pass over a waiting goroutine for ever.  Nobody has to send a
\* request, and no call has to fail.
Fairness == /\ \A a \in Admins : WF_vars(AdminStep(a)) /\ SF_vars(Invalidate(a))
            /\ \A r \in Visitors : WF_vars(VisitorStep(r)) /\ SF_vars(Locked(r))
            /\ \A s \in Servers : WF_vars(IndexExpires(s))

FairSpec == Spec /\ Fairness

-----------------------------------------------------------------------------
(* Properties.                                                              *)

RuleRow == [path: Paths, secret: Secrets, enabled: BOOLEAN, version: Nat \ {0}]
Rules == [Paths -> Nat]
Pass == [token: Tokens, path: Paths, version: Nat \ {0}, secret: Secrets]
Index == [rules: Rules, tag: Nat \cup Visitors, live: BOOLEAN]
AdminHandler ==
  [phase: {"idle", "write", "invalidate", "bump", "reply"}, at: Servers \cup {None},
   op: Operations \cup {"none"}, id: RuleIds \cup {0}, version: Nat, change: Nat]
VisitorHandler ==
  [phase: {"idle", "version", "snapshot", "publish", "passes", "granted", "denied", "mark"},
   at: Servers \cup {None}, path: Paths \cup {None}, token: Tokens \cup {None},
   tag: Nat \cup Visitors, rules: Rules, pass: Pass \cup {None}, floor: Nat, own: Nat]

TableType == /\ rows \in [RuleIds -> RuleRow \cup {NoRow}]
             /\ nextId \in 1 .. MaxRules + 1
             /\ history \in Seq(Rules) /\ history # <<>>
             /\ owners \in [Paths -> SUBSET RuleIds]
RedisType == accessVersion \in Nat /\ covers \in Seq(Nat) /\ passes \subseteq Pass /\ acked \in Nat
IndexType == /\ idx \in [Servers -> Index]
             /\ mu \in [Servers -> Visitors \cup {None}]
             /\ dropped \in [Servers -> Nat]
AdminType == /\ admin \in [Admins -> AdminHandler]
             /\ \A a \in Admins : admin[a].phase # "idle" =>
                  /\ admin[a].at \in Servers /\ admin[a].id \in RuleIds
                  /\ admin[a].op \in Operations
VisitorType == /\ visitor \in [Visitors -> VisitorHandler]
               /\ \A r \in Visitors :
                    /\ visitor[r].phase # "idle" => visitor[r].at \in Servers
                    /\ visitor[r].phase \notin {"idle", "mark"} =>
                         visitor[r].path \in Paths /\ visitor[r].token \in Tokens
                    /\ visitor[r].phase = "mark" => visitor[r].pass \in Pass

\* Every variable has its type (the columns, Redis values and Go types the code
\* declares), and a handler that runs has the parameters of its request.
TypeOK == plan \in Plans /\ TableType /\ RedisType /\ IndexType /\ AdminType /\ VisitorType

Answered(r) == visitor[r].phase \in {"granted", "denied"}

\* The rules in use were the enforced ones at some moment since position n.
Occurs(rules, h, n) == \E k \in n .. Len(h) : rules = h[k]
Since(rules, n) == Occurs(rules, history, n)

\* A request is answered by the rules of one moment, and that moment is not
\* before the last change any administrator was told of when the request began,
\* whichever server either of them talked to (router.go:1014, 1069).
AckedChangesSeen ==
  \A r \in Visitors : Answered(r) => Since(visitor[r].rules, visitor[r].floor)

\* A request to the server that handled a change, begun after that server
\* dropped its index, sees the change even when the counter in Redis was not
\* incremented (router.go:1070-1071).
OwnChangesSeen ==
  \A r \in Visitors : Answered(r) => Since(visitor[r].rules, visitor[r].own)

\* The key of a pass is that of rule id now (access_index.go:54, redis_store.go:245).
Opens(pass, id) ==
  rows[id] # NoRow /\ rows[id].path = pass.path /\ rows[id].version = pass.version

\* A pass that opens a directory now was given for the directory's present
\* secret, however often its rule was changed, moved or switched since and
\* however late the pass was stored, if the path has had one rule only
\* (router.go:787, 845).  A path given to a second rule is left out here:
\* versions begin again at 1, see OldPassesInvalidated.
PassesMatchRules ==
  \A pass \in passes, id \in RuleIds :
    owners[pass.path] = {id} /\ Opens(pass, id) => rows[id].secret = pass.secret

\* While no administrator's request is being handled, no pass given for another
\* secret opens a directory, whichever rules the path has had (README.md:310).
OldPassesInvalidated ==
  (\A a \in Admins : admin[a] = AdminIdle) =>
    \A pass \in passes, id \in RuleIds : Opens(pass, id) => rows[id].secret = pass.secret

\* Every request, a visitor's or an administrator's, is answered: no lock is
\* left behind by a handler that fails or by a server that stops.
RequestsAnswered ==
  /\ \A r \in Visitors : visitor[r] # VisitorIdle ~> visitor[r] = VisitorIdle
  /\ \A a \in Admins : admin[a] # AdminIdle ~> admin[a] = AdminIdle

\* Once nothing changes any more, every answer comes to be by the rules of the
\* table, also where increments of the counter were lost: no index outlives its
\* TTL (access_index.go:64, 93).
EventuallyEnforced ==
  <>[](\A r \in Visitors : Answered(r) => visitor[r].rules = Enforced(rows))

-----------------------------------------------------------------------------
(* Why AckedChangesSeen and OwnChangesSeen hold: an inductive invariant.    *)

\* The position of history that version v of the counter vouches for.
Cover(v) == IF v = 0 THEN 1 ELSE covers[v]

\* The history begins with no rules and ends with those of the table.
HistoryInv == history[1] = NoRules /\ history[Len(history)] = Enforced(rows)

\* Versions vouch for ever later positions, and the acknowledged one is vouched
\* for by the present version.
CounterInv ==
  /\ Len(covers) = accessVersion
  /\ \A v \in 1 .. accessVersion : covers[v] \in 1 .. Len(history)
  /\ \A v, w \in 1 .. accessVersion : v <= w => covers[v] <= covers[w]
  /\ acked \in 1 .. Cover(accessVersion)

\* An administrator about to be answered is vouched for as well.
AdminInv ==
  \A a \in Admins : /\ admin[a].change \in 1 .. Len(history)
                    /\ admin[a].phase = "reply" => admin[a].change <= Cover(accessVersion)

\* Rules filed under a version are at least as recent as it vouches for, and
\* those of an index in use as recent as its last Invalidate.
IndexFresh(s) ==
  /\ dropped[s] \in 1 .. Len(history)
  /\ idx[s].tag \in Nat => /\ idx[s].tag <= accessVersion
                           /\ Since(idx[s].rules, Cover(idx[s].tag))
  /\ idx[s].live => Since(idx[s].rules, dropped[s])

\* What a request knows in each phase.  The one that loads holds the lock.
RequestFresh(v, r) ==
  /\ v.floor \in 1 .. acked /\ v.own >= 1
  /\ v.phase \in {"version", "snapshot", "publish"} => v.own <= dropped[v.at]
  /\ v.phase \in {"snapshot", "publish"} =>
       \/ v.tag \in Nat /\ v.tag <= accessVersion /\ v.floor <= Cover(v.tag)
       \/ v.tag = r
  /\ v.phase = "snapshot" /\ v.tag = r => ~Current(v.at, r)
  /\ v.phase = "publish" =>
       /\ mu[v.at] = r
       /\ Since(v.rules, v.floor) /\ Since(v.rules, dropped[v.at])
       /\ v.tag \in Nat => Since(v.rules, Cover(v.tag))
  /\ v.phase \in {"passes", "granted", "denied"} =>
       Since(v.rules, v.floor) /\ Since(v.rules, v.own)

IndexInv == \A s \in Servers : IndexFresh(s)
VisitorInv == \A r \in Visitors : RequestFresh(visitor[r], r)

\* A version of the counter vouches for every change acknowledged when it was
\* read, rules are filed only under a version read before they were, and the
\* lock keeps an Invalidate out of a load (access_index.go:71-94).
FreshnessInv == HistoryInv /\ CounterInv /\ AdminInv /\ IndexInv /\ VisitorInv

-----------------------------------------------------------------------------
(* The cache in front of the rules is a FreshReads register.                *)

AbstractReader(r) ==
  LET v == visitor[r]
  IN  CASE v.phase \in {"idle", "mark"} -> [phase |-> "idle"]
        [] v.phase \in {"granted", "denied"} ->
             [phase |-> "decided", floor |-> v.floor, used |-> v.rules]
        [] OTHER -> [phase |-> "open", floor |-> v.floor]

Register == INSTANCE FreshReads
  WITH Readers <- Visitors, Contents <- Rules, Initial <- NoRules,
       reader <- [r \in Visitors |-> AbstractReader(r)]

\* The rule index, the counter and the handlers implement the register: the
\* steps that are not changes, acknowledgements, arrivals, decisions or ends of
\* requests change nothing a caller can see.
ImplementsRegister == Register!Spec
=============================================================================
